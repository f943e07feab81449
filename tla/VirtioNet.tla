------------------------------- MODULE VirtioNet -------------------------------
(***************************************************************************)
(* The legacy virtio network card and its driver (kernel/src/virtio_net.rs). *)
(*                                                                         *)
(* The receive queue is a split virtqueue: the driver posts descriptors in   *)
(* the available ring, the device fills their packets and hands them back in *)
(* the used ring.  Ring indices are free-running 16 bit counters.  There is  *)
(* one transmit packet and one transmit descriptor, so of the transmit rings *)
(* only the indices matter.  The device works beside the driver at any time. *)
(* State: a started device; what a frame holds is the stack's business, and  *)
(* a packet nobody will read any more is empty.                              *)
(***************************************************************************)
EXTENDS Integers, Sequences, SequencesExt

CONSTANTS
    QSize,      \* entries of a ring
    IdxMod,     \* indices wrap here: 2^16
    NRx         \* ACTIVE_RX_DESCRIPTORS

ASSUME VirtioAssumption ==
    /\ NRx \in Nat \ {0} /\ QSize \in Nat /\ QSize >= NRx
    /\ IdxMod \in Nat /\ IdxMod > QSize /\ IdxMod % QSize = 0

RxIds == 0 .. NRx - 1
None == [id |-> NRx, frame |-> <<>>]        \* no descriptor
IsNone(h) == h.id = NRx

VARIABLES
    rx,             \* the receive queue, with the place each side has reached
    rx_packets,     \* RX_PACKETS
    hand,           \* driver: what receive_into took and has not reposted, or None
    tx,             \* indices of the transmit queue and tx_outstanding
    tx_packet,      \* TX_PACKET
    accepted        \* frames transmit accepted that are not on the wire yet

nic == <<rx, rx_packets, hand, tx, tx_packet, accepted>>
rxSide == <<rx, rx_packets, hand>>
txSide == <<tx, tx_packet, accepted>>

Next16(i) == (i + 1) % IdxMod

\* push_avail: the entry first, then the index that publishes it.
PushAvail(q, d) ==
    [q EXCEPT !.avail[q.avail_idx % QSize] = d, !.avail_idx = Next16(@)]

\* setup_queue clears the queue's memory.
SetupQueue ==
    [avail |-> [s \in 0 .. QSize - 1 |-> 0], avail_idx |-> 0, seen |-> 0,
     used |-> [s \in 0 .. QSize - 1 |-> 0], used_idx |-> 0, last_used |-> 0]

PostInitialRx == FoldLeft(PushAvail, SetupQueue, [i \in 1 .. NRx |-> i - 1])

\* setup_tx_descriptor and Transport::empty.
SetupTx == [avail_idx |-> 0, seen |-> 0, used_idx |-> 0,
            last_used |-> 0, outstanding |-> FALSE]

NicInit ==
    /\ rx = PostInitialRx
    /\ rx_packets = [d \in RxIds |-> <<>>]
    /\ hand = None
    /\ tx = SetupTx /\ tx_packet = <<>> /\ accepted = <<>>

-----------------------------------------------------------------------------
(***************************************************************************)
(* The driver.                                                             *)
(***************************************************************************)
ReapTx(t) ==
    IF t.outstanding /\ t.used_idx # t.last_used
    THEN [t EXCEPT !.last_used = t.used_idx, !.outstanding = FALSE]
    ELSE t

\* Mutant of Transmit: the packet is overwritten while the device may read it.
TransmitAnyway(f) ==
    /\ tx_packet' = f
    /\ tx' = [ReapTx(tx) EXCEPT !.avail_idx = Next16(@), !.outstanding = TRUE]
    /\ accepted' = Append(accepted, f)

\* transmit: with a packet still outstanding the frame is dropped.
Transmit(f) ==
    LET t == ReapTx(tx) IN
    \/ /\ t.outstanding
       /\ tx' = t
       /\ UNCHANGED <<tx_packet, accepted>>
    \/ /\ ~t.outstanding
       /\ tx_packet' = f
       /\ tx' = [t EXCEPT !.avail_idx = Next16(@), !.outstanding = TRUE]
       /\ accepted' = Append(accepted, f)

HasUsed == rx.used_idx # rx.last_used

\* receive_into up to the copy: the next used descriptor and what it holds.
ReceiveTakes ==
    /\ HasUsed /\ IsNone(hand)
    /\ LET d == rx.used[rx.last_used % QSize]
       IN  hand' = [id |-> d, frame |-> rx_packets[d]]
    /\ rx' = [rx EXCEPT !.last_used = Next16(@)]
    /\ UNCHANGED <<rx_packets, txSide>>

\* repost_rx, after the copy or the decision to drop the packet.
ReceiveReposts ==
    /\ ~IsNone(hand)
    /\ rx' = PushAvail(rx, hand.id)
    /\ rx_packets' = [rx_packets EXCEPT ![hand.id] = <<>>]
    /\ hand' = None
    /\ UNCHANGED txSide

\* poll.
VirtioPoll ==
    /\ tx' = ReapTx(tx)
    /\ UNCHANGED <<rxSide, tx_packet, accepted>>

-----------------------------------------------------------------------------
(***************************************************************************)
(* The device.                                                             *)
(***************************************************************************)
\* The next posted packet is filled and handed back.
DeviceReceives(f) ==
    /\ rx.seen # rx.avail_idx
    /\ LET d == rx.avail[rx.seen % QSize]
       IN  /\ rx_packets' = [rx_packets EXCEPT ![d] = f]
           /\ rx' = [rx EXCEPT !.seen = Next16(@), !.used[rx.used_idx % QSize] = d,
                               !.used_idx = Next16(@)]
    /\ UNCHANGED <<hand, txSide>>

\* The frame that goes out is the one TX_PACKET holds now.
DeviceSends ==
    /\ tx.seen # tx.avail_idx
    /\ tx' = [tx EXCEPT !.seen = Next16(@), !.used_idx = Next16(@)]
    /\ accepted' = Tail(accepted)
    /\ tx_packet' = <<>>
    /\ UNCHANGED rxSide

-----------------------------------------------------------------------------
(***************************************************************************)
(* Properties.                                                             *)
(***************************************************************************)
\* The entries of a ring between two indices.
Between(ring, from, to) ==
    [k \in 1 .. (to - from) % IdxMod |-> ring[(from + k - 1) % QSize]]

Held(h) == IF IsNone(h) THEN <<>> ELSE <<h.id>>

\* No packet has two owners, across any wrap of the 16 bit indices: every receive
\* descriptor is exactly once either posted, used, or in the hands of
\* receive_into, and the transmit packet keeps the frame transmit accepted
\* until the device has sent it.
BuffersOwned ==
    /\ LET places == Between(rx.avail, rx.seen, rx.avail_idx) \o Held(hand)
                     \o Between(rx.used, rx.last_used, rx.used_idx)
       IN  Len(places) = NRx /\ ToSet(places) = RxIds
    /\ accepted # <<>> => tx.outstanding /\ accepted = <<tx_packet>>
=============================================================================
