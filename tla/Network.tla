-------------------------------- MODULE Network --------------------------------
(***************************************************************************)
(* The network runtime (kernel/src/network.rs) over the card (VirtioNet):    *)
(* the sockets of processes, the echo service, DHCP, DNS queries and ping.   *)
(*                                                                         *)
(* rt is RUNTIME.  Task 0 polls it step by step with interrupts on, while    *)
(* the device goes on working; the calls of processes and of the shell run   *)
(* with interrupts off, between two polls, and are the operators from a      *)
(* Runtime to the next one below.  (A call made while task 0 is preempted    *)
(* inside a poll spins on RUNTIME for ever: that end is not a state here.)   *)
(*                                                                         *)
(* smoltcp is a library: sockets, the DHCP client and the DNS resolver are   *)
(* modelled as the runtime uses them.  Its timers may fire in any poll.  TCP *)
(* keeps its connection state only.                                         *)
(***************************************************************************)
EXTENDS VirtioNet, FiniteSets

CONSTANTS
    Procs,          \* processes
    NUser,          \* MAX_USER_SOCKETS
    NDns,           \* places of dns_queries
    Ports,          \* ports of services
    Ephemeral,      \* local ports of connections: 49152 .. 65534
    Leases,         \* leases the DHCP server grants: address, router, DNS server,
                    \* the last two 0 when the server leaves them out
    Targets,        \* addresses that answer a ping
    PingMod,        \* ping_sequence wraps here: 2^16
    Meta,           \* UDP_META_SLOTS, and the packets of the ICMP buffers
    MaxLoad         \* bound on calls, received frames and timers that fire

ASSUME NetworkAssumption ==
    /\ NUser \in Nat \ {0} /\ NDns \in Nat \ {0} /\ PingMod \in Nat \ {0} /\ Meta \in Nat \ {0}
    /\ Ports \subseteq Nat \ {0} /\ Ephemeral \subseteq Nat \ {0} /\ Ephemeral # {}
    /\ Targets \subseteq Nat \ {0}
    /\ \A l \in Leases : DOMAIN l = 1 .. 3 /\ l[1] # 0
    /\ MaxLoad \in Nat

VARIABLES
    rt,         \* RUNTIME
    step,       \* where task 0 is in poll
    net,        \* frames the network may deliver, at any time and more than once
    alive,      \* state of each process
    calls,      \* calls made so far; also names each request
    events,     \* frames received and timers fired so far
    mine,       \* the query each process believes each of its DNS ids stands for
    answer      \* the request and the reply of the last answer given

vars == <<nic, rt, step, net, alive, calls, events, mine, answer>>
world == <<alive, calls, mine, answer>>

\* The default address, gateway and DNS server; also: no lease.
Static == <<0, 0, 0>>

Bound == calls + events < MaxLoad

UserIds == 0 .. NUser - 1
DnsIds == 0 .. NDns - 1
Handles == 0 .. NUser + 3
DhcpHandle == 0
DnsHandle == 1
PingHandle == 2
NoHandle == NUser + 4

Frame(k, n, src, tag) == [k |-> k, n |-> n, src |-> src, tag |-> tag, lease |-> Static]

\* What the other end may send after it has seen frame f.
Replies(f) ==
    CASE f.k = "discover" -> {[Frame("lease", 0, 0, 0) EXCEPT !.lease = l] : l \in Leases}
      [] f.k = "query" -> {Frame("answer", 0, 0, f.tag)}
      [] f.k = "ping" -> {Frame("pong", f.n, f.src, f.tag)}
      [] f.k = "connect" -> {Frame("accepted", f.n, 0, 0), Frame("reset", f.n, 0, 0)}
      [] f.k = "datagram" -> {}

Unsolicited == {Frame("udp", p, 0, 0) : p \in Ports} \cup {Frame("open", p, 0, 0) : p \in Ports}
               \cup {Frame("runt", 0, 0, 0)}

-----------------------------------------------------------------------------
(***************************************************************************)
(* smoltcp's SocketSet: add reuses the first free place.                    *)
(***************************************************************************)
Socket(type) == [type |-> type, port |-> 0, st |-> "Closed", rxq |-> <<>>, txq |-> <<>>]
FreeHandles(r) == {h \in Handles : r.sockets[h].type = "none"}
Add(r, sock) == [r EXCEPT !.sockets[Min(FreeHandles(r))] = sock]
Discard(r, h) == [r EXCEPT !.sockets[h] = Socket("none")]
Queue(r, h, f) == [r EXCEPT !.sockets[h].txq = Append(@, f)]
Room(q) == Len(q) < Meta

NoProc == 0
NoUser == [owner |-> NoProc, handle |-> NoHandle, kind |-> "none", peer |-> 0]
NoPing == [target |-> 0, seq |-> 0, late |-> FALSE, tag |-> 0]
NoQuery == [st |-> "Free", tag |-> 0]

-----------------------------------------------------------------------------
(***************************************************************************)
(* The address configuration.  conf is what the runtime reports (ipv4 and    *)
(* prefix, gateway, dns_server), iface what the interface uses, servers what *)
(* the resolver asks.                                                       *)
(***************************************************************************)
Configure(r, c, leased) ==
    [r EXCEPT !.iface = <<c[1], c[2]>>, !.conf = c, !.using_dhcp = leased, !.servers = c[3]]

ApplyStaticLocked(r) == Configure(r, Static, FALSE)

\* The DHCP client: a change of its state waits until the runtime asks for it.
DhcpReset(r) ==
    [r EXCEPT !.dhcp.changed = @ \/ r.dhcp.lease # Static, !.dhcp.lease = Static]

\* Mutant of SetDhcp: the client keeps its lease while it is switched off.
SetDhcpKeepsLease(r, enabled) ==
    LET s == [r EXCEPT !.dhcp_enabled = enabled]
    IN  IF enabled THEN s ELSE ApplyStaticLocked(s)

SetDhcp(r, enabled) ==
    LET s == [r EXCEPT !.dhcp_enabled = enabled]
    IN  IF enabled THEN s ELSE ApplyStaticLocked(DhcpReset(s))

\* poll, between its two visits of the interface: the DHCP event ...
ApplyDhcp(r) ==
    IF ~(r.dhcp_enabled /\ r.dhcp.changed) THEN r
    ELSE LET s == [r EXCEPT !.dhcp.changed = FALSE] IN
         IF r.dhcp.lease # Static THEN Configure(s, r.dhcp.lease, TRUE)
         ELSE IF r.using_dhcp THEN ApplyStaticLocked(s) ELSE s

\* ... and one datagram of the echo service.
EchoOnce(r) ==
    IF r.echo_handle = NoHandle \/ r.sockets[r.echo_handle].rxq = <<>> THEN r
    ELSE LET s == [r EXCEPT !.sockets[r.echo_handle].rxq = Tail(@)]
         IN  IF Room(s.sockets[r.echo_handle].txq)
             THEN Queue(s, r.echo_handle, Frame("datagram", r.echo_port, 0, 0)) ELSE s

StartUdpEcho(r, port) ==
    IF r.echo_handle # NoHandle THEN r
    ELSE [Add(r, [Socket("udp") EXCEPT !.port = port, !.st = "Bound"])
            EXCEPT !.echo_handle = Min(FreeHandles(r)), !.echo_port = port]

-----------------------------------------------------------------------------
(***************************************************************************)
(* The sockets of processes.                                                *)
(***************************************************************************)
\* find_slot.
Owns(r, p, id) == r.user[id].owner = p
Sock(r, id) == r.sockets[r.user[id].handle]

NextEphemeral(r) ==
    [r EXCEPT !.next_ephemeral = IF @ = Max(Ephemeral) THEN Min(Ephemeral) ELSE @ + 1]

SocketOpen(r, p, kind) ==
    LET free == {id \in UserIds : r.user[id].owner = NoProc} IN
    IF free = {} THEN r
    ELSE [Add(r, Socket(kind)) EXCEPT
            !.user[Min(free)] = [owner |-> p, handle |-> Min(FreeHandles(r)),
                                 kind |-> kind, peer |-> 0]]

\* UDP binds, TCP listens; either only once.
SocketBind(r, p, id, port) ==
    IF ~Owns(r, p, id) \/ Sock(r, id).st # "Closed" THEN r
    ELSE [r EXCEPT !.sockets[r.user[id].handle].port = port,
                   !.sockets[r.user[id].handle].st =
                       IF r.user[id].kind = "tcp" THEN "Listen" ELSE "Bound"]

\* A refused TCP connection has already used up its local port.
SocketConnect(r, p, id, peer) ==
    IF ~Owns(r, p, id) THEN r
    ELSE IF r.user[id].kind = "udp" THEN [r EXCEPT !.user[id].peer = peer]
    ELSE IF Sock(r, id).st # "Closed" THEN NextEphemeral(r)
    ELSE [NextEphemeral(r) EXCEPT
            !.sockets[r.user[id].handle].st = "SynSent",
            !.sockets[r.user[id].handle].port = r.next_ephemeral,
            !.user[id].peer = peer]

\* UDP needs a peer, a bound socket and room; TCP data is not told apart.
SocketSend(r, p, id) ==
    IF /\ Owns(r, p, id) /\ r.user[id].kind = "udp" /\ r.user[id].peer # 0
       /\ Sock(r, id).st = "Bound" /\ Room(Sock(r, id).txq)
    THEN Queue(r, r.user[id].handle, Frame("datagram", r.user[id].peer, 0, 0))
    ELSE r

\* A datagram longer than the buffer is taken all the same, and the caller is
\* told that it would block.
SocketRecv(r, p, id) ==
    IF Owns(r, p, id) /\ Sock(r, id).rxq # <<>>
    THEN [r EXCEPT !.sockets[r.user[id].handle].rxq = Tail(@)] ELSE r

\* Mutant of CloseSlot: the socket stays in the set.
CloseSlotOnly(r, id) == [r EXCEPT !.user[id] = NoUser]

CloseSlot(r, id) == [Discard(r, r.user[id].handle) EXCEPT !.user[id] = NoUser]

SocketClose(r, p, id) == IF Owns(r, p, id) THEN CloseSlot(r, id) ELSE r

CloseProcessSockets(r, p) ==
    FoldLeft(LAMBDA s, id : SocketClose(s, p, id), r, [i \in 1 .. NUser |-> i - 1])

-----------------------------------------------------------------------------
(***************************************************************************)
(* DNS queries and ping.  Their ids are not bound to a process.             *)
(***************************************************************************)
\* The first free place of the runtime takes the first free query of smoltcp.
FreeDns(r) == {i \in DnsIds : r.dns_queries[i] = NDns}
DnsStart(r, tag) ==
    LET q == Min({i \in DnsIds : r.dns[i].st = "Free"})
    IN  [r EXCEPT !.dns[q] = [st |-> "Pending", tag |-> tag], !.dns_queries[Min(FreeDns(r))] = q]

\* get_query_result frees the query unless it is still pending.
DnsPoll(r, i) ==
    IF r.dns_queries[i] = NDns \/ r.dns[r.dns_queries[i]].st = "Pending" THEN r
    ELSE [r EXCEPT !.dns[r.dns_queries[i]] = NoQuery, !.dns_queries[i] = NDns]

\* A request that finds the buffer full has used up a sequence number.
PingStart(r, target, tag) ==
    LET seq == (r.ping_sequence + 1) % PingMod IN
    IF r.ping_pending # NoPing THEN r
    ELSE IF ~Room(r.sockets[PingHandle].txq) THEN [r EXCEPT !.ping_sequence = seq]
    ELSE [Queue(r, PingHandle, Frame("ping", seq, target, tag)) EXCEPT
            !.ping_sequence = seq,
            !.ping_pending = [target |-> target, seq |-> seq, late |-> FALSE, tag |-> tag]]


PingMatches(r, f) == f.src = r.ping_pending.target /\ f.n = r.ping_pending.seq

\* ping_poll takes one packet, unless five seconds have passed.
PingTakes(r) == ~r.ping_pending.late /\ r.sockets[PingHandle].rxq # <<>>
PingAnswered(r) == PingTakes(r) /\ PingMatches(r, Head(r.sockets[PingHandle].rxq))
PingPoll(r) ==
    [r EXCEPT !.ping_pending = IF @.late \/ PingAnswered(r) THEN NoPing ELSE @,
              !.sockets[PingHandle].rxq = IF PingTakes(r) THEN Tail(@) ELSE @]

-----------------------------------------------------------------------------
(***************************************************************************)
(* Interface::poll: what smoltcp makes of a received frame.                 *)
(***************************************************************************)
Accepting(r, type, st, port) ==
    {h \in Handles : /\ r.sockets[h].type = type /\ r.sockets[h].st \in st
                     /\ r.sockets[h].port = port}

Deliver(r, h, f) ==
    IF Room(r.sockets[h].rxq) THEN [r EXCEPT !.sockets[h].rxq = Append(@, f)] ELSE r

\* The first socket that accepts the frame moves to state st.
Move(r, hs, st) == IF hs = {} THEN r ELSE [r EXCEPT !.sockets[Min(hs)].st = st]

Process(r, f) ==
    CASE f.k = "lease" -> [r EXCEPT !.dhcp = [lease |-> f.lease,
                                              changed |-> @.changed \/ @.lease # f.lease]]
      [] f.k = "answer" -> [r EXCEPT !.dns = [q \in DnsIds |->
             IF @[q] = [st |-> "Pending", tag |-> f.tag] THEN [@[q] EXCEPT !.st = "Done"] ELSE @[q]]]
      [] f.k = "pong" -> Deliver(r, PingHandle, f)
      [] f.k = "udp" -> LET hs == Accepting(r, "udp", {"Bound"}, f.n)
                        IN  IF hs = {} THEN r ELSE Deliver(r, Min(hs), f)
      [] f.k = "open" -> Move(r, Accepting(r, "tcp", {"Listen"}, f.n), "Established")
      [] f.k = "accepted" -> Move(r, Accepting(r, "tcp", {"SynSent"}, f.n), "Established")
      [] f.k = "reset" -> Move(r, Accepting(r, "tcp", {"SynSent", "Established"}, f.n), "Closed")
      [] f.k = "runt" -> r

\* Frames the timers of smoltcp may send: nothing waits in a buffer for them.
Due(r) ==
    (IF r.dhcp.lease = Static THEN {Frame("discover", 0, 0, 0)} ELSE {})
    \cup {Frame("query", 0, 0, r.dns[q].tag) : q \in {i \in DnsIds : r.dns[i].st = "Pending"}}
    \cup {Frame("connect", r.sockets[h].port, 0, 0) :
             h \in {g \in Handles : r.sockets[g].st = "SynSent"}}

-----------------------------------------------------------------------------
(***************************************************************************)
(* poll, by task 0.                                                         *)
(***************************************************************************)
Event == Bound /\ events' = events + 1

InIface == step \in {"iface1", "iface2"} /\ IsNone(hand)

PollStarts ==
    /\ step = "idle"
    /\ VirtioPoll
    /\ step' = "iface1"
    /\ UNCHANGED <<rt, net, events, world>>

PollReceives ==
    /\ InIface
    /\ ReceiveTakes
    /\ UNCHANGED <<rt, step, net, events, world>>

PollProcesses ==
    /\ step \in {"iface1", "iface2"}
    /\ ReceiveReposts
    /\ rt' = Process(rt, hand.frame)
    /\ UNCHANGED <<step, net, events, world>>

\* A queued packet leaves its buffer even if the card is busy and drops it.
PollSends ==
    /\ InIface
    /\ \E h \in Handles :
          /\ rt.sockets[h].txq # <<>>
          /\ Transmit(Head(rt.sockets[h].txq))
          /\ rt' = [rt EXCEPT !.sockets[h].txq = Tail(@)]
    /\ UNCHANGED <<rxSide, step, net, events, world>>

PollRetransmits ==
    /\ InIface /\ Event
    /\ \E f \in Due(rt) : Transmit(f)
    /\ UNCHANGED <<rxSide, rt, step, net, world>>

LeaseExpires ==
    /\ InIface /\ Event /\ rt.dhcp.lease # Static
    /\ rt' = DhcpReset(rt)
    /\ UNCHANGED <<nic, step, net, world>>

QueryFails ==
    /\ InIface /\ Event
    /\ \E q \in DnsIds : rt.dns[q].st = "Pending" /\ rt' = [rt EXCEPT !.dns[q].st = "Failed"]
    /\ UNCHANGED <<nic, step, net, world>>

\* The interface is left with nothing queued; a frame may just have come in.
\* After the first visit the DHCP event and the echo service have their turn.
PollIfaceEnds ==
    /\ InIface
    /\ \A h \in Handles : rt.sockets[h].txq = <<>>
    /\ \/ step = "iface1" /\ step' = "iface2" /\ rt' = EchoOnce(ApplyDhcp(rt))
       \/ step = "iface2" /\ step' = "idle" /\ UNCHANGED rt
    /\ UNCHANGED <<nic, net, events, world>>

Poll ==
    \/ PollStarts \/ PollReceives \/ PollProcesses \/ PollSends \/ PollRetransmits
    \/ LeaseExpires \/ QueryFails \/ PollIfaceEnds

-----------------------------------------------------------------------------
(***************************************************************************)
(* System calls and shell commands.  A call that is refused changes nothing  *)
(* and is not counted.                                                      *)
(***************************************************************************)
Call(r, a) ==
    /\ step = "idle" /\ Bound /\ r # rt
    /\ rt' = r /\ calls' = calls + 1 /\ answer' = a
    /\ UNCHANGED <<nic, step, net, events>>

Sys(p, r, a) == alive[p] = "live" /\ Call(r, a) /\ UNCHANGED alive
NoAnswer == <<0, 0>>
SysPlain(p, r) == Sys(p, r, NoAnswer) /\ UNCHANGED mine

SysSocket(p) == \E kind \in {"udp", "tcp"} : SysPlain(p, SocketOpen(rt, p, kind))
SysNetBind(p) == \E id \in UserIds, port \in Ports : SysPlain(p, SocketBind(rt, p, id, port))
SysNetConnect(p) == \E id \in UserIds, peer \in Ports : SysPlain(p, SocketConnect(rt, p, id, peer))
SysNetSend(p) == \E id \in UserIds : SysPlain(p, SocketSend(rt, p, id))
SysNetRecv(p) == \E id \in UserIds : SysPlain(p, SocketRecv(rt, p, id))
SysNetClose(p) == \E id \in UserIds : SysPlain(p, SocketClose(rt, p, id))
SysDhcp(p) == \E enabled \in BOOLEAN : SysPlain(p, SetDhcp(rt, enabled))
SysPingStart(p) == \E t \in Targets : SysPlain(p, PingStart(rt, t, calls + 1))

SysPingPoll(p) ==
    /\ rt.ping_pending # NoPing
    /\ Sys(p, PingPoll(rt), IF PingAnswered(rt)
                            THEN <<rt.ping_pending.tag, Head(rt.sockets[PingHandle].rxq).tag>>
                            ELSE NoAnswer)
    /\ UNCHANGED mine

SysDnsStart(p) ==
    /\ FreeDns(rt) # {}
    /\ Sys(p, DnsStart(rt, calls + 1), NoAnswer)
    /\ mine' = [mine EXCEPT ![p][Min(FreeDns(rt))] = calls + 1]

\* A process polls the ids it was given, until it has its result.
SysDnsPoll(p) == \E i \in DnsIds :
    /\ mine[p][i] # 0
    /\ LET q == rt.dns[rt.dns_queries[i]]
       IN  Sys(p, DnsPoll(rt, i), IF q.st = "Done" THEN <<mine[p][i], q.tag>> ELSE NoAnswer)
    /\ mine' = [mine EXCEPT ![p][i] = 0]

\* The shell's dhcp and udpecho.
CmdDhcp == \E on \in BOOLEAN : Call(SetDhcp(rt, on), NoAnswer) /\ UNCHANGED <<alive, mine>>
CmdUdpecho == \E port \in Ports : Call(StartUdpEcho(rt, port), NoAnswer) /\ UNCHANGED <<alive, mine>>

\* exit_current_process closes the process's sockets, kill_process does not;
\* neither gives back its DNS queries.
Ends(p, how, r) ==
    /\ step = "idle" /\ Bound /\ alive[p] = "live"
    /\ rt' = r /\ calls' = calls + 1 /\ answer' = NoAnswer
    /\ alive' = [alive EXCEPT ![p] = how]
    /\ mine' = [mine EXCEPT ![p] = [i \in DnsIds |-> 0]]
    /\ UNCHANGED <<nic, step, net, events>>

Exit(p) == Ends(p, "exited", CloseProcessSockets(rt, p))
Kill(p) == Ends(p, "killed", rt)

\* Five seconds pass before the next ping_poll.
PingLate ==
    /\ step = "idle" /\ Event /\ rt.ping_pending # NoPing /\ ~rt.ping_pending.late
    /\ rt' = [rt EXCEPT !.ping_pending.late = TRUE]
    /\ UNCHANGED <<nic, step, net, world>>

Calls ==
    \/ \E p \in Procs :
          \/ SysSocket(p) \/ SysNetBind(p) \/ SysNetConnect(p) \/ SysNetSend(p) \/ SysNetRecv(p)
          \/ SysNetClose(p) \/ SysDhcp(p) \/ SysPingStart(p) \/ SysPingPoll(p)
          \/ SysDnsStart(p) \/ SysDnsPoll(p) \/ Exit(p) \/ Kill(p)
    \/ CmdDhcp \/ CmdUdpecho \/ PingLate

-----------------------------------------------------------------------------
FrameArrives ==
    /\ Event
    /\ \E f \in net : DeviceReceives(f)
    /\ UNCHANGED <<rt, step, net, world>>

FrameLeaves ==
    /\ DeviceSends
    /\ net' = net \cup Replies(tx_packet)
    /\ UNCHANGED <<rt, step, events, world>>

Device ==
    \/ FrameArrives
    \/ FrameLeaves

\* init.
Init ==
    /\ NicInit
    /\ rt = [user |-> [id \in UserIds |-> NoUser],
             sockets |-> [h \in Handles |-> CASE h = DhcpHandle -> Socket("dhcp")
                                              [] h = DnsHandle -> Socket("dns")
                                              [] h = PingHandle -> Socket("icmp")
                                              [] OTHER -> Socket("none")],
             echo_handle |-> NoHandle, echo_port |-> 0,
             dhcp |-> [lease |-> Static, changed |-> TRUE],
             dhcp_enabled |-> TRUE, using_dhcp |-> FALSE,
             conf |-> Static, iface |-> <<0, 0>>, servers |-> 0,
             dns |-> [i \in DnsIds |-> NoQuery], dns_queries |-> [i \in DnsIds |-> NDns],
             next_ephemeral |-> Min(Ephemeral),
             ping_pending |-> NoPing, ping_sequence |-> 0]
    /\ step = "idle" /\ net = Unsolicited
    /\ alive = [p \in Procs |-> "live"]
    /\ calls = 0 /\ events = 0
    /\ mine = [p \in Procs |-> [i \in DnsIds |-> 0]]
    /\ answer = NoAnswer

Next == Poll \/ Calls \/ Device
Spec == Init /\ [][Next]_vars

-----------------------------------------------------------------------------
(***************************************************************************)
(* Properties.                                                             *)
(***************************************************************************)
\* Who holds a socket of the set: the runtime's own handles, the echo service,
\* the entries of processes.
Holders(h) ==
    {<<"own", t>> : t \in {t \in {DhcpHandle, DnsHandle, PingHandle} : t = h}}
    \cup (IF rt.echo_handle = h THEN {<<"echo", 0>>} ELSE {})
    \cup {<<"user", id>> : id \in {i \in UserIds : rt.user[i].owner # NoProc /\ rt.user[i].handle = h}}

\* Handles are reused, and a stale one would reach another process's socket: each
\* socket of the set has exactly one holder, each entry of a process a socket of
\* its own kind that carries only datagrams for its port, and a process that
\* exited holds none.
SocketsOwned ==
    /\ \A h \in Handles : Cardinality(Holders(h)) = IF rt.sockets[h].type = "none" THEN 0 ELSE 1
    /\ \A id \in UserIds : rt.user[id].owner # NoProc =>
          /\ Sock(rt, id).type = rt.user[id].kind
          /\ \A f \in ToSet(Sock(rt, id).rxq) : f.n = Sock(rt, id).port
          /\ alive[rt.user[id].owner] # "exited"


\* Between polls, the interface, the resolver and what net_info reports agree,
\* and they follow the DHCP client: its lease once its last event has been taken,
\* the static configuration without one and while DHCP is off.
LeaseTracked ==
    step = "idle" =>
        /\ rt.iface = <<rt.conf[1], rt.conf[2]>> /\ rt.servers = rt.conf[3]
        /\ rt.using_dhcp = (rt.conf # Static)
        /\ ~rt.dhcp_enabled => rt.conf = Static
        /\ rt.dhcp_enabled /\ ~rt.dhcp.changed => rt.conf = rt.dhcp.lease
=============================================================================
