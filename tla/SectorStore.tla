------------------------------ MODULE SectorStore ------------------------------
(***************************************************************************)
(* What a BlockDevice promises a file system (kernel/src/block.rs and the   *)
(* contract in docs/buffer-cache.md): a read returns the last write that    *)
(* reported success; a failed operation changes nothing a read can see; a   *)
(* flush that reports success has put every earlier write on the medium; a  *)
(* power loss falls back to the medium, each sector of which holds its last *)
(* flushed contents or some later write.                                    *)
(***************************************************************************)
CONSTANTS Lba, Data

VARIABLES
    view,       \* what a read of each sector returns
    media,      \* what survives a power loss
    ret         \* the result of the last operation

vars == <<view, media, ret>>

None == <<"None">>
Done == <<"Done">>
Fault == <<"Fault">>
Value(d) == <<"Ok", d>>

\* Writeback may move any sector to the medium at any time.
Settle == media' \in [Lba -> Data] /\ \A l \in Lba : media'[l] \in {media[l], view[l]}

Init ==
    /\ media \in [Lba -> Data]
    /\ view = media
    /\ ret = None

Read(l) ==
    /\ Settle
    /\ ret' \in {Value(view[l]), Fault}
    /\ UNCHANGED view

Write(l, d) ==
    /\ Settle
    /\ \/ view' = [view EXCEPT ![l] = d] /\ ret' = Done
       \/ UNCHANGED view /\ ret' = Fault

Flush ==
    /\ Settle
    /\ \/ media' = view /\ ret' = Done
       \/ ret' = Fault
    /\ UNCHANGED view

PowerLoss ==
    /\ view' = media
    /\ ret' = None
    /\ UNCHANGED media

Next ==
    \/ \E l \in Lba : Read(l)
    \/ \E l \in Lba, d \in Data : Write(l, d)
    \/ Flush
    \/ PowerLoss

Spec == Init /\ [][Next]_vars
=============================================================================
