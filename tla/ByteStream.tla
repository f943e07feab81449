------------------------------- MODULE ByteStream -------------------------------
(***************************************************************************)
(* What an anonymous pipe promises (the header of kernel/src/pipe.rs): a    *)
(* bounded first-in first-out stream of bytes, end of file once it is empty *)
(* and no writer is left, an error once no reader is left.  Each send and   *)
(* each receive takes place at once.                                        *)
(***************************************************************************)
EXTENDS Sequences, Naturals

CONSTANTS Bytes, Cap, MaxBuf

VARIABLES
    stream,     \* the bytes in the pipe, oldest first
    reading,    \* some descriptor for the read end exists
    writing,    \* some descriptor for the write end exists
    got         \* what the last read that ended returned

vars == <<stream, reading, writing, got>>

Chunks == UNION {[1 .. n -> Bytes] : n \in 1 .. MaxBuf}

Init == stream = <<>> /\ ~reading /\ ~writing /\ got = <<>>

Create == ~reading /\ ~writing /\ reading' /\ writing' /\ UNCHANGED <<stream, got>>

Send(chunk) ==
    /\ reading /\ writing
    /\ Len(stream) + Len(chunk) <= Cap
    /\ stream' = stream \o chunk
    /\ UNCHANGED <<reading, writing, got>>

Receive(n) ==
    /\ reading
    /\ n <= Len(stream)
    /\ got' = SubSeq(stream, 1, n)
    /\ stream' = SubSeq(stream, n + 1, Len(stream))
    /\ UNCHANGED <<reading, writing>>

EndOfFile ==
    /\ reading /\ ~writing /\ stream = <<>>
    /\ got' = <<>>
    /\ UNCHANGED <<stream, reading, writing>>

\* Ends are closed; when both are, what was not read is gone.
Close ==
    /\ reading' => reading
    /\ writing' => writing
    /\ stream' = IF reading' \/ writing' THEN stream ELSE <<>>
    /\ UNCHANGED got

Next ==
    \/ Create
    \/ \E chunk \in Chunks : Send(chunk)
    \/ \E n \in 1 .. MaxBuf : Receive(n)
    \/ EndOfFile
    \/ Close

Spec == Init /\ [][Next]_vars
=============================================================================
