-------------------------------- MODULE MCFat32 ---------------------------------
(* Two names, files and directories one level deep, files of up to two         *)
(* clusters.  A directory below the root has no free slot in its first         *)
(* cluster, so that its first entry extends its chain.                         *)
EXTENDS Fat32

Names == {"a", "b"}
MCUpper == [n \in Names |-> IF n = "a" THEN "A" ELSE "B"]
MCPaths == {<<n>> : n \in Names} \cup {<<"a", n>> : n \in Names}
MCContents == {<<"x">>, <<"y", "x">>}

\* Nothing is claimed of a volume once a FAT update was split (see README).
NotTorn == ~torn
=============================================================================
