------------------------------- MODULE FileStore --------------------------------
(***************************************************************************)
(* What kernel/src/fat32.rs promises its callers: a tree of directories and *)
(* files, changed by one call at a time.  A call that reports success did   *)
(* all it was asked for.  A call that reports an error did nothing, or      *)
(* everything, except that missing parent directories may have been made.   *)
(***************************************************************************)
EXTENDS Integers, Sequences

CONSTANTS
    Paths,          \* nonempty sequences of names, closed under prefixes
    Contents

VARIABLES
    tree,           \* what is at each path
    ok              \* did the last call succeed?

storeVars == <<tree, ok>>

Absent == [kind |-> "absent", content |-> <<>>]
Dir == [kind |-> "dir", content |-> <<>>]
File(c) == [kind |-> "file", content |-> c]

IsAbove(p, q) == Len(p) < Len(q) /\ SubSeq(q, 1, Len(p)) = p
Ancestors(p) == {q \in Paths : IsAbove(q, p)}
Below(p) == {q \in Paths : IsAbove(p, q)}

\* t with directories at the paths in made, all of which were absent.
WithDirs(t, made) == [q \in Paths |-> IF q \in made THEN Dir ELSE t[q]]
Missing(t, p) == {q \in Ancestors(p) : t[q] = Absent}
WithParents(t, p) == WithDirs(t, Missing(t, p))
\* The trees a call that stops half way through the parents of p may leave.
Partly(t, p) == {WithDirs(t, made) : made \in {{}} \cup {Missing(t, p) \ Below(q) : q \in Missing(t, p)}}
ParentsAreDirs(t, p) == \A q \in Ancestors(p) : t[q] = Dir

Create(p, c) ==
    LET done == [WithParents(tree, p) EXCEPT ![p] = File(c)] IN
    \/ /\ ok' /\ ParentsAreDirs(WithParents(tree, p), p) /\ tree[p] # Dir
       /\ tree' = done
    \/ /\ ~ok'
       /\ \/ tree' \in Partly(tree, p)
          \/ ParentsAreDirs(WithParents(tree, p), p) /\ tree[p] # Dir /\ tree' = done

Mkdir(p) ==
    \/ /\ ok' /\ ParentsAreDirs(WithParents(tree, p), p) /\ tree[p].kind # "file"
       /\ tree' = [WithParents(tree, p) EXCEPT ![p] = Dir]
    \/ ~ok' /\ tree' \in Partly(tree, p)

Removable(p) == tree[p] # Absent /\ \A q \in Below(p) : tree[q] = Absent

Delete(p) ==
    \/ Removable(p) /\ tree' = [tree EXCEPT ![p] = Absent] /\ ok' \in BOOLEAN
    \/ ~ok' /\ UNCHANGED tree

\* The subtree at o moves to n.
Moved(o, n) ==
    [q \in Paths |->
        IF q = n \/ IsAbove(n, q)
        THEN LET from == o \o SubSeq(q, Len(n) + 1, Len(q)) IN
             IF from \in Paths THEN tree[from] ELSE Absent
        ELSE IF q = o \/ IsAbove(o, q) THEN Absent ELSE tree[q]]

Rename(o, n) ==
    \/ /\ ok' /\ tree[o] # Absent /\ ~IsAbove(o, n) /\ ParentsAreDirs(tree, n)
       /\ \/ o = n /\ UNCHANGED tree
          \/ tree[n] = Absent /\ tree' = Moved(o, n)
    \/ ~ok' /\ UNCHANGED tree

Init == tree \in [Paths -> {Absent, Dir} \cup {File(c) : c \in Contents}] /\ ok = TRUE

Next ==
    \E p \in Paths :
        \/ \E c \in Contents : Create(p, c)
        \/ Mkdir(p)
        \/ Delete(p)
        \/ \E n \in Paths : Rename(p, n)

Spec == Init /\ [][Next]_storeVars
=============================================================================
