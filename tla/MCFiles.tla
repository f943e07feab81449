-------------------------------- MODULE MCFiles ---------------------------------
EXTENDS Files

MCPaths == {<<"a">>, <<"b">>, <<"a", "b">>}
MCTexts == {<<"x">>}

\* An empty volume, one with two files, and one with more than the registry holds.
File(c) == [kind |-> "file", content |-> c]
Dir == [kind |-> "dir", content |-> <<>>]
Absent == [kind |-> "absent", content |-> <<>>]
Tree(a, b, ab) ==
    [p \in MCPaths |-> CASE p = <<"a">> -> a [] p = <<"b">> -> b [] p = <<"a", "b">> -> ab]
MCTrees == {Tree(Absent, Absent, Absent),
            Tree(File(<<"x">>), File(<<"y">>), Absent),
            Tree(Dir, File(<<"x">>), File(<<"x", "x">>))}
=============================================================================
