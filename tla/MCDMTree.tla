------------------------------ MODULE MCDMTree ------------------------------
EXTENDS DMTree, TLC

\* The DDF of the instance: a permanent node "acc" with a multi node "a"
\* and a node "q" with two leaves, of which "b" has no access type Delete,
\* and an interior node "c".
MCNames == {"acc", "q", "a", "b", "c", "x"}
MCLeaves == {<<"acc", "a", "x">>,
             <<"q", "a">>, <<"q", "b">>, <<"q", "c", "x">>}
MCPaths == UNION {Prefixes(p) : p \in MCLeaves}
MCMulti == {<<"acc", "a">>}
MCAccess == [p \in MCPaths |-> IF p = <<"q", "b">> THEN Perms \ {"Delete"}
                               ELSE Perms]
MCPermanent == {<<>>, <<"acc">>}
MCFirstNodes == {<<>>, <<"acc">>, <<"q">>, <<"q", "a">>}
MCOrders == {[acc |-> 1, q |-> 2, a |-> 3, b |-> 4, c |-> 5, x |-> 6],
             [acc |-> 2, q |-> 1, a |-> 6, b |-> 5, c |-> 4, x |-> 3]}
MCAcls == {[perm \in Perms |->
               IF perm \in {"Get", "Add"} THEN Servers ELSE {server}] :
           server \in Servers}
=============================================================================
