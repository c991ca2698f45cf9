------------------------------- MODULE DMTree -------------------------------
(***************************************************************************)
(* The device management tree as a server or an application changes it:    *)
(* Add with the chain of missing interior nodes, Delete of a subtree,      *)
(* Replace of a value, of an ACL and of a name, and setLeafChildren with   *)
(* its rollback (dm_tree_class_public.cc, dm_tree_class_private.cc), under *)
(* the ACLs of dmACLManager.cc and the access types of the DDF             *)
(* (dmMetaDataManager.cc).                                                 *)
(*                                                                         *)
(* A path is the sequence of its names, the root is <<>>.  The DDF is a    *)
(* constant: which paths it describes, which of them are leaves, which     *)
(* have a free name (multi nodes) and what may be done with each.  A step  *)
(* is one call, which runs alone under the tree's lock.  The lists of      *)
(* siblings are all in the order pos of their names, which each call       *)
(* chooses, and so is the path bad whose dependencies, format or data the  *)
(* DDF refuses; <<>> for none.  Plug-ins, local nodes, titles, automatic   *)
(* nodes and limits on the number of children are left out, and URIs are   *)
(* absolute.                                                               *)
(***************************************************************************)
EXTENDS Naturals, FiniteSets, SequencesExt

CONSTANTS Servers, Names, Values,
          Interior,    \* what an interior node has for a value
          Paths,       \* the DDF: the paths it describes,
          Leaves,      \* those of leaves,
          Multi,       \* those of multi nodes
          Access,      \* and their access types
          Permanent,   \* the permanent nodes
          FirstNodes,  \* the nodes of the tree that the client starts with
          Orders,      \* bound: orders of the siblings, as numbers of names
          Acls,        \* the ACLs that servers set
          MaxAcls      \* bound: nodes with an ACL of their own

Perms == {"Add", "Delete", "Get", "Replace"}
Everyone == [perm \in Perms |-> Servers]
Only(server) == [perm \in Perms |-> {server}]

Parent(p) == Front(p)

ASSUME DDFAssumption ==
    /\ Paths \subseteq Seq(Names) /\ <<>> \in Paths
    /\ \A p \in Paths \ {<<>>} : Parent(p) \in Paths \ Leaves
    /\ Leaves \subseteq Paths \ {<<>>} /\ Multi \subseteq Paths \ {<<>>}
    /\ Access \in [Paths -> SUBSET Perms]
    /\ Values # {} /\ Interior \notin Values
ASSUME TreeAssumption ==
    /\ FirstNodes \subseteq Paths /\ <<>> \in FirstNodes
    /\ \A p \in FirstNodes \ {<<>>} : Parent(p) \in FirstNodes
    /\ Permanent \subseteq FirstNodes /\ <<>> \in Permanent
    /\ \A p \in Permanent \ {<<>>} : Parent(p) \in Permanent
ASSUME OrderAssumption ==
    /\ IsFiniteSet(Names)
    /\ \A pos \in Orders : /\ pos \in [Names -> Nat]
                           /\ \A a, b \in Names : pos[a] = pos[b] => a = b
ASSUME AclAssumption ==
    /\ Acls \subseteq [Perms -> SUBSET Servers] /\ MaxAcls \in Nat

VARIABLE tree

----------------------------------------------------------------------------
(* A call works on the tree with what it returns and whether LogEvent has  *)
(* marked the tree as changed, which is what saves it later.               *)
Call(t) == [node |-> t.node, acl |-> t.acl, status |-> "ok", logged |-> FALSE]
Returns(t, status) == [t EXCEPT !.status = status]
LogEvent(t) == [t EXCEPT !.logged = TRUE]

Nodes(t) == DOMAIN t.node
IsInterior(t, p) == t.node[p] = Interior
Below(t, p) == {q \in Nodes(t) : IsStrictPrefix(p, q)}

\* The ACL of the nearest node upwards that has one; the root always has.
AclOf(t, p) ==
    t.acl[CHOOSE q \in DOMAIN t.acl \cap Prefixes(p) :
              \A r \in DOMAIN t.acl \cap Prefixes(p) : Len(r) <= Len(q)]

\* The path in the DDF has "*" for the name of a multi node, and no ACL is
\* ever set there: its ACL is that of what lies above the first multi node.
AboveMulti(p) ==
    CHOOSE q \in Prefixes(p) :
        /\ Prefixes(q) \cap Multi = {}
        /\ \A r \in Prefixes(p) :
               Prefixes(r) \cap Multi = {} => Len(r) <= Len(q)

IsPermitted(t, server, p, perm) ==
    /\ server \in AclOf(t, p)[perm]
    /\ server \in AclOf(t, AboveMulti(p))[perm]

VerifyAccessType(p, perm) == perm \in Access[p]

\* Mutant: the ACL is not asked.
IsValidServerAnyone(t, server, p, perm) ==
    perm = "Get" \/ VerifyAccessType(p, perm)

IsValidServer(t, server, p, perm) ==
    /\ IsPermitted(t, server, p, perm)
    /\ perm = "Get" \/ VerifyAccessType(p, perm)

SetACL(t, p, acl) ==
    [t EXCEPT !.acl = [q \in DOMAIN t.acl \cup {p} |->
                          IF q = p THEN acl ELSE t.acl[q]]]
DeleteACL(t, p) ==
    [t EXCEPT !.acl = [q \in DOMAIN t.acl \ {p} |-> t.acl[q]]]

----------------------------------------------------------------------------
(* Delete                                                                  *)

\* q comes before p in the walk of a subtree from its leaves up.
WalkedBefore(pos, q, p) ==
    \/ IsStrictPrefix(p, q)
    \/ \E i \in 1..Len(p) :
           /\ i <= Len(q) /\ SubSeq(p, 1, i - 1) = SubSeq(q, 1, i - 1)
           /\ pos[q[i]] < pos[p[i]]

RemoveNodes(t, gone) ==
    [t EXCEPT !.node = [q \in Nodes(t) \ gone |-> t.node[q]],
              !.acl = [q \in DOMAIN t.acl \ gone |-> t.acl[q]]]

\* The walk removes one node after the other, and ends where the DDF refuses.
DeleteNode(t, p, bad, pos) ==
    LET all == Below(t, p) \cup {p}
    IN IF bad \in all
       THEN Returns(RemoveNodes(t, {q \in all : WalkedBefore(pos, q, bad)}),
                    "failed")
       ELSE RemoveNodes(t, all)

\* Mutant: only the children of the node are asked.
CheckDeleteForNodeAbove(t, server, p) ==
    \A q \in Below(t, p) :
        Parent(q) = p => IsPermitted(t, server, q, "Delete")

CheckDeleteForNode(t, server, p) ==
    \A q \in Below(t, p) : IsPermitted(t, server, q, "Delete")

Delete(t, server, request, p, bad, pos) ==
    LET deleted == DeleteNode(t, p, bad, pos)
    IN CASE p \notin Nodes(t) -> Returns(t, "not_found")
         [] p \in Nodes(t) \cap Permanent -> Returns(t, "not_allowed")
         [] OTHER ->
              IF \/ ~IsValidServer(t, server, p, "Delete")
                 \/ request = "server" /\ ~CheckDeleteForNode(t, server, p)
              THEN Returns(t, "refused")
              ELSE IF deleted.status = "ok" THEN LogEvent(deleted) ELSE deleted

----------------------------------------------------------------------------
(* Add                                                                     *)

\* A server that may not replace the parent gets an ACL for the new node,
\* before the DDF is asked.
OwnACL(t, server, p) ==
    IF IsPermitted(t, server, Parent(p), "Replace")
    THEN t ELSE SetACL(t, p, Only(server))

AddNodeInternal(t, server, p, value, bad) ==
    LET owned == OwnACL(t, server, p)
        added == [owned EXCEPT !.node = [q \in Nodes(t) \cup {p} |->
                                            IF q = p THEN value ELSE t.node[q]]]
    IN CASE p = <<>> -> Returns(t, "failed")
         [] p # <<>> /\ Parent(p) \notin Nodes(t) -> Returns(t, "not_found")
         [] p # <<>> /\ p \in Nodes(t) -> Returns(t, "exists")
         [] OTHER ->
              IF \/ ~IsInterior(t, Parent(p))
                 \/ ~IsValidServer(t, server, Parent(p), "Add")
              THEN Returns(t, "refused")
              ELSE IF p = bad THEN Returns(owned, "failed") ELSE LogEvent(added)

\* The missing nodes on the way to p, from the top, p the last.
Missing(t, p) ==
    LET top == Len(CHOOSE q \in Prefixes(p) \ Nodes(t) : Parent(q) \in Nodes(t))
    IN [i \in 1..(Len(p) - top + 1) |-> SubSeq(p, 1, top + i - 1)]

AddChain(t, server, chain, value, bad) ==
    FoldLeft(LAMBDA u, q : IF u.status # "ok" THEN u
                           ELSE AddNodeInternal(u, server, q,
                                    IF q = Last(chain) THEN value ELSE Interior,
                                    bad),
             t, chain)

\* The loop upwards ends at the first node it could add or, when there is
\* none, with strLastInteriorNodeAdded the first name of the path.
Add(t, server, p, value, bad, pos) ==
    IF p = <<>> \/ Parent(p) \in Nodes(t)
    THEN AddNodeInternal(t, server, p, value, bad)
    ELSE LET chain == Missing(t, p)
             begun == AddNodeInternal(t, server, Head(chain), Interior, bad)
             added == AddChain(begun, server, Tail(chain), value, bad)
             last == IF begun.status = "ok" THEN Head(chain)
                     ELSE SubSeq(p, 1, 1)
         IN IF added.status = "ok" THEN added
            ELSE Returns(Delete(added, server, "internal", last, bad, pos),
                         "failed")

----------------------------------------------------------------------------
(* Replace                                                                 *)

ReplaceNodeInternal(t, p, value, bad) ==
    IF p = bad THEN Returns(t, "failed")
    ELSE LogEvent([t EXCEPT !.node[p] = value])

Replace(t, server, p, value, bad) ==
    CASE p \notin Nodes(t) -> Returns(t, "not_found")
      [] OTHER ->
           IF ~IsValidServer(t, server, p, "Replace") \/ IsInterior(t, p)
           THEN Returns(t, "refused")
           ELSE ReplaceNodeInternal(t, p, value, bad)

\* Whose ACL decides on the ACL of p: an interior node's own, if that permits.
NeedCheckParent(t, server, p) ==
    p # <<>> /\ ~(IsInterior(t, p) /\ IsPermitted(t, server, p, "Replace"))

\* An empty set stands for no ACL.
ReplaceACLProperty(t, server, p, acls) ==
    CASE p \notin Nodes(t) -> Returns(t, "not_found")
      [] OTHER ->
           IF \/ ~VerifyAccessType(p, "Replace") \/ p = <<>>
              \/ ~IsPermitted(t, server,
                      IF NeedCheckParent(t, server, p) THEN Parent(p) ELSE p,
                      "Replace")
           THEN Returns(t, "refused")
           ELSE LogEvent(IF acls = {} THEN DeleteACL(t, p)
                         ELSE SetACL(t, p, CHOOSE acl \in acls : TRUE))

Renamed(p, q, new) == new \o SubSeq(q, Len(p) + 1, Len(q))

\* The node's own ACL goes with it; those of the nodes below stay behind.
FixACL(t, p, new) ==
    IF p \in DOMAIN t.acl THEN SetACL(DeleteACL(t, p), new, t.acl[p]) ELSE t

Rename(t, p, new) ==
    LET moved == Below(t, p) \cup {p}
    IN [t EXCEPT !.node =
           [q \in (Nodes(t) \ moved) \cup {Renamed(p, r, new) : r \in moved} |->
               IF IsPrefix(new, q) THEN t.node[Renamed(new, q, p)]
               ELSE t.node[q]]]

\* Mutant: the format is not verified.
AnyFormat(p, new) == new \in Paths

\* The format of the node goes with its new name, and has to be the DDF's.
SameFormat(p, new) == new \in Paths /\ (p \in Leaves <=> new \in Leaves)

ReplaceNameProperty(t, server, p, name, bad) ==
    LET new == Append(Parent(p), name)
    IN CASE p \notin Nodes(t) -> Returns(t, "not_found")
         [] p \in Nodes(t) \cap Permanent -> Returns(t, "not_allowed")
         [] OTHER ->
              IF \/ ~IsValidServer(t, server, p, "Replace")
                 \/ new \in Nodes(t) /\ new # p
              THEN Returns(t, "refused")
              ELSE IF new # p /\ (new = bad \/ ~SameFormat(p, new))
              THEN Returns(t, "failed")
              ELSE LogEvent(FixACL(Rename(t, p, new), p, new))
----------------------------------------------------------------------------
(* setLeafChildren                                                         *)

Children(t, p) == {q \in Below(t, p) : Parent(q) = p}
LeafChildren(t, p) == {q \in Children(t, p) : ~IsInterior(t, q)}

\* The i-th of the siblings comes after i - 1 of them.
InOrder(pos, children) ==
    [i \in 1..Cardinality(children) |->
        CHOOSE q \in children :
            Cardinality({r \in children : pos[Last(r)] < pos[Last(q)]}) = i - 1]

\* A new child replaces the old one of its name, and marks those before that
\* one; or it is added, and marks them all.
HandleNewChild(c, j, server, old, new, value, bad, pos) ==
    LET at == IF \E i \in DOMAIN old : old[i] = new[j]
              THEN CHOOSE i \in DOMAIN old : old[i] = new[j] ELSE Len(old) + 1
        marked == [i \in DOMAIN old |->
                      IF i < at /\ c.action[i] = "clean" THEN "dirty"
                      ELSE c.action[i]]
        done == IF at \in DOMAIN old
                THEN Replace(c.t, server, new[j], value, bad)
                ELSE Add(c.t, server, new[j], value, bad, pos)
    IN IF c.t.status # "ok" THEN c
       ELSE [t |-> done,
             action |-> IF at \in DOMAIN old /\ done.status = "ok"
                        THEN [marked EXCEPT ![at] = "replaced"] ELSE marked,
             delete |-> IF done.status # "ok" THEN c.delete
                        ELSE [c.delete EXCEPT ![j] =
                                 IF at \in DOMAIN old THEN "dirty"
                                 ELSE "deleted"]]

\* Mutant of HandleOldChild: what is deleted is not marked for the rollback.
HandleOldChildUnmarked(c, i, server, old, bad, pos) ==
    IF c.t.status # "ok" \/ c.action[i] # "dirty" THEN c
    ELSE [c EXCEPT !.t = Delete(c.t, server, "api", old[i], bad, pos)]

\* An old child that was marked and not replaced is deleted.
HandleOldChild(c, i, server, old, bad, pos) ==
    LET done == Delete(c.t, server, "api", old[i], bad, pos)
    IN IF c.t.status # "ok" \/ c.action[i] # "dirty" THEN c
       ELSE [c EXCEPT !.t = done,
                      !.action[i] =
                          IF done.status = "ok" THEN "added" ELSE "dirty"]

HandleNewChildren(c, server, old, new, value, bad, pos) ==
    FoldLeft(LAMBDA d, j :
                 HandleNewChild(d, j, server, old, new, value, bad, pos),
             c, [j \in DOMAIN new |-> j])

HandleOldChildren(c, server, old, bad, pos) ==
    FoldLeft(LAMBDA d, i : HandleOldChild(d, i, server, old, bad, pos),
             c, [i \in DOMAIN old |-> i])

\* The rollback goes as far as a list is marked; a step that fails ends it.
Ends(list, i) == \E k \in 1..i : list[k] = "clean"

RollbackOldChild(u, i, server, t0, old, action, bad, pos) ==
    IF u.status # "ok" \/ Ends(action, i) THEN u
    ELSE CASE action[i] = "replaced" ->
                  Replace(u, server, old[i], t0.node[old[i]], bad)
           [] action[i] = "added" ->
                  Add(u, server, old[i], t0.node[old[i]], bad, pos)
           [] OTHER -> u

RollbackNewChild(u, j, server, new, delete, bad, pos) ==
    IF u.status # "ok" \/ Ends(delete, j) \/ delete[j] # "deleted" THEN u
    ELSE Delete(u, server, "api", new[j], bad, pos)

RollbackOldChildren(u, server, t0, old, action, bad, pos) ==
    FoldLeft(LAMBDA v, i :
                 RollbackOldChild(v, i, server, t0, old, action, bad, pos),
             u, [i \in DOMAIN old |-> i])

RollbackNewChildren(u, server, new, delete, bad, pos) ==
    FoldLeft(LAMBDA v, j : RollbackNewChild(v, j, server, new, delete, bad, pos),
             u, [j \in DOMAIN new |-> j])

Rollback(c, server, t0, old, new, bad, pos) ==
    LET restored == RollbackOldChildren(Returns(c.t, "ok"), server, t0, old,
                                        c.action, bad, pos)
        undone == RollbackNewChildren(restored, server, new, c.delete, bad, pos)
    IN Returns(undone, IF undone.status = "ok" THEN "rolled_back" ELSE "failed")

SetLeafChildren(t, server, p, new, value, bad, pos) ==
    LET old == InOrder(pos, LeafChildren(t, p))
        start == [t |-> t,
                  action |-> [i \in DOMAIN old |->
                                 IF new = <<>> THEN "dirty" ELSE "clean"],
                  delete |-> [j \in DOMAIN new |-> "clean"]]
        put == HandleNewChildren(start, server, old, new, value, bad, pos)
        set == HandleOldChildren(put, server, old, bad, pos)
    IN IF \/ p \notin Nodes(t)
          \/ \E q \in Children(t, p) \cup {p} :
                 ~IsValidServer(t, server, q, "Get")
       THEN Returns(t, "refused")
       ELSE IF set.t.status = "ok" THEN set.t
       ELSE Rollback(set, server, t, old, new, bad, pos)

----------------------------------------------------------------------------
Init ==
    tree = [node |-> [p \in FirstNodes |-> IF p \in Leaves
                                           THEN CHOOSE v \in Values : TRUE
                                           ELSE Interior],
            acl |-> [p \in {<<>>} |-> Everyone]]

Becomes(r) ==
    /\ Cardinality(DOMAIN r.acl) <= MaxAcls
    /\ tree' = [node |-> r.node, acl |-> r.acl]

\* What a new node or a replaced one holds.
Contents(p) == IF p \in Leaves THEN Values ELSE {Interior}

\* What the DDF refuses in a call, near p.
Refusals(p) == {q \in Paths : IsPrefix(p, q) \/ IsPrefix(q, p)}

DoAdd(server, p) ==
    \E value \in Contents(p), bad \in Refusals(p), pos \in Orders :
        Becomes(Add(Call(tree), server, p, value, bad, pos))

DoDelete(server, p) ==
    \E request \in {"server", "api"}, bad \in Refusals(p), pos \in Orders :
        Becomes(Delete(Call(tree), server, request, p, bad, pos))

DoReplace(server, p) ==
    \E value \in Values, bad \in {<<>>, p} :
        Becomes(Replace(Call(tree), server, p, value, bad))

DoReplaceACL(server, p) ==
    \E acls \in {{}} \cup {{acl} : acl \in Acls} :
        Becomes(ReplaceACLProperty(Call(tree), server, p, acls))

\* The DDF describes what is below a node under its new name alike.
DoRename(server, p) ==
    \E name \in Names :
        LET new == Append(Parent(p), name)
        IN /\ \A q \in Below(tree, p) : SameFormat(q, Renamed(p, q, new))
           /\ \E bad \in {<<>>, new} :
                  Becomes(ReplaceNameProperty(Call(tree), server, p, name, bad))

DoSetLeafChildren(server, p) ==
    \E children \in SUBSET {q \in Leaves : Parent(q) = p},
       pos \in Orders, newPos \in Orders, value \in Values :
        \E bad \in children \cup LeafChildren(tree, p) \cup {<<>>} :
            Becomes(SetLeafChildren(Call(tree), server, p,
                        InOrder(newPos, children), value, bad, pos))

Next ==
    \E server \in Servers, p \in Paths :
        \/ DoAdd(server, p)
        \/ DoDelete(server, p)
        \/ DoReplace(server, p)
        \/ DoReplaceACL(server, p)
        \/ p # <<>> /\ DoRename(server, p)
        \/ p \in Nodes(tree) \ Leaves /\ DoSetLeafChildren(server, p)

Spec == Init /\ [][Next]_tree

----------------------------------------------------------------------------
TypeOK ==
    /\ DOMAIN tree = {"node", "acl"}
    /\ Nodes(tree) \subseteq Paths
    /\ \A p \in Nodes(tree) :
           /\ tree.node[p] \in Contents(p)
           /\ p # <<>> => Parent(p) \in Nodes(tree)
    /\ <<>> \in DOMAIN tree.acl /\ DOMAIN tree.acl \subseteq Paths
    /\ \A p \in DOMAIN tree.acl : tree.acl[p] \in [Perms -> SUBSET Servers]

\* A server's Delete that does anything is permitted for each node it removes,
\* although the walk that removes them asks nobody and may end halfway
\* (dm_tree_class_private.cc:703-772, 805-995).
DeletesArePermitted ==
    \A server \in Servers, p \in Paths, pos \in Orders :
        \A bad \in Refusals(p) :
            LET r == Delete(Call(tree), server, "server", p, bad, pos)
            IN \A q \in Nodes(tree) \ Nodes(r) :
                   IsPermitted(tree, server, q, "Delete")

\* What an Add adds is below a node where the server may add, with the nodes
\* missing in between (dm_tree_class_public.cc:798-861), and what was there
\* before stays as it was when the Add is successful.
AddsArePermitted ==
    \A server \in Servers, p \in Paths, pos \in Orders :
        \A value \in Contents(p), bad \in Refusals(p) :
            LET r == Add(Call(tree), server, p, value, bad, pos)
                new == Nodes(r) \ Nodes(tree)
            IN /\ \A q \in new :
                      /\ IsPrefix(q, p)
                      /\ Parent(q) \in Nodes(tree) =>
                             IsPermitted(tree, server, Parent(q), "Add")
               /\ r.status = "ok" =>
                      /\ r.logged /\ p \in new /\ r.node[p] = value
                      /\ \A q \in Nodes(tree) :
                             q \in Nodes(r) /\ r.node[q] = tree.node[q]

\* setLeafChildren is "a atomic operation, it will roll back to the original
\* state" (dm_tree_class_public.cc:3210): with success the new children are
\* there, and after a rollback the old nodes with their values, whichever step
\* failed.
LeafChildrenAtomic ==
    \A server \in Servers, p \in Nodes(tree) \ Leaves, pos \in Orders,
       newPos \in Orders, value \in Values :
        \A children \in SUBSET {q \in Leaves : Parent(q) = p} :
            \A bad \in children \cup LeafChildren(tree, p) \cup {<<>>} :
                LET r == SetLeafChildren(Call(tree), server, p,
                             InOrder(newPos, children), value, bad, pos)
                IN /\ r.status = "ok" =>
                          \A q \in children :
                              q \in Nodes(r) /\ r.node[q] = value
                   /\ r.status = "rolled_back" => r.node = tree.node

\* An Add that fails leaves the nodes that were there: it takes back what it
\* has added itself, "deleting last added node"
\* (dm_tree_class_public.cc:849-860).
FailedAddKeepsNodes ==
    \A server \in Servers, p \in Paths, pos \in Orders :
        \A value \in Contents(p), bad \in Refusals(p) :
            LET r == Add(Call(tree), server, p, value, bad, pos)
            IN Nodes(tree) \subseteq Nodes(r)
=============================================================================
