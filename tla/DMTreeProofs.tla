---------------------------- MODULE DMTreeProofs ----------------------------
(***************************************************************************)
(* The proofs about DMTree, for every DDF, every tree, every set of ACLs   *)
(* and every list of children: what a call leaves is a tree of the DDF     *)
(* (TypesHold), a server removes no node that it may not remove            *)
(* (DeleteIsPermitted) and adds none below a node it may not add to        *)
(* (AddIsPermitted), and setLeafChildren gives all the children the new    *)
(* value or, rolled back, leaves the nodes as they were                    *)
(* (SetLeafChildrenIsAtomic).                                              *)
(*                                                                         *)
(* IInv, the inductive invariant, is TypeOK with the tree and the ACLs as  *)
(* members of sets of functions.  The other theorems are properties of one *)
(* call from any state in which it holds.  Each operation has a lemma that *)
(* says what it does to a tree of Calls, cited where another operation     *)
(* uses it.  Add and setLeafChildren are folds over lists: FoldExists      *)
(* shows that a fold has one value after each element, and the lemmas      *)
(* called ...Steps give these for each fold of the model, so that what     *)
(* holds after each element follows by Upwards, which is induction over a  *)
(* set of numbers.                                                         *)
(***************************************************************************)
EXTENDS DMTree, Integers, FiniteSetTheorems, SequenceTheorems,
        WellFoundedInduction, TLAPS

\* Induction, as a fact about sets.
LEMMA NatSetInduction ==
    ASSUME NEW S, 0 \in S, \A n \in Nat : n \in S => n + 1 \in S
    PROVE  Nat \subseteq S
<1> DEFINE T == Nat \ S
           Less == OpToRel(<, Nat)
<1>1. CASE T = {}
  BY <1>1
<1>2. CASE T # {}
  <2>1. IsWellFoundedOn(Less, Nat)
    BY NatLessThanWellFounded
  <2> HIDE DEF Less
  <2>2. PICK x \in T : \A y \in T : ~(<<y, x>> \in Less)
    <3> HIDE DEF T
    <3>1. T \subseteq Nat
      BY DEF T
    <3> QED
      BY <1>2, <2>1, <3>1, WFMin
  <2>3. x \in Nat /\ x # 0 /\ x \notin S
    OBVIOUS
  <2>4. x - 1 \in Nat /\ x - 1 < x /\ (x - 1) + 1 = x
    BY <2>3
  <2>5. <<x - 1, x>> \in Less
    BY <2>3, <2>4 DEF Less, OpToRel
  <2>6. x - 1 \in S
    BY <2>2, <2>4, <2>5
  <2> QED
    BY <2>3, <2>4, <2>6
<1> QED
  BY <1>1, <1>2

\* What a fold over 1..n chooses: the last first.
LEMMA MaxLast ==
    ASSUME NEW n \in Nat, NEW s \in SUBSET (1..(n + 1)), n + 1 \in s
    PROVE  Max(s) = n + 1
<1>1. n + 1 \in s /\ \A y \in s : n + 1 >= y /\ y \in Nat
  OBVIOUS
<1>2. Max(s) \in s /\ \A y \in s : Max(s) >= y
  BY <1>1 DEF Max
<1>3. Max(s) \in Nat /\ n + 1 >= Max(s) /\ Max(s) >= n + 1
  BY <1>1, <1>2
<1> QED
  BY <1>3

\* G steps through 1..m, and h is the fold that takes its steps.
IsStep(V, G, m) == \A u \in V, i \in 1..m : G[<<u, i>>] \in V
IsFold(h, V, base, G, m) ==
    /\ h \in [SUBSET (1..m) -> V]
    /\ \A s \in SUBSET (1..m) :
           h[s] = IF s = {} THEN base ELSE G[<<h[s \ {Max(s)}], Max(s)>>]

\* Every fold has a value after each of its steps.
LEMMA FoldExists ==
    ASSUME NEW V, NEW base \in V, NEW G, NEW m \in Nat, IsStep(V, G, m)
    PROVE  \E h : IsFold(h, V, base, G, m)
<1> USE DEF IsStep
<1> DEFINE Fold(n, h) ==
             \A s \in SUBSET (1..n) :
                   h[s] = IF s = {} THEN base
                          ELSE G[<<h[s \ {Max(s)}], Max(s)>>]
           Holds(n) == n <= m => \E h \in [SUBSET (1..n) -> V] : Fold(n, h)
           K == {n \in Nat : Holds(n)}
<1>1. Holds(0)
  <2>1. 1..0 = {}
    OBVIOUS
  <2>2. Fold(0, [s \in SUBSET (1..0) |-> base])
    BY <2>1
  <2>3. [s \in SUBSET (1..0) |-> base] \in [SUBSET (1..0) -> V]
    OBVIOUS
  <2> QED
    BY <2>2, <2>3
<1>2. ASSUME NEW n \in Nat, Holds(n) PROVE Holds(n + 1)
  <2> SUFFICES ASSUME n + 1 <= m
               PROVE  \E h \in [SUBSET (1..(n + 1)) -> V] : Fold(n + 1, h)
    OBVIOUS
  <2>1. PICK h \in [SUBSET (1..n) -> V] : Fold(n, h)
    <3> HIDE DEF Fold
    <3>1. n <= m
      OBVIOUS
    <3> QED
      BY <1>2, <3>1
  <2> DEFINE g == [s \in SUBSET (1..(n + 1)) |->
                      IF n + 1 \in s THEN G[<<h[s \ {n + 1}], n + 1>>]
                      ELSE h[s]]
  <2>2. \A s \in SUBSET (1..(n + 1)) :
            /\ s \ {n + 1} \in SUBSET (1..n)
            /\ n + 1 \notin s => s \in SUBSET (1..n)
    OBVIOUS
  <2>3. g \in [SUBSET (1..(n + 1)) -> V]
    BY <2>2
  <2>4. \A s \in SUBSET (1..(n + 1)) : n + 1 \notin s => g[s] = h[s]
    OBVIOUS
  <2>5. ASSUME NEW s \in SUBSET (1..(n + 1)), n + 1 \in s
        PROVE  g[s] = G[<<g[s \ {Max(s)}], Max(s)>>]
    <3>1. Max(s) = n + 1
      BY <2>5, MaxLast
    <3>2. g[s \ {n + 1}] = h[s \ {n + 1}]
      BY <2>4
    <3> QED
      BY <2>5, <3>1, <3>2
  <2>6. ASSUME NEW s \in SUBSET (1..(n + 1)), n + 1 \notin s, s # {}
        PROVE  g[s] = G[<<g[s \ {Max(s)}], Max(s)>>]
    <3>1. s \in SUBSET (1..n) /\ n + 1 \notin s \ {Max(s)}
          /\ s \ {Max(s)} \in SUBSET (1..(n + 1))
      BY <2>2, <2>6
    <3>2. g[s] = h[s] /\ g[s \ {Max(s)}] = h[s \ {Max(s)}]
      BY <2>4, <2>6, <3>1
    <3> QED
      BY <2>1, <2>6, <3>1, <3>2
  <2>7. g[{}] = base
    <3>1. {} \in SUBSET (1..n) /\ n + 1 \notin {}
      OBVIOUS
    <3> QED
      BY <2>1, <3>1
  <2> HIDE DEF g
  <2>8. Fold(n + 1, g)
    BY <2>5, <2>6, <2>7
  <2> QED
    BY <2>3, <2>8
<1>3. Holds(m)
  <2> HIDE DEF Holds
  <2>1. 0 \in K /\ \A n \in Nat : n \in K => n + 1 \in K
    BY <1>1, <1>2
  <2> HIDE DEF K
  <2>2. m \in K
    BY <2>1, NatSetInduction
  <2> QED
    BY <2>2 DEF K
<1> QED
  <2> HIDE DEF Fold
  <2>1. PICK h \in [SUBSET (1..m) -> V] : Fold(m, h)
    <3>1. m <= m
      OBVIOUS
    <3> QED
      BY <1>3, <3>1
  <2>2. IsFold(h, V, base, G, m)
    BY <2>1 DEF Fold, IsFold
  <2> QED
    BY <2>2

----------------------------------------------------------------------------
(* Paths.                                                                  *)

\* The elements of a subsequence.
LEMMA SubSeqFacts ==
    ASSUME NEW p \in Seq(Names), NEW k \in 0..Len(p)
    PROVE  /\ SubSeq(p, 1, k) \in Seq(Names) /\ Len(SubSeq(p, 1, k)) = k
           /\ \A i \in 1..k : SubSeq(p, 1, k)[i] = p[i]
<1>1. \A i \in 1..k : p[i] \in Names
  BY ElementOfSeq, LenProperties
<1>2. k \in Int /\ 1 \in Int /\ k - 1 + 1 = k /\ \A i \in 1..k : 1 + i - 1 = i
  OBVIOUS
<1>3. /\ SubSeq(p, 1, k) \in Seq(Names)
      /\ Len(SubSeq(p, 1, k)) = IF 1 <= k THEN k - 1 + 1 ELSE 0
      /\ \A i \in 1..(k - 1 + 1) : SubSeq(p, 1, k)[i] = p[1 + i - 1]
  BY <1>1, <1>2, SubSeqProperties
<1> QED
  BY <1>2, <1>3

\* The parent of a path is the path without its last name.
LEMMA ParentFacts ==
    ASSUME NEW p \in Seq(Names), p # <<>>
    PROVE  /\ Parent(p) \in Seq(Names) /\ Len(Parent(p)) = Len(p) - 1
           /\ Len(p) \in Nat /\ Len(p) > 0
           /\ \A i \in 1..(Len(p) - 1) : Parent(p)[i] = p[i]
<1>1. Len(p) \in Nat /\ Len(p) > 0
  BY EmptySeq, LenProperties
<1>2. Len(p) - 1 \in 0..Len(p)
  BY <1>1
<1> QED
  BY <1>1, <1>2, SubSeqFacts DEF Parent, Front

\* Prefixes, element by element.
LEMMA PrefixFacts ==
    ASSUME NEW p \in Seq(Names), NEW q \in Seq(Names)
    PROVE  IsPrefix(p, q) <=> /\ Len(p) <= Len(q)
                              /\ \A i \in 1..Len(p) : p[i] = q[i]
<1>1. Len(p) \in Nat /\ Len(q) \in Nat
  BY LenProperties
<1>2. SubSeq(p, 1, Len(p)) = p
  BY SubSeqFull
<1>3. CASE Len(p) <= Len(q)
  <2>1. /\ SubSeq(q, 1, Len(p)) \in Seq(Names)
        /\ Len(SubSeq(q, 1, Len(p))) = Len(p)
        /\ \A i \in 1..Len(p) : SubSeq(q, 1, Len(p))[i] = q[i]
    BY <1>1, <1>3, SubSeqFacts
  <2>2. p = SubSeq(q, 1, Len(p)) <=> \A i \in 1..Len(p) : p[i] = q[i]
    BY <2>1, SeqEqual
  <2> QED
    BY <1>2, <1>3, <2>2 DEF IsPrefix
<1> QED
  BY <1>3 DEF IsPrefix

\* What lies below a node's parent, the node apart, is as far from the node.
LEMMA BelowFacts ==
    ASSUME NEW p \in Seq(Names), NEW q \in Seq(Names)
    PROVE  /\ IsStrictPrefix(p, q) <=> IsPrefix(p, q) /\ Len(p) < Len(q)
           /\ IsStrictPrefix(p, q) => IsPrefix(p, Parent(q)) /\ q # <<>>
<1>1. Len(p) \in Nat /\ Len(q) \in Nat
  BY LenProperties
<1>2. IsPrefix(p, q) /\ ~(Len(p) < Len(q)) => p = q
  BY <1>1, PrefixFacts, SeqEqual
<1>3. IsStrictPrefix(p, q) <=> IsPrefix(p, q) /\ Len(p) < Len(q)
  BY <1>1, <1>2, PrefixFacts DEF IsStrictPrefix
<1>4. ASSUME IsStrictPrefix(p, q) PROVE IsPrefix(p, Parent(q)) /\ q # <<>>
  <2>1. q # <<>>
    BY <1>1, <1>3, <1>4, EmptySeq
  <2>2. /\ Parent(q) \in Seq(Names) /\ Len(Parent(q)) = Len(q) - 1
        /\ \A i \in 1..(Len(q) - 1) : Parent(q)[i] = q[i]
    BY <2>1, ParentFacts
  <2>3. Len(p) <= Len(Parent(q)) /\ \A i \in 1..Len(p) : p[i] = Parent(q)[i]
    BY <1>1, <1>3, <1>4, <2>2, PrefixFacts
  <2> QED
    BY <2>1, <2>2, <2>3, PrefixFacts
<1> QED
  BY <1>3, <1>4

\* A path lies below its parent.
LEMMA ParentAbove ==
    ASSUME NEW p \in Seq(Names), p # <<>>
    PROVE  IsStrictPrefix(Parent(p), p)
<1>1. /\ Parent(p) \in Seq(Names) /\ Len(Parent(p)) = Len(p) - 1
      /\ Len(p) \in Nat /\ Len(p) > 0
      /\ \A i \in 1..(Len(p) - 1) : Parent(p)[i] = p[i]
  BY ParentFacts
<1> QED
  BY <1>1, PrefixFacts, BelowFacts

\* A prefix of a prefix is one.
LEMMA PrefixTransitive ==
    ASSUME NEW p \in Seq(Names), NEW q \in Seq(Names), NEW r \in Seq(Names),
           IsPrefix(p, q), IsPrefix(q, r)
    PROVE  IsPrefix(p, r)
<1>1. Len(p) \in Nat /\ Len(q) \in Nat /\ Len(r) \in Nat
  BY LenProperties
<1> QED
  BY <1>1, PrefixFacts

\* Nodes of the same subtree that are no deeper than its top are its top.
LEMMA PrefixSelf ==
    ASSUME NEW p \in Seq(Names) PROVE IsPrefix(p, p)
BY PrefixFacts, LenProperties

----------------------------------------------------------------------------
(* Types.                                                                  *)

\* What the nodes are: a subtree of the DDF from the root, with the contents
\* that the DDF asks for.
NodeMaps ==
    {f \in UNION {[D -> Values \cup {Interior}] : D \in SUBSET Paths} :
        /\ <<>> \in DOMAIN f
        /\ \A p \in DOMAIN f : /\ f[p] \in Contents(p)
                               /\ p # <<>> => Parent(p) \in DOMAIN f}
AclMaps ==
    {a \in UNION {[D -> [Perms -> SUBSET Servers]] : D \in SUBSET Paths} :
        <<>> \in DOMAIN a}
Statuses == {"ok", "failed", "refused", "not_found", "not_allowed", "exists",
             "rolled_back"}
Calls == [node : NodeMaps, acl : AclMaps, status : Statuses, logged : BOOLEAN]

\* The inductive invariant.
IInv == tree \in [node : NodeMaps, acl : AclMaps]

\* What a member of NodeMaps is.
LEMMA NodeMapFacts ==
    ASSUME NEW f \in NodeMaps
    PROVE  /\ DOMAIN f \subseteq Paths /\ <<>> \in DOMAIN f
           /\ f \in [DOMAIN f -> Values \cup {Interior}]
           /\ \A p \in DOMAIN f : /\ f[p] \in Contents(p)
                                  /\ p # <<>> => Parent(p) \in DOMAIN f
BY DEF NodeMaps

\* How a function is shown to be one.
LEMMA NodeMapIntro ==
    ASSUME NEW D \in SUBSET Paths, NEW f, f = [p \in D |-> f[p]], <<>> \in D,
           \A p \in D : f[p] \in Contents(p) /\ (p # <<>> => Parent(p) \in D)
    PROVE  f \in NodeMaps /\ DOMAIN f = D
<1>1. \A p \in D : f[p] \in Values \cup {Interior}
  BY DEF Contents
<1>2. f \in [D -> Values \cup {Interior}] /\ DOMAIN f = D
  BY <1>1
<1> QED
  BY <1>2 DEF NodeMaps

\* What the DDF says of its paths.
LEMMA PathsFacts ==
    /\ Paths \subseteq Seq(Names) /\ <<>> \in Paths
    /\ \A p \in Paths \ {<<>>} : Parent(p) \in Paths \ Leaves
    /\ Leaves \subseteq Paths /\ <<>> \notin Leaves
BY DDFAssumption

\* What a tree of Calls has.
LEMMA CallsFacts ==
    ASSUME NEW t \in Calls
    PROVE  /\ t.node \in NodeMaps /\ t.acl \in AclMaps
           /\ t.status \in Statuses /\ t.logged \in BOOLEAN
           /\ Nodes(t) = DOMAIN t.node
           /\ Nodes(t) \subseteq Paths /\ <<>> \in Nodes(t)
           /\ Nodes(t) \subseteq Seq(Names)
           /\ \A p \in Nodes(t) \ {<<>>} : Parent(p) \in Nodes(t)
           /\ \A p \in Nodes(t) : t.node[p] \in Contents(p)
BY NodeMapFacts, PathsFacts DEF Calls, Nodes

\* A subtree from the root has what lies above its nodes.
LEMMA ClosedUpwards ==
    ASSUME NEW D \in SUBSET Seq(Names),
           \A q \in D : q # <<>> => Parent(q) \in D,
           NEW q \in D, NEW p \in Seq(Names), IsPrefix(p, q)
    PROVE  p \in D
<1> DEFINE Holds(n) == \A r \in D : IsPrefix(p, r) /\ Len(r) = Len(p) + n
                                        => p \in D
           K == {n \in Nat : Holds(n)}
<1>1. Len(p) \in Nat /\ \A r \in Seq(Names) : Len(r) \in Nat
  BY LenProperties
<1>2. Holds(0)
  <2> SUFFICES ASSUME NEW r \in D, IsPrefix(p, r), Len(r) = Len(p) + 0
               PROVE  p \in D
    OBVIOUS
  <2>1. p = r
    BY <1>1, PrefixFacts, SeqEqual
  <2> QED
    BY <2>1
<1>3. ASSUME NEW n \in Nat, Holds(n) PROVE Holds(n + 1)
  <2> SUFFICES ASSUME NEW r \in D, IsPrefix(p, r), Len(r) = Len(p) + (n + 1)
               PROVE  p \in D
    OBVIOUS
  <2>1. IsPrefix(p, Parent(r)) /\ r # <<>>
    BY <1>1, BelowFacts
  <2>2. Len(Parent(r)) = Len(p) + n /\ Parent(r) \in D
    BY <1>1, <2>1, ParentFacts
  <2> QED
    BY <1>3, <2>1, <2>2
<1>4. \A n \in Nat : Holds(n)
  <2> HIDE DEF Holds
  <2>1. 0 \in K /\ \A n \in Nat : n \in K => n + 1 \in K
    BY <1>2, <1>3
  <2> HIDE DEF K
  <2>2. Nat \subseteq K
    BY <2>1, NatSetInduction
  <2> QED
    BY <2>2 DEF K
<1>5. Len(q) - Len(p) \in Nat /\ Len(q) = Len(p) + (Len(q) - Len(p))
  BY <1>1, PrefixFacts
<1> QED
  BY <1>4, <1>5

\* With a path the DDF describes all above it.
LEMMA PathsAbove ==
    ASSUME NEW q \in Paths, NEW p \in Seq(Names), IsPrefix(p, q)
    PROVE  p \in Paths
BY PathsFacts, ClosedUpwards

\* With a node, a tree has all that are above it.
LEMMA NodesAbove ==
    ASSUME NEW t \in Calls, NEW q \in Nodes(t), NEW p \in Seq(Names),
           IsPrefix(p, q)
    PROVE  p \in Nodes(t)
BY CallsFacts, ClosedUpwards

----------------------------------------------------------------------------
(* What the operations return.                                             *)

\* A status and the log leave the nodes and the ACLs alone.
LEMMA ReturnsFacts ==
    ASSUME NEW t \in Calls, NEW status \in Statuses
    PROVE  /\ Returns(t, status) \in Calls /\ LogEvent(t) \in Calls
           /\ Returns(t, status).node = t.node
           /\ Returns(t, status).acl = t.acl
           /\ Returns(t, status).status = status
           /\ LogEvent(t).node = t.node /\ LogEvent(t).acl = t.acl
           /\ LogEvent(t).status = t.status /\ LogEvent(t).logged
           /\ Nodes(Returns(t, status)) = Nodes(t)
           /\ Nodes(LogEvent(t)) = Nodes(t)
BY DEF Returns, LogEvent, Calls, Nodes

\* An ACL that is set leaves the nodes and the other ACLs alone.
LEMMA SetACLFacts ==
    ASSUME NEW t \in Calls, NEW p \in Paths,
           NEW acl \in [Perms -> SUBSET Servers]
    PROVE  /\ SetACL(t, p, acl) \in Calls
           /\ SetACL(t, p, acl).node = t.node
           /\ SetACL(t, p, acl).status = t.status
           /\ SetACL(t, p, acl).logged = t.logged
<1> DEFINE a == [q \in DOMAIN t.acl \cup {p} |->
                     IF q = p THEN acl ELSE t.acl[q]]
<1>1. /\ DOMAIN t.acl \in SUBSET Paths /\ <<>> \in DOMAIN t.acl
      /\ t.acl \in [DOMAIN t.acl -> [Perms -> SUBSET Servers]]
  BY CallsFacts DEF AclMaps
<1>2. /\ a \in [DOMAIN t.acl \cup {p} -> [Perms -> SUBSET Servers]]
      /\ DOMAIN a = DOMAIN t.acl \cup {p}
      /\ DOMAIN t.acl \cup {p} \in SUBSET Paths
  BY <1>1
<1> HIDE DEF a
<1>3. a \in AclMaps
  BY <1>1, <1>2 DEF AclMaps
<1>4. SetACL(t, p, acl) = [t EXCEPT !.acl = a]
  BY DEF SetACL, a
<1> QED
  BY <1>3, <1>4 DEF Calls

\* So does an ACL that is deleted, of a node other than the root.
LEMMA DeleteACLFacts ==
    ASSUME NEW t \in Calls, NEW p \in Paths, p # <<>>
    PROVE  /\ DeleteACL(t, p) \in Calls
           /\ DeleteACL(t, p).node = t.node
           /\ DeleteACL(t, p).status = t.status
<1> DEFINE a == [q \in DOMAIN t.acl \ {p} |-> t.acl[q]]
<1>1. /\ DOMAIN t.acl \in SUBSET Paths /\ <<>> \in DOMAIN t.acl
      /\ t.acl \in [DOMAIN t.acl -> [Perms -> SUBSET Servers]]
  BY CallsFacts DEF AclMaps
<1>2. /\ a \in [DOMAIN t.acl \ {p} -> [Perms -> SUBSET Servers]]
      /\ DOMAIN a = DOMAIN t.acl \ {p}
      /\ DOMAIN t.acl \ {p} \in SUBSET Paths
  BY <1>1
<1> HIDE DEF a
<1>3. a \in AclMaps
  BY <1>1, <1>2 DEF AclMaps
<1>4. DeleteACL(t, p) = [t EXCEPT !.acl = a]
  BY DEF DeleteACL, a
<1> QED
  BY <1>3, <1>4 DEF Calls

\* The nodes that are left when a set closed downwards is removed.
LEMMA RemoveFacts ==
    ASSUME NEW t \in Calls, NEW gone, <<>> \notin gone,
           \A q \in Nodes(t) \ gone : q # <<>> => Parent(q) \notin gone
    PROVE  /\ RemoveNodes(t, gone) \in Calls
           /\ Nodes(RemoveNodes(t, gone)) = Nodes(t) \ gone
           /\ RemoveNodes(t, gone).node = [q \in Nodes(t) \ gone |-> t.node[q]]
           /\ RemoveNodes(t, gone).status = t.status
<1> DEFINE f == [q \in Nodes(t) \ gone |-> t.node[q]]
           a == [q \in DOMAIN t.acl \ gone |-> t.acl[q]]
<1>1. /\ DOMAIN t.acl \in SUBSET Paths /\ <<>> \in DOMAIN t.acl
      /\ t.acl \in [DOMAIN t.acl -> [Perms -> SUBSET Servers]]
  BY CallsFacts DEF AclMaps
<1>2. /\ a \in [DOMAIN t.acl \ gone -> [Perms -> SUBSET Servers]]
      /\ DOMAIN a = DOMAIN t.acl \ gone
      /\ DOMAIN t.acl \ gone \in SUBSET Paths
  BY <1>1
<1>3. f = [q \in Nodes(t) \ gone |-> f[q]]
      /\ \A q \in Nodes(t) \ gone : f[q] = t.node[q]
  OBVIOUS
<1> HIDE DEF a, f
<1>4. a \in AclMaps
  BY <1>1, <1>2 DEF AclMaps
<1>5. f \in NodeMaps /\ DOMAIN f = Nodes(t) \ gone
  <2>1. /\ Nodes(t) \ gone \in SUBSET Paths /\ <<>> \in Nodes(t) \ gone
        /\ \A q \in Nodes(t) \ gone :
               f[q] \in Contents(q) /\ (q # <<>> => Parent(q) \in Nodes(t) \ gone)
    BY <1>3, CallsFacts
  <2> QED
    BY <1>3, <2>1, NodeMapIntro
<1>6. RemoveNodes(t, gone) = [t EXCEPT !.node = f, !.acl = a]
  BY DEF RemoveNodes, a, f
<1>7. /\ RemoveNodes(t, gone) \in Calls /\ RemoveNodes(t, gone).node = f
      /\ RemoveNodes(t, gone).status = t.status
  BY <1>4, <1>5, <1>6 DEF Calls
<1> QED
  BY <1>5, <1>7 DEF Nodes, f

\* The walk goes from the leaves up: where it has been to a node, it has been
\* to those below.
LEMMA WalkedClosed ==
    ASSUME NEW pos, NEW q \in Seq(Names), q # <<>>, NEW bad \in Seq(Names),
           WalkedBefore(pos, Parent(q), bad)
    PROVE  WalkedBefore(pos, q, bad)
<1> DEFINE r == Parent(q)
<1>1. /\ r \in Seq(Names) /\ Len(r) = Len(q) - 1 /\ Len(q) \in Nat
      /\ \A i \in 1..(Len(q) - 1) : r[i] = q[i]
      /\ Len(bad) \in Nat
  BY ParentFacts, LenProperties
<1> HIDE DEF r
<1>2. CASE IsStrictPrefix(bad, r)
  <2>1. IsStrictPrefix(bad, q)
    <3>1. /\ Len(bad) < Len(r)
          /\ \A i \in 1..Len(bad) : bad[i] = r[i]
      BY <1>1, <1>2, PrefixFacts, BelowFacts
    <3>2. /\ Len(bad) < Len(q)
          /\ \A i \in 1..Len(bad) : bad[i] = q[i]
      BY <1>1, <3>1
    <3> QED
      BY <1>1, <3>2, PrefixFacts, BelowFacts
  <2> QED
    BY <2>1 DEF WalkedBefore
<1>3. CASE \E i \in 1..Len(bad) :
               /\ i <= Len(r) /\ SubSeq(bad, 1, i - 1) = SubSeq(r, 1, i - 1)
               /\ pos[r[i]] < pos[bad[i]]
  <2>1. PICK i \in 1..Len(bad) :
               /\ i <= Len(r) /\ SubSeq(bad, 1, i - 1) = SubSeq(r, 1, i - 1)
               /\ pos[r[i]] < pos[bad[i]]
    BY <1>3
  <2>2. r[i] = q[i] /\ i <= Len(q)
    BY <1>1, <2>1
  <2>3. SubSeq(r, 1, i - 1) = SubSeq(q, 1, i - 1)
    <3>1. i - 1 \in 0..Len(r) /\ i - 1 \in 0..Len(q)
      BY <1>1, <2>1
    <3>2. \A j \in 1..(i - 1) : r[j] = q[j]
      BY <1>1, <2>1
    <3> QED
      BY <1>1, <3>1, <3>2, SubSeqFacts, SeqEqual
  <2> QED
    BY <2>1, <2>2, <2>3 DEF WalkedBefore
<1> QED
  BY <1>2, <1>3 DEF WalkedBefore, r

\* The walk does not come to a node before it comes to it.
LEMMA NotBeforeItself ==
    ASSUME NEW q \in Seq(Names), NEW pos \in [Names -> Nat]
    PROVE  ~WalkedBefore(pos, q, q)
<1>1. \A i \in 1..Len(q) : pos[q[i]] \in Nat
  BY ElementOfSeq
<1> QED
  BY <1>1 DEF WalkedBefore, IsStrictPrefix

\* What is below a node stays so in a tree.
LEMMA BelowNodes ==
    ASSUME NEW t \in Calls, NEW p \in Paths
    PROVE  /\ Below(t, p) \subseteq Nodes(t) /\ <<>> \notin Below(t, p)
           /\ \A q \in Nodes(t) : q # <<>> /\ Parent(q) \in Below(t, p) \cup {p}
                                      => q \in Below(t, p)
<1>1. /\ p \in Seq(Names) /\ Nodes(t) \subseteq Seq(Names)
  BY CallsFacts, PathsFacts
<1>2. <<>> \notin Below(t, p)
  BY <1>1, BelowFacts, EmptySeq DEF Below
<1>3. ASSUME NEW q \in Nodes(t), q # <<>>, Parent(q) \in Below(t, p) \cup {p}
      PROVE  IsStrictPrefix(p, q)
  <2>1. Parent(q) \in Seq(Names) /\ IsStrictPrefix(Parent(q), q)
    BY <1>1, <1>3, ParentFacts, ParentAbove
  <2>2. IsPrefix(p, Parent(q))
    BY <1>1, <1>3, <2>1, BelowFacts, PrefixSelf DEF Below
  <2>3. IsPrefix(p, q) /\ Len(p) < Len(q)
    BY <1>1, <2>1, <2>2, BelowFacts, PrefixFacts, PrefixTransitive,
       LenProperties
  <2> QED
    BY <1>1, <2>3, BelowFacts
<1> QED
  BY <1>2, <1>3 DEF Below

\* DeleteNode removes all of the subtree, or some of it and fails.
LEMMA DeleteNodeFacts ==
    ASSUME NEW t \in Calls, NEW p \in Paths, p # <<>>, NEW bad \in Paths,
           NEW pos, NEW d, d = DeleteNode(t, p, bad, pos)
    PROVE  /\ d \in Calls
           /\ Nodes(d) \subseteq Nodes(t)
           /\ Nodes(t) \ Nodes(d) \subseteq Below(t, p) \cup {p}
           /\ \A q \in Nodes(d) : d.node[q] = t.node[q]
           /\ d.status \in {t.status, "failed"}
           /\ \/ d.status = "failed"
                 /\ \A q \in Nodes(t) \ Nodes(d) : WalkedBefore(pos, q, bad)
                 /\ bad \in Below(t, p) \cup {p}
              \/ d.status = t.status
                 /\ Nodes(d) = Nodes(t) \ (Below(t, p) \cup {p})
<1> DEFINE all == Below(t, p) \cup {p}
           walked == {q \in all : WalkedBefore(pos, q, bad)}
<1>1. /\ Below(t, p) \subseteq Nodes(t) /\ <<>> \notin all
      /\ \A q \in Nodes(t) : q # <<>> /\ Parent(q) \in all => q \in Below(t, p)
  BY BelowNodes
<1>2. \A q \in Nodes(t) \ all : q # <<>> => Parent(q) \notin all
  BY <1>1
<1>3. \A q \in Nodes(t) \ walked : q # <<>> => Parent(q) \notin walked
  <2>1. Nodes(t) \subseteq Seq(Names) /\ bad \in Seq(Names)
    BY CallsFacts, PathsFacts
  <2> QED
    BY <1>1, <2>1, WalkedClosed
<1>4. <<>> \notin walked /\ walked \subseteq all
  BY <1>1
<1>5. CASE bad \in all
  <2>1. d = Returns(RemoveNodes(t, walked), "failed")
    BY <1>5 DEF DeleteNode
  <2> HIDE DEF all, walked
  <2>2. /\ RemoveNodes(t, walked) \in Calls
        /\ Nodes(RemoveNodes(t, walked)) = Nodes(t) \ walked
        /\ RemoveNodes(t, walked).node = [q \in Nodes(t) \ walked |-> t.node[q]]
    BY <1>3, <1>4, RemoveFacts
  <2>3. /\ d \in Calls /\ d.node = [q \in Nodes(t) \ walked |-> t.node[q]]
        /\ Nodes(d) = Nodes(t) \ walked /\ d.status = "failed"
    BY <2>1, <2>2, ReturnsFacts DEF Statuses
  <2>4. \A q \in walked : WalkedBefore(pos, q, bad)
    BY DEF walked
  <2> QED
    BY <1>4, <1>5, <2>3, <2>4 DEF all
<1>6. CASE bad \notin all
  <2>1. d = RemoveNodes(t, all)
    BY <1>6 DEF DeleteNode
  <2> HIDE DEF all, walked
  <2>2. /\ d \in Calls /\ Nodes(d) = Nodes(t) \ all /\ d.status = t.status
        /\ d.node = [q \in Nodes(t) \ all |-> t.node[q]]
    <3>1. /\ RemoveNodes(t, all) \in Calls
          /\ Nodes(RemoveNodes(t, all)) = Nodes(t) \ all
          /\ RemoveNodes(t, all).status = t.status
          /\ RemoveNodes(t, all).node = [q \in Nodes(t) \ all |-> t.node[q]]
      BY <1>1, <1>2, RemoveFacts
    <3> QED
      BY <2>1, <3>1
  <2> QED
    BY <2>2 DEF all
<1> QED
  BY <1>5, <1>6

\* Delete removes the node and all below it or, failed, what the walk
\* had come to.
LEMMA DeleteFacts ==
    ASSUME NEW t \in Calls, NEW server, NEW request, NEW p \in Paths,
           NEW bad \in Paths, NEW pos,
           NEW d, d = Delete(t, server, request, p, bad, pos)
    PROVE  /\ d \in Calls
           /\ Nodes(d) \subseteq Nodes(t)
           /\ Nodes(t) \ Nodes(d) \subseteq Below(t, p) \cup {p}
           /\ \A q \in Nodes(d) : d.node[q] = t.node[q]
           /\ t.status = "ok" /\ d.status = "ok" =>
                  Nodes(d) = Nodes(t) \ (Below(t, p) \cup {p})
           /\ t.status = "ok" /\ d.status # "ok" =>
                  \A q \in Nodes(t) \ Nodes(d) :
                      WalkedBefore(pos, q, bad) /\ bad \in Below(t, p) \cup {p}
<1> DEFINE e == DeleteNode(t, p, bad, pos)
<1>1. ASSUME NEW status \in Statuses \ {"ok"}, d = Returns(t, status)
      PROVE  /\ d \in Calls /\ d.node = t.node /\ Nodes(d) = Nodes(t)
             /\ d.status # "ok"
  BY <1>1, ReturnsFacts
<1>2. CASE p \notin Nodes(t) \/ p \in Permanent
  <2>1. d = Returns(t, "not_found") \/ d = Returns(t, "not_allowed")
    BY <1>2 DEF Delete
  <2> QED
    BY <1>1, <2>1 DEF Statuses
<1>3. CASE p \in Nodes(t) /\ p \notin Permanent
  <2>1. \/ d = Returns(t, "refused")
        \/ e.status = "ok" /\ d = LogEvent(e)
        \/ e.status # "ok" /\ d = e
    BY <1>3 DEF Delete
  <2>2. CASE d = Returns(t, "refused")
    BY <1>1, <2>2 DEF Statuses
  <2>3. CASE d # Returns(t, "refused")
    <3>1. p # <<>>
      BY <1>3, TreeAssumption
    <3> HIDE DEF e
    <3>2. /\ e \in Calls
          /\ Nodes(e) \subseteq Nodes(t)
          /\ Nodes(t) \ Nodes(e) \subseteq Below(t, p) \cup {p}
          /\ \A q \in Nodes(e) : e.node[q] = t.node[q]
          /\ e.status \in {t.status, "failed"}
          /\ \/ e.status = "failed"
                /\ \A q \in Nodes(t) \ Nodes(e) : WalkedBefore(pos, q, bad)
                /\ bad \in Below(t, p) \cup {p}
             \/ e.status = t.status
                /\ Nodes(e) = Nodes(t) \ (Below(t, p) \cup {p})
      BY <3>1, DeleteNodeFacts DEF e
    <3>3. d \in Calls /\ d.node = e.node /\ Nodes(d) = Nodes(e)
          /\ d.status = e.status
      BY <2>1, <2>3, <3>2, ReturnsFacts DEF Statuses
    <3> QED
      BY <3>2, <3>3
  <2> QED
    BY <2>2, <2>3
<1> QED
  BY <1>2, <1>3

\* A node that is added: below one of the tree where the server may add.
LEMMA AddNodeFacts ==
    ASSUME NEW t \in Calls, t.status = "ok", NEW server \in Servers,
           NEW p \in Paths, NEW value \in Contents(p), NEW bad,
           NEW a, a = AddNodeInternal(t, server, p, value, bad)
    PROVE  /\ a \in Calls
           /\ a.status # "ok" => a.node = t.node
           /\ a.status = "ok" =>
                  /\ a.logged /\ p # <<>> /\ p \notin Nodes(t)
                  /\ Parent(p) \in Nodes(t)
                  /\ IsPermitted(t, server, Parent(p), "Add")
                  /\ Nodes(a) = Nodes(t) \cup {p} /\ a.node[p] = value
                  /\ \A q \in Nodes(t) : a.node[q] = t.node[q]
<1> DEFINE owned == OwnACL(t, server, p)
           f == [q \in Nodes(t) \cup {p} |-> IF q = p THEN value ELSE t.node[q]]
           added == [owned EXCEPT !.node = f]
<1>1. ASSUME NEW status \in Statuses \ {"ok"}, a = Returns(t, status)
      PROVE  a \in Calls /\ a.status # "ok" /\ a.node = t.node
  BY <1>1, ReturnsFacts
<1>2. CASE p = <<>> \/ Parent(p) \notin Nodes(t) \/ p \in Nodes(t)
  <2>1. a \in {Returns(t, "failed"), Returns(t, "not_found"),
               Returns(t, "exists")}
    BY <1>2 DEF AddNodeInternal
  <2> QED
    BY <1>1, <2>1 DEF Statuses
<1>3. CASE p # <<>> /\ Parent(p) \in Nodes(t) /\ p \notin Nodes(t)
  <2>1. \/ a = Returns(t, "refused")
        \/ IsPermitted(t, server, Parent(p), "Add") /\ p = bad
           /\ a = Returns(owned, "failed")
        \/ IsPermitted(t, server, Parent(p), "Add") /\ a = LogEvent(added)
    BY <1>3 DEF AddNodeInternal, IsValidServer
  <2>2. owned \in Calls /\ owned.node = t.node /\ owned.status = "ok"
    <3>1. Only(server) \in [Perms -> SUBSET Servers]
      BY DEF Only
    <3> QED
      BY <3>1, SetACLFacts DEF OwnACL
  <2>3. f = [q \in Nodes(t) \cup {p} |-> f[q]] /\ f[p] = value
        /\ \A q \in Nodes(t) : f[q] = t.node[q]
    BY <1>3
  <2> HIDE DEF owned, f
  <2>4. f \in NodeMaps /\ DOMAIN f = Nodes(t) \cup {p}
    <3>1. /\ Nodes(t) \cup {p} \in SUBSET Paths /\ <<>> \in Nodes(t) \cup {p}
          /\ \A q \in Nodes(t) \cup {p} :
                 /\ f[q] \in Contents(q)
                 /\ q # <<>> => Parent(q) \in Nodes(t) \cup {p}
      BY <1>3, <2>3, CallsFacts
    <3> QED
      BY <2>3, <3>1, NodeMapIntro
  <2>5. added \in Calls /\ added.node = f /\ added.status = "ok"
    BY <2>2, <2>4 DEF Calls
  <2> HIDE DEF added
  <2>6. CASE a = Returns(t, "refused")
    BY <1>1, <2>6 DEF Statuses
  <2>7. CASE a = Returns(owned, "failed")
    BY <2>2, <2>7, ReturnsFacts DEF Statuses
  <2>8. CASE IsPermitted(t, server, Parent(p), "Add") /\ a = LogEvent(added)
    <3>1. a \in Calls /\ a.node = f /\ a.status = "ok" /\ a.logged
      BY <2>5, <2>8, ReturnsFacts DEF Statuses
    <3>2. Nodes(a) = Nodes(t) \cup {p}
      BY <2>4, <3>1 DEF Nodes
    <3> QED
      BY <1>3, <2>3, <2>8, <3>1, <3>2
  <2> QED
    BY <2>1, <2>6, <2>7, <2>8
<1> QED
  BY <1>2, <1>3

\* Replace of a value changes that node's value and nothing else.
LEMMA ReplaceFacts ==
    ASSUME NEW t \in Calls, t.status = "ok", NEW server, NEW p \in Paths,
           NEW value \in Values, NEW bad,
           NEW r, r = Replace(t, server, p, value, bad)
    PROVE  /\ r \in Calls /\ Nodes(r) = Nodes(t)
           /\ r.status # "ok" => r.node = t.node
           /\ r.status = "ok" =>
                  /\ p \in Nodes(t) /\ ~IsInterior(t, p)
                  /\ r.node = [t.node EXCEPT ![p] = value]
<1>1. ASSUME NEW status \in Statuses \ {"ok"}, r = Returns(t, status)
      PROVE  /\ r \in Calls /\ r.status # "ok" /\ r.node = t.node
             /\ Nodes(r) = Nodes(t)
  BY <1>1, ReturnsFacts
<1> DEFINE f == [t.node EXCEPT ![p] = value]
           e == [t EXCEPT !.node = f]
<1>2. \/ \E status \in {"not_found", "refused", "failed"} :
             r = Returns(t, status)
      \/ p \in Nodes(t) /\ ~IsInterior(t, p) /\ r = LogEvent(e)
  <2>1. \/ \E status \in {"not_found", "refused"} : r = Returns(t, status)
        \/ p \in Nodes(t) /\ ~IsInterior(t, p)
           /\ r = ReplaceNodeInternal(t, p, value, bad)
    BY DEF Replace
  <2>2. ReplaceNodeInternal(t, p, value, bad)
            \in {Returns(t, "failed"), LogEvent(e)}
    <3>1. [t EXCEPT !.node[p] = value] = e
      BY DEF Calls
    <3> QED
      BY <3>1 DEF ReplaceNodeInternal
  <2> HIDE DEF e
  <2> QED
    BY <2>1, <2>2
<1>3. CASE \E status \in {"not_found", "refused", "failed"} :
               r = Returns(t, status)
  BY <1>1, <1>3 DEF Statuses
<1>4. CASE p \in Nodes(t) /\ ~IsInterior(t, p) /\ r = LogEvent(e)
  <2>1. value \in Contents(p)
    <3>1. t.node[p] \in Contents(p) /\ t.node[p] # Interior
      BY <1>4, CallsFacts DEF IsInterior
    <3> QED
      BY <3>1 DEF Contents
  <2>2. /\ t.node \in NodeMaps /\ DOMAIN t.node = Nodes(t)
        /\ t.node \in [Nodes(t) -> Values \cup {Interior}]
    BY CallsFacts, NodeMapFacts
  <2>3. /\ f = [q \in Nodes(t) |-> f[q]]
        /\ \A q \in Nodes(t) : f[q] = IF q = p THEN value ELSE t.node[q]
    BY <1>4, <2>2
  <2> HIDE DEF f
  <2>4. f \in NodeMaps /\ DOMAIN f = Nodes(t)
    <3>1. /\ Nodes(t) \in SUBSET Paths /\ <<>> \in Nodes(t)
          /\ \A q \in Nodes(t) : /\ f[q] \in Contents(q)
                                 /\ q # <<>> => Parent(q) \in Nodes(t)
      BY <2>1, <2>3, CallsFacts
    <3> QED
      BY <2>3, <3>1, NodeMapIntro
  <2>5. e \in Calls /\ e.node = f /\ e.status = "ok"
    BY <2>4 DEF Calls
  <2> HIDE DEF e
  <2>6. r \in Calls /\ r.node = f /\ r.status = "ok"
    BY <1>4, <2>5, ReturnsFacts DEF Statuses
  <2> QED
    BY <1>4, <2>4, <2>6 DEF Nodes, f
<1> QED
  BY <1>2, <1>3, <1>4

\* Replace of an ACL leaves a tree.
LEMMA ReplaceACLFacts ==
    ASSUME NEW t \in Calls, NEW server, NEW p \in Paths,
           NEW acls \in {{}} \cup {{acl} : acl \in Acls}
    PROVE  ReplaceACLProperty(t, server, p, acls) \in Calls
<1> DEFINE r == ReplaceACLProperty(t, server, p, acls)
<1>1. \/ r \in {Returns(t, "not_found"), Returns(t, "refused")}
      \/ /\ p # <<>>
         /\ r = LogEvent(IF acls = {} THEN DeleteACL(t, p)
                         ELSE SetACL(t, p, CHOOSE acl \in acls : TRUE))
  BY DEF ReplaceACLProperty
<1>2. acls # {} => (CHOOSE acl \in acls : TRUE) \in [Perms -> SUBSET Servers]
  BY AclAssumption
<1> QED
  BY <1>1, <1>2, ReturnsFacts, SetACLFacts, DeleteACLFacts DEF Statuses

----------------------------------------------------------------------------
(* Folds.                                                                  *)

\* Induction from 0 up to n.
LEMMA Upwards ==
    ASSUME NEW n \in Nat, NEW S, 0 \in S,
           \A i \in 0..n : i \in S /\ i < n => i + 1 \in S
    PROVE  0..n \subseteq S
<1> DEFINE K == {i \in Nat : i <= n => i \in S}
<1>1. 0 \in K
  OBVIOUS
<1>3. ASSUME NEW i \in Nat, i <= n => i \in S, i + 1 <= n PROVE i + 1 \in S
  <2> HIDE DEF K
  <2>1. i \in 0..n /\ i < n /\ i <= n
    BY <1>3
  <2> QED
    BY <1>3, <2>1
<1>4. \A i \in Nat : i \in K => i + 1 \in K
  BY <1>3
<1> HIDE DEF K
<1>2. Nat \subseteq K
  BY <1>1, <1>4, NatSetInduction
<1> QED
  BY <1>2 DEF K

\* The greatest of some of the first n numbers is one of them.
LEMMA MaxIn ==
    ASSUME NEW m \in Nat, NEW s \in SUBSET (1..m), s # {}
    PROVE  Max(s) \in s
<1> DEFINE Holds(n) == \A r \in SUBSET (1..n) :
                           r # {} => \E x \in r : \A y \in r : x >= y
           K == {n \in Nat : Holds(n)}
<1>1. Holds(0)
  <2>1. 1..0 = {}
    OBVIOUS
  <2> QED
    BY <2>1
<1>2. ASSUME NEW n \in Nat, Holds(n) PROVE Holds(n + 1)
  <2> SUFFICES ASSUME NEW r \in SUBSET (1..(n + 1)), r # {}
               PROVE  \E x \in r : \A y \in r : x >= y
    OBVIOUS
  <2>1. CASE n + 1 \in r
    <3>1. \A y \in r : n + 1 >= y
      OBVIOUS
    <3> QED
      BY <2>1, <3>1
  <2>2. CASE n + 1 \notin r
    <3>1. r \in SUBSET (1..n)
      BY <2>2
    <3> QED
      BY <1>2, <3>1
  <2> QED
    BY <2>1, <2>2
<1>3. Nat \subseteq K
  <2> HIDE DEF Holds
  <2>1. 0 \in K /\ \A n \in Nat : n \in K => n + 1 \in K
    BY <1>1, <1>2
  <2> HIDE DEF K
  <2> QED
    BY <2>1, NatSetInduction
<1>4. \E x \in s : \A y \in s : x >= y
  BY <1>3
<1> QED
  BY <1>4 DEF Max

\* The last of the first i numbers, and what is before it.
LEMMA FoldIndex ==
    ASSUME NEW i \in Nat, i > 0
    PROVE  1..i # {} /\ Max(1..i) = i /\ (1..i) \ {i} = 1..(i - 1)
<1>1. i - 1 \in Nat /\ (i - 1) + 1 = i
  OBVIOUS
<1>2. Max(1..i) = i
  BY <1>1, MaxLast
<1> QED
  BY <1>2

----------------------------------------------------------------------------
(* Add.                                                                    *)

\* The topmost node missing on the way to p has its parent in the tree.
LEMMA TopExists ==
    ASSUME NEW t \in Calls, NEW p \in Paths, p \notin Nodes(t)
    PROVE  \E q \in Prefixes(p) \ Nodes(t) : Parent(q) \in Nodes(t)
<1> DEFINE S == {i \in Nat : SubSeq(p, 1, i) \in Nodes(t)}
<1>1. p \in Seq(Names) /\ Len(p) \in Nat
  BY PathsFacts, LenProperties
<1>2. SUFFICES ASSUME \A q \in Prefixes(p) \ Nodes(t) : Parent(q) \notin Nodes(t)
               PROVE  FALSE
  OBVIOUS
<1>3. 0 \in S
  <2>1. SubSeq(p, 1, 0) = <<>>
    BY SubSeqEmpty
  <2> QED
    BY <2>1, CallsFacts
<1>4. ASSUME NEW i \in 0..Len(p), i \in S, i < Len(p) PROVE i + 1 \in S
  <2> DEFINE q == SubSeq(p, 1, i + 1)
  <2>1. i + 1 \in 0..Len(p) /\ i + 1 - 1 = i /\ i \in 0..Len(p) /\ i + 1 > 0
    BY <1>1, <1>4
  <2>2. /\ q \in Seq(Names) /\ Len(q) = i + 1
        /\ \A j \in 1..(i + 1) : q[j] = p[j]
    BY <1>1, <2>1, SubSeqFacts
  <2>3. q \in Prefixes(p)
    BY <2>1 DEF Prefixes
  <2> HIDE DEF q
  <2>4. q # <<>>
    BY <2>1, <2>2, EmptySeq
  <2>5. /\ Parent(q) \in Seq(Names) /\ Len(Parent(q)) = i
        /\ \A j \in 1..i : Parent(q)[j] = p[j]
    <3>1. Len(q) - 1 = i
      BY <1>1, <1>4, <2>2
    <3>2. \A j \in 1..i : j \in 1..(i + 1)
      BY <1>1, <1>4
    <3>3. /\ Parent(q) \in Seq(Names) /\ Len(Parent(q)) = Len(q) - 1
          /\ \A j \in 1..(Len(q) - 1) : Parent(q)[j] = q[j]
      BY <2>2, <2>4, ParentFacts
    <3> QED
      BY <2>2, <3>1, <3>2, <3>3
  <2>6. /\ SubSeq(p, 1, i) \in Seq(Names) /\ Len(SubSeq(p, 1, i)) = i
        /\ \A j \in 1..i : SubSeq(p, 1, i)[j] = p[j]
    BY <1>1, <2>1, SubSeqFacts
  <2>7. Parent(q) = SubSeq(p, 1, i)
    BY <2>5, <2>6, SeqEqual
  <2>8. Parent(q) \in Nodes(t)
    BY <1>4, <2>7
  <2>9. q \in Nodes(t)
    BY <1>2, <2>3, <2>8
  <2> QED
    BY <1>4, <2>9 DEF q
<1>5. Len(p) \in S
  <2> HIDE DEF S
  <2>1. 0..Len(p) \subseteq S
    BY <1>1, <1>3, <1>4, Upwards
  <2> QED
    BY <1>1, <2>1
<1>6. SubSeq(p, 1, Len(p)) = p
  BY <1>1, SubSeqFull
<1> QED
  BY <1>5, <1>6

\* The chain of missing nodes: each the parent of the next, p the last.
LEMMA MissingFacts ==
    ASSUME NEW t \in Calls, NEW p \in Paths, p # <<>>,
           Parent(p) \notin Nodes(t), NEW c, c = Missing(t, p)
    PROVE  /\ c \in Seq(Paths) /\ Len(c) \in Nat /\ Len(c) > 1
           /\ c[Len(c)] = p /\ Parent(c[1]) \in Nodes(t)
           /\ \A i \in 1..Len(c) :
                  /\ c[i] \in Paths \ Nodes(t) /\ c[i] # <<>>
                  /\ IsPrefix(c[i], p)
                  /\ i < Len(c) => c[i] # p /\ c[i] \notin Leaves
                                   /\ Parent(c[i + 1]) = c[i]
<1>1. p \in Seq(Names) /\ Len(p) \in Nat /\ p \notin Nodes(t)
  BY PathsFacts, LenProperties, CallsFacts
<1> DEFINE q == CHOOSE q \in Prefixes(p) \ Nodes(t) : Parent(q) \in Nodes(t)
           top == Len(q)
<1>2. q \in Prefixes(p) \ Nodes(t) /\ Parent(q) \in Nodes(t)
  BY <1>1, TopExists
<1>3. c = [i \in 1..(Len(p) - top + 1) |-> SubSeq(p, 1, top + i - 1)]
  BY DEF Missing
<1> HIDE DEF q
<1>4. PICK l \in 0..Len(p) : q = SubSeq(p, 1, l)
  BY <1>2 DEF Prefixes
<1>5. top = l /\ q \in Seq(Names)
  BY <1>1, <1>4, SubSeqFacts
<1>6. l > 0
  <2>1. l = 0 => q = <<>>
    BY <1>4, SubSeqEmpty
  <2>2. <<>> \in Nodes(t)
    BY CallsFacts
  <2>3. l # 0
    BY <1>2, <2>1, <2>2
  <2> QED
    BY <1>1, <2>3
<1> DEFINE n == Len(p) - l + 1
           d == [i \in 1..n |-> SubSeq(p, 1, l + i - 1)]
<1>7. c = d /\ n \in Nat /\ n > 0
  <2>1. c = d
    BY <1>3, <1>5
  <2> HIDE DEF d
  <2> QED
    BY <1>1, <2>1
<1>8. ASSUME NEW i \in 1..n
      PROVE  /\ d[i] \in Paths /\ d[i] # <<>> /\ IsPrefix(d[i], p)
             /\ IsPrefix(q, d[i]) /\ Len(d[i]) = l + i - 1
             /\ \A j \in 1..(l + i - 1) : d[i][j] = p[j]
  <2>1. l + i - 1 \in 0..Len(p) /\ d[i] = SubSeq(p, 1, l + i - 1)
        /\ l + i - 1 > 0 /\ l <= l + i - 1
    BY <1>1, <1>6
  <2>2. /\ d[i] \in Seq(Names) /\ Len(d[i]) = l + i - 1
        /\ \A j \in 1..(l + i - 1) : d[i][j] = p[j]
    BY <1>1, <2>1, SubSeqFacts
  <2>3. Len(q) = l /\ \A j \in 1..l : q[j] = p[j]
    BY <1>1, <1>4, SubSeqFacts
  <2> HIDE DEF d
  <2>4. IsPrefix(d[i], p)
    <3>1. l + i - 1 <= Len(p)
      BY <1>1, <2>1
    <3> QED
      BY <1>1, <2>2, <3>1, PrefixFacts
  <2>5. IsPrefix(q, d[i])
    <3>1. l \in Nat /\ l <= l + i - 1
      BY <1>1, <2>1
    <3>2. \A j \in 1..l : j \in 1..(l + i - 1)
      BY <3>1, <2>1
    <3>3. \A j \in 1..l : q[j] = d[i][j]
      BY <2>2, <2>3, <3>2
    <3>4. Len(q) <= Len(d[i]) /\ \A j \in 1..Len(q) : q[j] = d[i][j]
      BY <2>2, <2>3, <3>1, <3>3
    <3> QED
      BY <1>5, <2>2, <3>4, PrefixFacts
  <2>6. d[i] # <<>>
    <3>1. Len(d[i]) # 0
      BY <1>1, <2>1, <2>2
    <3> QED
      BY <3>1, EmptySeq
  <2> QED
    BY <2>2, <2>4, <2>5, <2>6, PathsAbove
<1>9. d[n] = p
  <2>1. n \in 1..n /\ l + n - 1 = Len(p)
    BY <1>1, <1>7
  <2> QED
    BY <1>1, <2>1, SubSeqFull
<1>10. d[1] = q
  BY <1>4, <1>7
<1>11. Len(d) = n /\ d \in Seq(Paths)
  <2>1. d \in [1..n -> Paths]
    BY <1>8
  <2> HIDE DEF d
  <2> QED
    BY <1>7, <2>1
<1>12. n > 1
  <2>1. n = 1 => q = p
    BY <1>9, <1>10
  <2> QED
    BY <1>2, <1>7, <2>1
<1> HIDE DEF d, n
<1>13. ASSUME NEW i \in 1..n, i < n
       PROVE  Parent(d[i + 1]) = d[i] /\ d[i] # p
  <2>1. i + 1 \in 1..n /\ l + (i + 1) - 1 = l + i
    BY <1>7, <1>13
  <2>2. /\ d[i + 1] # <<>> /\ d[i + 1] \in Seq(Names) /\ d[i] \in Seq(Names)
        /\ Len(d[i]) = l + i - 1 /\ Len(d[i + 1]) = l + i
        /\ \A j \in 1..(l + i - 1) : d[i][j] = p[j]
        /\ \A j \in 1..(l + i) : d[i + 1][j] = p[j]
    BY <1>8, <2>1, PathsFacts
  <2>3. /\ Parent(d[i + 1]) \in Seq(Names)
        /\ Len(Parent(d[i + 1])) = l + i - 1
        /\ \A j \in 1..(l + i - 1) : Parent(d[i + 1])[j] = p[j]
    <3>1. /\ Parent(d[i + 1]) \in Seq(Names)
          /\ Len(Parent(d[i + 1])) = Len(d[i + 1]) - 1
          /\ \A j \in 1..(Len(d[i + 1]) - 1) : Parent(d[i + 1])[j] = d[i + 1][j]
      BY <2>2, ParentFacts
    <3>2. Len(d[i + 1]) - 1 = l + i - 1
      BY <2>2
    <3>3. \A j \in 1..(l + i - 1) : j \in 1..(l + i)
      BY <1>1, <1>7
    <3> QED
      BY <2>2, <3>1, <3>2, <3>3
  <2>4. Parent(d[i + 1]) = d[i]
    BY <2>2, <2>3, SeqEqual, SMTT(20)
  <2>5. Len(p) = l + n - 1
    BY <1>1 DEF n
  <2>6. l + i - 1 # l + n - 1
    BY <1>7, <1>13
  <2> QED
    BY <2>2, <2>4, <2>5, <2>6
<1>14. ASSUME NEW i \in 1..n PROVE d[i] \notin Nodes(t)
  BY <1>2, <1>5, <1>8, NodesAbove
<1>15. ASSUME NEW i \in 1..n, i < n PROVE d[i] \notin Leaves
  <2>1. i + 1 \in 1..n
    BY <1>7, <1>15
  <2>2. d[i + 1] \in Paths \ {<<>>}
    BY <1>8, <2>1
  <2> QED
    BY <1>13, <1>15, <2>2, PathsFacts
<1> QED
  BY <1>2, <1>7, <1>8, <1>9, <1>10, <1>11, <1>12, <1>13, <1>14, <1>15

\* The fold of AddChain, step by step.
LEMMA ChainSteps ==
    ASSUME NEW t \in Calls, NEW server \in Servers, NEW chain \in Seq(Paths),
           NEW value, NEW bad,
           \A i \in 1..Len(chain) :
               (IF chain[i] = Last(chain) THEN value ELSE Interior)
                   \in Contents(chain[i])
    PROVE  \E h : /\ h[0] = t /\ h[Len(chain)] = AddChain(t, server, chain,
                                                          value, bad)
                  /\ \A i \in 1..Len(chain) :
                         h[i] = IF h[i - 1].status # "ok" THEN h[i - 1]
                                ELSE AddNodeInternal(h[i - 1], server, chain[i],
                                         IF chain[i] = Last(chain) THEN value
                                         ELSE Interior, bad)
<1> DEFINE n == Len(chain)
           Step(u, i) == IF u.status # "ok" THEN u
                         ELSE AddNodeInternal(u, server, chain[i],
                                  IF chain[i] = Last(chain) THEN value
                                  ELSE Interior, bad)
           G == [x \in Calls \X (1..n) |-> Step(x[1], x[2])]
           Eq(iter) == iter = [s \in SUBSET (1..n) |->
                                  IF s = {} THEN t
                                  ELSE Step(iter[s \ {Max(s)}], Max(s))]
           c == CHOOSE iter : Eq(iter)
           h == [i \in 0..n |-> c[1..i]]
<1>1. n \in Nat /\ DOMAIN chain = 1..n /\ \A i \in 1..n : chain[i] \in Paths
  BY LenProperties, ElementOfSeq
<1>2. AddChain(t, server, chain, value, bad) = c[1..n]
  BY <1>1 DEF AddChain, FoldLeft, MapThenFoldSet
<1>3. ASSUME NEW u \in Calls, NEW i \in 1..n PROVE Step(u, i) \in Calls
  BY <1>1, AddNodeFacts
<1> HIDE DEF Step, n
<1>4. ASSUME NEW u \in Calls, NEW i \in 1..n
      PROVE  G[<<u, i>>] = Step(u, i) /\ G[<<u, i>>] \in Calls
  BY <1>3
<1> HIDE DEF G
<1>5. PICK f \in [SUBSET (1..n) -> Calls] :
          \A s \in SUBSET (1..n) :
              f[s] = IF s = {} THEN t ELSE G[<<f[s \ {Max(s)}], Max(s)>>]
  <2>1. IsStep(Calls, G, n)
    BY <1>4 DEF IsStep
  <2>2. \E f : IsFold(f, Calls, t, G, n)
    BY <1>1, <2>1, FoldExists
  <2> QED
    BY <2>2 DEF IsFold
<1>6. \A s \in SUBSET (1..n) :
          f[s] = IF s = {} THEN t ELSE Step(f[s \ {Max(s)}], Max(s))
  <2> SUFFICES ASSUME NEW s \in SUBSET (1..n), s # {}
               PROVE  f[s] = Step(f[s \ {Max(s)}], Max(s))
    BY <1>5
  <2>1. Max(s) \in 1..n
    BY <1>1, MaxIn
  <2>2. f[s \ {Max(s)}] \in Calls
    OBVIOUS
  <2> QED
    BY <1>4, <1>5, <2>1, <2>2
<1>7. Eq(f)
  BY <1>6
<1>8. Eq(c)
  <2> HIDE DEF Eq
  <2> QED
    BY <1>7
<1> HIDE DEF c
<1>9. \A s \in SUBSET (1..n) :
          c[s] = IF s = {} THEN t ELSE Step(c[s \ {Max(s)}], Max(s))
  BY <1>8
<1>10. h[0] = t
  <2>1. 1..0 = {} /\ 0 \in 0..n
    BY <1>1
  <2> QED
    BY <1>9, <2>1
<1>11. ASSUME NEW i \in 1..n PROVE h[i] = Step(h[i - 1], i)
  <2>1. i \in 0..n /\ i - 1 \in 0..n /\ i \in Nat /\ i > 0
        /\ 1..i \in SUBSET (1..n)
    BY <1>1
  <2>2. 1..i # {} /\ Max(1..i) = i /\ (1..i) \ {i} = 1..(i - 1)
    BY <2>1, FoldIndex
  <2> QED
    BY <1>9, <2>1, <2>2
<1>12. h[n] = AddChain(t, server, chain, value, bad)
  BY <1>1, <1>2
<1> HIDE DEF h
<1> QED
  BY <1>10, <1>11, <1>12 DEF Step, n

\* What is added down a chain whose nodes are missing, until a step fails.
LEMMA AddChainFacts ==
    ASSUME NEW t \in Calls, NEW server \in Servers, NEW chain \in Seq(Paths),
           chain # <<>>, NEW value, NEW bad,
           \A i \in 1..Len(chain) :
               (IF chain[i] = Last(chain) THEN value ELSE Interior)
                   \in Contents(chain[i]),
           NEW a, a = AddChain(t, server, chain, value, bad)
    PROVE  /\ a \in Calls /\ Nodes(t) \subseteq Nodes(a)
           /\ \A q \in Nodes(t) : a.node[q] = t.node[q]
           /\ \A q \in Nodes(a) \ Nodes(t) :
                  \E i \in 1..Len(chain) : q = chain[i]
           /\ t.status # "ok" => a = t
           /\ a.status = "ok" =>
                  /\ a.logged /\ Last(chain) \in Nodes(a) \ Nodes(t)
                  /\ a.node[Last(chain)] = value
<1> DEFINE n == Len(chain)
           content(i) == IF chain[i] = Last(chain) THEN value ELSE Interior
<1>1. n \in Nat /\ n > 0 /\ \A i \in 1..n : chain[i] \in Paths
  BY LenProperties, ElementOfSeq, EmptySeq
<1>2. PICK h : /\ h[0] = t /\ h[n] = a
               /\ \A i \in 1..n :
                      h[i] = IF h[i - 1].status # "ok" THEN h[i - 1]
                             ELSE AddNodeInternal(h[i - 1], server, chain[i],
                                                  content(i), bad)
  BY ChainSteps
<1> DEFINE Good(i, u) ==
             /\ u \in Calls /\ Nodes(t) \subseteq Nodes(u)
             /\ \A q \in Nodes(t) : u.node[q] = t.node[q]
             /\ \A q \in Nodes(u) \ Nodes(t) : \E j \in 1..i : q = chain[j]
             /\ t.status # "ok" => u = t
             /\ u.status = "ok" /\ i > 0 =>
                    /\ u.logged /\ chain[i] \in Nodes(u) \ Nodes(t)
                    /\ u.node[chain[i]] = content(i)
           S == {i \in 0..n : Good(i, h[i])}
<1>3. Good(0, h[0])
  BY <1>2
<1>4. ASSUME NEW i \in 0..n, i < n, Good(i, h[i]) PROVE Good(i + 1, h[i + 1])
  <2> DEFINE u == h[i]
             v == h[i + 1]
             q == chain[i + 1]
             w == content(i + 1)
  <2>1. i + 1 \in 1..n /\ (i + 1) - 1 = i /\ i + 1 > 0
        /\ \A j \in 1..i : j \in 1..(i + 1)
    BY <1>1, <1>4
  <2>2. v = IF u.status # "ok" THEN u
            ELSE AddNodeInternal(u, server, q, w, bad)
    BY <1>2, <2>1
  <2>3. q \in Paths /\ w \in Contents(q)
    BY <1>1, <2>1
  <2>4. Good(i, u)
    BY <1>4
  <2> HIDE DEF u, v, q, w, content
  <2>5. ASSUME u.status # "ok" PROVE Good(i + 1, v)
    <3>1. v = u
      BY <2>2, <2>5
    <3>2. \A r \in Nodes(u) \ Nodes(t) : \E j \in 1..(i + 1) : r = chain[j]
      BY <2>1, <2>4
    <3> QED
      BY <2>4, <2>5, <3>1, <3>2
  <2>6. ASSUME u.status = "ok" PROVE Good(i + 1, v)
    <3>1. v = AddNodeInternal(u, server, q, w, bad) /\ u \in Calls
      BY <2>2, <2>4, <2>6
    <3>2. /\ v \in Calls
          /\ v.status # "ok" => v.node = u.node
          /\ v.status = "ok" =>
                 /\ v.logged /\ q \notin Nodes(u)
                 /\ Nodes(v) = Nodes(u) \cup {q} /\ v.node[q] = w
                 /\ \A r \in Nodes(u) : v.node[r] = u.node[r]
      BY <2>3, <2>6, <3>1, AddNodeFacts
    <3>3. CASE v.status # "ok"
      <4>1. v.node = u.node /\ Nodes(v) = Nodes(u)
        BY <3>2, <3>3 DEF Nodes
      <4>2. t.status = "ok"
        BY <2>4, <2>6
      <4>3. \A r \in Nodes(u) \ Nodes(t) : \E j \in 1..(i + 1) : r = chain[j]
        BY <2>1, <2>4
      <4>4. \A r \in Nodes(t) : v.node[r] = t.node[r]
        BY <2>4, <4>1
      <4> QED
        BY <2>4, <3>2, <3>3, <4>1, <4>2, <4>3, <4>4
    <3>4. CASE v.status = "ok"
      <4>2. t.status = "ok"
        BY <2>4, <2>6
      <4>3. \A r \in Nodes(v) \ Nodes(t) : \E j \in 1..(i + 1) : r = chain[j]
        BY <2>1, <2>4, <3>2, <3>4 DEF q
      <4>4. q \in Nodes(v) \ Nodes(t) /\ v.node[q] = w
        BY <2>4, <3>2, <3>4
      <4>5. Nodes(t) \subseteq Nodes(v)
            /\ \A r \in Nodes(t) : v.node[r] = t.node[r]
        BY <2>4, <3>2, <3>4
      <4>6. /\ chain[i + 1] \in Nodes(v) \ Nodes(t)
            /\ v.node[chain[i + 1]] = content(i + 1)
        BY <4>4 DEF q, w
      <4> QED
        BY <3>2, <3>4, <4>2, <4>3, <4>5, <4>6
    <3> QED
      BY <3>3, <3>4
  <2>7. Good(i + 1, v)
    BY <2>5, <2>6
  <2> QED
    BY <2>7 DEF v
<1>5. Good(n, h[n])
  <2> HIDE DEF Good, n
  <2>1. 0 \in S /\ \A i \in 0..n : i \in S /\ i < n => i + 1 \in S
    BY <1>1, <1>3, <1>4
  <2> HIDE DEF S
  <2>2. 0..n \subseteq S
    BY <1>1, <2>1, Upwards
  <2>3. n \in S
    BY <1>1, <2>2
  <2> QED
    BY <2>3 DEF S
<1>6. Last(chain) = chain[n]
  BY DEF Last
<1> QED
  BY <1>1, <1>2, <1>5, <1>6

\* What an Add returns: below a node where the server may add, and with
\* success nothing else has changed.
LEMMA AddFacts ==
    ASSUME NEW t \in Calls, t.status = "ok", NEW server \in Servers,
           NEW p \in Paths, NEW value \in Contents(p), NEW bad \in Paths,
           NEW pos, NEW a, a = Add(t, server, p, value, bad, pos)
    PROVE  /\ a \in Calls
           /\ \A q \in Nodes(a) \ Nodes(t) :
                  /\ IsPrefix(q, p)
                  /\ Parent(q) \in Nodes(t)
                         => IsPermitted(t, server, Parent(q), "Add")
           /\ a.status = "ok" =>
                  /\ a.logged /\ p \in Nodes(a) \ Nodes(t)
                  /\ a.node[p] = value
                  /\ \A q \in Nodes(t) :
                         q \in Nodes(a) /\ a.node[q] = t.node[q]
<1>1. p \in Seq(Names) /\ IsPrefix(p, p)
  BY PathsFacts, PrefixSelf
<1>2. CASE p = <<>> \/ Parent(p) \in Nodes(t)
  <2>1. a = AddNodeInternal(t, server, p, value, bad)
    BY <1>2 DEF Add
  <2>2. /\ a \in Calls
        /\ a.status # "ok" => a.node = t.node
        /\ a.status = "ok" =>
               /\ a.logged /\ p \notin Nodes(t)
               /\ IsPermitted(t, server, Parent(p), "Add")
               /\ Nodes(a) = Nodes(t) \cup {p} /\ a.node[p] = value
               /\ \A q \in Nodes(t) : a.node[q] = t.node[q]
    BY <2>1, AddNodeFacts
  <2>3. CASE a.status # "ok"
    BY <2>2, <2>3 DEF Nodes
  <2>4. CASE a.status = "ok"
    BY <1>1, <2>2, <2>4
  <2> QED
    BY <2>3, <2>4
<1>3. CASE p # <<>> /\ Parent(p) \notin Nodes(t)
  <2> DEFINE chain == Missing(t, p)
             head == Head(chain)
             rest == Tail(chain)
             begun == AddNodeInternal(t, server, head, Interior, bad)
             added == AddChain(begun, server, rest, value, bad)
             last == IF begun.status = "ok" THEN head ELSE SubSeq(p, 1, 1)
             deleted == Delete(added, server, "internal", last, bad, pos)
  <2>1. a = IF added.status = "ok" THEN added ELSE Returns(deleted, "failed")
    BY <1>3 DEF Add
  <2>2. /\ chain \in Seq(Paths) /\ Len(chain) \in Nat /\ Len(chain) > 1
        /\ chain[Len(chain)] = p /\ Parent(chain[1]) \in Nodes(t)
        /\ \A i \in 1..Len(chain) :
               /\ chain[i] \in Paths \ Nodes(t) /\ chain[i] # <<>>
               /\ IsPrefix(chain[i], p)
               /\ i < Len(chain) => chain[i] # p /\ chain[i] \notin Leaves
                                    /\ Parent(chain[i + 1]) = chain[i]
    BY <1>3, MissingFacts
  <2> HIDE DEF chain
  <2>3. 1 \in 1..Len(chain) /\ chain # <<>> /\ head = chain[1]
    BY <2>2, EmptySeq
  <2>4. /\ rest \in Seq(Paths) /\ Len(rest) = Len(chain) - 1
        /\ \A i \in 1..Len(rest) : rest[i] = chain[i + 1]
    BY <2>2, <2>3, HeadTailProperties
  <2> HIDE DEF head, rest
  <2>5. /\ Len(rest) \in Nat /\ Len(rest) > 0 /\ rest # <<>>
        /\ \A i \in 1..Len(rest) : /\ i + 1 \in 1..Len(chain)
                                   /\ i < Len(rest) => i + 1 < Len(chain)
    BY <2>2, <2>4, EmptySeq
  <2>6. Last(rest) = p
    BY <2>2, <2>4, <2>5 DEF Last
  <2>7. /\ head \in Paths /\ Interior \in Contents(head)
        /\ head \notin Nodes(t) /\ IsPrefix(head, p)
    BY <2>2, <2>3 DEF Contents
  <2>8. ASSUME NEW i \in 1..Len(rest)
        PROVE  (IF rest[i] = Last(rest) THEN value ELSE Interior)
                   \in Contents(rest[i])
    <3>1. CASE rest[i] = p
      BY <2>6, <3>1
    <3>2. CASE rest[i] # p
      <4>1. i # Len(rest)
        BY <2>6, <3>2 DEF Last
      <4>2. rest[i] = chain[i + 1] /\ i + 1 < Len(chain)
            /\ i + 1 \in 1..Len(chain)
        BY <2>4, <2>5, <4>1
      <4>3. rest[i] \notin Leaves
        BY <2>2, <4>2
      <4> QED
        BY <2>6, <3>2, <4>3 DEF Contents
    <3> QED
      BY <3>1, <3>2
  <2>9. /\ begun \in Calls
        /\ begun.status # "ok" => begun.node = t.node
        /\ begun.status = "ok" =>
               /\ IsPermitted(t, server, Parent(head), "Add")
               /\ Nodes(begun) = Nodes(t) \cup {head}
               /\ \A q \in Nodes(t) : begun.node[q] = t.node[q]
    BY <2>7, AddNodeFacts
  <2>10. Nodes(t) \subseteq Nodes(begun)
         /\ \A q \in Nodes(t) : begun.node[q] = t.node[q]
    BY <2>9 DEF Nodes
  <2> HIDE DEF begun
  <2>11. /\ added \in Calls /\ Nodes(begun) \subseteq Nodes(added)
         /\ \A q \in Nodes(begun) : added.node[q] = begun.node[q]
         /\ \A q \in Nodes(added) \ Nodes(begun) :
                \E i \in 1..Len(rest) : q = rest[i]
         /\ begun.status # "ok" => added = begun
         /\ added.status = "ok" =>
                /\ added.logged /\ Last(rest) \in Nodes(added) \ Nodes(begun)
                /\ added.node[Last(rest)] = value
    BY <2>4, <2>5, <2>8, <2>9, AddChainFacts
  <2> HIDE DEF added
  <2>12. ASSUME NEW q \in Nodes(added) \ Nodes(t)
         PROVE  /\ IsPrefix(q, p)
                /\ Parent(q) \in Nodes(t)
                       => IsPermitted(t, server, Parent(q), "Add")
    <3>1. CASE q \in Nodes(begun)
      <4>1. begun.status = "ok" /\ q = head
        BY <2>9, <2>12, <3>1 DEF Nodes
      <4> QED
        BY <2>7, <2>9, <4>1
    <3>2. CASE q \notin Nodes(begun)
      <4>1. PICK i \in 1..Len(rest) : q = rest[i]
        BY <2>11, <3>2
      <4>2. q = chain[i + 1] /\ i + 1 \in 1..Len(chain)
            /\ i \in 1..Len(chain) /\ i < Len(chain)
        BY <2>2, <2>4, <2>5, <4>1
      <4>3. Parent(q) = chain[i] /\ chain[i] \notin Nodes(t)
        BY <2>2, <4>2
      <4> QED
        BY <2>2, <4>2, <4>3
    <3> QED
      BY <3>1, <3>2
  <2>13. CASE added.status = "ok"
    <3>1. a = added
      BY <2>1, <2>13
    <3> QED
      BY <2>6, <2>10, <2>11, <2>12, <2>13, <3>1
  <2>14. CASE added.status # "ok"
    <3>1. last \in Paths
      <4> DEFINE first == SubSeq(p, 1, 1)
      <4>1. Len(p) \in Nat /\ Len(p) > 0 /\ 1 \in 0..Len(p)
        BY <1>1, <1>3, ParentFacts
      <4>2. /\ first \in Seq(Names) /\ Len(first) = 1
            /\ \A i \in 1..1 : first[i] = p[i]
        BY <1>1, <4>1, SubSeqFacts
      <4>3. last = head \/ last = first
        OBVIOUS
      <4> HIDE DEF first, last
      <4>4. Len(first) <= Len(p) /\ \A i \in 1..Len(first) : first[i] = p[i]
        BY <4>1, <4>2
      <4>5. IsPrefix(first, p)
        BY <1>1, <4>2, <4>4, PrefixFacts
      <4> QED
        BY <2>7, <4>2, <4>3, <4>5, PathsAbove
    <3> HIDE DEF last
    <3>2. deleted \in Calls /\ Nodes(deleted) \subseteq Nodes(added)
      <4>1. added \in Calls
        BY <2>11
      <4> QED
        BY <3>1, <4>1, DeleteFacts
    <3> HIDE DEF deleted
    <3>3. a = Returns(deleted, "failed")
      BY <2>1, <2>14
    <3>4. a \in Calls /\ a.status = "failed" /\ Nodes(a) = Nodes(deleted)
      BY <3>2, <3>3, ReturnsFacts DEF Statuses
    <3> QED
      BY <2>12, <3>2, <3>4
  <2> QED
    BY <2>13, <2>14
<1> QED
  BY <1>2, <1>3

----------------------------------------------------------------------------
(* Rename.                                                                 *)

\* A path with the start p of q exchanged for one as long.
LEMMA RenamedFacts ==
    ASSUME NEW p \in Seq(Names), NEW q \in Seq(Names), NEW new \in Seq(Names),
           IsPrefix(p, q), Len(new) = Len(p), NEW r, r = Renamed(p, q, new)
    PROVE  /\ r \in Seq(Names) /\ Len(r) = Len(q) /\ IsPrefix(new, r)
           /\ \A i \in 1..Len(q) : r[i] = IF i <= Len(p) THEN new[i] ELSE q[i]
<1> DEFINE tail == SubSeq(q, Len(p) + 1, Len(q))
<1>1. Len(p) \in Nat /\ Len(q) \in Nat /\ Len(p) <= Len(q)
  BY LenProperties, PrefixFacts, SMTT(30)
<1>2. \A i \in 1..Len(q) : q[i] \in Names
  BY ElementOfSeq, SMTT(30)
<1>3. /\ tail \in Seq(Names) /\ Len(tail) = Len(q) - Len(p)
      /\ \A i \in 1..(Len(q) - Len(p)) : tail[i] = q[Len(p) + i]
  <2>1. /\ Len(p) + 1 \in Int /\ Len(q) \in Int
        /\ \A i \in (Len(p) + 1)..Len(q) : q[i] \in Names
        /\ Len(q) - (Len(p) + 1) + 1 = Len(q) - Len(p)
        /\ \A i \in 1..(Len(q) - Len(p)) : Len(p) + 1 + i - 1 = Len(p) + i
    BY <1>1, <1>2
  <2>2. /\ tail \in Seq(Names)
        /\ Len(tail) = IF Len(p) + 1 <= Len(q)
                       THEN Len(q) - (Len(p) + 1) + 1 ELSE 0
        /\ \A i \in 1..(Len(q) - (Len(p) + 1) + 1) :
               tail[i] = q[Len(p) + 1 + i - 1]
    BY <2>1, SubSeqProperties
  <2> HIDE DEF tail
  <2>3. Len(tail) = Len(q) - Len(p)
    BY <1>1, <2>2
  <2> QED
    BY <2>1, <2>2, <2>3
<1> HIDE DEF tail
<1>4. r = new \o tail
  BY DEF Renamed, tail
<1>5. /\ r \in Seq(Names) /\ Len(r) = Len(new) + Len(tail)
      /\ \A i \in 1..(Len(new) + Len(tail)) :
             r[i] = IF i <= Len(new) THEN new[i] ELSE tail[i - Len(new)]
  BY <1>3, <1>4, ConcatProperties
<1>6. Len(new) + Len(tail) = Len(q) /\ Len(r) = Len(q)
  BY <1>1, <1>3, <1>5
<1>7. ASSUME NEW i \in 1..Len(q)
      PROVE  r[i] = IF i <= Len(p) THEN new[i] ELSE q[i]
  <2>1. r[i] = IF i <= Len(p) THEN new[i] ELSE tail[i - Len(p)]
    BY <1>5, <1>6
  <2>2. CASE i <= Len(p)
    BY <2>1, <2>2
  <2>3. CASE ~(i <= Len(p))
    <3>1. i - Len(p) \in 1..(Len(q) - Len(p)) /\ Len(p) + (i - Len(p)) = i
      BY <1>1, <2>3
    <3> QED
      BY <1>3, <2>1, <2>3, <3>1
  <2> QED
    BY <2>2, <2>3
<1>8. IsPrefix(new, r)
  <2>1. \A i \in 1..Len(new) : i \in 1..Len(q) /\ i <= Len(p)
    BY <1>1
  <2>2. Len(new) <= Len(r) /\ \A i \in 1..Len(new) : new[i] = r[i]
    BY <1>1, <1>6, <1>7, <2>1
  <2> QED
    BY <1>5, <2>2, PrefixFacts
<1> QED
  BY <1>5, <1>6, <1>7, <1>8, SMTT(30)

\* The old path of a renamed node.
LEMMA RenamedBack ==
    ASSUME NEW p \in Seq(Names), NEW q \in Seq(Names), NEW new \in Seq(Names),
           IsPrefix(p, q), Len(new) = Len(p)
    PROVE  Renamed(new, Renamed(p, q, new), p) = q
<1> DEFINE r == Renamed(p, q, new)
           b == Renamed(new, r, p)
<1>1. Len(p) \in Nat /\ Len(q) \in Nat /\ Len(p) <= Len(q)
      /\ \A i \in 1..Len(p) : p[i] = q[i]
  BY LenProperties, PrefixFacts
<1>2. /\ r \in Seq(Names) /\ Len(r) = Len(q) /\ IsPrefix(new, r)
      /\ \A i \in 1..Len(q) : r[i] = IF i <= Len(p) THEN new[i] ELSE q[i]
  BY RenamedFacts
<1> HIDE DEF r
<1>3. /\ b \in Seq(Names) /\ Len(b) = Len(r)
      /\ \A i \in 1..Len(r) : b[i] = IF i <= Len(new) THEN p[i] ELSE r[i]
  BY <1>2, RenamedFacts
<1> HIDE DEF b
<1>4. ASSUME NEW i \in 1..Len(q) PROVE b[i] = q[i]
  <2>1. i <= Len(p) => i \in 1..Len(p)
    BY <1>1
  <2> QED
    BY <1>1, <1>2, <1>3, <2>1
<1>5. b = q
  BY <1>2, <1>3, <1>4, SeqEqual
<1> QED
  BY <1>5 DEF b, r

\* The parent of a renamed node is the renamed parent.
LEMMA RenamedParent ==
    ASSUME NEW p \in Seq(Names), NEW q \in Seq(Names), NEW new \in Seq(Names),
           IsStrictPrefix(p, q), Len(new) = Len(p)
    PROVE  /\ Renamed(p, q, new) # <<>>
           /\ Parent(Renamed(p, q, new)) = Renamed(p, Parent(q), new)
<1> DEFINE r == Renamed(p, q, new)
           s == Renamed(p, Parent(q), new)
<1>1. IsPrefix(p, q) /\ Len(p) < Len(q) /\ IsPrefix(p, Parent(q)) /\ q # <<>>
  BY BelowFacts
<1>2. /\ Parent(q) \in Seq(Names) /\ Len(Parent(q)) = Len(q) - 1
      /\ Len(q) \in Nat /\ Len(q) > 0 /\ Len(p) \in Nat
      /\ \A i \in 1..(Len(q) - 1) : Parent(q)[i] = q[i]
  BY <1>1, ParentFacts, LenProperties
<1>3. /\ r \in Seq(Names) /\ Len(r) = Len(q)
      /\ \A i \in 1..Len(q) : r[i] = IF i <= Len(p) THEN new[i] ELSE q[i]
  BY <1>1, RenamedFacts
<1>4. /\ s \in Seq(Names) /\ Len(s) = Len(q) - 1
      /\ \A i \in 1..(Len(q) - 1) :
             s[i] = IF i <= Len(p) THEN new[i] ELSE Parent(q)[i]
  <2>1. /\ s \in Seq(Names) /\ Len(s) = Len(Parent(q))
        /\ \A i \in 1..Len(Parent(q)) :
               s[i] = IF i <= Len(p) THEN new[i] ELSE Parent(q)[i]
    BY <1>1, <1>2, RenamedFacts
  <2> HIDE DEF s
  <2> QED
    BY <1>2, <2>1
<1> HIDE DEF r, s
<1>5. r # <<>>
  BY <1>2, <1>3, EmptySeq
<1>6. /\ Parent(r) \in Seq(Names) /\ Len(Parent(r)) = Len(r) - 1
      /\ \A i \in 1..(Len(r) - 1) : Parent(r)[i] = r[i]
  BY <1>3, <1>5, ParentFacts
<1>7. ASSUME NEW i \in 1..(Len(q) - 1) PROVE Parent(r)[i] = s[i]
  <2>1. i \in 1..Len(q)
    BY <1>2
  <2> QED
    BY <1>2, <1>3, <1>4, <1>6, <2>1
<1>8. Len(Parent(r)) = Len(q) - 1
  BY <1>3, <1>6
<1>9. Parent(r) = s
  BY <1>4, <1>6, <1>7, <1>8, SeqEqual
<1> QED
  BY <1>5, <1>9 DEF r, s

\* A node that is renamed, with what is below it.
LEMMA RenameFacts ==
    ASSUME NEW t \in Calls, NEW p \in Nodes(t), p # <<>>, NEW new \in Paths,
           Len(new) = Len(p), Parent(new) = Parent(p),
           new \in Nodes(t) => new = p,
           \A q \in Below(t, p) \cup {p} :
               /\ Renamed(p, q, new) \in Paths
               /\ q \in Leaves <=> Renamed(p, q, new) \in Leaves
    PROVE  Rename(t, p, new) \in Calls
<1> DEFINE moved == Below(t, p) \cup {p}
           D == (Nodes(t) \ moved) \cup {Renamed(p, r, new) : r \in moved}
           f == [q \in D |-> IF IsPrefix(new, q) THEN t.node[Renamed(new, q, p)]
                             ELSE t.node[q]]
<1>1. /\ p \in Seq(Names) /\ new \in Seq(Names) /\ p \in Paths
      /\ Nodes(t) \subseteq Seq(Names)
  BY CallsFacts, PathsFacts
<1>2. /\ moved \subseteq Nodes(t) /\ <<>> \notin moved
      /\ \A q \in Nodes(t) : q # <<>> /\ Parent(q) \in moved
                                 => q \in Below(t, p)
  BY <1>1, BelowNodes
<1>3. \A q \in moved : IsPrefix(p, q) /\ (q # p => IsStrictPrefix(p, q))
  BY <1>1, PrefixSelf DEF Below, IsStrictPrefix
<1>4. \A q \in Nodes(t) : IsPrefix(p, q) => q \in moved
  BY DEF Below, IsStrictPrefix
<1>5. D \in SUBSET Paths
  <2>1. \A r \in moved : Renamed(p, r, new) \in Paths
    OBVIOUS
  <2> HIDE DEF moved
  <2> QED
    BY <2>1, CallsFacts
<1>6. <<>> \in D
  BY <1>2, CallsFacts
<1> HIDE DEF moved
<1>7. ASSUME NEW q \in Nodes(t) \ moved
      PROVE  f[q] \in Contents(q) /\ (q # <<>> => Parent(q) \in D)
  <2>1. ~IsPrefix(new, q)
    BY <1>1, <1>4, <1>7, NodesAbove
  <2>2. f[q] = t.node[q]
    BY <1>7, <2>1
  <2>3. q # <<>> => Parent(q) \in Nodes(t) \ moved
    BY <1>2, <1>7, CallsFacts DEF moved
  <2> QED
    BY <1>7, <2>2, <2>3, CallsFacts
<1>8. ASSUME NEW r \in moved, NEW q, q = Renamed(p, r, new)
      PROVE  f[q] \in Contents(q) /\ (q # <<>> => Parent(q) \in D)
  <2>1. IsPrefix(p, r) /\ r \in Seq(Names) /\ r \in Nodes(t)
    BY <1>1, <1>2, <1>3
  <2>2. IsPrefix(new, q) /\ Renamed(new, q, p) = r
    BY <1>1, <1>8, <2>1, RenamedFacts, RenamedBack
  <2>3. q \in D
    BY <1>8
  <2>4. f[q] = t.node[r]
    BY <2>2, <2>3
  <2>5. r \in Leaves <=> q \in Leaves
    BY <1>8 DEF moved
  <2>6. f[q] \in Contents(q)
    BY <2>1, <2>4, <2>5, CallsFacts DEF Contents
  <2>7. CASE r = p
    <3>1. q = new
      <4>1. Len(p) \in Nat
        BY <1>1, LenProperties
      <4>2. SubSeq(p, Len(p) + 1, Len(p)) = <<>>
        BY <4>1, SubSeqEmpty
      <4> QED
        BY <1>1, <1>8, <2>7, <4>2, ConcatEmptySeq DEF Renamed
    <3>2. Parent(q) \in Nodes(t) \ moved
      <4>1. Parent(p) \in Nodes(t)
        BY CallsFacts
      <4>2. Parent(p) \notin moved
        <5>1. /\ Parent(p) \in Seq(Names) /\ Len(Parent(p)) = Len(p) - 1
              /\ Len(p) \in Nat
          BY <1>1, ParentFacts
        <5>2. ~IsPrefix(p, Parent(p))
          BY <1>1, <5>1, PrefixFacts
        <5> QED
          BY <1>3, <5>2
      <4> QED
        BY <3>1, <4>1, <4>2
    <3> QED
      BY <2>6, <3>2
  <2>8. CASE r # p
    <3>1. IsStrictPrefix(p, r)
      BY <1>3, <2>8
    <3>2. Parent(q) = Renamed(p, Parent(r), new)
      BY <1>1, <1>8, <2>1, <3>1, RenamedParent
    <3>3. Parent(r) \in moved
      <4>1. IsPrefix(p, Parent(r)) /\ r # <<>>
        BY <1>1, <2>1, <3>1, BelowFacts
      <4>2. Parent(r) \in Nodes(t)
        BY <2>1, <4>1, CallsFacts
      <4> QED
        BY <1>4, <4>1, <4>2
    <3> QED
      BY <2>6, <3>2, <3>3
  <2> QED
    BY <2>7, <2>8
<1>9. f = [q \in D |-> f[q]]
  OBVIOUS
<1>10. \A q \in D : f[q] \in Contents(q) /\ (q # <<>> => Parent(q) \in D)
  <2> SUFFICES ASSUME NEW q \in D
               PROVE  f[q] \in Contents(q) /\ (q # <<>> => Parent(q) \in D)
    OBVIOUS
  <2>1. q \in Nodes(t) \ moved \/ \E r \in moved : q = Renamed(p, r, new)
    OBVIOUS
  <2> HIDE DEF f, D
  <2> QED
    BY <1>7, <1>8, <2>1
<1>11. Rename(t, p, new) = [t EXCEPT !.node = f]
  BY DEF Rename, moved
<1> HIDE DEF f, D
<1>12. f \in NodeMaps
  BY <1>5, <1>6, <1>9, <1>10, NodeMapIntro
<1> QED
  BY <1>11, <1>12 DEF Calls

\* The ACL that goes with a renamed node leaves a tree.
LEMMA FixACLFacts ==
    ASSUME NEW t \in Calls, NEW p \in Paths, p # <<>>, NEW new \in Paths
    PROVE  FixACL(t, p, new) \in Calls
<1>1. CASE p \in DOMAIN t.acl
  <2>1. t.acl[p] \in [Perms -> SUBSET Servers]
    BY <1>1, CallsFacts DEF AclMaps
  <2>2. DeleteACL(t, p) \in Calls
    BY DeleteACLFacts
  <2>3. SetACL(DeleteACL(t, p), new, t.acl[p]) \in Calls
    BY <2>1, <2>2, SetACLFacts
  <2> QED
    BY <1>1, <2>3 DEF FixACL
<1> QED
  BY <1>1 DEF FixACL

\* Replace of a name leaves a tree when the DDF describes what is below
\* the node alike under its new name.
LEMMA ReplaceNameFacts ==
    ASSUME NEW t \in Calls, NEW server, NEW p \in Paths, p # <<>>,
           NEW name \in Names, NEW bad,
           \A q \in Below(t, p) :
               SameFormat(q, Renamed(p, q, Append(Parent(p), name)))
    PROVE  ReplaceNameProperty(t, server, p, name, bad) \in Calls
<1> DEFINE new == Append(Parent(p), name)
           r == ReplaceNameProperty(t, server, p, name, bad)
<1>1. /\ p \in Seq(Names) /\ Nodes(t) \subseteq Seq(Names)
  BY CallsFacts, PathsFacts
<1>2. /\ Parent(p) \in Seq(Names) /\ Len(Parent(p)) = Len(p) - 1
      /\ Len(p) \in Nat /\ Len(p) > 0
  BY <1>1, ParentFacts
<1>3. new \in Seq(Names) /\ Len(new) = Len(p) /\ Parent(new) = Parent(p)
  <2> DEFINE u == Parent(p)
  <2>1. /\ Append(u, name) \in Seq(Names)
        /\ Len(Append(u, name)) = Len(u) + 1
        /\ SubSeq(Append(u, name), 1, Len(u)) = u
    BY <1>2, AppendProperties
  <2> QED
    BY <1>2, <2>1 DEF Parent, Front
<1> HIDE DEF new
<1>4. \/ r \in {Returns(t, "not_found"), Returns(t, "not_allowed"),
                Returns(t, "refused"), Returns(t, "failed")}
      \/ /\ p \in Nodes(t) /\ (new \in Nodes(t) => new = p)
         /\ new # p => SameFormat(p, new)
         /\ r = LogEvent(FixACL(Rename(t, p, new), p, new))
  BY DEF ReplaceNameProperty, new
<1> HIDE DEF r
<1>5. CASE r \in {Returns(t, "not_found"), Returns(t, "not_allowed"),
                  Returns(t, "refused"), Returns(t, "failed")}
  BY <1>5, ReturnsFacts DEF Statuses, r
<1>6. CASE /\ p \in Nodes(t) /\ (new \in Nodes(t) => new = p)
           /\ new # p => SameFormat(p, new)
           /\ r = LogEvent(FixACL(Rename(t, p, new), p, new))
  <2>1. new \in Paths /\ (p \in Leaves <=> new \in Leaves)
    BY <1>6 DEF SameFormat
  <2>2. Renamed(p, p, new) = new
    <3>1. SubSeq(p, Len(p) + 1, Len(p)) = <<>>
      BY <1>2, SubSeqEmpty
    <3> QED
      BY <1>3, <3>1, ConcatEmptySeq DEF Renamed
  <2>3. \A q \in Below(t, p) \cup {p} :
            /\ Renamed(p, q, new) \in Paths
            /\ q \in Leaves <=> Renamed(p, q, new) \in Leaves
    BY <2>1, <2>2 DEF SameFormat, new
  <2>4. Rename(t, p, new) \in Calls
    BY <1>3, <1>6, <2>1, <2>3, RenameFacts
  <2>5. FixACL(Rename(t, p, new), p, new) \in Calls
    BY <2>1, <2>4, FixACLFacts
  <2>6. r \in Calls
    BY <1>6, <2>5, ReturnsFacts DEF Statuses
  <2> QED
    BY <2>6 DEF r
<1> QED
  BY <1>4, <1>5, <1>6

----------------------------------------------------------------------------
(* The order of siblings.                                                  *)

\* The children of a node, told apart by their names.
Siblings(p) == {q \in Paths \ {<<>>} : Parent(q) = p}

\* Siblings differ in their names.
LEMMA SiblingNames ==
    ASSUME NEW p, NEW q \in Siblings(p)
    PROVE  /\ q \in Seq(Names) /\ q # <<>> /\ Last(q) \in Names
           /\ \A r \in Siblings(p) : Last(r) = Last(q) => r = q
<1>1. /\ q \in Seq(Names) /\ q # <<>> /\ Parent(q) = p
  BY PathsFacts DEF Siblings
<1>2. /\ Len(p) = Len(q) - 1 /\ Len(q) \in Nat /\ Len(q) > 0
      /\ \A i \in 1..(Len(q) - 1) : p[i] = q[i]
  BY <1>1, ParentFacts
<1>3. Last(q) = q[Len(q)] /\ Last(q) \in Names
  BY <1>1, <1>2, ElementOfSeq DEF Last
<1>4. ASSUME NEW r \in Siblings(p), Last(r) = Last(q) PROVE r = q
  <2>1. /\ r \in Seq(Names) /\ r # <<>> /\ Parent(r) = p
    BY PathsFacts DEF Siblings
  <2>2. /\ Len(p) = Len(r) - 1 /\ Len(r) \in Nat /\ Len(r) > 0
        /\ \A i \in 1..(Len(r) - 1) : p[i] = r[i]
    BY <2>1, ParentFacts
  <2>3. Len(r) = Len(q)
    BY <1>2, <2>2
  <2>4. r[Len(r)] = q[Len(q)]
    BY <1>3, <1>4 DEF Last
  <2>5. \A i \in 1..Len(r) : r[i] = q[i]
    <3> SUFFICES ASSUME NEW i \in 1..Len(r) PROVE r[i] = q[i]
      OBVIOUS
    <3>1. i = Len(r) \/ i \in 1..(Len(r) - 1)
      BY <2>2
    <3> QED
      BY <1>2, <2>2, <2>3, <2>4, <3>1
  <2> QED
    BY <1>1, <2>1, <2>3, <2>5, SeqEqual
<1> QED
  BY <1>1, <1>3, <1>4

\* And are finitely many, as names are.
LEMMA SiblingsFinite ==
    ASSUME NEW p, NEW C \in SUBSET Siblings(p)
    PROVE  IsFiniteSet(C)
<1> DEFINE f == [q \in C |-> Last(q)]
<1>1. f \in [C -> Names]
  BY SiblingNames
<1>2. \A q, r \in C : f[q] = f[r] => q = r
  BY SiblingNames
<1>3. f \in Injection(C, Names)
  BY <1>1, <1>2 DEF Injection, IsInjective
<1> QED
  BY <1>3, OrderAssumption, FS_Injection

\* L has the elements of C, each once.
IsListOf(L, C) ==
    /\ L \in Seq(C) /\ Len(L) \in Nat /\ DOMAIN L = 1..Len(L)
    /\ \A i \in 1..Len(L) : L[i] \in C
    /\ \A i, j \in 1..Len(L) : L[i] = L[j] => i = j
    /\ \A q \in C : \E i \in 1..Len(L) : L[i] = q

\* Each sibling has a place, one after the other.
LEMMA InOrderFacts ==
    ASSUME NEW p, NEW C \in SUBSET Siblings(p), NEW pos \in Orders,
           NEW L, L = InOrder(pos, C)
    PROVE  IsListOf(L, C)
<1> DEFINE n == Cardinality(C)
           Before(q) == {r \in C : pos[Last(r)] < pos[Last(q)]}
           rank == [q \in C |-> Cardinality(Before(q))]
<1>1. IsFiniteSet(C) /\ n \in Nat
  BY SiblingsFinite, FS_CardinalityType
<1>2. \A q \in C : pos[Last(q)] \in Nat
  BY SiblingNames, OrderAssumption
<1>3. ASSUME NEW q \in C
      PROVE  /\ IsFiniteSet(Before(q)) /\ Cardinality(Before(q)) \in 0..(n - 1)
             /\ q \notin Before(q)
  <2>1. q \notin Before(q) /\ Before(q) \in SUBSET (C \ {q})
    BY <1>2
  <2>2. IsFiniteSet(C \ {q}) /\ Cardinality(C \ {q}) = n - 1
    BY <1>1, FS_RemoveElement
  <2> HIDE DEF Before
  <2>3. /\ IsFiniteSet(Before(q)) /\ Cardinality(Before(q)) <= n - 1
        /\ Cardinality(Before(q)) \in Nat
    BY <2>1, <2>2, FS_Subset, FS_CardinalityType
  <2> QED
    BY <1>1, <2>1, <2>3
<1>4. ASSUME NEW q \in C, NEW r \in C, pos[Last(q)] < pos[Last(r)]
      PROVE  Cardinality(Before(q)) < Cardinality(Before(r))
  <2>1. q \in Before(r) /\ Before(q) \subseteq Before(r)
    BY <1>2, <1>4
  <2>2. Before(q) \cup {q} \in SUBSET Before(r)
    BY <2>1
  <2> HIDE DEF Before
  <2>3. Cardinality(Before(q) \cup {q}) = Cardinality(Before(q)) + 1
    BY <1>3, FS_AddElement
  <2>4. Cardinality(Before(q) \cup {q}) <= Cardinality(Before(r))
    BY <1>3, <2>2, FS_Subset
  <2>5. Cardinality(Before(q)) \in Nat /\ Cardinality(Before(r)) \in Nat
    BY <1>3
  <2> QED
    BY <2>3, <2>4, <2>5
<1> HIDE DEF Before
<1>5. ASSUME NEW q \in C, NEW r \in C,
             Cardinality(Before(q)) = Cardinality(Before(r))
      PROVE  q = r
  <2>1. Cardinality(Before(q)) \in Nat /\ Cardinality(Before(r)) \in Nat
    BY <1>3
  <2>2. pos[Last(q)] = pos[Last(r)]
    BY <1>2, <1>4, <1>5, <2>1
  <2>3. Last(q) = Last(r)
    BY <2>2, SiblingNames, OrderAssumption
  <2> QED
    BY <2>3, SiblingNames
<1>6. \A i \in 0..(n - 1) : \E q \in C : Cardinality(Before(q)) = i
  <2>1. rank \in [C -> 0..(n - 1)]
    BY <1>3
  <2>2. \A q, r \in C : rank[q] = rank[r] => q = r
    BY <1>5
  <2>3. IsFiniteSet(0..(n - 1)) /\ Cardinality(0..(n - 1)) = n
    <3>1. 0 \in Int /\ n - 1 \in Int /\ (n - 1) - 0 + 1 = n
          /\ (0 > n - 1 => n = 0)
      BY <1>1
    <3> QED
      BY <3>1, FS_Interval
  <2>4. \A q \in C : rank[q] = Cardinality(Before(q))
    OBVIOUS
  <2> HIDE DEF rank
  <2>5. rank \in Injection(C, 0..(n - 1))
    BY <2>1, <2>2 DEF Injection, IsInjective
  <2>6. rank \in Surjection(C, 0..(n - 1))
    BY <2>3, <2>5, FS_Injection
  <2> QED
    BY <2>4, <2>6 DEF Surjection
<1>7. L = [i \in 1..n |-> CHOOSE q \in C : Cardinality(Before(q)) = i - 1]
  BY DEF InOrder, Before
<1>8. ASSUME NEW i \in 1..n
      PROVE  L[i] \in C /\ Cardinality(Before(L[i])) = i - 1
  <2>1. i - 1 \in 0..(n - 1)
    BY <1>1
  <2>2. \E q \in C : Cardinality(Before(q)) = i - 1
    BY <1>6, <2>1
  <2> QED
    BY <1>7, <2>2
<1>9. L \in Seq(C) /\ Len(L) = n /\ DOMAIN L = 1..n
  <2>1. L \in [1..n -> C]
    BY <1>7, <1>8
  <2> QED
    BY <1>1, <2>1
<1>10. \A i, j \in 1..n : L[i] = L[j] => i = j
  <2> SUFFICES ASSUME NEW i \in 1..n, NEW j \in 1..n, L[i] = L[j]
               PROVE  i = j
    OBVIOUS
  <2>1. i - 1 = j - 1
    BY <1>8
  <2> QED
    BY <2>1
<1>11. ASSUME NEW q \in C PROVE \E i \in 1..n : L[i] = q
  <2>1. Cardinality(Before(q)) \in 0..(n - 1)
    BY <1>3
  <2>2. /\ Cardinality(Before(q)) + 1 \in 1..n
        /\ (Cardinality(Before(q)) + 1) - 1 = Cardinality(Before(q))
    BY <1>1, <2>1
  <2>3. L[Cardinality(Before(q)) + 1] = q
    BY <1>5, <1>8, <2>2
  <2> QED
    BY <2>2, <2>3
<1> HIDE DEF n
<1> QED
  BY <1>1, <1>8, <1>9, <1>10, <1>11 DEF IsListOf

----------------------------------------------------------------------------
(* setLeafChildren.                                                        *)

\* No path of the DDF lies below a leaf.
LEMMA NothingBelowLeaves ==
    ASSUME NEW l \in Leaves, NEW q \in Paths PROVE ~IsStrictPrefix(l, q)
<1> SUFFICES ASSUME IsStrictPrefix(l, q) PROVE FALSE
  OBVIOUS
<1> DEFINE r == SubSeq(q, 1, Len(l) + 1)
<1>1. l \in Seq(Names) /\ q \in Seq(Names)
  BY PathsFacts
<1>2. /\ Len(l) \in Nat /\ Len(q) \in Nat /\ Len(l) < Len(q)
      /\ \A i \in 1..Len(l) : l[i] = q[i]
  BY <1>1, BelowFacts, PrefixFacts, LenProperties
<1>3. Len(l) + 1 \in 0..Len(q) /\ (Len(l) + 1) - 1 = Len(l)
      /\ Len(l) + 1 > 0 /\ \A i \in 1..Len(l) : i \in 1..(Len(l) + 1)
  BY <1>2
<1>4. /\ r \in Seq(Names) /\ Len(r) = Len(l) + 1
      /\ \A i \in 1..(Len(l) + 1) : r[i] = q[i]
  BY <1>1, <1>3, SubSeqFacts
<1> HIDE DEF r
<1>5. Len(r) <= Len(q) /\ \A i \in 1..Len(r) : r[i] = q[i]
  BY <1>3, <1>4
<1>6. r \in Paths /\ r # <<>>
  BY <1>1, <1>3, <1>4, <1>5, PrefixFacts, PathsAbove, EmptySeq
<1>7. /\ Parent(r) \in Seq(Names) /\ Len(Parent(r)) = Len(r) - 1
      /\ \A i \in 1..(Len(r) - 1) : Parent(r)[i] = r[i]
  BY <1>4, <1>6, ParentFacts
<1>8. Len(Parent(r)) = Len(l) /\ \A i \in 1..Len(l) : Parent(r)[i] = l[i]
  BY <1>2, <1>3, <1>4, <1>7
<1>9. Parent(r) = l
  BY <1>1, <1>7, <1>8, SeqEqual
<1> QED
  BY <1>6, <1>9, PathsFacts

\* A leaf is deleted or, when that fails, is still there.
LEMMA LeafDelete ==
    ASSUME NEW u \in Calls, u.status = "ok", NEW server, NEW request,
           NEW l \in Leaves, NEW bad \in Paths, NEW pos \in Orders,
           NEW d, d = Delete(u, server, request, l, bad, pos)
    PROVE  /\ d \in Calls
           /\ \A q \in Nodes(d) : q \in Nodes(u) /\ d.node[q] = u.node[q]
           /\ d.status = "ok" => Nodes(d) = Nodes(u) \ {l}
           /\ d.status # "ok" => Nodes(d) = Nodes(u)
<1>1. l \in Paths /\ l \in Seq(Names)
  BY PathsFacts
<1>2. Below(u, l) = {}
  BY NothingBelowLeaves, CallsFacts DEF Below
<1>3. /\ d \in Calls
      /\ Nodes(d) \subseteq Nodes(u)
      /\ Nodes(u) \ Nodes(d) \subseteq Below(u, l) \cup {l}
      /\ \A q \in Nodes(d) : d.node[q] = u.node[q]
      /\ d.status = "ok" => Nodes(d) = Nodes(u) \ (Below(u, l) \cup {l})
      /\ d.status # "ok" =>
             \A q \in Nodes(u) \ Nodes(d) :
                 WalkedBefore(pos, q, bad) /\ bad \in Below(u, l) \cup {l}
  BY <1>1, DeleteFacts
<1>4. ASSUME d.status # "ok" PROVE Nodes(d) = Nodes(u)
  <2>1. pos \in [Names -> Nat]
    BY OrderAssumption
  <2>2. ~WalkedBefore(pos, l, l)
    BY <1>1, <2>1, NotBeforeItself
  <2> QED
    BY <1>2, <1>3, <1>4, <2>2
<1> QED
  BY <1>2, <1>3, <1>4

\* A leaf is added or, when that fails, no node is.
LEMMA LeafAdd ==
    ASSUME NEW u \in Calls, u.status = "ok", NEW server \in Servers,
           NEW l \in Leaves, Parent(l) \in Nodes(u), NEW value \in Values,
           NEW bad, NEW pos, NEW a, a = Add(u, server, l, value, bad, pos)
    PROVE  /\ a \in Calls
           /\ \A q \in Nodes(u) : q \in Nodes(a) /\ a.node[q] = u.node[q]
           /\ a.status = "ok" => /\ Nodes(a) = Nodes(u) \cup {l}
                                 /\ l \notin Nodes(u) /\ a.node[l] = value
           /\ a.status # "ok" => Nodes(a) = Nodes(u)
<1>1. l \in Paths /\ value \in Contents(l)
  BY PathsFacts DEF Contents
<1>2. a = AddNodeInternal(u, server, l, value, bad)
  BY DEF Add
<1>3. /\ a \in Calls
      /\ a.status # "ok" => a.node = u.node
      /\ a.status = "ok" =>
             /\ l \notin Nodes(u)
             /\ Nodes(a) = Nodes(u) \cup {l} /\ a.node[l] = value
             /\ \A q \in Nodes(u) : a.node[q] = u.node[q]
  BY <1>1, <1>2, AddNodeFacts
<1>4. CASE a.status = "ok"
  BY <1>3, <1>4
<1>5. CASE a.status # "ok"
  BY <1>3, <1>5 DEF Nodes
<1> QED
  BY <1>4, <1>5

\* The value of a leaf is replaced or, when that fails, stays.
LEMMA LeafReplace ==
    ASSUME NEW u \in Calls, u.status = "ok", NEW server, NEW l \in Leaves,
           NEW value \in Values, NEW bad,
           NEW r, r = Replace(u, server, l, value, bad)
    PROVE  /\ r \in Calls /\ Nodes(r) = Nodes(u)
           /\ \A q \in Nodes(u) : q # l => r.node[q] = u.node[q]
           /\ r.status = "ok" => l \in Nodes(u) /\ r.node[l] = value
           /\ r.status # "ok" => r.node[l] = u.node[l]
<1>1. l \in Paths
  BY PathsFacts
<1>2. /\ r \in Calls /\ Nodes(r) = Nodes(u)
      /\ r.status # "ok" => r.node = u.node
      /\ r.status = "ok" => /\ l \in Nodes(u)
                            /\ r.node = [u.node EXCEPT ![l] = value]
  BY <1>1, ReplaceFacts
<1>3. u.node \in [Nodes(u) -> Values \cup {Interior}]
  BY CallsFacts, NodeMapFacts
<1> QED
  BY <1>2, <1>3

----------------------------------------------------------------------------
(* The states of setLeafChildren.                                          *)

\* Leaves below p, each once.
IsLeafList(p, list) ==
    /\ list \in Seq(Leaves) /\ Len(list) \in Nat /\ DOMAIN list = 1..Len(list)
    /\ \A i \in 1..Len(list) : list[i] \in Leaves /\ Parent(list[i]) = p
    /\ \A i, k \in 1..Len(list) : list[i] = list[k] => i = k

\* The leaves below p that t has.
IsOldList(t, p, old) ==
    /\ IsLeafList(p, old)
    /\ \A i \in 1..Len(old) : /\ old[i] \in Nodes(t)
                              /\ t.node[old[i]] \in Values
    /\ \A q \in Nodes(t) \cap Leaves :
           Parent(q) = p => \E i \in 1..Len(old) : old[i] = q

Runs(old, new) ==
    [t : Calls,
     action : [1..Len(old) -> {"clean", "dirty", "replaced", "added"}],
     delete : [1..Len(new) -> {"clean", "dirty", "deleted"}]]

\* The nodes that are not old leaf children are as they were, and no others
\* come but new ones.
Kept(u, t, old, new) ==
    /\ \A q \in Nodes(t) :
           (\A i \in 1..Len(old) : q # old[i])
               => q \in Nodes(u) /\ u.node[q] = t.node[q]
    /\ \A q \in Nodes(u) \ Nodes(t) : \E j \in 1..Len(new) : q = new[j]

\* What action says of the old children.
Marked(u, action, t, old, value) ==
    \A i \in 1..Len(old) :
        /\ old[i] \in Nodes(u) <=> action[i] # "added"
        /\ action[i] = "replaced" => u.node[old[i]] = value
        /\ action[i] \in {"clean", "dirty"} => u.node[old[i]] = t.node[old[i]]

\* What delete says of the new ones.
Brought(u, delete, t, new, value) ==
    \A j \in 1..Len(new) :
        /\ delete[j] = "deleted" =>
               /\ new[j] \in Nodes(u) \ Nodes(t) /\ u.node[new[j]] = value
        /\ new[j] \in Nodes(u) \ Nodes(t) => delete[j] = "deleted"
        /\ delete[j] = "dirty" => new[j] \in Nodes(t)

\* A new child of an old one's name has replaced it.
Paired(action, delete, old, new) ==
    \A i \in 1..Len(old), j \in 1..Len(new) :
        new[j] = old[i] /\ delete[j] # "clean" => action[i] = "replaced"

\* After the first clean one of a list they all are.
CleanEnd(list, n) ==
    \A i, k \in 1..n : k < i /\ list[k] = "clean" => list[i] = "clean"

Progress(c, t, old, new, value) ==
    /\ c \in Runs(old, new)
    /\ Kept(c.t, t, old, new)
    /\ Marked(c.t, c.action, t, old, value)
    /\ Brought(c.t, c.delete, t, new, value)
    /\ Paired(c.action, c.delete, old, new)
    /\ CleanEnd(c.action, Len(old)) /\ CleanEnd(c.delete, Len(new))

\* The new children before the j-th have been brought, the others not.
Reached(c, j, new) ==
    \A k \in 1..Len(new) : k < j <=> c.delete[k] # "clean"

\* One new child: it replaces an old one, or it is added.
LEMMA NewChildFacts ==
    ASSUME NEW t \in Calls, NEW p \in Nodes(t), NEW old, IsOldList(t, p, old),
           NEW new, IsLeafList(p, new), NEW server \in Servers,
           NEW value \in Values, NEW bad \in Paths, NEW pos \in Orders,
           NEW c, Progress(c, t, old, new, value), c.t.status = "ok",
           NEW j \in 1..Len(new),
           Reached(c, j, new),
           NEW e, e = HandleNewChild(c, j, server, old, new, value, bad, pos)
    PROVE  /\ Progress(e, t, old, new, value)
           /\ e.t.status = "ok" => e.delete[j] # "clean"
           /\ \A k \in 1..Len(new) : k # j => e.delete[k] = c.delete[k]
<1> DEFINE n == Len(old)
           m == Len(new)
           u == c.t
           at == IF \E i \in DOMAIN old : old[i] = new[j]
                 THEN CHOOSE i \in DOMAIN old : old[i] = new[j] ELSE Len(old) + 1
           marked == [i \in DOMAIN old |->
                         IF i < at /\ c.action[i] = "clean" THEN "dirty"
                         ELSE c.action[i]]
           done == IF at \in DOMAIN old
                   THEN Replace(u, server, new[j], value, bad)
                   ELSE Add(u, server, new[j], value, bad, pos)
           action == IF at \in DOMAIN old /\ done.status = "ok"
                     THEN [marked EXCEPT ![at] = "replaced"] ELSE marked
           delete == IF done.status # "ok" THEN c.delete
                     ELSE [c.delete EXCEPT ![j] = IF at \in DOMAIN old
                                                  THEN "dirty" ELSE "deleted"]
           Actions == {"clean", "dirty", "replaced", "added"}
           Deletes == {"clean", "dirty", "deleted"}
<1>1. e = [t |-> done, action |-> action, delete |-> delete]
  BY DEF HandleNewChild
<1>2. /\ n \in Nat /\ DOMAIN old = 1..n
      /\ \A i \in 1..n : /\ old[i] \in Leaves /\ Parent(old[i]) = p
                         /\ old[i] \in Nodes(t) /\ t.node[old[i]] \in Values
      /\ \A i, k \in 1..n : old[i] = old[k] => i = k
      /\ \A q \in Nodes(t) \cap Leaves :
             Parent(q) = p => \E i \in 1..n : old[i] = q
  BY DEF IsOldList, IsLeafList
<1>3. /\ m \in Nat /\ new[j] \in Leaves /\ Parent(new[j]) = p
      /\ \A i, k \in 1..m : new[i] = new[k] => i = k
  BY DEF IsLeafList
<1>4. /\ u \in Calls /\ c.action \in [1..n -> Actions]
      /\ c.delete \in [1..m -> Deletes]
  BY DEF Progress, Runs
<1>5. /\ Kept(u, t, old, new) /\ Marked(u, c.action, t, old, value)
      /\ Brought(u, c.delete, t, new, value)
      /\ Paired(c.action, c.delete, old, new)
      /\ CleanEnd(c.action, n) /\ CleanEnd(c.delete, m)
  BY DEF Progress
<1>6. p \in Nodes(u) /\ p \notin Leaves
  <2>1. p \notin Leaves
    BY <1>3, PathsFacts
  <2>2. \A i \in 1..n : p # old[i]
    BY <1>2, <2>1
  <2> QED
    BY <1>5, <2>1, <2>2 DEF Kept
<1>14. u.status = "ok"
  OBVIOUS
<1> HIDE DEF n, m, u, done, action, delete, marked, at, Actions, Deletes
<1>7. ASSUME NEW i \in 1..n
      PROVE  marked[i] = IF i < at /\ c.action[i] = "clean" THEN "dirty"
                         ELSE c.action[i]
  BY <1>2 DEF marked
<1>8. marked \in [1..n -> Actions]
  <2>1. \A i \in 1..n : marked[i] \in Actions
    BY <1>4, <1>7 DEF Actions
  <2>2. marked = [i \in 1..n |-> marked[i]]
    BY <1>2 DEF marked
  <2> QED
    BY <2>1, <2>2
<1>9. c.delete[j] = "clean"
  BY <1>4, <1>3 DEF m, Reached
<1>10. CASE \E i \in 1..n : old[i] = new[j]
  <2>1. at \in 1..n /\ old[at] = new[j]
    BY <1>2, <1>10 DEF at
  <2>2. done = Replace(u, server, new[j], value, bad)
    BY <1>2, <2>1 DEF done
  <2>3. /\ done \in Calls /\ Nodes(done) = Nodes(u)
        /\ \A q \in Nodes(u) : q # new[j] => done.node[q] = u.node[q]
        /\ done.status = "ok" => new[j] \in Nodes(u)
                                 /\ done.node[new[j]] = value
        /\ done.status # "ok" => done.node[new[j]] = u.node[new[j]]
    BY <1>3, <1>4, <1>14, <2>2, LeafReplace
  <2>4. Kept(done, t, old, new)
    BY <1>5, <2>1, <2>3 DEF Kept, n
  <2>5. \A k \in 1..m : new[k] \notin Nodes(t) => new[k] # new[j]
    BY <1>2, <2>1
  <2>6. CASE done.status # "ok"
    <3>1. action = marked /\ delete = c.delete
      BY <2>6 DEF action, delete
    <3>2. Marked(done, action, t, old, value)
      <4> SUFFICES ASSUME NEW i \in 1..n
                   PROVE  /\ old[i] \in Nodes(done) <=> action[i] # "added"
                          /\ action[i] = "replaced" => done.node[old[i]] = value
                          /\ action[i] \in {"clean", "dirty"} =>
                                 done.node[old[i]] = t.node[old[i]]
        BY DEF Marked, n
      <4>1. /\ old[i] \in Nodes(u) <=> c.action[i] # "added"
            /\ c.action[i] = "replaced" => u.node[old[i]] = value
            /\ c.action[i] \in {"clean", "dirty"} =>
                   u.node[old[i]] = t.node[old[i]]
        BY <1>5 DEF Marked, n
      <4>2. /\ action[i] = "added" <=> c.action[i] = "added"
            /\ action[i] = "replaced" <=> c.action[i] = "replaced"
            /\ action[i] \in {"clean", "dirty"}
                   <=> c.action[i] \in {"clean", "dirty"}
        BY <1>7, <3>1
      <4>3. old[i] \in Nodes(u) => done.node[old[i]] = u.node[old[i]]
        BY <2>3, <2>6
      <4> QED
        BY <2>3, <4>1, <4>2, <4>3
    <3>3. Brought(done, delete, t, new, value)
      BY <1>5, <2>3, <2>5, <3>1 DEF Brought, m
    <3>4. Paired(action, delete, old, new)
      BY <1>5, <1>7, <3>1 DEF Paired, n, m
    <3>5. CleanEnd(action, n) /\ CleanEnd(delete, m)
      <4>1. CleanEnd(marked, n)
        <5>1. at \in Int
          BY <2>1
        <5> QED
          BY <1>2, <1>5, <1>7, <5>1 DEF CleanEnd
      <4> QED
        BY <1>5, <3>1, <4>1
    <3>6. e \in Runs(old, new)
      BY <1>1, <1>4, <1>8, <2>3, <3>1 DEF Runs, n, m, Actions, Deletes
    <3> QED
      BY <1>1, <2>4, <2>6, <3>1, <3>2, <3>3, <3>4, <3>5, <3>6 DEF Progress, n, m
  <2>7. CASE done.status = "ok"
    <3>1. action = [marked EXCEPT ![at] = "replaced"]
          /\ delete = [c.delete EXCEPT ![j] = "dirty"]
      BY <1>2, <2>1, <2>7 DEF action, delete
    <3>2. /\ action \in [1..n -> Actions]
          /\ action[at] = "replaced"
          /\ \A i \in 1..n : i # at => action[i] = marked[i]
      BY <1>8, <2>1, <3>1 DEF Actions
    <3>3. /\ delete \in [1..m -> Deletes] /\ delete[j] = "dirty"
          /\ \A k \in 1..m : k # j => delete[k] = c.delete[k]
      BY <1>4, <3>1 DEF Deletes, m
    <3>4. Marked(done, action, t, old, value)
      <4> SUFFICES ASSUME NEW i \in 1..n
                   PROVE  /\ old[i] \in Nodes(done) <=> action[i] # "added"
                          /\ action[i] = "replaced" => done.node[old[i]] = value
                          /\ action[i] \in {"clean", "dirty"} =>
                                 done.node[old[i]] = t.node[old[i]]
        BY DEF Marked, n
      <4>1. CASE i = at
        BY <2>1, <2>3, <2>7, <3>2, <4>1
      <4>2. CASE i # at
        <5>1. /\ old[i] \in Nodes(u) <=> c.action[i] # "added"
              /\ c.action[i] = "replaced" => u.node[old[i]] = value
              /\ c.action[i] \in {"clean", "dirty"} =>
                     u.node[old[i]] = t.node[old[i]]
          BY <1>5 DEF Marked, n
        <5>2. /\ action[i] = "added" <=> c.action[i] = "added"
              /\ action[i] = "replaced" <=> c.action[i] = "replaced"
              /\ action[i] \in {"clean", "dirty"}
                     <=> c.action[i] \in {"clean", "dirty"}
          BY <1>7, <3>2, <4>2
        <5>3. old[i] \in Nodes(u) => done.node[old[i]] = u.node[old[i]]
          BY <1>2, <2>1, <2>3, <4>2
        <5> QED
          BY <2>3, <5>1, <5>2, <5>3
      <4> QED
        BY <4>1, <4>2
    <3>5. Brought(done, delete, t, new, value)
      <4>1. new[j] \in Nodes(t)
        BY <1>2, <2>1
      <4> QED
        BY <1>5, <2>3, <2>5, <3>3, <4>1 DEF Brought, m
    <3>6. Paired(action, delete, old, new)
      <4> SUFFICES ASSUME NEW i \in 1..n, NEW k \in 1..m,
                          new[k] = old[i], delete[k] # "clean"
                   PROVE  action[i] = "replaced"
        BY DEF Paired, n, m
      <4>1. CASE i = at
        BY <3>2, <4>1
      <4>2. CASE i # at
        <5>1. k # j
          BY <1>2, <2>1, <4>2
        <5>2. c.action[i] = "replaced"
          BY <1>5, <3>3, <5>1 DEF Paired, n, m
        <5> QED
          BY <1>7, <3>2, <4>2, <5>2
      <4> QED
        BY <4>1, <4>2
    <3>7. CleanEnd(action, n)
      <4> SUFFICES ASSUME NEW i \in 1..n, NEW k \in 1..n, k < i,
                          action[k] = "clean"
                   PROVE  action[i] = "clean"
        BY DEF CleanEnd
      <4>1. k # at /\ action[k] = marked[k]
        BY <3>2
      <4>2. c.action[k] = "clean" /\ ~(k < at)
        BY <1>7, <4>1
      <4>3. c.action[i] = "clean" /\ i # at /\ ~(i < at)
        BY <1>2, <1>5, <2>1, <4>2 DEF CleanEnd
      <4> QED
        BY <1>7, <3>2, <4>3
    <3>8. CleanEnd(delete, m)
      <4> SUFFICES ASSUME NEW i \in 1..m, NEW k \in 1..m, k < i,
                          delete[k] = "clean"
                   PROVE  delete[i] = "clean"
        BY DEF CleanEnd
      <4>1. k # j /\ c.delete[k] = "clean"
        BY <3>3
      <4>2. ~(k < j) /\ i # j /\ c.delete[i] = "clean"
        BY <1>3, <1>5, <4>1 DEF CleanEnd, m, Reached
      <4> QED
        BY <3>3, <4>2
    <3>9. e \in Runs(old, new)
      BY <1>1, <2>3, <3>2, <3>3 DEF Runs, n, m, Actions, Deletes
    <3> QED
      BY <1>1, <2>4, <3>3, <3>4, <3>5, <3>6, <3>7, <3>8, <3>9 DEF Progress, n, m
  <2> QED
    BY <2>6, <2>7
<1>11. CASE ~(\E i \in 1..n : old[i] = new[j])
  <2>1. at = n + 1 /\ at \notin DOMAIN old
    BY <1>2, <1>11 DEF at, n
  <2>2. done = Add(u, server, new[j], value, bad, pos) /\ action = marked
    BY <2>1 DEF done, action
  <2>3. /\ done \in Calls
        /\ \A q \in Nodes(u) : q \in Nodes(done) /\ done.node[q] = u.node[q]
        /\ done.status = "ok" => /\ Nodes(done) = Nodes(u) \cup {new[j]}
                                 /\ new[j] \notin Nodes(u)
                                 /\ done.node[new[j]] = value
        /\ done.status # "ok" => Nodes(done) = Nodes(u)
    BY <1>3, <1>4, <1>6, <1>14, <2>2, LeafAdd
  <2>4. new[j] \notin Nodes(t)
    BY <1>2, <1>3, <1>11
  <2>5. Kept(done, t, old, new)
    BY <1>5, <2>3 DEF Kept, n, m
  <2>6. Marked(done, action, t, old, value)
    <3> SUFFICES ASSUME NEW i \in 1..n
                 PROVE  /\ old[i] \in Nodes(done) <=> action[i] # "added"
                        /\ action[i] = "replaced" => done.node[old[i]] = value
                        /\ action[i] \in {"clean", "dirty"} =>
                               done.node[old[i]] = t.node[old[i]]
      BY DEF Marked, n
    <3>1. /\ old[i] \in Nodes(u) <=> c.action[i] # "added"
          /\ c.action[i] = "replaced" => u.node[old[i]] = value
          /\ c.action[i] \in {"clean", "dirty"} =>
                 u.node[old[i]] = t.node[old[i]]
      BY <1>5 DEF Marked, n
    <3>2. /\ action[i] = "added" <=> c.action[i] = "added"
          /\ action[i] = "replaced" <=> c.action[i] = "replaced"
          /\ action[i] \in {"clean", "dirty"}
                 <=> c.action[i] \in {"clean", "dirty"}
      BY <1>7, <2>2
    <3>3. old[i] \in Nodes(u) <=> old[i] \in Nodes(done)
      BY <1>11, <2>3
    <3> QED
      BY <2>3, <3>1, <3>2, <3>3
  <2>7. CleanEnd(action, n)
    <3>1. at \in Int
      BY <1>2, <2>1
    <3> QED
      BY <1>2, <1>5, <1>7, <2>2, <3>1 DEF CleanEnd
  <2>8. CASE done.status # "ok"
    <3>1. delete = c.delete
      BY <2>8 DEF delete
    <3>2. Brought(done, delete, t, new, value)
      BY <1>5, <2>3, <2>8, <3>1 DEF Brought, m
    <3>3. Paired(action, delete, old, new)
      BY <1>5, <1>7, <2>2, <3>1 DEF Paired, n, m
    <3>4. e \in Runs(old, new)
      BY <1>1, <1>4, <1>8, <2>2, <2>3, <3>1 DEF Runs, n, m, Actions, Deletes
    <3>5. CleanEnd(delete, m)
      BY <1>5, <3>1
    <3> QED
      BY <1>1, <2>5, <2>6, <2>7, <2>8, <3>1, <3>2, <3>3, <3>4, <3>5
         DEF Progress, n, m
  <2>9. CASE done.status = "ok"
    <3>1. delete = [c.delete EXCEPT ![j] = "deleted"]
      BY <2>1, <2>9 DEF delete
    <3>2. /\ delete \in [1..m -> Deletes] /\ delete[j] = "deleted"
          /\ \A k \in 1..m : k # j => delete[k] = c.delete[k]
      BY <1>4, <3>1 DEF Deletes, m
    <3>3. Brought(done, delete, t, new, value)
      <4> SUFFICES ASSUME NEW k \in 1..m
                   PROVE  /\ delete[k] = "deleted" =>
                              /\ new[k] \in Nodes(done) \ Nodes(t)
                              /\ done.node[new[k]] = value
                          /\ new[k] \in Nodes(done) \ Nodes(t)
                                 => delete[k] = "deleted"
                          /\ delete[k] = "dirty" => new[k] \in Nodes(t)
        BY DEF Brought, m
      <4>1. CASE k = j
        BY <2>3, <2>4, <2>9, <3>2, <4>1
      <4>2. CASE k # j
        <5>1. new[k] # new[j]
          BY <1>3, <4>2 DEF m
        <5>2. /\ c.delete[k] = "deleted" =>
                     /\ new[k] \in Nodes(u) \ Nodes(t)
                     /\ u.node[new[k]] = value
              /\ new[k] \in Nodes(u) \ Nodes(t) => c.delete[k] = "deleted"
              /\ c.delete[k] = "dirty" => new[k] \in Nodes(t)
          BY <1>5 DEF Brought, m
        <5> QED
          BY <2>3, <2>9, <3>2, <4>2, <5>1, <5>2
      <4> QED
        BY <4>1, <4>2
    <3>4. Paired(action, delete, old, new)
      <4> SUFFICES ASSUME NEW i \in 1..n, NEW k \in 1..m,
                          new[k] = old[i], delete[k] # "clean"
                   PROVE  action[i] = "replaced"
        BY DEF Paired, n, m
      <4>1. k # j
        BY <1>11
      <4>2. c.action[i] = "replaced"
        BY <1>5, <3>2, <4>1 DEF Paired, n, m
      <4> QED
        BY <1>7, <2>2, <4>2
    <3>5. CleanEnd(delete, m)
      <4> SUFFICES ASSUME NEW i \in 1..m, NEW k \in 1..m, k < i,
                          delete[k] = "clean"
                   PROVE  delete[i] = "clean"
        BY DEF CleanEnd
      <4>1. k # j /\ c.delete[k] = "clean"
        BY <3>2
      <4>2. ~(k < j) /\ i # j /\ c.delete[i] = "clean"
        BY <1>3, <1>5, <4>1 DEF CleanEnd, m, Reached
      <4> QED
        BY <3>2, <4>2
    <3>6. e \in Runs(old, new)
      BY <1>1, <1>8, <2>2, <2>3, <3>2 DEF Runs, n, m, Actions, Deletes
    <3> QED
      BY <1>1, <2>5, <2>6, <2>7, <3>2, <3>3, <3>4, <3>5, <3>6 DEF Progress, n, m
  <2> QED
    BY <2>8, <2>9
<1> QED
  BY <1>10, <1>11

\* One old child: deleted when it was marked and not replaced.
LEMMA OldChildFacts ==
    ASSUME NEW t \in Calls, NEW p \in Nodes(t), NEW old, IsOldList(t, p, old),
           NEW new, IsLeafList(p, new), NEW server,
           NEW value \in Values, NEW bad \in Paths, NEW pos \in Orders,
           NEW c, Progress(c, t, old, new, value), NEW i \in 1..Len(old),
           NEW e, e = HandleOldChild(c, i, server, old, bad, pos)
    PROVE  /\ Progress(e, t, old, new, value)
           /\ e.t.status = "ok" => c.t.status = "ok"
           /\ e.delete = c.delete
<1> DEFINE n == Len(old)
           m == Len(new)
           u == c.t
           done == Delete(u, server, "api", old[i], bad, pos)
           action == [c.action EXCEPT ![i] = IF done.status = "ok" THEN "added"
                                             ELSE "dirty"]
           Actions == {"clean", "dirty", "replaced", "added"}
           Deletes == {"clean", "dirty", "deleted"}
<1>1. CASE u.status # "ok" \/ c.action[i] # "dirty"
  <2>1. e = c
    BY <1>1 DEF HandleOldChild
  <2> QED
    BY <2>1
<1>2. CASE u.status = "ok" /\ c.action[i] = "dirty"
  <2>1. /\ u \in Calls /\ c.action \in [1..n -> Actions]
        /\ c.delete \in [1..m -> Deletes]
        /\ c = [t |-> u, action |-> c.action, delete |-> c.delete]
    BY DEF Progress, Runs
  <2>2. /\ Kept(u, t, old, new) /\ Marked(u, c.action, t, old, value)
        /\ Brought(u, c.delete, t, new, value)
        /\ Paired(c.action, c.delete, old, new)
        /\ CleanEnd(c.action, n) /\ CleanEnd(c.delete, m)
    BY DEF Progress
  <2>3. e = [t |-> done, action |-> action, delete |-> c.delete]
    <3>1. e = [c EXCEPT !.t = done, !.action = action]
      BY <1>2, <2>1 DEF HandleOldChild
    <3> HIDE DEF done, action
    <3> QED
      BY <2>1, <3>1
  <2>4. /\ \A k \in 1..n : old[k] \in Leaves /\ old[k] \in Nodes(t)
        /\ \A k, l \in 1..n : old[k] = old[l] => k = l
        /\ \A k \in 1..n : k \in Int
    BY DEF IsOldList, IsLeafList
  <2>5. u.status = "ok"
    BY <1>2
  <2> HIDE DEF n, m, u, done, action, Actions, Deletes
  <2>6. i \in 1..n
    BY DEF n
  <2>7. /\ done \in Calls
        /\ \A q \in Nodes(done) : q \in Nodes(u) /\ done.node[q] = u.node[q]
        /\ done.status = "ok" => Nodes(done) = Nodes(u) \ {old[i]}
        /\ done.status # "ok" => Nodes(done) = Nodes(u)
    BY <2>1, <2>4, <2>5, <2>6, LeafDelete DEF done
  <2>8. /\ action \in [1..n -> Actions]
        /\ action[i] = IF done.status = "ok" THEN "added" ELSE "dirty"
        /\ \A k \in 1..n : k # i => action[k] = c.action[k]
    BY <2>1, <2>6 DEF action, Actions
  <2>9. Kept(done, t, old, new)
    <3>1. ASSUME NEW q \in Nodes(t), \A k \in 1..n : q # old[k]
          PROVE  q \in Nodes(done) /\ done.node[q] = t.node[q]
      <4>1. q \in Nodes(u) /\ u.node[q] = t.node[q]
        BY <2>2, <3>1 DEF Kept, n
      <4>2. q # old[i]
        BY <2>6, <3>1
      <4> QED
        BY <2>7, <4>1, <4>2
    <3>2. \A q \in Nodes(done) \ Nodes(t) : \E k \in 1..m : q = new[k]
      BY <2>2, <2>7 DEF Kept, m
    <3> QED
      BY <3>1, <3>2 DEF Kept, n, m
  <2>10. Marked(done, action, t, old, value)
    <3> SUFFICES ASSUME NEW k \in 1..n
                 PROVE  /\ old[k] \in Nodes(done) <=> action[k] # "added"
                        /\ action[k] = "replaced" => done.node[old[k]] = value
                        /\ action[k] \in {"clean", "dirty"} =>
                               done.node[old[k]] = t.node[old[k]]
      BY DEF Marked, n
    <3>1. /\ old[k] \in Nodes(u) <=> c.action[k] # "added"
          /\ c.action[k] = "replaced" => u.node[old[k]] = value
          /\ c.action[k] \in {"clean", "dirty"} =>
                 u.node[old[k]] = t.node[old[k]]
      BY <2>2 DEF Marked, n
    <3>2. CASE k = i
      BY <1>2, <2>7, <2>8, <3>1, <3>2
    <3>3. CASE k # i
      <4>1. old[k] # old[i] /\ action[k] = c.action[k]
        BY <2>4, <2>6, <2>8, <3>3
      <4>2. old[k] \in Nodes(done) <=> old[k] \in Nodes(u)
        BY <2>7, <4>1
      <4> QED
        BY <2>7, <3>1, <4>1, <4>2
    <3> QED
      BY <3>2, <3>3
  <2>11. Brought(done, c.delete, t, new, value)
    <3> SUFFICES ASSUME NEW k \in 1..m
                 PROVE  /\ c.delete[k] = "deleted" =>
                            /\ new[k] \in Nodes(done) \ Nodes(t)
                            /\ done.node[new[k]] = value
                        /\ new[k] \in Nodes(done) \ Nodes(t)
                               => c.delete[k] = "deleted"
                        /\ c.delete[k] = "dirty" => new[k] \in Nodes(t)
      BY DEF Brought, m
    <3>1. /\ c.delete[k] = "deleted" =>
                 /\ new[k] \in Nodes(u) \ Nodes(t)
                 /\ u.node[new[k]] = value
          /\ new[k] \in Nodes(u) \ Nodes(t) => c.delete[k] = "deleted"
          /\ c.delete[k] = "dirty" => new[k] \in Nodes(t)
      BY <2>2 DEF Brought, m
    <3>2. old[i] \in Nodes(t)
      BY <2>4, <2>6
    <3>3. new[k] \notin Nodes(t) =>
              (new[k] \in Nodes(done) <=> new[k] \in Nodes(u))
      BY <2>7, <3>2
    <3> QED
      BY <2>7, <3>1, <3>3
  <2>12. Paired(action, c.delete, old, new)
    <3> SUFFICES ASSUME NEW k \in 1..n, NEW l \in 1..m,
                        new[l] = old[k], c.delete[l] # "clean"
                 PROVE  action[k] = "replaced"
      BY DEF Paired, n, m
    <3>1. c.action[k] = "replaced"
      BY <2>2 DEF Paired, n, m
    <3> QED
      BY <1>2, <2>8, <3>1
  <2>13. CleanEnd(action, n)
    <3> SUFFICES ASSUME NEW k \in 1..n, NEW l \in 1..n, l < k,
                        action[l] = "clean"
                 PROVE  action[k] = "clean"
      BY DEF CleanEnd
    <3>1. l # i /\ c.action[l] = "clean"
      BY <2>8
    <3>2. c.action[k] = "clean"
      BY <2>2, <3>1 DEF CleanEnd
    <3> QED
      BY <1>2, <2>8, <3>2
  <2>14. e \in Runs(old, new)
    BY <2>1, <2>3, <2>7, <2>8 DEF Runs, n, m, Actions, Deletes
  <2> QED
    BY <2>2, <2>3, <2>5, <2>9, <2>10, <2>11, <2>12, <2>13, <2>14
       DEF Progress, n, m, u
<1> QED
  BY <1>1, <1>2

\* The steps keep the shape of the states.
LEMMA NewChildType ==
    ASSUME NEW p, NEW old, IsLeafList(p, old), NEW new, IsLeafList(p, new),
           NEW server \in Servers, NEW value \in Values, NEW bad \in Paths,
           NEW pos, NEW c \in Runs(old, new), NEW j \in 1..Len(new)
    PROVE  HandleNewChild(c, j, server, old, new, value, bad, pos)
               \in Runs(old, new)
<1> DEFINE at == IF \E i \in DOMAIN old : old[i] = new[j]
                 THEN CHOOSE i \in DOMAIN old : old[i] = new[j]
                 ELSE Len(old) + 1
           marked == [i \in DOMAIN old |->
                         IF i < at /\ c.action[i] = "clean" THEN "dirty"
                         ELSE c.action[i]]
           done == IF at \in DOMAIN old
                   THEN Replace(c.t, server, new[j], value, bad)
                   ELSE Add(c.t, server, new[j], value, bad, pos)
           action == IF at \in DOMAIN old /\ done.status = "ok"
                     THEN [marked EXCEPT ![at] = "replaced"] ELSE marked
           delete == IF done.status # "ok" THEN c.delete
                     ELSE [c.delete EXCEPT ![j] = IF at \in DOMAIN old
                                                  THEN "dirty" ELSE "deleted"]
           Actions == {"clean", "dirty", "replaced", "added"}
           Deletes == {"clean", "dirty", "deleted"}
<1>1. /\ c.t \in Calls /\ c.action \in [1..Len(old) -> Actions]
      /\ c.delete \in [1..Len(new) -> Deletes]
  BY DEF Runs
<1>2. DOMAIN old = 1..Len(old) /\ new[j] \in Leaves
  BY DEF IsLeafList
<1>3. CASE c.t.status # "ok"
  BY <1>3 DEF HandleNewChild
<1>4. CASE c.t.status = "ok"
  <2>1. HandleNewChild(c, j, server, old, new, value, bad, pos)
            = [t |-> done, action |-> action, delete |-> delete]
    BY <1>4 DEF HandleNewChild
  <2>2. done \in Calls
    <3>1. new[j] \in Paths /\ value \in Contents(new[j])
      BY <1>2, PathsFacts DEF Contents
    <3>2. Replace(c.t, server, new[j], value, bad) \in Calls
      <4> DEFINE l == new[j]
                 u == c.t
      <4>1. l \in Leaves /\ u \in Calls /\ u.status = "ok"
        BY <1>1, <1>2, <1>4
      <4> HIDE DEF l, u
      <4>2. Replace(u, server, l, value, bad) \in Calls
        BY <4>1, LeafReplace
      <4> QED
        BY <4>2 DEF l, u
    <3>3. Add(c.t, server, new[j], value, bad, pos) \in Calls
      BY <1>1, <1>4, <3>1, AddFacts
    <3> QED
      BY <3>2, <3>3
  <2> HIDE DEF done, at
  <2>3. marked \in [1..Len(old) -> Actions]
    <3>1. \A i \in 1..Len(old) : c.action[i] \in Actions
      BY <1>1
    <3> QED
      BY <1>2, <3>1
  <2> HIDE DEF marked
  <2>4. action \in [1..Len(old) -> Actions]
    BY <2>3
  <2>5. delete \in [1..Len(new) -> Deletes]
    BY <1>1
  <2> HIDE DEF action, delete
  <2> QED
    BY <2>1, <2>2, <2>4, <2>5 DEF Runs
<1> QED
  BY <1>3, <1>4

\* The step for an old child keeps the types.
LEMMA OldChildType ==
    ASSUME NEW p, NEW old, IsLeafList(p, old), NEW new, NEW server,
           NEW bad \in Paths, NEW pos \in Orders,
           NEW c \in Runs(old, new), NEW i \in 1..Len(old)
    PROVE  HandleOldChild(c, i, server, old, bad, pos) \in Runs(old, new)
<1> DEFINE done == Delete(c.t, server, "api", old[i], bad, pos)
           mark == IF done.status = "ok" THEN "added" ELSE "dirty"
           e == HandleOldChild(c, i, server, old, bad, pos)
<1>1. CASE c.t.status # "ok" \/ c.action[i] # "dirty"
  BY <1>1 DEF HandleOldChild
<1>2. CASE c.t.status = "ok" /\ c.action[i] = "dirty"
  <2>1. e = [c EXCEPT !.t = done, !.action = [c.action EXCEPT ![i] = mark]]
    BY <1>2 DEF HandleOldChild, Runs
  <2>2. c.t \in Calls /\ old[i] \in Leaves
    BY DEF Runs, IsLeafList
  <2>3. done \in Calls
    BY <1>2, <2>2, LeafDelete
  <2>4. [c.action EXCEPT ![i] = mark]
            \in [1..Len(old) -> {"clean", "dirty", "replaced", "added"}]
    BY DEF Runs
  <2> HIDE DEF done, mark
  <2> QED
    BY <2>1, <2>3, <2>4 DEF Runs
<1> QED
  BY <1>1, <1>2

\* So does the rollback of an old child.
LEMMA RollbackOldType ==
    ASSUME NEW t, NEW p, NEW old, IsOldList(t, p, old), NEW server \in Servers,
           NEW action, NEW bad \in Paths, NEW pos,
           NEW u \in Calls, NEW i \in 1..Len(old)
    PROVE  RollbackOldChild(u, i, server, t, old, action, bad, pos) \in Calls
<1> DEFINE r == RollbackOldChild(u, i, server, t, old, action, bad, pos)
           value == t.node[old[i]]
<1>1. old[i] \in Leaves /\ old[i] \in Paths /\ value \in Values
      /\ value \in Contents(old[i])
  BY PathsFacts DEF IsOldList, IsLeafList, Contents
<1>2. \/ r = u
      \/ u.status = "ok" /\ r = Replace(u, server, old[i], value, bad)
      \/ u.status = "ok" /\ r = Add(u, server, old[i], value, bad, pos)
  BY DEF RollbackOldChild
<1> HIDE DEF r, value
<1>3. CASE r = u
  BY <1>3 DEF r
<1>4. CASE u.status = "ok" /\ r = Replace(u, server, old[i], value, bad)
  <2>1. r \in Calls
    BY <1>1, <1>4, LeafReplace
  <2> QED
    BY <2>1 DEF r
<1>5. CASE u.status = "ok" /\ r = Add(u, server, old[i], value, bad, pos)
  <2>1. r \in Calls
    BY <1>1, <1>5, AddFacts
  <2> QED
    BY <2>1 DEF r
<1> QED
  BY <1>2, <1>3, <1>4, <1>5

\* And that of a new one.
LEMMA RollbackNewType ==
    ASSUME NEW p, NEW new, IsLeafList(p, new), NEW server, NEW delete,
           NEW bad \in Paths, NEW pos \in Orders,
           NEW u \in Calls, NEW j \in 1..Len(new)
    PROVE  RollbackNewChild(u, j, server, new, delete, bad, pos) \in Calls
<1>1. CASE u.status = "ok"
  <2>1. new[j] \in Leaves
    BY DEF IsLeafList
  <2> DEFINE l == new[j]
             d == Delete(u, server, "api", l, bad, pos)
  <2>2. l \in Leaves
    BY <2>1
  <2> HIDE DEF l
  <2>3. d \in Calls
    BY <1>1, <2>2, LeafDelete
  <2> QED
    BY <2>3 DEF RollbackNewChild, l
<1>2. CASE u.status # "ok"
  BY <1>2 DEF RollbackNewChild
<1> QED
  BY <1>1, <1>2

\* The fold of HandleNewChildren, step by step.
LEMMA NewChildrenSteps ==
    ASSUME NEW p, NEW old, IsLeafList(p, old), NEW new, IsLeafList(p, new),
           NEW server \in Servers, NEW value \in Values, NEW bad \in Paths,
           NEW pos, NEW first \in Runs(old, new),
           NEW r, r = HandleNewChildren(first, server, old, new, value, bad,
                                        pos)
    PROVE  \E h : /\ h[0] = first /\ h[Len(new)] = r
                  /\ \A i \in 1..Len(new) :
                         h[i] = HandleNewChild(h[i - 1], i, server, old, new,
                                               value, bad, pos)
<1> DEFINE n == Len(new)
           index == [i \in DOMAIN new |-> i]
           Step(u, i) ==
               HandleNewChild(u, index[i], server, old, new, value, bad, pos)
           G == [x \in Runs(old, new) \X (1..n) |-> Step(x[1], x[2])]
           Eq(iter) == iter = [s \in SUBSET (DOMAIN index) |->
                                  IF s = {} THEN first
                                  ELSE Step(iter[s \ {Max(s)}], Max(s))]
           c == CHOOSE iter : Eq(iter)
           h == [i \in 0..n |-> c[1..i]]
<1>1. n \in Nat /\ DOMAIN new = 1..n /\ DOMAIN index = 1..n
      /\ \A i \in 1..n : index[i] = i
  BY DEF IsLeafList
<1>2. r = c[DOMAIN index]
  BY DEF HandleNewChildren, FoldLeft, MapThenFoldSet
<1>3. ASSUME NEW u \in Runs(old, new), NEW i \in 1..n
      PROVE  HandleNewChild(u, i, server, old, new, value, bad, pos)
                 \in Runs(old, new)
  BY NewChildType
<1> HIDE DEF n, index
<1>4. ASSUME NEW u \in Runs(old, new), NEW i \in 1..n
      PROVE  /\ Step(u, i) = HandleNewChild(u, i, server, old, new, value,
                                            bad, pos)
             /\ Step(u, i) \in Runs(old, new)
  BY <1>1, <1>3
<1> HIDE DEF Step
<1>5. ASSUME NEW u \in Runs(old, new), NEW i \in 1..n
      PROVE  G[<<u, i>>] = Step(u, i) /\ G[<<u, i>>] \in Runs(old, new)
  BY <1>4
<1> HIDE DEF G
<1>6. PICK f \in [SUBSET (1..n) -> Runs(old, new)] :
          \A s \in SUBSET (1..n) :
              f[s] = IF s = {} THEN first ELSE G[<<f[s \ {Max(s)}], Max(s)>>]
  <2>1. IsStep(Runs(old, new), G, n)
    BY <1>5 DEF IsStep
  <2>2. \E f : IsFold(f, Runs(old, new), first, G, n)
    BY <1>1, <2>1, FoldExists
  <2> QED
    BY <2>2 DEF IsFold
<1>7. \A s \in SUBSET (1..n) :
          f[s] = IF s = {} THEN first ELSE Step(f[s \ {Max(s)}], Max(s))
  <2> SUFFICES ASSUME NEW s \in SUBSET (1..n), s # {}
               PROVE  f[s] = Step(f[s \ {Max(s)}], Max(s))
    BY <1>6
  <2>1. Max(s) \in 1..n
    BY <1>1, MaxIn
  <2>2. f[s \ {Max(s)}] \in Runs(old, new)
    OBVIOUS
  <2> QED
    BY <1>5, <1>6, <2>1, <2>2
<1>8. Eq(f)
  BY <1>1, <1>7
<1>9. Eq(c)
  <2> HIDE DEF Eq
  <2> QED
    BY <1>8
<1> HIDE DEF c
<1>10. \A s \in SUBSET (1..n) :
           c[s] = IF s = {} THEN first ELSE Step(c[s \ {Max(s)}], Max(s))
  BY <1>1, <1>9
<1>11. h[0] = first
  <2>1. 1..0 = {} /\ 0 \in 0..n
    BY <1>1
  <2> QED
    BY <1>10, <2>1
<1>12. ASSUME NEW i \in 1..n
       PROVE  h[i] = HandleNewChild(h[i - 1], i, server, old, new, value, bad,
                                    pos)
  <2>1. i \in 0..n /\ i - 1 \in 0..n /\ i \in Nat /\ i > 0
        /\ 1..i \in SUBSET (1..n)
    BY <1>1
  <2>2. 1..i # {} /\ Max(1..i) = i /\ (1..i) \ {i} = 1..(i - 1)
    BY <2>1, FoldIndex
  <2>3. h[i] = Step(h[i - 1], i)
    BY <1>10, <2>1, <2>2
  <2>4. index[i] = i
    BY <1>1
  <2> QED
    BY <2>3, <2>4 DEF Step
<1>13. h[n] = r
  BY <1>1, <1>2
<1> HIDE DEF h
<1> QED
  BY <1>11, <1>12, <1>13 DEF n

\* The fold of HandleOldChildren, step by step.
LEMMA OldChildrenSteps ==
    ASSUME NEW p, NEW old, IsLeafList(p, old), NEW new, NEW server,
           NEW bad \in Paths, NEW pos \in Orders, NEW first \in Runs(old, new),
           NEW r, r = HandleOldChildren(first, server, old, bad, pos)
    PROVE  \E h : /\ h[0] = first /\ h[Len(old)] = r
                  /\ \A i \in 1..Len(old) :
                         h[i] = HandleOldChild(h[i - 1], i, server, old, bad,
                                               pos)
<1> DEFINE n == Len(old)
           index == [i \in DOMAIN old |-> i]
           Step(u, i) ==
               HandleOldChild(u, index[i], server, old, bad, pos)
           G == [x \in Runs(old, new) \X (1..n) |-> Step(x[1], x[2])]
           Eq(iter) == iter = [s \in SUBSET (DOMAIN index) |->
                                  IF s = {} THEN first
                                  ELSE Step(iter[s \ {Max(s)}], Max(s))]
           c == CHOOSE iter : Eq(iter)
           h == [i \in 0..n |-> c[1..i]]
<1>1. n \in Nat /\ DOMAIN old = 1..n /\ DOMAIN index = 1..n
      /\ \A i \in 1..n : index[i] = i
  BY DEF IsLeafList
<1>2. r = c[DOMAIN index]
  BY DEF HandleOldChildren, FoldLeft, MapThenFoldSet
<1>3. ASSUME NEW u \in Runs(old, new), NEW i \in 1..n
      PROVE  HandleOldChild(u, i, server, old, bad, pos)
                 \in Runs(old, new)
  BY OldChildType
<1> HIDE DEF n, index
<1>4. ASSUME NEW u \in Runs(old, new), NEW i \in 1..n
      PROVE  /\ Step(u, i) = HandleOldChild(u, i, server, old, bad, pos)
             /\ Step(u, i) \in Runs(old, new)
  BY <1>1, <1>3
<1> HIDE DEF Step
<1>5. ASSUME NEW u \in Runs(old, new), NEW i \in 1..n
      PROVE  G[<<u, i>>] = Step(u, i) /\ G[<<u, i>>] \in Runs(old, new)
  BY <1>4
<1> HIDE DEF G
<1>6. PICK f \in [SUBSET (1..n) -> Runs(old, new)] :
          \A s \in SUBSET (1..n) :
              f[s] = IF s = {} THEN first ELSE G[<<f[s \ {Max(s)}], Max(s)>>]
  <2>1. IsStep(Runs(old, new), G, n)
    BY <1>5 DEF IsStep
  <2>2. \E f : IsFold(f, Runs(old, new), first, G, n)
    BY <1>1, <2>1, FoldExists
  <2> QED
    BY <2>2 DEF IsFold
<1>7. \A s \in SUBSET (1..n) :
          f[s] = IF s = {} THEN first ELSE Step(f[s \ {Max(s)}], Max(s))
  <2> SUFFICES ASSUME NEW s \in SUBSET (1..n), s # {}
               PROVE  f[s] = Step(f[s \ {Max(s)}], Max(s))
    BY <1>6
  <2>1. Max(s) \in 1..n
    BY <1>1, MaxIn
  <2>2. f[s \ {Max(s)}] \in Runs(old, new)
    OBVIOUS
  <2> QED
    BY <1>5, <1>6, <2>1, <2>2
<1>8. Eq(f)
  BY <1>1, <1>7
<1>9. Eq(c)
  <2> HIDE DEF Eq
  <2> QED
    BY <1>8
<1> HIDE DEF c
<1>10. \A s \in SUBSET (1..n) :
           c[s] = IF s = {} THEN first ELSE Step(c[s \ {Max(s)}], Max(s))
  BY <1>1, <1>9
<1>11. h[0] = first
  <2>1. 1..0 = {} /\ 0 \in 0..n
    BY <1>1
  <2> QED
    BY <1>10, <2>1
<1>12. ASSUME NEW i \in 1..n
       PROVE  h[i] = HandleOldChild(h[i - 1], i, server, old, bad, pos)
  <2>1. i \in 0..n /\ i - 1 \in 0..n /\ i \in Nat /\ i > 0
        /\ 1..i \in SUBSET (1..n)
    BY <1>1
  <2>2. 1..i # {} /\ Max(1..i) = i /\ (1..i) \ {i} = 1..(i - 1)
    BY <2>1, FoldIndex
  <2>3. h[i] = Step(h[i - 1], i)
    BY <1>10, <2>1, <2>2
  <2>4. index[i] = i
    BY <1>1
  <2> QED
    BY <2>3, <2>4 DEF Step
<1>13. h[n] = r
  BY <1>1, <1>2
<1> HIDE DEF h
<1> QED
  BY <1>11, <1>12, <1>13 DEF n

\* The fold of RollbackOldChildren, step by step.
LEMMA RollbackOldSteps ==
    ASSUME NEW t, NEW p, NEW old, IsOldList(t, p, old), NEW server \in Servers,
           NEW action, NEW bad \in Paths, NEW pos, NEW first \in Calls,
           NEW r, r = RollbackOldChildren(first, server, t, old, action, bad,
                                          pos)
    PROVE  \E h : /\ h[0] = first /\ h[Len(old)] = r
                  /\ \A i \in 1..Len(old) :
                         h[i] = RollbackOldChild(h[i - 1], i, server, t, old,
                                                 action, bad, pos)
<1> DEFINE n == Len(old)
           index == [i \in DOMAIN old |-> i]
           Step(u, i) ==
               RollbackOldChild(u, index[i], server, t, old, action, bad, pos)
           G == [x \in Calls \X (1..n) |-> Step(x[1], x[2])]
           Eq(iter) == iter = [s \in SUBSET (DOMAIN index) |->
                                  IF s = {} THEN first
                                  ELSE Step(iter[s \ {Max(s)}], Max(s))]
           c == CHOOSE iter : Eq(iter)
           h == [i \in 0..n |-> c[1..i]]
<1>1. n \in Nat /\ DOMAIN old = 1..n /\ DOMAIN index = 1..n
      /\ \A i \in 1..n : index[i] = i
  BY DEF IsOldList, IsLeafList
<1>2. r = c[DOMAIN index]
  BY DEF RollbackOldChildren, FoldLeft, MapThenFoldSet
<1>3. ASSUME NEW u \in Calls, NEW i \in 1..n
      PROVE  RollbackOldChild(u, i, server, t, old, action, bad, pos)
                 \in Calls
  BY RollbackOldType
<1> HIDE DEF n, index
<1>4. ASSUME NEW u \in Calls, NEW i \in 1..n
      PROVE  /\ Step(u, i) = RollbackOldChild(u, i, server, t, old, action,
                                              bad, pos)
             /\ Step(u, i) \in Calls
  BY <1>1, <1>3
<1> HIDE DEF Step
<1>5. ASSUME NEW u \in Calls, NEW i \in 1..n
      PROVE  G[<<u, i>>] = Step(u, i) /\ G[<<u, i>>] \in Calls
  BY <1>4
<1> HIDE DEF G
<1>6. PICK f \in [SUBSET (1..n) -> Calls] :
          \A s \in SUBSET (1..n) :
              f[s] = IF s = {} THEN first ELSE G[<<f[s \ {Max(s)}], Max(s)>>]
  <2>1. IsStep(Calls, G, n)
    BY <1>5 DEF IsStep
  <2>2. \E f : IsFold(f, Calls, first, G, n)
    BY <1>1, <2>1, FoldExists
  <2> QED
    BY <2>2 DEF IsFold
<1>7. \A s \in SUBSET (1..n) :
          f[s] = IF s = {} THEN first ELSE Step(f[s \ {Max(s)}], Max(s))
  <2> SUFFICES ASSUME NEW s \in SUBSET (1..n), s # {}
               PROVE  f[s] = Step(f[s \ {Max(s)}], Max(s))
    BY <1>6
  <2>1. Max(s) \in 1..n
    BY <1>1, MaxIn
  <2>2. f[s \ {Max(s)}] \in Calls
    OBVIOUS
  <2> QED
    BY <1>5, <1>6, <2>1, <2>2
<1>8. Eq(f)
  BY <1>1, <1>7
<1>9. Eq(c)
  <2> HIDE DEF Eq
  <2> QED
    BY <1>8
<1> HIDE DEF c
<1>10. \A s \in SUBSET (1..n) :
           c[s] = IF s = {} THEN first ELSE Step(c[s \ {Max(s)}], Max(s))
  BY <1>1, <1>9
<1>11. h[0] = first
  <2>1. 1..0 = {} /\ 0 \in 0..n
    BY <1>1
  <2> QED
    BY <1>10, <2>1
<1>12. ASSUME NEW i \in 1..n
       PROVE  h[i] = RollbackOldChild(h[i - 1], i, server, t, old, action,
                                      bad, pos)
  <2>1. i \in 0..n /\ i - 1 \in 0..n /\ i \in Nat /\ i > 0
        /\ 1..i \in SUBSET (1..n)
    BY <1>1
  <2>2. 1..i # {} /\ Max(1..i) = i /\ (1..i) \ {i} = 1..(i - 1)
    BY <2>1, FoldIndex
  <2>3. h[i] = Step(h[i - 1], i)
    BY <1>10, <2>1, <2>2
  <2>4. index[i] = i
    BY <1>1
  <2> QED
    BY <2>3, <2>4 DEF Step
<1>13. h[n] = r
  BY <1>1, <1>2
<1> HIDE DEF h
<1> QED
  BY <1>11, <1>12, <1>13 DEF n

\* The fold of RollbackNewChildren, step by step.
LEMMA RollbackNewSteps ==
    ASSUME NEW p, NEW new, IsLeafList(p, new), NEW server, NEW delete,
           NEW bad \in Paths, NEW pos \in Orders, NEW first \in Calls,
           NEW r, r = RollbackNewChildren(first, server, new, delete, bad, pos)
    PROVE  \E h : /\ h[0] = first /\ h[Len(new)] = r
                  /\ \A i \in 1..Len(new) :
                         h[i] = RollbackNewChild(h[i - 1], i, server, new,
                                                 delete, bad, pos)
<1> DEFINE n == Len(new)
           index == [i \in DOMAIN new |-> i]
           Step(u, i) ==
               RollbackNewChild(u, index[i], server, new, delete, bad, pos)
           G == [x \in Calls \X (1..n) |-> Step(x[1], x[2])]
           Eq(iter) == iter = [s \in SUBSET (DOMAIN index) |->
                                  IF s = {} THEN first
                                  ELSE Step(iter[s \ {Max(s)}], Max(s))]
           c == CHOOSE iter : Eq(iter)
           h == [i \in 0..n |-> c[1..i]]
<1>1. n \in Nat /\ DOMAIN new = 1..n /\ DOMAIN index = 1..n
      /\ \A i \in 1..n : index[i] = i
  BY DEF IsLeafList
<1>2. r = c[DOMAIN index]
  BY DEF RollbackNewChildren, FoldLeft, MapThenFoldSet
<1>3. ASSUME NEW u \in Calls, NEW i \in 1..n
      PROVE  RollbackNewChild(u, i, server, new, delete, bad, pos)
                 \in Calls
  BY RollbackNewType
<1> HIDE DEF n, index
<1>4. ASSUME NEW u \in Calls, NEW i \in 1..n
      PROVE  /\ Step(u, i) = RollbackNewChild(u, i, server, new, delete, bad,
                                              pos)
             /\ Step(u, i) \in Calls
  BY <1>1, <1>3
<1> HIDE DEF Step
<1>5. ASSUME NEW u \in Calls, NEW i \in 1..n
      PROVE  G[<<u, i>>] = Step(u, i) /\ G[<<u, i>>] \in Calls
  BY <1>4
<1> HIDE DEF G
<1>6. PICK f \in [SUBSET (1..n) -> Calls] :
          \A s \in SUBSET (1..n) :
              f[s] = IF s = {} THEN first ELSE G[<<f[s \ {Max(s)}], Max(s)>>]
  <2>1. IsStep(Calls, G, n)
    BY <1>5 DEF IsStep
  <2>2. \E f : IsFold(f, Calls, first, G, n)
    BY <1>1, <2>1, FoldExists
  <2> QED
    BY <2>2 DEF IsFold
<1>7. \A s \in SUBSET (1..n) :
          f[s] = IF s = {} THEN first ELSE Step(f[s \ {Max(s)}], Max(s))
  <2> SUFFICES ASSUME NEW s \in SUBSET (1..n), s # {}
               PROVE  f[s] = Step(f[s \ {Max(s)}], Max(s))
    BY <1>6
  <2>1. Max(s) \in 1..n
    BY <1>1, MaxIn
  <2>2. f[s \ {Max(s)}] \in Calls
    OBVIOUS
  <2> QED
    BY <1>5, <1>6, <2>1, <2>2
<1>8. Eq(f)
  BY <1>1, <1>7
<1>9. Eq(c)
  <2> HIDE DEF Eq
  <2> QED
    BY <1>8
<1> HIDE DEF c
<1>10. \A s \in SUBSET (1..n) :
           c[s] = IF s = {} THEN first ELSE Step(c[s \ {Max(s)}], Max(s))
  BY <1>1, <1>9
<1>11. h[0] = first
  <2>1. 1..0 = {} /\ 0 \in 0..n
    BY <1>1
  <2> QED
    BY <1>10, <2>1
<1>12. ASSUME NEW i \in 1..n
       PROVE  h[i] = RollbackNewChild(h[i - 1], i, server, new, delete, bad,
                                      pos)
  <2>1. i \in 0..n /\ i - 1 \in 0..n /\ i \in Nat /\ i > 0
        /\ 1..i \in SUBSET (1..n)
    BY <1>1
  <2>2. 1..i # {} /\ Max(1..i) = i /\ (1..i) \ {i} = 1..(i - 1)
    BY <2>1, FoldIndex
  <2>3. h[i] = Step(h[i - 1], i)
    BY <1>10, <2>1, <2>2
  <2>4. index[i] = i
    BY <1>1
  <2> QED
    BY <2>3, <2>4 DEF Step
<1>13. h[n] = r
  BY <1>1, <1>2
<1> HIDE DEF h
<1> QED
  BY <1>11, <1>12, <1>13 DEF n

\* All the new children, or those before the first that fails.
LEMMA PutFacts ==
    ASSUME NEW t \in Calls, t.status = "ok", NEW p \in Nodes(t),
           NEW old, IsOldList(t, p, old), NEW new, IsLeafList(p, new),
           NEW server \in Servers, NEW value \in Values, NEW bad \in Paths,
           NEW pos \in Orders, NEW mark \in {"clean", "dirty"},
           NEW first, first = [t |-> t, action |-> [i \in DOMAIN old |-> mark],
                               delete |-> [j \in DOMAIN new |-> "clean"]],
           NEW c, c = HandleNewChildren(first, server, old, new, value, bad, pos)
    PROVE  /\ Progress(c, t, old, new, value)
           /\ c.t.status = "ok" =>
                  \A j \in 1..Len(new) : c.delete[j] # "clean"
<1> DEFINE n == Len(old)
           m == Len(new)
           Done(j, d) == \A k \in 1..m : k <= j <=> d.delete[k] # "clean"
           Good(j, d) == /\ Progress(d, t, old, new, value)
                         /\ d.t.status = "ok" => Done(j, d)
<1>1. /\ n \in Nat /\ m \in Nat /\ DOMAIN old = 1..n /\ DOMAIN new = 1..m
      /\ IsLeafList(p, old)
  BY DEF IsOldList, IsLeafList
<1>2. first \in Runs(old, new)
  <2>1. [i \in DOMAIN old |-> mark]
            \in [1..Len(old) -> {"clean", "dirty", "replaced", "added"}]
    BY <1>1
  <2>2. [j \in DOMAIN new |-> "clean"]
            \in [1..Len(new) -> {"clean", "dirty", "deleted"}]
    BY <1>1
  <2> QED
    BY <2>1, <2>2 DEF Runs
<1>3. PICK h : /\ h[0] = first /\ h[m] = c
               /\ \A j \in 1..m : h[j] = HandleNewChild(h[j - 1], j, server,
                                             old, new, value, bad, pos)
  BY <1>1, <1>2, NewChildrenSteps
<1>4. Good(0, first)
  <2>1. /\ first.t = t
        /\ \A i \in 1..n : first.action[i] = mark
        /\ \A j \in 1..m : first.delete[j] = "clean"
    BY <1>1
  <2>2. Kept(t, t, old, new)
    BY DEF Kept
  <2>3. Marked(t, first.action, t, old, value)
    BY <2>1 DEF Marked, IsOldList
  <2>4. Brought(t, first.delete, t, new, value)
    BY <2>1 DEF Brought
  <2>5. Paired(first.action, first.delete, old, new)
    BY <2>1 DEF Paired
  <2>6. CleanEnd(first.action, n) /\ CleanEnd(first.delete, m)
    BY <2>1 DEF CleanEnd
  <2>7. Progress(first, t, old, new, value)
    BY <1>2, <2>1, <2>2, <2>3, <2>4, <2>5, <2>6 DEF Progress
  <2>8. Done(0, first)
    BY <2>1
  <2> QED
    BY <2>7, <2>8
<1> DEFINE S == {j \in 0..m : Good(j, h[j])}
<1>5. ASSUME NEW j \in 0..m, j < m, Good(j, h[j]) PROVE Good(j + 1, h[j + 1])
  <2> DEFINE d == h[j]
             e == h[j + 1]
  <2>1. j + 1 \in 1..m /\ (j + 1) - 1 = j
    BY <1>1, <1>5
  <2>2. e = HandleNewChild(d, j + 1, server, old, new, value, bad, pos)
    BY <1>3, <2>1
  <2>3. Good(j, d)
    BY <1>5
  <2> HIDE DEF d, e, m
  <2>4. ASSUME d.t.status # "ok" PROVE Good(j + 1, e)
    <3>1. e = d
      BY <2>2, <2>4 DEF HandleNewChild
    <3> QED
      BY <2>3, <2>4, <3>1
  <2>5. ASSUME d.t.status = "ok" PROVE Good(j + 1, e)
    <3>1. Progress(d, t, old, new, value) /\ Done(j, d)
      BY <2>3, <2>5
    <3>2. \A k \in 1..m : k < j + 1 <=> d.delete[k] # "clean"
      BY <1>1, <1>5, <3>1
    <3>5. Reached(d, j + 1, new)
      BY <3>2 DEF Reached, m
    <3>6. j + 1 \in 1..Len(new)
      BY <2>1 DEF m
    <3> HIDE DEF Done
    <3>3. /\ Progress(e, t, old, new, value)
          /\ e.t.status = "ok" => e.delete[j + 1] # "clean"
          /\ \A k \in 1..m : k # j + 1 => e.delete[k] = d.delete[k]
      <4> DEFINE l == j + 1
      <4>1. /\ l \in 1..Len(new) /\ Reached(d, l, new)
            /\ e = HandleNewChild(d, l, server, old, new, value, bad, pos)
            /\ Progress(d, t, old, new, value) /\ d.t.status = "ok"
        BY <2>2, <2>5, <3>1, <3>5, <3>6
      <4> HIDE DEF l
      <4>2. /\ Progress(e, t, old, new, value)
            /\ e.t.status = "ok" => e.delete[l] # "clean"
            /\ \A k \in 1..Len(new) : k # l => e.delete[k] = d.delete[k]
        BY <4>1, NewChildFacts
      <4> QED
        BY <4>2 DEF l, m
    <3>4. ASSUME e.t.status = "ok" PROVE Done(j + 1, e)
      <4> SUFFICES ASSUME NEW k \in 1..m
                   PROVE  k <= j + 1 <=> e.delete[k] # "clean"
        BY DEF Done
      <4>1. CASE k = j + 1
        BY <2>1, <3>3, <3>4, <4>1
      <4>2. CASE k # j + 1
        <5>1. k <= j + 1 <=> k < j + 1
          BY <1>1, <1>5, <4>2
        <5> QED
          BY <3>2, <3>3, <4>2, <5>1
      <4> QED
        BY <4>1, <4>2
    <3> QED
      BY <3>3, <3>4
  <2>6. Good(j + 1, e)
    BY <2>4, <2>5
  <2> QED
    BY <2>6 DEF e
<1>6. Good(m, c)
  <2> HIDE DEF Good, m
  <2>1. 0 \in S /\ \A j \in 0..m : j \in S /\ j < m => j + 1 \in S
    BY <1>1, <1>3, <1>4, <1>5
  <2> HIDE DEF S
  <2>2. 0..m \subseteq S
    BY <1>1, <2>1, Upwards
  <2>3. m \in S
    BY <1>1, <2>2
  <2> QED
    BY <1>3, <2>3 DEF S
<1>7. ASSUME c.t.status = "ok", NEW j \in 1..m PROVE c.delete[j] # "clean"
  <2>1. j <= m
    BY <1>1
  <2>2. Done(m, c)
    BY <1>6, <1>7
  <2> QED
    BY <2>1, <2>2
<1> QED
  BY <1>6, <1>7

\* And the old children that are to go.
LEMMA SetFacts ==
    ASSUME NEW t \in Calls, NEW p \in Nodes(t),
           NEW old, IsOldList(t, p, old), NEW new, IsLeafList(p, new),
           NEW server, NEW value \in Values, NEW bad \in Paths,
           NEW pos \in Orders, NEW first, Progress(first, t, old, new, value),
           NEW c, c = HandleOldChildren(first, server, old, bad, pos)
    PROVE  /\ Progress(c, t, old, new, value)
           /\ c.t.status = "ok" => first.t.status = "ok"
           /\ c.delete = first.delete
<1>1. Len(old) \in Nat /\ IsLeafList(p, old)
  BY DEF IsOldList, IsLeafList
<1>2. first \in Runs(old, new)
  BY DEF Progress
<1>3. c = HandleOldChildren(first, server, old, bad, pos)
  OBVIOUS
<1>8. \E h : /\ h[0] = first /\ h[Len(old)] = c
             /\ \A i \in 1..Len(old) :
                    h[i] = HandleOldChild(h[i - 1], i, server, old, bad, pos)
  BY <1>1, <1>2, <1>3, OldChildrenSteps
<1>9. PICK h : /\ h[0] = first /\ h[Len(old)] = c
               /\ \A i \in 1..Len(old) :
                      h[i] = HandleOldChild(h[i - 1], i, server, old, bad, pos)
  BY <1>8
<1> DEFINE n == Len(old)
           Good(d) == /\ Progress(d, t, old, new, value)
                      /\ d.t.status = "ok" => first.t.status = "ok"
                      /\ d.delete = first.delete
           S == {i \in 0..n : Good(h[i])}
<1>7. n \in Nat /\ h[n] = c
  BY <1>1, <1>9
<1>4. Good(h[0])
  BY <1>9
<1>5. ASSUME NEW i \in 0..n, i < n, Good(h[i]) PROVE Good(h[i + 1])
  <2> DEFINE d == h[i]
             e == h[i + 1]
  <2>1. i + 1 \in 1..n /\ (i + 1) - 1 = i
    BY <1>1, <1>5
  <2>2. e = HandleOldChild(d, i + 1, server, old, bad, pos)
    BY <1>9, <2>1
  <2>3. Good(d)
    BY <1>5
  <2> HIDE DEF d, e
  <2>4. /\ Progress(e, t, old, new, value)
        /\ e.t.status = "ok" => d.t.status = "ok"
        /\ e.delete = d.delete
    BY <2>1, <2>2, <2>3, OldChildFacts
  <2>5. Good(e)
    BY <2>3, <2>4
  <2> QED
    BY <2>5 DEF e
<1>6. Good(c)
  <2> HIDE DEF Good, n
  <2>1. 0 \in S /\ \A i \in 0..n : i \in S /\ i < n => i + 1 \in S
    BY <1>7, <1>4, <1>5
  <2> HIDE DEF S
  <2>2. 0..n \subseteq S
    BY <1>7, <2>1, Upwards
  <2>3. n \in S
    BY <1>7, <2>2
  <2> QED
    BY <1>7, <2>3 DEF S
<1> QED
  BY <1>6

\* The rollback of the old children: those up to the i-th are as they were,
\* unless a step failed.
Restored(i, u, t, old, new, action, delete) ==
    /\ u \in Calls /\ Kept(u, t, old, new)
    /\ \A q \in Nodes(u) \ Nodes(t) :
           \E j \in 1..Len(new) : q = new[j] /\ delete[j] = "deleted"
    /\ u.status = "ok" =>
           \A k \in 1..Len(old) :
               k <= i \/ action[k] \notin {"replaced", "added"}
                   => /\ old[k] \in Nodes(u)
                      /\ u.node[old[k]] = t.node[old[k]]

\* The rollback of the new ones: all the nodes of t are back, and of the new
\* children only those after the j-th are left.
Undone(j, u, t, new, delete) ==
    /\ u \in Calls
    /\ u.status = "ok" =>
           /\ \A q \in Nodes(t) : q \in Nodes(u) /\ u.node[q] = t.node[q]
           /\ \A q \in Nodes(u) \ Nodes(t) :
                  \E k \in 1..Len(new) :
                      k > j /\ q = new[k] /\ delete[k] = "deleted"

\* The rollback of one old child gives it its value back.
LEMMA RollbackOldFacts ==
    ASSUME NEW t \in Calls, NEW p \in Nodes(t), NEW old, IsOldList(t, p, old),
           NEW new, NEW server \in Servers, NEW bad \in Paths, NEW pos,
           NEW action, CleanEnd(action, Len(old)), NEW delete,
           NEW i \in 0..Len(old), i < Len(old), NEW u,
           Restored(i, u, t, old, new, action, delete),
           NEW v, v = RollbackOldChild(u, i + 1, server, t, old, action, bad,
                                       pos)
    PROVE  Restored(i + 1, v, t, old, new, action, delete)
<1> DEFINE n == Len(old)
           l == old[i + 1]
           w == t.node[l]
           Back(d, k) == old[k] \in Nodes(d) /\ d.node[old[k]] = t.node[old[k]]
<1>1. /\ n \in Nat /\ i + 1 \in 1..n
      /\ \A k \in 1..n : k <= i + 1 <=> k <= i \/ k = i + 1
      /\ \A k \in 1..n : /\ old[k] \in Leaves /\ Parent(old[k]) = p
                         /\ old[k] \in Nodes(t) /\ t.node[old[k]] \in Values
      /\ \A k \in 1..n : old[k] = old[i + 1] => k = i + 1
  BY DEF IsOldList, IsLeafList
<1>2. /\ l \in Leaves /\ Parent(l) = p /\ l \in Nodes(t) /\ w \in Values
      /\ \A k \in 1..n : old[k] = l => k = i + 1
  BY <1>1
<1>3. /\ u \in Calls /\ Kept(u, t, old, new)
      /\ \A q \in Nodes(u) \ Nodes(t) :
             \E j \in 1..Len(new) : q = new[j] /\ delete[j] = "deleted"
      /\ u.status = "ok" =>
             \A k \in 1..n :
                 k <= i \/ action[k] \notin {"replaced", "added"} => Back(u, k)
  BY DEF Restored
<1>4. p \in Nodes(u)
  <2>1. p \notin Leaves
    BY <1>2, PathsFacts
  <2>2. \A k \in 1..n : p # old[k]
    BY <1>1, <2>1
  <2> QED
    BY <1>3, <2>2 DEF Kept
<1>5. ASSUME v = u, u.status = "ok" => action[i + 1] \notin {"replaced", "added"}
      PROVE  Restored(i + 1, v, t, old, new, action, delete)
  <2> HIDE DEF Back
  <2>1. ASSUME u.status = "ok", NEW k \in 1..n,
               k <= i + 1 \/ action[k] \notin {"replaced", "added"}
        PROVE  Back(v, k)
    BY <1>1, <1>3, <1>5, <2>1
  <2> QED
    BY <1>3, <1>5, <2>1 DEF Restored, Back
<1>6. ASSUME v \in Calls, u.status = "ok", Kept(v, t, old, new),
             Nodes(v) \subseteq Nodes(u) \cup {l},
             \A q \in Nodes(u) :
                 q # l => q \in Nodes(v) /\ v.node[q] = u.node[q],
             v.status = "ok" => l \in Nodes(v) /\ v.node[l] = w
      PROVE  Restored(i + 1, v, t, old, new, action, delete)
  <2>1. ASSUME v.status = "ok", NEW k \in 1..n,
               k <= i + 1 \/ action[k] \notin {"replaced", "added"}
        PROVE  Back(v, k)
    <3>1. CASE k = i + 1
      BY <1>6, <2>1, <3>1
    <3>2. CASE k # i + 1
      <4>1. Back(u, k)
        BY <1>1, <1>3, <1>6, <2>1, <3>2
      <4> QED
        BY <1>2, <1>6, <3>2, <4>1
    <3> QED
      BY <3>1, <3>2
  <2>2. \A q \in Nodes(v) \ Nodes(t) : q \in Nodes(u) \ Nodes(t)
    BY <1>2, <1>6
  <2> QED
    BY <1>3, <1>6, <2>1, <2>2 DEF Restored
<1> HIDE DEF l, w, Back
<1>7. CASE u.status # "ok" \/ Ends(action, i + 1)
  <2>1. v = u
    BY <1>7 DEF RollbackOldChild
  <2>2. ASSUME u.status = "ok" PROVE action[i + 1] \notin {"replaced", "added"}
    <3>1. PICK k \in 1..(i + 1) : action[k] = "clean"
      BY <1>7, <2>2 DEF Ends
    <3>2. k \in 1..n /\ (k = i + 1 \/ k < i + 1)
      BY <1>1, <3>1
    <3>3. action[i + 1] = "clean"
      BY <1>1, <3>1, <3>2 DEF CleanEnd, n
    <3> QED
      BY <3>3
  <2> QED
    BY <1>5, <2>1, <2>2
<1>8. CASE u.status = "ok" /\ ~Ends(action, i + 1) /\ action[i + 1] = "replaced"
  <2>1. v = Replace(u, server, l, w, bad)
    BY <1>8 DEF RollbackOldChild, l, w
  <2>2. /\ v \in Calls /\ Nodes(v) = Nodes(u)
        /\ \A q \in Nodes(u) : q # l => v.node[q] = u.node[q]
        /\ v.status = "ok" => l \in Nodes(u) /\ v.node[l] = w
    BY <1>2, <1>3, <1>8, <2>1, LeafReplace
  <2>3. Kept(v, t, old, new)
    BY <1>1, <1>3, <2>2 DEF Kept, l, n
  <2> QED
    BY <1>6, <1>8, <2>2, <2>3
<1>9. CASE u.status = "ok" /\ ~Ends(action, i + 1) /\ action[i + 1] = "added"
  <2>1. v = Add(u, server, l, w, bad, pos)
    BY <1>9 DEF RollbackOldChild, l, w
  <2>2. Parent(l) \in Nodes(u)
    BY <1>2, <1>4
  <2>3. /\ v \in Calls
        /\ \A q \in Nodes(u) : q \in Nodes(v) /\ v.node[q] = u.node[q]
        /\ v.status = "ok" => Nodes(v) = Nodes(u) \cup {l} /\ v.node[l] = w
        /\ v.status # "ok" => Nodes(v) = Nodes(u)
    BY <1>2, <1>3, <1>9, <2>1, <2>2, LeafAdd
  <2>4. Kept(v, t, old, new)
    BY <1>2, <1>3, <2>3 DEF Kept
  <2> QED
    BY <1>6, <1>9, <2>3, <2>4
<1>10. CASE /\ u.status = "ok" /\ ~Ends(action, i + 1)
            /\ action[i + 1] \notin {"replaced", "added"}
  <2>1. v = u
    BY <1>10 DEF RollbackOldChild
  <2> QED
    BY <1>5, <1>10, <2>1
<1> QED
  BY <1>7, <1>8, <1>9, <1>10

\* The rollback of one new child takes it away.
LEMMA RollbackNewFacts ==
    ASSUME NEW t \in Calls, NEW p, NEW new, IsLeafList(p, new), NEW server,
           NEW bad \in Paths, NEW pos \in Orders,
           NEW delete, CleanEnd(delete, Len(new)),
           \A j \in 1..Len(new) :
               delete[j] = "deleted" => new[j] \notin Nodes(t),
           NEW j \in 0..Len(new), j < Len(new), NEW u,
           Undone(j, u, t, new, delete),
           NEW v, v = RollbackNewChild(u, j + 1, server, new, delete, bad, pos)
    PROVE  Undone(j + 1, v, t, new, delete)
<1> DEFINE m == Len(new)
           l == new[j + 1]
           All(d) == \A q \in Nodes(t) : q \in Nodes(d) /\ d.node[q] = t.node[q]
           Left(d, i) == \A q \in Nodes(d) \ Nodes(t) :
                             \E k \in 1..m : /\ k > i /\ q = new[k]
                                             /\ delete[k] = "deleted"
<1>1. /\ m \in Nat /\ j + 1 \in 1..m /\ l \in Leaves
      /\ \A k \in 1..m : k > j => k = j + 1 \/ k > j + 1
  BY DEF IsLeafList
<1>2. u \in Calls /\ (u.status = "ok" => All(u) /\ Left(u, j))
  BY DEF Undone
<1>3. ASSUME u.status = "ok", delete[j + 1] # "deleted", v = u
      PROVE  Undone(j + 1, v, t, new, delete)
  <2>1. Left(u, j)
    BY <1>2, <1>3
  <2>2. Left(u, j + 1)
    BY <1>1, <1>3, <2>1
  <2> QED
    BY <1>2, <1>3, <2>2 DEF Undone
<1>4. CASE u.status # "ok"
  <2>1. v = u
    BY <1>4 DEF RollbackNewChild
  <2> QED
    BY <1>2, <1>4, <2>1 DEF Undone
<1>5. CASE u.status = "ok" /\ Ends(delete, j + 1)
  <2>1. PICK k \in 1..(j + 1) : delete[k] = "clean"
    BY <1>5 DEF Ends
  <2>2. k \in 1..m /\ (k = j + 1 \/ k < j + 1)
    BY <1>1, <2>1
  <2>3. delete[j + 1] = "clean"
    BY <1>1, <2>1, <2>2 DEF CleanEnd
  <2> QED
    BY <1>3, <1>5, <2>3 DEF RollbackNewChild
<1>6. CASE u.status = "ok" /\ delete[j + 1] # "deleted"
  BY <1>3, <1>6 DEF RollbackNewChild
<1>7. CASE /\ u.status = "ok" /\ ~Ends(delete, j + 1)
           /\ delete[j + 1] = "deleted"
  <2>1. v = Delete(u, server, "api", l, bad, pos)
    BY <1>7 DEF RollbackNewChild
  <2>2. l \notin Nodes(t)
    BY <1>1, <1>7
  <2>3. All(u) /\ Left(u, j)
    BY <1>2, <1>7
  <2> HIDE DEF l
  <2>4. /\ v \in Calls
        /\ \A q \in Nodes(v) : q \in Nodes(u) /\ v.node[q] = u.node[q]
        /\ v.status = "ok" => Nodes(v) = Nodes(u) \ {l}
    BY <1>1, <1>2, <1>7, <2>1, LeafDelete
  <2>5. ASSUME v.status = "ok" PROVE All(v) /\ Left(v, j + 1)
    <3>1. All(v)
      BY <2>2, <2>3, <2>4, <2>5
    <3>2. ASSUME NEW q \in Nodes(v) \ Nodes(t)
          PROVE  \E k \in 1..m : /\ k > j + 1 /\ q = new[k]
                                 /\ delete[k] = "deleted"
      <4>1. q # l /\ q \in Nodes(u) \ Nodes(t)
        BY <2>4, <2>5, <3>2
      <4>2. PICK k \in 1..m : k > j /\ q = new[k] /\ delete[k] = "deleted"
        BY <2>3, <4>1
      <4>3. k # j + 1
        BY <4>1, <4>2 DEF l
      <4> QED
        BY <1>1, <4>2, <4>3
    <3> QED
      BY <3>1, <3>2
  <2> QED
    BY <2>4, <2>5 DEF Undone
<1> QED
  BY <1>4, <1>5, <1>6, <1>7

\* A rollback that gets through leaves the nodes that there were.
LEMMA RollbackFacts ==
    ASSUME NEW t \in Calls, NEW p \in Nodes(t),
           NEW old, IsOldList(t, p, old), NEW new, IsLeafList(p, new),
           NEW server \in Servers, NEW value, NEW bad \in Paths,
           NEW pos \in Orders, NEW c, Progress(c, t, old, new, value),
           NEW r, r = Rollback(c, server, t, old, new, bad, pos)
    PROVE  /\ r \in Calls /\ r.status \in {"rolled_back", "failed"}
           /\ r.status = "rolled_back" => r.node = t.node
<1> DEFINE n == Len(old)
           m == Len(new)
           first == Returns(c.t, "ok")
           restored == RollbackOldChildren(first, server, t, old, c.action, bad,
                                           pos)
           undone == RollbackNewChildren(restored, server, new, c.delete, bad,
                                         pos)
           action == c.action
           delete == c.delete
           Good(i, u) == Restored(i, u, t, old, new, action, delete)
<1>1. /\ n \in Nat /\ m \in Nat
      /\ \A q \in Nodes(t) \cap Leaves :
             Parent(q) = p => \E i \in 1..n : old[i] = q
  BY DEF IsOldList, IsLeafList
<1>2. /\ c.t \in Calls /\ action \in [1..n -> {"clean", "dirty", "replaced",
                                                "added"}]
      /\ Kept(c.t, t, old, new) /\ Marked(c.t, action, t, old, value)
      /\ Brought(c.t, delete, t, new, value)
      /\ CleanEnd(action, n) /\ CleanEnd(delete, m)
  BY DEF Progress, Runs
<1>3. /\ first \in Calls /\ Nodes(first) = Nodes(c.t)
      /\ first.node = c.t.node
  BY <1>2, ReturnsFacts DEF Statuses
<1>4. r = Returns(undone, IF undone.status = "ok" THEN "rolled_back"
                          ELSE "failed")
  BY DEF Rollback
<1>5. restored = RollbackOldChildren(first, server, t, old, action, bad, pos)
  OBVIOUS
<1>6. undone = RollbackNewChildren(restored, server, new, delete, bad, pos)
  OBVIOUS
<1> HIDE DEF first, restored, undone, action, delete
<1>7. PICK h : /\ h[0] = first /\ h[Len(old)] = restored
               /\ \A i \in 1..Len(old) :
                      h[i] = RollbackOldChild(h[i - 1], i, server, t, old,
                                              action, bad, pos)
  BY <1>3, <1>5, RollbackOldSteps
<1>8. Good(0, first)
  <2>1. Kept(first, t, old, new)
    BY <1>2, <1>3 DEF Kept
  <2>2. ASSUME NEW q \in Nodes(first) \ Nodes(t)
        PROVE  \E j \in 1..m : q = new[j] /\ delete[j] = "deleted"
    <3>1. PICK j \in 1..m : q = new[j]
      BY <1>2, <1>3 DEF Kept
    <3> QED
      BY <1>2, <1>3, <3>1 DEF Brought
  <2>3. ASSUME NEW k \in 1..n,
               k <= 0 \/ action[k] \notin {"replaced", "added"}
        PROVE  old[k] \in Nodes(first) /\ first.node[old[k]] = t.node[old[k]]
    <3>1. action[k] \in {"clean", "dirty"}
      BY <1>1, <1>2, <2>3
    <3> QED
      BY <1>2, <1>3, <3>1 DEF Marked
  <2> QED
    BY <1>3, <2>1, <2>2, <2>3 DEF Restored
<1>9. Good(n, restored)
  <2> DEFINE S == {i \in 0..n : Good(i, h[i])}
  <2>1. ASSUME NEW i \in 0..n, i < n, Good(i, h[i]) PROVE Good(i + 1, h[i + 1])
    <3> DEFINE u == h[i]
               v == h[i + 1]
    <3>1. i + 1 \in 1..n /\ (i + 1) - 1 = i
      BY <1>1, <2>1
    <3>2. v = RollbackOldChild(u, i + 1, server, t, old, action, bad, pos)
      BY <1>7, <3>1
    <3>3. Restored(i, u, t, old, new, action, delete)
      BY <2>1
    <3> HIDE DEF u, v
    <3>4. Restored(i + 1, v, t, old, new, action, delete)
      BY <1>2, <2>1, <3>2, <3>3, RollbackOldFacts
    <3> QED
      BY <3>4 DEF v
  <2> HIDE DEF Good, n
  <2>2. 0 \in S /\ \A i \in 0..n : i \in S /\ i < n => i + 1 \in S
    BY <1>1, <1>7, <1>8, <2>1
  <2> HIDE DEF S
  <2>3. 0..n \subseteq S
    BY <1>1, <2>2, Upwards
  <2>4. n \in S
    BY <1>1, <2>3
  <2> QED
    BY <1>7, <2>4 DEF S, n
<1>10. \A j \in 1..m : delete[j] = "deleted" => new[j] \notin Nodes(t)
  BY <1>2 DEF Brought
<1>11. restored \in Calls /\ Undone(0, restored, t, new, delete)
  <2>1. restored \in Calls /\ Kept(restored, t, old, new)
    BY <1>9 DEF Restored
  <2>2. ASSUME restored.status = "ok", NEW q \in Nodes(t)
        PROVE  q \in Nodes(restored) /\ restored.node[q] = t.node[q]
    <3>1. CASE \E i \in 1..n : q = old[i]
      <4>1. PICK i \in 1..n : q = old[i]
        BY <3>1
      <4>2. i <= n
        BY <1>1
      <4> QED
        BY <1>9, <2>2, <4>1, <4>2 DEF Restored
    <3>2. CASE \A i \in 1..n : q # old[i]
      BY <2>1, <3>2 DEF Kept
    <3> QED
      BY <3>1, <3>2
  <2>3. ASSUME NEW q \in Nodes(restored) \ Nodes(t)
        PROVE  \E k \in 1..m : k > 0 /\ q = new[k] /\ delete[k] = "deleted"
    <3>1. PICK k \in 1..m : q = new[k] /\ delete[k] = "deleted"
      BY <1>9 DEF Restored
    <3> QED
      BY <1>1, <3>1
  <2> QED
    BY <2>1, <2>2, <2>3 DEF Undone
<1>12. PICK g : /\ g[0] = restored /\ g[Len(new)] = undone
                /\ \A j \in 1..Len(new) :
                       g[j] = RollbackNewChild(g[j - 1], j, server, new,
                                               delete, bad, pos)
  BY <1>6, <1>11, RollbackNewSteps, SMTT(30)
<1>13. Undone(m, undone, t, new, delete)
  <2> DEFINE S == {j \in 0..m : Undone(j, g[j], t, new, delete)}
  <2>1. ASSUME NEW j \in 0..m, j < m, Undone(j, g[j], t, new, delete)
        PROVE  Undone(j + 1, g[j + 1], t, new, delete)
    <3> DEFINE u == g[j]
               v == g[j + 1]
    <3>1. j + 1 \in 1..m /\ (j + 1) - 1 = j
      BY <1>1, <2>1
    <3>2. v = RollbackNewChild(u, j + 1, server, new, delete, bad, pos)
      BY <1>12, <3>1
    <3>3. Undone(j, u, t, new, delete)
      BY <2>1
    <3> HIDE DEF u, v
    <3>4. Undone(j + 1, v, t, new, delete)
      BY <1>2, <1>10, <2>1, <3>2, <3>3, RollbackNewFacts
    <3> QED
      BY <3>4 DEF v
  <2> HIDE DEF m
  <2>2. 0 \in S /\ \A j \in 0..m : j \in S /\ j < m => j + 1 \in S
    BY <1>1, <1>11, <1>12, <2>1
  <2> HIDE DEF S
  <2>3. 0..m \subseteq S
    BY <1>1, <2>2, Upwards
  <2>4. m \in S
    BY <1>1, <2>3
  <2> QED
    BY <1>12, <2>4 DEF S, m
<1>14. undone \in Calls
  BY <1>13 DEF Undone
<1>15. /\ r \in Calls /\ r.node = undone.node
       /\ r.status = IF undone.status = "ok" THEN "rolled_back" ELSE "failed"
  <2> DEFINE status == IF undone.status = "ok" THEN "rolled_back" ELSE "failed"
  <2>1. status \in Statuses
    BY DEF Statuses
  <2> HIDE DEF status
  <2>2. r = Returns(undone, status)
    BY <1>4 DEF status
  <2>3. r \in Calls /\ r.node = undone.node /\ r.status = status
    BY <1>14, <2>1, <2>2, ReturnsFacts
  <2> QED
    BY <2>3 DEF status
<1>16. ASSUME undone.status = "ok" PROVE undone.node = t.node
  <2>1. /\ \A q \in Nodes(t) : q \in Nodes(undone)
                               /\ undone.node[q] = t.node[q]
        /\ Nodes(undone) \subseteq Nodes(t)
    BY <1>1, <1>13, <1>16 DEF Undone
  <2>2. /\ t.node \in [Nodes(t) -> Values \cup {Interior}]
        /\ undone.node \in [Nodes(undone) -> Values \cup {Interior}]
    BY <1>14, CallsFacts, NodeMapFacts
  <2>3. Nodes(undone) = Nodes(t)
    BY <2>1
  <2> QED
    BY <2>1, <2>2, <2>3
<1> QED
  BY <1>15, <1>16

\* setLeafChildren: done, all the children have the value; undone, the nodes
\* are those that there were.
LEMMA SetLeafChildrenFacts ==
    ASSUME NEW t \in Calls, t.status = "ok", NEW p \in Nodes(t) \ Leaves,
           NEW server \in Servers, NEW value \in Values, NEW bad \in Paths,
           NEW pos \in Orders, NEW newPos \in Orders,
           NEW children, children \subseteq {q \in Leaves : Parent(q) = p},
           NEW new, new = InOrder(newPos, children),
           NEW r, r = SetLeafChildren(t, server, p, new, value, bad, pos)
    PROVE  /\ r \in Calls
           /\ r.status = "ok" =>
                  \A q \in children : q \in Nodes(r) /\ r.node[q] = value
           /\ r.status = "rolled_back" => r.node = t.node
<1> DEFINE C == LeafChildren(t, p)
           old == InOrder(pos, C)
           n == Len(old)
           m == Len(new)
           mark == IF new = <<>> THEN "dirty" ELSE "clean"
           start == [t |-> t, action |-> [i \in DOMAIN old |-> mark],
                     delete |-> [j \in DOMAIN new |-> "clean"]]
           put == HandleNewChildren(start, server, old, new, value, bad, pos)
           set == HandleOldChildren(put, server, old, bad, pos)
           rolled == Rollback(set, server, t, old, new, bad, pos)
<1>1. /\ p \in Paths /\ p \in Nodes(t)
      /\ \A q \in Nodes(t) : q \in Paths /\ t.node[q] \in Contents(q)
  BY CallsFacts
<1>2. C = {q \in Nodes(t) \cap Leaves : Parent(q) = p}
  <2>1. ASSUME NEW q \in Nodes(t), q \in Leaves, Parent(q) = p
        PROVE  q \in C
    <3>1. IsStrictPrefix(p, q)
      <4>1. q \in Seq(Names) /\ q # <<>>
        BY <2>1, PathsFacts
      <4> QED
        BY <2>1, <4>1, ParentAbove
    <3>2. t.node[q] \in Values
      BY <1>1, <2>1 DEF Contents
    <3>3. t.node[q] # Interior
      BY <3>2, DDFAssumption
    <3> QED
      BY <2>1, <3>1, <3>3 DEF LeafChildren, Children, Below, IsInterior
  <2>2. ASSUME NEW q \in C
        PROVE  q \in Nodes(t) /\ q \in Leaves /\ Parent(q) = p
    <3>1. q \in Nodes(t) /\ Parent(q) = p /\ t.node[q] # Interior
      BY DEF LeafChildren, Children, Below, IsInterior
    <3> QED
      BY <1>1, <3>1 DEF Contents
  <2> QED
    BY <2>1, <2>2
<1>3. C \in SUBSET Siblings(p) /\ children \in SUBSET Siblings(p)
  <2>1. \A q \in Leaves : q \in Paths \ {<<>>}
    BY PathsFacts
  <2> QED
    BY <1>2, <2>1 DEF Siblings
<1>6. r = IF \/ p \notin Nodes(t)
             \/ \E q \in Children(t, p) \cup {p} :
                    ~IsValidServer(t, server, q, "Get")
          THEN Returns(t, "refused")
          ELSE IF set.t.status = "ok" THEN set.t ELSE rolled
  BY DEF SetLeafChildren
<1>7. start = [t |-> t, action |-> [i \in DOMAIN old |-> mark],
               delete |-> [j \in DOMAIN new |-> "clean"]]
  OBVIOUS
<1>8. put = HandleNewChildren(start, server, old, new, value, bad, pos)
  OBVIOUS
<1>9. set = HandleOldChildren(put, server, old, bad, pos)
  OBVIOUS
<1>10. rolled = Rollback(set, server, t, old, new, bad, pos)
  OBVIOUS
<1>20. old = InOrder(pos, C)
  OBVIOUS
<1> HIDE DEF C, old, mark, start, put, set, rolled
<1>21. IsListOf(old, C)
  BY <1>3, <1>20, InOrderFacts
<1>22. IsListOf(new, children)
  BY <1>3, InOrderFacts
<1>4. /\ old \in Seq(C) /\ Len(old) \in Nat /\ DOMAIN old = 1..Len(old)
      /\ \A i \in 1..Len(old) : old[i] \in C
      /\ \A i, j \in 1..Len(old) : old[i] = old[j] => i = j
      /\ \A q \in C : \E i \in 1..Len(old) : old[i] = q
  BY <1>21 DEF IsListOf
<1>5. /\ new \in Seq(children) /\ Len(new) \in Nat /\ DOMAIN new = 1..Len(new)
      /\ \A i \in 1..Len(new) : new[i] \in children
      /\ \A i, j \in 1..Len(new) : new[i] = new[j] => i = j
      /\ \A q \in children : \E i \in 1..Len(new) : new[i] = q
  BY <1>22 DEF IsListOf
<1>11. IsLeafList(p, old) /\ IsOldList(t, p, old)
  <2>1. IsLeafList(p, old)
    <3>1. C \subseteq Leaves
      BY <1>2
    <3>2. old \in Seq(Leaves)
      BY <1>4, <3>1
    <3> QED
      BY <1>2, <1>4, <3>2 DEF IsLeafList
  <2>2. \A q \in C : q \in Nodes(t) /\ t.node[q] \in Values
    BY <1>1, <1>2 DEF Contents
  <2> QED
    BY <1>2, <1>4, <2>1, <2>2 DEF IsOldList
<1>12. IsLeafList(p, new)
  <2>1. new \in Seq(Leaves)
    BY <1>5
  <2> QED
    BY <1>5, <2>1 DEF IsLeafList
<1>13. mark \in {"clean", "dirty"}
  BY DEF mark
<1>14. /\ Progress(put, t, old, new, value)
       /\ put.t.status = "ok" => \A j \in 1..Len(new) : put.delete[j] # "clean"
  BY <1>1, <1>7, <1>8, <1>11, <1>12, <1>13, PutFacts, SMTT(30)
<1>15. /\ Progress(set, t, old, new, value)
       /\ set.t.status = "ok" => put.t.status = "ok"
       /\ set.delete = put.delete
  BY <1>1, <1>9, <1>11, <1>12, <1>14, SetFacts, SMTT(30)
<1>16. /\ rolled \in Calls /\ rolled.status \in {"rolled_back", "failed"}
       /\ rolled.status = "rolled_back" => rolled.node = t.node
  BY <1>1, <1>10, <1>11, <1>12, <1>15, RollbackFacts, SMTT(30)
<1>17. set.t \in Calls
  BY <1>15 DEF Progress, Runs
<1>18. ASSUME set.t.status = "ok", NEW q \in children
       PROVE  q \in Nodes(set.t) /\ set.t.node[q] = value
  <2>1. PICK j \in 1..Len(new) : new[j] = q
    BY <1>5
  <2>2. set.delete[j] # "clean"
    BY <1>14, <1>15, <1>18
  <2>3. /\ Marked(set.t, set.action, t, old, value)
        /\ Brought(set.t, set.delete, t, new, value)
        /\ Paired(set.action, set.delete, old, new)
        /\ set.delete[j] \in {"clean", "dirty", "deleted"}
    BY <1>15 DEF Progress, Runs
  <2>4. CASE \E i \in 1..Len(old) : old[i] = q
    <3>1. PICK i \in 1..Len(old) : old[i] = q
      BY <2>4
    <3>2. set.action[i] = "replaced"
      BY <2>1, <2>2, <2>3, <3>1 DEF Paired
    <3> QED
      BY <2>3, <3>1, <3>2 DEF Marked
  <2>5. CASE \A i \in 1..Len(old) : old[i] # q
    <3>1. q \notin Nodes(t)
      BY <1>2, <1>4, <1>3, <2>5
    <3>2. set.delete[j] = "deleted"
      BY <2>1, <2>2, <2>3, <3>1 DEF Brought
    <3> QED
      BY <2>1, <2>3, <3>2 DEF Brought
  <2> QED
    BY <2>4, <2>5
<1>19. /\ Returns(t, "refused") \in Calls
       /\ Returns(t, "refused").status = "refused"
  BY ReturnsFacts DEF Statuses
<1> QED
  BY <1>6, <1>16, <1>17, <1>18, <1>19

\* A call starts with the nodes and the ACLs of the tree.
LEMMA CallFacts ==
    /\ Nodes(Call(tree)) = Nodes(tree)
    /\ Call(tree).acl = tree.acl
BY DEF Call, Nodes

\* And with the permissions of the tree.
LEMMA SamePermissions ==
    ASSUME NEW server, NEW p, NEW perm
    PROVE  IsPermitted(Call(tree), server, p, perm)
               <=> IsPermitted(tree, server, p, perm)
BY CallFacts DEF IsPermitted, AclOf

\* What RemoveNodes leaves, and that a status does not touch it.
LEMMA RemoveNodesNodes ==
    ASSUME NEW gone
    PROVE  /\ Nodes(RemoveNodes(Call(tree), gone)) = Nodes(tree) \ gone
           /\ \A status :
                  Nodes(Returns(RemoveNodes(Call(tree), gone), status))
                      = Nodes(tree) \ gone
<1> DEFINE t == Call(tree)
           node == [q \in Nodes(t) \ gone |-> t.node[q]]
           acl == [q \in DOMAIN t.acl \ gone |-> t.acl[q]]
<1>1. t = [node |-> tree.node, acl |-> tree.acl, status |-> "ok",
           logged |-> FALSE]
  BY DEF Call
<1>2. RemoveNodes(t, gone) = [t EXCEPT !.node = node, !.acl = acl]
  BY DEF RemoveNodes
<1>3. DOMAIN node = Nodes(tree) \ gone
  BY CallFacts
<1> HIDE DEF node, acl
<1>4. RemoveNodes(t, gone).node = node
  BY <1>1, <1>2
<1>5. \A status : Returns(RemoveNodes(t, gone), status).node = node
  BY <1>1, <1>2 DEF Returns
<1> QED
  BY <1>3, <1>4, <1>5 DEF Nodes

\* The walk removes nodes of the subtree only, wherever it ends.
LEMMA DeleteNodeStays ==
    ASSUME NEW p, NEW bad, NEW pos
    PROVE  Nodes(tree) \ Nodes(DeleteNode(Call(tree), p, bad, pos))
               \subseteq Below(tree, p) \cup {p}
<1> DEFINE all == Below(Call(tree), p) \cup {p}
           walked == {q \in all : WalkedBefore(pos, q, bad)}
<1>1. all = Below(tree, p) \cup {p}
  BY CallFacts DEF Below
<1>2. DeleteNode(Call(tree), p, bad, pos)
          = IF bad \in all
            THEN Returns(RemoveNodes(Call(tree), walked), "failed")
            ELSE RemoveNodes(Call(tree), all)
  BY DEF DeleteNode
<1>3. walked \subseteq all
  OBVIOUS
<1> HIDE DEF all, walked
<1> QED
  BY <1>1, <1>2, <1>3, RemoveNodesNodes

\* A Delete that removes anything has passed every check.
LEMMA DeleteChecks ==
    ASSUME NEW server, NEW p, NEW bad, NEW pos, NEW q,
           q \in Nodes(tree) \ Nodes(Delete(Call(tree), server, "server",
                                            p, bad, pos))
    PROVE  /\ q \in Below(tree, p) \cup {p}
           /\ IsPermitted(Call(tree), server, p, "Delete")
           /\ CheckDeleteForNode(Call(tree), server, p)
<1> DEFINE t == Call(tree)
           deleted == DeleteNode(t, p, bad, pos)
           done == Delete(t, server, "server", p, bad, pos)
           refused == \/ ~IsValidServer(t, server, p, "Delete")
                      \/ ~CheckDeleteForNode(t, server, p)
<1>1. \A status : Nodes(Returns(t, status)) = Nodes(tree)
  BY CallFacts DEF Returns, Call, Nodes
<1>2. Nodes(LogEvent(deleted)) = Nodes(deleted)
  BY DEF LogEvent, Nodes, DeleteNode, RemoveNodes, Returns, Call
<1>3. \/ \E status : done = Returns(t, status)
      \/ ~refused /\ (done = LogEvent(deleted) \/ done = deleted)
  BY DEF Delete
<1> HIDE DEF deleted, done, refused
<1>4. ~refused /\ Nodes(done) = Nodes(deleted)
  BY <1>1, <1>2, <1>3 DEF done
<1>5. q \in Below(tree, p) \cup {p}
  BY <1>4, DeleteNodeStays DEF done, deleted
<1> QED
  BY <1>4, <1>5 DEF refused, IsValidServer

\* A server's Delete is permitted for each node it removes, although the walk
\* asks nobody and may end halfway (dm_tree_class_private.cc:703-772, 805-995).
THEOREM DeleteIsPermitted == Spec => []DeletesArePermitted
<1>1. DeletesArePermitted
  <2> SUFFICES ASSUME NEW server \in Servers, NEW p \in Paths,
                      NEW pos \in Orders, NEW bad \in Refusals(p),
                      NEW q \in Nodes(tree) \ Nodes(Delete(Call(tree), server,
                                                   "server", p, bad, pos))
               PROVE  IsPermitted(tree, server, q, "Delete")
    BY DEF DeletesArePermitted
  <2>1. /\ q \in Below(tree, p) \cup {p}
        /\ IsPermitted(Call(tree), server, p, "Delete")
        /\ CheckDeleteForNode(Call(tree), server, p)
    BY DeleteChecks
  <2>2. Below(Call(tree), p) = Below(tree, p)
    BY CallFacts DEF Below
  <2>3. IsPermitted(Call(tree), server, q, "Delete")
    BY <2>1, <2>2 DEF CheckDeleteForNode
  <2> QED
    BY <2>3, SamePermissions
<1> QED
  BY <1>1, PTL

----------------------------------------------------------------------------
(* The theorems.                                                           *)

\* What a call starts with is a tree of Calls.
LEMMA CallOfTree ==
    ASSUME IInv
    PROVE  /\ Call(tree) \in Calls /\ Call(tree).status = "ok"
           /\ Nodes(Call(tree)) = Nodes(tree)
           /\ Call(tree).node = tree.node /\ Call(tree).acl = tree.acl
           /\ \A p : /\ Below(Call(tree), p) = Below(tree, p)
                     /\ LeafChildren(Call(tree), p) = LeafChildren(tree, p)
BY DEF IInv, Call, Calls, Statuses, Nodes, Below, LeafChildren, Children,
       IsInterior

\* The part of DeleteFacts that an action needs.
LEMMA DeleteCalls ==
    ASSUME NEW t \in Calls, NEW server, NEW request, NEW p \in Paths,
           NEW bad \in Paths, NEW pos
    PROVE  Delete(t, server, request, p, bad, pos) \in Calls
<1> DEFINE d == Delete(t, server, request, p, bad, pos)
<1>1. d = Delete(t, server, request, p, bad, pos)
  OBVIOUS
<1> HIDE DEF d
<1>2. /\ d \in Calls
      /\ Nodes(d) \subseteq Nodes(t)
      /\ Nodes(t) \ Nodes(d) \subseteq Below(t, p) \cup {p}
  BY <1>1, DeleteFacts
<1> QED
  BY <1>2 DEF d

\* A call that ends with a tree of Calls keeps the invariant.
LEMMA BecomesFacts ==
    ASSUME NEW r \in Calls, Becomes(r)
    PROVE  IInv'
BY DEF Becomes, Calls, IInv

\* What the DDF refuses is one of its paths.
LEMMA RefusalsFacts ==
    ASSUME NEW p PROVE Refusals(p) \subseteq Paths
BY DEF Refusals

\* The invariant holds of the tree the client starts with.
LEMMA InitIInv == Init => IInv
<1> SUFFICES ASSUME Init PROVE IInv
  OBVIOUS
<1> DEFINE node == [p \in FirstNodes |-> IF p \in Leaves
                                         THEN CHOOSE v \in Values : TRUE
                                         ELSE Interior]
           acl == [p \in {<<>>} |-> Everyone]
<1>1. tree = [node |-> node, acl |-> acl]
  BY DEF Init
<1>2. node \in NodeMaps
  <2>1. node = [p \in FirstNodes |-> node[p]]
    OBVIOUS
  <2>2. \A p \in FirstNodes : node[p] \in Contents(p)
    BY DDFAssumption DEF Contents
  <2>3. /\ FirstNodes \in SUBSET Paths /\ <<>> \in FirstNodes
        /\ \A p \in FirstNodes : p # <<>> => Parent(p) \in FirstNodes
    BY TreeAssumption
  <2> HIDE DEF node
  <2> QED
    BY <2>1, <2>2, <2>3, NodeMapIntro
<1>3. acl \in AclMaps
  <2>1. Everyone \in [Perms -> SUBSET Servers]
    BY DEF Everyone
  <2>2. {<<>>} \in SUBSET Paths
    BY DDFAssumption
  <2>3. acl \in [{<<>>} -> [Perms -> SUBSET Servers]]
    BY <2>1
  <2>4. <<>> \in DOMAIN acl
    OBVIOUS
  <2> HIDE DEF acl
  <2> QED
    BY <2>2, <2>3, <2>4 DEF AclMaps
<1> HIDE DEF node, acl
<1> QED
  BY <1>1, <1>2, <1>3 DEF IInv

\* And every call keeps it.
LEMMA NextIInv == IInv /\ [Next]_tree => IInv'
<1> SUFFICES ASSUME IInv, [Next]_tree PROVE IInv'
  OBVIOUS
<1> DEFINE t == Call(tree)
<1>1. t \in Calls /\ t.status = "ok" /\ Nodes(t) = Nodes(tree)
      /\ \A p : /\ Below(t, p) = Below(tree, p)
                /\ LeafChildren(t, p) = LeafChildren(tree, p)
  BY CallOfTree
<1>2. \A p : Refusals(p) \subseteq Paths
  BY RefusalsFacts
<1> HIDE DEF t
<1>3. CASE UNCHANGED tree
  BY <1>3 DEF IInv
<1>4. ASSUME NEW server \in Servers, NEW p \in Paths, DoAdd(server, p)
      PROVE  IInv'
  <2>1. PICK value \in Contents(p), bad \in Refusals(p), pos \in Orders :
            Becomes(Add(t, server, p, value, bad, pos))
    BY <1>4 DEF DoAdd, t
  <2> DEFINE r == Add(t, server, p, value, bad, pos)
  <2>2. bad \in Paths
    BY <1>2
  <2>3. r \in Calls
    BY <1>1, <2>2, AddFacts
  <2> HIDE DEF r
  <2> QED
    BY <2>1, <2>3, BecomesFacts DEF r
<1>5. ASSUME NEW server \in Servers, NEW p \in Paths, DoDelete(server, p)
      PROVE  IInv'
  <2>1. PICK request \in {"server", "api"}, bad \in Refusals(p),
             pos \in Orders :
            Becomes(Delete(t, server, request, p, bad, pos))
    BY <1>5 DEF DoDelete, t
  <2> DEFINE r == Delete(t, server, request, p, bad, pos)
  <2>2. bad \in Paths
    BY <1>2
  <2>3. r \in Calls
    BY <1>1, <2>2, DeleteCalls
  <2> HIDE DEF r
  <2> QED
    BY <2>1, <2>3, BecomesFacts DEF r
<1>6. ASSUME NEW server \in Servers, NEW p \in Paths, DoReplace(server, p)
      PROVE  IInv'
  <2>1. PICK value \in Values, bad \in {<<>>, p} :
            Becomes(Replace(t, server, p, value, bad))
    BY <1>6 DEF DoReplace, t
  <2> DEFINE r == Replace(t, server, p, value, bad)
  <2>3. r \in Calls
    BY <1>1, ReplaceFacts
  <2> HIDE DEF r
  <2> QED
    BY <2>1, <2>3, BecomesFacts DEF r
<1>7. ASSUME NEW server \in Servers, NEW p \in Paths, DoReplaceACL(server, p)
      PROVE  IInv'
  <2>1. PICK acls \in {{}} \cup {{acl} : acl \in Acls} :
            Becomes(ReplaceACLProperty(t, server, p, acls))
    BY <1>7 DEF DoReplaceACL, t
  <2> DEFINE r == ReplaceACLProperty(t, server, p, acls)
  <2>3. r \in Calls
    BY <1>1, ReplaceACLFacts
  <2> HIDE DEF r
  <2> QED
    BY <2>1, <2>3, BecomesFacts DEF r
<1>8. ASSUME NEW server \in Servers, NEW p \in Paths, p # <<>>,
             DoRename(server, p)
      PROVE  IInv'
  <2>1. PICK name \in Names :
            /\ \A q \in Below(tree, p) :
                   SameFormat(q, Renamed(p, q, Append(Parent(p), name)))
            /\ \E bad \in {<<>>, Append(Parent(p), name)} :
                   Becomes(ReplaceNameProperty(t, server, p, name, bad))
    BY <1>8 DEF DoRename, t
  <2>2. PICK bad : Becomes(ReplaceNameProperty(t, server, p, name, bad))
    BY <2>1
  <2> DEFINE r == ReplaceNameProperty(t, server, p, name, bad)
  <2>3. \A q \in Below(t, p) :
            SameFormat(q, Renamed(p, q, Append(Parent(p), name)))
    BY <1>1, <2>1
  <2>4. r \in Calls
    BY <1>1, <1>8, <2>3, ReplaceNameFacts
  <2> HIDE DEF r
  <2> QED
    BY <2>2, <2>4, BecomesFacts DEF r
<1>9. ASSUME NEW server \in Servers, NEW p \in Paths,
             p \in Nodes(tree) \ Leaves, DoSetLeafChildren(server, p)
      PROVE  IInv'
  <2>1. PICK children \in SUBSET {q \in Leaves : Parent(q) = p},
             pos \in Orders, newPos \in Orders, value \in Values :
            \E bad \in children \cup LeafChildren(tree, p) \cup {<<>>} :
                Becomes(SetLeafChildren(t, server, p,
                            InOrder(newPos, children), value, bad, pos))
    BY <1>9 DEF DoSetLeafChildren, t
  <2>6. PICK bad \in children \cup LeafChildren(tree, p) \cup {<<>>} :
            Becomes(SetLeafChildren(t, server, p, InOrder(newPos, children),
                                    value, bad, pos))
    BY <2>1
  <2> DEFINE new == InOrder(newPos, children)
             r == SetLeafChildren(t, server, p, new, value, bad, pos)
  <2>2. bad \in Paths
    BY <1>1, CallsFacts, PathsFacts DEF LeafChildren, Children, Below
  <2>3. p \in Nodes(t) \ Leaves
    BY <1>1, <1>9
  <2>4. new = InOrder(newPos, children)
    OBVIOUS
  <2> HIDE DEF new
  <2>5. r \in Calls
    BY <1>1, <2>2, <2>3, <2>4, SetLeafChildrenFacts
  <2> HIDE DEF r
  <2> QED
    BY <2>5, <2>6, BecomesFacts DEF r, new
<1> QED
  BY <1>3, <1>4, <1>5, <1>6, <1>7, <1>8, <1>9 DEF Next

\* So it always holds.
LEMMA IInvHolds == Spec => []IInv
BY InitIInv, NextIInv, PTL DEF Spec

\* Whatever calls were made, the tree is one that the DDF describes: every node
\* has its parent and what its format asks for, and the root has an ACL
\* (dm_tree_class_public.cc:1037-1218, 1933-2130, dm_tree_class_private.cc:703-995).
THEOREM TypesHold == Spec => []TypeOK
<1>1. IInv => TypeOK
  BY NodeMapFacts DEF IInv, TypeOK, AclMaps, Nodes
<1> QED
  BY <1>1, IInvHolds, PTL

\* Add puts nodes on the way to the new one only, the topmost below a node that
\* the server may add to; when it is done, the node is there and no other has
\* changed (dm_tree_class_private.cc).
THEOREM AddIsPermitted == Spec => []AddsArePermitted
<1>1. IInv => AddsArePermitted
  <2> SUFFICES ASSUME IInv, NEW server \in Servers, NEW p \in Paths,
                      NEW pos \in Orders, NEW value \in Contents(p),
                      NEW bad \in Refusals(p), NEW r,
                      r = Add(Call(tree), server, p, value, bad, pos)
               PROVE  /\ \A q \in Nodes(r) \ Nodes(tree) :
                             /\ IsPrefix(q, p)
                             /\ Parent(q) \in Nodes(tree) =>
                                  IsPermitted(tree, server, Parent(q), "Add")
                      /\ r.status = "ok" =>
                             /\ r.logged /\ p \in Nodes(r) \ Nodes(tree)
                             /\ r.node[p] = value
                             /\ \A q \in Nodes(tree) :
                                    /\ q \in Nodes(r)
                                    /\ r.node[q] = tree.node[q]
    BY DEF AddsArePermitted
  <2> DEFINE t == Call(tree)
  <2>1. /\ t \in Calls /\ t.status = "ok" /\ Nodes(t) = Nodes(tree)
        /\ t.node = tree.node /\ bad \in Paths
    BY CallOfTree, RefusalsFacts
  <2>2. \A q : IsPermitted(t, server, q, "Add")
                   <=> IsPermitted(tree, server, q, "Add")
    BY SamePermissions
  <2>3. r = Add(t, server, p, value, bad, pos)
    OBVIOUS
  <2> HIDE DEF t
  <2>4. /\ \A q \in Nodes(r) \ Nodes(t) :
               /\ IsPrefix(q, p)
               /\ Parent(q) \in Nodes(t)
                      => IsPermitted(t, server, Parent(q), "Add")
        /\ r.status = "ok" =>
               /\ r.logged /\ p \in Nodes(r) \ Nodes(t)
               /\ r.node[p] = value
               /\ \A q \in Nodes(t) :
                      q \in Nodes(r) /\ r.node[q] = t.node[q]
    BY <2>1, <2>3, AddFacts
  <2> QED
    BY <2>1, <2>2, <2>4
<1> QED
  BY <1>1, IInvHolds, PTL

\* setLeafChildren is done for all the children or, when its rollback gets
\* through, for none (dm_tree_class_private.cc:3217-3490).
THEOREM SetLeafChildrenIsAtomic == Spec => []LeafChildrenAtomic
<1>1. IInv => LeafChildrenAtomic
  <2> SUFFICES ASSUME IInv, NEW server \in Servers,
                      NEW p \in Nodes(tree) \ Leaves, NEW pos \in Orders,
                      NEW newPos \in Orders, NEW value \in Values,
                      NEW children \in SUBSET {q \in Leaves : Parent(q) = p},
                      NEW bad \in children \cup LeafChildren(tree, p)
                                  \cup {<<>>},
                      NEW r, r = SetLeafChildren(Call(tree), server, p,
                                     InOrder(newPos, children), value, bad,
                                     pos)
               PROVE  /\ r.status = "ok" =>
                             \A q \in children :
                                 q \in Nodes(r) /\ r.node[q] = value
                      /\ r.status = "rolled_back" => r.node = tree.node
    BY DEF LeafChildrenAtomic
  <2> DEFINE t == Call(tree)
             new == InOrder(newPos, children)
  <2>1. /\ t \in Calls /\ t.status = "ok" /\ p \in Nodes(t) \ Leaves
        /\ t.node = tree.node
        /\ LeafChildren(t, p) = LeafChildren(tree, p)
    BY CallOfTree
  <2>2. new = InOrder(newPos, children)
        /\ r = SetLeafChildren(t, server, p, new, value, bad, pos)
    OBVIOUS
  <2> HIDE DEF t, new
  <2>3. bad \in Paths
    BY <2>1, CallsFacts, PathsFacts DEF LeafChildren, Children, Below
  <2>4. /\ r.status = "ok" =>
               \A q \in children : q \in Nodes(r) /\ r.node[q] = value
        /\ r.status = "rolled_back" => r.node = t.node
    BY <2>1, <2>2, <2>3, SetLeafChildrenFacts
  <2> QED
    BY <2>1, <2>4
<1> QED
  BY <1>1, IInvHolds, PTL
=============================================================================
