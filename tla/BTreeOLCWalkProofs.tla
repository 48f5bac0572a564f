-------------------------- MODULE BTreeOLCWalkProofs --------------------------
(***************************************************************************)
(* What the walks over the concurrent B+-tree meet: the search for a       *)
(* stored key ends in its leaf or meets a lock, and the walk of MergeData  *)
(* along the leaves takes every record once, in the order of the keys, and *)
(* no more of them than were counted.  The model defines both walks by     *)
(* recursion over the nodes.  That they are defined at all is a fact about *)
(* the tree: every node is above its children, and the leaves form one     *)
(* chain.                                                                  *)
(***************************************************************************)
EXTENDS BTreeOLCMapProofs, WellFoundedInduction

-----------------------------------------------------------------------------
(* Induction.  The theorems of the library that take a predicate are out of *)
(* the provers' reach, but a set of numbers has a least one, and that is    *)
(* enough for what the recursive functions of the model compute.            *)

\* A set of numbers has a least one.
LEMMA LeastNumber ==
  ASSUME NEW T, T \subseteq Nat, T # {}
  PROVE  \E x \in T : \A y \in T : ~(y < x)
<1>1. PICK x \in T : \A y \in T : ~(<<y, x>> \in OpToRel(<, Nat))
  BY NatLessThanWellFounded, WFMin
<1>2. \A y \in T : <<y, x>> \in OpToRel(<, Nat) <=> y < x
  BY DEF OpToRel
<1> QED
  BY <1>1, <1>2

\* A set that has 0, and with a number the next one, has all of them.
LEMMA Induction ==
  ASSUME NEW S, 0 \in S, \A n \in Nat : n \in S => n + 1 \in S
  PROVE  \A n \in Nat : n \in S
<1> SUFFICES ASSUME NEW m \in Nat, m \notin S PROVE FALSE
  OBVIOUS
<1> DEFINE T == {n \in Nat : n \notin S}
<1>1. PICK x \in T : \A y \in T : ~(y < x)
  <2>1. T \subseteq Nat /\ T # {}
    OBVIOUS
  <2> HIDE DEF T
  <2> QED
    BY <2>1, LeastNumber
<1>2. x # 0 /\ x - 1 \in Nat /\ x - 1 + 1 = x /\ x - 1 < x
  OBVIOUS
<1>3. x - 1 \in S
  BY <1>1, <1>2
<1> QED
  BY <1>2, <1>3

\* One step of a walk from node n: it ends there, or goes on to next[n].
Walk(S, Ends, next, g) ==
  g = [n \in S |-> IF n \in Ends THEN <<n>> ELSE <<n>> \o g[next[n]]]

\* Walks that come down at every step are defined by their recursion.
LEMMA WalkIsDefined ==
  ASSUME NEW S, NEW Ends, NEW next, NEW rank, NEW m \in Nat,
         \A n \in S : rank[n] \in Nat /\ rank[n] < m,
         \A n \in S : n \notin Ends => next[n] \in S /\ rank[next[n]] < rank[n]
  PROVE  \E g : Walk(S, Ends, next, g)
<1> DEFINE Next1(g) == [n \in S |-> IF n \in Ends THEN <<n>> ELSE <<n>> \o g[next[n]]]
           Upto(g, j) == \A n \in S : rank[n] < j => g[n] = Next1(g)[n]
           T == {j \in Nat : \E g : Upto(g, j)}
<1>1. 0 \in T
  <2>1. Upto([n \in S |-> 0], 0)
    OBVIOUS
  <2> HIDE DEF Upto
  <2> QED
    BY <2>1
<1>2. ASSUME NEW j \in Nat, j \in T PROVE j + 1 \in T
  <2>1. PICK g : Upto(g, j)
    BY <1>2
  <2>2. PICK f : f = Next1(g)
    OBVIOUS
  <2>3. ASSUME NEW n \in S, rank[n] < j + 1 PROVE f[n] = Next1(f)[n]
    <3>1. CASE n \in Ends
      BY <2>2, <3>1
    <3>2. CASE n \notin Ends
      <4>1. next[n] \in S /\ rank[next[n]] < j
        BY <2>3, <3>2
      <4>2. f[next[n]] = g[next[n]]
        BY <2>1, <2>2, <4>1
      <4> QED
        BY <2>2, <3>2, <4>2
    <3> QED
      BY <3>1, <3>2
  <2>4. Upto(f, j + 1)
    BY <2>3
  <2> HIDE DEF Upto
  <2> QED
    BY <2>4
<1>3. PICK g : Upto(g, m)
  <2>1. \A j \in Nat : j \in T
    <3> HIDE DEF T
    <3> QED
      BY <1>1, <1>2, Induction
  <2> QED
    BY <2>1
<1>4. PICK f : f = Next1(g)
  OBVIOUS
<1>5. \A n \in S : f[n] = g[n]
  <2> HIDE DEF Next1
  <2> QED
    BY <1>3, <1>4
<1>6. Next1(f) = Next1(g)
  BY <1>5
<1> QED
  BY <1>4, <1>6 DEF Walk

-----------------------------------------------------------------------------
(* The steps, by what they do to the tree.                                 *)

\* A step that leaves the links of the tree as they are.
SameLinks(t) ==
  /\ Nodes' = Nodes /\ root' = root /\ ~Pending(t)'
  /\ \A n \in Nodes : /\ tree'[n].type = tree[n].type /\ tree'[n].next = tree[n].next
                      /\ IsInner(n) => tree'[n].kids = tree[n].kids

\* Of the other threads it is the same half that waits to be linked.
LEMMA OthersWait ==
  ASSUME IInv, RInv, NEW t \in Threads, Begin(t) \/ Step(t), NEW u \in Threads, u # t
  PROVE  /\ Pending(u)' <=> Pending(u)
         /\ node'[u] = node[u] /\ sep'[u] = sep[u]
<1>1. /\ pc = [v \in Threads |-> pc[v]] /\ node = [v \in Threads |-> node[v]]
      /\ sep = [v \in Threads |-> sep[v]]
  BY DEF IInv, PerThread, RInv, TasksPerThread
<1>2. Restart(t) => /\ \E p : pc' = [pc EXCEPT ![t] = p]
                    /\ \E m : node' = [node EXCEPT ![t] = m]
  BY DEF Restart, Goto, Forget
<1>3. Forget(t) => \E m : node' = [node EXCEPT ![t] = m]
  BY DEF Forget
<1>4. \E p : pc' = [pc EXCEPT ![t] = p]
  <2>1. CASE Begin(t) \/ ReturnInsert(t) \/ ReturnLookup(t)
    BY <1>2, <2>1 DEF Begin, ReturnInsert, ReturnLookup, Return, Goto
  <2>2. CASE Descend(t)
    <3>1. CASE Visit(t)
      BY <3>1 DEF Visit, Goto
    <3>2. CASE ~Visit(t)
      BY <1>2, <2>2, <3>2 DEF Descend, ReadRoot, LockRoot, CheckRoot, CheckParent, ReadChild,
         CheckChild, LockChild, LockNode, Goto
    <3> QED
      BY <3>1, <3>2
  <2>3. CASE SplitNode(t)
    BY <1>2, <2>3 DEF SplitNode, LockParent, LockSplit, RecheckRoot, Split, LinkParent, MakeRoot,
       UnlockNode, UnlockParent, Goto
  <2>4. CASE \/ LockLeaf(t) \/ LeafParent(t) \/ AbandonLeaf(t) \/ InsertIntoLeaf(t)
             \/ ReadLeaf(t) \/ LookupParent(t) \/ LookupLeaf(t)
    BY <1>2, <2>4 DEF LockLeaf, LeafParent, AbandonLeaf, InsertIntoLeaf, ReadLeaf, LookupParent,
       LookupLeaf, Goto
  <2> QED
    BY <2>1, <2>2, <2>3, <2>4 DEF Step, Insert, Lookup
<1>5. \E m : node' = node \/ node' = [node EXCEPT ![t] = m]
  <2>1. CASE Begin(t) \/ ReturnInsert(t) \/ ReturnLookup(t)
    BY <1>2, <1>3, <2>1 DEF Begin, ReturnInsert, ReturnLookup, Return
  <2>2. CASE Descend(t)
    BY <1>2, <2>2 DEF Descend, ReadRoot, LockRoot, CheckRoot, CheckParent, ReadChild,
       CheckChild, LockChild, LockNode, Visit, path
  <2>3. CASE SplitNode(t)
    BY <1>2, <2>3 DEF SplitNode, LockParent, LockSplit, RecheckRoot, Split, LinkParent, MakeRoot,
       UnlockNode, UnlockParent, path
  <2>4. CASE \/ LockLeaf(t) \/ LeafParent(t) \/ AbandonLeaf(t) \/ InsertIntoLeaf(t)
             \/ ReadLeaf(t) \/ LookupParent(t) \/ LookupLeaf(t)
    BY <1>2, <2>4 DEF LockLeaf, LeafParent, AbandonLeaf, InsertIntoLeaf, ReadLeaf, LookupParent,
       LookupLeaf, path
  <2> QED
    BY <2>1, <2>2, <2>3, <2>4 DEF Step, Insert, Lookup
<1>6. \E x : sep' = sep \/ sep' = [sep EXCEPT ![t] = x]
  <2>1. CASE Split(t)
    <3> DEFINE newId == Len(tree) + 1
               half == IF IsInner(node[t]) THEN InnerSplit(tree[node[t]])
                                           ELSE LeafSplit(tree[node[t]], newId)
               x == [key |-> half.key, new |-> newId]
    <3>1. sep' = [sep EXCEPT ![t] = x]
      BY <2>1 DEF Split
    <3> HIDE DEF x
    <3> QED
      BY <3>1
  <2>2. CASE Begin(t) \/ Descend(t) \/ Lookup(t) \/ Insert(t)
    BY <2>2 DEF Begin, Descend, ReadRoot, LockRoot, CheckRoot, CheckParent, ReadChild,
       CheckChild, LockChild, Visit, Lookup, ReadLeaf, LookupParent, LookupLeaf, ReturnLookup,
       Insert, LockLeaf, LeafParent, AbandonLeaf, InsertIntoLeaf, ReturnInsert
  <2>3. CASE SplitNode(t) /\ ~Split(t)
    BY <2>3 DEF SplitNode, LockParent, LockSplit, RecheckRoot, LinkParent, MakeRoot,
       UnlockNode, UnlockParent
  <2> QED
    BY <2>1, <2>2, <2>3 DEF Step
<1>7. pc'[u] = pc[u]
  BY <1>1, <1>4
<1>8. node'[u] = node[u]
  BY <1>1, <1>5
<1>9. sep'[u] = sep[u]
  BY <1>1, <1>6
<1> QED
  BY <1>7, <1>8, <1>9 DEF Pending

\* A thread has a half to link after a split only.
LEMMA OnlySplitWaits ==
  ASSUME IInv, NEW t \in Threads, Begin(t) \/ Step(t), ~Split(t)
  PROVE  ~Pending(t)'
<1>1. \A p : Goto(t, p) => pc'[t] = p
  <2>1. pc = [v \in Threads |-> pc[v]]
    BY DEF IInv, PerThread
  <2> QED
    BY <2>1 DEF Goto
<1>2. Restart(t) => pc'[t] = "readRoot"
  BY <1>1 DEF Restart
<1>3. pc'[t] \notin {"linkParent", "makeRoot"}
  <2>1. CASE Begin(t) \/ ReturnInsert(t) \/ ReturnLookup(t)
    BY <1>1, <1>2, <2>1 DEF Begin, ReturnInsert, ReturnLookup, Return
  <2>2. CASE Descend(t)
    <3>1. CASE Visit(t)
      BY <1>1, <3>1 DEF Visit
    <3>2. CASE ~Visit(t)
      BY <1>1, <1>2, <2>2, <3>2 DEF Descend, ReadRoot, LockRoot, CheckRoot, CheckParent, ReadChild,
         CheckChild, LockChild, LockNode
    <3> QED
      BY <3>1, <3>2
  <2>3. CASE SplitNode(t)
    BY <1>1, <1>2, <2>3 DEF SplitNode, LockParent, LockSplit, RecheckRoot, LinkParent, MakeRoot,
       UnlockNode, UnlockParent
  <2>4. CASE \/ LockLeaf(t) \/ LeafParent(t) \/ AbandonLeaf(t) \/ InsertIntoLeaf(t)
             \/ ReadLeaf(t) \/ LookupParent(t) \/ LookupLeaf(t)
    BY <1>1, <1>2, <2>4 DEF LockLeaf, LeafParent, AbandonLeaf, InsertIntoLeaf, ReadLeaf, LookupParent,
       LookupLeaf
  <2> QED
    BY <2>1, <2>2, <2>3, <2>4 DEF Step, Insert, Lookup
<1> QED
  BY <1>3 DEF Pending

\* The others keep the links.
LEMMA LinksStay ==
  ASSUME IInv, RInv, MInv, NEW t \in Threads, Begin(t) \/ Step(t),
         ~Split(t), ~LinkParent(t), ~MakeRoot(t)
  PROVE  SameLinks(t)
<1>1. ~Pending(t)'
  BY OnlySplitWaits
<1>2. CASE tree' = tree /\ root' = root
  BY <1>1, <1>2 DEF SameLinks, Nodes
<1>3. CASE Rewords(t)
  BY <1>1, <1>3 DEF SameLinks, Rewords
<1>4. CASE InsertIntoLeaf(t)
  <2> DEFINE n == node[t]
             y == LeafInsert(tree[n], op[t].key, op[t].value)
  <2>0. PICK c, s : Mapped(c, s)
    BY DEF MInv
  <2>1. /\ n \in Leaves /\ op[t] \in Inserts /\ Nodes' = Nodes /\ y.type = tree[n].type
        /\ root' = root
        /\ \A m \in Nodes : tree'[m] = IF m = n THEN LeafInsert(tree[m], op[t].key, op[t].value)
                                                ELSE tree[m]
    BY <1>4, InsertWrites
  <2>2. /\ IsNode(tree[n]) /\ ContentOK(tree[n], Nodes) /\ Sorted(tree[n].keys)
        /\ tree[n].type # "inner" /\ op[t].key \in Keys /\ op[t].value \in Values
    BY <2>0, <2>1 DEF IInv, TreeOK, RInv, ContentsOK, Mapped, NodeCovers, Leaves, IsInner, Inserts
  <2>3. y.kids = tree[n].kids /\ y.next = tree[n].next
    BY <2>2, LeafInserted DEF ContentOK
  <2> HIDE DEF y
  <2>4. \A m \in Nodes : tree'[m] = IF m = n THEN y ELSE tree[m]
    BY <2>1 DEF y
  <2> QED
    BY <1>1, <2>1, <2>3, <2>4 DEF SameLinks
<1>5. root' = root
  BY DEF Begin, Step, Descend, SplitNode, Insert, Lookup, ReadRoot, LockRoot, CheckRoot, Visit,
     CheckParent, ReadChild, CheckChild, LockChild, LockParent, LockSplit, RecheckRoot,
     UnlockNode, UnlockParent, LockLeaf, LeafParent, AbandonLeaf,
     InsertIntoLeaf, ReturnInsert, ReadLeaf, LookupParent, LookupLeaf, ReturnLookup, shape
<1>6. CASE \/ LockParent(t) \/ LockSplit(t) \/ LockLeaf(t)
           \/ UnlockNode(t) \/ UnlockParent(t) \/ AbandonLeaf(t) \/ ReturnInsert(t)
  BY <1>2, <1>3, <1>5, <1>6, LocksOnlyReword
<1>7. CASE \/ Begin(t) \/ Descend(t) \/ RecheckRoot(t) \/ LeafParent(t) \/ Lookup(t)
  <2>1. tree' = tree
    BY <1>7 DEF Begin, Descend, ReadRoot, LockRoot, CheckRoot, Visit, CheckParent, ReadChild,
       CheckChild, LockChild, RecheckRoot, LeafParent, Lookup, ReadLeaf, LookupParent, LookupLeaf,
       ReturnLookup
  <2> QED
    BY <1>2, <1>5, <2>1
<1> QED
  BY <1>4, <1>6, <1>7 DEF Step, SplitNode, Insert

-----------------------------------------------------------------------------
(* The search for a key comes to an end, and to the leaf that has it.      *)

\* Every node is above its children: a search comes down at every step.  A half
\* that has no parent yet is as high as the node it was split from.
Levels(h, top) ==
  /\ top \in Nat
  /\ \A n \in Nodes : h[n] \in Nat /\ h[n] < top
  /\ \A p \in Inners : \A i \in DOMAIN tree[p].kids : h[tree[p].kids[i]] < h[p]
  /\ \A t \in Threads : Pending(t) => h[sep[t].new] = h[node[t]]

LevelsInv == \E h, top : Levels(h, top)

\* The kids of an inner node are nodes.
LEMMA KidsAreNodes ==
  ASSUME RInv
  PROVE  \A p \in Inners : \A i \in DOMAIN tree[p].kids : tree[p].kids[i] \in Nodes
BY DEF RInv, ContentsOK, ContentOK, Inners, IsInner

\* A thread with a half to link has it and its node.
LEMMA WaitingAtNodes ==
  ASSUME IInv, RInv, NEW t \in Threads, Pending(t)
  PROVE  node[t] \in Nodes /\ sep[t].new \in Nodes
<1>1. ThreadOK(t) /\ Knows(t)
  BY DEF IInv, RInv
<1> QED
  BY <1>1 DEF Pending, ThreadOK, AtNode, Knows, KnowsTask

\* A step that keeps the links keeps the levels.
LEMMA LevelsStay ==
  ASSUME IInv, RInv, NEW h, NEW top, Levels(h, top), NEW t \in Threads, Begin(t) \/ Step(t),
         SameLinks(t)
  PROVE  Levels(h, top)'
<1>1. /\ Nodes' = Nodes /\ Inners' = Inners
      /\ \A p \in Inners : tree'[p].kids = tree[p].kids
  BY DEF SameLinks, Inners, IsInner
<1>2. \A u \in Threads : Pending(u)' =>
        Pending(u) /\ node'[u] = node[u] /\ sep'[u] = sep[u]
  BY OthersWait DEF SameLinks
<1> QED
  BY <1>1, <1>2 DEF Levels

\* The halves of a split are as high as the node was.
LEMMA SplitLevels ==
  ASSUME IInv, RInv, MInv, NEW h, NEW top, Levels(h, top), NEW t \in Threads, Split(t)
  PROVE  LevelsInv'
<1> DEFINE n == node[t]
<1>0. n \in Nodes /\ Sorted(tree[n].keys)
  BY DEF MInv, IInv, ThreadOK, AtNode, Split, At, Mapped, NodeCovers
<1>1. PICK l, r, e, id : SplitsInto(t, l, r, e, id)
  BY <1>0, SplitWrites
<1>2. /\ id \notin Nodes /\ Nodes' = Nodes \cup {id}
      /\ \A m \in Nodes : tree'[m] = IF m = n THEN l ELSE tree[m]
      /\ tree'[id] = r /\ sep'[t].new = id /\ l.type = tree[n].type
  BY <1>1 DEF SplitsInto
<1>3. UNCHANGED path
  BY <1>0, SplitWrites
<1>4. PICK g : g = [m \in Nodes' |-> IF m = id THEN h[n] ELSE h[m]]
  OBVIOUS
<1>5. g[id] = h[n] /\ \A m \in Nodes : g[m] = h[m]
  BY <1>2, <1>4
<1>6. \A m \in Nodes' : g[m] \in Nat /\ g[m] < top
  BY <1>0, <1>2, <1>5 DEF Levels
<1>7. ASSUME NEW p \in Inners', NEW i \in DOMAIN tree'[p].kids
      PROVE  g[tree'[p].kids[i]] < g[p]
  <2>1. CASE p \in Nodes /\ p # n
    <3>1. p \in Inners /\ tree'[p] = tree[p]
      BY <1>2, <1>7, <2>1 DEF Inners, IsInner
    <3>2. tree[p].kids[i] \in Nodes /\ h[tree[p].kids[i]] < h[p]
      BY <1>7, <3>1, KidsAreNodes DEF Levels
    <3> QED
      BY <1>5, <2>1, <3>1, <3>2
  <2>2. CASE p = n \/ p \notin Nodes
    <3>1. n \in Inners /\ (tree'[p] = l \/ tree'[p] = r) /\ g[p] = h[n]
      <4>1. CASE p = n
        BY <1>0, <1>2, <1>5, <1>7, <4>1 DEF Inners, IsInner
      <4>2. CASE p \notin Nodes
        <5>1. p = id /\ r.type = "inner"
          BY <1>2, <1>7, <4>2 DEF Inners, IsInner
        <5>2. IsInner(n)
          BY <1>1, <5>1 DEF SplitsInto
        <5> QED
          BY <1>0, <1>2, <1>5, <5>1, <5>2 DEF Inners
      <4> QED
        BY <2>2, <4>1, <4>2
    <3>2. PICK keep \in Nat : HalfKids(tree[n], l, r, e, keep)
      BY <1>1, <3>1 DEF SplitsInto, Inners
    <3>3. PICK j \in DOMAIN tree[n].kids : tree[n].kids[j] = tree'[p].kids[i]
      BY <1>7, <3>1, <3>2 DEF HalfKids
    <3>4. tree[n].kids[j] \in Nodes /\ h[tree[n].kids[j]] < h[n]
      BY <3>1, <3>3, KidsAreNodes DEF Levels
    <3> QED
      BY <1>5, <3>1, <3>3, <3>4
  <2> QED
    BY <2>1, <2>2
<1>8. ASSUME NEW u \in Threads, Pending(u)' PROVE g[sep'[u].new] = g[node'[u]]
  <2>1. CASE u = t
    BY <1>0, <1>2, <1>3, <1>5, <2>1 DEF path
  <2>2. CASE u # t
    <3>1. Pending(u) /\ node'[u] = node[u] /\ sep'[u] = sep[u]
      BY <1>8, <2>2, OthersWait DEF Step, SplitNode
    <3>2. node[u] \in Nodes /\ sep[u].new \in Nodes
      BY <3>1, WaitingAtNodes
    <3> QED
      BY <1>5, <3>1, <3>2 DEF Levels
  <2> QED
    BY <2>1, <2>2
<1>9. Levels(g, top)'
  BY <1>6, <1>7, <1>8 DEF Levels
<1> QED
  BY <1>9 DEF LevelsInv

\* The half goes below the parent of the node it was split from.
LEMMA LinkLevels ==
  ASSUME IInv, RInv, MInv, NEW h, NEW top, Levels(h, top), NEW t \in Threads, LinkParent(t)
  PROVE  Levels(h, top)'
<1> DEFINE q == parent[t]
           new == sep[t].new
<1>1. pc[t] = "linkParent" /\ Nodes' = Nodes
  BY LinkWrites
<1>2. PICK y : /\ Linked(tree[q], y, sep[t].key, new)
               /\ \A m \in Nodes : tree'[m] = IF m = q THEN y ELSE tree[m]
  BY LinkWrites
<1>3. /\ q \in Inners /\ q \in Nodes /\ q # None /\ new \in Nodes /\ sep[t].key \in Keys
      /\ Pending(t)
      /\ tree[q].kids \in Seq(Nodes) /\ tree[q].keys \in Seq(Keys)
      /\ Len(tree[q].kids) = Len(tree[q].keys) + 1
  <2>1. ThreadOK(t) /\ Knows(t)
    BY DEF IInv, RInv
  <2>2. q \in Nodes /\ q # None /\ IsInner(q) /\ new \in Nodes /\ sep[t].key \in Keys
    BY <1>1, <2>1 DEF ThreadOK, Knows, KnowsParent, KnowsTask
  <2> QED
    BY <1>1, <2>2 DEF Inners, Pending, RInv, ContentsOK, ContentOK, IsInner
<1>4. h[new] < h[q]
  <2>1. PICK c, s : Mapped(c, s)
    BY DEF MInv
  <2>2. \E i \in DOMAIN tree[q].kids : tree[q].kids[i] = node[t]
    BY <1>1, <1>3, <2>1 DEF Mapped, Seeks, SeeksBelow
  <2> QED
    BY <1>3, <2>2 DEF Levels
<1>5. \A i \in DOMAIN y.kids :
        y.kids[i] = new \/ \E j \in DOMAIN tree[q].kids : y.kids[i] = tree[q].kids[j]
  <2> DEFINE j == LowerBound(tree[q].keys, sep[t].key)
             kids == tree[q].kids
  <2>1. j + 2 \in 1 .. Len(kids) + 1 /\ Len(kids) \in Nat /\ DOMAIN kids = 1 .. Len(kids)
    <3>1. j \in 0 .. Len(tree[q].keys) /\ Len(tree[q].keys) \in Nat
      <4>1. \E c, s : NodeCovers(c, s, q)
        BY <1>3 DEF MInv, Mapped
      <4>2. Sorted(tree[q].keys)
        BY <4>1 DEF NodeCovers
      <4>3. Position(tree[q].keys, sep[t].key, j)
        BY <1>3, <4>2, LowerBoundIsThere
      <4> QED
        BY <1>3, <4>3 DEF Position
    <3> QED
      BY <1>3, <3>1
  <2>2. y.kids = InsertAt(kids, j + 2, new) /\ kids \in Seq(Nodes)
    BY <1>2, <1>3 DEF Linked
  <2> HIDE DEF j, kids
  <2>3. /\ y.kids \in Seq(Nodes) /\ Len(y.kids) = Len(kids) + 1
        /\ \A i \in 1 .. Len(kids) + 1 :
             /\ i < j + 2 => y.kids[i] = kids[i]
             /\ i = j + 2 => y.kids[i] = new
             /\ i > j + 2 => y.kids[i] = kids[i - 1]
    <3>1. kids \in Seq(Nodes) /\ new \in Nodes /\ j + 2 \in 1 .. Len(kids) + 1
      BY <1>3, <2>1, <2>2
    <3>2. y.kids = InsertAt(kids, j + 2, new)
      BY <2>2
    <3>3. HasInserted(Nodes, kids, j + 2, new, y.kids)
      <4> HIDE DEF new
      <4> QED
        BY <3>1, <3>2, InsertAtInserts
    <3> QED
      BY <3>3 DEF HasInserted
  <2>4. ASSUME NEW i \in DOMAIN y.kids
        PROVE  y.kids[i] = new \/ \E a \in DOMAIN kids : y.kids[i] = kids[a]
    <3>1. i \in 1 .. Len(kids) + 1
      BY <2>3
    <3>2. CASE i < j + 2
      <4>1. i \in DOMAIN kids /\ y.kids[i] = kids[i]
        BY <2>1, <2>3, <3>1, <3>2
      <4> QED
        BY <4>1
    <3>3. CASE i > j + 2
      <4>1. i - 1 \in DOMAIN kids /\ y.kids[i] = kids[i - 1]
        BY <2>1, <2>3, <3>1, <3>3
      <4> QED
        BY <4>1
    <3>4. CASE i = j + 2
      BY <2>3, <3>1, <3>4
    <3> QED
      BY <2>1, <3>1, <3>2, <3>3, <3>4
  <2> QED
    BY <2>4 DEF kids
<1>6. Inners' = Inners
  <2>1. y.type = tree[q].type
    BY <1>2 DEF Linked
  <2> QED
    BY <1>1, <1>2, <2>1 DEF Inners, IsInner
<1>7. ASSUME NEW p \in Inners, NEW i \in DOMAIN tree'[p].kids PROVE h[tree'[p].kids[i]] < h[p]
  <2>1. CASE p = q
    <3>1. tree'[p] = y
      BY <1>2, <1>3, <2>1
    <3> QED
      BY <1>3, <1>4, <1>5, <1>7, <2>1, <3>1 DEF Levels
  <2>2. CASE p # q
    <3>1. tree'[p] = tree[p]
      BY <1>2, <2>2 DEF Inners
    <3> QED
      BY <1>7, <3>1 DEF Levels
  <2> QED
    BY <2>1, <2>2
<1>8. ASSUME NEW u \in Threads, Pending(u)' PROVE h[sep'[u].new] = h[node'[u]]
  <2>1. u # t /\ (Begin(t) \/ Step(t))
    BY <1>8, OnlySplitWaits DEF Step, SplitNode, Split, LinkParent, At
  <2>2. Pending(u) /\ node'[u] = node[u] /\ sep'[u] = sep[u]
    BY <1>8, <2>1, OthersWait
  <2> QED
    BY <2>2 DEF Levels
<1> QED
  BY <1>1, <1>6, <1>7, <1>8 DEF Levels

\* The new root is above them all.
LEMMA RootLevels ==
  ASSUME IInv, RInv, NEW h, NEW top, Levels(h, top), NEW t \in Threads, MakeRoot(t)
  PROVE  LevelsInv'
<1> DEFINE n == node[t]
           new == sep[t].new
<1>1. pc[t] = "makeRoot"
  BY RootWrites
<1>2. PICK id : /\ id \notin Nodes /\ Nodes' = Nodes \cup {id} /\ root' = id
                /\ \A m \in Nodes : tree'[m] = tree[m]
                /\ tree'[id] = Inner(<<sep[t].key>>, <<n, new>>)
  BY RootWrites
<1>3. n \in Nodes /\ new \in Nodes
  BY <1>1, WaitingAtNodes DEF Pending
<1>4. PICK g : g = [m \in Nodes' |-> IF m = id THEN top ELSE h[m]]
  OBVIOUS
<1>5. g[id] = top /\ \A m \in Nodes : g[m] = h[m]
  BY <1>2, <1>4
<1>6. /\ top + 1 \in Nat /\ \A m \in Nodes' : g[m] \in Nat /\ g[m] < top + 1
  <2>1. top \in Nat /\ \A m \in Nodes : h[m] \in Nat /\ h[m] < top
    BY DEF Levels
  <2> QED
    BY <1>2, <1>5, <2>1
<1>7. ASSUME NEW p \in Inners', NEW i \in DOMAIN tree'[p].kids
      PROVE  g[tree'[p].kids[i]] < g[p]
  <2>1. CASE p = id
    <3>1. tree'[id].kids = <<n, new>>
      BY <1>2 DEF Inner
    <3>2. tree'[p].kids[i] = n \/ tree'[p].kids[i] = new
      BY <1>7, <2>1, <3>1
    <3> QED
      BY <1>3, <1>5, <2>1, <3>2 DEF Levels
  <2>2. CASE p # id
    <3>1. p \in Inners /\ tree'[p] = tree[p]
      BY <1>2, <1>7, <2>2 DEF Inners, IsInner
    <3>2. tree[p].kids[i] \in Nodes /\ h[tree[p].kids[i]] < h[p] /\ p \in Nodes
      BY <1>7, <3>1, KidsAreNodes DEF Levels, Inners
    <3> QED
      BY <1>5, <3>1, <3>2
  <2> QED
    BY <2>1, <2>2
<1>8. ASSUME NEW u \in Threads, Pending(u)' PROVE g[sep'[u].new] = g[node'[u]]
  <2>1. u # t /\ (Begin(t) \/ Step(t))
    BY <1>8, OnlySplitWaits DEF Step, SplitNode, Split, MakeRoot, At
  <2>2. Pending(u) /\ node'[u] = node[u] /\ sep'[u] = sep[u]
    BY <1>8, <2>1, OthersWait
  <2>3. node[u] \in Nodes /\ sep[u].new \in Nodes
    BY <2>2, WaitingAtNodes
  <2> QED
    BY <1>5, <2>2, <2>3 DEF Levels
<1>9. Levels(g, top + 1)'
  BY <1>6, <1>7, <1>8 DEF Levels
<1> QED
  BY <1>9 DEF LevelsInv

\* At first there is one leaf.
LEMMA InitLevels == Init => LevelsInv
<1> SUFFICES ASSUME Init PROVE LevelsInv
  OBVIOUS
<1>1. tree = <<Leaf(<<>>, <<>>, None)>>
  BY DEF Init
<1>2. Nodes = {1} /\ tree[1].type = "leaf"
  BY <1>1 DEF Nodes, Leaf
<1>3. Inners = {}
  BY <1>2 DEF Inners, IsInner
<1>4. \A t \in Threads : ~Pending(t)
  BY DEF Init, Pending
<1>5. PICK h : h = [n \in {1} |-> 0]
  OBVIOUS
<1>6. h[1] = 0
  BY <1>5
<1>7. Levels(h, 1)
  BY <1>2, <1>3, <1>4, <1>6 DEF Levels
<1> QED
  BY <1>7 DEF LevelsInv

\* Every step keeps the levels.
LEMMA NextLevels == IInv /\ RInv /\ MInv /\ LevelsInv /\ [Next]_vars => LevelsInv'
<1> SUFFICES ASSUME IInv, RInv, MInv, LevelsInv, [Next]_vars PROVE LevelsInv'
  OBVIOUS
<1>1. PICK h, top : Levels(h, top)
  BY DEF LevelsInv
<1>2. CASE UNCHANGED vars
  <2>1. Levels(h, top)'
    BY <1>1, <1>2 DEF vars, path, Levels, Nodes, Inners, IsInner, Pending
  <2> QED
    BY <2>1 DEF LevelsInv
<1>3. ASSUME NEW t \in Threads, Begin(t) \/ Step(t) PROVE LevelsInv'
  <2>1. CASE Split(t)
    BY <1>1, <2>1, SplitLevels
  <2>2. CASE LinkParent(t)
    BY <1>1, <2>2, LinkLevels DEF LevelsInv
  <2>3. CASE MakeRoot(t)
    BY <1>1, <2>3, RootLevels
  <2>4. CASE ~Split(t) /\ ~LinkParent(t) /\ ~MakeRoot(t)
    <3>1. SameLinks(t)
      BY <1>3, <2>4, LinksStay
    <3>2. Levels(h, top)'
      BY <1>1, <1>3, <3>1, LevelsStay
    <3> QED
      BY <3>2 DEF LevelsInv
  <2> QED
    BY <2>1, <2>2, <2>3, <2>4
<1> QED
  BY <1>2, <1>3 DEF Next

\* A node before a walk.
LEMMA Prefixed ==
  ASSUME NEW S, NEW n \in S, NEW w \in Seq(S), w # <<>>
  PROVE  /\ <<n>> \o w \in Seq(S) /\ <<n>> \o w # <<>>
         /\ Last(<<n>> \o w) = Last(w) /\ ToSet(w) \subseteq ToSet(<<n>> \o w)
         /\ n \in ToSet(<<n>> \o w)
<1>1. /\ <<n>> \o w \in Seq(S) /\ Len(<<n>> \o w) = Len(w) + 1
      /\ Len(w) \in Nat /\ Len(w) >= 1
      /\ (<<n>> \o w)[1] = n /\ \A i \in 1 .. Len(w) : (<<n>> \o w)[i + 1] = w[i]
  OBVIOUS
<1> DEFINE v == <<n>> \o w
<1> HIDE DEF v
<1>2. v \in Seq(S) /\ Len(v) = Len(w) + 1 /\ v[1] = n /\ \A i \in 1 .. Len(w) : v[i + 1] = w[i]
  BY <1>1 DEF v
<1>3. DOMAIN v = 1 .. Len(w) + 1 /\ DOMAIN w = 1 .. Len(w)
  BY <1>2
<1>4. Last(v) = Last(w)
  BY <1>1, <1>2 DEF Last
<1>5. ToSet(w) \subseteq ToSet(v)
  <2> SUFFICES ASSUME NEW i \in 1 .. Len(w) PROVE \E j \in DOMAIN v : v[j] = w[i]
    BY <1>3 DEF ToSet
  <2>1. i + 1 \in DOMAIN v
    BY <1>1, <1>3
  <2> QED
    BY <1>2, <2>1
<1>6. n \in ToSet(v)
  BY <1>1, <1>2, <1>3 DEF ToSet
<1>7. v # <<>>
  BY <1>1, <1>2
<1> QED
  BY <1>2, <1>4, <1>5, <1>6, <1>7 DEF v

\* The search goes from an inner node to the child whose keys it seeks.
LEMMA ChildIsKid ==
  ASSUME RInv, NEW n \in Inners, Sorted(tree[n].keys), NEW k \in Keys
  PROVE  \E i \in DOMAIN tree[n].kids :
           ChildFor(n, k) = tree[n].kids[i] /\ Position(tree[n].keys, k, i - 1)
<1> DEFINE j == LowerBound(tree[n].keys, k)
<1>1. /\ tree[n].keys \in Seq(Keys) /\ tree[n].kids \in Seq(Nodes)
      /\ Len(tree[n].kids) = Len(tree[n].keys) + 1
  BY DEF RInv, ContentsOK, ContentOK, Inners, IsInner
<1>2. Position(tree[n].keys, k, j)
  BY <1>1, LowerBoundIsThere
<1>3. ChildFor(n, k) = tree[n].kids[j + 1]
  BY DEF ChildFor
<1>4. j \in 0 .. Len(tree[n].keys)
  BY <1>2 DEF Position
<1> HIDE DEF j
<1>5. j + 1 \in DOMAIN tree[n].kids /\ j + 1 - 1 = j
  BY <1>1, <1>4
<1>6. PICK i : i = j + 1
  OBVIOUS
<1>7. i \in DOMAIN tree[n].kids
  BY <1>5, <1>6
<1>8. ChildFor(n, k) = tree[n].kids[i]
  BY <1>3, <1>6
<1>9. i - 1 = j
  BY <1>4, <1>6
<1>10. Position(tree[n].keys, k, i - 1)
  BY <1>2, <1>9
<1> QED
  BY <1>7, <1>8, <1>10

\* The search path obeys its recursion.
PathsFor(k, g) ==
  g = [n \in Nodes |-> IF IsInner(n) THEN <<n>> \o g[ChildFor(n, k)] ELSE <<n>>]

LEMMA SearchUnfolds ==
  ASSUME RInv, MInv, LevelsInv, NEW k \in Keys
  PROVE  \E g : PathsFor(k, g) /\ SearchPath(k) = g[root]
<1>1. PICK h, top : Levels(h, top)
  BY DEF LevelsInv
<1>2. \A n \in Nodes : Sorted(tree[n].keys)
  BY DEF MInv, Mapped, NodeCovers
<1>3. PICK next : next = [n \in Nodes |-> ChildFor(n, k)]
  OBVIOUS
<1>4. top \in Nat /\ \A n \in Nodes : h[n] \in Nat /\ h[n] < top
  BY <1>1 DEF Levels
<1>5. ASSUME NEW n \in Nodes, n \notin Leaves PROVE next[n] \in Nodes /\ h[next[n]] < h[n]
  <2>1. n \in Inners
    BY <1>5 DEF Leaves, Inners
  <2>2. \E i \in DOMAIN tree[n].kids : next[n] = tree[n].kids[i]
    BY <1>2, <1>3, <1>5, <2>1, ChildIsKid
  <2> QED
    BY <1>1, <2>1, <2>2, KidsAreNodes DEF Levels
<1>6. PICK g : Walk(Nodes, Leaves, next, g)
  BY <1>4, <1>5, WalkIsDefined
<1>7. PathsFor(k, g)
  <2>1. \A n \in Nodes : n \in Leaves <=> ~IsInner(n)
    BY DEF Leaves
  <2>2. [n \in Nodes |-> IF n \in Leaves THEN <<n>> ELSE <<n>> \o g[next[n]]]
        = [n \in Nodes |-> IF IsInner(n) THEN <<n>> \o g[ChildFor(n, k)] ELSE <<n>>]
    BY <1>3, <2>1
  <2> QED
    BY <1>6, <2>2 DEF Walk, PathsFor
<1>8. SearchPath(k) = (CHOOSE f : PathsFor(k, f))[root]
  BY DEF SearchPath, PathsFor
<1>9. PathsFor(k, CHOOSE f : PathsFor(k, f))
  BY <1>7
<1> QED
  BY <1>8, <1>9

\* A path from a node that is sent k meets a locked node, or ends in the leaf
\* where k belongs.
LEMMA PathsEnd ==
  ASSUME IInv, RInv, NEW c, NEW s, Mapped(c, s), LevelsInv, NEW k \in Keys, NEW g, PathsFor(k, g),
         NEW n \in Nodes, k \in s[n]
  PROVE  \/ \E m \in ToSet(g[n]) : IsLocked(tree[m].word)
         \/ Last(g[n]) \in Leaves /\ k \in c[Last(g[n])]
<1> DEFINE Locking1(w) == \E m \in ToSet(w) : IsLocked(tree[m].word)
           Ends(w) == Last(w) \in Leaves /\ k \in c[Last(w)]
           Good(w, m) == /\ w \in Seq(Nodes) /\ w # <<>> /\ m \in ToSet(w)
                         /\ k \in s[m] => Locking1(w) \/ Ends(w)
<1>1. PICK h, top : Levels(h, top)
  BY DEF LevelsInv
<1>2. top \in Nat /\ \A m \in Nodes : h[m] \in Nat /\ h[m] < top
  BY <1>1 DEF Levels
<1> DEFINE T == {j \in Nat : \A m \in Nodes : h[m] < j => Good(g[m], m)}
<1>3. 0 \in T
  BY <1>2
<1>4. ASSUME NEW j \in Nat, j \in T PROVE j + 1 \in T
  <2> SUFFICES ASSUME NEW m \in Nodes, h[m] < j + 1 PROVE Good(g[m], m)
    OBVIOUS
  <2>1. \A q \in Nodes : h[q] < j => Good(g[q], q)
    BY <1>4
  <2> HIDE DEF T
  <2>2. CASE ~IsInner(m)
    <3>1. g[m] = <<m>> /\ m \in Leaves
      BY <2>2 DEF PathsFor, Leaves
    <3>2. <<m>> \in Seq(Nodes) /\ <<m>> # <<>> /\ Last(<<m>>) = m /\ m \in ToSet(<<m>>)
      BY DEF Last, ToSet
    <3>3. IsLocked(tree[m].word) \/ c[m] = s[m]
      BY FreeIsWhole
    <3> HIDE DEF Locking1, Ends
    <3>4. k \in s[m] => Locking1(<<m>>) \/ Ends(<<m>>)
      BY <3>1, <3>2, <3>3 DEF Locking1, Ends
    <3> QED
      BY <3>1, <3>2, <3>4
  <2>3. CASE IsInner(m)
    <3>1. PICK q : q = ChildFor(m, k)
      OBVIOUS
    <3>2. g[m] = <<m>> \o g[q] /\ m \in Inners
      BY <2>3, <3>1 DEF PathsFor, Inners
    <3>3. PICK i \in DOMAIN tree[m].kids : q = tree[m].kids[i] /\ Position(tree[m].keys, k, i - 1)
      <4>1. Sorted(tree[m].keys)
        BY DEF Mapped, NodeCovers
      <4> QED
        BY <3>1, <3>2, <4>1, ChildIsKid
    <3>4. q \in Nodes /\ h[q] < h[m]
      BY <1>1, <3>2, <3>3, KidsAreNodes DEF Levels
    <3>5. Good(g[q], q)
      BY <1>2, <2>1, <3>4
    <3>6. /\ <<m>> \o g[q] \in Seq(Nodes) /\ <<m>> \o g[q] # <<>>
          /\ Last(<<m>> \o g[q]) = Last(g[q]) /\ ToSet(g[q]) \subseteq ToSet(<<m>> \o g[q])
          /\ m \in ToSet(<<m>> \o g[q])
      <4>1. g[q] \in Seq(Nodes) /\ g[q] # <<>>
        BY <3>5
      <4> QED
        BY <4>1, Prefixed
    <3>7. IsLocked(tree[m].word) \/ c[m] = s[m]
      BY FreeIsWhole
    <3>8. Routes(c, s, m)
      BY <3>2 DEF Mapped
    <3>9. k \in s[m] => IsLocked(tree[m].word) \/ k \in s[q]
      BY <3>3, <3>7, <3>8 DEF Routes
    <3>10. k \in s[m] => Locking1(g[m]) \/ Ends(g[m])
      <4>1. IsLocked(tree[m].word) => Locking1(g[m])
        BY <3>2, <3>6
      <4>2. Locking1(g[q]) => Locking1(g[m])
        BY <3>2, <3>6
      <4>3. Ends(g[q]) => Ends(g[m])
        BY <3>2, <3>6
      <4>4. k \in s[q] => Locking1(g[q]) \/ Ends(g[q])
        BY <3>5
      <4> QED
        BY <3>9, <4>1, <4>2, <4>3, <4>4
    <3> QED
      BY <3>2, <3>6, <3>10
  <2> QED
    BY <2>2, <2>3
<1>5. \A j \in Nat : j \in T
  <2> HIDE DEF T
  <2> QED
    BY <1>3, <1>4, Induction
<1>6. Good(g[n], n)
  BY <1>2, <1>5
<1> QED
  BY <1>6

\* The invariant of the search: a stored key is found, or a lock is met.
LEMMA SearchIsThere == IInv /\ RInv /\ MInv /\ LevelsInv => SearchFindsEveryKey
<1> SUFFICES ASSUME IInv, RInv, MInv, LevelsInv, NEW n \in Leaves, NEW k \in ToSet(tree[n].keys)
             PROVE  \/ Last(SearchPath(k)) = n
                    \/ \E m \in ToSet(SearchPath(k)) : IsLocked(tree[m].word)
  BY DEF SearchFindsEveryKey
<1>1. PICK c, s : Mapped(c, s)
  BY DEF MInv
<1>2. n \in Nodes /\ k \in c[n] /\ k \in Keys
  <2>1. NodeCovers(c, s, n) /\ n \in Nodes
    BY <1>1 DEF Mapped, Leaves
  <2> QED
    BY <2>1 DEF NodeCovers, ToSet
<1>3. PICK g : PathsFor(k, g) /\ SearchPath(k) = g[root]
  BY <1>2, SearchUnfolds
<1>4. root \in Nodes /\ k \in s[root]
  BY <1>1, <1>2 DEF IInv, TreeOK, Mapped
<1>5. \/ \E m \in ToSet(g[root]) : IsLocked(tree[m].word)
      \/ Last(g[root]) \in Leaves /\ k \in c[Last(g[root])]
  BY <1>1, <1>2, <1>3, <1>4, PathsEnd
<1>6. Last(g[root]) \in Leaves /\ k \in c[Last(g[root])] => Last(g[root]) = n
  BY <1>1, <1>2 DEF Mapped, LeavesApart
<1> QED
  BY <1>3, <1>5, <1>6

\* A key that is stored is found by searching for it, except below a node that
\* is locked: whatever is split or inserted meanwhile, no search of a tree at
\* rest misses a key, and the recursion it follows is well founded
\* (BTreeOLC.h:298-475).
THEOREM SearchFindsAll == Spec => []SearchFindsEveryKey
<1>1. Spec => [](IInv /\ RInv /\ MInv)
  BY AllHold
<1>2. Init => LevelsInv
  BY InitLevels
<1>3. IInv /\ RInv /\ MInv /\ LevelsInv /\ [Next]_vars => LevelsInv'
  BY NextLevels
<1>4. IInv /\ RInv /\ MInv /\ LevelsInv => SearchFindsEveryKey
  BY SearchIsThere
<1> QED
  BY <1>1, <1>2, <1>3, <1>4, PTL DEF Spec

-----------------------------------------------------------------------------
(* The chain of the leaves.                                                *)

\* The leaves are the len places of the chain, in the order of their keys.  The
\* inner nodes are on no chain.
InChain(c, len, ch) ==
  /\ len \in Nat /\ 1 <= len
  /\ \A i \in 1 .. len : ch[i] \in Leaves
  /\ ch[1] = firstLeaf
  /\ \A n \in Leaves : \E i \in 1 .. len : ch[i] = n
  /\ \A i, j \in 1 .. len : ch[i] = ch[j] => i = j
  /\ \A i \in 1 .. len : tree[ch[i]].next = IF i = len THEN None ELSE ch[i + 1]
  /\ \A i, j \in 1 .. len : i < j => \A k \in c[ch[i]], l \in c[ch[j]] : k < l
  /\ \A n \in Inners : tree[n].next = None

\* The invariant of the chain: it follows what belongs to the leaves.
ChainInv == \E c, s, len, ch : Mapped(c, s) /\ InChain(c, len, ch)

\* A step that changes no leaf and none of their links leaves the chain.
LEMMA ChainStays ==
  ASSUME NEW c, NEW d, NEW len, NEW ch, InChain(c, len, ch), firstLeaf' = firstLeaf,
         \A n : n \in Leaves' <=> n \in Leaves,
         \A n \in Leaves : tree'[n].next = tree[n].next /\ d[n] = c[n],
         \A n \in Inners' : tree'[n].next = None
  PROVE  InChain(d, len, ch)'
<1>1. \A i \in 1 .. len : ch[i] \in Leaves
  BY DEF InChain
<1>2. \A i \in 1 .. len : tree'[ch[i]].next = tree[ch[i]].next /\ d[ch[i]] = c[ch[i]]
  BY <1>1
<1>3. ch[1] = firstLeaf' /\ \A i \in 1 .. len : ch[i] \in Leaves'
  BY <1>1 DEF InChain
<1>4. \A n \in Leaves' : \E i \in 1 .. len : ch[i] = n
  BY DEF InChain
<1>5. \A i \in 1 .. len : tree'[ch[i]].next = IF i = len THEN None ELSE ch[i + 1]
  BY <1>2 DEF InChain
<1>6. \A i, j \in 1 .. len : i < j => \A k \in d[ch[i]], l \in d[ch[j]] : k < l
  BY <1>2 DEF InChain
<1> QED
  BY <1>3, <1>4, <1>5, <1>6 DEF InChain

\* The first leaf stays the first one.
LEMMA FirstStays ==
  ASSUME NEW t \in Threads, Begin(t) \/ Step(t)
  PROVE  firstLeaf' = firstLeaf
BY DEF Begin, Step, Descend, SplitNode, Insert, Lookup, ReadRoot, LockRoot, CheckRoot, Visit,
   CheckParent, ReadChild, CheckChild, LockChild, LockParent, LockSplit, RecheckRoot, Split,
   LinkParent, MakeRoot, UnlockNode, UnlockParent, LockLeaf, LeafParent, AbandonLeaf,
   InsertIntoLeaf, ReturnInsert, ReadLeaf, LookupParent, LookupLeaf, ReturnLookup, shape

\* Most steps leave the links and what belongs to the nodes.
LEMMA OthersChain ==
  ASSUME IInv, RInv, NEW c, NEW s, Mapped(c, s), NEW len, NEW ch, InChain(c, len, ch),
         NEW t \in Threads, Begin(t) \/ Step(t), ~Split(t), ~LinkParent(t), ~MakeRoot(t)
  PROVE  ChainInv'
<1>1. Mapped(c, s)'
  <2>1. CASE Begin(t) \/ ReturnLookup(t)
    BY <2>1, CallSeeks
  <2>2. CASE ReadRoot(t) \/ LockRoot(t) \/ CheckRoot(t)
    BY <2>2, ToRootSeeks
  <2>3. CASE Visit(t)
    BY <2>3, VisitSeeks
  <2>4. CASE ReadChild(t)
    BY <2>4, ReadChildSeeks
  <2>5. CASE LockChild(t)
    BY <2>5, LockChildSeeks
  <2>6. CASE \/ CheckParent(t) \/ CheckChild(t) \/ RecheckRoot(t) \/ LeafParent(t)
             \/ ReadLeaf(t) \/ LookupParent(t) \/ LookupLeaf(t)
    BY <2>6, TestSeeks
  <2>7. CASE LockParent(t)
    BY <2>7, LockParentSeeks
  <2>8. CASE LockSplit(t)
    BY <2>8, LockSplitSeeks
  <2>9. CASE LockLeaf(t)
    BY <2>9, LockLeafSeeks
  <2>10. CASE UnlockNode(t) \/ UnlockParent(t) \/ AbandonLeaf(t) \/ ReturnInsert(t)
    BY <2>10, UnlockSeeks
  <2>11. CASE InsertIntoLeaf(t)
    BY <2>11, InsertSeeks
  <2> QED
    BY <2>1, <2>2, <2>3, <2>4, <2>5, <2>6, <2>7, <2>8, <2>9, <2>10, <2>11
    DEF Step, Descend, SplitNode, Insert, Lookup
<1>2. SameLinks(t) /\ firstLeaf' = firstLeaf
  <2>1. MInv
    BY DEF MInv
  <2> QED
    BY <2>1, LinksStay, FirstStays
<1>3. /\ \A n : n \in Leaves' <=> n \in Leaves
      /\ \A n : n \in Inners' <=> n \in Inners
      /\ \A n \in Leaves : tree'[n].next = tree[n].next
      /\ \A n \in Inners : tree'[n].next = tree[n].next
  BY <1>2 DEF SameLinks, Leaves, Inners, IsInner
<1>4. InChain(c, len, ch)'
  <2>1. \A n \in Inners' : tree'[n].next = None
    BY <1>3 DEF InChain
  <2> QED
    BY <1>2, <1>3, <2>1, ChainStays
<1> QED
  BY <1>1, <1>4 DEF ChainInv

\* The link of a half changes inner nodes only.
LEMMA LinkChain ==
  ASSUME IInv, RInv, NEW c, NEW s, Mapped(c, s), NEW len, NEW ch, InChain(c, len, ch),
         NEW t \in Threads, LinkParent(t) \/ MakeRoot(t)
  PROVE  ChainInv'
<1>1. CASE LinkParent(t)
  <2>1. PICK y : /\ Linked(tree[parent[t]], y, sep[t].key, sep[t].new)
                 /\ \A m \in Nodes : tree'[m] = IF m = parent[t] THEN y ELSE tree[m]
    BY <1>1, LinkWrites
  <2>2. Nodes' = Nodes /\ firstLeaf' = firstLeaf
    BY <1>1, LinkWrites
  <2>3. PICK p : p = parent[t]
    OBVIOUS
  <2>4. y.type = tree[p].type /\ y.next = tree[p].next
    BY <2>1, <2>3 DEF Linked
  <2>5. \A m \in Nodes : tree'[m].type = tree[m].type /\ tree'[m].next = tree[m].next
    BY <2>1, <2>3, <2>4
  <2>6. /\ \A n : n \in Leaves' <=> n \in Leaves
        /\ \A n : n \in Inners' <=> n \in Inners
        /\ \A n \in Leaves : tree'[n].next = tree[n].next
        /\ \A n \in Inners : tree'[n].next = tree[n].next
    BY <2>2, <2>5 DEF Leaves, Inners, IsInner
  <2>7. PICK z : Mapped(c, z)'
    BY <1>1, LinkSeeks
  <2>8. InChain(c, len, ch)'
    <3>1. \A n \in Inners' : tree'[n].next = None
      BY <2>6 DEF InChain
    <3> QED
      BY <2>2, <2>6, <3>1, ChainStays
  <2> QED
    BY <2>7, <2>8 DEF ChainInv
<1>2. CASE MakeRoot(t)
  <2>1. firstLeaf' = firstLeaf
    BY <1>2, RootWrites
  <2>2. PICK id : /\ id \notin Nodes /\ Nodes' = Nodes \cup {id}
                  /\ \A m \in Nodes : tree'[m] = tree[m]
                  /\ tree'[id] = Inner(<<sep[t].key>>, <<node[t], sep[t].new>>)
    BY <1>2, RootWrites
  <2>3. tree'[id].type = "inner" /\ tree'[id].next = None
    BY <2>2 DEF Inner
  <2>4. /\ \A n : n \in Leaves' <=> n \in Leaves
        /\ \A n \in Leaves : tree'[n].next = tree[n].next /\ n \in Nodes
        /\ \A n \in Inners' : n \in Inners \/ n = id
        /\ \A n \in Inners : tree'[n].next = tree[n].next
    BY <2>2, <2>3 DEF Leaves, Inners, IsInner
  <2>5. PICK d, z : Mapped(d, z)' /\ \A m \in Nodes : d[m] = c[m]
    BY <1>2, MakeRootSeeks
  <2>6. InChain(d, len, ch)'
    <3>1. \A n \in Inners' : tree'[n].next = None
      BY <2>3, <2>4 DEF InChain
    <3> QED
      BY <2>1, <2>4, <2>5, <3>1, ChainStays
  <2> QED
    BY <2>5, <2>6 DEF ChainInv
<1> QED
  BY <1>1, <1>2

\* The new half of a leaf comes behind it in the chain, and its keys lie between
\* those of the leaf and of the next one.
LEMMA SplitChain ==
  ASSUME IInv, RInv, NEW c, NEW s, Mapped(c, s), NEW len, NEW ch, InChain(c, len, ch),
         NEW t \in Threads, Split(t)
  PROVE  ChainInv'
<1> DEFINE n == node[t]
<1>1. n \in Nodes /\ Sorted(tree[n].keys) /\ pc[t] = "split" /\ Holds(t, n)
  BY DEF IInv, ThreadOK, AtNode, Split, At, Mapped, NodeCovers, Holds
<1>2. PICK l, r, e, id : SplitsInto(t, l, r, e, id)
  BY <1>1, SplitWrites
<1>3. /\ id \notin Nodes /\ Nodes' = Nodes \cup {id} /\ tree'[id] = r
      /\ \A m \in Nodes : tree'[m] = IF m = n THEN l ELSE tree[m]
      /\ l.type = tree[n].type /\ sep'[t].key = e /\ sep'[t].new = id
      /\ firstLeaf' = firstLeaf /\ node'[t] = n
  BY <1>1, <1>2, SplitWrites DEF SplitsInto, path
<1>4. PICK d, z : /\ Mapped(d, z)'
                  /\ \A m \in Nodes : z[m] = s[m] /\ (m # n => d[m] = c[m])
  BY SplitSeeks
<1>5. CASE IsInner(n)
  <2>1. r.type = "inner" /\ l.next = tree[n].next /\ r.next = None
    BY <1>2, <1>5 DEF SplitsInto
  <2>2. /\ \A m : m \in Leaves' <=> m \in Leaves
        /\ \A m \in Leaves : tree'[m].next = tree[m].next /\ m \in Nodes /\ m # n
        /\ \A m \in Inners' : m \in Inners \/ m = id
        /\ \A m \in Inners : tree'[m].next = tree[m].next
    BY <1>1, <1>3, <1>5, <2>1 DEF Leaves, Inners, IsInner
  <2>3. InChain(d, len, ch)'
    <3>1. \A m \in Inners' : tree'[m].next = None
      BY <1>3, <2>1, <2>2 DEF InChain
    <3> QED
      BY <1>3, <1>4, <2>2, <3>1, ChainStays
  <2> QED
    BY <1>4, <2>3 DEF ChainInv
<1>6. CASE ~IsInner(n)
  <2>1. r.type = "leaf" /\ l.next = id /\ r.next = tree[n].next /\ n \in Leaves
    BY <1>1, <1>2, <1>6 DEF SplitsInto, Leaves
  <2>2. /\ \A m : m \in Leaves' <=> m \in Leaves \/ m = id
        /\ \A m \in Leaves : m # id /\ (m # n => tree'[m].next = tree[m].next)
        /\ tree'[n].next = id /\ tree'[id].next = tree[n].next
        /\ \A m : m \in Inners' => m \in Inners
        /\ \A m \in Inners : tree'[m].next = tree[m].next
    BY <1>1, <1>3, <1>6, <2>1 DEF Leaves, Inners, IsInner
  <2>3. Pending(t)'
    <3>1. PICK p \in {"linkParent", "makeRoot"} : Goto(t, p) /\ UNCHANGED path
      BY <1>1, SplitWrites
    <3>2. pc'[t] = p
      BY <3>1, GotoMoves
    <3> QED
      BY <3>2 DEF Pending
  <2>4. /\ z[n] = c[n]
        /\ \A k \in d[n] : k \in Keys /\ k \in c[n] /\ k <= e
        /\ \A k \in d[id] : k \in Keys /\ k \in c[n] /\ e < k
        /\ e \in Keys
    <3>1. c[n] = s[n]
      BY <1>1, FreeIsWhole DEF Pending
    <3>2. Shares(d, z, n, e, id)'
      <4>1. Halved(d, z, t)'
        BY <1>4 DEF Mapped
      <4>2. Shares(d, z, node[t], sep[t].key, sep[t].new)'
        BY <2>3, <4>1 DEF Halved
      <4> QED
        BY <1>3, <4>2 DEF Shares
    <3>3. d[n] \subseteq Keys /\ d[id] \subseteq Keys /\ z[n] \subseteq Keys
      <4>1. n \in Nodes' /\ id \in Nodes'
        BY <1>1, <1>3
      <4>2. \A m \in Nodes' : d[m] \subseteq Keys /\ z[m] \subseteq Keys
        BY <1>4 DEF Mapped, NodeCovers
      <4> QED
        BY <4>1, <4>2
    <3> QED
      BY <1>1, <1>3, <1>4, <3>1, <3>2, <3>3 DEF Shares
  <2>5. PICK q \in 1 .. len : ch[q] = n
    BY <2>1 DEF InChain
  <2>6. PICK dh : dh = [i \in 1 .. len + 1 |-> IF i <= q THEN ch[i] ELSE
                                                 IF i = q + 1 THEN id ELSE ch[i - 1]]
    OBVIOUS
  <2>7. len \in Nat /\ q \in 1 .. len /\ id \notin Leaves
    BY <1>3 DEF InChain, Leaves
  <2>8. /\ \A i \in 1 .. len + 1 : i <= q => i \in 1 .. len /\ dh[i] = ch[i]
        /\ dh[q + 1] = id /\ q + 1 \in 1 .. len + 1
        /\ \A i \in 1 .. len + 1 : i > q + 1 => i - 1 \in 1 .. len /\ dh[i] = ch[i - 1]
    BY <2>6, <2>7
  <2>9. \A i \in 1 .. len : /\ i <= q => i \in 1 .. len + 1 /\ dh[i] = ch[i]
                            /\ i > q => i + 1 \in 1 .. len + 1 /\ dh[i + 1] = ch[i]
    BY <2>6, <2>7
  <2>10. \A i \in 1 .. len : ch[i] \in Leaves /\ (ch[i] = n => i = q)
    BY <2>5 DEF InChain
  <2>11. len + 1 \in Nat /\ 1 <= len + 1 /\ 1 <= len /\ dh[1] = firstLeaf'
    BY <1>3, <2>7, <2>8 DEF InChain
  <2>12. \A i \in 1 .. len + 1 : dh[i] \in Leaves'
    BY <2>2, <2>7, <2>8, <2>10
  <2>13. ASSUME NEW m \in Leaves' PROVE \E i \in 1 .. len + 1 : dh[i] = m
    <3>1. CASE m = id
      BY <2>8, <3>1
    <3>2. CASE m # id
      <4>1. PICK i \in 1 .. len : ch[i] = m
        BY <2>2, <3>2 DEF InChain
      <4> QED
        BY <2>7, <2>9, <4>1
    <3> QED
      BY <3>1, <3>2
  <2>14. ASSUME NEW i \in 1 .. len + 1, NEW j \in 1 .. len + 1, i < j
         PROVE  /\ dh[i] # dh[j]
                /\ \A k \in d[dh[i]], m \in d[dh[j]] : k < m
    <3>1. PICK a \in 1 .. len : /\ a = (IF i <= q THEN i ELSE i - 1)
                                /\ dh[i] = ch[a] \/ (a = q /\ i = q + 1 /\ dh[i] = id)
      BY <2>7, <2>8
    <3>2. PICK b \in 1 .. len : /\ b = (IF j <= q THEN j ELSE j - 1)
                                /\ dh[j] = ch[b] \/ (b = q /\ j = q + 1 /\ dh[j] = id)
      BY <2>7, <2>8
    <3>3. /\ \A h \in 1 .. len : \A k : k \in d[ch[h]] => k \in c[ch[h]]
          /\ \A k : k \in d[id] => k \in c[ch[q]]
      <4>1. \A m \in Leaves : \A k : k \in d[m] => k \in c[m]
        BY <1>4, <2>4 DEF Leaves
      <4> QED
        BY <2>4, <2>5, <2>10, <4>1
    <3>4. (\A k \in d[dh[i]] : k \in c[ch[a]]) /\ (\A m \in d[dh[j]] : m \in c[ch[b]])
      <4>1. \A k \in d[dh[i]] : k \in c[ch[a]]
        <5>1. CASE dh[i] = ch[a]
          BY <3>1, <3>3, <5>1
        <5>2. CASE a = q /\ dh[i] = id
          BY <3>1, <3>3, <5>2
        <5> QED
          BY <3>1, <5>1, <5>2
      <4>2. \A m \in d[dh[j]] : m \in c[ch[b]]
        <5>1. CASE dh[j] = ch[b]
          BY <3>2, <3>3, <5>1
        <5>2. CASE b = q /\ dh[j] = id
          BY <3>2, <3>3, <5>2
        <5> QED
          BY <3>2, <5>1, <5>2
      <4> QED
        BY <4>1, <4>2
    <3>5. CASE a < b
      <4>1. ch[a] # ch[b] /\ \A k \in c[ch[a]], m \in c[ch[b]] : k < m
        BY <3>5 DEF InChain
      <4>2. dh[i] # dh[j]
        <5>1. ch[a] # id /\ ch[b] # id
          BY <2>7, <2>10
        <5>2. ~(i = q + 1 /\ j = q + 1)
          BY <2>14
        <5> QED
          BY <3>1, <3>2, <4>1, <5>1, <5>2
      <4> QED
        BY <3>4, <4>1, <4>2
    <3>6. CASE ~(a < b)
      <4>1. i = q /\ j = q + 1
        BY <2>7, <2>14, <3>1, <3>2, <3>6
      <4>2. dh[i] = n /\ dh[j] = id /\ n # id
        BY <1>1, <1>3, <2>5, <2>8, <4>1
      <4>3. \A k \in d[n], m \in d[id] : k < m
        <5>1. \A k \in Keys : k \in Nat
          BY KeyAssumption
        <5> QED
          BY <2>4, <5>1
      <4> QED
        BY <4>2, <4>3
    <3> QED
      BY <3>5, <3>6
  <2>15. ASSUME NEW i \in 1 .. len + 1
         PROVE  tree'[dh[i]].next = IF i = len + 1 THEN None ELSE dh[i + 1]
    <3>1. CASE i < q
      <4>1. i \in 1 .. len /\ i # len /\ i + 1 <= q /\ i + 1 \in 1 .. len /\ i # q /\ i # len + 1
        BY <2>7, <3>1
      <4>2. dh[i] = ch[i] /\ dh[i + 1] = ch[i + 1] /\ ch[i] \in Leaves /\ ch[i] # n
        BY <2>9, <2>10, <3>1, <4>1
      <4>3. tree'[ch[i]].next = tree[ch[i]].next
        BY <2>2, <4>2
      <4>4. tree[ch[i]].next = ch[i + 1]
        BY <4>1 DEF InChain
      <4> QED
        BY <4>1, <4>2, <4>3, <4>4
    <3>2. CASE i = q
      <4>1. dh[i] = n /\ i # len + 1 /\ dh[i + 1] = id
        BY <2>5, <2>7, <2>8, <3>2
      <4> QED
        BY <2>2, <4>1
    <3>3. CASE i = q + 1
      <4>1. tree'[dh[i]].next = tree[ch[q]].next
        BY <2>2, <2>5, <2>8, <3>3
      <4>2. tree[ch[q]].next = IF q = len THEN None ELSE ch[q + 1]
        BY DEF InChain
      <4>3. q # len => q + 1 \in 1 .. len /\ q + 1 > q /\ q + 1 + 1 = i + 1
        BY <2>7, <3>3
      <4>4. q # len => dh[i + 1] = ch[q + 1]
        BY <2>9, <4>3
      <4>5. q = len <=> i = len + 1
        BY <2>7, <3>3
      <4> QED
        BY <4>1, <4>2, <4>4, <4>5
    <3>4. CASE i > q + 1
      <4>1. /\ i - 1 \in 1 .. len /\ i - 1 # q /\ i - 1 + 1 = i
            /\ i # len + 1 => i \in 1 .. len /\ i > q
            /\ i - 1 = len <=> i = len + 1
        BY <2>7, <3>4
      <4>2. dh[i] = ch[i - 1] /\ ch[i - 1] \in Leaves /\ ch[i - 1] # n
        BY <2>8, <2>10, <3>4, <4>1
      <4>3. tree'[ch[i - 1]].next = tree[ch[i - 1]].next
        BY <2>2, <4>2
      <4>4. tree[ch[i - 1]].next = IF i - 1 = len THEN None ELSE ch[i - 1 + 1]
        BY <4>1 DEF InChain
      <4>5. i # len + 1 => dh[i + 1] = ch[i]
        BY <2>9, <4>1
      <4> QED
        BY <4>1, <4>2, <4>3, <4>4, <4>5
    <3> QED
      BY <2>7, <3>1, <3>2, <3>3, <3>4
  <2>16. \A i, j \in 1 .. len + 1 : dh[i] = dh[j] => i = j
    BY <2>7, <2>14
  <2>17. \A m \in Inners' : tree'[m].next = None
    BY <2>2 DEF InChain
  <2>18. InChain(d, len + 1, dh)'
    BY <2>11, <2>12, <2>13, <2>14, <2>15, <2>16, <2>17 DEF InChain
  <2> QED
    BY <1>4, <2>18 DEF ChainInv
<1> QED
  BY <1>5, <1>6
\* At first the chain is the one leaf.
LEMMA InitChain == Init => ChainInv
<1> SUFFICES ASSUME Init PROVE ChainInv
  OBVIOUS
<1>1. PICK c, s : Mapped(c, s)
  BY InitMInv DEF MInv
<1>2. tree = <<Leaf(<<>>, <<>>, None)>> /\ firstLeaf = 1
  BY DEF Init
<1>3. Nodes = {1} /\ tree[1].type = "leaf" /\ tree[1].next = None
  BY <1>2 DEF Nodes, Leaf
<1>4. Leaves = {1} /\ Inners = {}
  BY <1>3 DEF Leaves, Inners, IsInner
<1>5. PICK ch : ch = [i \in {1} |-> 1]
  OBVIOUS
<1>6. ch[1] = 1 /\ \A i \in 1 .. 1 : i = 1
  BY <1>5
<1>7. InChain(c, 1, ch)
  BY <1>2, <1>3, <1>4, <1>6 DEF InChain
<1> QED
  BY <1>1, <1>7 DEF ChainInv

\* Every step keeps the chain.
LEMMA NextChains == IInv /\ RInv /\ ChainInv /\ [Next]_vars => ChainInv'
<1> SUFFICES ASSUME IInv, RInv, ChainInv, [Next]_vars PROVE ChainInv'
  OBVIOUS
<1>1. PICK c, s, len, ch : Mapped(c, s) /\ InChain(c, len, ch)
  BY DEF ChainInv
<1>2. CASE UNCHANGED vars
  <2>1. Mapped(c, s)'
    BY <1>1, <1>2 DEF vars, shape, path, workload, Mapped, NodeCovers, LeavesApart, Routes,
       OneParent, IsKid, Halved, Shares, HalvesApart, Seeks, SeeksBelow, SeeksHere, Arrived,
       Pending, Nodes, Inners, Leaves, IsInner, Intact, ChildFor, ValueIn
  <2>2. InChain(c, len, ch)'
    BY <1>1, <1>2 DEF vars, shape, InChain, Nodes, Inners, Leaves, IsInner
  <2> QED
    BY <2>1, <2>2 DEF ChainInv
<1>3. ASSUME NEW t \in Threads, Begin(t) \/ Step(t) PROVE ChainInv'
  <2>1. CASE Split(t)
    BY <1>1, <2>1, SplitChain
  <2>2. CASE LinkParent(t) \/ MakeRoot(t)
    BY <1>1, <2>2, LinkChain
  <2>3. CASE ~Split(t) /\ ~LinkParent(t) /\ ~MakeRoot(t)
    BY <1>1, <1>3, <2>3, OthersChain
  <2> QED
    BY <2>1, <2>2, <2>3
<1> QED
  BY <1>2, <1>3 DEF Next

-----------------------------------------------------------------------------
(* The walk along the chain, and the keys it meets.                        *)

\* A node, and the walk behind it.
LEMMA PrefixedAt ==
  ASSUME NEW S, NEW n \in S, NEW w \in Seq(S)
  PROVE  /\ <<n>> \o w \in Seq(S) /\ Len(<<n>> \o w) = Len(w) + 1
         /\ \A i \in 1 .. Len(w) + 1 : (<<n>> \o w)[i] = IF i = 1 THEN n ELSE w[i - 1]
OBVIOUS

\* The chain obeys its recursion.
ChainWalk(g) ==
  g = [n \in Nodes |-> IF tree[n].next = None THEN <<n>> ELSE <<n>> \o g[tree[n].next]]

LEMMA ChainUnfolds ==
  ASSUME NEW c, NEW len, NEW ch, InChain(c, len, ch)
  PROVE  ChainWalk(ChainFrom)
<1>1. PICK pos : pos = [n \in Leaves |-> CHOOSE i \in 1 .. len : ch[i] = n]
  OBVIOUS
<1>2. \A n \in Leaves : pos[n] \in 1 .. len /\ ch[pos[n]] = n
  <2> SUFFICES ASSUME NEW n \in Leaves PROVE pos[n] \in 1 .. len /\ ch[pos[n]] = n
    OBVIOUS
  <2>1. \E i \in 1 .. len : ch[i] = n
    BY DEF InChain
  <2>2. pos[n] = CHOOSE i \in 1 .. len : ch[i] = n
    BY <1>1
  <2> QED
    BY <2>1, <2>2
<1>3. len \in Nat /\ 1 <= len
  BY DEF InChain
<1>4. \A i \in 1 .. len : ch[i] \in Leaves /\ pos[ch[i]] = i
  BY <1>2 DEF InChain
<1>5. PICK rank : rank = [n \in Nodes |-> IF n \in Leaves THEN len - pos[n] ELSE 0]
  OBVIOUS
<1>6. PICK next : next = [n \in Nodes |-> tree[n].next]
  OBVIOUS
<1>7. PICK Ends : Ends = {n \in Nodes : tree[n].next = None}
  OBVIOUS
<1>8. \A n \in Nodes : rank[n] \in Nat /\ rank[n] < len
  BY <1>2, <1>3, <1>5
<1>9. ASSUME NEW n \in Nodes, n \notin Ends PROVE next[n] \in Nodes /\ rank[next[n]] < rank[n]
  <2>1. n \in Leaves
    BY <1>7, <1>9 DEF InChain, Leaves, Inners
  <2>2. PICK i : i = pos[n]
    OBVIOUS
  <2>3. i \in 1 .. len /\ ch[i] = n
    BY <1>2, <2>1, <2>2
  <2>4. i # len /\ tree[n].next = ch[i + 1]
    BY <1>7, <1>9, <2>3 DEF InChain
  <2>5. i + 1 \in 1 .. len
    BY <1>3, <2>3, <2>4
  <2>6. next[n] \in Leaves /\ pos[next[n]] = i + 1
    BY <1>4, <1>6, <2>4, <2>5
  <2>7. rank[n] = len - i /\ rank[next[n]] = len - (i + 1)
    BY <1>5, <2>1, <2>2, <2>6 DEF Leaves
  <2> QED
    BY <1>3, <2>3, <2>6, <2>7 DEF Leaves
<1>10. PICK g : Walk(Nodes, Ends, next, g)
  BY <1>3, <1>8, <1>9, WalkIsDefined
<1>11. ChainWalk(g)
  <2>1. [n \in Nodes |-> IF n \in Ends THEN <<n>> ELSE <<n>> \o g[next[n]]]
        = [n \in Nodes |-> IF tree[n].next = None THEN <<n>> ELSE <<n>> \o g[tree[n].next]]
    BY <1>6, <1>7
  <2> QED
    BY <1>10, <2>1 DEF Walk, ChainWalk
<1>12. ChainFrom = CHOOSE f : ChainWalk(f)
  BY DEF ChainFrom, ChainWalk
<1> QED
  BY <1>11, <1>12

\* The walk from first_leaf is the chain.
LEMMA ChainIsWalked ==
  ASSUME IInv, NEW c, NEW len, NEW ch, InChain(c, len, ch)
  PROVE  /\ Chain \in Seq(Leaves) /\ Len(Chain) = len
         /\ \A i \in 1 .. len : Chain[i] = ch[i]
<1> DEFINE IsTail(w, i) == /\ w \in Seq(Leaves) /\ Len(w) = len - i + 1
                           /\ \A h \in 1 .. len - i + 1 : w[h] = ch[i + h - 1]
           T == {j \in Nat : \A i \in 1 .. len : len - i = j => IsTail(ChainFrom[ch[i]], i)}
<1>1. len \in Nat /\ 1 <= len
  BY DEF InChain
<1>2. ChainWalk(ChainFrom)
  BY ChainUnfolds
<1>3. \A n \in Nodes : ChainFrom[n] = IF tree[n].next = None
                                      THEN <<n>> ELSE <<n>> \o ChainFrom[tree[n].next]
  BY <1>2 DEF ChainWalk
<1>4. \A i \in 1 .. len : ch[i] \in Leaves /\ ch[i] \in Nodes
  BY DEF InChain, Leaves
<1>5. 0 \in T
  <2> SUFFICES ASSUME NEW i \in 1 .. len, len - i = 0 PROVE IsTail(ChainFrom[ch[i]], i)
    OBVIOUS
  <2>1. i = len
    BY <1>1
  <2>2. tree[ch[i]].next = None
    BY <2>1 DEF InChain
  <2>3. ChainFrom[ch[i]] = <<ch[i]>>
    BY <1>3, <1>4, <2>2
  <2>4. len - i + 1 = 1 /\ \A h \in 1 .. 1 : h = 1 /\ i + h - 1 = i
    BY <1>1
  <2> QED
    BY <1>4, <2>3, <2>4
<1>6. ASSUME NEW j \in Nat, j \in T PROVE j + 1 \in T
  <2> SUFFICES ASSUME NEW i \in 1 .. len, len - i = j + 1 PROVE IsTail(ChainFrom[ch[i]], i)
    OBVIOUS
  <2>1. i # len /\ i + 1 \in 1 .. len /\ len - (i + 1) = j
    BY <1>1
  <2>2. IsTail(ChainFrom[ch[i + 1]], i + 1)
    BY <1>6, <2>1
  <2>3. PICK w : w = ChainFrom[ch[i + 1]]
    OBVIOUS
  <2>4. /\ w \in Seq(Leaves) /\ Len(w) = len - i
        /\ \A h \in 1 .. len - i : w[h] = ch[i + h]
    <3>1. len - (i + 1) + 1 = len - i /\ \A h \in 1 .. len - i : i + 1 + h - 1 = i + h
      BY <1>1
    <3> QED
      BY <2>2, <2>3, <3>1
  <2>5. tree[ch[i]].next = ch[i + 1] /\ ch[i + 1] # None
    <3>1. tree[ch[i]].next = ch[i + 1]
      BY <2>1 DEF InChain
    <3>2. ch[i + 1] # None
      BY <1>4, <2>1, NodesAreNumbers DEF IInv
    <3> QED
      BY <3>1, <3>2
  <2>6. ChainFrom[ch[i]] = <<ch[i]>> \o w
    BY <1>3, <1>4, <2>3, <2>5
  <2>7. PICK m : m = ch[i]
    OBVIOUS
  <2>8. /\ <<m>> \o w \in Seq(Leaves) /\ Len(<<m>> \o w) = Len(w) + 1
        /\ \A h \in 1 .. Len(w) + 1 : (<<m>> \o w)[h] = IF h = 1 THEN m ELSE w[h - 1]
    BY <1>4, <2>4, <2>7, PrefixedAt
  <2>9. PICK v : v = <<m>> \o w
    OBVIOUS
  <2>10. v \in Seq(Leaves) /\ Len(v) = len - i + 1
    BY <1>1, <2>4, <2>8, <2>9
  <2>11. ASSUME NEW h \in 1 .. len - i + 1 PROVE v[h] = ch[i + h - 1]
    <3>1. v[h] = IF h = 1 THEN m ELSE w[h - 1]
      BY <2>4, <2>8, <2>9
    <3>2. CASE h = 1
      <4>1. i + h - 1 = i
        BY <3>2
      <4> QED
        BY <2>7, <3>1, <3>2, <4>1
    <3>3. CASE h # 1
      <4>1. h - 1 \in 1 .. len - i /\ i + (h - 1) = i + h - 1
        BY <1>1, <3>3
      <4> QED
        BY <2>4, <3>1, <3>3, <4>1
    <3> QED
      BY <3>2, <3>3
  <2> QED
    BY <2>6, <2>7, <2>9, <2>10, <2>11
<1>7. \A j \in Nat : j \in T
  <2> HIDE DEF T
  <2> QED
    BY <1>5, <1>6, Induction
<1>8. len - 1 \in Nat /\ 1 \in 1 .. len /\ len - 1 + 1 = len
  BY <1>1
<1>9. IsTail(ChainFrom[ch[1]], 1)
  BY <1>7, <1>8
<1>10. Chain = ChainFrom[ch[1]]
  BY DEF Chain, InChain
<1>11. \A h \in 1 .. len : 1 + h - 1 = h
  BY <1>1
<1> QED
  BY <1>8, <1>9, <1>10, <1>11

\* Sequences of numbers in order, one above the other, in order together.
LEMMA SortedJoined ==
  ASSUME NEW a \in Seq(Nat), NEW b \in Seq(Nat), Sorted(a), Sorted(b),
         \A k \in ToSet(a), l \in ToSet(b) : k < l
  PROVE  /\ a \o b \in Seq(Nat) /\ Sorted(a \o b)
         /\ \A k : k \in ToSet(a \o b) <=> k \in ToSet(a) \/ k \in ToSet(b)
<1>1. /\ DOMAIN a = 1 .. Len(a) /\ DOMAIN b = 1 .. Len(b) /\ Len(a) \in Nat /\ Len(b) \in Nat
      /\ \A i \in 1 .. Len(a) : a[i] \in Nat /\ a[i] \in ToSet(a)
      /\ \A i \in 1 .. Len(b) : b[i] \in Nat /\ b[i] \in ToSet(b)
  BY DEF ToSet
<1>2. PICK c : c = a \o b
  OBVIOUS
<1>3. /\ c \in Seq(Nat) /\ Len(c) = Len(a) + Len(b)
      /\ \A i \in 1 .. Len(a) + Len(b) : c[i] = IF i <= Len(a) THEN a[i] ELSE b[i - Len(a)]
  BY <1>2
<1>4. DOMAIN c = 1 .. Len(a) + Len(b)
  BY <1>3
<1>5. Sorted(c)
  <2> SUFFICES ASSUME NEW i \in 1 .. Len(a) + Len(b), NEW j \in 1 .. Len(a) + Len(b), i < j
               PROVE  c[i] < c[j]
    BY <1>4 DEF Sorted
  <2>1. CASE j <= Len(a)
    <3>1. i \in 1 .. Len(a) /\ j \in 1 .. Len(a) /\ c[i] = a[i] /\ c[j] = a[j]
      BY <1>1, <1>3, <2>1
    <3> QED
      BY <1>1, <3>1 DEF Sorted
  <2>2. CASE i <= Len(a) /\ ~(j <= Len(a))
    <3>1. i \in 1 .. Len(a) /\ j - Len(a) \in 1 .. Len(b) /\ c[i] = a[i] /\ c[j] = b[j - Len(a)]
      BY <1>1, <1>3, <2>2
    <3> QED
      BY <1>1, <3>1
  <2>3. CASE ~(i <= Len(a))
    <3>1. /\ i - Len(a) \in 1 .. Len(b) /\ j - Len(a) \in 1 .. Len(b) /\ i - Len(a) < j - Len(a)
          /\ c[i] = b[i - Len(a)] /\ c[j] = b[j - Len(a)]
      BY <1>1, <1>3, <2>3
    <3> QED
      BY <1>1, <3>1 DEF Sorted
  <2> QED
    BY <1>1, <2>1, <2>2, <2>3
<1>6. ASSUME NEW k PROVE k \in ToSet(c) <=> k \in ToSet(a) \/ k \in ToSet(b)
  <2>1. ASSUME NEW i \in 1 .. Len(a) + Len(b) PROVE c[i] \in ToSet(a) \/ c[i] \in ToSet(b)
    <3>1. CASE i <= Len(a)
      BY <1>1, <1>3, <3>1
    <3>2. CASE ~(i <= Len(a))
      <4>1. i - Len(a) \in 1 .. Len(b) /\ c[i] = b[i - Len(a)]
        BY <1>1, <1>3, <3>2
      <4> QED
        BY <1>1, <4>1
    <3> QED
      BY <3>1, <3>2
  <2>2. ASSUME NEW i \in 1 .. Len(a) PROVE a[i] \in ToSet(c)
    <3>1. i \in 1 .. Len(a) + Len(b) /\ c[i] = a[i]
      BY <1>1, <1>3
    <3> QED
      BY <1>4, <3>1 DEF ToSet
  <2>3. ASSUME NEW i \in 1 .. Len(b) PROVE b[i] \in ToSet(c)
    <3>1. /\ Len(a) + i \in 1 .. Len(a) + Len(b) /\ ~(Len(a) + i <= Len(a))
          /\ Len(a) + i - Len(a) = i
      BY <1>1
    <3>2. c[Len(a) + i] = b[i]
      BY <1>3, <3>1, SMTT(30)
    <3> QED
      BY <1>4, <3>1, <3>2 DEF ToSet
  <2> QED
    BY <1>1, <1>4, <2>1, <2>2, <2>3 DEF ToSet
<1> QED
  BY <1>2, <1>3, <1>5, <1>6

\* Strung together, segments of numbers in order, one above the other, are in
\* order and have the elements of all of them.
Strung(segs, g) ==
  g = [i \in 1 .. Len(segs) |-> IF i = 1 THEN segs[i] ELSE g[i - 1] \o segs[i]]

LEMMA StringUnfolds ==
  ASSUME NEW S, NEW segs \in Seq(S), Len(segs) # 0
  PROVE  \E g : Strung(segs, g) /\ FlattenSeq(segs) = g[Len(segs)]
<1> DEFINE Next1(g) == [i \in 1 .. Len(segs) |-> IF i = 1 THEN segs[i] ELSE g[i - 1] \o segs[i]]
           Upto(g, j) == \A i \in 1 .. Len(segs) : i < j => g[i] = Next1(g)[i]
           T == {j \in Nat : \E g : Upto(g, j)}
<1>0. Len(segs) \in Nat
  OBVIOUS
<1>1. 0 \in T
  <2>1. Upto([i \in 1 .. Len(segs) |-> 0], 0)
    BY <1>0
  <2> HIDE DEF Upto
  <2> QED
    BY <2>1
<1>2. ASSUME NEW j \in Nat, j \in T PROVE j + 1 \in T
  <2>1. PICK g : Upto(g, j)
    BY <1>2
  <2>2. PICK f : f = Next1(g)
    OBVIOUS
  <2>3. ASSUME NEW i \in 1 .. Len(segs), i < j + 1 PROVE f[i] = Next1(f)[i]
    <3>1. CASE i = 1
      BY <2>2, <3>1
    <3>2. CASE i # 1
      <4>1. i - 1 \in 1 .. Len(segs) /\ i - 1 < j
        BY <1>0, <2>3, <3>2
      <4>2. f[i - 1] = g[i - 1]
        BY <2>1, <2>2, <4>1
      <4> QED
        BY <2>2, <3>2, <4>2
    <3> QED
      BY <3>1, <3>2
  <2>4. Upto(f, j + 1)
    BY <2>3
  <2> HIDE DEF Upto
  <2> QED
    BY <2>4
<1>3. PICK g : Upto(g, Len(segs) + 1)
  <2>1. \A j \in Nat : j \in T
    <3> HIDE DEF T
    <3> QED
      BY <1>1, <1>2, Induction
  <2>2. Len(segs) + 1 \in Nat
    BY <1>0
  <2> QED
    BY <2>1, <2>2
<1>4. PICK f : f = Next1(g)
  OBVIOUS
<1>5. \A i \in 1 .. Len(segs) : f[i] = g[i]
  <2>1. \A i \in 1 .. Len(segs) : i < Len(segs) + 1
    BY <1>0
  <2> HIDE DEF Next1
  <2> QED
    BY <1>3, <1>4, <2>1
<1>6. Next1(f) = Next1(g)
  <2>1. \A i \in 1 .. Len(segs) : i # 1 => f[i - 1] = g[i - 1]
    <3>1. \A i \in 1 .. Len(segs) : i # 1 => i - 1 \in 1 .. Len(segs)
      BY <1>0
    <3> QED
      BY <1>5, <3>1
  <2> QED
    BY <2>1
<1>7. Strung(segs, f)
  BY <1>4, <1>6 DEF Strung
<1>8. FlattenSeq(segs) = (CHOOSE h : Strung(segs, h))[Len(segs)]
  BY DEF FlattenSeq, Strung
<1>9. Strung(segs, CHOOSE h : Strung(segs, h))
  BY <1>7
<1> QED
  BY <1>8, <1>9

LEMMA StringSorted ==
  ASSUME NEW segs \in Seq(Seq(Nat)), Len(segs) # 0,
         \A i \in 1 .. Len(segs) : Sorted(segs[i]),
         \A i, j \in 1 .. Len(segs) : i < j =>
           \A k \in ToSet(segs[i]), l \in ToSet(segs[j]) : k < l
  PROVE  /\ FlattenSeq(segs) \in Seq(Nat) /\ Sorted(FlattenSeq(segs))
         /\ \A k : k \in ToSet(FlattenSeq(segs))
                     <=> \E i \in 1 .. Len(segs) : k \in ToSet(segs[i])
<1>1. PICK g : Strung(segs, g) /\ FlattenSeq(segs) = g[Len(segs)]
  BY StringUnfolds
<1>2. PICK len : len = Len(segs)
  OBVIOUS
<1>3. len \in Nat /\ 1 <= len /\ \A i \in 1 .. len : segs[i] \in Seq(Nat)
  BY <1>2
<1>4. \A i \in 1 .. len : g[i] = IF i = 1 THEN segs[i] ELSE g[i - 1] \o segs[i]
  BY <1>1, <1>2 DEF Strung
<1> DEFINE Good(w, j) == /\ w \in Seq(Nat) /\ Sorted(w)
                         /\ \A k : k \in ToSet(w) <=> \E i \in 1 .. j : k \in ToSet(segs[i])
           T == {j \in Nat : j + 1 \in 1 .. len => Good(g[j + 1], j + 1)}
<1>5. 0 \in T
  <2>1. 0 + 1 = 1 /\ 1 \in 1 .. len /\ \A i \in 1 .. 1 : i = 1
    BY <1>3
  <2>2. g[1] = segs[1] /\ segs[1] \in Seq(Nat) /\ Sorted(segs[1])
    BY <1>2, <1>3, <1>4, <2>1
  <2>3. Good(g[1], 1)
    BY <2>1, <2>2
  <2> HIDE DEF Good
  <2> QED
    BY <2>1, <2>3
<1>6. ASSUME NEW j \in Nat, j \in T PROVE j + 1 \in T
  <2> SUFFICES ASSUME j + 1 + 1 \in 1 .. len PROVE Good(g[j + 1 + 1], j + 1 + 1)
    <3>1. j + 1 \in Nat
      OBVIOUS
    <3> HIDE DEF Good
    <3> QED
      BY <3>1
  <2>1. PICK p : p = j + 1
    OBVIOUS
  <2>2. p \in 1 .. len /\ p + 1 \in 1 .. len /\ p + 1 # 1 /\ p + 1 - 1 = p
    BY <1>3, <2>1
  <2>3. Good(g[p], p)
    BY <1>6, <2>1, <2>2
  <2>4. g[p + 1] = g[p] \o segs[p + 1]
    <3>1. PICK i : i = p + 1
      OBVIOUS
    <3>2. i \in 1 .. len /\ i # 1 /\ i - 1 = p
      BY <2>2, <3>1
    <3>3. g[i] = g[i - 1] \o segs[i]
      BY <1>4, <3>2
    <3> QED
      BY <3>1, <3>2, <3>3
  <2>5. /\ g[p] \in Seq(Nat) /\ Sorted(g[p])
        /\ segs[p + 1] \in Seq(Nat) /\ Sorted(segs[p + 1])
    BY <1>2, <1>3, <2>2, <2>3
  <2>6. \A i \in 1 .. p : i \in 1 .. len /\ i < p + 1
    BY <1>3, <2>2
  <2>7. \A k \in ToSet(g[p]), l \in ToSet(segs[p + 1]) : k < l
    BY <1>2, <2>2, <2>3, <2>6
  <2>8. PICK a : a = g[p]
    OBVIOUS
  <2>9. PICK b : b = segs[p + 1]
    OBVIOUS
  <2>10. /\ a \o b \in Seq(Nat) /\ Sorted(a \o b)
        /\ \A k : k \in ToSet(a \o b) <=> k \in ToSet(a) \/ k \in ToSet(b)
    BY <2>5, <2>7, <2>8, <2>9, SortedJoined
  <2>11. \A i : i \in 1 .. p + 1 <=> i \in 1 .. p \/ i = p + 1
    BY <1>3, <2>2
  <2>12. Good(g[p + 1], p + 1)
    <3>1. g[p + 1] \in Seq(Nat) /\ Sorted(g[p + 1])
      BY <2>4, <2>8, <2>9, <2>10
    <3>2. \A k : k \in ToSet(g[p + 1]) <=> k \in ToSet(g[p]) \/ k \in ToSet(segs[p + 1])
      BY <2>4, <2>8, <2>9, <2>10
    <3>3. \A k : k \in ToSet(g[p]) <=> \E i \in 1 .. p : k \in ToSet(segs[i])
      BY <2>3
    <3>4. \A k : k \in ToSet(g[p + 1]) <=> \E i \in 1 .. p + 1 : k \in ToSet(segs[i])
      BY <2>11, <3>2, <3>3
    <3> QED
      BY <3>1, <3>4
  <2> HIDE DEF Good
  <2> QED
    BY <2>1, <2>12
<1>7. \A j \in Nat : j \in T
  <2> HIDE DEF T
  <2> QED
    BY <1>5, <1>6, Induction
<1>8. len - 1 \in Nat /\ len - 1 + 1 = len /\ len \in 1 .. len
  BY <1>3
<1>9. Good(g[len], len)
  <2>1. len - 1 \in T
    BY <1>7, <1>8
  <2> HIDE DEF Good
  <2> QED
    BY <1>8, <2>1
<1> QED
  BY <1>1, <1>2, <1>9

\* The keys that are stored.
StoredKeys == {k \in Keys : \E v : Stores(k, v)}

LEMMA KeysStored ==
  ASSUME RInv
  PROVE  \A k : k \in StoredKeys <=> \E n \in Leaves : k \in ToSet(tree[n].keys)
<1>1. \A n \in Leaves : tree[n].keys \in Seq(Keys)
  BY DEF RInv, ContentsOK, ContentOK, Leaves
<1>2. ASSUME NEW n \in Leaves, NEW k
      PROVE  k \in ToSet(tree[n].keys) <=> k \in Keys /\ \E v : Has(tree[n], k, v)
  <2>1. PICK ks : ks = tree[n].keys
    OBVIOUS
  <2>2. ks \in Seq(Keys) /\ \A i \in DOMAIN ks : ks[i] \in Keys
    BY <1>1, <2>1
  <2> QED
    BY <2>1, <2>2 DEF ToSet, Has
<1> QED
  BY <1>2 DEF StoredKeys, Stores

\* The keys of an earlier leaf are below those of a later one.
LEMMA LeavesInOrder ==
  ASSUME NEW c, NEW s, Mapped(c, s), NEW len, NEW ch, InChain(c, len, ch),
         NEW i \in 1 .. len, NEW j \in 1 .. len, i < j
  PROVE  \A k \in ToSet(tree[ch[i]].keys), l \in ToSet(tree[ch[j]].keys) : k < l
<1>1. ch[i] \in Nodes /\ ch[j] \in Nodes
  BY DEF InChain, Leaves
<1>2. NodeCovers(c, s, ch[i]) /\ NodeCovers(c, s, ch[j])
  BY <1>1 DEF Mapped
<1>3. /\ \A k \in ToSet(tree[ch[i]].keys) : k \in c[ch[i]]
      /\ \A l \in ToSet(tree[ch[j]].keys) : l \in c[ch[j]]
  BY <1>2 DEF NodeCovers, ToSet
<1> QED
  BY <1>3 DEF InChain

\* The keys along the chain are in order, and are those that are stored.
LEMMA KeysAlongChain ==
  ASSUME IInv, RInv, NEW c, NEW s, Mapped(c, s), NEW len, NEW ch, InChain(c, len, ch)
  PROVE  /\ KeysAlong(Chain) \in Seq(Nat) /\ Sorted(KeysAlong(Chain))
         /\ ToSet(KeysAlong(Chain)) = StoredKeys
<1>1. /\ Chain \in Seq(Leaves) /\ Len(Chain) = len
      /\ \A i \in 1 .. len : Chain[i] = ch[i]
  BY ChainIsWalked
<1>2. len \in Nat /\ 1 <= len /\ \A i \in 1 .. len : ch[i] \in Leaves /\ ch[i] \in Nodes
  BY DEF InChain, Leaves
<1>3. DOMAIN Chain = 1 .. len
  BY <1>1
<1>4. PICK segs : segs = [i \in 1 .. len |-> tree[ch[i]].keys]
  OBVIOUS
<1>5. KeysAlong(Chain) = FlattenSeq(segs)
  <2>1. [i \in DOMAIN Chain |-> tree[Chain[i]].keys] = segs
    BY <1>1, <1>3, <1>4
  <2> QED
    BY <2>1 DEF KeysAlong
<1>6. \A i \in 1 .. len : segs[i] = tree[ch[i]].keys /\ segs[i] \in Seq(Nat) /\ Sorted(segs[i])
  <2> SUFFICES ASSUME NEW i \in 1 .. len
               PROVE  segs[i] = tree[ch[i]].keys /\ segs[i] \in Seq(Nat) /\ Sorted(segs[i])
    OBVIOUS
  <2>1. segs[i] = tree[ch[i]].keys
    BY <1>4
  <2>2. tree[ch[i]].keys \in Seq(Keys) /\ Sorted(tree[ch[i]].keys)
    BY <1>2 DEF RInv, ContentsOK, ContentOK, Mapped, NodeCovers
  <2>3. \A k \in Keys : k \in Nat
    BY KeyAssumption
  <2>4. tree[ch[i]].keys \in Seq(Nat)
    BY <2>2, <2>3
  <2> QED
    BY <2>1, <2>2, <2>4
<1>7. segs \in Seq(Seq(Nat)) /\ Len(segs) = len
  BY <1>2, <1>4, <1>6
<1>8. \A i, j \in 1 .. len : i < j =>
        \A k \in ToSet(segs[i]), l \in ToSet(segs[j]) : k < l
  BY <1>6, LeavesInOrder
<1>9. /\ FlattenSeq(segs) \in Seq(Nat) /\ Sorted(FlattenSeq(segs))
      /\ \A k : k \in ToSet(FlattenSeq(segs)) <=> \E i \in 1 .. len : k \in ToSet(segs[i])
  <2>1. /\ segs \in Seq(Seq(Nat)) /\ Len(segs) # 0
        /\ \A i \in 1 .. Len(segs) : Sorted(segs[i])
        /\ \A i, j \in 1 .. Len(segs) : i < j =>
             \A k \in ToSet(segs[i]), l \in ToSet(segs[j]) : k < l
    BY <1>2, <1>6, <1>7, <1>8
  <2>2. /\ FlattenSeq(segs) \in Seq(Nat) /\ Sorted(FlattenSeq(segs))
        /\ \A k : k \in ToSet(FlattenSeq(segs)) <=> \E i \in 1 .. Len(segs) : k \in ToSet(segs[i])
    BY <2>1, StringSorted
  <2> QED
    BY <1>7, <2>2
<1>10. ASSUME NEW k
       PROVE  (\E i \in 1 .. len : k \in ToSet(segs[i])) <=> k \in StoredKeys
  <2>1. k \in StoredKeys <=> \E n \in Leaves : k \in ToSet(tree[n].keys)
    BY KeysStored
  <2>2. \A n \in Leaves : \E i \in 1 .. len : ch[i] = n
    BY DEF InChain
  <2> QED
    BY <1>2, <1>6, <2>1, <2>2
<1>11. ToSet(KeysAlong(Chain)) = StoredKeys
  BY <1>5, <1>9, <1>10
<1> QED
  BY <1>5, <1>9, <1>11

\* The invariant of the chain gives what MergeData meets.
LEMMA ChainIsSorted == IInv /\ RInv /\ ChainInv => LeafChainIsSorted
<1> SUFFICES ASSUME IInv, RInv, ChainInv PROVE LeafChainIsSorted
  OBVIOUS
<1>1. PICK c, s, len, ch : Mapped(c, s) /\ InChain(c, len, ch)
  BY DEF ChainInv
<1>2. /\ Chain \in Seq(Leaves) /\ Len(Chain) = len
      /\ \A i \in 1 .. len : Chain[i] = ch[i]
  BY <1>1, ChainIsWalked
<1>3. ToSet(Chain) = Leaves
  <2>1. DOMAIN Chain = 1 .. len
    BY <1>2
  <2>2. \A n \in Leaves : \E i \in 1 .. len : Chain[i] = n
    BY <1>1, <1>2, SMTT(30) DEF InChain
  <2>3. \A i \in 1 .. len : Chain[i] \in Leaves
    BY <1>1, <1>2 DEF InChain
  <2> QED
    BY <2>1, <2>2, <2>3 DEF ToSet
<1>4. PICK keys : keys = KeysAlong(Chain)
  OBVIOUS
<1>5. keys \in Seq(Nat) /\ Sorted(keys)
  BY <1>1, <1>4, KeysAlongChain
<1>6. \A i \in 1 .. Len(keys) - 1 : keys[i] < keys[i + 1]
  <2>1. /\ Len(keys) \in Nat /\ DOMAIN keys = 1 .. Len(keys)
    BY <1>5
  <2>2. \A i \in 1 .. Len(keys) - 1 : i \in DOMAIN keys /\ i + 1 \in DOMAIN keys /\ i < i + 1
    BY <2>1
  <2> QED
    BY <1>5, <2>2 DEF Sorted
<1> QED
  BY <1>3, <1>4, <1>6 DEF LeafChainIsSorted

\* MergeData's walk meets every leaf once, and the keys it takes from them are
\* strictly increasing, whatever splits and inserts are in progress
\* (BTreeOLC.h:144-157, 264-280).
THEOREM ChainStaysSorted == Spec => []LeafChainIsSorted
<1>1. Spec => [](IInv /\ RInv /\ MInv)
  BY AllHold
<1>2. Init => ChainInv
  BY InitChain
<1>3. IInv /\ RInv /\ ChainInv /\ [Next]_vars => ChainInv'
  BY NextChains
<1>4. IInv /\ RInv /\ ChainInv => LeafChainIsSorted
  BY ChainIsSorted
<1> QED
  BY <1>1, <1>2, <1>3, <1>4, PTL DEF Spec

-----------------------------------------------------------------------------
(* The number of records.                                                  *)

\* The inserts that were made are no less than the keys that are stored.
CountInv ==
  /\ IsFiniteSet(StoredKeys) /\ itemCount \in Nat
  /\ Cardinality(StoredKeys) <= itemCount

\* In order, no key is twice in a sequence.
LEMMA SortedIsCounted ==
  ASSUME NEW w \in Seq(Nat), Sorted(w)
  PROVE  IsFiniteSet(ToSet(w)) /\ Cardinality(ToSet(w)) = Len(w)
<1>1. Len(w) \in Nat /\ DOMAIN w = 1 .. Len(w) /\ \A i \in 1 .. Len(w) : w[i] \in Nat
  OBVIOUS
<1>2. \A i, j \in 1 .. Len(w) : w[i] = w[j] => i = j
  <2> SUFFICES ASSUME NEW i \in 1 .. Len(w), NEW j \in 1 .. Len(w), w[i] = w[j], i # j
               PROVE  FALSE
    OBVIOUS
  <2>1. w[i] < w[j] \/ w[j] < w[i]
    BY <1>1 DEF Sorted
  <2> QED
    BY <1>1, <2>1
<1>3. ExistsBijection(1 .. Len(w), ToSet(w))
  <2>1. w \in [1 .. Len(w) -> ToSet(w)]
    BY <1>1 DEF ToSet
  <2>2. \A x \in ToSet(w) : \E i \in 1 .. Len(w) : w[i] = x
    BY <1>1 DEF ToSet
  <2>3. w \in Bijection(1 .. Len(w), ToSet(w))
    BY <1>2, <2>1, <2>2 DEF Bijection, Injection, Surjection, IsInjective
  <2> QED
    BY <2>3 DEF ExistsBijection
<1>4. IsFiniteSet(1 .. Len(w)) /\ Cardinality(1 .. Len(w)) = Len(w)
  BY <1>1, FS_Interval
<1> QED
  BY <1>3, <1>4, FS_Bijection

\* The count covers what is met along the chain.
LEMMA CountCovers == IInv /\ RInv /\ ChainInv /\ CountInv => SizeCoversRecords
<1> SUFFICES ASSUME IInv, RInv, ChainInv, CountInv PROVE SizeCoversRecords
  OBVIOUS
<1>1. PICK c, s, len, ch : Mapped(c, s) /\ InChain(c, len, ch)
  BY DEF ChainInv
<1>2. PICK keys : keys = KeysAlong(Chain)
  OBVIOUS
<1>3. keys \in Seq(Nat) /\ Sorted(keys) /\ ToSet(keys) = StoredKeys
  BY <1>1, <1>2, KeysAlongChain
<1>4. Cardinality(StoredKeys) = Len(keys)
  BY <1>3, SortedIsCounted
<1> QED
  BY <1>2, <1>4 DEF CountInv, SizeCoversRecords

\* At first nothing is stored.
LEMMA InitCount == Init => CountInv
<1> SUFFICES ASSUME Init PROVE CountInv
  OBVIOUS
<1>1. tree = <<Leaf(<<>>, <<>>, None)>> /\ itemCount = 0
  BY DEF Init
<1>2. Nodes = {1} /\ tree[1].keys = <<>>
  BY <1>1 DEF Nodes, Leaf
<1>3. \A n \in Leaves : DOMAIN tree[n].keys = {}
  BY <1>2 DEF Leaves
<1>4. StoredKeys = {}
  BY <1>3 DEF StoredKeys, Stores, Has
<1> QED
  BY <1>1, <1>4, FS_EmptySet DEF CountInv

\* An insert counts one, and stores one key at most.
LEMMA NextCounts == IInv /\ RInv /\ MInv /\ CountInv /\ [Next]_vars => CountInv'
<1> SUFFICES ASSUME IInv, RInv, MInv, CountInv, [Next]_vars PROVE CountInv'
  OBVIOUS
<1>1. ASSUME SameRecords, itemCount' = itemCount PROVE CountInv'
  <2>1. StoredKeys' = StoredKeys
    BY <1>1 DEF SameRecords, StoredKeys
  <2> QED
    BY <1>1, <2>1 DEF CountInv
<1>2. CASE UNCHANGED vars
  BY <1>1, <1>2, QuietRecords DEF vars, shape
<1>3. ASSUME NEW t \in Threads, Begin(t) \/ Step(t) PROVE CountInv'
  <2>1. CASE InsertIntoLeaf(t)
    <3>1. itemCount' = itemCount + 1
      BY <2>1 DEF InsertIntoLeaf
    <3>2. PICK c, s : Mapped(c, s)
      BY DEF MInv
    <3>3. \A k, v : Stores(k, v)' <=> IF k = op[t].key THEN v = op[t].value ELSE Stores(k, v)
      BY <2>1, <3>2, InsertRecords
    <3>4. PICK e : e = op[t].key
      OBVIOUS
    <3>5. e \in Keys
      BY <2>1, <3>4, InsertWrites DEF Inserts
    <3>6. StoredKeys' = StoredKeys \cup {e}
      <4>1. \A k : (\E v : Stores(k, v)') <=> k = e \/ \E v : Stores(k, v)
        BY <3>3, <3>4
      <4> QED
        BY <3>5, <4>1 DEF StoredKeys
    <3>7. /\ IsFiniteSet(StoredKeys \cup {e})
          /\ Cardinality(StoredKeys \cup {e}) = IF e \in StoredKeys THEN Cardinality(StoredKeys)
                                                ELSE Cardinality(StoredKeys) + 1
      BY FS_AddElement DEF CountInv
    <3>8. Cardinality(StoredKeys) \in Nat
      BY FS_CardinalityType DEF CountInv
    <3>9. /\ IsFiniteSet(StoredKeys') /\ itemCount' \in Nat
          /\ Cardinality(StoredKeys') <= itemCount'
      BY <3>1, <3>6, <3>7, <3>8 DEF CountInv
    <3> QED
      BY <3>9 DEF CountInv
  <2>2. CASE ~InsertIntoLeaf(t)
    <3>1. itemCount' = itemCount
      BY <1>3, <2>2
      DEF Begin, Step, Descend, SplitNode, Insert, Lookup, ReadRoot, LockRoot, CheckRoot, Visit,
          CheckParent, ReadChild, CheckChild, LockChild, LockParent, LockSplit, RecheckRoot, Split,
          LinkParent, MakeRoot, UnlockNode, UnlockParent, LockLeaf, LeafParent, AbandonLeaf,
          ReturnInsert, ReadLeaf, LookupParent, LookupLeaf, ReturnLookup, shape
    <3>2. CASE Inside(t)
      BY <1>1, <3>1, <3>2, InsideRecords
    <3>3. CASE ReturnInsert(t)
      BY <1>1, <3>1, <3>3, LockRecords
    <3>4. CASE Begin(t) \/ LookupLeaf(t) \/ ReturnLookup(t)
      <4>1. tree' = tree
        BY <3>4 DEF Begin, LookupLeaf, ReturnLookup
      <4> QED
        BY <1>1, <3>1, <4>1, QuietRecords
    <3> QED
      BY <1>3, <2>2, <3>2, <3>3, <3>4 DEF Step, Inside, Insert, Lookup
  <2> QED
    BY <2>1, <2>2
<1> QED
  BY <1>2, <1>3 DEF Next

\* size() is at least the number of records the walk meets, so that a merge that
\* stops after size() of them has met the last leaf (BTreeOLC.h:264-280, 410).
THEOREM SizeCovers == Spec => []SizeCoversRecords
<1>1. Spec => [](IInv /\ RInv /\ MInv)
  BY AllHold
<1>2. Init => ChainInv /\ CountInv
  BY InitChain, InitCount
<1>3. IInv /\ RInv /\ MInv /\ ChainInv /\ CountInv /\ [Next]_vars => ChainInv' /\ CountInv'
  BY NextChains, NextCounts
<1>4. IInv /\ RInv /\ ChainInv /\ CountInv => SizeCoversRecords
  BY CountCovers
<1> QED
  BY <1>1, <1>2, <1>3, <1>4, PTL DEF Spec

=============================================================================
