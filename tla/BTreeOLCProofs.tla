---------------------------- MODULE BTreeOLCProofs ----------------------------
(***************************************************************************)
(* The locks of the concurrent B+-tree, and what its threads read without  *)
(* one: a node is locked exactly while one thread is in a critical section *)
(* on it, and nobody writes a node that another thread has locked, or      *)
(* without the lock; what is read is right once the version it was read    *)
(* under is validated.  For any number of threads, any requests and any    *)
(* capacities, no thread follows a pointer or returns a value it read from *)
(* a node in change, a node that an insert writes has room, and every lock *)
(* has one owner.  A step keeps the locks as long as the pointer it        *)
(* follows leads to a node (NothingTornIsUsed), so both parts hold         *)
(* together.                                                               *)
(***************************************************************************)
EXTENDS BTreeOLC, FiniteSetTheorems, TLAPS

\* A record with the fields of a node, and a word.
IsNode(x) == x \in [type : {x.type}, word : Nat, keys : {x.keys}, vals : {x.vals},
                    kids : {x.kids}, next : {x.next}]

\* The tree is a sequence of nodes, and the root is one of them.
TreeOK ==
  /\ \E S : tree \in Seq(S)
  /\ \A n \in Nodes : IsNode(tree[n])
  /\ root \in Nodes

\* The places of a thread that has followed a pointer, and goes on to use it.
AtNode == {"lockRoot", "checkRoot", "visit", "checkParent", "readChild", "lockParent",
           "lockSplit", "recheckRoot", "split", "linkParent", "makeRoot",
           "unlockNode", "unlockParent", "lockLeaf", "leafParent", "abandonLeaf",
           "insert", "inserted", "readLeaf", "lookupParent", "lookupLeaf", "found"}

\* A version that a thread has taken is one of a free node, and where a thread
\* has locked two nodes, they are two.
ThreadOK(t) ==
  /\ vNode[t] \in Nat /\ ~IsLocked(vNode[t])
  /\ vParent[t] \in Nat /\ ~IsLocked(vParent[t])
  /\ pc[t] \in AtNode => node[t] \in Nodes
  /\ parent[t] \in Nodes \cup {None}
  /\ pc[t] \in {"lockParent", "linkParent", "unlockParent"} => parent[t] # None
  /\ pc[t] \in {"recheckRoot", "makeRoot"} => parent[t] = None
  /\ pc[t] \in {"split", "linkParent", "unlockNode"} => node[t] # parent[t]

\* Every thread has a place and a path.
PerThread ==
  /\ pc = [t \in Threads |-> pc[t]]
  /\ node = [t \in Threads |-> node[t]] /\ vNode = [t \in Threads |-> vNode[t]]
  /\ parent = [t \in Threads |-> parent[t]] /\ vParent = [t \in Threads |-> vParent[t]]

\* A node is locked while somebody holds it, and one thread does.
LockOK(n) ==
  /\ IsLocked(tree[n].word) <=> \E t \in Threads : Holds(t, n)
  /\ \A t, u \in Threads : Holds(t, n) /\ Holds(u, n) => t = u

\* The inductive invariant of the locks.
IInv ==
  /\ TreeOK /\ PerThread
  /\ \A t \in Threads : ThreadOK(t)
  /\ \A n \in Nodes : LockOK(n)

\* What a step may do to a node: lock it, if it is free, or whatever its owner
\* likes.
OnlyOwnersWrite ==
  \A n \in Nodes :
    \/ tree'[n] = tree[n]
    \/ ~IsLocked(tree[n].word) /\ tree'[n] = [tree[n] EXCEPT !.word = Locked(@)]
    \/ \E t \in Threads : Holds(t, n)

-----------------------------------------------------------------------------
\* Locking a free word makes it a locked one, unlocking a locked one frees it.
LEMMA WordFlips ==
  ASSUME NEW w \in Nat
  PROVE  /\ Locked(w) \in Nat /\ Unlocked(w) \in Nat
         /\ IsLocked(Locked(w)) <=> ~IsLocked(w)
         /\ IsLocked(Unlocked(w)) <=> ~IsLocked(w)
BY DEF Locked, Unlocked, IsLocked

\* A new node is free.
LEMMA NewIsFree == InitialWord \in Nat /\ ~IsLocked(InitialWord) /\ ~IsLocked(0)
BY DEF InitialWord, IsLocked

\* The nodes are numbered from 1.
LEMMA NodesAreNumbers ==
  ASSUME TreeOK
  PROVE  Len(tree) \in Nat /\ Nodes = 1 .. Len(tree) /\ None \notin Nodes
<1>1. PICK S : tree \in Seq(S)
  BY DEF TreeOK
<1> QED
  BY <1>1, NullAssumption DEF Nodes

\* Replacing a node by another one leaves a tree of as many nodes.
LEMMA Replaced ==
  ASSUME TreeOK, NEW n \in Nodes, NEW x, IsNode(x),
         tree' = [tree EXCEPT ![n] = x], root' = root
  PROVE  /\ TreeOK' /\ Nodes' = Nodes
         /\ \A m \in Nodes : tree'[m] = IF m = n THEN x ELSE tree[m]
<1>1. PICK S : tree \in Seq(S)
  BY DEF TreeOK
<1>2. tree' \in Seq(S \cup {x})
  BY <1>1 DEF Nodes
<1>3. DOMAIN tree' = DOMAIN tree
  OBVIOUS
<1>4. \A m \in Nodes : tree'[m] = IF m = n THEN x ELSE tree[m]
  BY DEF Nodes
<1>5. Nodes' = Nodes
  BY <1>3 DEF Nodes
<1> QED
  BY <1>2, <1>4, <1>5 DEF TreeOK

\* Appending a node leaves the others as they are.
LEMMA Appended ==
  ASSUME NEW S, NEW s \in Seq(S), NEW x
  PROVE  /\ Append(s, x) \in Seq(S \cup {x})
         /\ Len(s) \in Nat /\ DOMAIN s = 1 .. Len(s)
         /\ DOMAIN Append(s, x) = 1 .. Len(s) + 1
         /\ \A m \in 1 .. Len(s) : Append(s, x)[m] = s[m]
         /\ Append(s, x)[Len(s) + 1] = x
OBVIOUS

\* What a split or an insert makes of a node is a node with the same word, and
\* the other half is a free one.
LEMMA HalvesAreNodes ==
  ASSUME NEW x, IsNode(x), NEW id
  PROVE  /\ IsNode(LeafSplit(x, id).left) /\ LeafSplit(x, id).left.word = x.word
         /\ IsNode(LeafSplit(x, id).right) /\ LeafSplit(x, id).right.word = InitialWord
         /\ IsNode(InnerSplit(x).left) /\ InnerSplit(x).left.word = x.word
         /\ IsNode(InnerSplit(x).right) /\ InnerSplit(x).right.word = InitialWord
<1>1. IsNode(LeafSplit(x, id).left) /\ LeafSplit(x, id).left.word = x.word
  BY DEF IsNode, LeafSplit
<1>2. IsNode(LeafSplit(x, id).right) /\ LeafSplit(x, id).right.word = InitialWord
  BY NewIsFree DEF IsNode, LeafSplit, Leaf
<1>3. IsNode(InnerSplit(x).left) /\ InnerSplit(x).left.word = x.word
  BY DEF IsNode, InnerSplit
<1>4. IsNode(InnerSplit(x).right) /\ InnerSplit(x).right.word = InitialWord
  BY NewIsFree DEF IsNode, InnerSplit, Inner
<1> QED
  BY <1>1, <1>2, <1>3, <1>4

\* An insert into a node keeps its word.
LEMMA InsertedIsNode ==
  ASSUME NEW x, IsNode(x), NEW k, NEW y
  PROVE  /\ IsNode(LeafInsert(x, k, y)) /\ LeafInsert(x, k, y).word = x.word
         /\ IsNode(InnerInsert(x, k, y)) /\ InnerInsert(x, k, y).word = x.word
<1>1. IsNode(LeafInsert(x, k, y)) /\ LeafInsert(x, k, y).word = x.word
  BY DEF IsNode, LeafInsert
<1>2. IsNode(InnerInsert(x, k, y)) /\ InnerInsert(x, k, y).word = x.word
  BY DEF IsNode, InnerInsert
<1> QED
  BY <1>1, <1>2

\* A node with another word is a node.
LEMMA RewordedIsNode ==
  ASSUME NEW x, IsNode(x), NEW w \in Nat
  PROVE  IsNode([x EXCEPT !.word = w]) /\ [x EXCEPT !.word = w].word = w
BY DEF IsNode

-----------------------------------------------------------------------------
\* The threads other than t do not move.
Others(t) ==
  /\ PerThread'
  /\ \A u \in Threads \ {t} :
       /\ pc'[u] = pc[u] /\ node'[u] = node[u] /\ parent'[u] = parent[u]
       /\ vNode'[u] = vNode[u] /\ vParent'[u] = vParent[u]

\* What thread t may do to the lock of node n in a step: nothing, take it when
\* it is free, or give it back.
HeldStep(t, n) ==
  \/ (Holds(t, n)' <=> Holds(t, n)) /\ (IsLocked(tree'[n].word) <=> IsLocked(tree[n].word))
  \/ ~IsLocked(tree[n].word) /\ Holds(t, n)' /\ IsLocked(tree'[n].word)
  \/ Holds(t, n) /\ ~Holds(t, n)' /\ ~IsLocked(tree'[n].word)

\* A thread holds nodes only.
LEMMA HeldAreNodes ==
  ASSUME TreeOK, NEW t \in Threads, ThreadOK(t), NEW n \in Nat, Holds(t, n)
  PROVE  n \in Nodes
BY NullAssumption DEF ThreadOK, Holds, AtNode

\* The effect of a step on the invariant, from its effect on its own thread and
\* on the locks.
LEMMA StepKeeps ==
  ASSUME IInv, NEW t \in Threads, Others(t), TreeOK', Nodes \subseteq Nodes',
         ThreadOK(t)', \A n \in Nodes : HeldStep(t, n),
         \A n \in Nodes' \ Nodes : ~IsLocked(tree'[n].word) /\ ~Holds(t, n)'
  PROVE  IInv'
<1>1. \A u \in Threads \ {t} : \A n : Holds(u, n)' <=> Holds(u, n)
  BY DEF Others, Holds
<1>2. ASSUME NEW u \in Threads PROVE ThreadOK(u)'
  <2>1. CASE u = t
    BY <2>1
  <2>2. CASE u # t
    BY <2>2 DEF Others, ThreadOK, IInv
  <2> QED
    BY <2>1, <2>2
<1>3. ASSUME NEW n \in Nodes PROVE LockOK(n)'
  <2>1. LockOK(n) /\ HeldStep(t, n)
    BY DEF IInv
  <2>2. CASE /\ Holds(t, n)' <=> Holds(t, n)
             /\ IsLocked(tree'[n].word) <=> IsLocked(tree[n].word)
    <3>1. \A u \in Threads : Holds(u, n)' <=> Holds(u, n)
      BY <1>1, <2>2
    <3> QED
      BY <2>1, <2>2, <3>1 DEF LockOK
  <2>3. CASE ~IsLocked(tree[n].word) /\ Holds(t, n)' /\ IsLocked(tree'[n].word)
    <3>1. \A u \in Threads : ~Holds(u, n)
      BY <2>1, <2>3 DEF LockOK
    <3>2. \A u \in Threads : Holds(u, n)' => u = t
      BY <1>1, <3>1
    <3> QED
      BY <2>3, <3>2 DEF LockOK
  <2>4. CASE Holds(t, n) /\ ~Holds(t, n)' /\ ~IsLocked(tree'[n].word)
    <3>1. \A u \in Threads : Holds(u, n) => u = t
      BY <2>1, <2>4 DEF LockOK
    <3>2. \A u \in Threads : ~Holds(u, n)'
      BY <1>1, <2>4, <3>1
    <3> QED
      BY <2>4, <3>2 DEF LockOK
  <2> QED
    BY <2>1, <2>2, <2>3, <2>4 DEF HeldStep
<1>4. ASSUME NEW n \in Nodes' \ Nodes PROVE LockOK(n)'
  <2>1. n \in Nat
    <3>1. Len(tree') \in Nat /\ Nodes' = 1 .. Len(tree')
      <4>1. PICK S : tree' \in Seq(S)
        BY DEF TreeOK
      <4> QED
        BY <4>1 DEF Nodes
    <3> QED
      BY <3>1
  <2>2. \A u \in Threads : ~Holds(u, n)
    BY <2>1, HeldAreNodes DEF IInv
  <2>3. \A u \in Threads : ~Holds(u, n)'
    BY <1>1, <1>4, <2>2
  <2> QED
    BY <1>4, <2>3 DEF LockOK
<1> QED
  BY <1>2, <1>3, <1>4 DEF IInv, Others

\* The places where a thread has locked something.
Locking == {"lockSplit", "recheckRoot", "split", "linkParent", "makeRoot", "unlockNode",
            "unlockParent", "leafParent", "abandonLeaf", "insert", "inserted"}

\* A step of thread t between two places where it holds nothing, which leaves
\* the nodes as they are.
LEMMA QuietStep ==
  ASSUME IInv, NEW t \in Threads, Others(t), tree' = tree, root' = root,
         ThreadOK(t)', pc[t] \notin Locking, pc'[t] \notin Locking
  PROVE  IInv' /\ OnlyOwnersWrite
<1>1. Nodes' = Nodes /\ TreeOK'
  BY DEF Nodes, TreeOK, IInv
<1>2. \A n : ~Holds(t, n) /\ ~Holds(t, n)'
  BY DEF Locking, Holds
<1>3. \A n \in Nodes : HeldStep(t, n)
  BY <1>2 DEF HeldStep
<1> QED
  BY <1>1, <1>3, StepKeeps DEF OnlyOwnersWrite

\* Going to another place, on the same path.
LEMMA GotoMoves ==
  ASSUME IInv, NEW t \in Threads, NEW p, Goto(t, p), UNCHANGED path
  PROVE  /\ Others(t) /\ pc'[t] = p
         /\ node' = node /\ parent' = parent /\ vNode' = vNode /\ vParent' = vParent
BY DEF IInv, PerThread, Goto, path, Others

\* Starting over, and returning: nothing of the path is left.
LEMMA ForgetMoves ==
  ASSUME IInv, NEW t \in Threads, NEW p, Goto(t, p), Forget(t),
         p \notin AtNode
  PROVE  Others(t) /\ pc'[t] = p /\ ThreadOK(t)'
<1>1. Others(t) /\ pc'[t] = p
  BY DEF IInv, PerThread, Goto, Forget, Others
<1>2. parent'[t] = None /\ vNode'[t] = 0 /\ vParent'[t] = 0
  BY DEF IInv, PerThread, Forget
<1>3. p \notin {"lockParent", "linkParent", "unlockParent", "recheckRoot", "makeRoot",
                "split", "unlockNode"}
  BY DEF AtNode
<1> QED
  BY <1>1, <1>2, <1>3, NewIsFree DEF ThreadOK

\* Starting over.
LEMMA RestartMoves ==
  ASSUME IInv, NEW t \in Threads, Restart(t)
  PROVE  Others(t) /\ pc'[t] = "readRoot" /\ ThreadOK(t)'
BY ForgetMoves DEF Restart, AtNode

\* The places where a thread is at a node and has locked nothing.
Free == {"lockRoot", "checkRoot", "visit", "checkParent", "readChild", "lockParent",
         "lockLeaf", "readLeaf", "lookupParent", "lookupLeaf", "found"}

\* A quiet step is one that restarts, or that goes on along its path.
LEMMA QuietRestart ==
  ASSUME IInv, NEW t \in Threads, Restart(t), tree' = tree, root' = root,
         pc[t] \notin Locking
  PROVE  IInv' /\ OnlyOwnersWrite
BY RestartMoves, QuietStep DEF Locking

\* Going on along the path.
LEMMA QuietGoto ==
  ASSUME IInv, NEW t \in Threads, NEW p, Goto(t, p), UNCHANGED path, tree' = tree,
         root' = root, pc[t] \in Free, p \in Free \cup {"lockSplit"},
         p = "lockParent" => parent[t] # None, p = "lockSplit" => parent[t] = None
  PROVE  IInv' /\ OnlyOwnersWrite
<1>1. /\ Others(t) /\ pc'[t] = p
      /\ node' = node /\ parent' = parent /\ vNode' = vNode /\ vParent' = vParent
  BY GotoMoves
<1>2. Nodes' = Nodes /\ TreeOK'
  BY DEF Nodes, TreeOK, IInv
<1>3. ThreadOK(t)
  BY DEF IInv
<1>4. ThreadOK(t)'
  <2>1. pc[t] \in AtNode /\ p \notin {"unlockParent", "linkParent", "recheckRoot",
                                     "makeRoot", "split", "unlockNode"}
    BY DEF Free, AtNode
  <2> QED
    BY <1>1, <1>2, <1>3, <2>1 DEF ThreadOK
<1>5. None \notin Nodes
  BY NodesAreNumbers DEF IInv
<1>6. \A n \in Nodes : ~Holds(t, n) /\ ~Holds(t, n)'
  <2>1. parent[t] = None \/ p # "lockSplit"
    OBVIOUS
  <2> QED
    BY <1>1, <1>5, <2>1 DEF Free, Holds
<1>7. \A n \in Nodes : HeldStep(t, n)
  BY <1>6 DEF HeldStep
<1> QED
  BY <1>1, <1>2, <1>4, <1>7, StepKeeps DEF OnlyOwnersWrite

\* A step that goes on if a version has not moved, and restarts if it has.
LEMMA QuietChoice ==
  ASSUME IInv, NEW t \in Threads, NEW from, NEW p, pc[t] = from, from \in Free, p \in Free,
         Restart(t) \/ (Goto(t, p) /\ UNCHANGED path),
         tree' = tree, root' = root, p # "lockParent"
  PROVE  IInv' /\ OnlyOwnersWrite
<1>1. pc[t] \notin Locking /\ p # "lockSplit"
  BY DEF Free, Locking
<1> QED
  BY <1>1, QuietRestart, QuietGoto

-----------------------------------------------------------------------------
(* The descent, and the lookups: nothing is locked.                        *)

\* A call takes a request and starts at the root.
LEMMA BeginKeeps ==
  ASSUME IInv, NEW t \in Threads, Begin(t)
  PROVE  IInv' /\ OnlyOwnersWrite
BY QuietRestart DEF Begin, At, Locking, shape

\* The root is a node.
LEMMA ReadRootKeeps ==
  ASSUME IInv, NEW t \in Threads, ReadRoot(t)
  PROVE  IInv' /\ OnlyOwnersWrite
<1>1. pc[t] = "readRoot" /\ tree' = tree /\ root' = root
  BY DEF ReadRoot, At, shape
<1>2. Others(t) /\ pc'[t] = "lockRoot" /\ node'[t] = root
  BY DEF ReadRoot, Goto, IInv, PerThread, Others
<1>3. vNode' = vNode /\ parent' = parent /\ vParent' = vParent
  BY DEF ReadRoot
<1>4. Nodes' = Nodes /\ root \in Nodes /\ ThreadOK(t)
  BY <1>1 DEF Nodes, IInv, TreeOK
<1>5. ThreadOK(t)'
  BY <1>2, <1>3, <1>4 DEF ThreadOK
<1> QED
  BY <1>1, <1>2, <1>5, QuietStep DEF Locking

\* Both attempts to take the version of a node.
LEMMA LockNodeKeeps ==
  ASSUME IInv, NEW t \in Threads, NEW p, LockNode(t, p), p \in {"checkRoot", "visit"},
         node[t] \in Nodes, pc[t] \notin Locking, tree' = tree, root' = root
  PROVE  IInv' /\ OnlyOwnersWrite
<1>1. CASE Restart(t)
  BY <1>1, QuietRestart
<1>2. CASE /\ ReadLockable(tree[node[t]].word)
           /\ vNode' = [vNode EXCEPT ![t] = tree[node[t]].word]
           /\ Goto(t, p)
           /\ UNCHANGED <<node, parent, vParent>>
  <2>1. Others(t) /\ pc'[t] = p /\ vNode'[t] = tree[node[t]].word
    BY <1>2 DEF Goto, IInv, PerThread, Others
  <2>2. tree[node[t]].word \in Nat /\ ~IsLocked(tree[node[t]].word)
    BY <1>2 DEF ReadLockable, IInv, TreeOK, IsNode
  <2>3. Nodes' = Nodes /\ ThreadOK(t)
    BY DEF Nodes, IInv
  <2>4. ThreadOK(t)'
    BY <1>2, <2>1, <2>2, <2>3 DEF ThreadOK
  <2> QED
    BY <2>1, <2>4, QuietStep DEF Locking
<1> QED
  BY <1>1, <1>2 DEF LockNode

\* The descent locks nothing; the pointer it follows leads to a node.
LEMMA DescendKeeps ==
  ASSUME IInv, NothingTornIsUsed, NEW t \in Threads, Descend(t)
  PROVE  IInv' /\ OnlyOwnersWrite
<1> USE DEF shape
<1>1. CASE LockRoot(t)
  <2>1. pc[t] = "lockRoot" /\ LockNode(t, "checkRoot") /\ tree' = tree /\ root' = root
    BY <1>1 DEF LockRoot, At
  <2>2. node[t] \in Nodes
    BY <2>1 DEF IInv, ThreadOK, AtNode
  <2> QED
    BY <2>1, <2>2, LockNodeKeeps DEF Locking
<1>2. CASE LockChild(t)
  <2>1. pc[t] = "lockChild" /\ LockNode(t, "visit") /\ tree' = tree /\ root' = root
    BY <1>2 DEF LockChild, At
  <2>2. node[t] \in Nodes
    BY <2>1 DEF NothingTornIsUsed, At
  <2> QED
    BY <2>1, <2>2, LockNodeKeeps DEF Locking
<1>3. CASE CheckRoot(t)
  <2>1. /\ pc[t] = "checkRoot" /\ tree' = tree /\ root' = root
        /\ Restart(t) \/ (Goto(t, "visit") /\ UNCHANGED path)
    BY <1>3 DEF CheckRoot, At
  <2> QED
    BY <2>1, QuietChoice DEF Free
<1>4. CASE CheckParent(t)
  <2>1. /\ pc[t] = "checkParent" /\ tree' = tree /\ root' = root
        /\ Restart(t) \/ (Goto(t, "readChild") /\ UNCHANGED path)
    BY <1>4 DEF CheckParent, At
  <2> QED
    BY <2>1, QuietChoice DEF Free
<1>5. CASE CheckChild(t)
  <2>1. pc[t] = "checkChild" /\ tree' = tree /\ root' = root
    BY <1>5 DEF CheckChild, At
  <2>2. CASE Restart(t)
    BY <2>1, <2>2, QuietRestart DEF Locking
  <2>3. CASE Goto(t, "lockChild") /\ UNCHANGED path
    <3>1. /\ Others(t) /\ pc'[t] = "lockChild" /\ node' = node /\ parent' = parent
          /\ vNode' = vNode /\ vParent' = vParent
      BY <2>3, GotoMoves
    <3>2. Nodes' = Nodes /\ ThreadOK(t)
      BY <2>1 DEF Nodes, IInv
    <3>3. ThreadOK(t)'
      BY <3>1, <3>2 DEF ThreadOK, AtNode
    <3> QED
      BY <2>1, <3>1, <3>3, QuietStep DEF Locking
  <2> QED
    BY <1>5, <2>2, <2>3 DEF CheckChild
<1>6. CASE Visit(t)
  <2>1. pc[t] = "visit" /\ tree' = tree /\ root' = root /\ UNCHANGED path
    BY <1>6 DEF Visit, At
  <2>2. \E p : /\ Goto(t, p)
               /\ p \in {"lockParent", "lockSplit", "checkParent", "readChild", "lockLeaf",
                         "readLeaf"}
               /\ p = "lockParent" => parent[t] # None
               /\ p = "lockSplit" => parent[t] = None
    BY <1>6 DEF Visit
  <2>3. pc[t] \in Free
    BY <2>1 DEF Free
  <2>4. {"lockParent", "lockSplit", "checkParent", "readChild", "lockLeaf", "readLeaf"}
          \subseteq Free \cup {"lockSplit"}
    BY DEF Free
  <2> QED
    BY <2>1, <2>2, <2>3, <2>4, QuietGoto
<1>7. CASE ReadChild(t)
  <2>1. pc[t] = "readChild" /\ tree' = tree /\ root' = root
    BY <1>7 DEF ReadChild, At
  <2>2. /\ Others(t) /\ pc'[t] = "checkChild" /\ parent'[t] = node[t]
        /\ vParent'[t] = vNode[t] /\ vNode' = vNode
    BY <1>7 DEF ReadChild, Goto, IInv, PerThread, Others
  <2>3. Nodes' = Nodes /\ ThreadOK(t) /\ node[t] \in Nodes
    BY <2>1 DEF Nodes, IInv, ThreadOK, AtNode
  <2>4. ThreadOK(t)'
    BY <2>2, <2>3 DEF ThreadOK, AtNode
  <2> QED
    BY <2>1, <2>2, <2>4, QuietStep DEF Locking
<1> QED
  BY <1>1, <1>2, <1>3, <1>4, <1>5, <1>6, <1>7, ReadRootKeeps DEF Descend

\* A lookup locks nothing.
LEMMA LookupKeeps ==
  ASSUME IInv, NEW t \in Threads, Lookup(t)
  PROVE  IInv' /\ OnlyOwnersWrite
<1> USE DEF shape
<1>1. CASE ReadLeaf(t)
  <2>1. pc[t] = "readLeaf" /\ tree' = tree /\ root' = root /\ UNCHANGED path
    BY <1>1 DEF ReadLeaf, At
  <2>2. Goto(t, "lookupParent") \/ Goto(t, "lookupLeaf")
    BY <1>1 DEF ReadLeaf
  <2> QED
    BY <2>1, <2>2, QuietChoice DEF Free
<1>2. CASE LookupParent(t)
  <2>1. /\ pc[t] = "lookupParent" /\ tree' = tree /\ root' = root
        /\ Restart(t) \/ (Goto(t, "lookupLeaf") /\ UNCHANGED path)
    BY <1>2 DEF LookupParent, At
  <2> QED
    BY <2>1, QuietChoice DEF Free
<1>3. CASE LookupLeaf(t)
  <2>1. /\ pc[t] = "lookupLeaf" /\ tree' = tree /\ root' = root
        /\ Restart(t) \/ (Goto(t, "found") /\ UNCHANGED path)
    BY <1>3 DEF LookupLeaf, At
  <2> QED
    BY <2>1, QuietChoice DEF Free
<1>4. CASE ReturnLookup(t)
  <2>1. pc[t] = "found" /\ tree' = tree /\ root' = root
    BY <1>4 DEF ReturnLookup, At
  <2>2. Others(t) /\ pc'[t] = "idle" /\ ThreadOK(t)'
    BY <1>4, ForgetMoves DEF ReturnLookup, Return, AtNode
  <2> QED
    BY <2>1, <2>2, QuietStep DEF Locking
<1> QED
  BY <1>1, <1>2, <1>3, <1>4 DEF Lookup

-----------------------------------------------------------------------------
(* Locking and unlocking.                                                  *)

\* A step to place p along the path, which keeps what is known of the thread.
LEMMA GotoKeepsThread ==
  ASSUME IInv, NEW t \in Threads, NEW p, Goto(t, p), UNCHANGED path, Nodes \subseteq Nodes',
         pc[t] \in AtNode, p \in AtNode,
         p \in {"lockParent", "linkParent", "unlockParent"} => parent[t] # None,
         p \in {"recheckRoot", "makeRoot"} => parent[t] = None,
         p \in {"split", "linkParent", "unlockNode"} => node[t] # parent[t]
  PROVE  ThreadOK(t)'
<1>1. /\ pc'[t] = p
      /\ node' = node /\ parent' = parent /\ vNode' = vNode /\ vParent' = vParent
  BY GotoMoves
<1> QED
  BY <1>1 DEF ThreadOK, IInv

\* What the compare-and-swap of an upgrade does.
LEMMA UpgradeLocks ==
  ASSUME IInv, NEW n \in Nodes, NEW v \in Nat, ~IsLocked(v), Upgrade(n, v), root' = root
  PROVE  /\ TreeOK' /\ Nodes' = Nodes /\ OnlyOwnersWrite
         /\ ~IsLocked(tree[n].word) /\ IsLocked(tree'[n].word)
         /\ \A m \in Nodes \ {n} : tree'[m] = tree[m]
<1> DEFINE x == [tree[n] EXCEPT !.word = Locked(v)]
<1>1. IsNode(tree[n]) /\ tree[n].word = v
  BY DEF Upgrade, Intact, IInv, TreeOK
<1>2. Locked(v) \in Nat /\ IsLocked(Locked(v))
  BY WordFlips
<1>3. IsNode(x) /\ x.word = Locked(v)
  BY <1>1, <1>2, RewordedIsNode
<1>4. tree' = [tree EXCEPT ![n] = x]
  BY DEF Upgrade
<1>5. x = [tree[n] EXCEPT !.word = Locked(@)]
  BY <1>1
<1> HIDE DEF x
<1>6. /\ TreeOK' /\ Nodes' = Nodes
      /\ \A m \in Nodes : tree'[m] = IF m = n THEN x ELSE tree[m]
  BY <1>3, <1>4, Replaced DEF IInv
<1>7. OnlyOwnersWrite
  BY <1>1, <1>5, <1>6 DEF OnlyOwnersWrite
<1> QED
  BY <1>1, <1>2, <1>3, <1>6, <1>7

\* What an unlock does, of a node that the thread holds.
LEMMA UnlockFrees ==
  ASSUME IInv, NEW t \in Threads, NEW n \in Nodes, Holds(t, n), Unlock(n), root' = root
  PROVE  /\ TreeOK' /\ Nodes' = Nodes /\ OnlyOwnersWrite
         /\ ~IsLocked(tree'[n].word)
         /\ \A m \in Nodes \ {n} : tree'[m] = tree[m]
<1> DEFINE x == [tree[n] EXCEPT !.word = Unlocked(tree[n].word)]
<1>1. IsNode(tree[n]) /\ tree[n].word \in Nat /\ IsLocked(tree[n].word)
  BY DEF IInv, TreeOK, IsNode, LockOK
<1>2. Unlocked(tree[n].word) \in Nat /\ ~IsLocked(Unlocked(tree[n].word))
  BY <1>1, WordFlips
<1>3. IsNode(x) /\ x.word = Unlocked(tree[n].word)
  BY <1>1, <1>2, RewordedIsNode
<1>4. tree' = [tree EXCEPT ![n] = x]
  BY DEF Unlock
<1> HIDE DEF x
<1>5. /\ TreeOK' /\ Nodes' = Nodes
      /\ \A m \in Nodes : tree'[m] = IF m = n THEN x ELSE tree[m]
  BY <1>3, <1>4, Replaced DEF IInv
<1>6. OnlyOwnersWrite
  BY <1>5 DEF OnlyOwnersWrite
<1> QED
  BY <1>2, <1>3, <1>5, <1>6

\* What the owner of a node does that keeps its word.
LEMMA OwnerWrites ==
  ASSUME IInv, NEW t \in Threads, NEW n \in Nodes, Holds(t, n), NEW x, IsNode(x),
         x.word = tree[n].word, tree' = [tree EXCEPT ![n] = x], root' = root
  PROVE  /\ TreeOK' /\ Nodes' = Nodes /\ OnlyOwnersWrite
         /\ \A m \in Nodes : tree'[m].word = tree[m].word
<1>1. /\ TreeOK' /\ Nodes' = Nodes
      /\ \A m \in Nodes : tree'[m] = IF m = n THEN x ELSE tree[m]
  BY Replaced DEF IInv
<1>2. OnlyOwnersWrite
  BY <1>1 DEF OnlyOwnersWrite
<1> QED
  BY <1>1, <1>2

\* A thread gives a lock back.
LEMMA GivesBack ==
  ASSUME IInv, NEW t \in Threads, NEW n \in Nodes, Holds(t, n), Unlock(n), root' = root,
         Others(t), ThreadOK(t)',
         \A m \in Nodes : Holds(t, m)' <=> Holds(t, m) /\ m # n
  PROVE  IInv' /\ OnlyOwnersWrite
<1>1. /\ TreeOK' /\ Nodes' = Nodes /\ OnlyOwnersWrite
      /\ ~IsLocked(tree'[n].word)
      /\ \A m \in Nodes \ {n} : tree'[m] = tree[m]
  BY UnlockFrees
<1>2. ASSUME NEW m \in Nodes PROVE HeldStep(t, m)
  <2>1. CASE m = n
    BY <1>1, <2>1 DEF HeldStep
  <2>2. CASE m # n
    BY <1>1, <2>2 DEF HeldStep
  <2> QED
    BY <2>1, <2>2
<1> QED
  BY <1>1, <1>2, StepKeeps

\* A thread goes on in its critical section: the locks stay as they are.
LEMMA GoesOn ==
  ASSUME IInv, NEW t \in Threads, TreeOK', Nodes' = Nodes, OnlyOwnersWrite,
         \A m \in Nodes : tree'[m].word = tree[m].word,
         Others(t), ThreadOK(t)',
         \A m \in Nodes : Holds(t, m)' <=> Holds(t, m)
  PROVE  IInv' /\ OnlyOwnersWrite
<1>1. \A m \in Nodes : HeldStep(t, m)
  BY DEF HeldStep
<1> QED
  BY <1>1, StepKeeps

-----------------------------------------------------------------------------
(* The steps that lock, write and unlock.                                  *)

\* A split locks the parent first.
LEMMA LockParentKeeps ==
  ASSUME IInv, NEW t \in Threads, LockParent(t)
  PROVE  IInv' /\ OnlyOwnersWrite
<1>1. pc[t] = "lockParent" /\ root' = root
  BY DEF LockParent, At, shape
<1>2. CASE Restart(t) /\ UNCHANGED tree
  BY <1>1, <1>2, QuietRestart DEF Locking
<1>3. CASE Upgrade(parent[t], vParent[t]) /\ Goto(t, "lockSplit") /\ UNCHANGED path
  <2>1. parent[t] \in Nodes /\ ThreadOK(t)
    BY <1>1 DEF IInv, ThreadOK
  <2>2. vParent[t] \in Nat /\ ~IsLocked(vParent[t])
    BY <2>1 DEF ThreadOK
  <2>3. /\ TreeOK' /\ Nodes' = Nodes /\ OnlyOwnersWrite
        /\ ~IsLocked(tree[parent[t]].word) /\ IsLocked(tree'[parent[t]].word)
        /\ \A m \in Nodes \ {parent[t]} : tree'[m] = tree[m]
    BY <1>1, <1>3, <2>1, <2>2, UpgradeLocks
  <2>4. Others(t) /\ pc'[t] = "lockSplit" /\ node' = node /\ parent' = parent
    BY <1>3, GotoMoves
  <2>5. ThreadOK(t)'
    BY <1>1, <1>3, <2>3, GotoKeepsThread DEF AtNode
  <2>6. \A m \in Nodes : ~Holds(t, m) /\ (Holds(t, m)' <=> m = parent[t])
    BY <1>1, <2>4 DEF Holds
  <2>7. \A m \in Nodes : HeldStep(t, m)
    BY <2>3, <2>6 DEF HeldStep
  <2> QED
    BY <2>3, <2>4, <2>5, <2>7, StepKeeps
<1> QED
  BY <1>2, <1>3 DEF LockParent

\* Then it locks the node, which is another one: the parent is locked by now.
LEMMA LockSplitKeeps ==
  ASSUME IInv, NEW t \in Threads, LockSplit(t)
  PROVE  IInv' /\ OnlyOwnersWrite
<1>1. pc[t] = "lockSplit" /\ root' = root /\ ThreadOK(t) /\ node[t] \in Nodes
  BY DEF LockSplit, At, shape, IInv, ThreadOK, AtNode
<1>2. \A m \in Nodes : Holds(t, m) <=> m = parent[t]
  BY <1>1 DEF Holds
<1>3. None \notin Nodes
  BY NodesAreNumbers DEF IInv
<1>4. CASE /\ Upgrade(node[t], vNode[t]) /\ UNCHANGED path
           /\ Goto(t, IF parent[t] # None THEN "split" ELSE "recheckRoot")
  <2> DEFINE p == IF parent[t] # None THEN "split" ELSE "recheckRoot"
  <2>1. vNode[t] \in Nat /\ ~IsLocked(vNode[t])
    BY <1>1 DEF ThreadOK
  <2>2. /\ TreeOK' /\ Nodes' = Nodes /\ OnlyOwnersWrite
        /\ ~IsLocked(tree[node[t]].word) /\ IsLocked(tree'[node[t]].word)
        /\ \A m \in Nodes \ {node[t]} : tree'[m] = tree[m]
    BY <1>1, <1>4, <2>1, UpgradeLocks
  <2>3. Others(t) /\ pc'[t] = p /\ node' = node /\ parent' = parent
    BY <1>4, GotoMoves
  <2>4. node[t] # parent[t]
    BY <1>1, <1>2, <2>2 DEF IInv, LockOK
  <2>5. ThreadOK(t)'
    <3>1. CASE parent[t] = None
      BY <1>1, <1>4, <2>2, <2>4, <3>1, GotoKeepsThread DEF AtNode
    <3>2. CASE parent[t] # None
      BY <1>1, <1>4, <2>2, <2>4, <3>2, GotoKeepsThread DEF AtNode
    <3> QED
      BY <3>1, <3>2
  <2>6. \A m \in Nodes : Holds(t, m)' <=> m = node[t] \/ m = parent[t]
    BY <1>3, <2>3 DEF Holds
  <2>7. \A m \in Nodes : HeldStep(t, m)
    BY <1>2, <2>2, <2>6 DEF HeldStep
  <2> QED
    BY <2>2, <2>3, <2>5, <2>7, StepKeeps
<1>5. CASE tree' = tree /\ Restart(t) /\ parent[t] = None
  <2>1. Others(t) /\ pc'[t] = "readRoot" /\ ThreadOK(t)'
    BY <1>5, RestartMoves
  <2>2. \A m \in Nodes : ~Holds(t, m) /\ ~Holds(t, m)'
    BY <1>2, <1>3, <1>5, <2>1 DEF Holds
  <2>3. Nodes' = Nodes /\ TreeOK' /\ OnlyOwnersWrite
    BY <1>1, <1>5 DEF Nodes, TreeOK, IInv, OnlyOwnersWrite
  <2> QED
    BY <1>5, <2>1, <2>2, <2>3, GoesOn
<1>6. CASE tree' = tree /\ Goto(t, "unlockParent") /\ UNCHANGED path /\ parent[t] # None
  <2>1. Others(t) /\ pc'[t] = "unlockParent" /\ node' = node /\ parent' = parent
    BY <1>6, GotoMoves
  <2>2. Nodes' = Nodes /\ TreeOK' /\ OnlyOwnersWrite
    BY <1>1, <1>6 DEF Nodes, TreeOK, IInv, OnlyOwnersWrite
  <2>3. ThreadOK(t)'
    BY <1>1, <1>6, <2>2, GotoKeepsThread DEF AtNode
  <2>4. \A m \in Nodes : Holds(t, m)' <=> m = parent[t]
    BY <2>1 DEF Holds
  <2> QED
    BY <1>2, <1>6, <2>1, <2>2, <2>3, <2>4, GoesOn
<1> QED
  BY <1>4, <1>5, <1>6 DEF LockSplit

\* An insert without a split locks the leaf alone.
LEMMA LockLeafKeeps ==
  ASSUME IInv, NEW t \in Threads, LockLeaf(t)
  PROVE  IInv' /\ OnlyOwnersWrite
<1>1. pc[t] = "lockLeaf" /\ root' = root /\ ThreadOK(t) /\ node[t] \in Nodes
  BY DEF LockLeaf, At, shape, IInv, ThreadOK, AtNode
<1>2. CASE Restart(t) /\ UNCHANGED tree
  BY <1>1, <1>2, QuietRestart DEF Locking
<1>3. CASE /\ Upgrade(node[t], vNode[t]) /\ UNCHANGED path
           /\ Goto(t, IF parent[t] # None THEN "leafParent" ELSE "insert")
  <2> DEFINE p == IF parent[t] # None THEN "leafParent" ELSE "insert"
  <2>1. vNode[t] \in Nat /\ ~IsLocked(vNode[t])
    BY <1>1 DEF ThreadOK
  <2>2. /\ TreeOK' /\ Nodes' = Nodes /\ OnlyOwnersWrite
        /\ ~IsLocked(tree[node[t]].word) /\ IsLocked(tree'[node[t]].word)
        /\ \A m \in Nodes \ {node[t]} : tree'[m] = tree[m]
    BY <1>1, <1>3, <2>1, UpgradeLocks
  <2>3. Others(t) /\ pc'[t] = p /\ node' = node /\ parent' = parent
    BY <1>3, GotoMoves
  <2>4. p \in AtNode /\ p \in {"leafParent", "insert"}
    BY DEF AtNode
  <2> HIDE DEF p
  <2>5. ThreadOK(t)'
    BY <1>1, <2>2, <2>3, <2>4, <1>3, GotoKeepsThread DEF AtNode, p
  <2>6. \A m \in Nodes : ~Holds(t, m) /\ (Holds(t, m)' <=> m = node[t])
    BY <1>1, <2>3, <2>4 DEF Holds
  <2>7. \A m \in Nodes : HeldStep(t, m)
    BY <2>2, <2>6 DEF HeldStep
  <2> QED
    BY <2>2, <2>3, <2>5, <2>7, StepKeeps
<1> QED
  BY <1>2, <1>3 DEF LockLeaf

\* The tests that are made under the lock.
LEMMA TestKeeps ==
  ASSUME IInv, NEW t \in Threads, RecheckRoot(t) \/ LeafParent(t)
  PROVE  IInv' /\ OnlyOwnersWrite
<1>1. /\ pc[t] \in {"recheckRoot", "leafParent"} /\ tree' = tree /\ root' = root
      /\ UNCHANGED path /\ ThreadOK(t)
  BY DEF RecheckRoot, LeafParent, At, shape, IInv
<1>2. node[t] \in Nodes /\ None \notin Nodes
  BY <1>1, NodesAreNumbers DEF IInv, ThreadOK, AtNode
<1>3. Nodes' = Nodes /\ TreeOK' /\ OnlyOwnersWrite
  BY <1>1 DEF Nodes, TreeOK, IInv, OnlyOwnersWrite
<1>4. CASE RecheckRoot(t)
  <2>1. PICK p \in {"split", "unlockNode"} : Goto(t, p)
    BY <1>4 DEF RecheckRoot
  <2>2. Others(t) /\ pc'[t] = p /\ node' = node /\ parent' = parent
    BY <1>1, <2>1, GotoMoves
  <2>3. pc[t] = "recheckRoot" /\ parent[t] = None
    BY <1>1, <1>4 DEF RecheckRoot, At, ThreadOK
  <2>4. ThreadOK(t)'
    BY <1>1, <1>2, <1>3, <2>1, <2>3, GotoKeepsThread DEF AtNode
  <2>5. \A m \in Nodes : Holds(t, m)' <=> Holds(t, m)
    BY <1>2, <2>1, <2>2, <2>3 DEF Holds
  <2> QED
    BY <1>1, <1>3, <2>2, <2>4, <2>5, GoesOn
<1>5. CASE LeafParent(t)
  <2>1. PICK p \in {"insert", "abandonLeaf"} : Goto(t, p)
    BY <1>5 DEF LeafParent
  <2>2. Others(t) /\ pc'[t] = p /\ node' = node /\ parent' = parent
    BY <1>1, <2>1, GotoMoves
  <2>3. pc[t] = "leafParent"
    BY <1>5 DEF LeafParent, At
  <2>4. ThreadOK(t)'
    BY <1>1, <1>3, <2>1, <2>3, GotoKeepsThread DEF AtNode
  <2>5. \A m \in Nodes : Holds(t, m)' <=> Holds(t, m)
    BY <2>1, <2>2, <2>3 DEF Holds
  <2> QED
    BY <1>1, <1>3, <2>2, <2>4, <2>5, GoesOn
<1> QED
  BY <1>4, <1>5

\* The writes that replace one node.
LEMMA WriteKeeps ==
  ASSUME IInv, NEW t \in Threads, LinkParent(t) \/ InsertIntoLeaf(t)
  PROVE  IInv' /\ OnlyOwnersWrite
<1>1. ThreadOK(t) /\ root' = root /\ UNCHANGED path
  BY DEF LinkParent, InsertIntoLeaf, shape, IInv
<1>2. CASE LinkParent(t)
  <2> DEFINE x == InnerInsert(tree[parent[t]], sep[t].key, sep[t].new)
  <2>1. pc[t] = "linkParent" /\ tree' = [tree EXCEPT ![parent[t]] = x]
        /\ Goto(t, "unlockNode")
    BY <1>2 DEF LinkParent, At
  <2>2. parent[t] \in Nodes /\ node[t] # parent[t]
    BY <1>1, <2>1 DEF ThreadOK
  <2>3. IsNode(tree[parent[t]])
    BY <2>2 DEF IInv, TreeOK
  <2>4. IsNode(x) /\ x.word = tree[parent[t]].word
    BY <2>3, InsertedIsNode
  <2> HIDE DEF x
  <2>5. Holds(t, parent[t])
    BY <2>1 DEF Holds
  <2>6. /\ TreeOK' /\ Nodes' = Nodes /\ OnlyOwnersWrite
        /\ \A m \in Nodes : tree'[m].word = tree[m].word
    BY <1>1, <2>1, <2>2, <2>4, <2>5, OwnerWrites
  <2>7. Others(t) /\ pc'[t] = "unlockNode" /\ node' = node /\ parent' = parent
    BY <1>1, <2>1, GotoMoves
  <2>8. ThreadOK(t)'
    BY <1>1, <2>1, <2>2, <2>6, GotoKeepsThread DEF AtNode
  <2>9. \A m \in Nodes : Holds(t, m)' <=> Holds(t, m)
    BY <2>1, <2>7 DEF Holds
  <2> QED
    BY <2>6, <2>7, <2>8, <2>9, GoesOn
<1>3. CASE InsertIntoLeaf(t)
  <2> DEFINE x == LeafInsert(tree[node[t]], op[t].key, op[t].value)
  <2>1. pc[t] = "insert" /\ tree' = [tree EXCEPT ![node[t]] = x] /\ Goto(t, "inserted")
    BY <1>3 DEF InsertIntoLeaf, At
  <2>2. node[t] \in Nodes
    BY <1>1, <2>1 DEF ThreadOK, AtNode
  <2>3. IsNode(tree[node[t]])
    BY <2>2 DEF IInv, TreeOK
  <2>4. IsNode(x) /\ x.word = tree[node[t]].word
    BY <2>3, InsertedIsNode
  <2> HIDE DEF x
  <2>5. Holds(t, node[t])
    BY <2>1 DEF Holds
  <2>6. /\ TreeOK' /\ Nodes' = Nodes /\ OnlyOwnersWrite
        /\ \A m \in Nodes : tree'[m].word = tree[m].word
    BY <1>1, <2>1, <2>2, <2>4, <2>5, OwnerWrites
  <2>7. Others(t) /\ pc'[t] = "inserted" /\ node' = node /\ parent' = parent
    BY <1>1, <2>1, GotoMoves
  <2>8. ThreadOK(t)'
    BY <1>1, <2>1, <2>6, GotoKeepsThread DEF AtNode
  <2>9. \A m \in Nodes : Holds(t, m)' <=> Holds(t, m)
    BY <2>1, <2>7 DEF Holds
  <2> QED
    BY <2>6, <2>7, <2>8, <2>9, GoesOn
<1> QED
  BY <1>2, <1>3

\* A step that appends a free node, which nobody holds: the others keep their
\* words, and only what the thread owns has changed.
LEMMA NewNode ==
  ASSUME IInv, NEW t \in Threads, Others(t), ThreadOK(t)', TreeOK',
         NEW id, id = Len(tree) + 1, Nodes' = Nodes \cup {id}, ~IsLocked(tree'[id].word),
         node'[t] = node[t], parent'[t] = parent[t], node[t] \in Nodes,
         \A m \in Nodes : tree'[m].word = tree[m].word,
         \A m \in Nodes : tree'[m] = tree[m] \/ Holds(t, m),
         \A m \in Nodes : Holds(t, m)' <=> Holds(t, m)
  PROVE  IInv' /\ OnlyOwnersWrite
<1>1. \A m \in Nodes : HeldStep(t, m)
  BY DEF HeldStep
<1>2. ~Holds(t, id)'
  <2>1. Len(tree) \in Nat /\ Nodes = 1 .. Len(tree)
    BY NodesAreNumbers DEF IInv
  <2>2. id \notin Nodes /\ id \in Nat
    BY <2>1
  <2>3. parent[t] # id /\ node[t] # id
    BY <2>2, NullAssumption DEF IInv, ThreadOK
  <2> QED
    BY <2>3 DEF Holds
<1>3. \A m \in Nodes' \ Nodes : ~IsLocked(tree'[m].word) /\ ~Holds(t, m)'
  BY <1>2
<1>4. OnlyOwnersWrite
  BY DEF OnlyOwnersWrite
<1> QED
  BY <1>1, <1>3, <1>4, StepKeeps

\* A tree with another node n, and one more node.
Grown(n, x, y) == Append([tree EXCEPT ![n] = x], y)

\* The tree that has grown has the nodes of the other one, and the new one.
LEMMA ReplacedAndAppended ==
  ASSUME TreeOK, NEW n \in Nodes, NEW x, IsNode(x), NEW y, IsNode(y),
         tree' = Grown(n, x, y),
         NEW id, id = Len(tree) + 1, root' \in Nodes \cup {id}
  PROVE  /\ TreeOK' /\ Nodes' = Nodes \cup {id}
         /\ \A m \in Nodes : tree'[m] = IF m = n THEN x ELSE tree[m]
         /\ tree'[id] = y
<1> DEFINE s == [tree EXCEPT ![n] = x]
<1>1. PICK S : tree \in Seq(S)
  BY DEF TreeOK
<1>2. Len(tree) \in Nat /\ Nodes = 1 .. Len(tree)
  BY NodesAreNumbers
<1>3. s \in Seq(S \cup {x}) /\ Len(s) = Len(tree)
  BY <1>1 DEF Nodes
<1>4. \A m \in Nodes : s[m] = IF m = n THEN x ELSE tree[m]
  BY DEF Nodes
<1> HIDE DEF s
<1>5. /\ Append(s, y) \in Seq((S \cup {x}) \cup {y})
      /\ DOMAIN Append(s, y) = 1 .. Len(s) + 1
      /\ \A m \in 1 .. Len(s) : Append(s, y)[m] = s[m]
      /\ Append(s, y)[Len(s) + 1] = y
  BY <1>3, Appended
<1>6. tree' = Append(s, y)
  BY DEF s, Grown
<1>7. Nodes' = Nodes \cup {id}
  BY <1>2, <1>3, <1>5, <1>6 DEF Nodes
<1>8. /\ \A m \in Nodes : tree'[m] = IF m = n THEN x ELSE tree[m]
      /\ tree'[id] = y
  BY <1>2, <1>3, <1>4, <1>5, <1>6
<1>9. \A m \in Nodes' : IsNode(tree'[m])
  BY <1>7, <1>8 DEF TreeOK
<1> QED
  BY <1>5, <1>6, <1>7, <1>8, <1>9 DEF TreeOK

\* A split writes one node, which the thread has locked, and adds one.
LEMMA SplitKeeps ==
  ASSUME IInv, NEW t \in Threads, Split(t)
  PROVE  IInv' /\ OnlyOwnersWrite
<1>0. PICK newId : newId = Len(tree) + 1
  OBVIOUS
<1> DEFINE half == IF IsInner(node[t]) THEN InnerSplit(tree[node[t]])
                                       ELSE LeafSplit(tree[node[t]], newId)
<1>1. /\ pc[t] = "split" /\ root' = root /\ UNCHANGED path
      /\ tree' = Append([tree EXCEPT ![node[t]] = half.left], half.right)
  BY <1>0 DEF Split, At
<1>2. PICK p \in {"linkParent", "makeRoot"} :
        /\ Goto(t, p)
        /\ p = "linkParent" <=> parent[t] # None
  BY DEF Split
<1>3. ThreadOK(t) /\ node[t] \in Nodes /\ node[t] # parent[t]
  BY <1>1 DEF IInv, ThreadOK, AtNode
<1>4. IsNode(tree[node[t]]) /\ TreeOK /\ root \in Nodes
  BY <1>3 DEF IInv, TreeOK
<1>5. /\ IsNode(half.left) /\ half.left.word = tree[node[t]].word
      /\ IsNode(half.right) /\ half.right.word = InitialWord
  BY <1>4, HalvesAreNodes
<1> DEFINE l == half.left
           r == half.right
<1> HIDE DEF half, l, r
<1>6. /\ TreeOK' /\ Nodes' = Nodes \cup {newId}
      /\ \A m \in Nodes : tree'[m] = IF m = node[t] THEN l ELSE tree[m]
      /\ tree'[newId] = r
  <2>1. tree' = Grown(node[t], l, r) /\ IsNode(l) /\ IsNode(r)
    BY <1>1, <1>5 DEF l, r, Grown
  <2>2. root' \in Nodes \cup {newId}
    BY <1>1, <1>4
  <2> QED
    BY <1>0, <1>3, <1>4, <2>1, <2>2, ReplacedAndAppended
<1>7. Others(t) /\ pc'[t] = p /\ node' = node /\ parent' = parent
  BY <1>1, <1>2, GotoMoves
<1>8. ThreadOK(t)'
  BY <1>1, <1>2, <1>3, <1>6, GotoKeepsThread DEF AtNode
<1>9. \A m \in Nodes : Holds(t, m)' <=> Holds(t, m)
  <2>1. None \notin Nodes
    BY NodesAreNumbers DEF IInv
  <2> QED
    BY <1>1, <1>2, <1>7, <2>1 DEF Holds
<1>10. Holds(t, node[t])
  BY <1>1 DEF Holds
<1>11. /\ \A m \in Nodes : tree'[m].word = tree[m].word
       /\ \A m \in Nodes : tree'[m] = tree[m] \/ Holds(t, m)
  BY <1>5, <1>6, <1>10 DEF l
<1>12. ~IsLocked(tree'[newId].word)
  BY <1>5, <1>6, NewIsFree DEF r
<1> QED
  BY <1>0, <1>3, <1>6, <1>7, <1>8, <1>9, <1>11, <1>12, NewNode

\* A new root is added, and nothing else is written.
LEMMA MakeRootKeeps ==
  ASSUME IInv, NEW t \in Threads, MakeRoot(t)
  PROVE  IInv' /\ OnlyOwnersWrite
<1>0. PICK newId : newId = Len(tree) + 1
  OBVIOUS
<1> DEFINE top == Inner(<<sep[t].key>>, <<node[t], sep[t].new>>)
<1>1. /\ pc[t] = "makeRoot" /\ root' = newId /\ UNCHANGED path
      /\ Goto(t, "unlockNode") /\ tree' = Append(tree, top)
  BY <1>0 DEF MakeRoot, At
<1>2. ThreadOK(t) /\ node[t] \in Nodes /\ parent[t] = None
  BY <1>1 DEF IInv, ThreadOK, AtNode
<1>3. None \notin Nodes
  BY NodesAreNumbers DEF IInv
<1>4. IsNode(tree[node[t]]) /\ TreeOK
  BY <1>2 DEF IInv, TreeOK
<1>5. IsNode(top) /\ top.word = InitialWord
  BY NewIsFree DEF IsNode, Inner
<1> HIDE DEF top
<1>6. /\ TreeOK' /\ Nodes' = Nodes \cup {newId}
      /\ \A m \in Nodes : tree'[m] = tree[m]
      /\ tree'[newId] = top
  <2>1. PICK S : tree \in Seq(S)
    BY <1>4 DEF TreeOK
  <2>2. tree = [tree EXCEPT ![node[t]] = tree[node[t]]]
    BY <2>1
  <2>3. tree' = Grown(node[t], tree[node[t]], top)
    BY <1>1, <2>2 DEF Grown
  <2>4. /\ TreeOK' /\ Nodes' = Nodes \cup {newId}
        /\ \A m \in Nodes : tree'[m] = IF m = node[t] THEN tree[node[t]] ELSE tree[m]
        /\ tree'[newId] = top
    BY <1>0, <1>1, <1>2, <1>4, <1>5, <2>3, ReplacedAndAppended
  <2> QED
    BY <2>4
<1>7. Others(t) /\ pc'[t] = "unlockNode" /\ node' = node /\ parent' = parent
  BY <1>1, GotoMoves
<1>8. ThreadOK(t)'
  BY <1>1, <1>2, <1>3, <1>6, GotoKeepsThread DEF AtNode
<1>9. \A m \in Nodes : Holds(t, m)' <=> Holds(t, m)
  BY <1>1, <1>2, <1>3, <1>7 DEF Holds
<1>10. ~IsLocked(tree'[newId].word)
  BY <1>5, <1>6, NewIsFree
<1> QED
  BY <1>0, <1>2, <1>6, <1>7, <1>8, <1>9, <1>10, NewNode

\* The unlocks: each gives back one lock, the last ones end the operation or
\* start it over.
LEMMA UnlockKeeps ==
  ASSUME IInv, NEW t \in Threads,
         UnlockNode(t) \/ UnlockParent(t) \/ AbandonLeaf(t) \/ ReturnInsert(t)
  PROVE  IInv' /\ OnlyOwnersWrite
<1> USE DEF At, shape
<1>1. ThreadOK(t) /\ root' = root /\ None \notin Nodes
  BY NodesAreNumbers DEF UnlockNode, UnlockParent, AbandonLeaf, ReturnInsert, IInv
<1>2. CASE UnlockNode(t)
  <2>1. pc[t] = "unlockNode" /\ Unlock(node[t])
    BY <1>2 DEF UnlockNode
  <2>2. node[t] \in Nodes /\ node[t] # parent[t]
    BY <1>1, <2>1 DEF ThreadOK, AtNode
  <2>3. \A m \in Nodes : Holds(t, m) <=> m = node[t] \/ m = parent[t]
    BY <2>1 DEF Holds
  <2>4. Nodes' = Nodes
    BY <1>1, <2>1, <2>2, <2>3, UnlockFrees
  <2>5. CASE parent[t] # None
    <3>1. Goto(t, "unlockParent") /\ UNCHANGED path
      BY <1>2, <2>5 DEF UnlockNode
    <3>2. Others(t) /\ pc'[t] = "unlockParent" /\ node' = node /\ parent' = parent
      BY <3>1, GotoMoves
    <3>3. ThreadOK(t)'
      BY <2>1, <2>4, <2>5, <3>1, GotoKeepsThread DEF AtNode
    <3>4. \A m \in Nodes : Holds(t, m)' <=> m = parent[t]
      BY <3>2 DEF Holds
    <3>5. \A m \in Nodes : Holds(t, m)' <=> Holds(t, m) /\ m # node[t]
      BY <2>2, <2>3, <3>4
    <3> QED
      BY <1>1, <2>1, <2>2, <2>3, <3>2, <3>3, <3>5, GivesBack
  <2>6. CASE parent[t] = None
    <3>1. Others(t) /\ pc'[t] = "readRoot" /\ ThreadOK(t)'
      BY <1>2, <2>6, RestartMoves DEF UnlockNode
    <3>2. \A m \in Nodes : Holds(t, m)' <=> Holds(t, m) /\ m # node[t]
      BY <1>1, <2>3, <2>6, <3>1 DEF Holds
    <3> QED
      BY <1>1, <2>1, <2>2, <2>3, <3>1, <3>2, GivesBack
  <2> QED
    BY <2>5, <2>6
<1>3. CASE UnlockParent(t)
  <2>1. pc[t] = "unlockParent" /\ Unlock(parent[t]) /\ Restart(t)
    BY <1>3 DEF UnlockParent
  <2>2. parent[t] \in Nodes
    BY <1>1, <2>1 DEF ThreadOK
  <2>3. Others(t) /\ pc'[t] = "readRoot" /\ ThreadOK(t)'
    BY <2>1, RestartMoves
  <2>4. /\ Holds(t, parent[t])
        /\ \A m \in Nodes : Holds(t, m)' <=> Holds(t, m) /\ m # parent[t]
    BY <2>1, <2>3 DEF Holds
  <2> QED
    BY <1>1, <2>1, <2>2, <2>3, <2>4, GivesBack
<1>4. CASE AbandonLeaf(t) \/ ReturnInsert(t)
  <2>1. pc[t] \in {"abandonLeaf", "inserted"} /\ Unlock(node[t])
    BY <1>4 DEF AbandonLeaf, ReturnInsert
  <2>2. node[t] \in Nodes
    BY <1>1, <2>1 DEF ThreadOK, AtNode
  <2>3. Others(t) /\ pc'[t] \in {"readRoot", "idle"} /\ ThreadOK(t)'
    <3>1. CASE AbandonLeaf(t)
      BY <3>1, RestartMoves DEF AbandonLeaf
    <3>2. CASE ReturnInsert(t)
      BY <3>2, ForgetMoves DEF ReturnInsert, Return, AtNode
    <3> QED
      BY <1>4, <3>1, <3>2
  <2>4. /\ Holds(t, node[t])
        /\ \A m \in Nodes : Holds(t, m)' <=> Holds(t, m) /\ m # node[t]
    BY <2>1, <2>3 DEF Holds
  <2> QED
    BY <1>1, <2>1, <2>2, <2>3, <2>4, GivesBack
<1> QED
  BY <1>2, <1>3, <1>4

-----------------------------------------------------------------------------
(* All steps together.                                                     *)

\* The tree begins as one free leaf, and nobody is at a node.
LEMMA InitIInv == Init => IInv
<1> SUFFICES ASSUME Init PROVE IInv
  OBVIOUS
<1> DEFINE leaf == Leaf(<<>>, <<>>, None)
<1>1. IsNode(leaf) /\ leaf.word = InitialWord
  BY NewIsFree DEF IsNode, Leaf
<1> HIDE DEF leaf
<1>2. tree = <<leaf>> /\ root = 1 /\ Nodes = {1}
  BY DEF Init, leaf, Nodes
<1>3. TreeOK
  <2>1. tree \in Seq({leaf}) /\ tree[1] = leaf
    BY <1>2
  <2>2. \E S : tree \in Seq(S)
    BY <2>1
  <2>3. root \in Nodes /\ \A n \in Nodes : IsNode(tree[n])
    BY <1>1, <1>2, <2>1
  <2> QED
    BY <2>2, <2>3 DEF TreeOK
<1>4. PerThread
  BY DEF Init, PerThread
<1>5. \A t \in Threads : ThreadOK(t) /\ \A n \in Nodes : ~Holds(t, n)
  BY <1>2, NewIsFree DEF Init, ThreadOK, Holds, AtNode
<1>6. \A n \in Nodes : LockOK(n)
  BY <1>1, <1>2, <1>5, NewIsFree DEF LockOK
<1> QED
  BY <1>3, <1>4, <1>5, <1>6 DEF IInv

\* Every step keeps the invariant, and writes what it owns.
LEMMA NextKeeps ==
  ASSUME IInv, NothingTornIsUsed, [Next]_vars
  PROVE  IInv' /\ OnlyOwnersWrite
<1>1. CASE UNCHANGED vars
  <2>1. /\ tree' = tree /\ root' = root /\ pc' = pc /\ node' = node /\ parent' = parent
        /\ vNode' = vNode /\ vParent' = vParent
    BY <1>1 DEF vars, shape, path
  <2> QED
    BY <2>1 DEF IInv, TreeOK, PerThread, ThreadOK, LockOK, Holds, Nodes, OnlyOwnersWrite
<1>2. ASSUME NEW t \in Threads, Begin(t) PROVE IInv' /\ OnlyOwnersWrite
  BY <1>2, BeginKeeps
<1>3. ASSUME NEW t \in Threads, Descend(t) PROVE IInv' /\ OnlyOwnersWrite
  BY <1>3, DescendKeeps
<1>4. ASSUME NEW t \in Threads, SplitNode(t) PROVE IInv' /\ OnlyOwnersWrite
  BY <1>4, LockParentKeeps, LockSplitKeeps, TestKeeps, SplitKeeps, WriteKeeps,
     MakeRootKeeps, UnlockKeeps DEF SplitNode
<1>5. ASSUME NEW t \in Threads, Insert(t) PROVE IInv' /\ OnlyOwnersWrite
  BY <1>5, LockLeafKeeps, TestKeeps, WriteKeeps, UnlockKeeps DEF Insert
<1>6. ASSUME NEW t \in Threads, Lookup(t) PROVE IInv' /\ OnlyOwnersWrite
  BY <1>6, LookupKeeps
<1> QED
  BY <1>1, <1>2, <1>3, <1>4, <1>5, <1>6 DEF Next, Step

\* The invariant counts the owners of a node.
LEMMA OwnersAreCounted == IInv => LocksHaveOneOwner
<1> SUFFICES ASSUME IInv, NEW n \in Nodes
             PROVE  Cardinality({t \in Threads : Holds(t, n)})
                      = IF IsLocked(tree[n].word) THEN 1 ELSE 0
  BY DEF LocksHaveOneOwner
<1> DEFINE owners == {t \in Threads : Holds(t, n)}
<1>1. LockOK(n)
  BY DEF IInv
<1>2. CASE IsLocked(tree[n].word)
  <2>1. PICK t \in Threads : Holds(t, n)
    BY <1>1, <1>2 DEF LockOK
  <2>2. owners = {t}
    BY <1>1, <2>1 DEF LockOK
  <2>3. Cardinality({t}) = 1
    BY FS_Singleton
  <2> QED
    BY <1>2, <2>2, <2>3
<1>3. CASE ~IsLocked(tree[n].word)
  <2>1. owners = {}
    BY <1>1, <1>3 DEF LockOK
  <2> QED
    BY <1>3, <2>1, FS_EmptySet
<1> QED
  BY <1>2, <1>3

-----------------------------------------------------------------------------
(* What is read without a lock.                                             *)

\* What a thread may be asked.
Inserts == [kind : {"insert"}, key : Keys, value : Values]
Lookups == [kind : {"lookup"}, key : Keys]

\* How many keys a node may have: one that has as many is full.
MaxKeys(x) == IF x.type = "inner" THEN InnerMax - 1 ELSE LeafMax

\* A leaf has a value to every key, an inner node one child more than keys.
ContentOK(x, S) ==
  /\ x.keys \in Seq(Keys) /\ Len(x.keys) <= MaxKeys(x)
  /\ x.type = "inner" => x.kids \in Seq(S) /\ Len(x.kids) = Len(x.keys) + 1
  /\ x.type # "inner" => x.vals \in Seq(Values) /\ Len(x.vals) = Len(x.keys)

\* All nodes have the keys, values and children they should have.
ContentsOK == \A n \in Nodes : ContentOK(tree[n], Nodes)

-----------------------------------------------------------------------------
\* The binary search ends at a key or behind the last one.
LEMMA LowerBoundIsPosition ==
  ASSUME NEW S, NEW keys \in Seq(S), NEW k
  PROVE  LowerBound(keys, k) \in 0 .. Len(keys)
<1> DEFINE below == {i \in DOMAIN keys : keys[i] < k}
<1>1. DOMAIN keys = 1 .. Len(keys) /\ Len(keys) \in Nat
  OBVIOUS
<1>2. IsFiniteSet(1 .. Len(keys)) /\ Cardinality(1 .. Len(keys)) = Len(keys)
  BY <1>1, FS_Interval
<1>3. below \in SUBSET (1 .. Len(keys))
  BY <1>1
<1>4. IsFiniteSet(below) /\ Cardinality(below) <= Len(keys)
  BY <1>2, <1>3, FS_Subset
<1>5. Cardinality(below) \in Nat
  BY <1>4, FS_CardinalityType
<1> QED
  BY <1>1, <1>4, <1>5 DEF LowerBound

\* A sequence over a set is one over a larger set.
LEMMA LargerSet ==
  ASSUME NEW S, NEW T, S \subseteq T, NEW s \in Seq(S)
  PROVE  s \in Seq(T)
OBVIOUS

\* Two sequences, one behind the other.
LEMMA Joined ==
  ASSUME NEW S, NEW a \in Seq(S), NEW b \in Seq(S)
  PROVE  a \o b \in Seq(S) /\ Len(a \o b) = Len(a) + Len(b)
OBVIOUS

\* Inserting an element makes the sequence longer by one.
LEMMA InsertAtLonger ==
  ASSUME NEW S, NEW s \in Seq(S), NEW e \in S, NEW i \in 1 .. Len(s) + 1
  PROVE  InsertAt(s, i, e) \in Seq(S) /\ Len(InsertAt(s, i, e)) = Len(s) + 1
<1>1. SubSeq(s, 1, i - 1) \in Seq(S) /\ Len(SubSeq(s, 1, i - 1)) = i - 1
  OBVIOUS
<1>2. SubSeq(s, i, Len(s)) \in Seq(S) /\ Len(SubSeq(s, i, Len(s))) = Len(s) - i + 1
  OBVIOUS
<1>3. <<e>> \in Seq(S) /\ Len(<<e>>) = 1
  OBVIOUS
<1> DEFINE a == SubSeq(s, 1, i - 1)
           b == SubSeq(s, i, Len(s))
<1> HIDE DEF a, b
<1>4. /\ a \in Seq(S) /\ Len(a) = i - 1 /\ b \in Seq(S) /\ Len(b) = Len(s) - i + 1
      /\ InsertAt(s, i, e) = a \o <<e>> \o b
  BY <1>1, <1>2 DEF a, b, InsertAt
<1>5. a \o <<e>> \in Seq(S) /\ Len(a \o <<e>>) = i
  BY <1>3, <1>4, Joined
<1> DEFINE c == a \o <<e>>
<1> HIDE DEF c
<1>6. c \in Seq(S) /\ Len(c) = i /\ InsertAt(s, i, e) = c \o b
  BY <1>4, <1>5 DEF c
<1>7. c \o b \in Seq(S) /\ Len(c \o b) = Len(c) + Len(b)
  BY <1>4, <1>6, Joined
<1>8. Len(c) + Len(b) = Len(s) + 1
  BY <1>4, <1>6
<1> QED
  BY <1>6, <1>7, <1>8

\* Changing an element of a sequence.
LEMMA ElementChanged ==
  ASSUME NEW S, NEW s \in Seq(S), NEW e \in S, NEW i \in 1 .. Len(s)
  PROVE  [s EXCEPT ![i] = e] \in Seq(S) /\ Len([s EXCEPT ![i] = e]) = Len(s)
<1> DEFINE w == [s EXCEPT ![i] = e]
<1>1. DOMAIN s = 1 .. Len(s) /\ Len(s) \in Nat /\ \A j \in 1 .. Len(s) : s[j] \in S
  OBVIOUS
<1>2. w = [j \in 1 .. Len(s) |-> IF j = i THEN e ELSE s[j]]
  BY <1>1
<1> HIDE DEF w
<1>3. w \in [1 .. Len(s) -> S]
  BY <1>1, <1>2
<1>4. w \in Seq(S) /\ Len(w) = Len(s)
  BY <1>1, <1>3
<1> QED
  BY <1>4 DEF w

\* A segment of a sequence.
LEMMA Segment ==
  ASSUME NEW S, NEW s \in Seq(S), NEW i \in Nat, NEW j \in Nat, 1 <= i, j <= Len(s), i <= j + 1
  PROVE  SubSeq(s, i, j) \in Seq(S) /\ Len(SubSeq(s, i, j)) = j - i + 1
OBVIOUS

\* The child that a search goes to is one of the node's children.
LEMMA ChildIsNode ==
  ASSUME ContentsOK, NEW n \in Nodes, IsInner(n), NEW k
  PROVE  ChildFor(n, k) \in Nodes
<1> DEFINE pos == LowerBound(tree[n].keys, k)
<1>1. /\ tree[n].keys \in Seq(Keys) /\ tree[n].kids \in Seq(Nodes)
      /\ Len(tree[n].kids) = Len(tree[n].keys) + 1
  BY DEF ContentsOK, ContentOK, IsInner
<1>2. pos \in 0 .. Len(tree[n].keys)
  BY <1>1, LowerBoundIsPosition
<1> HIDE DEF pos
<1>3. pos + 1 \in 1 .. Len(tree[n].kids)
  BY <1>1, <1>2
<1>4. tree[n].kids[pos + 1] \in Nodes
  BY <1>1, <1>3
<1> QED
  BY <1>4 DEF ChildFor, pos

\* What a search finds in a leaf is a value, or that there is none.
LEMMA FoundIsAnswer ==
  ASSUME ContentsOK, NEW n \in Nodes, ~IsInner(n), NEW k
  PROVE  ValueIn(n, k) \in Values \cup {Missing} /\ ValueIn(n, k) # Torn
<1> DEFINE pos == LowerBound(tree[n].keys, k)
<1>1. /\ tree[n].keys \in Seq(Keys) /\ tree[n].vals \in Seq(Values)
      /\ Len(tree[n].vals) = Len(tree[n].keys)
  BY DEF ContentsOK, ContentOK, IsInner
<1>2. pos \in 0 .. Len(tree[n].keys)
  BY <1>1, LowerBoundIsPosition
<1> HIDE DEF pos
<1>3. pos + 1 <= Len(tree[n].keys) => tree[n].vals[pos + 1] \in Values
  BY <1>1, <1>2
<1>4. ValueIn(n, k) \in Values \cup {Missing}
  BY <1>3 DEF ValueIn, pos
<1> QED
  BY <1>4, TornAssumption

\* An insert into a leaf that has room.
LEMMA InsertedLeaf ==
  ASSUME NEW x, IsNode(x), NEW S, ContentOK(x, S), x.type # "inner",
         Len(x.keys) # MaxKeys(x), NEW k \in Keys, NEW v \in Values
  PROVE  ContentOK(LeafInsert(x, k, v), S) /\ LeafInsert(x, k, v).type = x.type
<1> DEFINE pos == LowerBound(x.keys, k)
<1>1. /\ x.keys \in Seq(Keys) /\ x.vals \in Seq(Values) /\ Len(x.vals) = Len(x.keys)
      /\ Len(x.keys) <= LeafMax /\ Len(x.keys) # LeafMax /\ LeafMax \in Nat
  BY CapacityAssumption DEF ContentOK, MaxKeys
<1>2. pos \in 0 .. Len(x.keys)
  BY <1>1, LowerBoundIsPosition
<1> HIDE DEF pos
<1>3. CASE pos + 1 <= Len(x.keys) /\ x.keys[pos + 1] = k
  <2>1. LeafInsert(x, k, v) = [x EXCEPT !.vals[pos + 1] = v]
    BY <1>3 DEF LeafInsert, pos
  <2>2. DOMAIN x.vals = 1 .. Len(x.vals)
    BY <1>1
  <2> DEFINE w == [x.vals EXCEPT ![pos + 1] = v]
  <2>3. w \in Seq(Values) /\ Len(w) = Len(x.vals)
    BY <1>1, <1>2, <1>3, ElementChanged
  <2> HIDE DEF w
  <2>4. LeafInsert(x, k, v) = [x EXCEPT !.vals = w]
    BY <2>1 DEF w
  <2>5. /\ LeafInsert(x, k, v).keys = x.keys /\ LeafInsert(x, k, v).vals = w
        /\ LeafInsert(x, k, v).type = x.type
    BY <2>4 DEF IsNode
  <2> QED
    BY <1>1, <2>3, <2>5 DEF ContentOK, MaxKeys
<1>4. CASE ~(pos + 1 <= Len(x.keys) /\ x.keys[pos + 1] = k)
  <2> DEFINE a == InsertAt(x.keys, pos + 1, k)
             b == InsertAt(x.vals, pos + 1, v)
  <2>1. pos + 1 \in 1 .. Len(x.keys) + 1
    BY <1>1, <1>2
  <2>2. a \in Seq(Keys) /\ Len(a) = Len(x.keys) + 1
    BY <1>1, <2>1, InsertAtLonger
  <2>3. b \in Seq(Values) /\ Len(b) = Len(x.vals) + 1
    BY <1>1, <2>1, InsertAtLonger
  <2>4. LeafInsert(x, k, v) = [x EXCEPT !.keys = a, !.vals = b]
    BY <1>4 DEF LeafInsert, pos
  <2> HIDE DEF a, b
  <2>5. /\ LeafInsert(x, k, v).keys = a /\ LeafInsert(x, k, v).vals = b
        /\ LeafInsert(x, k, v).type = x.type
    BY <2>4 DEF IsNode
  <2> QED
    BY <1>1, <2>2, <2>3, <2>5 DEF ContentOK, MaxKeys
<1> QED
  BY <1>3, <1>4

\* An insert into an inner node that has room.
LEMMA InsertedInner ==
  ASSUME NEW x, IsNode(x), NEW S, ContentOK(x, S), x.type = "inner",
         Len(x.keys) # MaxKeys(x), NEW k \in Keys, NEW c \in S
  PROVE  ContentOK(InnerInsert(x, k, c), S) /\ InnerInsert(x, k, c).type = x.type
<1> DEFINE pos == LowerBound(x.keys, k)
           a == InsertAt(x.keys, pos + 1, k)
           b == InsertAt(x.kids, pos + 2, c)
<1>1. /\ x.keys \in Seq(Keys) /\ x.kids \in Seq(S) /\ Len(x.kids) = Len(x.keys) + 1
      /\ Len(x.keys) <= InnerMax - 1 /\ Len(x.keys) # InnerMax - 1 /\ InnerMax \in Nat
  BY CapacityAssumption DEF ContentOK, MaxKeys
<1>2. pos \in 0 .. Len(x.keys)
  BY <1>1, LowerBoundIsPosition
<1> HIDE DEF pos
<1>3. pos + 1 \in 1 .. Len(x.keys) + 1 /\ pos + 2 \in 1 .. Len(x.kids) + 1
  BY <1>1, <1>2
<1>4. a \in Seq(Keys) /\ Len(a) = Len(x.keys) + 1
  BY <1>1, <1>3, InsertAtLonger
<1>5. b \in Seq(S) /\ Len(b) = Len(x.kids) + 1
  BY <1>1, <1>3, InsertAtLonger
<1>6. InnerInsert(x, k, c) = [x EXCEPT !.keys = a, !.kids = b]
  <2>1. pos + 1 + 1 = pos + 2
    BY <1>2
  <2> QED
    BY <2>1 DEF InnerInsert, pos
<1> HIDE DEF a, b
<1>7. /\ InnerInsert(x, k, c).keys = a /\ InnerInsert(x, k, c).kids = b
      /\ InnerInsert(x, k, c).type = x.type
  BY <1>6 DEF IsNode
<1> QED
  BY <1>1, <1>4, <1>5, <1>7 DEF ContentOK, MaxKeys

\* The halves of a full leaf.
LEMMA HalvesOfLeaf ==
  ASSUME NEW x, IsNode(x), NEW S, ContentOK(x, S), x.type # "inner",
         Len(x.keys) = MaxKeys(x), NEW id
  PROVE  LET h == LeafSplit(x, id)
         IN  /\ ContentOK(h.left, S) /\ h.left.type = x.type
             /\ ContentOK(h.right, S) /\ h.key \in Keys
<1> DEFINE count == Len(x.keys)
           keep == count - (count - count \div 2)
           lk == SubSeq(x.keys, 1, keep)
           lv == SubSeq(x.vals, 1, keep)
           rk == SubSeq(x.keys, keep + 1, count)
           rv == SubSeq(x.vals, keep + 1, count)
           h == LeafSplit(x, id)
<1>1. /\ x.keys \in Seq(Keys) /\ x.vals \in Seq(Values) /\ Len(x.vals) = count
      /\ count = LeafMax /\ count \in Nat /\ count >= 2
  BY CapacityAssumption DEF ContentOK, MaxKeys
<1>2. /\ h.left = [x EXCEPT !.keys = SubSeq(@, 1, keep), !.vals = SubSeq(@, 1, keep),
                            !.next = id]
      /\ h.right = Leaf(rk, rv, x.next)
      /\ h.key = x.keys[keep]
  BY DEF LeafSplit
<1> HIDE DEF h
<1>3. keep \in Nat /\ 1 <= keep /\ keep <= count
  BY <1>1
<1> HIDE DEF keep
<1>4. /\ lk \in Seq(Keys) /\ Len(lk) = keep /\ lv \in Seq(Values) /\ Len(lv) = keep
      /\ rk \in Seq(Keys) /\ Len(rk) = count - keep
      /\ rv \in Seq(Values) /\ Len(rv) = count - keep
  BY <1>1, <1>3, Segment
<1>5. x.keys[keep] \in Keys
  BY <1>1, <1>3
<1> HIDE DEF lk, lv, rk, rv
<1>6. h.left.keys = lk /\ h.left.vals = lv /\ h.left.type = x.type
  BY <1>2 DEF IsNode, lk, lv
<1>7. h.right.keys = rk /\ h.right.vals = rv /\ h.right.type = "leaf"
  BY <1>2 DEF Leaf
<1>8. ContentOK(h.left, S) /\ ContentOK(h.right, S)
  BY <1>1, <1>3, <1>4, <1>6, <1>7 DEF ContentOK, MaxKeys
<1> QED
  BY <1>2, <1>5, <1>6, <1>8 DEF h

\* The halves of a full inner node: one of its keys goes up.
LEMMA HalvesOfInner ==
  ASSUME NEW x, IsNode(x), NEW S, ContentOK(x, S), x.type = "inner",
         Len(x.keys) = MaxKeys(x)
  PROVE  LET h == InnerSplit(x)
         IN  /\ ContentOK(h.left, S) /\ h.left.type = x.type
             /\ ContentOK(h.right, S) /\ h.key \in Keys
<1> DEFINE count == Len(x.keys)
           keep == count - (count - count \div 2) - 1
           lk == SubSeq(x.keys, 1, keep)
           lc == SubSeq(x.kids, 1, keep + 1)
           rk == SubSeq(x.keys, keep + 2, count)
           rc == SubSeq(x.kids, keep + 2, count + 1)
           h == InnerSplit(x)
<1>1. /\ x.keys \in Seq(Keys) /\ x.kids \in Seq(S) /\ Len(x.kids) = count + 1
      /\ count = InnerMax - 1 /\ count \in Nat /\ count >= 4
  BY CapacityAssumption DEF ContentOK, MaxKeys
<1>2. /\ h.left = [x EXCEPT !.keys = SubSeq(@, 1, keep), !.kids = SubSeq(@, 1, keep + 1)]
      /\ h.right = Inner(rk, rc)
      /\ h.key = x.keys[keep + 1]
  BY DEF InnerSplit
<1> HIDE DEF h
<1>3. keep \in Nat /\ 1 <= keep /\ keep + 2 <= count
  BY <1>1
<1> HIDE DEF keep
<1>4. /\ lk \in Seq(Keys) /\ Len(lk) = keep /\ lc \in Seq(S) /\ Len(lc) = keep + 1
      /\ rk \in Seq(Keys) /\ Len(rk) = count - keep - 1
      /\ rc \in Seq(S) /\ Len(rc) = count - keep
  BY <1>1, <1>3, Segment
<1>5. x.keys[keep + 1] \in Keys
  BY <1>1, <1>3
<1> HIDE DEF lk, lc, rk, rc
<1>6. h.left.keys = lk /\ h.left.kids = lc /\ h.left.type = x.type
  BY <1>2 DEF IsNode, lk, lc
<1>7. h.right.keys = rk /\ h.right.kids = rc /\ h.right.type = "inner"
  BY <1>2 DEF Inner
<1>8. ContentOK(h.left, S) /\ ContentOK(h.right, S)
  BY <1>1, <1>3, <1>4, <1>6, <1>7 DEF ContentOK, MaxKeys
<1> QED
  BY <1>2, <1>5, <1>6, <1>8 DEF h

-----------------------------------------------------------------------------
(* What a thread knows of the nodes on its path, if they have not moved.   *)

\* The places where the version is one of the node the thread is at.
Versioned == AtNode \ {"lockRoot"}

\* The places of a thread at a leaf, and those of an insert that has begun to
\* lock.
AtLeaf == {"lockLeaf", "leafParent", "abandonLeaf", "insert", "inserted",
           "readLeaf", "lookupParent", "lookupLeaf"}

Inserting == {"lockParent", "lockSplit", "recheckRoot", "split", "linkParent",
              "makeRoot", "lockLeaf", "leafParent", "insert"}

\* The type of a node never changes, the version the thread took is not a later
\* one, and the test of the node was right if it has not moved; under the lock
\* it is right.
KnowsNode(t) ==
  /\ pc[t] \in Versioned => vNode[t] <= tree[node[t]].word
  /\ pc[t] \in {"checkParent", "readChild"} => IsInner(node[t])
  /\ pc[t] \in AtLeaf => ~IsInner(node[t])
  /\ pc[t] \in {"lockParent", "lockSplit"} /\ Intact(node[t], vNode[t]) => Full(node[t])
  /\ pc[t] \in {"recheckRoot", "split"} => Full(node[t])
  /\ /\ pc[t] \in {"checkParent", "readChild", "lockLeaf"} /\ op[t].kind = "insert"
     /\ Intact(node[t], vNode[t])
     => ~Full(node[t])
  /\ pc[t] \in {"leafParent", "insert"} => ~Full(node[t])

\* The parent is an inner node, and was not full when an insert went past it;
\* the pointer read from it is the pointer of a node, if it has not moved.
KnowsParent(t) ==
  /\ parent[t] # None =>
       /\ IsInner(parent[t]) /\ vParent[t] <= tree[parent[t]].word
       /\ op[t].kind = "insert" /\ Intact(parent[t], vParent[t]) => ~Full(parent[t])
       /\ pc[t] \in {"lockSplit", "split", "linkParent"} => ~Full(parent[t])
  /\ pc[t] \in {"checkChild", "lockChild"} => parent[t] # None /\ vNode[t] = vParent[t]
  /\ pc[t] = "checkChild" /\ Intact(parent[t], vNode[t]) => node[t] \in Nodes
  /\ pc[t] = "lockChild" => node[t] \in Nodes

\* What it has been asked, and what it has to link or to answer.
KnowsTask(t) ==
  /\ pc[t] # "idle" => op[t] \in Inserts \cup Lookups
  /\ pc[t] \in Inserting => op[t].kind = "insert"
  /\ pc[t] \in {"linkParent", "makeRoot"} => sep[t].key \in Keys /\ sep[t].new \in Nodes
  /\ pc[t] \in {"lookupParent", "lookupLeaf"} /\ Intact(node[t], vNode[t]) => result[t] # Torn
  /\ pc[t] = "found" => result[t] # Torn

\* All a thread knows.
Knows(t) == KnowsNode(t) /\ KnowsParent(t) /\ KnowsTask(t)

\* Every thread has a task, of those that may be asked.
TasksPerThread ==
  /\ toBuild \in Seq(Inserts)
  /\ op = [t \in Threads |-> op[t]]
  /\ sep = [t \in Threads |-> sep[t]] /\ result = [t \in Threads |-> result[t]]

\* The inductive invariant of what is read, together with that of the locks.
RInv ==
  /\ ContentsOK /\ TasksPerThread
  /\ \A t \in Threads : Knows(t)

\* The invariant is what the runs check, and more.
LEMMA KnowingIsEnough == IInv /\ RInv => NothingTornIsUsed /\ RoomToInsert
<1> SUFFICES ASSUME IInv, RInv, NEW t \in Threads
             PROVE  /\ At(t, "lockChild") => node[t] \in Nodes
                    /\ At(t, "found") => result[t] # Torn
                    /\ At(t, "insert") => Len(tree[node[t]].keys) < LeafMax
                    /\ At(t, "linkParent") => Len(tree[parent[t]].keys) < InnerMax - 1
  BY DEF NothingTornIsUsed, RoomToInsert
<1>1. Knows(t) /\ ThreadOK(t)
  BY DEF RInv, IInv
<1>2. At(t, "lockChild") => node[t] \in Nodes
  BY <1>1 DEF Knows, KnowsParent, At
<1>3. At(t, "found") => result[t] # Torn
  BY <1>1 DEF Knows, KnowsTask, At
<1>4. ASSUME NEW n \in Nodes, ~Full(n)
      PROVE  Len(tree[n].keys) < MaxKeys(tree[n])
  <2>1. /\ Len(tree[n].keys) <= MaxKeys(tree[n]) /\ Len(tree[n].keys) # MaxKeys(tree[n])
        /\ tree[n].keys \in Seq(Keys)
    BY <1>4 DEF Full, MaxKeys, IsInner, RInv, ContentsOK, ContentOK
  <2>2. Len(tree[n].keys) \in Nat /\ MaxKeys(tree[n]) \in Int
    BY <2>1, CapacityAssumption DEF MaxKeys
  <2> QED
    BY <2>1, <2>2
<1>5. At(t, "insert") => Len(tree[node[t]].keys) < LeafMax
  <2>1. At(t, "insert") => node[t] \in Nodes /\ ~Full(node[t]) /\ ~IsInner(node[t])
    BY <1>1 DEF Knows, KnowsNode, ThreadOK, AtNode, AtLeaf, At
  <2> QED
    BY <1>4, <2>1 DEF MaxKeys, IsInner
<1>6. At(t, "linkParent") => Len(tree[parent[t]].keys) < InnerMax - 1
  <2>1. At(t, "linkParent") => /\ parent[t] \in Nodes /\ ~Full(parent[t])
                               /\ IsInner(parent[t])
    BY <1>1 DEF Knows, KnowsParent, ThreadOK, At
  <2> QED
    BY <1>4, <2>1 DEF MaxKeys, IsInner
<1> QED
  BY <1>2, <1>3, <1>5, <1>6

-----------------------------------------------------------------------------
\* What a step of thread t may do to node n: the lock of a free node it takes,
\* and a node it has locked is its own.  The version counts every change.
NodeStep(t, n) ==
  /\ (tree'[n].type = "inner") <=> (tree[n].type = "inner")
  /\ tree'[n].word \in Nat
  /\ \/ tree'[n] = tree[n]
     \/ tree'[n].word > tree[n].word /\ (~IsLocked(tree[n].word) \/ Holds(t, n))
     \/ tree'[n].word = tree[n].word /\ Holds(t, n)

\* The threads other than t are asked and answered nothing.
OtherTasks(t) ==
  /\ TasksPerThread'
  /\ \A u \in Threads \ {t} : op'[u] = op[u] /\ sep'[u] = sep[u] /\ result'[u] = result[u]

\* A node that has the version of a free one, after a step, has not changed.
LEMMA VersionTells ==
  ASSUME IInv, NEW t \in Threads, NEW n \in Nodes, NodeStep(t, n),
         NEW v \in Nat, ~IsLocked(v), v <= tree[n].word
  PROVE  v <= tree'[n].word /\ (tree'[n].word = v => tree'[n] = tree[n])
<1>1. tree[n].word \in Nat /\ tree'[n].word \in Nat
  BY DEF IInv, TreeOK, IsNode, NodeStep
<1>2. Holds(t, n) => IsLocked(tree[n].word)
  BY DEF IInv, LockOK
<1> QED
  BY <1>1, <1>2 DEF NodeStep

\* Nobody else writes a node that a thread has locked.
LEMMA LockKeepsOthersOut ==
  ASSUME IInv, NEW t \in Threads, NEW u \in Threads, t # u, NEW n \in Nodes,
         NodeStep(t, n), Holds(u, n)
  PROVE  tree'[n] = tree[n]
<1>1. IsLocked(tree[n].word) /\ ~Holds(t, n)
  BY DEF IInv, LockOK
<1> QED
  BY <1>1 DEF NodeStep

\* What another thread knows, it knows after the step of t.
LEMMA KnowledgeStands ==
  ASSUME IInv, RInv, NEW t \in Threads, Others(t), OtherTasks(t),
         \A n \in Nodes : NodeStep(t, n), Nodes \subseteq Nodes',
         NEW u \in Threads, u # t
  PROVE  Knows(u)'
<1>1. /\ pc'[u] = pc[u] /\ node'[u] = node[u] /\ parent'[u] = parent[u]
      /\ vNode'[u] = vNode[u] /\ vParent'[u] = vParent[u]
      /\ op'[u] = op[u] /\ sep'[u] = sep[u] /\ result'[u] = result[u]
  BY DEF Others, OtherTasks
<1>2. Knows(u) /\ ThreadOK(u)
  BY DEF RInv, IInv
<1>3. KnowsNode(u)'
  <2>1. SUFFICES ASSUME pc[u] \in Versioned PROVE KnowsNode(u)'
    BY <1>1 DEF KnowsNode, Versioned, AtNode, AtLeaf
  <2> DEFINE n == node[u]
  <2>2. n \in Nodes /\ vNode[u] \in Nat /\ ~IsLocked(vNode[u]) /\ vNode[u] <= tree[n].word
    BY <1>2, <2>1 DEF ThreadOK, Versioned, Knows, KnowsNode
  <2>3. /\ vNode[u] <= tree'[n].word
        /\ tree'[n].word = vNode[u] => tree'[n] = tree[n]
        /\ (tree'[n].type = "inner") <=> (tree[n].type = "inner")
    BY <2>2, VersionTells DEF NodeStep
  <2>4. pc[u] \in {"recheckRoot", "split", "leafParent", "insert"} => tree'[n] = tree[n]
    BY <2>2, LockKeepsOthersOut DEF Holds
  <2> HIDE DEF n
  <2>5. node'[u] = n /\ node[u] = n
    BY <1>1 DEF n
  <2> QED
    BY <1>1, <1>2, <2>3, <2>4, <2>5 DEF Knows, KnowsNode, Intact, Full, IsInner
<1>4. KnowsParent(u)'
  <2>1. CASE parent[u] = None
    BY <1>1, <1>2, <2>1 DEF Knows, KnowsParent
  <2>2. CASE parent[u] # None
    <3> DEFINE n == parent[u]
    <3>1. /\ n \in Nodes /\ vParent[u] \in Nat /\ ~IsLocked(vParent[u])
          /\ vParent[u] <= tree[n].word
      BY <1>2, <2>2 DEF ThreadOK, Knows, KnowsParent
    <3>2. /\ vParent[u] <= tree'[n].word
          /\ tree'[n].word = vParent[u] => tree'[n] = tree[n]
          /\ (tree'[n].type = "inner") <=> (tree[n].type = "inner")
      BY <3>1, VersionTells DEF NodeStep
    <3>3. pc[u] \in {"lockSplit", "split", "linkParent"} => tree'[n] = tree[n]
      BY <3>1, LockKeepsOthersOut DEF Holds
    <3> HIDE DEF n
    <3>4. parent'[u] = n /\ parent[u] = n
      BY <1>1 DEF n
    <3> QED
      BY <1>1, <1>2, <3>2, <3>3, <3>4 DEF Knows, KnowsParent, Intact, Full, IsInner
  <2> QED
    BY <2>1, <2>2
<1>5. KnowsTask(u)'
  <2>1. CASE pc[u] \in {"lookupParent", "lookupLeaf"}
    <3> DEFINE n == node[u]
    <3>1. n \in Nodes /\ vNode[u] \in Nat /\ ~IsLocked(vNode[u]) /\ vNode[u] <= tree[n].word
      BY <1>2, <2>1 DEF ThreadOK, Versioned, AtNode, Knows, KnowsNode
    <3>2. tree'[n].word = vNode[u] => tree'[n] = tree[n]
      BY <3>1, VersionTells
    <3> HIDE DEF n
    <3>3. node'[u] = n /\ node[u] = n
      BY <1>1 DEF n
    <3> QED
      BY <1>1, <1>2, <2>1, <3>2, <3>3 DEF Knows, KnowsTask, Intact, Inserting
  <2>2. CASE pc[u] \notin {"lookupParent", "lookupLeaf"}
    BY <1>1, <1>2, <2>2 DEF Knows, KnowsTask
  <2> QED
    BY <2>1, <2>2
<1> QED
  BY <1>3, <1>4, <1>5 DEF Knows

\* So a step keeps the invariant if its own thread knows what it has to.
LEMMA OwnKnowledge ==
  ASSUME IInv, RInv, NEW t \in Threads, Others(t), OtherTasks(t), ContentsOK',
         \A n \in Nodes : NodeStep(t, n), Nodes \subseteq Nodes', Knows(t)'
  PROVE  RInv'
<1>1. ASSUME NEW u \in Threads PROVE Knows(u)'
  <2>1. CASE u = t
    BY <2>1
  <2>2. CASE u # t
    BY <2>2, KnowledgeStands
  <2> QED
    BY <2>1, <2>2
<1> QED
  BY <1>1 DEF RInv, OtherTasks

\* A step that writes no node.
LEMMA QuietKnowledge ==
  ASSUME IInv, RInv, NEW t \in Threads, Others(t), OtherTasks(t), tree' = tree, Knows(t)'
  PROVE  RInv'
<1>1. Nodes' = Nodes /\ ContentsOK'
  BY DEF Nodes, ContentsOK, RInv
<1>2. \A n \in Nodes : NodeStep(t, n)
  BY DEF NodeStep, IInv, TreeOK, IsNode
<1> QED
  BY <1>1, <1>2, OwnKnowledge

-----------------------------------------------------------------------------
(* The steps that write no node.                                           *)

\* A step that asks and answers nothing.
LEMMA TasksStay ==
  ASSUME RInv, NEW t \in Threads, toBuild' = toBuild, op' = op, sep' = sep,
         result' = result
  PROVE  OtherTasks(t)
BY DEF RInv, OtherTasks, TasksPerThread

\* Starting over: there is no path, and the request is still the same.
LEMMA RestartKnows ==
  ASSUME IInv, NEW t \in Threads, Restart(t), op'[t] \in Inserts \cup Lookups
  PROVE  Knows(t)' /\ Others(t)
<1>1. Others(t) /\ pc'[t] = "readRoot" /\ parent'[t] = None
  BY RestartMoves DEF Restart, Forget, IInv, PerThread
<1>2. KnowsNode(t)'
  BY <1>1 DEF KnowsNode, Versioned, AtNode, AtLeaf
<1>3. KnowsParent(t)'
  BY <1>1 DEF KnowsParent
<1>4. KnowsTask(t)'
  BY <1>1 DEF KnowsTask, Inserting
<1> QED
  BY <1>1, <1>2, <1>3, <1>4 DEF Knows

\* An operation that returns leaves the thread with nothing to know.
LEMMA ReturnKnows ==
  ASSUME IInv, RInv, NEW t \in Threads, Return(t)
  PROVE  /\ Knows(t)' /\ Others(t) /\ op' = [op EXCEPT ![t] = NoOp]
         /\ toBuild' \in Seq(Inserts)
<1>1. Others(t) /\ pc'[t] = "idle" /\ parent'[t] = None
  BY ForgetMoves DEF Return, Forget, AtNode, IInv, PerThread
<1>2. KnowsNode(t)'
  BY <1>1 DEF KnowsNode, Versioned, AtNode, AtLeaf
<1>3. KnowsParent(t)'
  BY <1>1 DEF KnowsParent
<1>4. KnowsTask(t)'
  BY <1>1 DEF KnowsTask, Inserting
<1>5. toBuild' \in Seq(Inserts)
  BY DEF Return, RInv, TasksPerThread
<1> QED
  BY <1>1, <1>2, <1>3, <1>4, <1>5 DEF Knows, Return

\* A restart that writes no node.
LEMMA QuietRestartKnows ==
  ASSUME IInv, RInv, NEW t \in Threads, Restart(t), pc[t] # "idle", tree' = tree,
         toBuild' = toBuild, op' = op, sep' = sep,
         result' = result \/ result' = [result EXCEPT ![t] = Missing]
  PROVE  RInv'
<1>1. OtherTasks(t)
  BY DEF RInv, OtherTasks, TasksPerThread
<1>2. op'[t] \in Inserts \cup Lookups
  BY DEF RInv, Knows, KnowsTask
<1> QED
  BY <1>1, <1>2, RestartKnows, QuietKnowledge

\* A request is one of those that may be made.
LEMMA BeginKnows ==
  ASSUME IInv, RInv, NEW t \in Threads, Begin(t)
  PROVE  RInv'
<1>1. Restart(t) /\ tree' = tree /\ toBuild' = toBuild /\ sep' = sep /\ result' = result
  BY DEF Begin
<1>2. PICK request \in Inserts \cup Lookups : op' = [op EXCEPT ![t] = request]
  <2>1. Requests \subseteq Inserts \cup Lookups
    BY RequestAssumption DEF Inserts, Lookups
  <2>2. toBuild # <<>> => Head(toBuild) \in Inserts
    BY DEF RInv, TasksPerThread
  <2> QED
    BY <2>1, <2>2 DEF Begin
<1>3. OtherTasks(t) /\ op'[t] = request
  BY <1>1, <1>2 DEF RInv, OtherTasks, TasksPerThread
<1> QED
  BY <1>1, <1>2, <1>3, RestartKnows, QuietKnowledge

\* A step along the path: what the thread has to know at the next place.
LEMMA GotoKnows ==
  ASSUME IInv, RInv, NEW t \in Threads, NEW p, Goto(t, p), UNCHANGED path, tree' = tree,
         toBuild' = toBuild, op' = op, sep' = sep, result' = result, Knows(t)'
  PROVE  RInv'
BY GotoMoves, TasksStay, QuietKnowledge

\* The root is read, with no version yet.
LEMMA ReadRootKnows ==
  ASSUME IInv, RInv, NEW t \in Threads, ReadRoot(t)
  PROVE  RInv'
<1>1. /\ pc[t] = "readRoot" /\ tree' = tree /\ parent' = parent /\ vParent' = vParent
      /\ toBuild' = toBuild /\ op' = op /\ sep' = sep /\ result' = result
  BY DEF ReadRoot, At, workload
<1>2. Others(t) /\ pc'[t] = "lockRoot"
  BY DEF ReadRoot, Goto, IInv, PerThread, Others
<1>3. Knows(t)
  BY DEF RInv
<1>4. KnowsNode(t)'
  BY <1>2 DEF KnowsNode, Versioned, AtLeaf
<1>5. KnowsParent(t)'
  BY <1>1, <1>2, <1>3 DEF Knows, KnowsParent, IsInner, Intact, Full
<1>6. KnowsTask(t)'
  BY <1>1, <1>2, <1>3 DEF Knows, KnowsTask, Inserting
<1> QED
  BY <1>1, <1>2, <1>4, <1>5, <1>6, TasksStay, QuietKnowledge DEF Knows

\* The version that is taken is the one the node has.
LEMMA LockNodeKnows ==
  ASSUME IInv, RInv, NEW t \in Threads, NEW p, LockNode(t, p), p \in {"checkRoot", "visit"},
         node[t] \in Nodes, pc[t] \in {"lockRoot", "lockChild"}, tree' = tree,
         toBuild' = toBuild, op' = op, sep' = sep, result' = result
  PROVE  RInv'
<1>1. CASE Restart(t)
  BY <1>1, QuietRestartKnows
<1>2. CASE /\ vNode' = [vNode EXCEPT ![t] = tree[node[t]].word]
           /\ Goto(t, p)
           /\ UNCHANGED <<node, parent, vParent>>
  <2>1. Others(t) /\ pc'[t] = p /\ vNode'[t] = tree[node[t]].word
    BY <1>2 DEF Goto, IInv, PerThread, Others
  <2>2. Knows(t) /\ tree[node[t]].word \in Nat
    BY DEF RInv, IInv, TreeOK, IsNode
  <2>3. KnowsNode(t)'
    BY <1>2, <2>1, <2>2 DEF KnowsNode, AtLeaf
  <2>4. KnowsParent(t)'
    BY <1>2, <2>1, <2>2 DEF Knows, KnowsParent, IsInner, Intact, Full
  <2>5. KnowsTask(t)'
    BY <2>1, <2>2 DEF Knows, KnowsTask, Inserting
  <2> QED
    BY <2>1, <2>3, <2>4, <2>5, TasksStay, QuietKnowledge DEF Knows
<1> QED
  BY <1>1, <1>2 DEF LockNode

\* The top of the loop, where the node is tested.
LEMMA VisitKnows ==
  ASSUME IInv, RInv, NEW t \in Threads, Visit(t)
  PROVE  RInv'
<1>1. /\ pc[t] = "visit" /\ tree' = tree /\ UNCHANGED path
      /\ toBuild' = toBuild /\ op' = op /\ sep' = sep /\ result' = result
  BY DEF Visit, At, workload
<1>2. PICK full \in BOOLEAN :
        /\ Intact(node[t], vNode[t]) => full = Full(node[t])
        /\ Goto(t, CASE op[t].kind = "insert" /\ full ->
                          IF parent[t] # None THEN "lockParent" ELSE "lockSplit"
                     [] ~(op[t].kind = "insert" /\ full) /\ IsInner(node[t]) ->
                          IF parent[t] # None THEN "checkParent" ELSE "readChild"
                     [] OTHER ->
                          IF op[t].kind = "insert" THEN "lockLeaf" ELSE "readLeaf")
  BY DEF Visit, MayRead
<1>3. PICK p : Goto(t, p)
  BY <1>2
<1>4. /\ pc'[t] = p /\ node' = node /\ parent' = parent /\ vNode' = vNode
      /\ vParent' = vParent
  BY <1>1, <1>3, GotoMoves
<1>5. \/ p \in {"lockParent", "lockSplit"} /\ op[t].kind = "insert" /\ full
         /\ (p = "lockSplit" => parent[t] = None)
      \/ p \in {"checkParent", "readChild"} /\ IsInner(node[t])
         /\ (op[t].kind = "insert" => ~full)
      \/ p = "lockLeaf" /\ ~IsInner(node[t]) /\ op[t].kind = "insert" /\ ~full
      \/ p = "readLeaf" /\ ~IsInner(node[t]) /\ op[t].kind # "insert"
  <2>1. p = CASE op[t].kind = "insert" /\ full ->
                   IF parent[t] # None THEN "lockParent" ELSE "lockSplit"
              [] ~(op[t].kind = "insert" /\ full) /\ IsInner(node[t]) ->
                   IF parent[t] # None THEN "checkParent" ELSE "readChild"
              [] OTHER ->
                   IF op[t].kind = "insert" THEN "lockLeaf" ELSE "readLeaf"
    BY <1>2, <1>4 DEF Goto, IInv, PerThread
  <2>2. CASE op[t].kind = "insert" /\ full
    <3>1. p = IF parent[t] # None THEN "lockParent" ELSE "lockSplit"
      BY <2>1, <2>2
    <3> QED
      BY <2>2, <3>1
  <2>3. CASE ~(op[t].kind = "insert" /\ full) /\ IsInner(node[t])
    <3>1. p = IF parent[t] # None THEN "checkParent" ELSE "readChild"
      BY <2>1, <2>3
    <3> QED
      BY <2>3, <3>1
  <2>4. CASE ~(op[t].kind = "insert" /\ full) /\ ~IsInner(node[t])
    BY <2>1, <2>4
  <2> QED
    BY <2>2, <2>3, <2>4
<1>6. Knows(t)
  BY DEF RInv
<1>7. KnowsNode(t)'
  <2>1. vNode[t] <= tree[node[t]].word
    BY <1>1, <1>6 DEF Knows, KnowsNode, Versioned, AtNode
  <2> QED
    BY <1>1, <1>2, <1>4, <1>5, <2>1 DEF KnowsNode, AtLeaf, Intact, Full, IsInner
<1>8. KnowsParent(t)'
  BY <1>1, <1>4, <1>5, <1>6 DEF Knows, KnowsParent, Intact, Full, IsInner
<1>9. KnowsTask(t)'
  BY <1>1, <1>4, <1>5, <1>6 DEF Knows, KnowsTask, Inserting
<1> QED
  BY <1>1, <1>3, <1>7, <1>8, <1>9, GotoKnows DEF Knows

\* The child is read, and is one if the node has not moved.
LEMMA ReadChildKnows ==
  ASSUME IInv, RInv, NEW t \in Threads, ReadChild(t)
  PROVE  RInv'
<1>1. /\ pc[t] = "readChild" /\ tree' = tree /\ vNode' = vNode
      /\ toBuild' = toBuild /\ op' = op /\ sep' = sep /\ result' = result
  BY DEF ReadChild, At, workload
<1>2. /\ Others(t) /\ pc'[t] = "checkChild" /\ parent'[t] = node[t]
      /\ vParent'[t] = vNode[t]
      /\ node'[t] = IF Intact(node[t], vNode[t]) THEN ChildFor(node[t], op[t].key) ELSE Torn
  BY DEF ReadChild, Goto, IInv, PerThread, Others
<1>3. Knows(t) /\ ThreadOK(t) /\ ContentsOK
  BY DEF RInv, IInv
<1>4. node[t] \in Nodes /\ IsInner(node[t]) /\ vNode[t] <= tree[node[t]].word
  BY <1>1, <1>3 DEF ThreadOK, Knows, KnowsNode, Versioned, AtNode
<1>5. Intact(node[t], vNode[t]) => node'[t] \in Nodes
  BY <1>2, <1>3, <1>4, ChildIsNode
<1>6. op[t].kind = "insert" /\ Intact(node[t], vNode[t]) => ~Full(node[t])
  BY <1>1, <1>3 DEF Knows, KnowsNode
<1>7. KnowsNode(t)'
  BY <1>2 DEF KnowsNode, Versioned, AtNode, AtLeaf
<1>8. KnowsParent(t)'
  <2>1. Nodes' = Nodes /\ None \notin Nodes
    BY <1>1, NodesAreNumbers DEF Nodes, IInv
  <2> QED
    BY <1>1, <1>2, <1>4, <1>5, <1>6, <2>1 DEF KnowsParent, Intact, Full, IsInner
<1>9. KnowsTask(t)'
  BY <1>1, <1>2, <1>3 DEF Knows, KnowsTask, Inserting
<1> QED
  BY <1>1, <1>2, <1>7, <1>8, <1>9, TasksStay, QuietKnowledge DEF Knows

\* The validations of the descent.
LEMMA CheckKnows ==
  ASSUME IInv, RInv, NEW t \in Threads, CheckRoot(t) \/ CheckParent(t) \/ CheckChild(t)
  PROVE  RInv'
<1>1. /\ pc[t] \in {"checkRoot", "checkParent", "checkChild"} /\ tree' = tree
      /\ toBuild' = toBuild /\ op' = op /\ sep' = sep /\ result' = result
  BY DEF CheckRoot, CheckParent, CheckChild, At, workload
<1>2. CASE Restart(t)
  BY <1>1, <1>2, QuietRestartKnows
<1>3. ASSUME ~Restart(t) PROVE RInv'
  <2>1. PICK p : /\ Goto(t, p) /\ UNCHANGED path
                 /\ \/ pc[t] = "checkRoot" /\ p = "visit"
                    \/ pc[t] = "checkParent" /\ p = "readChild"
                    \/ /\ pc[t] = "checkChild" /\ p = "lockChild"
                       /\ Intact(parent[t], vNode[t])
    BY <1>3 DEF CheckRoot, CheckParent, CheckChild, At
  <2>2. /\ pc'[t] = p /\ node' = node /\ parent' = parent /\ vNode' = vNode
        /\ vParent' = vParent /\ Nodes' = Nodes
    BY <1>1, <2>1, GotoMoves DEF Nodes
  <2>3. Knows(t)
    BY DEF RInv
  <2>4. KnowsNode(t)'
    BY <1>1, <2>1, <2>2, <2>3
       DEF Knows, KnowsNode, Versioned, AtNode, AtLeaf, Intact, Full, IsInner
  <2>5. KnowsParent(t)'
    BY <1>1, <2>1, <2>2, <2>3 DEF Knows, KnowsParent, Intact, Full, IsInner
  <2>6. KnowsTask(t)'
    BY <1>1, <2>1, <2>2, <2>3 DEF Knows, KnowsTask, Inserting
  <2> QED
    BY <1>1, <2>1, <2>4, <2>5, <2>6, GotoKnows DEF Knows
<1> QED
  BY <1>2, <1>3

\* The answer is read, and is one if the leaf has not moved.
LEMMA LookupKnows ==
  ASSUME IInv, RInv, NEW t \in Threads, Lookup(t)
  PROVE  RInv'
<1>1. tree' = tree /\ sep' = sep /\ Knows(t) /\ ThreadOK(t) /\ ContentsOK
  BY DEF Lookup, ReadLeaf, LookupParent, LookupLeaf, ReturnLookup, RInv, IInv
<1>2. CASE ReadLeaf(t)
  <2>1. /\ pc[t] = "readLeaf" /\ UNCHANGED path /\ toBuild' = toBuild /\ op' = op
        /\ result' = [result EXCEPT ![t] = IF Intact(node[t], vNode[t])
                                           THEN ValueIn(node[t], op[t].key) ELSE Torn]
    BY <1>2 DEF ReadLeaf, At, workload
  <2>2. PICK p \in {"lookupParent", "lookupLeaf"} : Goto(t, p)
    BY <1>2 DEF ReadLeaf
  <2>3. /\ Others(t) /\ pc'[t] = p /\ node' = node /\ parent' = parent /\ vNode' = vNode
        /\ vParent' = vParent
    BY <2>1, <2>2, GotoMoves
  <2>4. OtherTasks(t) /\ result'[t] = IF Intact(node[t], vNode[t])
                                      THEN ValueIn(node[t], op[t].key) ELSE Torn
    BY <1>1, <2>1 DEF RInv, OtherTasks, TasksPerThread
  <2>5. node[t] \in Nodes /\ ~IsInner(node[t])
    BY <1>1, <2>1 DEF ThreadOK, AtNode, Knows, KnowsNode, AtLeaf
  <2>6. Intact(node[t], vNode[t]) => result'[t] # Torn
    BY <1>1, <2>4, <2>5, FoundIsAnswer
  <2>7. KnowsNode(t)'
    BY <1>1, <2>1, <2>2, <2>3
       DEF Knows, KnowsNode, Versioned, AtNode, AtLeaf, Intact, Full, IsInner
  <2>8. KnowsParent(t)'
    BY <1>1, <2>1, <2>2, <2>3 DEF Knows, KnowsParent, Intact, Full, IsInner
  <2>9. KnowsTask(t)'
    BY <1>1, <2>1, <2>2, <2>3, <2>6 DEF Knows, KnowsTask, Inserting, Intact
  <2> QED
    BY <1>1, <2>3, <2>4, <2>7, <2>8, <2>9, QuietKnowledge DEF Knows
<1>3. CASE LookupParent(t) \/ LookupLeaf(t)
  <2>1. /\ pc[t] \in {"lookupParent", "lookupLeaf"} /\ toBuild' = toBuild /\ op' = op
    BY <1>3 DEF LookupParent, LookupLeaf, At, workload
  <2>2. CASE Restart(t) /\ result' = [result EXCEPT ![t] = Missing]
    BY <1>1, <2>1, <2>2, QuietRestartKnows
  <2>3. ASSUME ~(Restart(t) /\ result' = [result EXCEPT ![t] = Missing]) PROVE RInv'
    <3>1. PICK p : /\ Goto(t, p) /\ UNCHANGED path /\ result' = result
                   /\ \/ pc[t] = "lookupParent" /\ p = "lookupLeaf"
                      \/ /\ pc[t] = "lookupLeaf" /\ p = "found"
                         /\ Intact(node[t], vNode[t])
      BY <1>3, <2>3 DEF LookupParent, LookupLeaf, At
    <3>2. /\ pc'[t] = p /\ node' = node /\ parent' = parent /\ vNode' = vNode
          /\ vParent' = vParent
      BY <3>1, GotoMoves
    <3>3. KnowsNode(t)'
      BY <1>1, <2>1, <3>1, <3>2
         DEF Knows, KnowsNode, Versioned, AtNode, AtLeaf, Intact, Full, IsInner
    <3>4. KnowsParent(t)'
      BY <1>1, <2>1, <3>1, <3>2 DEF Knows, KnowsParent, Intact, Full, IsInner
    <3>5. KnowsTask(t)'
      BY <1>1, <2>1, <3>1, <3>2 DEF Knows, KnowsTask, Inserting, Intact
    <3> QED
      BY <1>1, <2>1, <3>1, <3>3, <3>4, <3>5, GotoKnows DEF Knows
  <2> QED
    BY <2>2, <2>3
<1>4. CASE ReturnLookup(t)
  <2>1. Return(t) /\ result' = [result EXCEPT ![t] = Missing]
    BY <1>4 DEF ReturnLookup
  <2>2. /\ Knows(t)' /\ Others(t) /\ op' = [op EXCEPT ![t] = NoOp]
        /\ toBuild' \in Seq(Inserts)
    BY <2>1, ReturnKnows
  <2>3. OtherTasks(t)
    BY <1>1, <2>1, <2>2 DEF RInv, OtherTasks, TasksPerThread
  <2> QED
    BY <1>1, <2>2, <2>3, QuietKnowledge
<1> QED
  BY <1>2, <1>3, <1>4 DEF Lookup

\* The descent.
LEMMA DescendKnows ==
  ASSUME IInv, RInv, NEW t \in Threads, Descend(t)
  PROVE  RInv'
<1>1. CASE LockRoot(t)
  <2>1. /\ pc[t] = "lockRoot" /\ LockNode(t, "checkRoot") /\ tree' = tree
        /\ toBuild' = toBuild /\ op' = op /\ sep' = sep /\ result' = result
    BY <1>1 DEF LockRoot, At, workload
  <2>2. node[t] \in Nodes
    BY <2>1 DEF IInv, ThreadOK, AtNode
  <2> QED
    BY <2>1, <2>2, LockNodeKnows
<1>2. CASE LockChild(t)
  <2>1. /\ pc[t] = "lockChild" /\ LockNode(t, "visit") /\ tree' = tree
        /\ toBuild' = toBuild /\ op' = op /\ sep' = sep /\ result' = result
    BY <1>2 DEF LockChild, At, workload
  <2>2. node[t] \in Nodes
    BY <2>1 DEF RInv, Knows, KnowsParent
  <2> QED
    BY <2>1, <2>2, LockNodeKnows
<1> QED
  BY <1>1, <1>2, ReadRootKnows, VisitKnows, ReadChildKnows, CheckKnows DEF Descend

-----------------------------------------------------------------------------
(* The steps that lock, write and unlock.                                  *)

\* What thread t may put in the place of node n, one of its kind: its lock is
\* taken or given back, or its owner writes it.
Replaces(t, n, x) ==
  /\ IsNode(x) /\ ContentOK(x, Nodes) /\ x.type = tree[n].type
  /\ \/ x.word > tree[n].word /\ (~IsLocked(tree[n].word) \/ Holds(t, n))
     \/ x.word = tree[n].word /\ Holds(t, n)

\* The tree with another node n.
With(n, x) == [tree EXCEPT ![n] = x]

\* A node is replaced.
LEMMA NodeWritten ==
  ASSUME IInv, RInv, NEW t \in Threads, NEW n \in Nodes, NEW x, Replaces(t, n, x),
         tree' = With(n, x), root' = root
  PROVE  /\ ContentsOK' /\ Nodes' = Nodes /\ \A m \in Nodes : NodeStep(t, m)
         /\ \A m \in Nodes : tree'[m] = IF m = n THEN x ELSE tree[m]
<1>1. Nodes' = Nodes /\ \A m \in Nodes : tree'[m] = IF m = n THEN x ELSE tree[m]
  BY Replaced DEF IInv, With, Replaces
<1>2. ContentsOK'
  BY <1>1 DEF ContentsOK, RInv, Replaces
<1>3. ASSUME NEW m \in Nodes PROVE NodeStep(t, m)
  <2>1. tree[m].word \in Nat /\ x.word \in Nat
    BY DEF IInv, TreeOK, IsNode, Replaces
  <2> QED
    BY <1>1, <2>1 DEF NodeStep, Replaces
<1> QED
  BY <1>1, <1>2, <1>3

\* Only the word of a node changes: all that is known of its contents is still
\* true.
LEMMA Reworded ==
  ASSUME IInv, RInv, NEW t \in Threads, NEW n \in Nodes, NEW w \in Nat, w > tree[n].word,
         ~IsLocked(tree[n].word) \/ Holds(t, n),
         tree' = [tree EXCEPT ![n].word = w], root' = root
  PROVE  /\ ContentsOK' /\ Nodes' = Nodes /\ \A m \in Nodes : NodeStep(t, m)
         /\ \A m \in Nodes : /\ tree'[m].keys = tree[m].keys /\ tree'[m].type = tree[m].type
                             /\ tree'[m].vals = tree[m].vals /\ tree'[m].kids = tree[m].kids
                             /\ tree'[m].next = tree[m].next
                             /\ tree'[m].word = IF m = n THEN w ELSE tree[m].word
<1> DEFINE x == [tree[n] EXCEPT !.word = w]
<1>1. IsNode(tree[n]) /\ ContentOK(tree[n], Nodes)
  BY DEF IInv, TreeOK, RInv, ContentsOK
<1>2. IsNode(x) /\ x.word = w
  BY <1>1, RewordedIsNode
<1>3. /\ x.type = tree[n].type /\ x.keys = tree[n].keys /\ x.vals = tree[n].vals
      /\ x.kids = tree[n].kids /\ x.next = tree[n].next
  BY <1>1 DEF IsNode
<1>4. tree' = With(n, x)
  BY DEF With
<1> HIDE DEF x
<1>5. Replaces(t, n, x)
  BY <1>1, <1>2, <1>3 DEF Replaces, ContentOK, MaxKeys
<1>6. /\ ContentsOK' /\ Nodes' = Nodes /\ \A m \in Nodes : NodeStep(t, m)
      /\ \A m \in Nodes : tree'[m] = IF m = n THEN x ELSE tree[m]
  BY <1>4, <1>5, NodeWritten
<1> QED
  BY <1>2, <1>3, <1>6

\* A lock is taken at the version that was taken before.
LEMMA UpgradeRewords ==
  ASSUME IInv, RInv, NEW t \in Threads, NEW n \in Nodes, NEW v \in Nat, ~IsLocked(v),
         Upgrade(n, v), root' = root
  PROVE  /\ ContentsOK' /\ Nodes' = Nodes /\ \A m \in Nodes : NodeStep(t, m)
         /\ \A m \in Nodes : /\ tree'[m].keys = tree[m].keys /\ tree'[m].type = tree[m].type
                             /\ tree'[m].vals = tree[m].vals /\ tree'[m].kids = tree[m].kids
                             /\ tree'[m].next = tree[m].next
                             /\ tree'[m].word = IF m = n THEN v + 2 ELSE tree[m].word
         /\ Intact(n, v)
<1>1. tree[n].word = v /\ tree' = [tree EXCEPT ![n].word = v + 2]
  BY DEF Upgrade, Intact, Locked
<1>2. v + 2 \in Nat /\ v + 2 > tree[n].word /\ ~IsLocked(tree[n].word)
  BY <1>1
<1> QED
  BY <1>1, <1>2, Reworded DEF Intact

\* A lock is given back.
LEMMA UnlockRewords ==
  ASSUME IInv, RInv, NEW t \in Threads, NEW n \in Nodes, Holds(t, n), Unlock(n), root' = root
  PROVE  /\ ContentsOK' /\ Nodes' = Nodes /\ \A m \in Nodes : NodeStep(t, m)
         /\ \A m \in Nodes : /\ tree'[m].keys = tree[m].keys /\ tree'[m].type = tree[m].type
                             /\ tree'[m].vals = tree[m].vals /\ tree'[m].kids = tree[m].kids
                             /\ tree'[m].next = tree[m].next
                             /\ tree'[m].word = IF m = n THEN tree[n].word + 2
                                                         ELSE tree[m].word
<1>1. tree[n].word \in Nat
  BY DEF IInv, TreeOK, IsNode
<1>2. tree[n].word + 2 \in Nat /\ tree[n].word + 2 > tree[n].word
  BY <1>1
<1>3. tree' = [tree EXCEPT ![n].word = tree[n].word + 2]
  BY DEF Unlock, Unlocked
<1> QED
  BY <1>2, <1>3, Reworded

\* What is known of the parent is known after any step that leaves it or only
\* changes its word.
LEMMA ParentStands ==
  ASSUME IInv, RInv, NEW t \in Threads, \A m \in Nodes : NodeStep(t, m),
         \A m \in Nodes : tree'[m].keys = tree[m].keys, pc[t] \in AtNode,
         parent' = parent, vParent' = vParent, op' = op,
         pc'[t] \notin {"checkChild", "lockChild"},
         parent[t] # None /\ pc'[t] \in {"lockSplit", "split", "linkParent"} => ~Full(parent[t])
  PROVE  KnowsParent(t)'
<1>1. Knows(t) /\ ThreadOK(t)
  BY DEF RInv, IInv
<1>2. CASE parent[t] = None
  BY <1>2 DEF KnowsParent
<1>3. CASE parent[t] # None
  <2> DEFINE n == parent[t]
  <2>1. /\ n \in Nodes /\ IsInner(n) /\ vParent[t] \in Nat /\ ~IsLocked(vParent[t])
        /\ vParent[t] <= tree[n].word
        /\ op[t].kind = "insert" /\ Intact(n, vParent[t]) => ~Full(n)
        /\ pc'[t] \in {"lockSplit", "split", "linkParent"} => ~Full(n)
    BY <1>1, <1>3 DEF ThreadOK, Knows, KnowsParent
  <2>2. /\ vParent[t] <= tree'[n].word
        /\ tree'[n].word = vParent[t] => tree'[n] = tree[n]
    BY <2>1, VersionTells
  <2>3. tree'[n].keys = tree[n].keys /\ (tree'[n].type = "inner" <=> tree[n].type = "inner")
    BY <2>1 DEF NodeStep
  <2> HIDE DEF n
  <2>4. parent'[t] = n
    BY DEF n
  <2> QED
    BY <2>1, <2>2, <2>3, <2>4 DEF KnowsParent, Intact, Full, IsInner
<1> QED
  BY <1>2, <1>3

\* The parent is locked: it was not full, and nobody can fill it any more.
LEMMA LockParentKnows ==
  ASSUME IInv, RInv, NEW t \in Threads, LockParent(t)
  PROVE  RInv'
<1>1. /\ pc[t] = "lockParent" /\ root' = root /\ OtherTasks(t)
      /\ toBuild' = toBuild /\ op' = op /\ sep' = sep /\ result' = result
  BY TasksStay DEF LockParent, At, shape, workload
<1>2. CASE Restart(t) /\ UNCHANGED tree
  BY <1>1, <1>2, QuietRestartKnows
<1>3. CASE Upgrade(parent[t], vParent[t]) /\ Goto(t, "lockSplit") /\ UNCHANGED path
  <2>1. Knows(t) /\ ThreadOK(t)
    BY DEF RInv, IInv
  <2>2. /\ parent[t] \in Nodes /\ vParent[t] \in Nat /\ ~IsLocked(vParent[t])
        /\ node[t] \in Nodes /\ vNode[t] \in Nat /\ ~IsLocked(vNode[t])
    BY <1>1, <2>1 DEF ThreadOK, AtNode
  <2>3. /\ ContentsOK' /\ Nodes' = Nodes /\ \A m \in Nodes : NodeStep(t, m)
        /\ \A m \in Nodes : tree'[m].keys = tree[m].keys
        /\ Intact(parent[t], vParent[t])
    BY <1>1, <1>3, <2>2, UpgradeRewords
  <2>4. /\ Others(t) /\ pc'[t] = "lockSplit" /\ node' = node /\ parent' = parent
        /\ vNode' = vNode /\ vParent' = vParent
    BY <1>3, GotoMoves
  <2>5. KnowsNode(t)'
    <3>1. vNode[t] <= tree[node[t]].word /\ (Intact(node[t], vNode[t]) => Full(node[t]))
      BY <1>1, <2>1 DEF Knows, KnowsNode, Versioned, AtNode
    <3>2. /\ vNode[t] <= tree'[node[t]].word
          /\ tree'[node[t]].word = vNode[t] => tree'[node[t]] = tree[node[t]]
      BY <2>2, <2>3, <3>1, VersionTells
    <3> QED
      BY <2>4, <3>1, <3>2 DEF KnowsNode, AtLeaf, Intact, Full, IsInner
  <2>6. parent[t] # None => ~Full(parent[t])
    BY <1>1, <2>1, <2>3 DEF Knows, KnowsParent, KnowsTask, Inserting
  <2>7. KnowsParent(t)'
    BY <1>1, <2>3, <2>4, <2>6, ParentStands DEF AtNode
  <2>8. KnowsTask(t)'
    BY <1>1, <2>1, <2>4 DEF Knows, KnowsTask, Inserting
  <2> QED
    BY <1>1, <2>3, <2>4, <2>5, <2>7, <2>8, OwnKnowledge DEF Knows
<1> QED
  BY <1>2, <1>3 DEF LockParent

\* The node is locked at the version at which it was full.
LEMMA LockSplitKnows ==
  ASSUME IInv, RInv, NEW t \in Threads, LockSplit(t)
  PROVE  RInv'
<1>1. /\ pc[t] = "lockSplit" /\ root' = root /\ OtherTasks(t)
      /\ toBuild' = toBuild /\ op' = op /\ sep' = sep /\ result' = result
  BY TasksStay DEF LockSplit, At, shape, workload
<1>2. Knows(t) /\ ThreadOK(t)
  BY DEF RInv, IInv
<1>3. /\ node[t] \in Nodes /\ vNode[t] \in Nat /\ ~IsLocked(vNode[t])
      /\ vNode[t] <= tree[node[t]].word
  BY <1>1, <1>2 DEF ThreadOK, AtNode, Knows, KnowsNode, Versioned
<1>4. parent[t] # None => ~Full(parent[t])
  BY <1>1, <1>2 DEF Knows, KnowsParent
<1>5. CASE Restart(t) /\ UNCHANGED tree
  BY <1>1, <1>5, QuietRestartKnows
<1>6. CASE tree' = tree /\ Goto(t, "unlockParent") /\ UNCHANGED path
  <2>1. /\ pc'[t] = "unlockParent" /\ node' = node /\ parent' = parent
        /\ vNode' = vNode /\ vParent' = vParent
    BY <1>6, GotoMoves
  <2>2. KnowsNode(t)'
    BY <1>3, <1>6, <2>1 DEF KnowsNode, AtLeaf
  <2>3. KnowsParent(t)'
    BY <1>1, <1>2, <1>6, <2>1 DEF Knows, KnowsParent, Intact, Full, IsInner
  <2>4. KnowsTask(t)'
    BY <1>1, <1>2, <2>1 DEF Knows, KnowsTask, Inserting
  <2> QED
    BY <1>1, <1>6, <2>2, <2>3, <2>4, GotoKnows DEF Knows
<1>7. CASE /\ Upgrade(node[t], vNode[t]) /\ UNCHANGED path
           /\ Goto(t, IF parent[t] # None THEN "split" ELSE "recheckRoot")
  <2>1. PICK p \in {"split", "recheckRoot"} : Goto(t, p)
    BY <1>7
  <2>2. /\ Others(t) /\ pc'[t] = p /\ node' = node /\ parent' = parent
        /\ vNode' = vNode /\ vParent' = vParent
    BY <1>7, <2>1, GotoMoves
  <2>3. /\ ContentsOK' /\ Nodes' = Nodes /\ \A m \in Nodes : NodeStep(t, m)
        /\ \A m \in Nodes : tree'[m].keys = tree[m].keys /\ tree'[m].type = tree[m].type
        /\ tree'[node[t]].word = vNode[t] + 2
        /\ Intact(node[t], vNode[t])
    BY <1>1, <1>3, <1>7, UpgradeRewords
  <2>4. KnowsNode(t)'
    <3>1. Full(node[t]) /\ vNode[t] <= vNode[t] + 2
      BY <1>1, <1>2, <1>3, <2>3 DEF Knows, KnowsNode
    <3> QED
      BY <1>3, <2>1, <2>2, <2>3, <3>1 DEF KnowsNode, AtLeaf, Full, IsInner
  <2>5. KnowsParent(t)'
    BY <1>1, <1>4, <2>1, <2>2, <2>3, ParentStands DEF AtNode
  <2>6. KnowsTask(t)'
    BY <1>1, <1>2, <2>1, <2>2 DEF Knows, KnowsTask, Inserting
  <2> QED
    BY <1>1, <2>2, <2>3, <2>4, <2>5, <2>6, OwnKnowledge DEF Knows
<1> QED
  BY <1>5, <1>6, <1>7 DEF LockSplit

\* The leaf is locked at the version at which it had room.
LEMMA LockLeafKnows ==
  ASSUME IInv, RInv, NEW t \in Threads, LockLeaf(t)
  PROVE  RInv'
<1>1. /\ pc[t] = "lockLeaf" /\ root' = root /\ OtherTasks(t)
      /\ toBuild' = toBuild /\ op' = op /\ sep' = sep /\ result' = result
  BY TasksStay DEF LockLeaf, At, shape, workload
<1>2. Knows(t) /\ ThreadOK(t)
  BY DEF RInv, IInv
<1>3. /\ node[t] \in Nodes /\ vNode[t] \in Nat /\ ~IsLocked(vNode[t]) /\ ~IsInner(node[t])
      /\ vNode[t] <= tree[node[t]].word
  BY <1>1, <1>2 DEF ThreadOK, AtNode, Knows, KnowsNode, Versioned, AtLeaf
<1>4. CASE Restart(t) /\ UNCHANGED tree
  BY <1>1, <1>4, QuietRestartKnows
<1>5. CASE /\ Upgrade(node[t], vNode[t]) /\ UNCHANGED path
           /\ Goto(t, IF parent[t] # None THEN "leafParent" ELSE "insert")
  <2>1. PICK p \in {"leafParent", "insert"} : Goto(t, p)
    BY <1>5
  <2>2. /\ Others(t) /\ pc'[t] = p /\ node' = node /\ parent' = parent
        /\ vNode' = vNode /\ vParent' = vParent
    BY <1>5, <2>1, GotoMoves
  <2>3. /\ ContentsOK' /\ Nodes' = Nodes /\ \A m \in Nodes : NodeStep(t, m)
        /\ \A m \in Nodes : tree'[m].keys = tree[m].keys /\ tree'[m].type = tree[m].type
        /\ tree'[node[t]].word = vNode[t] + 2
        /\ Intact(node[t], vNode[t])
    BY <1>1, <1>3, <1>5, UpgradeRewords
  <2>4. KnowsNode(t)'
    <3>1. ~Full(node[t]) /\ vNode[t] <= vNode[t] + 2
      BY <1>1, <1>2, <1>3, <2>3 DEF Knows, KnowsNode, KnowsTask, Inserting
    <3> QED
      BY <1>3, <2>1, <2>2, <2>3, <3>1 DEF KnowsNode, Full, IsInner
  <2>5. KnowsParent(t)'
    BY <1>1, <2>1, <2>2, <2>3, ParentStands DEF AtNode
  <2>6. KnowsTask(t)'
    BY <1>1, <1>2, <2>1, <2>2 DEF Knows, KnowsTask, Inserting
  <2> QED
    BY <1>1, <2>2, <2>3, <2>4, <2>5, <2>6, OwnKnowledge DEF Knows
<1> QED
  BY <1>4, <1>5 DEF LockLeaf

\* The tests that are made under the lock.
LEMMA TestKnows ==
  ASSUME IInv, RInv, NEW t \in Threads, RecheckRoot(t) \/ LeafParent(t)
  PROVE  RInv'
<1>1. /\ pc[t] \in {"recheckRoot", "leafParent"} /\ tree' = tree /\ UNCHANGED path
      /\ toBuild' = toBuild /\ op' = op /\ sep' = sep /\ result' = result
  BY DEF RecheckRoot, LeafParent, At, workload
<1>2. PICK p : /\ Goto(t, p)
               /\ \/ pc[t] = "recheckRoot" /\ p \in {"split", "unlockNode"}
                  \/ pc[t] = "leafParent" /\ p \in {"insert", "abandonLeaf"}
  BY DEF RecheckRoot, LeafParent, At
<1>3. /\ pc'[t] = p /\ node' = node /\ parent' = parent /\ vNode' = vNode
      /\ vParent' = vParent
  BY <1>1, <1>2, GotoMoves
<1>4. Knows(t) /\ ThreadOK(t)
  BY DEF RInv, IInv
<1>5. KnowsNode(t)'
  BY <1>1, <1>2, <1>3, <1>4 DEF Knows, KnowsNode, Versioned, AtNode, AtLeaf, Full, IsInner
<1>6. KnowsParent(t)'
  BY <1>1, <1>2, <1>3, <1>4 DEF Knows, KnowsParent, ThreadOK, Intact, Full, IsInner
<1>7. KnowsTask(t)'
  BY <1>1, <1>2, <1>3, <1>4 DEF Knows, KnowsTask, Inserting
<1> QED
  BY <1>1, <1>2, <1>5, <1>6, <1>7, GotoKnows DEF Knows

\* The thread that has locked a node is not misled by a version it took before.
LEMMA OwnVersionIsOld ==
  ASSUME IInv, NEW t \in Threads, NEW n \in Nodes, Holds(t, n), NEW v, ~IsLocked(v)
  PROVE  ~Intact(n, v)
BY DEF IInv, LockOK, Intact

\* The separator and the new node go into the parent, which has room.
LEMMA LinkParentKnows ==
  ASSUME IInv, RInv, NEW t \in Threads, LinkParent(t)
  PROVE  RInv'
<1> DEFINE x == InnerInsert(tree[parent[t]], sep[t].key, sep[t].new)
<1>1. /\ pc[t] = "linkParent" /\ root' = root /\ UNCHANGED path /\ Goto(t, "unlockNode")
      /\ tree' = With(parent[t], x)
      /\ toBuild' = toBuild /\ op' = op /\ sep' = [sep EXCEPT ![t] = NoSplit]
      /\ result' = result
  BY DEF With, LinkParent, At, shape, workload
<1>2. Knows(t) /\ ThreadOK(t)
  BY DEF RInv, IInv
<1>3. /\ parent[t] \in Nodes /\ parent[t] # None /\ node[t] \in Nodes /\ node[t] # parent[t]
      /\ vParent[t] \in Nat /\ ~IsLocked(vParent[t])
  BY <1>1, <1>2 DEF ThreadOK, AtNode
<1>4. /\ IsInner(parent[t]) /\ ~Full(parent[t]) /\ vParent[t] <= tree[parent[t]].word
      /\ sep[t].key \in Keys /\ sep[t].new \in Nodes /\ vNode[t] <= tree[node[t]].word
  BY <1>1, <1>2, <1>3 DEF Knows, KnowsNode, KnowsParent, KnowsTask, Versioned, AtNode
<1>5. IsNode(tree[parent[t]]) /\ ContentOK(tree[parent[t]], Nodes)
  BY <1>3 DEF IInv, TreeOK, RInv, ContentsOK
<1>6. IsNode(x) /\ x.word = tree[parent[t]].word
  BY <1>5, InsertedIsNode
<1>7. ContentOK(x, Nodes) /\ x.type = tree[parent[t]].type
  BY <1>4, <1>5, InsertedInner DEF IsInner, Full, MaxKeys
<1>8. Holds(t, parent[t])
  BY <1>1 DEF Holds
<1> HIDE DEF x
<1>9. /\ ContentsOK' /\ Nodes' = Nodes /\ \A m \in Nodes : NodeStep(t, m)
      /\ \A m \in Nodes : tree'[m] = IF m = parent[t] THEN x ELSE tree[m]
  <2>1. Replaces(t, parent[t], x)
    BY <1>6, <1>7, <1>8 DEF Replaces
  <2> QED
    BY <1>1, <1>3, <2>1, NodeWritten
<1>10. /\ Others(t) /\ pc'[t] = "unlockNode" /\ node' = node /\ parent' = parent
       /\ vNode' = vNode /\ vParent' = vParent
  BY <1>1, GotoMoves
<1>11. KnowsNode(t)'
  BY <1>3, <1>4, <1>9, <1>10 DEF KnowsNode, AtLeaf
<1>12. KnowsParent(t)'
  <2>1. x.word # vParent[t] /\ x.type = "inner" /\ vParent[t] <= x.word
    BY <1>3, <1>4, <1>6, <1>7, <1>8, OwnVersionIsOld DEF Intact, IsInner
  <2>2. tree'[parent[t]] = x
    BY <1>3, <1>9
  <2> QED
    BY <1>10, <2>1, <2>2 DEF KnowsParent, Intact, IsInner
<1>13. KnowsTask(t)'
  BY <1>1, <1>2, <1>10 DEF Knows, KnowsTask, Inserting
<1>14. OtherTasks(t)
  BY <1>1 DEF RInv, OtherTasks, TasksPerThread
<1> QED
  BY <1>9, <1>10, <1>11, <1>12, <1>13, <1>14, OwnKnowledge DEF Knows

\* The record goes into the leaf, which has room.
LEMMA InsertKnows ==
  ASSUME IInv, RInv, NEW t \in Threads, InsertIntoLeaf(t)
  PROVE  RInv'
<1> DEFINE x == LeafInsert(tree[node[t]], op[t].key, op[t].value)
<1>1. /\ pc[t] = "insert" /\ root' = root /\ UNCHANGED path /\ Goto(t, "inserted")
      /\ tree' = With(node[t], x)
      /\ toBuild' = toBuild /\ op' = op /\ sep' = sep /\ result' = result
  BY DEF With, InsertIntoLeaf, At, workload
<1>2. Knows(t) /\ ThreadOK(t)
  BY DEF RInv, IInv
<1>3. node[t] \in Nodes
  BY <1>1, <1>2 DEF ThreadOK, AtNode
<1>4. /\ ~IsInner(node[t]) /\ ~Full(node[t]) /\ vNode[t] <= tree[node[t]].word
      /\ op[t].key \in Keys /\ op[t].value \in Values
  <2>1. op[t] \in Inserts
    BY <1>1, <1>2 DEF Knows, KnowsTask, Inserting, Inserts, Lookups
  <2> QED
    BY <1>1, <1>2, <2>1 DEF Knows, KnowsNode, Versioned, AtNode, AtLeaf, Inserts
<1>5. IsNode(tree[node[t]]) /\ ContentOK(tree[node[t]], Nodes)
  BY <1>3 DEF IInv, TreeOK, RInv, ContentsOK
<1>6. IsNode(x) /\ x.word = tree[node[t]].word
  BY <1>5, InsertedIsNode
<1>7. ContentOK(x, Nodes) /\ x.type = tree[node[t]].type
  BY <1>4, <1>5, InsertedLeaf DEF IsInner, Full, MaxKeys
<1>8. Holds(t, node[t])
  BY <1>1 DEF Holds
<1> HIDE DEF x
<1>9. /\ ContentsOK' /\ Nodes' = Nodes /\ \A m \in Nodes : NodeStep(t, m)
      /\ \A m \in Nodes : tree'[m] = IF m = node[t] THEN x ELSE tree[m]
  <2>1. Replaces(t, node[t], x)
    BY <1>6, <1>7, <1>8 DEF Replaces
  <2> QED
    BY <1>1, <1>3, <2>1, NodeWritten
<1>10. /\ Others(t) /\ pc'[t] = "inserted" /\ node' = node /\ parent' = parent
       /\ vNode' = vNode /\ vParent' = vParent
  BY <1>1, GotoMoves
<1>11. KnowsNode(t)'
  BY <1>3, <1>4, <1>6, <1>7, <1>9, <1>10 DEF KnowsNode, IsInner
<1>12. KnowsParent(t)'
  <2>1. parent[t] # None => parent[t] \in Nodes /\ tree'[parent[t]] = tree[parent[t]]
    BY <1>2, <1>4, <1>9 DEF ThreadOK, Knows, KnowsParent
  <2> QED
    BY <1>1, <1>2, <1>10, <2>1 DEF Knows, KnowsParent, Intact, Full, IsInner
<1>13. KnowsTask(t)'
  BY <1>1, <1>2, <1>10 DEF Knows, KnowsTask, Inserting
<1> QED
  BY <1>1, <1>9, <1>10, <1>11, <1>12, <1>13, TasksStay, OwnKnowledge DEF Knows

\* What may be added as node id: it may be the new root.
Adds(id, y) ==
  /\ id = Len(tree) + 1 /\ IsNode(y) /\ ContentOK(y, Nodes \cup {id})
  /\ root' \in Nodes \cup {id}

\* A node that is added to a tree in which one node may be rewritten by its
\* owner.
LEMMA NodeAdded ==
  ASSUME IInv, RInv, NEW t \in Threads, NEW n \in Nodes, NEW x, Replaces(t, n, x),
         NEW id, NEW y, Adds(id, y), tree' = Grown(n, x, y)
  PROVE  /\ ContentsOK' /\ Nodes' = Nodes \cup {id} /\ \A m \in Nodes : NodeStep(t, m)
         /\ \A m \in Nodes : tree'[m] = IF m = n THEN x ELSE tree[m]
<1>1. /\ Nodes' = Nodes \cup {id} /\ tree'[id] = y
      /\ \A m \in Nodes : tree'[m] = IF m = n THEN x ELSE tree[m]
  BY ReplacedAndAppended DEF IInv, Replaces, Adds
<1>2. ASSUME NEW z, ContentOK(z, Nodes) PROVE ContentOK(z, Nodes \cup {id})
  <2>1. z.kids \in Seq(Nodes) => z.kids \in Seq(Nodes \cup {id})
    BY LargerSet
  <2> QED
    BY <1>2, <2>1 DEF ContentOK
<1>3. \A m \in Nodes' : ContentOK(tree'[m], Nodes')
  BY <1>1, <1>2 DEF RInv, ContentsOK, Replaces, Adds
<1>4. ContentsOK'
  BY <1>3 DEF ContentsOK
<1>5. ASSUME NEW m \in Nodes PROVE NodeStep(t, m)
  <2>1. tree[m].word \in Nat /\ x.word \in Nat
    BY DEF IInv, TreeOK, IsNode, Replaces
  <2> QED
    BY <1>1, <2>1 DEF NodeStep, Replaces
<1> QED
  BY <1>1, <1>4, <1>5

\* A full node is split in two that have their share of it.
LEMMA SplitKnows ==
  ASSUME IInv, RInv, NEW t \in Threads, Split(t)
  PROVE  RInv'
<1>0. PICK newId : newId = Len(tree) + 1
  OBVIOUS
<1> DEFINE half == IF IsInner(node[t]) THEN InnerSplit(tree[node[t]])
                                       ELSE LeafSplit(tree[node[t]], newId)
           l == half.left
           r == half.right
<1>1. /\ pc[t] = "split" /\ root' = root /\ UNCHANGED path /\ tree' = Grown(node[t], l, r)
      /\ sep' = [sep EXCEPT ![t] = [key |-> half.key, new |-> newId]]
      /\ toBuild' = toBuild /\ op' = op /\ result' = result
  BY <1>0 DEF Split, At, Grown, workload
<1>2. PICK p \in {"linkParent", "makeRoot"} : Goto(t, p)
  BY DEF Split
<1>3. Knows(t) /\ ThreadOK(t)
  BY DEF RInv, IInv
<1>4. /\ node[t] \in Nodes /\ node[t] # parent[t] /\ Full(node[t])
      /\ vNode[t] <= tree[node[t]].word
  BY <1>1, <1>3 DEF ThreadOK, AtNode, Knows, KnowsNode, Versioned
<1>5. IsNode(tree[node[t]]) /\ ContentOK(tree[node[t]], Nodes) /\ root \in Nodes
  BY <1>4 DEF IInv, TreeOK, RInv, ContentsOK
<1>6. Len(tree[node[t]].keys) = MaxKeys(tree[node[t]])
  BY <1>4 DEF Full, MaxKeys, IsInner
<1>7. IsNode(l) /\ l.word = tree[node[t]].word /\ IsNode(r)
  BY <1>5, HalvesAreNodes
<1>8. /\ ContentOK(l, Nodes) /\ l.type = tree[node[t]].type
      /\ ContentOK(r, Nodes) /\ half.key \in Keys
  <2>1. CASE IsInner(node[t])
    <3>1. half = InnerSplit(tree[node[t]]) /\ tree[node[t]].type = "inner"
      BY <2>1 DEF IsInner
    <3> HIDE DEF half
    <3> QED
      BY <1>5, <1>6, <3>1, HalvesOfInner
  <2>2. CASE ~IsInner(node[t])
    <3>1. half = LeafSplit(tree[node[t]], newId) /\ tree[node[t]].type # "inner"
      BY <2>2 DEF IsInner
    <3> HIDE DEF half
    <3> QED
      BY <1>5, <1>6, <3>1, HalvesOfLeaf
  <2> QED
    BY <2>1, <2>2
<1>9. Holds(t, node[t])
  BY <1>1 DEF Holds
<1> HIDE DEF half, l, r
<1>10. ContentOK(r, Nodes \cup {newId})
  <2>1. r.kids \in Seq(Nodes) => r.kids \in Seq(Nodes \cup {newId})
    BY LargerSet
  <2> QED
    BY <1>8, <2>1 DEF ContentOK
<1>11. /\ ContentsOK' /\ Nodes' = Nodes \cup {newId} /\ \A m \in Nodes : NodeStep(t, m)
       /\ \A m \in Nodes : tree'[m] = IF m = node[t] THEN l ELSE tree[m]
  <2>1. root' \in Nodes \cup {newId}
    BY <1>1, <1>5
  <2>2. Replaces(t, node[t], l)
    BY <1>7, <1>8, <1>9 DEF Replaces
  <2>3. Adds(newId, r)
    BY <1>0, <1>7, <1>10, <2>1 DEF Adds
  <2> QED
    BY <1>1, <1>4, <2>2, <2>3, NodeAdded
<1>12. /\ Others(t) /\ pc'[t] = p /\ node' = node /\ parent' = parent
       /\ vNode' = vNode /\ vParent' = vParent
  BY <1>1, <1>2, GotoMoves
<1>13. OtherTasks(t) /\ sep'[t].key \in Keys /\ sep'[t].new \in Nodes'
  BY <1>1, <1>8, <1>11 DEF RInv, OtherTasks, TasksPerThread
<1>14. KnowsNode(t)'
  BY <1>2, <1>4, <1>7, <1>11, <1>12 DEF KnowsNode, AtLeaf
<1>15. KnowsParent(t)'
  <2>1. parent[t] # None => parent[t] \in Nodes /\ tree'[parent[t]] = tree[parent[t]]
    BY <1>3, <1>4, <1>11 DEF ThreadOK
  <2> QED
    BY <1>1, <1>2, <1>3, <1>12, <2>1 DEF Knows, KnowsParent, Intact, Full, IsInner
<1>16. KnowsTask(t)'
  BY <1>1, <1>2, <1>3, <1>12, <1>13 DEF Knows, KnowsTask, Inserting
<1> QED
  BY <1>11, <1>12, <1>13, <1>14, <1>15, <1>16, OwnKnowledge DEF Knows

\* The new root has the two halves for its children.
LEMMA MakeRootKnows ==
  ASSUME IInv, RInv, NEW t \in Threads, MakeRoot(t)
  PROVE  RInv'
<1>0. PICK newId : newId = Len(tree) + 1
  OBVIOUS
<1> DEFINE top == Inner(<<sep[t].key>>, <<node[t], sep[t].new>>)
<1>1. /\ pc[t] = "makeRoot" /\ root' = newId /\ UNCHANGED path /\ Goto(t, "unlockNode")
      /\ tree' = Append(tree, top) /\ sep' = [sep EXCEPT ![t] = NoSplit]
      /\ toBuild' = toBuild /\ op' = op /\ result' = result
  BY <1>0 DEF MakeRoot, At, workload
<1>2. Knows(t) /\ ThreadOK(t)
  BY DEF RInv, IInv
<1>3. /\ node[t] \in Nodes /\ parent[t] = None /\ vNode[t] <= tree[node[t]].word
      /\ sep[t].key \in Keys /\ sep[t].new \in Nodes
  BY <1>1, <1>2 DEF ThreadOK, AtNode, Knows, KnowsNode, KnowsTask, Versioned
<1>4. IsNode(tree[node[t]]) /\ ContentOK(tree[node[t]], Nodes)
  BY <1>3 DEF IInv, TreeOK, RInv, ContentsOK
<1>5. tree = [tree EXCEPT ![node[t]] = tree[node[t]]]
  <2>1. PICK S : tree \in Seq(S)
    BY DEF IInv, TreeOK
  <2> QED
    BY <2>1
<1>6. tree' = Grown(node[t], tree[node[t]], top)
  BY <1>1, <1>5 DEF Grown
<1>7. IsNode(top)
  BY NewIsFree DEF IsNode, Inner
<1>8. ContentOK(top, Nodes \cup {newId})
  <2>1. <<sep[t].key>> \in Seq(Keys) /\ Len(<<sep[t].key>>) = 1
    BY <1>3
  <2>2. /\ <<node[t], sep[t].new>> \in Seq(Nodes \cup {newId})
        /\ Len(<<node[t], sep[t].new>>) = 2
    BY <1>3
  <2>3. top.keys = <<sep[t].key>> /\ top.kids = <<node[t], sep[t].new>> /\ top.type = "inner"
    BY DEF Inner
  <2> HIDE DEF top
  <2>4. 1 <= InnerMax - 1
    BY CapacityAssumption
  <2> QED
    BY <2>1, <2>2, <2>3, <2>4 DEF ContentOK, MaxKeys
<1>9. Holds(t, node[t])
  BY <1>1 DEF Holds
<1> HIDE DEF top
<1>10. /\ ContentsOK' /\ Nodes' = Nodes \cup {newId} /\ \A m \in Nodes : NodeStep(t, m)
       /\ \A m \in Nodes : tree'[m] = IF m = node[t] THEN tree[node[t]] ELSE tree[m]
  <2>1. Replaces(t, node[t], tree[node[t]])
    BY <1>4, <1>9 DEF Replaces
  <2>2. Adds(newId, top)
    BY <1>0, <1>1, <1>7, <1>8 DEF Adds
  <2> QED
    BY <1>3, <1>6, <2>1, <2>2, NodeAdded
<1>11. /\ Others(t) /\ pc'[t] = "unlockNode" /\ node' = node /\ parent' = parent
       /\ vNode' = vNode /\ vParent' = vParent
  BY <1>1, GotoMoves
<1>12. KnowsNode(t)'
  BY <1>3, <1>10, <1>11 DEF KnowsNode, AtLeaf
<1>13. KnowsParent(t)'
  BY <1>3, <1>11 DEF KnowsParent
<1>14. KnowsTask(t)'
  BY <1>1, <1>2, <1>11 DEF Knows, KnowsTask, Inserting
<1>15. OtherTasks(t)
  BY <1>1 DEF RInv, OtherTasks, TasksPerThread
<1> QED
  BY <1>10, <1>11, <1>12, <1>13, <1>14, <1>15, OwnKnowledge DEF Knows

\* The unlocks: nothing is known of the path after the last of them.
LEMMA UnlockKnows ==
  ASSUME IInv, RInv, NEW t \in Threads,
         UnlockNode(t) \/ UnlockParent(t) \/ AbandonLeaf(t) \/ ReturnInsert(t)
  PROVE  RInv'
<1> USE DEF At, shape, workload
<1>1. /\ root' = root /\ Knows(t) /\ ThreadOK(t)
      /\ pc[t] \in {"unlockNode", "unlockParent", "abandonLeaf", "inserted"}
  BY DEF UnlockNode, UnlockParent, AbandonLeaf, ReturnInsert, RInv, IInv
<1>2. node[t] \in Nodes /\ op[t] \in Inserts \cup Lookups
  BY <1>1 DEF ThreadOK, AtNode, Knows, KnowsTask
<1>3. PICK n \in Nodes : Holds(t, n) /\ Unlock(n)
  <2>1. parent[t] \in Nodes \/ ~UnlockParent(t)
    BY <1>1 DEF ThreadOK, UnlockParent
  <2> QED
    BY <1>2, <2>1 DEF UnlockNode, UnlockParent, AbandonLeaf, ReturnInsert, Holds
<1>4. /\ ContentsOK' /\ Nodes' = Nodes /\ \A m \in Nodes : NodeStep(t, m)
      /\ \A m \in Nodes : tree'[m].keys = tree[m].keys
  BY <1>1, <1>3, UnlockRewords
<1>5. CASE Restart(t) /\ toBuild' = toBuild /\ op' = op /\ sep' = sep /\ result' = result
  BY <1>2, <1>4, <1>5, RestartKnows, TasksStay, OwnKnowledge
<1>6. CASE UnlockNode(t) /\ parent[t] # None
  <2>1. /\ pc[t] = "unlockNode" /\ Goto(t, "unlockParent") /\ UNCHANGED path
        /\ toBuild' = toBuild /\ op' = op /\ sep' = sep /\ result' = result
    BY <1>6 DEF UnlockNode
  <2>2. /\ Others(t) /\ pc'[t] = "unlockParent" /\ node' = node /\ parent' = parent
        /\ vNode' = vNode /\ vParent' = vParent
    BY <2>1, GotoMoves
  <2>3. KnowsNode(t)'
    <3>1. /\ vNode[t] <= tree[node[t]].word /\ vNode[t] \in Nat /\ ~IsLocked(vNode[t])
      BY <1>1 DEF Knows, KnowsNode, ThreadOK, Versioned, AtNode
    <3>2. vNode[t] <= tree'[node[t]].word
      BY <1>2, <1>4, <3>1, VersionTells
    <3> QED
      BY <2>2, <3>2 DEF KnowsNode, AtLeaf
  <2>4. KnowsParent(t)'
    BY <1>4, <2>1, <2>2, ParentStands DEF AtNode
  <2>5. KnowsTask(t)'
    BY <1>1, <2>1, <2>2 DEF Knows, KnowsTask, Inserting
  <2> QED
    BY <1>4, <2>1, <2>2, <2>3, <2>4, <2>5, TasksStay, OwnKnowledge DEF Knows
<1>7. CASE ReturnInsert(t)
  <2>1. Return(t) /\ sep' = sep /\ result' = result
    BY <1>7 DEF ReturnInsert
  <2>2. /\ Knows(t)' /\ Others(t) /\ op' = [op EXCEPT ![t] = NoOp]
        /\ toBuild' \in Seq(Inserts)
    BY <2>1, ReturnKnows
  <2>3. OtherTasks(t)
    BY <2>1, <2>2 DEF RInv, OtherTasks, TasksPerThread
  <2> QED
    BY <1>4, <2>2, <2>3, OwnKnowledge
<1>8. \/ Restart(t) /\ toBuild' = toBuild /\ op' = op /\ sep' = sep /\ result' = result
      \/ UnlockNode(t) /\ parent[t] # None
      \/ ReturnInsert(t)
  BY DEF UnlockNode, UnlockParent, AbandonLeaf
<1> QED
  BY <1>5, <1>6, <1>7, <1>8

-----------------------------------------------------------------------------
(* The theorems.                                                           *)

\* Nobody knows anything of the empty tree.
LEMMA InitRInv == Init => RInv
<1> SUFFICES ASSUME Init PROVE RInv
  OBVIOUS
<1> DEFINE leaf == Leaf(<<>>, <<>>, None)
<1>1. /\ leaf.keys = <<>> /\ leaf.vals = <<>> /\ leaf.type = "leaf"
  BY DEF Leaf
<1> HIDE DEF leaf
<1>2. tree = <<leaf>> /\ Nodes = {1}
  BY DEF Init, leaf, Nodes
<1>3. ContentsOK
  <2>1. ContentOK(leaf, Nodes)
    BY <1>1, CapacityAssumption DEF ContentOK, MaxKeys
  <2> QED
    BY <1>2, <2>1 DEF ContentsOK
<1>4. TasksPerThread
  BY RequestAssumption DEF Init, TasksPerThread, Inserts
<1>5. \A t \in Threads : pc[t] = "idle" /\ parent[t] = None
  BY DEF Init
<1>6. \A t \in Threads : KnowsNode(t) /\ KnowsParent(t) /\ KnowsTask(t)
  BY <1>5 DEF KnowsNode, KnowsParent, KnowsTask, Versioned, AtNode, AtLeaf, Inserting
<1> QED
  BY <1>3, <1>4, <1>6 DEF RInv, Knows

\* Every step keeps what is known.
LEMMA NextKnows ==
  ASSUME IInv, RInv, [Next]_vars
  PROVE  RInv'
<1>1. CASE UNCHANGED vars
  <2>1. /\ tree' = tree /\ pc' = pc /\ node' = node /\ parent' = parent /\ toBuild' = toBuild
        /\ vNode' = vNode /\ vParent' = vParent /\ op' = op /\ sep' = sep /\ result' = result
    BY <1>1 DEF vars, path, workload
  <2>2. ContentsOK' /\ TasksPerThread'
    BY <2>1 DEF RInv, ContentsOK, TasksPerThread, Nodes
  <2>3. ASSUME NEW t \in Threads PROVE Knows(t)'
    <3>1. Knows(t)
      BY DEF RInv
    <3> QED
      BY <2>1, <3>1
         DEF Knows, KnowsNode, KnowsParent, KnowsTask, Intact, Full, IsInner, Nodes
  <2> QED
    BY <2>2, <2>3 DEF RInv
<1>2. ASSUME NEW t \in Threads, Begin(t) PROVE RInv'
  BY <1>2, BeginKnows
<1>3. ASSUME NEW t \in Threads, Descend(t) PROVE RInv'
  BY <1>3, DescendKnows
<1>4. ASSUME NEW t \in Threads, SplitNode(t) PROVE RInv'
  BY <1>4, LockParentKnows, LockSplitKnows, TestKnows, SplitKnows, LinkParentKnows,
     MakeRootKnows, UnlockKnows DEF SplitNode
<1>5. ASSUME NEW t \in Threads, Insert(t) PROVE RInv'
  BY <1>5, LockLeafKnows, TestKnows, InsertKnows, UnlockKnows DEF Insert
<1>6. ASSUME NEW t \in Threads, Lookup(t) PROVE RInv'
  BY <1>6, LookupKnows
<1> QED
  BY <1>1, <1>2, <1>3, <1>4, <1>5, <1>6 DEF Next, Step

\* The two invariants together are inductive.
LEMMA BothHold == Spec => [](IInv /\ RInv)
<1>1. Init => IInv /\ RInv
  BY InitIInv, InitRInv
<1>2. IInv /\ RInv /\ [Next]_vars => (IInv /\ RInv)'
  BY NextKeeps, NextKnows, KnowingIsEnough
<1> QED
  BY <1>1, <1>2, PTL DEF Spec

\* No thread follows a pointer or returns a value that it read from a node in
\* change, and what it follows is a node (BTreeOLC.h:354-356, 456-472).
THEOREM TornReadsAreCaught == Spec => []NothingTornIsUsed
BY BothHold, KnowingIsEnough, PTL

\* The asserts of both insert functions: the node has room, though it was tested
\* before it was locked (BTreeOLC.h:124, 218).
THEOREM InsertsHaveRoom == Spec => []RoomToInsert
BY BothHold, KnowingIsEnough, PTL

\* A node is locked exactly while one thread is in a critical section on it
\* (BTreeOLC.h:317-343, 364-412).
THEOREM LocksAreOwned == Spec => []LocksHaveOneOwner
BY BothHold, OwnersAreCounted, PTL

\* No step writes a node that it has not locked: what a step changes of a node
\* is the lock of a free one, or its owner changes it (BTreeOLC.h:317-343,
\* 364-412).
THEOREM WritesAreOwned == Spec => [][OnlyOwnersWrite]_vars
<1>1. IInv /\ RInv /\ [Next]_vars => [OnlyOwnersWrite]_vars
  BY NextKeeps, KnowingIsEnough
<1> QED
  BY <1>1, BothHold, PTL DEF Spec

=============================================================================
