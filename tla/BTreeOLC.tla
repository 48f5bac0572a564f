------------------------------ MODULE BTreeOLC ------------------------------
(***************************************************************************)
(* The concurrent B+-tree of the multi-threaded hybrid index               *)
(* (dynamic/btree/BTreeOLC.h) under optimistic lock coupling: a thread     *)
(* descends from the root taking versions, validates the parent's version  *)
(* after it has the child's, and restarts from the root whenever one of    *)
(* them moved.  Inserts split full nodes eagerly on the way down.          *)
(*                                                                         *)
(* One action per access to shared memory.  A read of a node whose version *)
(* moved since the thread took it may see a half-done modification: it     *)
(* returns Torn, and the properties say that nothing ever comes of it.     *)
(* The spins (yield) have no effect on the state and are left out.         *)
(***************************************************************************)
EXTENDS OptLock, SequencesExt

CONSTANTS
  Threads,
  Keys, Values,
  Missing,    \* the result of a lookup that finds nothing
  Torn,       \* what a read of a node under modification returns
  None,       \* the null pointer
  LeafMax,    \* BTreeLeaf::maxEntries
  InnerMax,   \* BTreeInner::maxEntries
  Records,    \* the inserts Build makes, in order
  Builder,    \* the thread that runs Build
  Requests,   \* what the threads may ask afterwards
  MaxOps,     \* bound: requests of one thread
  MaxWord     \* bound: no node is locked beyond this version word

ASSUME CapacityAssumption == LeafMax \in Nat /\ LeafMax >= 2
                             /\ InnerMax \in Nat /\ InnerMax >= 5
ASSUME BuilderAssumption == Builder \in Threads
ASSUME KeyAssumption == Keys \subseteq Nat
ASSUME NullAssumption == None \notin Nat
ASSUME TornAssumption == Torn \notin Values \cup {Missing}
ASSUME RequestAssumption ==
  LET Inserts == [kind : {"insert"}, key : Keys, value : Values]
  IN  /\ Records \in Seq(Inserts)
      /\ Requests \subseteq Inserts \cup [kind : {"lookup"}, key : Keys]

VARIABLES
  tree,        \* the nodes allocated so far, a sequence: ids are positions
  root, firstLeaf,
  itemCount, leafCount, innerCount,
  toBuild,     \* the inserts of Build that have not returned
  left,        \* requests each thread may still make
  pc, op,      \* where a thread is, and what it is doing
  node, vNode, \* current node and the version taken of it
  parent, vParent,
  sep,         \* the separator of the split in progress and its new node
  result       \* of a lookup

shape    == <<root, firstLeaf, itemCount, leafCount, innerCount>>
path     == <<node, vNode, parent, vParent>>
workload == <<toBuild, left, op>>
vars == <<tree, shape, workload, pc, path, sep, result>>

NoSplit == [key |-> 0, new |-> None]
NoOp == [kind |-> "none"]

Leaf(keys, vals, next) ==
  [type |-> "leaf", word |-> InitialWord, keys |-> keys, vals |-> vals,
   kids |-> <<>>, next |-> next]
Inner(keys, kids) ==
  [type |-> "inner", word |-> InitialWord, keys |-> keys, vals |-> <<>>,
   kids |-> kids, next |-> None]

Init ==
  /\ tree = <<Leaf(<<>>, <<>>, None)>>
  /\ root = 1 /\ firstLeaf = 1
  /\ itemCount = 0 /\ leafCount = 1 /\ innerCount = 0
  /\ toBuild = Records
  /\ left = [t \in Threads |-> MaxOps]
  /\ pc = [t \in Threads |-> "idle"]
  /\ op = [t \in Threads |-> NoOp]
  /\ node = [t \in Threads |-> None]
  /\ vNode = [t \in Threads |-> 0]
  /\ parent = [t \in Threads |-> None]
  /\ vParent = [t \in Threads |-> 0]
  /\ sep = [t \in Threads |-> NoSplit]
  /\ result = [t \in Threads |-> Missing]

-----------------------------------------------------------------------------
Goto(t, step) == pc' = [pc EXCEPT ![t] = step]
At(t, step) == pc[t] = step

\* goto restart: the thread forgets the path, its next step reads the root.
Forget(t) ==
  /\ node' = [node EXCEPT ![t] = None]
  /\ vNode' = [vNode EXCEPT ![t] = 0]
  /\ parent' = [parent EXCEPT ![t] = None]
  /\ vParent' = [vParent EXCEPT ![t] = 0]

Restart(t) == Goto(t, "readRoot") /\ Forget(t)

\* Number of keys below k: where the binary search of a sorted node ends.
LowerBound(keys, k) == Cardinality({i \in DOMAIN keys : keys[i] < k})

IsInner(n) == tree[n].type = "inner"

\* Faulty: an inner node is called full one key too late.
FullTooLate(n) == Len(tree[n].keys) = IF IsInner(n) THEN InnerMax ELSE LeafMax

Full(n) == Len(tree[n].keys) = IF IsInner(n) THEN InnerMax - 1 ELSE LeafMax

Intact(n, version) == tree[n].word = version

\* An unlocked test of a node may answer anything once its version has moved.
MayRead(n, version, truth, answer) == Intact(n, version) => answer = truth

ChildFor(n, k) == tree[n].kids[LowerBound(tree[n].keys, k) + 1]

\* Faulty: returns the entry's key for its payload.
KeyIn(n, k) ==
  LET pos == LowerBound(tree[n].keys, k) + 1
  IN  IF pos <= Len(tree[n].keys) /\ tree[n].keys[pos] = k
      THEN tree[n].keys[pos] ELSE Missing

ValueIn(n, k) ==
  LET pos == LowerBound(tree[n].keys, k) + 1
  IN  IF pos <= Len(tree[n].keys) /\ tree[n].keys[pos] = k
      THEN tree[n].vals[pos] ELSE Missing

LeafInsert(leaf, k, v) ==
  LET pos == LowerBound(leaf.keys, k) + 1
  IN  IF pos <= Len(leaf.keys) /\ leaf.keys[pos] = k
      THEN [leaf EXCEPT !.vals[pos] = v]
      ELSE [leaf EXCEPT !.keys = InsertAt(@, pos, k),
                        !.vals = InsertAt(@, pos, v)]

\* Faulty: without the final swap the new child is left of the split one.
InnerInsertUnswapped(inner, k, child) ==
  LET pos == LowerBound(inner.keys, k) + 1
  IN  [inner EXCEPT !.keys = InsertAt(@, pos, k),
                    !.kids = InsertAt(@, pos, child)]

\* The new child goes to the right of the one that was split.
InnerInsert(inner, k, child) ==
  LET pos == LowerBound(inner.keys, k) + 1
  IN  [inner EXCEPT !.keys = InsertAt(@, pos, k),
                    !.kids = InsertAt(@, pos + 1, child)]

\* The left half, the right half and the separator of a split.
LeafSplit(leaf, newId) ==
  LET count == Len(leaf.keys)
      keep  == count - (count - count \div 2)
  IN  [left  |-> [leaf EXCEPT !.keys = SubSeq(@, 1, keep),
                              !.vals = SubSeq(@, 1, keep), !.next = newId],
       right |-> Leaf(SubSeq(leaf.keys, keep + 1, count),
                      SubSeq(leaf.vals, keep + 1, count), leaf.next),
       key   |-> leaf.keys[keep]]

InnerSplit(inner) ==
  LET count == Len(inner.keys)
      keep  == count - (count - count \div 2) - 1
  IN  [left  |-> [inner EXCEPT !.keys = SubSeq(@, 1, keep),
                               !.kids = SubSeq(@, 1, keep + 1)],
       right |-> Inner(SubSeq(inner.keys, keep + 2, count),
                       SubSeq(inner.kids, keep + 2, count + 1)),
       key   |-> inner.keys[keep + 1]]

-----------------------------------------------------------------------------
(* Calls: Build inserts its records before any other request is made. *)

Begin(t) ==
  /\ At(t, "idle")
  /\ \/ /\ toBuild # <<>> /\ t = Builder
        /\ op' = [op EXCEPT ![t] = Head(toBuild)]
        /\ UNCHANGED left
     \/ /\ toBuild = <<>> /\ left[t] > 0
        /\ \E request \in Requests : op' = [op EXCEPT ![t] = request]
        /\ left' = [left EXCEPT ![t] = @ - 1]
  /\ Restart(t)
  /\ UNCHANGED <<tree, shape, toBuild, sep, result>>

Return(t) ==
  /\ Goto(t, "idle")
  /\ Forget(t)
  /\ op' = [op EXCEPT ![t] = NoOp]
  /\ toBuild' = IF toBuild = <<>> THEN toBuild ELSE Tail(toBuild)
  /\ UNCHANGED left

-----------------------------------------------------------------------------
(* The descent, the same in insert and lookup. *)

ReadRoot(t) ==
  /\ At(t, "readRoot")
  /\ node' = [node EXCEPT ![t] = root]
  /\ Goto(t, "lockRoot")
  /\ UNCHANGED <<tree, shape, workload, vNode, parent, vParent, sep, result>>

LockNode(t, after) ==
  IF ReadLockable(tree[node[t]].word)
  THEN /\ vNode' = [vNode EXCEPT ![t] = tree[node[t]].word]
       /\ Goto(t, after)
       /\ UNCHANGED <<node, parent, vParent>>
  ELSE Restart(t)

LockRoot(t) ==
  /\ At(t, "lockRoot")
  /\ LockNode(t, "checkRoot")
  /\ UNCHANGED <<tree, shape, workload, sep, result>>

CheckRoot(t) ==
  /\ At(t, "checkRoot")
  /\ IF node[t] = root THEN Goto(t, "visit") /\ UNCHANGED path ELSE Restart(t)
  /\ UNCHANGED <<tree, shape, workload, sep, result>>

\* The top of the loop.  An insert splits a full node eagerly.
Visit(t) ==
  /\ At(t, "visit")
  /\ \E full \in BOOLEAN :
       LET splits == op[t].kind = "insert" /\ full
       IN  /\ MayRead(node[t], vNode[t], Full(node[t]), full)
           /\ Goto(t, CASE splits ->
                             IF parent[t] # None THEN "lockParent" ELSE "lockSplit"
                        [] ~splits /\ IsInner(node[t]) ->
                             IF parent[t] # None THEN "checkParent" ELSE "readChild"
                        [] OTHER ->
                             IF op[t].kind = "insert" THEN "lockLeaf" ELSE "readLeaf")
  /\ UNCHANGED <<tree, shape, workload, path, sep, result>>

CheckParent(t) ==
  /\ At(t, "checkParent")
  /\ IF Intact(parent[t], vParent[t])
     THEN Goto(t, "readChild") /\ UNCHANGED path
     ELSE Restart(t)
  /\ UNCHANGED <<tree, shape, workload, sep, result>>

ReadChild(t) ==
  /\ At(t, "readChild")
  /\ parent' = [parent EXCEPT ![t] = node[t]]
  /\ vParent' = [vParent EXCEPT ![t] = vNode[t]]
  /\ node' = [node EXCEPT ![t] = IF Intact(@, vNode[t])
                                 THEN ChildFor(@, op[t].key) ELSE Torn]
  /\ Goto(t, "checkChild")
  /\ UNCHANGED <<tree, shape, workload, vNode, sep, result>>

CheckChild(t) ==
  /\ At(t, "checkChild")
  /\ IF Intact(parent[t], vNode[t])
     THEN Goto(t, "lockChild") /\ UNCHANGED path
     ELSE Restart(t)
  /\ UNCHANGED <<tree, shape, workload, sep, result>>

\* NothingTornIsUsed: the pointer that is followed here is never torn.
LockChild(t) ==
  /\ At(t, "lockChild")
  /\ node[t] # Torn
  /\ LockNode(t, "visit")
  /\ UNCHANGED <<tree, shape, workload, sep, result>>

-----------------------------------------------------------------------------
(* Splitting a full node. *)

\* upgradeToWriteLockOrRestart on node n at version v.
Upgrade(n, v) == /\ Intact(n, v)
                 /\ v < MaxWord
                 /\ tree' = [tree EXCEPT ![n].word = Locked(v)]

Unlock(n) == tree' = [tree EXCEPT ![n].word = Unlocked(@)]

LockParent(t) ==
  /\ At(t, "lockParent")
  /\ \/ /\ Upgrade(parent[t], vParent[t])
        /\ Goto(t, "lockSplit") /\ UNCHANGED path
     \/ /\ ~Intact(parent[t], vParent[t])
        /\ Restart(t) /\ UNCHANGED tree
  /\ UNCHANGED <<shape, workload, sep, result>>

\* Faulty: restarts without giving the parent's lock back.
LockSplitKeepsParent(t) ==
  /\ At(t, "lockSplit")
  /\ \/ /\ Upgrade(node[t], vNode[t])
        /\ Goto(t, IF parent[t] # None THEN "split" ELSE "recheckRoot")
        /\ UNCHANGED path
     \/ /\ ~Intact(node[t], vNode[t])
        /\ UNCHANGED tree
        /\ Restart(t)
  /\ UNCHANGED <<shape, workload, sep, result>>

LockSplit(t) ==
  /\ At(t, "lockSplit")
  /\ \/ /\ Upgrade(node[t], vNode[t])
        /\ Goto(t, IF parent[t] # None THEN "split" ELSE "recheckRoot")
        /\ UNCHANGED path
     \/ /\ ~Intact(node[t], vNode[t])
        /\ UNCHANGED tree
        /\ IF parent[t] # None THEN Goto(t, "unlockParent") /\ UNCHANGED path
                               ELSE Restart(t)
  /\ UNCHANGED <<shape, workload, sep, result>>

\* A node without a parent may have been given one since it was read.
RecheckRoot(t) ==
  /\ At(t, "recheckRoot")
  /\ Goto(t, IF node[t] = root THEN "split" ELSE "unlockNode")
  /\ UNCHANGED <<tree, shape, workload, path, sep, result>>

Split(t) ==
  /\ At(t, "split")
  /\ LET n     == node[t]
         newId == Len(tree) + 1
         half  == IF IsInner(n) THEN InnerSplit(tree[n])
                                ELSE LeafSplit(tree[n], newId)
     IN  /\ tree' = Append([tree EXCEPT ![n] = half.left], half.right)
         /\ sep' = [sep EXCEPT ![t] = [key |-> half.key, new |-> newId]]
         /\ IF IsInner(n)
            THEN innerCount' = innerCount + 1 /\ UNCHANGED leafCount
            ELSE leafCount' = leafCount + 1 /\ UNCHANGED innerCount
  /\ Goto(t, IF parent[t] # None THEN "linkParent" ELSE "makeRoot")
  /\ UNCHANGED <<root, firstLeaf, itemCount, workload, path, result>>

LinkParent(t) ==
  /\ At(t, "linkParent")
  /\ tree' = [tree EXCEPT ![parent[t]] =
                InnerInsert(@, sep[t].key, sep[t].new)]
  /\ sep' = [sep EXCEPT ![t] = NoSplit]
  /\ Goto(t, "unlockNode")
  /\ UNCHANGED <<shape, workload, path, result>>

\* Only a leaf's new root is counted.
MakeRoot(t) ==
  /\ At(t, "makeRoot")
  /\ tree' = Append(tree, Inner(<<sep[t].key>>, <<node[t], sep[t].new>>))
  /\ root' = Len(tree) + 1
  /\ innerCount' = IF IsInner(node[t]) THEN innerCount ELSE innerCount + 1
  /\ sep' = [sep EXCEPT ![t] = NoSplit]
  /\ Goto(t, "unlockNode")
  /\ UNCHANGED <<firstLeaf, itemCount, leafCount, workload, path, result>>

UnlockNode(t) ==
  /\ At(t, "unlockNode")
  /\ Unlock(node[t])
  /\ IF parent[t] # None THEN Goto(t, "unlockParent") /\ UNCHANGED path
                         ELSE Restart(t)
  /\ UNCHANGED <<shape, workload, sep, result>>

UnlockParent(t) ==
  /\ At(t, "unlockParent")
  /\ Unlock(parent[t])
  /\ Restart(t)
  /\ UNCHANGED <<shape, workload, sep, result>>

-----------------------------------------------------------------------------
(* Inserting into a leaf that is not full: only the leaf is locked, then    *)
(* the parent is validated.                                                 *)

LockLeaf(t) ==
  /\ At(t, "lockLeaf")
  /\ \/ /\ Upgrade(node[t], vNode[t])
        /\ Goto(t, IF parent[t] # None THEN "leafParent" ELSE "insert")
        /\ UNCHANGED path
     \/ /\ ~Intact(node[t], vNode[t])
        /\ Restart(t) /\ UNCHANGED tree
  /\ UNCHANGED <<shape, workload, sep, result>>

\* Faulty: inserts without validating the parent.
LeafParentUnchecked(t) ==
  /\ At(t, "leafParent")
  /\ Goto(t, "insert")
  /\ UNCHANGED <<tree, shape, workload, path, sep, result>>

LeafParent(t) ==
  /\ At(t, "leafParent")
  /\ Goto(t, IF Intact(parent[t], vParent[t]) THEN "insert" ELSE "abandonLeaf")
  /\ UNCHANGED <<tree, shape, workload, path, sep, result>>

AbandonLeaf(t) ==
  /\ At(t, "abandonLeaf")
  /\ Unlock(node[t])
  /\ Restart(t)
  /\ UNCHANGED <<shape, workload, sep, result>>

\* Faulty: only an insert that meets its key is counted.
InsertUncounted(t) ==
  /\ At(t, "insert")
  /\ tree' = [tree EXCEPT ![node[t]] = LeafInsert(@, op[t].key, op[t].value)]
  /\ itemCount' = IF ValueIn(node[t], op[t].key) = Missing THEN itemCount
                                                          ELSE itemCount + 1
  /\ Goto(t, "inserted")
  /\ UNCHANGED <<root, firstLeaf, leafCount, innerCount, workload, path, sep,
                 result>>

\* item_count grows on an upsert too.
InsertIntoLeaf(t) ==
  /\ At(t, "insert")
  /\ tree' = [tree EXCEPT ![node[t]] = LeafInsert(@, op[t].key, op[t].value)]
  /\ itemCount' = itemCount + 1
  /\ Goto(t, "inserted")
  /\ UNCHANGED <<root, firstLeaf, leafCount, innerCount, workload, path, sep,
                 result>>

ReturnInsert(t) ==
  /\ At(t, "inserted")
  /\ Unlock(node[t])
  /\ Return(t)
  /\ UNCHANGED <<shape, sep, result>>

-----------------------------------------------------------------------------
(* Looking a key up in a leaf. *)

ReadLeaf(t) ==
  /\ At(t, "readLeaf")
  /\ result' = [result EXCEPT ![t] = IF Intact(node[t], vNode[t])
                                     THEN ValueIn(node[t], op[t].key)
                                     ELSE Torn]
  /\ Goto(t, IF parent[t] # None THEN "lookupParent" ELSE "lookupLeaf")
  /\ UNCHANGED <<tree, shape, workload, path, sep>>

\* Faulty: takes the leaf's answer without validating the parent.
LookupParentUnchecked(t) ==
  /\ At(t, "lookupParent")
  /\ Goto(t, "lookupLeaf")
  /\ UNCHANGED <<tree, shape, workload, path, sep, result>>

LookupParent(t) ==
  /\ At(t, "lookupParent")
  /\ IF Intact(parent[t], vParent[t])
     THEN Goto(t, "lookupLeaf") /\ UNCHANGED <<path, result>>
     ELSE Restart(t) /\ result' = [result EXCEPT ![t] = Missing]
  /\ UNCHANGED <<tree, shape, workload, sep>>

\* Faulty: returns the leaf's answer without validating the leaf.
LookupLeafUnchecked(t) ==
  /\ At(t, "lookupLeaf")
  /\ Goto(t, "found")
  /\ UNCHANGED <<tree, shape, workload, path, sep, result>>

LookupLeaf(t) ==
  /\ At(t, "lookupLeaf")
  /\ IF Intact(node[t], vNode[t])
     THEN Goto(t, "found") /\ UNCHANGED <<path, result>>
     ELSE Restart(t) /\ result' = [result EXCEPT ![t] = Missing]
  /\ UNCHANGED <<tree, shape, workload, sep>>

ReturnLookup(t) ==
  /\ At(t, "found")
  /\ result' = [result EXCEPT ![t] = Missing]
  /\ Return(t)
  /\ UNCHANGED <<tree, shape, sep>>

-----------------------------------------------------------------------------
Descend(t) ==
  \/ ReadRoot(t) \/ LockRoot(t) \/ CheckRoot(t) \/ Visit(t)
  \/ CheckParent(t) \/ ReadChild(t) \/ CheckChild(t) \/ LockChild(t)

SplitNode(t) ==
  \/ LockParent(t) \/ LockSplit(t) \/ RecheckRoot(t) \/ Split(t)
  \/ LinkParent(t) \/ MakeRoot(t) \/ UnlockNode(t) \/ UnlockParent(t)

Insert(t) ==
  \/ LockLeaf(t) \/ LeafParent(t) \/ AbandonLeaf(t)
  \/ InsertIntoLeaf(t) \/ ReturnInsert(t)

Lookup(t) ==
  ReadLeaf(t) \/ LookupParent(t) \/ LookupLeaf(t) \/ ReturnLookup(t)

Step(t) == Descend(t) \/ SplitNode(t) \/ Insert(t) \/ Lookup(t)

Next == \E t \in Threads : Begin(t) \/ Step(t)

Spec == Init /\ [][Next]_vars

\* A thread inside an operation is scheduled; it need not start another one.
FairSpec == Spec /\ \A t \in Threads : WF_vars(Step(t))
-----------------------------------------------------------------------------
(* Properties *)

Nodes  == DOMAIN tree
Leaves == {n \in Nodes : ~IsInner(n)}

\* The types: the pointers a thread follows are nodes, null or torn, and every
\* stored and returned value is one that was inserted.
TypeOK ==
  /\ \A n \in Nodes : /\ tree[n].type \in {"leaf", "inner"}
                      /\ tree[n].word \in Nat
                      /\ tree[n].kids \in Seq(Nodes)
                      /\ tree[n].next \in Nodes \cup {None}
  /\ root \in Nodes /\ firstLeaf \in Leaves
  /\ \A t \in Threads : node[t] \in Nodes \cup {None, Torn}
                       /\ parent[t] \in Nodes \cup {None}
                       /\ result[t] \in Values \cup {Missing, Torn}

\* The leaves MergeData walks: from first_leaf along next_leaf.
ChainFrom[n \in Nodes] ==
  IF tree[n].next = None THEN <<n>> ELSE <<n>> \o ChainFrom[tree[n].next]

Chain == ChainFrom[firstLeaf]

KeysAlong(chain) == FlattenSeq([i \in DOMAIN chain |-> tree[chain[i]].keys])

\* MergeData's walk meets every leaf once and yields strictly increasing keys,
\* whatever splits and inserts are in progress: no key is in two leaves and
\* none is lost between two of them (BTreeOLC.h:144-157, 264-280).
LeafChainIsSorted ==
  LET chain == Chain
      keys  == KeysAlong(chain)
  IN  /\ ToSet(chain) = Leaves
      /\ \A i \in 1 .. Len(keys) - 1 : keys[i] < keys[i + 1]

AtRest == \A t \in Threads : At(t, "idle")

\* MergeData stops after size() records, and size() is counted apart from the
\* leaves: once no insert is under way it is at least their number, so that the
\* walk reaches the last leaf (BTreeOLC.h:264-280, 410).  An upsert is counted
\* too, and then it is more.
SizeCoversRecords == AtRest => Len(KeysAlong(Chain)) <= itemCount

\* The path a search for k takes from the root.
SearchPath(k) ==
  LET from[n \in Nodes] ==
        IF IsInner(n) THEN <<n>> \o from[ChildFor(n, k)] ELSE <<n>>
  IN  from[root]

\* Every stored key is found by searching for it, except below a node that is
\* locked: the unlinked half of a split is only missing while its readers are
\* made to restart (BTreeOLC.h:332-342, 382-396).
SearchFindsEveryKey == \A n \in Leaves : \A k \in ToSet(tree[n].keys) :
  LET way == SearchPath(k)
  IN  \/ Last(way) = n
      \/ \E m \in ToSet(way) : IsLocked(tree[m].word)

\* A torn read is always caught: no thread follows a pointer or returns a
\* value it read while the node was changing; what it follows is a node
\* (BTreeOLC.h:354-356, 456-472).
NothingTornIsUsed == \A t \in Threads :
  /\ At(t, "lockChild") => node[t] \in Nodes
  /\ At(t, "found") => result[t] # Torn

\* The asserts of both insert functions: the "is it full" test was made
\* without a lock, and the node still has room when the insert happens
\* (BTreeOLC.h:124, 218).
RoomToInsert == \A t \in Threads :
  /\ At(t, "insert") => Len(tree[node[t]].keys) < LeafMax
  /\ At(t, "linkParent") => Len(tree[parent[t]].keys) < InnerMax - 1

Holds(t, n) ==
  \/ node[t] = n /\ pc[t] \in {"recheckRoot", "split", "linkParent", "makeRoot",
                    "unlockNode", "leafParent", "abandonLeaf", "insert", "inserted"}
  \/ parent[t] = n /\ pc[t] \in {"lockSplit", "split", "linkParent",
                                 "unlockNode", "unlockParent"}

\* A node is locked exactly while one thread is inside its critical section:
\* no exit from a split or an insert leaves a lock behind (BTreeOLC.h:317-343,
\* 364-412).
LocksHaveOneOwner == \A n \in Nodes :
  Cardinality({t \in Threads : Holds(t, n)}) = IF IsLocked(tree[n].word) THEN 1
                                                                       ELSE 0

\* A node has been locked up to the bound.
VersionsUsedUp == \E n \in Nodes : tree[n].word >= MaxWord

\* Every operation returns, through every split and restart that it meets: no
\* lock is held for ever, and no restart comes of nothing.  Only inserts that
\* keep failing each other need not return; each failure uses up a version, and
\* here they come to the bound (BTreeOLC.h:298-475).
OperationsReturn ==
  \A t \in Threads : ~At(t, "idle") ~> At(t, "idle") \/ VersionsUsedUp

-----------------------------------------------------------------------------
(* The tree as a map. *)

MapOf == [k \in Keys |->
  LET holders == {n \in Leaves : k \in ToSet(tree[n].keys)}
  IN  IF holders = {} THEN Missing
      ELSE ValueIn(CHOOSE n \in holders : TRUE, k)]

CallOf == [t \in Threads |->
  CASE At(t, "idle")     -> [kind |-> "idle"]
    [] At(t, "inserted") -> [kind |-> "answer", result |-> TRUE]
    [] At(t, "found")    -> [kind |-> "answer", result |-> result[t]]
    [] OTHER             -> op[t]]

Abstract == INSTANCE KVMap WITH map <- MapOf, call <- CallOf

\* The tree is a linearizable map: an insert takes effect when it writes its
\* leaf, a lookup when it validates its leaf (BTreeOLC.h:298-475).
ImplementsMap == Abstract!Spec

=============================================================================
