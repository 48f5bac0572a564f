--------------------------- MODULE OptLockCoupling ---------------------------
(***************************************************************************)
(* Threads that read and modify one leaf of the B+-tree under its OptLock, *)
(* the way BTree::lookup and BTree::insert do: a reader takes a version,   *)
(* reads the leaf without a lock and validates the version; a writer takes *)
(* a version, reads whether the leaf is full, upgrades that version to the *)
(* write lock with one compare-and-swap, modifies the leaf and unlocks.    *)
(*                                                                         *)
(* The leaf has the three parts that are read and written one after the    *)
(* other: its count, keys and payloads.  A part holds a stamp instead of   *)
(* data: the version that the critical section which wrote it last was to  *)
(* publish, or that section's held word while entries are being moved.     *)
(* What a version stands for is in the history variable published.         *)
(***************************************************************************)
EXTENDS OptLock

CONSTANTS
  Threads,   \* the threads that share the leaf
  MaxWord    \* bound: no thread starts an upgrade beyond this word

ASSUME MaxWordAssumption == MaxWord \in Nat

VARIABLES
  word,       \* typeVersionLockObsolete
  leaf,       \* the leaf's parts
  pc,         \* where each thread is
  version,    \* versionNode: the version the thread took
  seen,       \* what it read of each part
  published   \* history: the leaf as each free word was published with it

vars == <<word, leaf, pc, version, seen, published>>

Parts == {"count", "keys", "payloads"}

\* The critical section; "insert" is its first place, with nothing written yet.
WriteSection == {"insert", "movePayloads", "setKey", "setPayload", "countUp",
                 "writeUnlock"}

Steps == WriteSection \cup
         {"readLock", "readCount", "readKeys", "readPayloads", "check", "done"}

NothingRead == [part \in Parts |-> 0]

Init ==
  /\ word = InitialWord
  /\ leaf = [part \in Parts |-> InitialWord]
  /\ pc = [t \in Threads |-> "readLock"]
  /\ version = [t \in Threads |-> 0]
  /\ seen = [t \in Threads |-> NothingRead]
  /\ published = [w \in {InitialWord} |-> leaf]

Goto(t, step) == pc' = [pc EXCEPT ![t] = step]

\* Back to the label restart, or to the caller: the locals are gone.
Leave(t) ==
  /\ Goto(t, "readLock")
  /\ version' = [version EXCEPT ![t] = 0]
  /\ seen' = [seen EXCEPT ![t] = NothingRead]

\* The spin of a restart on a locked node is a stutter: the guard is its exit.
ReadLockOrRestart(t) ==
  /\ pc[t] = "readLock"
  /\ ReadLockable(word)
  /\ version' = [version EXCEPT ![t] = word]
  /\ Goto(t, "readCount")
  /\ UNCHANGED <<word, leaf, seen, published>>

Read(t, part) ==
  /\ seen' = [seen EXCEPT ![t][part] = leaf[part]]
  /\ UNCHANGED <<word, leaf, version, published>>

\* The end of the binary search in a lookup, the test for room in an insert.
ReadCount(t) == pc[t] = "readCount" /\ Goto(t, "readKeys") /\ Read(t, "count")

ReadKeys(t) == pc[t] = "readKeys" /\ Goto(t, "readPayloads") /\ Read(t, "keys")

ReadPayloads(t) ==
  pc[t] = "readPayloads" /\ Goto(t, "check") /\ Read(t, "payloads")

\* Faulty: validates that the node is not locked, not that it is unchanged.
ReadUnlockIfFree(t) ==
  /\ pc[t] = "check"
  /\ ~IsLocked(word)
  /\ Goto(t, "done")
  /\ UNCHANGED <<word, leaf, version, seen, published>>

\* The reader's end: the result counts only if the version did not move.
ReadUnlock(t) ==
  /\ pc[t] = "check"
  /\ word = version[t]
  /\ Goto(t, "done")
  /\ UNCHANGED <<word, leaf, version, seen, published>>

\* A validation or an upgrade that finds another word restarts the operation.
NeedRestart(t) ==
  /\ pc[t] \in {"readKeys", "check"}
  /\ word # version[t]
  /\ Leave(t)
  /\ UNCHANGED <<word, leaf, published>>

\* The same when the parent's word moved; the parent is not in this module.
ParentChanged(t) ==
  /\ pc[t] \in {"readKeys", "check"}
  /\ Leave(t)
  /\ UNCHANGED <<word, leaf, published>>

\* The caller of lookup has its result; it may come back with another key.
NextOperation(t) ==
  /\ pc[t] = "done"
  /\ Leave(t)
  /\ UNCHANGED <<word, leaf, published>>

Lock(t, free) ==
  /\ word < MaxWord
  /\ word' = Locked(free)
  /\ version' = [version EXCEPT ![t] = Locked(free)]
  /\ Goto(t, "insert")
  /\ UNCHANGED <<leaf, seen, published>>

\* Faulty: locks the current word instead of the version that was read.
UpgradeAnyVersion(t) == pc[t] = "readKeys" /\ ~IsLocked(word) /\ Lock(t, word)

\* Faulty: a store in the place of the compare-and-swap.
UpgradeByStore(t) == pc[t] = "readKeys" /\ Lock(t, version[t])

\* An insert has read the count alone when it upgrades.
UpgradeToWriteLock(t) ==
  pc[t] = "readKeys" /\ word = version[t] /\ Lock(t, version[t])

Write(t, part, stamp, step) ==
  /\ leaf' = [leaf EXCEPT ![part] = stamp]
  /\ Goto(t, step)
  /\ UNCHANGED <<word, version, seen, published>>

\* The parent's word moved, or the root has got a parent, before the upgrade was
\* done: the lock is given back with nothing written.
Abandon(t) ==
  /\ pc[t] = "insert"
  /\ Goto(t, "writeUnlock")
  /\ UNCHANGED <<word, leaf, version, seen, published>>

\* A split copies the upper half and cuts the count; the rest stays in place.
Split(t) ==
  pc[t] = "insert" /\ Write(t, "count", Unlocked(version[t]), "writeUnlock")

\* The key is there: its payload is replaced.
Upsert(t) ==
  pc[t] = "insert" /\ Write(t, "payloads", Unlocked(version[t]), "writeUnlock")

MoveKeys(t) ==
  pc[t] = "insert" /\ Write(t, "keys", version[t], "movePayloads")

MovePayloads(t) ==
  pc[t] = "movePayloads" /\ Write(t, "payloads", version[t], "setKey")

\* In an empty leaf and behind the last key there is nothing to move.
SetKey(t) ==
  /\ pc[t] \in {"insert", "setKey"}
  /\ Write(t, "keys", Unlocked(version[t]), "setPayload")

SetPayload(t) ==
  pc[t] = "setPayload" /\ Write(t, "payloads", Unlocked(version[t]), "countUp")

CountUp(t) ==
  pc[t] = "countUp" /\ Write(t, "count", Unlocked(version[t]), "writeUnlock")

Extend(f, w, contents) ==
  [v \in DOMAIN f \cup {w} |-> IF v = w THEN contents ELSE f[v]]

UnlockTo(t, free) ==
  /\ pc[t] = "writeUnlock"
  /\ word' = free
  /\ published' = Extend(published, free, leaf)
  /\ Leave(t)
  /\ UNCHANGED leaf

\* Faulty: advances the counter and leaves the lock bit set.
WriteUnlockKeepsBit(t) == UnlockTo(t, Unlocked(word) + 2)

\* Faulty: clears the lock bit and leaves the counter where it was.
WriteUnlockClearsBit(t) == UnlockTo(t, word - 2)

WriteUnlock(t) == UnlockTo(t, Unlocked(word))

\* The steps of a thread that holds the write lock.
Section(t) ==
  \/ Abandon(t)
  \/ Split(t)
  \/ Upsert(t)
  \/ MoveKeys(t)
  \/ MovePayloads(t)
  \/ SetKey(t)
  \/ SetPayload(t)
  \/ CountUp(t)
  \/ WriteUnlock(t)

Next == \E t \in Threads :
  \/ ReadLockOrRestart(t)
  \/ ReadCount(t)
  \/ ReadKeys(t)
  \/ ReadPayloads(t)
  \/ ReadUnlock(t)
  \/ NeedRestart(t)
  \/ ParentChanged(t)
  \/ NextOperation(t)
  \/ UpgradeToWriteLock(t)
  \/ Section(t)

Spec == Init /\ [][Next]_vars

\* A thread inside a critical section runs on (the operating system schedules
\* every benchmark thread); nothing obliges a thread to start an operation.
Fairness == \A t \in Threads : WF_vars(Section(t))

FairSpec == Spec /\ Fairness
-----------------------------------------------------------------------------
Typed ==
  /\ word \in Nat
  /\ leaf \in [Parts -> Nat]
  /\ pc \in [Threads -> Steps]
  /\ version \in [Threads -> Nat]
  /\ seen \in [Threads -> [Parts -> Nat]]
  /\ \A w \in DOMAIN published : w \in Nat /\ published[w] \in [Parts -> Nat]

\* The types; and no node is ever obsolete, so no descent is turned away for
\* good (nothing calls writeUnlockObsolete, BTreeOLC.h:62).
TypeOK == Typed /\ ~IsObsolete(word)

\* Two threads never modify the node at once, and the lock bit says so: the
\* write lock taken by compare-and-swap on a version excludes (BTreeOLC.h:40-50).
MutualExclusion ==
  /\ \A t, u \in Threads :
       pc[t] \in WriteSection /\ pc[u] \in WriteSection => t = u
  /\ IsLocked(word) <=> \E t \in Threads : pc[t] \in WriteSection

\* A lookup that passed readUnlockOrRestart returns count, keys and payload of
\* one moment, the leaf as it was published with the version the lookup took:
\* no torn read is ever returned (BTreeOLC.h:456-475).
ValidatedReadIsASnapshot == \A t \in Threads :
  pc[t] = "done" =>
    version[t] \in DOMAIN published /\ seen[t] = published[version[t]]

\* What a writer read before its upgrade is still true when it starts to write:
\* insert's unlocked test "is the leaf full" is not stale inside the critical
\* section it opened (BTreeOLC.h:364-413).
UpgradeKeepsWhatWasRead == \A t \in Threads :
  pc[t] = "insert" => seen[t]["count"] = leaf["count"]

\* A held write lock is released, so restarting threads do not spin forever on
\* one holder (BTreeOLC.h:395, 405, 411).
LockIsReleased == IsLocked(word) ~> ~IsLocked(word)

\* A version never comes back for other contents.  The validation compares two
\* words and nothing else, so a word that was reused would let a reader pass
\* that read in between (BTreeOLC.h:19, 50, 58-60).
VersionsAreNotReused ==
  [][\A w \in DOMAIN published :
       w \in DOMAIN published' /\ published'[w] = published[w]]_vars
=============================================================================
