---------------------------- MODULE OptLockProofs ----------------------------
(***************************************************************************)
(* Optimistic lock coupling on one leaf, for any set of threads and any    *)
(* number of critical sections.                                            *)
(***************************************************************************)
EXTENDS OptLockCoupling, TLAPS

\* A version word is never obsolete: it is 4k when free and 4k + 2 when held.
Free(w) == w % 4 = 0
Held(w) == w % 4 = 2

\* The lock word and the writer: a thread in its critical section holds the
\* word it installed, no other thread does, and a held word has such a thread.
LockInv ==
  /\ Free(word) \/ Held(word)
  /\ \A t \in Threads :
       pc[t] \in WriteSection => Held(word) /\ version[t] = word
  /\ \A t, u \in Threads :
       pc[t] \in WriteSection /\ pc[u] \in WriteSection => t = u
  /\ Held(word) => \E t \in Threads : pc[t] \in WriteSection

\* No word beyond the current one has been published, and while it is free the
\* leaf is what it was published with.
PublishedInv ==
  /\ \A w \in DOMAIN published : w <= word
  /\ Free(word) => word \in DOMAIN published /\ published[word] = leaf

\* What a reader knows: as long as the word is the version it took, what it
\* read so far is the leaf.
Reading == {"readCount", "readKeys", "readPayloads", "check"}

ReaderInv == \A t \in Threads :
  /\ pc[t] \in Reading => Free(version[t]) /\ version[t] <= word
  /\ pc[t] \in Reading \ {"readCount"} /\ word = version[t]
       => seen[t]["count"] = leaf["count"]
  /\ pc[t] \in {"readPayloads", "check"} /\ word = version[t]
       => seen[t]["keys"] = leaf["keys"]
  /\ pc[t] = "check" /\ word = version[t]
       => seen[t]["payloads"] = leaf["payloads"]
  /\ pc[t] = "done" =>
       version[t] \in DOMAIN published /\ seen[t] = published[version[t]]
  /\ pc[t] = "insert" => seen[t]["count"] = leaf["count"]

IInv == Typed /\ LockInv /\ PublishedInv /\ ReaderInv

-----------------------------------------------------------------------------
\* The word's arithmetic: taking the lock makes a free word held, releasing it
\* makes a held word free, and only a free word can be read-locked.
LEMMA WordArithmetic ==
  ASSUME NEW w \in Nat
  PROVE  /\ Free(w) => Held(Locked(w)) /\ Locked(w) = w + 2
         /\ Held(w) => Free(Unlocked(w)) /\ Unlocked(w) = w + 2
         /\ Held(w) => IsLocked(w) /\ ~ReadLockable(w)
         /\ Free(w) => ~IsLocked(w) /\ ReadLockable(w)
         /\ Locked(w) \in Nat /\ Unlocked(w) \in Nat
         /\ ~(Free(w) /\ Held(w))
         /\ Free(w) \/ Held(w) => ~IsObsolete(w)
BY DEF Free, Held, Locked, Unlocked, IsLocked, IsObsolete, ReadLockable

\* The initial state satisfies the invariant.
LEMMA InitIInv == Init => IInv
BY DEF Init, IInv, Typed, LockInv, PublishedInv, ReaderInv, InitialWord, Free,
       Held, Steps, WriteSection, Reading, Parts, NothingRead

\* A thread that goes back to the start keeps the types.
LEMMA LeaveTyped ==
  ASSUME Typed, NEW t \in Threads, Leave(t)
  PROVE  /\ pc' \in [Threads -> Steps]
         /\ version' \in [Threads -> Nat]
         /\ seen' \in [Threads -> [Parts -> Nat]]
<1>1. NothingRead \in [Parts -> Nat] /\ "readLock" \in Steps
  BY DEF NothingRead, Steps
<1> QED
  BY <1>1 DEF Leave, Goto, Typed

\* A step that reads a part for itself keeps the lock and the publications.
LEMMA ReadKeepsLock ==
  ASSUME IInv, NEW t \in Threads, NEW part \in Parts, Read(t, part),
         NEW step \in Steps \ WriteSection, Goto(t, step),
         pc[t] \notin WriteSection
  PROVE  Typed' /\ LockInv' /\ PublishedInv'
<1>1. Typed'
  BY DEF IInv, Typed, Read, Goto
<1>2. LockInv' /\ PublishedInv'
  BY DEF IInv, Typed, LockInv, PublishedInv, Read, Goto
<1> QED BY <1>1, <1>2

\* So does one that ends or restarts an operation outside a critical section.
LEMMA LeaveKeeps ==
  ASSUME IInv, NEW t \in Threads, Leave(t), pc[t] \notin WriteSection,
         UNCHANGED <<word, leaf, published>>
  PROVE  IInv'
<1>1. Typed'
  BY LeaveTyped DEF IInv, Typed
<1>2. LockInv' /\ PublishedInv'
  BY DEF IInv, Typed, LockInv, PublishedInv, Leave, Goto, WriteSection
<1>3. ReaderInv'
  BY DEF IInv, Typed, ReaderInv, Leave, Goto, Reading
<1> QED BY <1>1, <1>2, <1>3 DEF IInv

\* A write inside the critical section: no other thread is in it, and no reader
\* has the held word for its version.
LEMMA WriteKeeps ==
  ASSUME IInv, NEW t \in Threads, pc[t] \in WriteSection,
         NEW part \in Parts, NEW stamp \in Nat,
         NEW step \in WriteSection \ {"insert"}, Write(t, part, stamp, step)
  PROVE  IInv'
<1> USE DEF IInv, Typed
<1>1. Held(word) /\ ~Free(word)
  BY WordArithmetic DEF LockInv
<1>2. Typed'
  BY DEF Write, Goto, Steps
<1>3. LockInv'
  BY DEF Write, Goto, LockInv
<1>4. PublishedInv'
  BY <1>1 DEF Write, Goto, PublishedInv
<1>5. \A u \in Threads : pc[u] \in WriteSection => u = t
  BY DEF LockInv
<1>6. ReaderInv'
  <2> SUFFICES ASSUME NEW u \in Threads
               PROVE  ReaderInv!(u)'
    BY DEF ReaderInv
  <2>1. pc'[u] \in Reading => u # t /\ pc'[u] = pc[u] /\ word # version[u]
    BY <1>1 DEF Write, Goto, ReaderInv, Reading, WriteSection
  <2>2. pc'[u] # "insert"
    BY <1>5 DEF Write, Goto, WriteSection
  <2>3. pc'[u] = "done" => pc[u] = "done"
    BY DEF Write, Goto, WriteSection
  <2> QED
    BY <2>1, <2>2, <2>3 DEF Write, Goto, ReaderInv, Reading
<1> QED BY <1>2, <1>3, <1>4, <1>6

\* Every step keeps the invariant, one action at a time.
LEMMA NextIInv == IInv /\ [Next]_vars => IInv'
<1> SUFFICES ASSUME IInv, [Next]_vars PROVE IInv'
  OBVIOUS
<1> USE DEF IInv, Typed
<1>w. /\ Free(word) => Held(Locked(word)) /\ Locked(word) = word + 2
      /\ Held(word) => Free(Unlocked(word)) /\ Unlocked(word) = word + 2
      /\ Held(word) => ~ReadLockable(word)
      /\ Locked(word) \in Nat /\ Unlocked(word) \in Nat
      /\ ~(Free(word) /\ Held(word))
  BY WordArithmetic
<1>1. ASSUME NEW t \in Threads, ReadLockOrRestart(t) PROVE IInv'
  <2>1. Free(word)
    BY <1>1, <1>w DEF ReadLockOrRestart, LockInv
  <2>2. Typed'
    BY <1>1 DEF ReadLockOrRestart, Goto, Steps
  <2>3. LockInv' /\ PublishedInv'
    BY <1>1, <2>1, <1>w
       DEF ReadLockOrRestart, Goto, LockInv, PublishedInv, WriteSection
  <2>4. ReaderInv'
    BY <1>1, <2>1 DEF ReadLockOrRestart, Goto, ReaderInv, Reading
  <2> QED BY <2>2, <2>3, <2>4
<1>2. ASSUME NEW t \in Threads, ReadCount(t) PROVE IInv'
  <2>1. "count" \in Parts /\ "readKeys" \in Steps \ WriteSection
    BY DEF Parts, Steps, WriteSection
  <2>2. Typed' /\ LockInv' /\ PublishedInv'
    BY <1>2, <2>1, ReadKeepsLock DEF ReadCount, WriteSection
  <2>3. ReaderInv'
    BY <1>2, <2>1 DEF ReadCount, Read, Goto, ReaderInv, Reading
  <2> QED BY <2>2, <2>3
<1>3. ASSUME NEW t \in Threads, ReadKeys(t) PROVE IInv'
  <2>1. "keys" \in Parts /\ "readPayloads" \in Steps \ WriteSection
    BY DEF Parts, Steps, WriteSection
  <2>2. Typed' /\ LockInv' /\ PublishedInv'
    BY <1>3, <2>1, ReadKeepsLock DEF ReadKeys, WriteSection
  <2>3. ReaderInv'
    BY <1>3, <2>1 DEF ReadKeys, Read, Goto, ReaderInv, Reading
  <2> QED BY <2>2, <2>3
<1>4. ASSUME NEW t \in Threads, ReadPayloads(t) PROVE IInv'
  <2>1. "payloads" \in Parts /\ "check" \in Steps \ WriteSection
    BY DEF Parts, Steps, WriteSection
  <2>2. Typed' /\ LockInv' /\ PublishedInv'
    BY <1>4, <2>1, ReadKeepsLock DEF ReadPayloads, WriteSection
  <2>3. ReaderInv'
    BY <1>4, <2>1 DEF ReadPayloads, Read, Goto, ReaderInv, Reading
  <2> QED BY <2>2, <2>3
<1>5. ASSUME NEW t \in Threads, ReadUnlock(t) PROVE IInv'
  <2>1. Typed'
    BY <1>5 DEF ReadUnlock, Goto, Steps
  <2>2. LockInv' /\ PublishedInv'
    BY <1>5 DEF ReadUnlock, Goto, LockInv, PublishedInv, WriteSection
  <2>3. \A part \in Parts : seen[t][part] = leaf[part]
    BY <1>5 DEF ReadUnlock, ReaderInv, Reading, Parts
  <2>4. seen[t] = leaf
    BY <2>3
  <2>5. version[t] \in DOMAIN published /\ seen[t] = published[version[t]]
    BY <1>5, <2>4 DEF ReadUnlock, ReaderInv, Reading, PublishedInv
  <2>6. ReaderInv'
    BY <1>5, <2>5 DEF ReadUnlock, Goto, ReaderInv, Reading
  <2> QED BY <2>1, <2>2, <2>6
<1>6. ASSUME NEW t \in Threads, NeedRestart(t) PROVE IInv'
  BY <1>6, LeaveKeeps DEF NeedRestart, WriteSection
<1>7. ASSUME NEW t \in Threads, ParentChanged(t) PROVE IInv'
  BY <1>7, LeaveKeeps DEF ParentChanged, WriteSection
<1>8. ASSUME NEW t \in Threads, NextOperation(t) PROVE IInv'
  BY <1>8, LeaveKeeps DEF NextOperation, WriteSection
<1>9. ASSUME NEW t \in Threads, UpgradeToWriteLock(t) PROVE IInv'
  <2>1. /\ Free(word) /\ word' = word + 2 /\ Held(word')
        /\ version[t] = word /\ version' = [version EXCEPT ![t] = word + 2]
    BY <1>9, <1>w DEF UpgradeToWriteLock, Lock, ReaderInv, Reading
  <2>2. Typed'
    BY <1>9, <2>1 DEF UpgradeToWriteLock, Lock, Goto, Steps, WriteSection
  <2>3. \A u \in Threads : pc[u] \notin WriteSection
    BY <2>1, <1>w DEF LockInv
  <2>4. LockInv'
    BY <1>9, <2>1, <2>3 DEF UpgradeToWriteLock, Lock, Goto, LockInv, WriteSection
  <2>5. ~Free(word')
    BY <2>1, <2>2, WordArithmetic
  <2>6. PublishedInv'
    BY <1>9, <2>1, <2>5 DEF UpgradeToWriteLock, Lock, Goto, PublishedInv
  <2>7. seen[t]["count"] = leaf["count"]
    BY <1>9 DEF UpgradeToWriteLock, ReaderInv, Reading
  <2>8. ReaderInv'
    BY <1>9, <2>1, <2>3, <2>7
       DEF UpgradeToWriteLock, Lock, Goto, ReaderInv, Reading, WriteSection
  <2> QED BY <2>2, <2>4, <2>6, <2>8
<1>10. ASSUME NEW t \in Threads, Section(t), ~Abandon(t), ~WriteUnlock(t)
       PROVE  IInv'
  <2>1. version[t] \in Nat /\ Unlocked(version[t]) \in Nat
    BY WordArithmetic
  <2>2. \E part \in Parts, stamp \in Nat, step \in WriteSection \ {"insert"} :
          Write(t, part, stamp, step)
    <3>1. Split(t) => \E stamp \in Nat : Write(t, "count", stamp, "writeUnlock")
      BY <2>1 DEF Split
    <3>2. Upsert(t) =>
            \E stamp \in Nat : Write(t, "payloads", stamp, "writeUnlock")
      BY <2>1 DEF Upsert
    <3>3. MoveKeys(t) =>
            \E stamp \in Nat : Write(t, "keys", stamp, "movePayloads")
      BY <2>1 DEF MoveKeys
    <3>4. MovePayloads(t) =>
            \E stamp \in Nat : Write(t, "payloads", stamp, "setKey")
      BY <2>1 DEF MovePayloads
    <3>5. SetKey(t) => \E stamp \in Nat : Write(t, "keys", stamp, "setPayload")
      BY <2>1 DEF SetKey
    <3>6. SetPayload(t) =>
            \E stamp \in Nat : Write(t, "payloads", stamp, "countUp")
      BY <2>1 DEF SetPayload
    <3>7. CountUp(t) =>
            \E stamp \in Nat : Write(t, "count", stamp, "writeUnlock")
      BY <2>1 DEF CountUp
    <3>8. /\ {"count", "keys", "payloads"} \subseteq Parts
          /\ {"writeUnlock", "movePayloads", "setKey", "setPayload", "countUp"}
               \subseteq WriteSection \ {"insert"}
      BY DEF Parts, WriteSection
    <3> HIDE DEF IInv, Typed
    <3> QED
      BY <1>10, <3>1, <3>2, <3>3, <3>4, <3>5, <3>6, <3>7, <3>8, Zenon DEF Section
  <2>3. pc[t] \in WriteSection
    BY <1>10 DEF Section, Split, Upsert, MoveKeys, MovePayloads, SetKey,
                 SetPayload, CountUp, WriteSection
  <2> QED
    BY <2>2, <2>3, WriteKeeps
<1>11. ASSUME NEW t \in Threads, Abandon(t) PROVE IInv'
  <2>1. Typed'
    BY <1>11 DEF Abandon, Goto, Steps, WriteSection
  <2>2. LockInv' /\ PublishedInv'
    BY <1>11 DEF Abandon, Goto, LockInv, PublishedInv, WriteSection
  <2>3. ReaderInv'
    BY <1>11 DEF Abandon, Goto, ReaderInv, Reading
  <2> QED BY <2>1, <2>2, <2>3
<1>12. ASSUME NEW t \in Threads, WriteUnlock(t) PROVE IInv'
  <2>1. /\ Held(word) /\ Free(word') /\ word' = word + 2
        /\ published' = Extend(published, word', leaf) /\ leaf' = leaf
    BY <1>12, <1>w DEF WriteUnlock, UnlockTo, LockInv, WriteSection
  <2>2. /\ DOMAIN published' = {word'} \cup DOMAIN published
        /\ published'[word'] = leaf
        /\ \A w \in DOMAIN published : w # word' => published'[w] = published[w]
    BY <2>1 DEF Extend
  <2>3. \A w \in DOMAIN published : w # word'
    BY <2>1 DEF PublishedInv
  <2>4. /\ pc' \in [Threads -> Steps]
        /\ version' \in [Threads -> Nat]
        /\ seen' \in [Threads -> [Parts -> Nat]]
    BY <1>12, LeaveTyped DEF WriteUnlock, UnlockTo
  <2>5. Typed'
    BY <2>1, <2>2, <2>3, <2>4
  <2>6. \A u \in Threads : pc[u] \in WriteSection => u = t
    BY <1>12 DEF WriteUnlock, UnlockTo, LockInv, WriteSection
  <2>7. ~Held(word')
    BY <2>1, <2>5, WordArithmetic
  <2>8. LockInv'
    BY <1>12, <2>1, <2>6, <2>7
       DEF WriteUnlock, UnlockTo, Leave, Goto, LockInv, WriteSection
  <2>9. PublishedInv'
    BY <2>1, <2>2 DEF PublishedInv
  <2>10. ReaderInv'
    <3> SUFFICES ASSUME NEW u \in Threads
                 PROVE  ReaderInv!(u)'
      BY DEF ReaderInv
    <3>1. CASE u = t
      BY <1>12, <3>1 DEF WriteUnlock, UnlockTo, Leave, Goto, Reading
    <3>2. CASE u # t
      <4>1. /\ pc'[u] = pc[u] /\ version'[u] = version[u] /\ seen'[u] = seen[u]
            /\ pc[u] \notin WriteSection
        BY <1>12, <2>6, <3>2 DEF WriteUnlock, UnlockTo, Leave, Goto
      <4>2. pc[u] \in Reading =>
              Free(version[u]) /\ version[u] <= word' /\ version[u] # word'
        BY <2>1 DEF ReaderInv
      <4>3. pc[u] = "done" => /\ version[u] \in DOMAIN published'
                              /\ seen[u] = published'[version[u]]
        BY <2>2, <2>3 DEF ReaderInv
      <4> QED
        BY <4>1, <4>2, <4>3 DEF Reading, WriteSection
    <3> QED BY <3>1, <3>2
  <2> QED BY <2>5, <2>8, <2>9, <2>10
<1>13. CASE UNCHANGED vars
  BY <1>13 DEF vars, LockInv, PublishedInv, ReaderInv
<1> QED
  BY <1>1, <1>2, <1>3, <1>4, <1>5, <1>6, <1>7, <1>8, <1>9, <1>10, <1>11, <1>12,
     <1>13 DEF Next

-----------------------------------------------------------------------------
\* The inductive invariant holds in every reachable state.
THEOREM Invariance == Spec => []IInv
BY InitIInv, NextIInv, PTL DEF Spec

\* Every variable keeps its type and no node becomes obsolete.
THEOREM TypeCorrect == Spec => []TypeOK
<1>1. IInv => TypeOK
  <2> SUFFICES ASSUME IInv PROVE TypeOK
    OBVIOUS
  <2>1. word \in Nat /\ (Free(word) \/ Held(word))
    BY DEF IInv, Typed, LockInv
  <2>2. ~IsObsolete(word)
    BY <2>1, WordArithmetic
  <2> QED
    BY <2>2 DEF IInv, TypeOK
<1> QED
  BY <1>1, Invariance, PTL

\* At most one thread modifies the node, and exactly while the lock bit is set.
THEOREM Exclusion == Spec => []MutualExclusion
<1>1. IInv => MutualExclusion
  <2> SUFFICES ASSUME IInv PROVE MutualExclusion
    OBVIOUS
  <2>1. word \in Nat /\ LockInv
    BY DEF IInv, Typed
  <2>2. IsLocked(word) <=> Held(word)
    BY <2>1, WordArithmetic DEF LockInv
  <2> QED
    BY <2>1, <2>2 DEF LockInv, MutualExclusion
<1> QED
  BY <1>1, Invariance, PTL

\* A validated read returns the leaf as its version was published.
THEOREM SnapshotReads == Spec => []ValidatedReadIsASnapshot
<1>1. IInv => ValidatedReadIsASnapshot
  BY DEF IInv, ReaderInv, ValidatedReadIsASnapshot
<1> QED
  BY <1>1, Invariance, PTL

\* What was read before the upgrade is still true when the writing starts.
THEOREM UpgradeIsAtomic == Spec => []UpgradeKeepsWhatWasRead
<1>1. IInv => UpgradeKeepsWhatWasRead
  BY DEF IInv, ReaderInv, UpgradeKeepsWhatWasRead
<1> QED
  BY <1>1, Invariance, PTL

\* No step gives a word that was published before to other contents: a word that
\* compares equal stands for what it stood for when it was read.
THEOREM WordsIdentifyContents == Spec => VersionsAreNotReused
<1> DEFINE Kept == \A w \in DOMAIN published :
                     w \in DOMAIN published' /\ published'[w] = published[w]
<1>1. IInv /\ [Next]_vars => [Kept]_vars
  <2> SUFFICES ASSUME IInv, Next PROVE Kept
    OBVIOUS
  <2>1. ASSUME NEW t \in Threads, WriteUnlock(t) PROVE Kept
    <3>1. word' = word + 2 /\ published' = Extend(published, word', leaf)
      BY <2>1 DEF WriteUnlock, UnlockTo, Unlocked
    <3>2. \A w \in DOMAIN published : w # word'
      BY <3>1 DEF IInv, Typed, PublishedInv
    <3> QED
      BY <3>1, <3>2 DEF Extend
  <2>2. published' = published \/ \E t \in Threads : WriteUnlock(t)
    BY DEF Next, ReadLockOrRestart, ReadCount, ReadKeys, ReadPayloads, Read,
           ReadUnlock, NeedRestart, ParentChanged, NextOperation,
           UpgradeToWriteLock, Lock, Section, Abandon, Split, Upsert, MoveKeys,
           MovePayloads, SetKey, SetPayload, CountUp, Write
  <2> QED
    BY <2>1, <2>2
<1> QED
  BY <1>1, Invariance, PTL DEF Spec, VersionsAreNotReused
=============================================================================
