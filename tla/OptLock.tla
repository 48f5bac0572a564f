------------------------------- MODULE OptLock -------------------------------
(***************************************************************************)
(* The version word of an optimistic lock (struct OptLock of BTreeOLC.h):  *)
(* bit 1 says that a writer holds the node, bit 0 that the node is         *)
(* obsolete, the bits above count the critical sections that completed.    *)
(* Only the arithmetic of the word is here; the protocols that use it are  *)
(* OptLockCoupling (one node) and BTreeOLC (the tree).                     *)
(***************************************************************************)
EXTENDS Naturals

InitialWord == 4

IsLocked(word)   == (word \div 2) % 2 = 1
IsObsolete(word) == word % 2 = 1

\* readLockOrRestart goes on only from a word that is neither.
ReadLockable(word) == ~IsLocked(word) /\ ~IsObsolete(word)

\* upgradeToWriteLockOrRestart: the compare-and-swap installs this word.
Locked(version) == version + 2

\* Faulty: writeUnlockObsolete in the place of writeUnlock.
UnlockedObsolete(word) == word + 3

\* writeUnlock: fetch_add(0b10) carries into the counter and clears bit 1.
Unlocked(word) == word + 2
=============================================================================
