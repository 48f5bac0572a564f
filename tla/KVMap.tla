-------------------------------- MODULE KVMap --------------------------------
(***************************************************************************)
(* What a concurrent index promises its callers: every insert and every    *)
(* lookup takes effect at one instant between its call and its return, on  *)
(* one map from keys to values.                                            *)
(***************************************************************************)
EXTENDS Naturals

CONSTANTS
  Threads,
  Keys,
  Values,
  Missing    \* the answer of a lookup that finds nothing, not a value

VARIABLES
  map,       \* the value of every key, Missing for a key that was not inserted
  call       \* what each thread has asked and been answered

mapVars == <<map, call>>

Idle == [kind |-> "idle"]

Asked ==
  [kind : {"insert"}, key : Keys, value : Values] \cup
  [kind : {"lookup"}, key : Keys]

Answer(result) == [kind |-> "answer", result |-> result]

Init ==
  /\ map = [k \in Keys |-> Missing]
  /\ call = [t \in Threads |-> Idle]

Ask(t) ==
  /\ call[t] = Idle
  /\ \E request \in Asked : call' = [call EXCEPT ![t] = request]
  /\ UNCHANGED map

Insert(t) ==
  /\ call[t].kind = "insert"
  /\ map' = [map EXCEPT ![call[t].key] = call[t].value]
  /\ call' = [call EXCEPT ![t] = Answer(TRUE)]

Lookup(t) ==
  /\ call[t].kind = "lookup"
  /\ call' = [call EXCEPT ![t] = Answer(map[call[t].key])]
  /\ UNCHANGED map

Return(t) ==
  /\ call[t].kind = "answer"
  /\ call' = [call EXCEPT ![t] = Idle]
  /\ UNCHANGED map

Next == \E t \in Threads : Ask(t) \/ Insert(t) \/ Lookup(t) \/ Return(t)

Spec == Init /\ [][Next]_mapVars
=============================================================================
