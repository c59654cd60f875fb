------------------------------ MODULE NatTable ------------------------------
(***************************************************************************)
(* What a TCP NAT promises, without locks, sessions or a clock: a table     *)
(* that binds each flow to at most one port and each port to at most one    *)
(* flow, operations that take effect at one instant between their call and  *)
(* their return, and an environment that may drop bindings.                 *)
(***************************************************************************)
CONSTANTS Threads,  \* goroutines that call the table
          Keys,     \* flows: pairs of a source and a destination address
          Ports,    \* the port space
          NoKey, NoPort

VARIABLES table,    \* table[k]: the port bound to flow k, or NoPort
          call      \* call[t]: the operation thread t is in, and its answer

vars == <<table, call>>

Idle == [phase |-> "idle"]

Bound(p) == \E k \in Keys : table[k] = p

\* The flow a port is bound to, or NoKey.
Owner(p) == IF Bound(p) THEN CHOOSE k \in Keys : table[k] = p ELSE NoKey

Injective == \A j, k \in Keys : table[j] = table[k] /\ table[j] # NoPort => j = k

Init ==
  /\ table = [k \in Keys |-> NoPort]
  /\ call = [t \in Threads |-> Idle]

Call(t) ==
  /\ call[t] = Idle
  /\ \/ \E k \in Keys : call' = [call EXCEPT ![t] = [phase |-> "lookup", key |-> k]]
     \/ \E p \in Ports : call' = [call EXCEPT ![t] = [phase |-> "back", port |-> p]]
  /\ UNCHANGED table

\* slip: a new flow may get a port that is taken
AnswerLookupShares(t) ==
  /\ call[t].phase = "lookup"
  /\ \E p \in Ports :
       /\ table' = [table EXCEPT ![call[t].key] = p]
       /\ call' = [call EXCEPT ![t] = [phase |-> "answered", port |-> p]]

\* slip: the port is answered but not entered into the table
AnswerLookupForgets(t) ==
  /\ call[t].phase = "lookup"
  /\ \E p \in Ports :
       /\ ~Bound(p)
       /\ call' = [call EXCEPT ![t] = [phase |-> "answered", port |-> p]]
  /\ UNCHANGED table

\* A flow that is bound keeps its port; one that is not gets a port nobody
\* has, and is refused only when every port is taken.
AnswerLookup(t) ==
  /\ call[t].phase = "lookup"
  /\ LET k == call[t].key IN
     \/ /\ table[k] # NoPort
        /\ call' = [call EXCEPT ![t] = [phase |-> "answered", port |-> table[k]]]
        /\ UNCHANGED table
     \/ /\ table[k] = NoPort
        /\ \E p \in Ports :
             /\ ~Bound(p)
             /\ table' = [table EXCEPT ![k] = p]
             /\ call' = [call EXCEPT ![t] = [phase |-> "answered", port |-> p]]
     \/ /\ table[k] = NoPort
        /\ \A p \in Ports : Bound(p)
        /\ call' = [call EXCEPT ![t] = [phase |-> "answered", port |-> NoPort]]
        /\ UNCHANGED table

AnswerBack(t) ==
  /\ call[t].phase = "back"
  /\ call' = [call EXCEPT ![t] = [phase |-> "answered", key |-> Owner(call[t].port)]]
  /\ UNCHANGED table

Return(t) ==
  /\ call[t].phase = "answered"
  /\ call' = [call EXCEPT ![t] = Idle]
  /\ UNCHANGED table

Evict ==
  /\ \E S \in SUBSET Keys :
       table' = [k \in Keys |-> IF k \in S THEN NoPort ELSE table[k]]
  /\ UNCHANGED call

Next ==
  \/ \E t \in Threads : Call(t) \/ AnswerLookup(t) \/ AnswerBack(t) \/ Return(t)
  \/ Evict

Spec == Init /\ [][Next]_vars
=============================================================================
