---------------------------- MODULE StackProofs -----------------------------
(***************************************************************************)
(* Proofs about the components around the stacks: the TCP forwarders, the  *)
(* ICMP paths, the ping sockets and destinations, the start and stop of    *)
(* the stacks, their read loops and the Linux device.  They are proofs     *)
(* about the specification of the run MCStacks, for every value of its     *)
(* constants: a behaviour of it is one of a single component, so each      *)
(* component has an invariant of its own here, and what the run checks of  *)
(* it follows at the end.                                                  *)
(***************************************************************************)
EXTENDS MCStacks, FiniteSetTheorems, SequenceTheorems, TLAPS

-----------------------------------------------------------------------------
(* Two subsets of a finite set that differ in x at most: how their sizes    *)
(* compare.                                                                 *)
LEMMA OneDiffers ==
  ASSUME NEW S, IsFiniteSet(S), NEW A \in SUBSET S, NEW B \in SUBSET S, NEW x \in S, A \ {x} = B \ {x}
  PROVE  /\ Cardinality(A) \in Nat /\ Cardinality(B) \in Nat
         /\ x \notin A /\ x \in B => Cardinality(B) = Cardinality(A) + 1
         /\ x \in A /\ x \notin B => Cardinality(B) = Cardinality(A) - 1 /\ Cardinality(A) > 0
         /\ (x \in A <=> x \in B) => A = B
<1>1. IsFiniteSet(A) /\ IsFiniteSet(B) /\ Cardinality(A) \in Nat /\ Cardinality(B) \in Nat
  BY FS_Subset, FS_CardinalityType
<1>2. ASSUME x \notin A, x \in B PROVE Cardinality(B) = Cardinality(A) + 1
  <2>1. B = A \cup {x}
    BY <1>2
  <2> QED BY <1>1, <1>2, <2>1, FS_AddElement
<1>3. ASSUME x \in A, x \notin B PROVE Cardinality(B) = Cardinality(A) - 1
  <2>1. B = A \ {x}
    BY <1>3
  <2> QED BY <1>1, <1>3, <2>1, FS_RemoveElement
<1>4. (x \in A <=> x \in B) => A = B
  OBVIOUS
<1> QED BY <1>1, <1>2, <1>3, <1>4

-----------------------------------------------------------------------------
(* TCPForward (stack_gvisor_tcp.go, stack_mipstack.go, stack_system.go).    *)
(* The argument: only gVisor's forwarder has handshakes, one enters the     *)
(* count as it begins and every way out of it calls Complete once.          *)
UnderWay == {c \in Conns : pc[c] \in Fwd!Handshaking}

ForwardTypes ==
  /\ stack \in Fwd!Stacks /\ pc \in [Conns -> Fwd!States]
  /\ watcher \in [Conns -> {"none", "waiting", "ended"}]
  /\ completed \in [Conns -> 0 .. 1]

ForwardFlags == done \in BOOLEAN /\ notified \in [Conns -> {"no", "heard", "missed"}]

\* What a connection's place says about its calls of Complete
CompletedOnce ==
  \A c \in Conns :
    /\ pc[c] \in Fwd!Handshaking => stack = "gvisor"
    /\ stack = "gvisor" => (completed[c] = 1 <=> pc[c] \notin Fwd!Handshaking \cup {"new", "ignored"})

ForwardCount == inFlight = Cardinality(UnderWay) /\ inFlight <= MaxInFlight

ForwardInv == ForwardTypes /\ ForwardFlags /\ CompletedOnce /\ ForwardCount

(* FiniteSets is the same for the instance as for this module. *)
LEMMA ForwardCounting ==
  /\ Fwd!ForwardAssumption => IsFiniteSet(Conns) /\ MaxInFlight \in Nat
  /\ \A S : Fwd!Cardinality(S) = Cardinality(S)
<1>1. Fwd!ForwardAssumption => IsFiniteSet(Conns) /\ MaxInFlight \in Nat
  BY DEF Fwd!ForwardAssumption, Fwd!IsFiniteSet, IsFiniteSet
<1>2. \A S : Fwd!Cardinality(S) = Cardinality(S)
  BY DEF Fwd!Cardinality, Cardinality, Fwd!IsFiniteSet, IsFiniteSet
<1> QED BY <1>1, <1>2

LEMMA InitForward == ASSUME Fwd!ForwardAssumption, Fwd!Init PROVE ForwardInv
<1> USE DEF Fwd!Init
<1>1. ForwardTypes /\ CompletedOnce
  BY DEF ForwardTypes, CompletedOnce, Fwd!Stacks, Fwd!States, Fwd!Handshaking
<1>2. ForwardFlags
  BY Zenon DEF ForwardFlags
<1>3. UnderWay = {}
  BY DEF UnderWay, Fwd!Handshaking
<1> QED BY <1>1, <1>2, <1>3, ForwardCounting, FS_EmptySet DEF ForwardInv, ForwardCount

(* A connection goes to another place; the counters follow it. *)
LEMMA MoveKeeps ==
  ASSUME Fwd!ForwardAssumption, ForwardInv, NEW c \in Conns, NEW to \in Fwd!States,
         pc' = [pc EXCEPT ![c] = to], UNCHANGED <<stack, done, notified>>,
         watcher' \in [Conns -> {"none", "waiting", "ended"}],
         to \in Fwd!Handshaking /\ pc[c] \notin Fwd!Handshaking =>
           /\ stack = "gvisor" /\ pc[c] = "new" /\ inFlight < MaxInFlight
           /\ inFlight' = inFlight + 1 /\ completed' = completed,
         pc[c] \in Fwd!Handshaking /\ to \notin Fwd!Handshaking =>
           to \notin {"new", "ignored"} /\ inFlight' = inFlight - 1
           /\ completed' = [completed EXCEPT ![c] = @ + 1],
         (pc[c] \in Fwd!Handshaking <=> to \in Fwd!Handshaking) =>
           /\ UNCHANGED <<inFlight, completed>>
           /\ stack = "gvisor" => (pc[c] \in {"new", "ignored"} <=> to \in {"new", "ignored"})
  PROVE  ForwardInv'
<1>0. ForwardTypes /\ ForwardFlags /\ CompletedOnce /\ ForwardCount
  BY DEF ForwardInv
<1>1. pc'[c] = to /\ \A d \in Conns \ {c} : pc'[d] = pc[d]
  BY <1>0 DEF ForwardTypes
<1>2. pc[c] \in Fwd!Handshaking => completed[c] = 0
  BY <1>0 DEF ForwardTypes, CompletedOnce
<1>3. ForwardTypes'
  BY <1>0, <1>2 DEF ForwardTypes
<1>4. ForwardFlags'
  BY <1>0, Zenon DEF ForwardFlags
<1>5. completed'[c] = (IF pc[c] \in Fwd!Handshaking /\ to \notin Fwd!Handshaking THEN 1 ELSE completed[c])
      /\ \A d \in Conns \ {c} : completed'[d] = completed[d]
  BY <1>0, <1>2 DEF ForwardTypes
<1>6. CompletedOnce'
  <2> SUFFICES ASSUME NEW d \in Conns
               PROVE  /\ pc'[d] \in Fwd!Handshaking => stack' = "gvisor"
                      /\ stack' = "gvisor" =>
                           (completed'[d] = 1 <=> pc'[d] \notin Fwd!Handshaking \cup {"new", "ignored"})
    BY DEF CompletedOnce
  <2>1. CASE d # c
    BY <1>0, <1>1, <1>5, <2>1 DEF CompletedOnce
  <2>2. CASE d = c
    BY <1>0, <1>1, <1>5, <2>2 DEF CompletedOnce
  <2> QED BY <2>1, <2>2
<1>7. ForwardCount'
  <2>1. UnderWay \in SUBSET Conns /\ UnderWay' \in SUBSET Conns /\ UnderWay \ {c} = UnderWay' \ {c}
        /\ (c \in UnderWay <=> pc[c] \in Fwd!Handshaking) /\ (c \in UnderWay' <=> to \in Fwd!Handshaking)
    BY <1>1 DEF UnderWay
  <2> QED BY <1>0, <2>1, OneDiffers, ForwardCounting DEF ForwardCount
<1> QED BY <1>3, <1>4, <1>6, <1>7 DEF ForwardInv

(* The goroutine that waits for the context, and its end. *)
LEMMA WatcherKeeps ==
  ASSUME ForwardInv, UNCHANGED <<stack, pc, inFlight, completed>>,
         watcher' \in [Conns -> {"none", "waiting", "ended"}],
         done' \in BOOLEAN, notified' \in [Conns -> {"no", "heard", "missed"}]
  PROVE  ForwardInv'
<1>1. ForwardTypes' /\ CompletedOnce' /\ ForwardCount'
  BY DEF ForwardInv, ForwardTypes, CompletedOnce, ForwardCount, UnderWay
<1>2. ForwardFlags'
  BY Zenon DEF ForwardFlags
<1> QED BY <1>1, <1>2 DEF ForwardInv

LEMMA ConnKeeps ==
  ASSUME Fwd!ForwardAssumption, ForwardInv, NEW c \in Conns, Fwd!Conn(c) PROVE ForwardInv'
<1>0. ForwardTypes /\ ForwardFlags /\ CompletedOnce
  BY DEF ForwardInv
<1>t. watcher \in [Conns -> {"none", "waiting", "ended"}] /\ (pc[c] \in Fwd!Handshaking => stack = "gvisor")
  BY <1>0 DEF ForwardTypes, CompletedOnce
<1>w. /\ done \in BOOLEAN /\ notified \in [Conns -> {"no", "heard", "missed"}]
      /\ (Fwd!WatcherWakes(c) => notified' \in [Conns -> {"no", "heard", "missed"}])
  <2>1. done \in BOOLEAN /\ notified \in [Conns -> {"no", "heard", "missed"}]
    BY <1>0, Zenon DEF ForwardFlags
  <2> QED BY <2>1 DEF Fwd!WatcherWakes
<1> USE DEF Fwd!States, Fwd!GoTo, Fwd!Handshaking
<1>1. CASE Fwd!Forward(c)
  <2>1. CASE inFlight < MaxInFlight
    BY <1>1, <1>t, <2>1, MoveKeeps DEF Fwd!Forward
  <2>2. CASE ~(inFlight < MaxInFlight)
    BY <1>1, <1>t, <2>2, MoveKeeps DEF Fwd!Forward
  <2> QED BY <2>1, <2>2
<1>2. CASE Fwd!forwardTCP(c)
  BY <1>2, <1>t, MoveKeeps DEF Fwd!forwardTCP
<1>3. CASE Fwd!acceptLoop(c)
  BY <1>3, <1>t, MoveKeeps DEF Fwd!acceptLoop
<1>4. CASE Fwd!Handshake(c)
  <2>1. CASE Fwd!Registers(c)
    BY <1>t, <2>1, MoveKeeps DEF Fwd!Registers
  <2>2. CASE Fwd!CreateFails(c)
    BY <1>t, <2>2, MoveKeeps DEF Fwd!CreateFails, Fwd!Complete
  <2>3. CASE Fwd!CreateWorks(c)
    BY <1>t, <2>3, MoveKeeps DEF Fwd!CreateWorks, Fwd!Complete
  <2> QED BY <1>4, <2>1, <2>2, <2>3 DEF Fwd!Handshake
<1>5. CASE Fwd!WatcherWakes(c)
  BY <1>5, <1>t, <1>w, WatcherKeeps DEF Fwd!WatcherWakes
<1>6. CASE Fwd!WatcherEnds(c)
  BY <1>6, <1>t, <1>w, WatcherKeeps DEF Fwd!WatcherEnds
<1>7. CASE Fwd!HandlerReturns(c)
  BY <1>7, <1>t, MoveKeeps DEF Fwd!HandlerReturns
<1>8. CASE Fwd!Closes(c)
  BY <1>8, <1>t, MoveKeeps DEF Fwd!Closes, Fwd!Ends
<1>9. CASE Fwd!LostCloses(c)
  BY <1>9, <1>t, MoveKeeps DEF Fwd!LostCloses
<1> QED BY <1>1, <1>2, <1>3, <1>4, <1>5, <1>6, <1>7, <1>8, <1>9 DEF Fwd!Conn

LEMMA ForwardInvariant == Spec => [](part = "forward" => ForwardInv)
<1> USE ForwardAssumed
<1>1. Fwd!Init => ForwardInv
  BY InitForward
<1>2. ForwardInv /\ [Fwd!Next]_(Fwd!vars) => ForwardInv'
  <2>1. ASSUME ForwardInv, UNCHANGED Fwd!vars \/ Fwd!Cancel PROVE ForwardInv'
    <3>1. /\ watcher' = watcher /\ notified' = notified /\ UNCHANGED <<stack, pc, inFlight, completed>>
          /\ done' = done \/ done' = TRUE
      BY <2>1 DEF Fwd!vars, Fwd!Cancel
    <3>2. done' \in BOOLEAN /\ notified' \in [Conns -> {"no", "heard", "missed"}]
      BY <2>1, <3>1, Zenon DEF ForwardInv, ForwardFlags
    <3> QED BY <2>1, <3>1, <3>2, WatcherKeeps DEF ForwardInv, ForwardTypes
  <2> QED BY <2>1, ConnKeeps DEF Fwd!Next
<1>3. Init => (part = "forward" => ForwardInv)
  BY <1>1 DEF Init, PingPart
<1>4. (part = "forward" => ForwardInv) /\ [Next]_vars => (part = "forward" => ForwardInv)'
  <2> SUFFICES ASSUME part = "forward" => ForwardInv, [Next]_vars, part' = "forward" PROVE ForwardInv'
    OBVIOUS
  <2>1. part = "forward" /\ [Fwd!Next]_(Fwd!vars)
    BY DEF Next, vars, Fwd!vars,
           stack, pc, done, watcher, notified, inFlight, completed
  <2> QED BY <1>2, <2>1
<1> QED BY <1>3, <1>4, PTL DEF Spec

LEMMA ForwardHolds == ASSUME Fwd!ForwardAssumption, ForwardInv PROVE Fwd!TypeOK /\ Fwd!NothingLeaks
<1>1. IsFiniteSet(Conns) /\ UnderWay \in SUBSET Conns /\ MaxInFlight \in Nat
  BY ForwardCounting DEF UnderWay
<1>2. inFlight = Cardinality(UnderWay) /\ inFlight \in 0 .. MaxInFlight
  BY <1>1, FS_Subset, FS_CardinalityType DEF ForwardInv, ForwardCount
<1>3. Fwd!NothingLeaks
  BY <1>2, ForwardCounting DEF ForwardInv, CompletedOnce, Fwd!NothingLeaks, UnderWay
<1>4. done \in BOOLEAN /\ notified \in [Conns -> {"no", "heard", "missed"}]
  BY Zenon DEF ForwardInv, ForwardFlags
<1>5. Fwd!TypeOK
  BY <1>2, <1>4 DEF ForwardInv, ForwardTypes, Fwd!TypeOK
<1> QED BY <1>3, <1>5

-----------------------------------------------------------------------------
(* ICMPPaths (the ICMP handling of the three stacks).  The argument: only   *)
(* Mipstack detaches requests, those the handler is to be asked about; a    *)
(* slot is taken with the first step of a detached request and given back   *)
(* with its last, and what a request comes to is decided by the packet and  *)
(* the answer to its lookup.                                                *)
EchoTypes ==
  /\ stack \in {"system", "gvisor", "mipstack"} /\ packet \in [Echoes -> ICMP!Packet]
  /\ state \in [Echoes -> {"new", "detached", "found", "done"}]
  /\ got \in [Echoes -> ICMP!Answer \cup {"none"}] /\ outcome \in [Echoes -> ICMP!Outcomes]
  /\ entry \in {"none", "nil", "dest"}
  /\ dests \in 0 .. MaxDest /\ (entry = "dest" => dests # 0)

\* What is right about a request that is over: the two properties, for one
Right(k, p, a, o) ==
  /\ o = "echo" => p.echo /\ p.code = 0 /\ (p.own \/ a \in {"nil", "error", "dest_error"})
  /\ o = "builtin" /\ p.v = 6 => ~p.echo
  /\ o # "none" /\ ICMP!Asks(p) =>
       /\ a = "drop" => o = "dropped"
       /\ a = "dest" => o = "handed"
       /\ a = "reset" => o = "rejected" \/ (p.v = 4 /\ p.big /\ k = "system")
       /\ a \in {"nil", "error", "dest_error"} => o = "echo" \/ (o = "dropped" /\ k = "gvisor")

EchoRight ==
  \A r \in Echoes :
    /\ state[r] \in {"detached", "found"} => stack = "mipstack" /\ ICMP!Asks(packet[r])
    /\ state[r] = "found" => got[r] \in ICMP!Answer
    /\ state[r] = "new" => got[r] = "none"
    /\ state[r] # "done" => outcome[r] = "none"
    /\ Right(stack, packet[r], got[r], outcome[r])

EchoCount == slots = Cardinality(ICMP!Running) /\ slots <= Slots

EchoInv == EchoTypes /\ EchoRight /\ EchoCount

LEMMA EchoCounting ==
  /\ ICMP!RequestAssumption => IsFiniteSet(Echoes) /\ Slots \in Nat /\ MaxDest \in Nat
  /\ \A S : ICMP!Cardinality(S) = Cardinality(S)
<1>1. ICMP!RequestAssumption => IsFiniteSet(Echoes) /\ Slots \in Nat /\ MaxDest \in Nat
  BY DEF ICMP!RequestAssumption, ICMP!IsFiniteSet, IsFiniteSet
<1>2. \A S : ICMP!Cardinality(S) = Cardinality(S)
  BY DEF ICMP!Cardinality, Cardinality, ICMP!IsFiniteSet, IsFiniteSet
<1> QED BY <1>1, <1>2

LEMMA NoneIsRight == ASSUME NEW k, NEW p, NEW a PROVE Right(k, p, a, "none")
  BY DEF Right

LEMMA InitEcho == ASSUME ICMP!RequestAssumption, ICMP!Init PROVE EchoInv
<1> USE DEF ICMP!Init
<1>1. EchoTypes
  BY EchoCounting DEF EchoTypes, ICMP!Outcomes
<1>2. EchoRight
  BY NoneIsRight DEF EchoRight
<1>3. ICMP!Running = {}
  BY DEF ICMP!Running
<1> QED BY <1>1, <1>2, <1>3, EchoCounting, FS_EmptySet DEF EchoInv, EchoCount

(* What a lookup comes to obeys the handler, in every stack. *)
LEMMA DirectIsRight ==
  ASSUME NEW k, NEW p \in ICMP!Packet, NEW a \in ICMP!Answer, ICMP!Asks(p)
  PROVE  ICMP!Direct(a) \in ICMP!Outcomes /\ Right(k, p, a, ICMP!Direct(a))
<1>1. p.echo /\ p.code = 0 /\ ~p.own
  BY DEF ICMP!Asks
<1> QED BY <1>1 DEF ICMP!Answer, ICMP!Direct, ICMP!Outcomes, Right

LEMMA LoopIsRight ==
  ASSUME NEW p \in ICMP!Packet, NEW a \in ICMP!Answer, stack \in {"system", "gvisor"},
         ~ICMP!Asks(p) => a = "nil"
  PROVE  ICMP!InLoop(p, a) \in ICMP!Outcomes /\ Right(stack, p, a, ICMP!InLoop(p, a))
<1> DEFINE h == ICMP!ByHandler(p, a)
           o == ICMP!InLoop(p, a)
<1>1. p.v \in {4, 6} /\ p.code \in {0, 1}
  BY DEF ICMP!Packet
<1>2. CASE ~(p.echo /\ p.code = 0)
  <2>1. o \in {"dropped", "builtin"} /\ (o = "builtin" /\ p.v = 6 => ~p.echo)
    BY <1>1, <1>2 DEF ICMP!InLoop, ICMP!SystemICMP4, ICMP!SystemICMP6, ICMP!GVisorICMP4, ICMP!GVisorICMP6
  <2>2. ~ICMP!Asks(p)
    BY <1>2 DEF ICMP!Asks
  <2> QED BY <2>1, <2>2 DEF Right, ICMP!Outcomes
<1>3. CASE p.echo /\ p.code = 0
  <2>1. o = h \/ (o = "dropped" /\ h = "rejected" /\ p.v = 4 /\ p.big /\ stack = "system")
    BY <1>1, <1>3 DEF ICMP!InLoop, ICMP!SystemICMP4, ICMP!SystemICMP6, ICMP!GVisorICMP4,
       ICMP!GVisorICMP6, ICMP!RejectIPv4
  <2>2. CASE p.own
    <3>1. h = "echo" /\ o = "echo" /\ ~ICMP!Asks(p)
      BY <2>1, <2>2 DEF ICMP!ByHandler, ICMP!Asks
    <3> QED BY <1>3, <2>2, <3>1 DEF Right, ICMP!Outcomes
  <2>3. CASE ~p.own
    <3>1. h = ICMP!Direct(a) /\ ICMP!Asks(p)
      BY <1>3, <2>3 DEF ICMP!ByHandler, ICMP!Asks
    <3>2. h \in ICMP!Outcomes /\ Right(stack, p, a, h) /\ (h = "rejected" => a = "reset")
      BY <3>1, DirectIsRight DEF ICMP!Direct, ICMP!Answer
    <3> QED BY <2>1, <3>2 DEF Right, ICMP!Outcomes
  <2> QED BY <2>2, <2>3
<1> QED BY <1>2, <1>3

(* A lookup answers something the handler may say and keeps the entry and   *)
(* its destination together.                                                *)
LEMMA LookedKeeps ==
  ASSUME ICMP!RequestAssumption, EchoTypes, NEW a \in ICMP!Answer, ICMP!Looked(a)
  PROVE  /\ entry' \in {"none", "nil", "dest"}
         /\ dests' \in 0 .. MaxDest /\ (entry' = "dest" => dests' # 0)
  BY EchoCounting DEF EchoTypes, ICMP!Looked, ICMP!StaysOpen, ICMP!Answer

(* One request goes on: the slots follow it. *)
LEMMA RequestKeeps ==
  ASSUME ICMP!RequestAssumption, EchoInv, NEW r \in Echoes, stack' = stack,
         NEW p \in ICMP!Packet, NEW s \in {"new", "detached", "found", "done"},
         NEW g \in ICMP!Answer \cup {"none"}, NEW o \in ICMP!Outcomes,
         packet' = [packet EXCEPT ![r] = p], state' = [state EXCEPT ![r] = s],
         got' = [got EXCEPT ![r] = g], outcome' = [outcome EXCEPT ![r] = o],
         s \in {"detached", "found"} => stack = "mipstack" /\ ICMP!Asks(p),
         s = "found" => g \in ICMP!Answer, s = "new" => g = "none", s # "done" => o = "none",
         Right(stack, p, g, o),
         entry' \in {"none", "nil", "dest"},
         dests' \in 0 .. MaxDest /\ (entry' = "dest" => dests' # 0),
         state[r] \in {"new", "done"} /\ s = "detached" => slots' = slots + 1 /\ slots < Slots,
         state[r] = "found" /\ s = "done" => slots' = slots - 1,
         state[r] \in {"new", "done"} /\ s \in {"new", "done"} => slots' = slots,
         state[r] \in {"detached", "found"} /\ s \in {"detached", "found"} => slots' = slots,
         \/ state[r] \in {"new", "done"} /\ s \in {"new", "detached", "done"}
         \/ state[r] \in {"detached", "found"} /\ s \in {"detached", "found"}
         \/ state[r] = "found" /\ s = "done"
  PROVE  EchoInv'
<1>0. EchoTypes /\ EchoRight /\ EchoCount
  BY DEF EchoInv
<1>1. EchoTypes'
  BY <1>0 DEF EchoTypes
<1>2. /\ packet'[r] = p /\ state'[r] = s /\ got'[r] = g /\ outcome'[r] = o
      /\ \A q \in Echoes \ {r} : packet'[q] = packet[q] /\ state'[q] = state[q]
                                  /\ got'[q] = got[q] /\ outcome'[q] = outcome[q]
  BY <1>0 DEF EchoTypes
<1>3. EchoRight'
  <2> SUFFICES ASSUME NEW q \in Echoes
               PROVE  /\ state'[q] \in {"detached", "found"} => stack' = "mipstack" /\ ICMP!Asks(packet'[q])
                      /\ state'[q] = "found" => got'[q] \in ICMP!Answer
                      /\ state'[q] = "new" => got'[q] = "none"
                      /\ state'[q] # "done" => outcome'[q] = "none"
                      /\ Right(stack', packet'[q], got'[q], outcome'[q])
    BY DEF EchoRight, Right, ICMP!Asks
  <2>1. CASE q = r
    BY <1>2, <2>1
  <2>2. CASE q # r
    BY <1>0, <1>2, <2>2 DEF EchoRight
  <2> QED BY <2>1, <2>2
<1>4. EchoCount'
  <2>1. ICMP!Running \in SUBSET Echoes /\ ICMP!Running' \in SUBSET Echoes
        /\ ICMP!Running \ {r} = ICMP!Running' \ {r}
        /\ (r \in ICMP!Running <=> state[r] \in {"detached", "found"})
        /\ (r \in ICMP!Running' <=> s \in {"detached", "found"})
    BY <1>2 DEF ICMP!Running
  <2> QED BY <1>0, <2>1, OneDiffers, EchoCounting DEF EchoCount
<1> QED BY <1>1, <1>3, <1>4 DEF EchoInv

LEMMA RequestSteps ==
  ASSUME ICMP!RequestAssumption, EchoInv, NEW r \in Echoes,
         \/ ICMP!ForwardICMP(r) \/ ICMP!DetachFails(r) \/ ICMP!FinishDetached(r)
         \/ \E a \in ICMP!Answer : ICMP!Handle(r, a) \/ ICMP!LookUp(r, a)
         \/ \E p \in ICMP!Packet : ICMP!Again(r, p)
  PROVE  EchoInv'
<1>0. EchoTypes /\ EchoRight /\ EchoCount
  BY DEF EchoInv
<1>t. /\ packet[r] \in ICMP!Packet /\ got[r] \in ICMP!Answer \cup {"none"} /\ outcome[r] \in ICMP!Outcomes
      /\ entry \in {"none", "nil", "dest"}
      /\ dests \in 0 .. MaxDest /\ (entry = "dest" => dests # 0)
      /\ packet = [packet EXCEPT ![r] = packet[r]] /\ got = [got EXCEPT ![r] = got[r]]
      /\ outcome = [outcome EXCEPT ![r] = outcome[r]]
  BY <1>0 DEF EchoTypes
<1>r. /\ state[r] \in {"detached", "found"} => stack = "mipstack" /\ ICMP!Asks(packet[r])
      /\ state[r] = "found" => got[r] \in ICMP!Answer
      /\ state[r] = "new" => got[r] = "none"
      /\ state[r] # "done" => outcome[r] = "none"
      /\ Right(stack, packet[r], got[r], outcome[r])
  BY <1>0 DEF EchoRight
<1>o. {"dropped", "echo", "none"} \subseteq ICMP!Outcomes
  BY DEF ICMP!Outcomes
<1>1. CASE ICMP!ForwardICMP(r)
  <2> DEFINE o == IF packet[r].echo /\ packet[r].code = 0 /\ packet[r].own THEN "echo" ELSE "dropped"
  <2>1. o \in ICMP!Outcomes /\ Right(stack, packet[r], "none", o)
    BY <1>o DEF Right
  <2>2. CASE /\ ~ICMP!Asks(packet[r]) \/ ~ICMP!HasSlot
             /\ outcome' = [outcome EXCEPT ![r] = o]
             /\ state' = [state EXCEPT ![r] = "done"] /\ UNCHANGED slots
    <3>1. /\ state[r] = "new" /\ got[r] = "none" /\ UNCHANGED <<stack, packet, got, entry, dests, slots>>
          /\ packet' = [packet EXCEPT ![r] = packet[r]] /\ got' = [got EXCEPT ![r] = "none"]
      BY <1>1, <1>t, <1>r, <2>2 DEF ICMP!ForwardICMP
    <3> HIDE DEF o
    <3> QED BY <1>t, <2>1, <2>2, <3>1, RequestKeeps
  <2>3. CASE /\ ICMP!Asks(packet[r]) /\ ICMP!HasSlot /\ slots' = slots + 1
             /\ state' = [state EXCEPT ![r] = "detached"] /\ UNCHANGED outcome
    <3>1. /\ state[r] = "new" /\ got[r] = "none" /\ UNCHANGED <<stack, packet, got, entry, dests>>
          /\ stack = "mipstack" /\ slots < Slots
          /\ packet' = [packet EXCEPT ![r] = packet[r]] /\ got' = [got EXCEPT ![r] = "none"]
          /\ outcome' = [outcome EXCEPT ![r] = "none"] /\ Right(stack, packet[r], "none", "none")
      BY <1>1, <1>t, <1>r, <2>3 DEF ICMP!ForwardICMP, ICMP!HasSlot
    <3>2. /\ "none" \in ICMP!Outcomes /\ "none" \in ICMP!Answer \cup {"none"} /\ packet[r] \in ICMP!Packet
          /\ entry' \in {"none", "nil", "dest"}
          /\ dests' \in 0 .. MaxDest /\ (entry' = "dest" => dests' # 0)
      BY <1>t, <1>o, <3>1
    <3>3. slots' = slots + 1 /\ state' = [state EXCEPT ![r] = "detached"] /\ ICMP!Asks(packet[r])
      BY <2>3
    <3> QED BY ONLY ICMP!RequestAssumption, EchoInv, r \in Echoes, <3>1, <3>2, <3>3, RequestKeeps
  <2> QED BY <1>1, <2>2, <2>3 DEF ICMP!ForwardICMP
<1>2. CASE ICMP!DetachFails(r)
  <2>1. Right(stack, packet[r], "none", "dropped")
    BY DEF Right
  <2>2. /\ state[r] = "new" /\ got[r] = "none" /\ UNCHANGED <<stack, packet, got, entry, dests, slots>>
        /\ packet' = [packet EXCEPT ![r] = packet[r]] /\ got' = [got EXCEPT ![r] = "none"]
        /\ outcome' = [outcome EXCEPT ![r] = "dropped"] /\ state' = [state EXCEPT ![r] = "done"]
    BY <1>2, <1>t, <1>r DEF ICMP!DetachFails, ICMP!SlotsAfterFailure
  <2> QED BY <1>t, <1>o, <2>1, <2>2, RequestKeeps
<1>3. CASE ICMP!FinishDetached(r)
  <2>1. state[r] = "found"
    BY <1>3 DEF ICMP!FinishDetached, ICMP!Ends
  <2>2. ICMP!Direct(got[r]) \in ICMP!Outcomes /\ Right(stack, packet[r], got[r], ICMP!Direct(got[r]))
    BY <1>t, <1>r, <2>1, DirectIsRight
  <2> QED BY <1>3, <1>t, <2>1, <2>2, RequestKeeps DEF ICMP!FinishDetached
<1>4. ASSUME NEW a \in ICMP!Answer, ICMP!Handle(r, a) PROVE EchoInv'
  <2>1. stack \in {"system", "gvisor"} /\ (~ICMP!Asks(packet[r]) => a = "nil")
    BY <1>0, <1>4 DEF EchoTypes, ICMP!Handle
  <2>2. PICK o \in ICMP!Sent(ICMP!InLoop(packet[r], a)) : outcome' = [outcome EXCEPT ![r] = o]
    BY <1>4 DEF ICMP!Handle
  <2>4. o \in ICMP!Outcomes /\ Right(stack, packet[r], a, o)
    BY <1>t, <2>1, LoopIsRight DEF ICMP!Sent, ICMP!Outcomes, Right
  <2>3. /\ entry' \in {"none", "nil", "dest"}
        /\ dests' \in 0 .. MaxDest /\ (entry' = "dest" => dests' # 0)
    BY <1>0, <1>4, <1>t, LookedKeeps DEF ICMP!Handle
  <2> QED BY <1>4, <1>t, <2>2, <2>3, <2>4, RequestKeeps DEF ICMP!Handle
<1>5. ASSUME NEW a \in ICMP!Answer, ICMP!LookUp(r, a) PROVE EchoInv'
  <2>1. Right(stack, packet[r], a, outcome[r])
    BY <1>5, <1>r DEF Right, ICMP!LookUp
  <2>2. /\ entry' \in {"none", "nil", "dest"}
        /\ dests' \in 0 .. MaxDest /\ (entry' = "dest" => dests' # 0)
    BY <1>0, <1>5, LookedKeeps DEF ICMP!LookUp
  <2> QED BY <1>5, <1>t, <1>r, <2>1, <2>2, RequestKeeps DEF ICMP!LookUp
<1>6. ASSUME NEW p \in ICMP!Packet, ICMP!Again(r, p) PROVE EchoInv'
  BY <1>6, <1>t, <1>r, <1>o, NoneIsRight, RequestKeeps DEF ICMP!Again
<1> QED BY <1>1, <1>2, <1>3, <1>4, <1>5, <1>6

LEMMA EchoInvariant == Spec => [](part = "icmp" => EchoInv)
<1> USE RequestsAssumed
<1>1. ICMP!Init => EchoInv
  BY InitEcho
<1>2. EchoInv /\ [ICMP!Next]_(ICMP!vars) => EchoInv'
  <2>1. ASSUME EchoInv, UNCHANGED ICMP!vars \/ ICMP!Expire PROVE EchoInv'
    <3>1. UNCHANGED <<stack, packet, state, got, outcome, slots>>
      BY <2>1 DEF ICMP!vars, ICMP!Expire
    <3>2. EchoTypes'
      BY <2>1, EchoCounting DEF EchoInv, EchoTypes, ICMP!vars, ICMP!Expire
    <3>3. EchoRight' /\ EchoCount'
      BY <2>1, <3>1 DEF EchoInv, EchoRight, EchoCount, ICMP!Running
    <3> QED BY <3>2, <3>3 DEF EchoInv
  <2> QED BY <2>1, RequestSteps DEF ICMP!Next
<1>3. Init => (part = "icmp" => EchoInv)
  BY <1>1 DEF Init, PingPart
<1>4. (part = "icmp" => EchoInv) /\ [Next]_vars => (part = "icmp" => EchoInv)'
  <2> SUFFICES ASSUME part = "icmp" => EchoInv, [Next]_vars, part' = "icmp" PROVE EchoInv'
    OBVIOUS
  <2>1. part = "icmp" /\ [ICMP!Next]_(ICMP!vars)
    BY DEF Next, vars, ICMP!vars,
           stack, state, packet, got, outcome, slots, entry, dests
  <2> QED BY <1>2, <2>1
<1> QED BY <1>3, <1>4, PTL DEF Spec

LEMMA EchoHolds ==
  ASSUME ICMP!RequestAssumption, EchoInv PROVE ICMP!TypeOK /\ ICMP!NothingLeaks /\ ICMP!PingsAnsweredRight
<1>1. slots = Cardinality(ICMP!Running) /\ slots \in 0 .. Slots
  <2>1. ICMP!Running \in SUBSET Echoes
    BY DEF ICMP!Running
  <2> QED BY <2>1, EchoCounting, FS_Subset, FS_CardinalityType DEF EchoInv, EchoCount
<1>2. ICMP!TypeOK
  BY <1>1, EchoCounting DEF EchoInv, EchoTypes, ICMP!TypeOK
<1>3. ICMP!NothingLeaks
  BY <1>1, EchoCounting DEF ICMP!NothingLeaks
<1>4. \A r \in Echoes : Right(stack, packet[r], got[r], outcome[r])
  BY DEF EchoInv, EchoRight
<1>5. ICMP!PingsAnsweredRight
  BY <1>4 DEF Right, ICMP!PingsAnsweredRight, ICMP!NeverAnswersForOthers, ICMP!HandlerIsObeyed
<1> QED BY <1>2, <1>3, <1>5

-----------------------------------------------------------------------------
(* UnprivilegedPing (ping/socket_linux_unprivileged.go).  The argument:     *)
(* whoever takes a socket out of the mapping closes it next, a socket is    *)
(* opened together with its entry, and removeConn takes out only the entry  *)
(* of the socket it was called for.                                         *)
SocketState == [state : {"unused", "open", "closed"}, ident : Idents \cup {None}, inbox : BOOLEAN]
PingerState == [pc : {"idle", "writing", "removing", "closing"}, ident : Idents \cup {None}, conn : Socks \cup {None}]

SocketTypes ==
  /\ mapping \in [Idents -> Socks \cup {None}]
  /\ conn \in [Socks -> SocketState]
  /\ fetch \in [Socks -> {"none", "reading", "holding", "removing", "closing", "ended"}]
  /\ writer \in [Writer -> PingerState]

\* Who is at work on a socket knows its identifier.
SocketIdents ==
  /\ \A c \in Socks : fetch[c] # "none" \/ conn[c].state = "open" => conn[c].ident \in Idents
  /\ \A w \in Writer : writer[w].pc # "idle" => writer[w].ident \in Idents /\ writer[w].conn \in Socks

SocketInv ==
  /\ SocketTypes /\ SocketIdents /\ Unpriv!OpenIsMapped
  /\ context \in {"live", "cancelled", "closed"} /\ Unpriv!ClosedStaysEmpty

LEMMA InitSockets == Unpriv!Init => SocketInv
<1> SUFFICES ASSUME Unpriv!Init PROVE SocketInv
  OBVIOUS
<1> USE DEF Unpriv!Init, Unpriv!Idle
<1>1. [state |-> "unused", ident |-> None, inbox |-> FALSE] \in SocketState
      /\ [pc |-> "idle", ident |-> None, conn |-> None] \in PingerState
  BY DEF SocketState, PingerState
<1>2. SocketTypes
  BY <1>1 DEF SocketTypes
<1>3. SocketIdents /\ Unpriv!OpenIsMapped
  BY DEF SocketIdents, Unpriv!OpenIsMapped
<1>4. context \in {"live", "cancelled", "closed"} /\ Unpriv!ClosedStaysEmpty
  BY Zenon DEF Unpriv!ClosedStaysEmpty
<1> QED BY <1>2, <1>3, <1>4 DEF SocketInv

(* A socket and a writer with another state. *)
LEMMA SocketOf ==
  ASSUME NEW s \in SocketState, NEW to \in {"unused", "open", "closed"}
  PROVE  /\ [s EXCEPT !.state = to] \in SocketState
         /\ [s EXCEPT !.state = to].state = to /\ [s EXCEPT !.state = to].ident = s.ident
  BY DEF SocketState

LEMMA InboxOf ==
  ASSUME NEW s \in SocketState, NEW b \in BOOLEAN
  PROVE  /\ [s EXCEPT !.inbox = b] \in SocketState
         /\ [s EXCEPT !.inbox = b].state = s.state /\ [s EXCEPT !.inbox = b].ident = s.ident
  BY DEF SocketState

LEMMA PingerOf ==
  ASSUME NEW s \in PingerState, NEW to \in {"idle", "writing", "removing", "closing"}
  PROVE  /\ [s EXCEPT !.pc = to] \in PingerState
         /\ [s EXCEPT !.pc = to].pc = to
         /\ [s EXCEPT !.pc = to].ident = s.ident /\ [s EXCEPT !.pc = to].conn = s.conn
  BY DEF PingerState

(* A step of one socket and its reader, by the reader: the mapping may lose
   the socket's own entry when the reader goes on to close it. *)
LEMMA FetchKeeps ==
  ASSUME Unpriv!NoneAssumption, SocketInv, NEW c \in Socks,
         NEW s \in SocketState, NEW to \in {"reading", "holding", "removing", "closing", "ended"},
         conn' = [conn EXCEPT ![c] = s], fetch' = [fetch EXCEPT ![c] = to],
         fetch[c] # "none", s.ident = conn[c].ident, s.state \in {conn[c].state, "closed"},
         s.state = "open" => fetch[c] # "closing" \/ to = "closing",
         \/ mapping' = mapping
         \/ to = "closing" /\ mapping' = Unpriv!Without(c, conn[c].ident),
         UNCHANGED <<context, writer>>
  PROVE  SocketInv'
<1>0. SocketTypes /\ SocketIdents /\ Unpriv!OpenIsMapped /\ Unpriv!ClosedStaysEmpty
  BY DEF SocketInv
<1>1. conn[c].ident \in Idents
  BY <1>0 DEF SocketIdents
<1>2. /\ conn'[c] = s /\ fetch'[c] = to
      /\ \A d \in Socks \ {c} : conn'[d] = conn[d] /\ fetch'[d] = fetch[d]
  BY <1>0 DEF SocketTypes
<1>3. SocketTypes'
  BY <1>0, <1>1 DEF SocketTypes, Unpriv!Without
<1>4. SocketIdents'
  BY <1>0, <1>1, <1>2 DEF SocketIdents
<1>5. \A i \in Idents : mapping'[i] = mapping[i] \/ (to = "closing" /\ mapping[i] = c /\ mapping'[i] = None)
  BY <1>0, <1>1 DEF SocketTypes, Unpriv!Without
<1>6. Unpriv!OpenIsMapped'
  <2> SUFFICES ASSUME NEW d \in Socks, conn'[d].state = "open"
               PROVE  \/ mapping'[conn'[d].ident] = d
                      \/ fetch'[d] = "closing"
                      \/ \E w \in Writer : writer'[w].pc = "closing" /\ writer'[w].conn = d
    BY DEF Unpriv!OpenIsMapped
  <2>1. conn[d].state = "open" /\ conn'[d].ident = conn[d].ident /\ conn[d].ident \in Idents
    BY <1>0, <1>2 DEF SocketIdents
  <2> QED BY <1>0, <1>2, <1>5, <2>1 DEF Unpriv!OpenIsMapped
<1>7. context' \in {"live", "cancelled", "closed"}
  BY DEF SocketInv
<1>8. Unpriv!ClosedStaysEmpty'
  BY <1>0, <1>5 DEF Unpriv!ClosedStaysEmpty
<1> QED BY <1>3, <1>4, <1>6, <1>7, <1>8 DEF SocketInv

LEMMA FetchSteps ==
  ASSUME Unpriv!NoneAssumption, SocketInv, NEW c \in Socks,
         Unpriv!Finish(c) \/ Unpriv!Fetch(c) \/ Unpriv!FetchFails(c) \/ Unpriv!Read(c)
  PROVE  SocketInv'
<1>0. /\ conn \in [Socks -> SocketState] /\ conn[c] \in SocketState
      /\ conn = [conn EXCEPT ![c] = conn[c]]
  BY DEF SocketInv, SocketTypes
<1>1. CASE Unpriv!FetchEnds(c) \/ Unpriv!DropReply(c) \/ Unpriv!FetchFails(c)
  <2>1. /\ fetch[c] \in {"reading", "holding"} /\ fetch' = [fetch EXCEPT ![c] = "removing"]
        /\ UNCHANGED <<context, mapping, conn, writer>>
    BY <1>1 DEF Unpriv!FetchEnds, Unpriv!DropReply, Unpriv!FetchFails
  <2> QED BY <1>0, <2>1, FetchKeeps
<1>2. CASE Unpriv!FetchRemoves(c)
  BY <1>0, <1>2, FetchKeeps DEF Unpriv!FetchRemoves
<1>3. CASE Unpriv!FetchCloses(c)
  <2> DEFINE s == [conn[c] EXCEPT !.state = "closed"]
  <2>1. s \in SocketState /\ s.ident = conn[c].ident /\ s.state = "closed" /\ conn' = [conn EXCEPT ![c] = s]
    BY <1>0, <1>3, SocketOf DEF Unpriv!FetchCloses
  <2> HIDE DEF s
  <2> QED BY <1>3, <2>1, FetchKeeps DEF Unpriv!FetchCloses
<1>4. CASE Unpriv!Fetch(c)
  <2> DEFINE s == [conn[c] EXCEPT !.inbox = FALSE]
  <2>1. s \in SocketState /\ s.ident = conn[c].ident /\ s.state = conn[c].state /\ conn' = [conn EXCEPT ![c] = s]
    BY <1>0, <1>4, InboxOf DEF Unpriv!Fetch
  <2> HIDE DEF s
  <2> QED BY <1>4, <2>1, FetchKeeps DEF Unpriv!Fetch
<1>5. CASE Unpriv!Read(c)
  BY <1>0, <1>5, FetchKeeps DEF Unpriv!Read
<1> QED BY <1>1, <1>2, <1>3, <1>4, <1>5 DEF Unpriv!Finish

(* A step of one writer on a socket: it may take the socket's entry out of
   the mapping when it goes on to close it, and close it as its last step. *)
LEMMA PingerKeeps ==
  ASSUME Unpriv!NoneAssumption, SocketInv, NEW w \in Writer, NEW t \in PingerState,
         NEW c \in Socks, NEW s \in SocketState,
         writer[w].pc \in {"writing", "removing", "closing"}, writer[w].conn = c,
         writer' = [writer EXCEPT ![w] = t], conn' = [conn EXCEPT ![c] = s],
         s.ident = conn[c].ident, s.state \in {conn[c].state, "closed"},
         s.state = "open" => writer[w].pc # "closing",
         t.pc # "idle" => t.ident = writer[w].ident /\ t.conn = c,
         \/ mapping' = mapping
         \/ t.pc = "closing" /\ mapping' = Unpriv!Without(c, writer[w].ident),
         UNCHANGED <<context, fetch>>
  PROVE  SocketInv'
<1>0. SocketTypes /\ SocketIdents /\ Unpriv!OpenIsMapped /\ Unpriv!ClosedStaysEmpty
  BY DEF SocketInv
<1>1. writer[w].ident \in Idents
  BY <1>0 DEF SocketIdents
<1>2. /\ conn'[c] = s /\ writer'[w] = t
      /\ \A d \in Socks \ {c} : conn'[d] = conn[d]
      /\ \A v \in Writer \ {w} : writer'[v] = writer[v]
  BY <1>0 DEF SocketTypes
<1>3. SocketTypes'
  BY <1>0, <1>1 DEF SocketTypes, Unpriv!Without
<1>4. SocketIdents'
  BY <1>0, <1>1, <1>2 DEF SocketIdents
<1>5. \A i \in Idents : mapping'[i] = mapping[i] \/ (t.pc = "closing" /\ mapping[i] = c /\ mapping'[i] = None)
  BY <1>0, <1>1 DEF SocketTypes, Unpriv!Without
<1>6. Unpriv!OpenIsMapped'
  <2> SUFFICES ASSUME NEW d \in Socks, conn'[d].state = "open"
               PROVE  \/ mapping'[conn'[d].ident] = d
                      \/ fetch'[d] = "closing"
                      \/ \E v \in Writer : writer'[v].pc = "closing" /\ writer'[v].conn = d
    BY DEF Unpriv!OpenIsMapped
  <2>1. conn[d].state = "open" /\ conn'[d].ident = conn[d].ident /\ conn[d].ident \in Idents
    BY <1>0, <1>2 DEF SocketIdents
  <2>2. CASE mapping[conn[d].ident] = d
    BY <1>2, <1>5, <2>1, <2>2
  <2>3. CASE fetch[d] = "closing"
    BY <2>3
  <2>4. ASSUME NEW v \in Writer, writer[v].pc = "closing", writer[v].conn = d
        PROVE  \E u \in Writer : writer'[u].pc = "closing" /\ writer'[u].conn = d
    <3>1. v # w
      BY <1>2, <2>4
    <3> QED BY <1>2, <2>4, <3>1
  <2> QED BY <1>0, <2>1, <2>2, <2>3, <2>4 DEF Unpriv!OpenIsMapped
<1>7. context' \in {"live", "cancelled", "closed"}
  BY DEF SocketInv
<1>8. Unpriv!ClosedStaysEmpty'
  BY <1>0, <1>5 DEF Unpriv!ClosedStaysEmpty
<1> QED BY <1>3, <1>4, <1>6, <1>7, <1>8 DEF SocketInv

LEMMA IdlePinger == Unpriv!Idle \in PingerState /\ Unpriv!Idle.pc = "idle"
  BY DEF Unpriv!Idle, PingerState

LEMMA PingerSteps ==
  ASSUME Unpriv!NoneAssumption, SocketInv, NEW w \in Writer, Unpriv!WriterStep(w) PROVE SocketInv'
<1> DEFINE c == writer[w].conn
<1>0. /\ writer[w] \in PingerState /\ c \in Socks /\ conn[c] \in SocketState
      /\ writer \in [Writer -> PingerState] /\ conn \in [Socks -> SocketState]
      /\ conn = [conn EXCEPT ![c] = conn[c]]
      /\ writer[w].pc \in {"writing", "removing", "closing"}
  BY DEF SocketInv, SocketTypes, SocketIdents, Unpriv!WriterStep, Unpriv!Send, Unpriv!WriterRemoves,
         Unpriv!WriterCloses
<1>1. CASE Unpriv!Send(w)
  <2>1. CASE /\ \E answered \in BOOLEAN : conn' = [conn EXCEPT ![c].inbox = @ \/ answered]
             /\ writer' = [writer EXCEPT ![w] = Unpriv!Idle]
    <3>1. PICK answered \in BOOLEAN : conn' = [conn EXCEPT ![c].inbox = @ \/ answered]
      BY <2>1
    <3> DEFINE b == conn[c].inbox \/ answered
               s == [conn[c] EXCEPT !.inbox = b]
    <3>2. b \in BOOLEAN
      OBVIOUS
    <3> HIDE DEF b
    <3>3. s \in SocketState /\ s.ident = conn[c].ident /\ s.state = conn[c].state
      BY <1>0, <3>2, InboxOf
    <3>4. conn' = [conn EXCEPT ![c] = s]
      BY <1>0, <3>1 DEF b
    <3>5. UNCHANGED <<context, mapping, fetch>> /\ writer[w].pc = "writing"
      BY <1>1 DEF Unpriv!Send
    <3> HIDE DEF s
    <3> QED BY <1>0, <2>1, <3>3, <3>4, <3>5, IdlePinger, PingerKeeps
  <2>2. CASE writer' = [writer EXCEPT ![w].pc = "removing"] /\ UNCHANGED conn
    <3> DEFINE t == [writer[w] EXCEPT !.pc = "removing"]
    <3>1. /\ t \in PingerState /\ t.pc = "removing" /\ t.ident = writer[w].ident /\ t.conn = c
          /\ writer' = [writer EXCEPT ![w] = t]
      BY <1>0, <2>2, PingerOf
    <3>2. UNCHANGED <<context, mapping, fetch>> /\ writer[w].pc = "writing"
      BY <1>1 DEF Unpriv!Send
    <3>3. conn' = [conn EXCEPT ![c] = conn[c]]
      BY <1>0, <2>2
    <3> HIDE DEF t
    <3> QED BY <1>0, <3>1, <3>2, <3>3, PingerKeeps
  <2> QED BY <1>1, <2>1, <2>2 DEF Unpriv!Send
<1>2. CASE Unpriv!WriterRemoves(w)
  <2> DEFINE t == [writer[w] EXCEPT !.pc = "closing"]
  <2>1. /\ t \in PingerState /\ t.pc = "closing" /\ t.ident = writer[w].ident /\ t.conn = c
        /\ writer' = [writer EXCEPT ![w] = t]
    BY <1>0, <1>2, PingerOf DEF Unpriv!WriterRemoves
  <2>2. /\ UNCHANGED <<context, conn, fetch>> /\ writer[w].pc = "removing"
        /\ mapping' = Unpriv!Without(c, writer[w].ident)
    BY <1>2 DEF Unpriv!WriterRemoves
  <2> HIDE DEF t
  <2> QED BY <1>0, <2>1, <2>2, PingerKeeps
<1>3. CASE Unpriv!WriterCloses(w)
  <2> DEFINE s == [conn[c] EXCEPT !.state = "closed"]
  <2>1. s \in SocketState /\ s.ident = conn[c].ident /\ s.state = "closed" /\ conn' = [conn EXCEPT ![c] = s]
    BY <1>0, <1>3, SocketOf DEF Unpriv!WriterCloses
  <2>2. UNCHANGED <<context, mapping, fetch>> /\ writer' = [writer EXCEPT ![w] = Unpriv!Idle]
    BY <1>3 DEF Unpriv!WriterCloses
  <2> HIDE DEF s
  <2> QED BY <1>0, <2>1, <2>2, IdlePinger, PingerKeeps
<1> QED BY <1>1, <1>2, <1>3 DEF Unpriv!WriterStep

(* Write: a writer that finds a socket, or opens one and enters it. *)
LEMMA WriteKeeps ==
  ASSUME Unpriv!NoneAssumption, SocketInv, NEW w \in Writer, NEW i \in Idents, Unpriv!Write(w, i)
  PROVE  SocketInv'
<1>0. SocketTypes /\ SocketIdents /\ Unpriv!OpenIsMapped /\ context = "live" /\ context' = context
      /\ writer[w].pc = "idle"
  BY DEF SocketInv, Unpriv!Write, Unpriv!MayWrite
<1>c. context' \in {"live", "cancelled", "closed"} /\ Unpriv!ClosedStaysEmpty'
  BY <1>0 DEF SocketInv, Unpriv!ClosedStaysEmpty
<1>1. CASE /\ mapping[i] # None
           /\ writer' = [writer EXCEPT ![w] = [pc |-> "writing", ident |-> i, conn |-> mapping[i]]]
           /\ UNCHANGED <<mapping, conn, fetch>>
  <2> DEFINE t == [pc |-> "writing", ident |-> i, conn |-> mapping[i]]
  <2>1. t \in PingerState /\ t.pc = "writing" /\ t.ident \in Idents /\ t.conn \in Socks
    BY <1>0, <1>1 DEF SocketTypes, PingerState
  <2> HIDE DEF t
  <2>2. writer'[w] = t /\ \A v \in Writer \ {w} : writer'[v] = writer[v]
    BY <1>0, <1>1 DEF SocketTypes, t
  <2>3. SocketTypes' /\ SocketIdents'
    BY <1>0, <1>1, <2>1, <2>2 DEF SocketTypes, SocketIdents, t
  <2>4. Unpriv!OpenIsMapped'
    BY <1>0, <1>1, <2>2 DEF Unpriv!OpenIsMapped
  <2> QED BY <1>c, <2>3, <2>4 DEF SocketInv
<1>2. ASSUME NEW c \in Socks, mapping[i] = None, Unpriv!Free(c),
             conn' = [conn EXCEPT ![c] = [state |-> "open", ident |-> i, inbox |-> FALSE]],
             fetch' = [fetch EXCEPT ![c] = "reading"],
             mapping' = [mapping EXCEPT ![i] = c],
             writer' = [writer EXCEPT ![w] = [pc |-> "writing", ident |-> i, conn |-> c]]
      PROVE  SocketInv'
  <2> DEFINE t == [pc |-> "writing", ident |-> i, conn |-> c]
             s == [state |-> "open", ident |-> i, inbox |-> FALSE]
  <2>1. /\ t \in PingerState /\ t.pc = "writing" /\ t.ident = i /\ t.conn = c
        /\ s \in SocketState /\ s.state = "open" /\ s.ident = i
    BY DEF PingerState, SocketState
  <2> HIDE DEF s, t
  <2>2. /\ writer'[w] = t /\ \A v \in Writer \ {w} : writer'[v] = writer[v]
        /\ conn'[c] = s /\ \A d \in Socks \ {c} : conn'[d] = conn[d] /\ fetch'[d] = fetch[d]
        /\ mapping'[i] = c /\ \A j \in Idents \ {i} : mapping'[j] = mapping[j]
    BY <1>0, <1>2 DEF SocketTypes, s, t
  <2>3. SocketTypes'
    BY <1>0, <1>2, <2>1 DEF SocketTypes, s, t
  <2>4. SocketIdents'
    BY <1>0, <2>1, <2>2 DEF SocketIdents
  <2>5. Unpriv!OpenIsMapped'
    <3> SUFFICES ASSUME NEW d \in Socks, conn'[d].state = "open"
                 PROVE  \/ mapping'[conn'[d].ident] = d
                        \/ fetch'[d] = "closing"
                        \/ \E v \in Writer : writer'[v].pc = "closing" /\ writer'[v].conn = d
      BY DEF Unpriv!OpenIsMapped
    <3>1. CASE d = c
      BY <2>1, <2>2, <3>1
    <3>2. CASE d # c
      <4>1. conn[d].state = "open" /\ conn[d].ident \in Idents /\ conn'[d] = conn[d]
        BY <1>0, <2>2, <3>2 DEF SocketIdents
      <4>2. CASE mapping[conn[d].ident] = d
        BY <1>2, <2>2, <4>1, <4>2 DEF Unpriv!NoneAssumption
      <4>3. CASE mapping[conn[d].ident] # d
        BY <1>0, <2>2, <3>2, <4>1, <4>3 DEF Unpriv!OpenIsMapped
      <4> QED BY <4>2, <4>3
    <3> QED BY <3>1, <3>2
  <2> QED BY <1>c, <2>3, <2>4, <2>5 DEF SocketInv
<1> QED BY <1>1, <1>2 DEF Unpriv!Write

(* Close empties the mapping and closes what was in it. *)
LEMMA CloseKeeps == ASSUME SocketInv, Unpriv!Close PROVE SocketInv'
<1>0. SocketTypes /\ SocketIdents /\ Unpriv!OpenIsMapped
  BY DEF SocketInv
<1>1. /\ UNCHANGED <<fetch, writer>> /\ mapping' = [i \in Idents |-> None] /\ context' = "closed"
      /\ conn' = [c \in Socks |-> IF \E i \in Idents : mapping[i] = c
                                 THEN [conn[c] EXCEPT !.state = "closed"] ELSE conn[c]]
  BY DEF Unpriv!Close, Unpriv!ClosedByClose
<1>2. ASSUME NEW c \in Socks
      PROVE  /\ conn'[c] \in SocketState /\ conn'[c].ident = conn[c].ident
             /\ conn'[c].state \in {conn[c].state, "closed"}
             /\ conn'[c].state = "open" => ~\E i \in Idents : mapping[i] = c
  <2>1. conn[c] \in SocketState
    BY <1>0 DEF SocketTypes
  <2>2. CASE \E i \in Idents : mapping[i] = c
    <3>1. conn'[c] = [conn[c] EXCEPT !.state = "closed"]
      BY <1>1, <2>2
    <3> QED BY <2>1, <3>1, SocketOf
  <2>3. CASE ~\E i \in Idents : mapping[i] = c
    <3>1. conn'[c] = conn[c]
      BY <1>1, <2>3
    <3> QED BY <2>1, <2>3, <3>1
  <2> QED BY <2>2, <2>3
<1>3. SocketTypes'
  BY <1>0, <1>1, <1>2 DEF SocketTypes
<1>4. SocketIdents'
  BY <1>0, <1>1, <1>2 DEF SocketIdents
<1>5. Unpriv!OpenIsMapped'
  BY <1>0, <1>1, <1>2 DEF Unpriv!OpenIsMapped, SocketIdents
<1>6. context' \in {"live", "cancelled", "closed"} /\ Unpriv!ClosedStaysEmpty'
  <2>1. \A i \in Idents : mapping'[i] = None
    BY <1>1
  <2> QED BY <1>1, <2>1 DEF Unpriv!ClosedStaysEmpty
<1> QED BY <1>3, <1>4, <1>5, <1>6 DEF SocketInv

LEMMA SocketInvariant == Spec => [](part = "unprivileged" => SocketInv)
<1> USE SocketsAssumed
<1>1. Unpriv!Init => SocketInv
  BY InitSockets
<1>2. SocketInv /\ [Unpriv!Next]_(Unpriv!vars) => SocketInv'
  <2>1. ASSUME SocketInv, UNCHANGED Unpriv!vars \/ Unpriv!ParentCancels PROVE SocketInv'
    <3>1. UNCHANGED <<mapping, conn, fetch, writer>> /\ context' \in {context, "cancelled"}
      BY <2>1 DEF Unpriv!vars, Unpriv!ParentCancels
    <3>2. SocketTypes' /\ SocketIdents' /\ Unpriv!OpenIsMapped'
      BY <2>1, <3>1 DEF SocketInv, SocketTypes, SocketIdents, Unpriv!OpenIsMapped
    <3>3. context' \in {"live", "cancelled", "closed"} /\ Unpriv!ClosedStaysEmpty'
      BY <2>1, <3>1 DEF SocketInv, Unpriv!ClosedStaysEmpty
    <3> QED BY <3>2, <3>3 DEF SocketInv
  <2> QED BY <2>1, FetchSteps, PingerSteps, WriteKeeps, CloseKeeps DEF Unpriv!Next
<1>3. Init => (part = "unprivileged" => SocketInv)
  BY <1>1 DEF Init, PingPart
<1>4. (part = "unprivileged" => SocketInv) /\ [Next]_vars => (part = "unprivileged" => SocketInv)'
  <2> SUFFICES ASSUME part = "unprivileged" => SocketInv, [Next]_vars, part' = "unprivileged" PROVE SocketInv'
    OBVIOUS
  <2>1. part = "unprivileged" /\ [Unpriv!Next]_(Unpriv!vars)
    BY DEF Next, vars, Unpriv!vars,
           context, mapping, conn, fetch, writer
  <2> QED BY <1>2, <2>1
<1> QED BY <1>3, <1>4, PTL DEF Spec

LEMMA SocketsHold == SocketInv => Unpriv!TypeOK /\ Unpriv!NothingLeaks
<1> SUFFICES ASSUME SocketInv PROVE Unpriv!TypeOK /\ Unpriv!NothingLeaks
  OBVIOUS
<1>1. Unpriv!TypeOK
  BY Zenon DEF SocketInv, SocketTypes, SocketState, PingerState, Unpriv!TypeOK
<1>2. Unpriv!NothingLeaks
  BY DEF SocketInv, Unpriv!NothingLeaks
<1> QED BY <1>1, <1>2

-----------------------------------------------------------------------------
(* StackLifecycle (Start and Close of the four stacks).  The argument: what *)
(* Start still has to do is one of a few lists, and what it has opened so   *)
(* far is what the fields of the stack hold, except for the stack of        *)
(* Mipstack until its forwarders are there.                                 *)
\* What can be left to do, by stack
Lists(k) ==
  CASE k = "system" -> {<<>>, <<"listen4">>, <<"listen6">>, <<"listen4", "listen6">>}
    [] k = "mixed" -> {<<>>, <<"stack">>, <<"listen4", "stack">>, <<"listen6", "stack">>,
                       <<"listen4", "listen6", "stack">>}
    [] k = "gvisor" -> {<<>>, <<"stack">>}
    [] k = "mipstack" -> {<<>>, <<"forwarders">>, <<"stack", "forwarders">>}

LifeTypes ==
  /\ kind \in {"system", "mixed", "gvisor", "mipstack"} /\ kind \in StackKinds
  /\ families \in {{"4"}, {"6"}, {"4", "6"}} /\ tries \in 0 .. MaxTries - 1
  /\ phase \in {"new", "starting", "started", "failed", "closed"}
  /\ known \subseteq Life!Resources /\ open \subseteq Life!Resources /\ loops \subseteq Life!Loops

\* What is open and what Close will find of it, by place in Start
LifeKnown ==
  /\ todo \in Lists(kind) /\ (phase # "starting" => todo = <<>>)
  /\ kind = "system" => known \subseteq Life!Listeners
  /\ kind \in {"gvisor", "mipstack"} => known \subseteq {"stack"}
  /\ IF kind = "mipstack" /\ todo = <<"forwarders">> THEN open \subseteq {"stack"}
     ELSE open \subseteq known
  /\ todo = <<"stack", "forwarders">> \/ phase = "new" => open = {}

LifeLoops ==
  phase \in {"new", "failed"} \/ todo # <<>> => loops \cap {"tun", "packet"} = {}

LifeInv ==
  /\ LifeTypes /\ LifeKnown /\ LifeLoops /\ Life!CloseFreesAll
  /\ tun \in BOOLEAN /\ ctx \in BOOLEAN

LEMMA InitLife == ASSUME Life!StartAssumption, Life!Init PROVE LifeInv
<1> USE DEF Life!Init, Life!StartAssumption
<1>1. LifeTypes /\ LifeKnown /\ LifeLoops /\ Life!CloseFreesAll
  BY DEF LifeTypes, LifeKnown, LifeLoops, Life!CloseFreesAll, Lists
<1>2. tun \in BOOLEAN /\ ctx \in BOOLEAN
  BY Zenon
<1> QED BY <1>1, <1>2 DEF LifeInv

(* Short tuples: what they are made of, their first and the rest. *)
LEMMA PairOf == ASSUME NEW a, NEW b PROVE <<a>> \o <<b>> = <<a, b>>
<1> DEFINE u == <<a>> \o <<b>>
           v == <<a, b>>
<1>1. u \in Seq({a, b}) /\ Len(u) = 2 /\ u[1] = a /\ u[2] = b
  OBVIOUS
<1>2. v \in Seq({a, b}) /\ Len(v) = 2 /\ v[1] = a /\ v[2] = b
  OBVIOUS
<1> HIDE DEF u, v
<1>3. u = v
  BY <1>1, <1>2
<1> QED BY <1>3 DEF u, v

LEMMA TripleOf == ASSUME NEW a, NEW b, NEW c PROVE <<a, b>> \o <<c>> = <<a, b, c>>
<1> DEFINE u == <<a, b>> \o <<c>>
           v == <<a, b, c>>
<1>1. u \in Seq({a, b, c}) /\ Len(u) = 3 /\ u[1] = a /\ u[2] = b /\ u[3] = c
  OBVIOUS
<1>2. v \in Seq({a, b, c}) /\ Len(v) = 3 /\ v[1] = a /\ v[2] = b /\ v[3] = c
  OBVIOUS
<1> HIDE DEF u, v
<1>3. u = v
  BY <1>1, <1>2
<1> QED BY <1>3 DEF u, v

LEMMA OneTuple == ASSUME NEW a PROVE Head(<<a>>) = a /\ Tail(<<a>>) = <<>> /\ <<a>> # <<>>
  OBVIOUS

LEMMA TwoTuple ==
  ASSUME NEW a, NEW b
  PROVE  /\ Head(<<a, b>>) = a /\ Tail(<<a, b>>) = <<b>> /\ <<a, b>> # <<>>
         /\ \A x : <<a, b>> # <<x>>
  OBVIOUS

LEMMA ThreeTuple ==
  ASSUME NEW a, NEW b, NEW c
  PROVE  /\ Head(<<a, b, c>>) = a /\ Tail(<<a, b, c>>) = <<b, c>> /\ <<a, b, c>> # <<>>
         /\ \A x : <<a, b, c>> # <<x>>
         /\ \A x, y : <<a, b, c>> # <<x, y>>
  OBVIOUS

LEMMA DifferentTuples ==
  /\ \A a, b : <<a>> = <<b>> <=> a = b
  /\ \A a, b, c, d : <<a, b>> = <<c, d>> <=> a = c /\ b = d
  OBVIOUS

(* The plan of each stack is one of its lists. *)
LEMMA PlanOf == ASSUME LifeTypes PROVE Life!Plan \in Lists(kind) /\ Life!Plan # <<"forwarders">>
<1> USE DEF LifeTypes
<1>1. Life!Listening \in {<<"listen4">>, <<"listen6">>, <<"listen4", "listen6">>}
  <2>1. /\ <<"listen4">> \o <<"listen6">> = <<"listen4", "listen6">>
        /\ <<"listen4">> \o <<>> = <<"listen4">> /\ <<>> \o <<"listen6">> = <<"listen6">>
    BY PairOf
  <2>2. CASE families = {"4"}
    <3>1. Life!Listening = <<"listen4">> \o <<>>
      BY <2>2 DEF Life!Listening
    <3> QED BY <2>1, <3>1
  <2>3. CASE families = {"6"}
    <3>1. Life!Listening = <<>> \o <<"listen6">>
      BY <2>3 DEF Life!Listening
    <3> QED BY <2>1, <3>1
  <2>4. CASE families = {"4", "6"}
    <3>1. Life!Listening = <<"listen4">> \o <<"listen6">>
      BY <2>4 DEF Life!Listening
    <3> QED BY <2>1, <3>1
  <2> QED BY <2>2, <2>3, <2>4
<1>2. CASE kind = "system"
  BY <1>1, <1>2, TwoTuple, DifferentTuples DEF Life!SystemStart, Lists, Life!Plan
<1>3. CASE kind = "mixed"
  <2>1. /\ <<"listen4">> \o <<"stack">> = <<"listen4", "stack">>
        /\ <<"listen6">> \o <<"stack">> = <<"listen6", "stack">>
        /\ <<"listen4", "listen6">> \o <<"stack">> = <<"listen4", "listen6", "stack">>
    BY PairOf, TripleOf
  <2>2. Life!Plan \in {<<"listen4", "stack">>, <<"listen6", "stack">>, <<"listen4", "listen6", "stack">>}
    BY <1>1, <1>3, <2>1 DEF Life!MixedStart, Life!SystemStart, Life!Plan
  <2>3. Life!Plan # <<"forwarders">>
    BY <2>2, TwoTuple, ThreeTuple
  <2> QED BY <1>3, <2>2, <2>3 DEF Lists
<1>4. CASE kind = "gvisor"
  BY <1>4, DifferentTuples DEF Life!GVisorStart, Lists, Life!Plan
<1>5. CASE kind = "mipstack"
  BY <1>5, TwoTuple DEF Life!MipstackStart, Lists, Life!Plan
<1> QED BY <1>2, <1>3, <1>4, <1>5

(* The first of a list, and the rest of it. *)
LEMMA HeadOf ==
  ASSUME NEW k \in {"system", "mixed", "gvisor", "mipstack"}, NEW l \in Lists(k), l # <<>>
  PROVE  /\ Head(l) \in {"listen4", "listen6", "stack", "forwarders"} /\ Tail(l) \in Lists(k)
         /\ Head(l) = "forwarders" => k = "mipstack" /\ l = <<"forwarders">> /\ Tail(l) = <<>>
         /\ Head(l) \in {"listen4", "listen6"} => k \in {"system", "mixed"}
         /\ Head(l) = "stack" => k # "system"
         /\ Head(l) = "stack" /\ k = "mipstack" => l = <<"stack", "forwarders">> /\ Tail(l) = <<"forwarders">>
         /\ Head(l) = "stack" /\ k = "gvisor" => Tail(l) = <<>>
         /\ k # "mipstack" => l # <<"forwarders">> /\ Tail(l) # <<"forwarders">>
         /\ Tail(l) # <<"stack", "forwarders">>
<1> USE OneTuple, TwoTuple, ThreeTuple, DifferentTuples
<1>1. CASE k = "system"
  <2>1. CASE l = <<"listen4">>
    BY <1>1, <2>1 DEF Lists
  <2>2. CASE l = <<"listen6">>
    BY <1>1, <2>2 DEF Lists
  <2>3. CASE l = <<"listen4", "listen6">>
    BY <1>1, <2>3 DEF Lists
  <2> QED BY ONLY <1>1, l \in Lists(k), l # <<>>, <2>1, <2>2, <2>3 DEF Lists
<1>2. CASE k = "mixed"
  <2>1. CASE l = <<"stack">>
    BY <1>2, <2>1 DEF Lists
  <2>2. CASE l = <<"listen4", "stack">>
    BY <1>2, <2>2 DEF Lists
  <2>3. CASE l = <<"listen6", "stack">>
    BY <1>2, <2>3 DEF Lists
  <2>4. CASE l = <<"listen4", "listen6", "stack">>
    BY <1>2, <2>4 DEF Lists
  <2> QED BY ONLY <1>2, l \in Lists(k), l # <<>>, <2>1, <2>2, <2>3, <2>4 DEF Lists
<1>3. CASE k = "gvisor"
  <2>1. CASE l = <<"stack">>
    BY <1>3, <2>1 DEF Lists
  <2> QED BY ONLY <1>3, l \in Lists(k), l # <<>>, <2>1 DEF Lists
<1>4. CASE k = "mipstack"
  <2>1. CASE l = <<"forwarders">>
    BY <1>4, <2>1 DEF Lists
  <2>2. CASE l = <<"stack", "forwarders">>
    BY <1>4, <2>2 DEF Lists
  <2> QED BY ONLY <1>4, l \in Lists(k), l # <<>>, <2>1, <2>2 DEF Lists
<1> QED BY ONLY k \in {"system", "mixed", "gvisor", "mipstack"}, <1>1, <1>2, <1>3, <1>4

LEMMA TupleType ==
  ASSUME NEW S, NEW a \in S, NEW b \in S, NEW c \in S
  PROVE  <<>> \in Seq(S) /\ <<a>> \in Seq(S) /\ <<a, b>> \in Seq(S) /\ <<a, b, c>> \in Seq(S)
  OBVIOUS

LEMMA ListType == ASSUME NEW k \in {"system", "mixed", "gvisor", "mipstack"}, NEW l \in Lists(k)
                  PROVE  l \in Seq(Life!Resources \cup {"forwarders"})
<1> DEFINE S == Life!Resources \cup {"forwarders"}
<1>1. "listen4" \in S /\ "listen6" \in S /\ "stack" \in S /\ "forwarders" \in S
  BY DEF Life!Resources, Life!Listeners
<1> HIDE DEF S
<1>2. /\ <<>> \in Seq(S) /\ <<"listen4">> \in Seq(S) /\ <<"listen6">> \in Seq(S) /\ <<"stack">> \in Seq(S)
      /\ <<"forwarders">> \in Seq(S) /\ <<"listen4", "listen6">> \in Seq(S)
      /\ <<"listen4", "stack">> \in Seq(S) /\ <<"listen6", "stack">> \in Seq(S)
      /\ <<"stack", "forwarders">> \in Seq(S) /\ <<"listen4", "listen6", "stack">> \in Seq(S)
  BY <1>1, TupleType
<1>3. l \in Seq(S)
  BY <1>2 DEF Lists
<1> QED BY <1>3 DEF S

LEMMA StartKeeps == ASSUME Life!StartAssumption, LifeInv, Life!Start PROVE LifeInv'
<1>0. LifeTypes /\ LifeKnown /\ LifeLoops /\ Life!CloseFreesAll
  BY DEF LifeInv
<1>1. /\ phase = "new" /\ phase' = "starting" /\ todo' = Life!Plan
      /\ UNCHANGED <<kind, families, tries, open, known, loops, tun, ctx>>
  BY DEF Life!Start
<1>2. Life!Plan \in Lists(kind) /\ Life!Plan # <<"forwarders">>
  BY <1>0, PlanOf
<1>3. open = {}
  BY <1>0, <1>1 DEF LifeKnown
<1>4. LifeTypes' /\ Life!CloseFreesAll'
  BY <1>0, <1>1 DEF LifeTypes, Life!CloseFreesAll
<1>5. LifeLoops'
  BY <1>0, <1>1 DEF LifeLoops
<1>6. LifeKnown'
  BY <1>0, <1>1, <1>2, <1>3 DEF LifeKnown
<1>7. tun' \in BOOLEAN /\ ctx' \in BOOLEAN
  BY <1>1, Zenon DEF LifeInv
<1> QED BY <1>4, <1>5, <1>6, <1>7 DEF LifeInv

(* A resource is there: its field, its goroutine. *)
LEMMA AcquireKeeps == ASSUME Life!StartAssumption, LifeInv, Life!Acquire PROVE LifeInv'
<1> DEFINE h == Head(todo)
           t == Tail(todo)
<1>0. LifeTypes /\ LifeKnown /\ LifeLoops /\ Life!CloseFreesAll
  BY DEF LifeInv
<1>1. /\ phase = "starting" /\ todo # <<>>
      /\ open' = open \cup ({h} \cap Life!Resources) /\ known' = Life!Stored(h)
      /\ loops' = loops \cup Life!LoopOf(h) /\ todo' = t /\ tries' = 0
      /\ UNCHANGED <<kind, families, phase, tun, ctx>>
  BY DEF Life!Acquire
<1>2. todo \in Lists(kind) /\ kind \in {"system", "mixed", "gvisor", "mipstack"}
  BY <1>0 DEF LifeKnown, LifeTypes
<1>3. /\ h \in {"listen4", "listen6", "stack", "forwarders"} /\ t \in Lists(kind)
      /\ h = "forwarders" => kind = "mipstack" /\ todo = <<"forwarders">> /\ t = <<>>
      /\ h \in {"listen4", "listen6"} => kind \in {"system", "mixed"}
      /\ h = "stack" => kind # "system"
      /\ h = "stack" /\ kind = "mipstack" => todo = <<"stack", "forwarders">> /\ t = <<"forwarders">>
      /\ h = "stack" /\ kind = "gvisor" => t = <<>>
      /\ kind # "mipstack" => todo # <<"forwarders">> /\ t # <<"forwarders">>
      /\ t # <<"stack", "forwarders">>
  BY <1>1, <1>2, HeadOf
<1>4. <<"forwarders">> # <<>> /\ <<"stack", "forwarders">> # <<"forwarders">>
  BY OneTuple, TwoTuple
<1>5. /\ known \subseteq Life!Resources /\ open \subseteq Life!Resources /\ loops \subseteq Life!Loops
      /\ kind = "system" => known \subseteq Life!Listeners
      /\ kind \in {"gvisor", "mipstack"} => known \subseteq {"stack"}
      /\ kind = "mipstack" /\ todo = <<"forwarders">> => open \subseteq {"stack"}
      /\ ~(kind = "mipstack" /\ todo = <<"forwarders">>) => open \subseteq known
      /\ todo = <<"stack", "forwarders">> => open = {}
      /\ loops \cap {"tun", "packet"} = {}
  BY <1>0, <1>1 DEF LifeKnown, LifeTypes, LifeLoops
<1> HIDE DEF h, t
<1>6. /\ Life!Stored(h) = IF h = "forwarders" THEN known \cup {"stack"}
                          ELSE IF h = "stack" /\ kind = "mipstack" THEN known ELSE known \cup {h}
      /\ Life!LoopOf(h) \subseteq Life!Loops
      /\ t # <<>> => Life!LoopOf(h) \cap {"tun", "packet"} = {}
  BY <1>3 DEF Life!Stored, Life!LoopOf, Life!Loops
<1>7. {h} \cap Life!Resources = IF h = "forwarders" THEN {} ELSE {h}
  BY <1>3 DEF Life!Resources, Life!Listeners
<1>8. LifeTypes'
  <2>1. known' \subseteq Life!Resources /\ open' \subseteq Life!Resources /\ loops' \subseteq Life!Loops
    BY <1>1, <1>3, <1>5, <1>6, <1>7 DEF Life!Resources, Life!Listeners
  <2> QED BY <1>0, <1>1, <2>1 DEF LifeTypes, Life!StartAssumption
<1>9. LifeLoops'
  BY <1>1, <1>5, <1>6 DEF LifeLoops
<1>10. LifeKnown'
  <2>1. /\ kind = "system" => known' \subseteq Life!Listeners
        /\ kind \in {"gvisor", "mipstack"} => known' \subseteq {"stack"}
    BY <1>1, <1>3, <1>5, <1>6 DEF Life!Listeners
  <2>2. IF kind = "mipstack" /\ t = <<"forwarders">> THEN open' \subseteq {"stack"} ELSE open' \subseteq known'
    <3>1. CASE h = "forwarders"
      BY <1>1, <1>3, <1>4, <1>5, <1>6, <1>7, <3>1
    <3>2. CASE h = "stack" /\ kind = "mipstack"
      BY <1>1, <1>3, <1>4, <1>5, <1>6, <1>7, <3>2
    <3>3. CASE h # "forwarders" /\ ~(h = "stack" /\ kind = "mipstack")
      <4>1. kind # "mipstack"
        BY <1>3, <3>3
      <4> QED BY <1>1, <1>3, <1>5, <1>6, <1>7, <3>3, <4>1
    <3> QED BY <3>1, <3>2, <3>3
  <2> QED BY <1>1, <1>3, <2>1, <2>2 DEF LifeKnown
<1>11. Life!CloseFreesAll'
  BY <1>1 DEF Life!CloseFreesAll
<1>12. tun' \in BOOLEAN /\ ctx' \in BOOLEAN
  BY <1>1, Zenon DEF LifeInv
<1> QED BY <1>8, <1>9, <1>10, <1>11, <1>12 DEF LifeInv

(* A listener is tried again; a step fails and Start returns. *)
LEMMA FailKeeps == ASSUME Life!StartAssumption, LifeInv, Life!Retry \/ Life!Fail PROVE LifeInv'
<1>0. LifeTypes /\ LifeKnown /\ LifeLoops /\ Life!CloseFreesAll
  BY DEF LifeInv
<1>t. UNCHANGED <<tun, ctx>>
  BY DEF Life!Retry, Life!Fail
<1>b. tun' \in BOOLEAN /\ ctx' \in BOOLEAN
  BY <1>t, Zenon DEF LifeInv
<1>1. CASE Life!Retry
  <2>1. LifeTypes'
    BY <1>0, <1>1 DEF LifeTypes, Life!Retry, Life!StartAssumption
  <2>2. LifeKnown' /\ LifeLoops' /\ Life!CloseFreesAll'
    BY <1>0, <1>1 DEF LifeKnown, LifeLoops, Life!CloseFreesAll, Life!MixedWithoutStack, Life!Retry
  <2> QED BY <1>b, <2>1, <2>2 DEF LifeInv
<1>2. CASE Life!Fail
  <2>1. /\ phase = "starting" /\ todo # <<>> /\ phase' = "failed" /\ todo' = <<>> /\ tries' = 0
        /\ open' = (IF Head(todo) = "forwarders" THEN open \ {"stack"} ELSE open)
        /\ UNCHANGED <<kind, families, known, loops>>
    BY <1>2 DEF Life!Fail, Life!LeftByFailure
  <2>2. LifeTypes' /\ LifeLoops' /\ Life!CloseFreesAll'
    BY <1>0, <2>1 DEF LifeTypes, LifeLoops, Life!CloseFreesAll, Life!StartAssumption
  <2>3. todo \in Lists(kind) /\ kind \in {"system", "mixed", "gvisor", "mipstack"}
    BY <1>0 DEF LifeKnown, LifeTypes
  <2>4. <<>> \in Lists(kind) /\ <<>> # <<"forwarders">> /\ <<>> # <<"stack", "forwarders">>
    BY <2>3, OneTuple, TwoTuple DEF Lists
  <2>5. open' \subseteq known'
    <3>1. CASE kind = "mipstack" /\ todo = <<"forwarders">>
      <4>1. Head(todo) = "forwarders" /\ open \subseteq {"stack"}
        BY <1>0, <3>1, OneTuple DEF LifeKnown
      <4> QED BY <2>1, <4>1
    <3>2. CASE ~(kind = "mipstack" /\ todo = <<"forwarders">>)
      <4>1. open \subseteq known
        BY <1>0, <3>2 DEF LifeKnown
      <4> QED BY <2>1, <4>1
    <3> QED BY <3>1, <3>2
  <2>6. LifeKnown'
    BY <1>0, <2>1, <2>4, <2>5 DEF LifeKnown
  <2> QED BY <1>b, <2>2, <2>6 DEF LifeInv
<1> QED BY <1>1, <1>2

(* Start returns; Close closes what it finds. *)
LEMMA CloseStackKeeps == ASSUME LifeInv, Life!Started \/ Life!Close PROVE LifeInv'
<1>0. LifeTypes /\ LifeKnown /\ LifeLoops /\ Life!CloseFreesAll
  BY DEF LifeInv
<1>t. UNCHANGED <<tun, ctx>>
  BY DEF Life!Started, Life!Close
<1>b. tun' \in BOOLEAN /\ ctx' \in BOOLEAN
  BY <1>t, Zenon DEF LifeInv
<1>s. todo = <<>> /\ open \subseteq known /\ <<>> # <<"forwarders">> /\ <<>> # <<"stack", "forwarders">>
  <2>1. todo = <<>>
    BY <1>0 DEF LifeKnown, Life!Started, Life!Close
  <2>2. <<>> # <<"forwarders">> /\ <<>> # <<"stack", "forwarders">>
    BY OneTuple, TwoTuple
  <2> QED BY <1>0, <2>1, <2>2 DEF LifeKnown
<1>1. CASE Life!Started
  <2>1. /\ phase' = "started" /\ UNCHANGED <<kind, families, todo, tries, open, known>>
        /\ loops' \subseteq Life!Loops
    BY <1>0, <1>1 DEF LifeTypes, Life!Started, Life!Loops
  <2>2. LifeTypes' /\ LifeLoops' /\ Life!CloseFreesAll'
    BY <1>0, <1>s, <2>1 DEF LifeTypes, LifeLoops, Life!CloseFreesAll
  <2>3. LifeKnown'
    BY <1>0, <1>s, <2>1 DEF LifeKnown
  <2> QED BY <1>b, <2>2, <2>3 DEF LifeInv
<1>2. CASE Life!Close
  <2>1. /\ phase' = "closed" /\ open' = open \ (Life!Closes \cap known)
        /\ UNCHANGED <<kind, families, todo, tries, known, loops>>
    BY <1>2 DEF Life!Close
  <2>2. LifeTypes' /\ LifeLoops'
    BY <1>0, <1>s, <2>1 DEF LifeTypes, LifeLoops
  <2>3. LifeKnown'
    BY <1>0, <1>s, <2>1 DEF LifeKnown
  <2>4. ~Life!MixedWithoutStack => known \subseteq Life!Closes
    BY <1>0 DEF LifeTypes, LifeKnown, Life!MixedWithoutStack, Life!Closes, Life!SystemClose, Life!MixedClose,
                Life!GVisorClose, Life!MipstackClose, Life!Resources, Life!Listeners
  <2>5. Life!CloseFreesAll'
    BY <1>s, <2>1, <2>4 DEF Life!CloseFreesAll, Life!MixedWithoutStack
  <2> QED BY <1>b, <2>2, <2>3, <2>5 DEF LifeInv
<1> QED BY <1>1, <1>2

(* The device, the context, and goroutines that end. *)
LEMMA EndsKeeps ==
  ASSUME LifeInv, UNCHANGED <<kind, families, phase, todo, tries, open, known>>, loops' \subseteq loops,
         tun' \in BOOLEAN, ctx' \in BOOLEAN
  PROVE  LifeInv'
<1>0. LifeTypes /\ LifeKnown /\ LifeLoops /\ Life!CloseFreesAll
  BY DEF LifeInv
<1>1. LifeTypes' /\ LifeKnown'
  BY <1>0 DEF LifeTypes, LifeKnown
<1>2. LifeLoops' /\ Life!CloseFreesAll'
  BY <1>0 DEF LifeLoops, Life!CloseFreesAll, Life!MixedWithoutStack
<1> QED BY <1>1, <1>2 DEF LifeInv

LEMMA LifeInvariant == Spec => [](part = "lifecycle" => LifeInv)
<1> USE StartAssumed
<1>1. Life!Init => LifeInv
  BY InitLife
<1>2. LifeInv /\ [Life!Next]_(Life!vars) => LifeInv'
  <2>1. ASSUME LifeInv, UNCHANGED Life!vars \/ Life!Over \/ Life!CloseTun \/ Life!Cancel \/ Life!WriteFails
                        \/ \E l \in Life!Loops : Life!LoopEnds(l)
        PROVE  LifeInv'
    <3>1. /\ UNCHANGED <<kind, families, phase, todo, tries, open, known>> /\ loops' \subseteq loops
          /\ tun' = tun \/ tun' = FALSE
          /\ ctx' = ctx \/ ctx' = FALSE
      BY <2>1 DEF Life!vars, Life!Over, Life!CloseTun, Life!Cancel, Life!WriteFails, Life!LoopEnds
    <3>2. tun' \in BOOLEAN /\ ctx' \in BOOLEAN
      BY <2>1, <3>1, Zenon DEF LifeInv
    <3> QED BY <2>1, <3>1, <3>2, EndsKeeps
  <2> QED BY <2>1, StartKeeps, AcquireKeeps, FailKeeps, CloseStackKeeps DEF Life!Next
<1>3. Init => (part = "lifecycle" => LifeInv)
  BY <1>1 DEF Init, PingPart
<1>4. (part = "lifecycle" => LifeInv) /\ [Next]_vars => (part = "lifecycle" => LifeInv)'
  <2> SUFFICES ASSUME part = "lifecycle" => LifeInv, [Next]_vars, part' = "lifecycle" PROVE LifeInv'
    OBVIOUS
  <2>1. part = "lifecycle" /\ [Life!Next]_(Life!vars)
    BY DEF Next, vars, Life!vars,
           kind, families, phase, todo, tries, open, known, loops, tun, ctx
  <2> QED BY <1>2, <2>1
<1> QED BY <1>3, <1>4, PTL DEF Spec

LEMMA LifeHolds == ASSUME Life!StartAssumption, LifeInv PROVE Life!TypeOK /\ Life!NothingLeaks
<1>1. todo \in Seq(Life!Resources \cup {"forwarders"})
  BY ListType DEF LifeInv, LifeTypes, LifeKnown
<1>2. /\ kind \in StackKinds /\ families \subseteq {"4", "6"} /\ tries \in 0 .. (MaxTries - 1)
      /\ phase \in {"new", "starting", "started", "failed", "closed"}
      /\ known \subseteq Life!Resources /\ open \subseteq Life!Resources /\ loops \subseteq Life!Loops
  BY DEF LifeInv, LifeTypes
<1>3. tun \in BOOLEAN /\ ctx \in BOOLEAN
  BY DEF LifeInv
<1>4. Life!TypeOK
  BY <1>1, <1>2, <1>3, Zenon DEF Life!TypeOK
<1>5. Life!NothingLeaks
  BY DEF LifeInv, LifeLoops, Life!NothingLeaks, Life!FailedLeavesDevice
<1> QED BY <1>4, <1>5

-----------------------------------------------------------------------------
(* PingDestination (route_direct.go, ping/destination.go).  The argument:   *)
(* an open destination is the one in the cache, so there is one at most,    *)
(* and its table holds only requests the client still waits for; a table    *)
(* has made room before a request enters it.  One in the cache that is not  *)
(* open says so, or its reader is inside Close.                             *)
Entry == [ident : 0 .. 1, seq : Seqs, age : 0 .. (Timeout + 1)]
Keys(t) == {Ping!Key(x) : x \in t}
Tables == {t \in SUBSET Entry : IsFiniteSet(t) /\ Cardinality(t) <= Limit + 1}

DestState == [state : {"unused", "open", "closed"}, closed : BOOLEAN, idle : 0 .. Timeout, requests : Tables,
              reader : {"reading", "leaving", "closing", "ended"}]
Writes == [dest : Dest, request : Ping!Request]

PingTypes ==
  /\ cache \in [dest : Dest \cup {None}, age : 0 .. Timeout]
  /\ dest \in [Dest -> DestState]
  /\ writes \in SUBSET Writes
  /\ wire \in SUBSET [to : Dest, ident : 0 .. 1, seq : Seqs]
  /\ asked \in SUBSET Ping!Request

\* An open destination is the one in the cache, and waits for what was asked
OpenWaits == \A d \in Dest : dest[d].state = "open" => cache.dest = d /\ Keys(dest[d].requests) \subseteq asked

\* The flag of the destination in the cache, once its Close is over
Tells(s) == s.state = "open" \/ s.reader = "closing" \/ s.closed
CacheTells == cache.dest # None => Tells(dest[cache.dest])

PingInv == PingTypes /\ OpenWaits /\ CacheTells /\ owed = TRUE

LEMMA TableCounting ==
  /\ \A S : Ping!Cardinality(S) = Cardinality(S)
  /\ Ping!TableAssumption =>
       None \notin Dest /\ Limit \in Nat /\ Timeout \in Nat
<1>1. \A S : Ping!Cardinality(S) = Cardinality(S)
  BY DEF Ping!Cardinality, Cardinality, Ping!IsFiniteSet, IsFiniteSet
<1>2. Ping!TableAssumption =>
       None \notin Dest /\ Limit \in Nat /\ Timeout \in Nat
  BY DEF Ping!TableAssumption
<1> QED BY <1>1, <1>2

(* The tables: empty, with a request registered, with one answered, older. *)
LEMMA EmptyTable == ASSUME Ping!TableAssumption PROVE {} \in Tables /\ Keys({}) = {}
  BY FS_EmptySet, TableCounting DEF Tables, Keys

LEMMA SmallerTable ==
  ASSUME Ping!TableAssumption, NEW t \in Tables, NEW u \in SUBSET t
  PROVE  /\ u \in Tables /\ Keys(u) \subseteq Keys(t)
         /\ Cardinality(u) \in Nat /\ Cardinality(u) <= Cardinality(t) /\ Cardinality(t) \in Nat
<1>1. IsFiniteSet(t) /\ Cardinality(t) <= Limit + 1 /\ t \subseteq Entry
  BY DEF Tables
<1>2. IsFiniteSet(u) /\ Cardinality(u) <= Cardinality(t) /\ Cardinality(u) \in Nat /\ Cardinality(t) \in Nat
  BY <1>1, FS_Subset, FS_CardinalityType
<1>3. u \in Tables
  BY <1>1, <1>2, TableCounting DEF Tables
<1> QED BY <1>2, <1>3 DEF Keys

LEMMA AnsweredTable ==
  ASSUME Ping!TableAssumption, NEW t \in Tables, NEW r
  PROVE  Ping!Answered(t, r) \in Tables /\ Keys(Ping!Answered(t, r)) \subseteq Keys(t) \ {r}
<1>1. Ping!Answered(t, r) \in SUBSET t
  BY DEF Ping!Answered
<1>2. Keys(Ping!Answered(t, r)) \subseteq Keys(t) \ {r}
  BY DEF Ping!Answered, Keys
<1> QED BY <1>1, <1>2, SmallerTable

LEMMA OlderTable ==
  ASSUME Ping!TableAssumption, NEW t \in Tables
  PROVE  LET u == {[x EXCEPT !.age = Ping!Older(@, Timeout + 1)] : x \in t}
         IN  u \in Tables /\ Keys(u) = Keys(t)
<1> DEFINE old(x) == [x EXCEPT !.age = Ping!Older(@, Timeout + 1)]
           u == {old(x) : x \in t}
           f == [x \in t |-> old(x)]
<1>1. \A x \in Entry : old(x) \in Entry /\ Ping!Key(old(x)) = Ping!Key(x)
  BY TableCounting DEF Entry, Ping!Key, Ping!Older
<1>2. t \subseteq Entry /\ IsFiniteSet(t) /\ Cardinality(t) <= Limit + 1
  BY DEF Tables
<1>3. u \subseteq Entry /\ Keys(u) = Keys(t)
  <2> HIDE DEF old
  <2> QED BY <1>1, <1>2 DEF Keys
<1>4. f \in Surjection(t, u)
  <2> HIDE DEF old
  <2> QED BY DEF Surjection
<1>5. IsFiniteSet(u) /\ Cardinality(u) <= Cardinality(t)
  <2> HIDE DEF f, u
  <2> QED BY <1>2, <1>4, FS_Surjection
<1>6. Cardinality(u) \in Nat /\ Cardinality(t) \in Nat
  BY <1>2, <1>5, FS_CardinalityType
<1>7. u \in Tables
  <2> HIDE DEF u
  <2> QED BY <1>2, <1>3, <1>5, <1>6, TableCounting DEF Tables
<1> QED BY <1>3, <1>7

LEMMA RegisteredTable ==
  ASSUME Ping!TableAssumption, NEW t \in Tables, NEW r \in Ping!Request, NEW u \in Ping!Registered(t, r)
  PROVE  /\ u \in Tables /\ Keys(u) \subseteq Keys(t) \cup {r} /\ r \in Keys(u)
         /\ LET before == Ping!Young(t)
                forgotten == {x \in before : Ping!Key(x) \notin Keys(u)}
            IN \A x \in forgotten : /\ forgotten = {x} /\ x \in Ping!Oldest(before)
                                    /\ Cardinality(before) > Limit
<1> DEFINE young == Ping!Young(t)
           new == [ident |-> r.ident, seq |-> r.seq, age |-> 0]
<1>1. young \in SUBSET t /\ IsFiniteSet(young) /\ Cardinality(young) \in Nat /\ Cardinality(young) <= Limit + 1
      /\ young \in Tables
  <2>1. young \in SUBSET t
    BY DEF Ping!Young
  <2>2. young \in Tables /\ Cardinality(young) \in Nat
    BY <2>1, SmallerTable
  <2> QED BY <2>1, <2>2 DEF Tables
<1>2. PICK room \in SUBSET young :
        /\ u = {x \in room : Ping!Key(x) # r} \cup {new}
        /\ Cardinality(room) <= Limit
        /\ \/ room = young
           \/ Cardinality(young) > Limit /\ \E o \in Ping!Oldest(young) : room = young \ {o}
  <2>1. CASE Cardinality(young) > Limit
    <3>1. PICK o \in Ping!Oldest(young) : u = {x \in young \ {o} : Ping!Key(x) # r} \cup {new}
      BY <2>1, TableCounting DEF Ping!Registered
    <3>2. o \in young
      BY DEF Ping!Oldest
    <3>3. Cardinality(young \ {o}) = Cardinality(young) - 1
      BY <1>1, <3>2, FS_RemoveElement
    <3> QED BY <1>1, <2>1, <3>1, <3>3, TableCounting
  <2>2. CASE ~(Cardinality(young) > Limit)
    <3>1. u = {x \in young : Ping!Key(x) # r} \cup {new}
      BY <2>2, TableCounting DEF Ping!Registered
    <3> QED BY <1>1, <2>2, <3>1, TableCounting
  <2> QED BY <2>1, <2>2
<1>3. new \in Entry /\ Ping!Key(new) = r
  BY TableCounting DEF Entry, Ping!Request, Ping!Ident, Ping!Key
<1> DEFINE kept == {x \in room : Ping!Key(x) # r}
<1>4. kept \in SUBSET room /\ kept \in SUBSET t /\ u = kept \cup {new}
  BY <1>1, <1>2
<1> HIDE DEF new
<1>5. IsFiniteSet(kept) /\ Cardinality(kept) \in Nat /\ Cardinality(kept) <= Limit
  <2>1. IsFiniteSet(room)
    BY <1>1, FS_Subset
  <2> HIDE DEF kept
  <2>2. IsFiniteSet(kept) /\ Cardinality(kept) <= Cardinality(room) /\ Cardinality(kept) \in Nat
        /\ Cardinality(room) \in Nat
    BY <1>4, <2>1, FS_Subset, FS_CardinalityType
  <2> QED BY <1>2, <2>2, TableCounting
<1>6. u \in Tables
  <2> HIDE DEF kept
  <2>1. IsFiniteSet(u) /\ Cardinality(u) <= Cardinality(kept) + 1 /\ Cardinality(u) \in Nat
    <3>1. /\ IsFiniteSet(kept \cup {new})
          /\ Cardinality(kept \cup {new}) = Cardinality(kept) \/ Cardinality(kept \cup {new}) = Cardinality(kept) + 1
      BY <1>5, FS_AddElement
    <3> QED BY <1>4, <1>5, <3>1
  <2>2. u \subseteq Entry
    BY <1>3, <1>4 DEF Tables
  <2> QED BY <1>5, <2>1, <2>2, TableCounting DEF Tables
<1>7. Keys(u) = Keys(kept) \cup {r}
  <2> HIDE DEF kept
  <2> QED BY <1>3, <1>4 DEF Keys
<1>8. Keys(u) \subseteq Keys(t) \cup {r} /\ r \in Keys(u)
  BY <1>4, <1>7 DEF Keys
<1>9. \A x \in room : Ping!Key(x) \in Keys(u)
  BY <1>7 DEF Keys
<1>10. ASSUME NEW x \in young, Ping!Key(x) \notin Keys(u)
       PROVE  /\ {y \in young : Ping!Key(y) \notin Keys(u)} = {x} /\ x \in Ping!Oldest(young)
              /\ Cardinality(young) > Limit
  BY <1>2, <1>9, <1>10
<1> QED BY <1>6, <1>8, <1>10

LEMMA InitPing == ASSUME Ping!TableAssumption, Ping!Init PROVE PingInv
<1> USE DEF Ping!Init
<1>1. Ping!Unused \in DestState /\ Ping!Unused.state = "unused"
  BY EmptyTable, TableCounting DEF Ping!Unused, DestState
<1>2. PingTypes
  BY <1>1, TableCounting DEF PingTypes
<1>3. OpenWaits /\ CacheTells
  BY <1>1 DEF OpenWaits, CacheTells
<1> QED BY <1>2, <1>3 DEF PingInv

(* A destination that is closed, by the cache or by its reader. *)
LEMMA ClosedOf ==
  ASSUME NEW s \in DestState
  PROVE  LET c == [s EXCEPT !.state = "closed", !.closed = TRUE]
         IN  c \in DestState /\ c.state = "closed"
  BY DEF DestState

LEMMA ReaderOf ==
  ASSUME NEW s \in DestState
  PROVE  /\ LET l == [s EXCEPT !.reader = "leaving"]
            IN  l \in DestState /\ l.state = s.state /\ l.requests = s.requests
                /\ (s.reader = "reading" /\ Tells(s) => Tells(l))
         /\ LET c == [s EXCEPT !.reader = "closing", !.state = "closed"]
            IN  c \in DestState /\ c.state = "closed" /\ Tells(c)
         /\ LET e == [s EXCEPT !.reader = "ended", !.closed = TRUE]
            IN  e \in DestState /\ e.state = s.state /\ e.requests = s.requests /\ Tells(e)
<1>1. LET l == [s EXCEPT !.reader = "leaving"]
      IN  l \in DestState /\ l.state = s.state /\ l.requests = s.requests /\ l.closed = s.closed
  BY DEF DestState
<1>2. LET c == [s EXCEPT !.reader = "closing", !.state = "closed"]
      IN  c \in DestState /\ c.state = "closed" /\ c.reader = "closing"
  BY DEF DestState
<1>3. LET e == [s EXCEPT !.reader = "ended", !.closed = TRUE]
      IN  e \in DestState /\ e.state = s.state /\ e.requests = s.requests /\ e.closed = TRUE
  BY DEF DestState
<1> QED BY <1>1, <1>2, <1>3 DEF Tells

LEMMA TableOf ==
  ASSUME Ping!TableAssumption, NEW s \in DestState, NEW i \in 0 .. Timeout, NEW t \in Tables
  PROVE  /\ [s EXCEPT !.idle = i, !.requests = t] \in DestState
         /\ [s EXCEPT !.idle = i, !.requests = t].state = s.state
         /\ [s EXCEPT !.idle = i, !.requests = t].requests = t
         /\ Tells(s) => Tells([s EXCEPT !.idle = i, !.requests = t])
<1>1. LET u == [s EXCEPT !.idle = i, !.requests = t]
      IN  u \in DestState /\ u.state = s.state /\ u.requests = t /\ u.reader = s.reader /\ u.closed = s.closed
  BY DEF DestState
<1> QED BY <1>1 DEF Tells

LEMMA UsedNow ==
  ASSUME Ping!TableAssumption, NEW s \in DestState, NEW t \in Tables
  PROVE  /\ [s EXCEPT !.idle = 0, !.requests = t] \in DestState
         /\ [s EXCEPT !.idle = 0, !.requests = t].state = s.state
         /\ [s EXCEPT !.idle = 0, !.requests = t].requests = t
         /\ Tells(s) => Tells([s EXCEPT !.idle = 0, !.requests = t])
<1>1. 0 \in 0 .. Timeout
  BY TableCounting
<1> QED BY <1>1, TableOf

(* One destination changes and the cache does not; only the reader of the   *)
(* open one may forget what was asked.                                      *)
LEMMA DestKeeps ==
  ASSUME PingInv, NEW d \in Dest, NEW s \in DestState, dest' = [dest EXCEPT ![d] = s],
         UNCHANGED cache, owed' = TRUE, asked' \in SUBSET Ping!Request,
         writes' \in SUBSET Writes,
         wire' \in SUBSET [to : Dest, ident : 0 .. 1, seq : Seqs],
         s.state = "open" => dest[d].state = "open" /\ Keys(s.requests) \subseteq asked',
         asked \subseteq asked' \/ dest[d].state = "open", Tells(dest[d]) => Tells(s)
  PROVE  PingInv'
<1>1. PingTypes'
  BY DEF PingInv, PingTypes
<1>2. dest'[d] = s /\ (\A e \in Dest \ {d} : dest'[e] = dest[e]) /\ cache.dest \in Dest \cup {None}
  BY DEF PingInv, PingTypes
<1>3. OpenWaits'
  BY <1>2 DEF PingInv, OpenWaits
<1>4. CacheTells'
  BY <1>2 DEF PingInv, CacheTells
<1> QED BY <1>1, <1>3, <1>4 DEF PingInv

(* Dropped: the destination in the cache is closed, so that none is open.   *)
LEMMA DroppedCloses ==
  ASSUME PingInv, Ping!TableAssumption
  PROVE  /\ Ping!Dropped(cache.dest) \in [Dest -> DestState]
         /\ \A d \in Dest : Ping!Dropped(cache.dest)[d].state # "open"
<1>1. dest \in [Dest -> DestState] /\ cache.dest \in Dest \cup {None} /\ None \notin Dest
  BY TableCounting DEF PingInv, PingTypes
<1>2. \A d \in Dest : d # cache.dest => dest[d].state # "open"
  BY DEF PingInv, OpenWaits
<1>3. CASE cache.dest = None
  BY <1>1, <1>2, <1>3 DEF Ping!Dropped
<1>4. CASE cache.dest # None
  <2> DEFINE c == cache.dest
             s == [dest[c] EXCEPT !.state = "closed", !.closed = TRUE]
  <2>1. c \in Dest /\ s \in DestState /\ s.state = "closed"
    BY <1>1, <1>4, ClosedOf
  <2>2. Ping!Dropped(c) = [dest EXCEPT ![c] = s]
    BY <1>4 DEF Ping!Dropped, Ping!Closed
  <2> HIDE DEF s, c
  <2>3. [dest EXCEPT ![c] = s] \in [Dest -> DestState]
        /\ \A d \in Dest : [dest EXCEPT ![c] = s][d] = IF d = c THEN s ELSE dest[d]
    BY <1>1, <2>1
  <2> QED BY <1>2, <2>1, <2>2, <2>3 DEF c
<1> QED BY <1>3, <1>4

LEMMA LookupKeeps ==
  ASSUME Ping!TableAssumption, PingInv, NEW r \in Ping!Request, Ping!Lookup(r)
  PROVE  PingInv' /\ Ping!RequestsFindTheirWay
<1>0. PingTypes /\ OpenWaits /\ CacheTells
  BY DEF PingInv
<1>1. wire' \in SUBSET [to : Dest, ident : 0 .. 1, seq : Seqs] /\ asked' = asked /\ owed' = owed
  BY <1>0 DEF PingTypes, Ping!Lookup
<1>2. SUFFICES ASSUME NEW d \in Dest, writes' = writes \cup {[dest |-> d, request |-> r]},
                      \/ /\ Ping!Usable /\ d = cache.dest /\ cache' = [cache EXCEPT !.age = 0] /\ UNCHANGED dest
                      \/ /\ cache' = [dest |-> d, age |-> 0]
                         /\ dest' = [Ping!Dropped(cache.dest) EXCEPT
                              ![d] = [state |-> "open", closed |-> FALSE, idle |-> 0, requests |-> {},
                                      reader |-> "reading"]]
               PROVE  PingInv' /\ (dest'[d].state = "open" \/ dest'[d].reader = "closing")
  <2>1. CASE \E d \in Dest :
               /\ writes' = writes \cup {[dest |-> d, request |-> r]}
               /\ PingInv' /\ (dest'[d].state = "open" \/ dest'[d].reader = "closing")
    <3>1. PICK d \in Dest : /\ writes' = writes \cup {[dest |-> d, request |-> r]}
                            /\ PingInv' /\ (dest'[d].state = "open" \/ dest'[d].reader = "closing")
      BY <2>1
    <3>2. /\ writes \ writes' = {}
          /\ \A w \in writes' \ writes : w.dest = d
      BY <3>1
    <3> QED BY <3>1, <3>2 DEF Ping!RequestsFindTheirWay, Ping!LookupIsOpen, Ping!LatestIsKnown
  <2>2. cache.dest # None => cache.dest \in Dest
    BY <1>0 DEF PingTypes
  <2>3. Ping!Usable => cache.dest # None
    BY DEF Ping!Usable
  <2> QED BY <2>1, <2>2, <2>3 DEF Ping!Lookup
<1>3. writes' \in SUBSET Writes
  BY <1>0, <1>2 DEF PingTypes, Writes
<1>4. CASE Ping!Usable /\ d = cache.dest /\ cache' = [cache EXCEPT !.age = 0] /\ UNCHANGED dest
  <2>1. cache'.dest = cache.dest /\ cache' \in [dest : Dest \cup {None}, age : 0 .. Timeout]
    BY <1>0, <1>4, TableCounting DEF PingTypes
  <2>2. PingTypes'
    BY <1>0, <1>1, <1>3, <1>4, <2>1 DEF PingTypes
  <2>3. OpenWaits' /\ CacheTells'
    BY <1>0, <1>1, <1>4, <2>1 DEF OpenWaits, CacheTells
  <2>4. dest[d].state = "open" \/ dest[d].reader = "closing"
    BY <1>0, <1>4 DEF CacheTells, Tells, Ping!Usable
  <2>5. PingInv'
    BY <1>1, <2>2, <2>3 DEF PingInv
  <2> QED BY <1>4, <2>4, <2>5
<1>5. CASE /\ cache' = [dest |-> d, age |-> 0]
           /\ dest' = [Ping!Dropped(cache.dest) EXCEPT
                ![d] = [state |-> "open", closed |-> FALSE, idle |-> 0, requests |-> {}, reader |-> "reading"]]
  <2> DEFINE s == [state |-> "open", closed |-> FALSE, idle |-> 0, requests |-> {}, reader |-> "reading"]
             D == Ping!Dropped(cache.dest)
  <2>1. s \in DestState /\ s.state = "open" /\ s.requests = {}
    BY EmptyTable, TableCounting DEF DestState
  <2>2. D \in [Dest -> DestState] /\ \A e \in Dest : D[e].state # "open"
    BY DroppedCloses
  <2>3. dest' = [D EXCEPT ![d] = s]
    BY <1>5
  <2> HIDE DEF s, D
  <2>4. dest' \in [Dest -> DestState] /\ dest'[d] = s /\ \A e \in Dest \ {d} : dest'[e] = D[e]
    BY <2>1, <2>2, <2>3
  <2>5. cache' \in [dest : Dest \cup {None}, age : 0 .. Timeout] /\ cache'.dest = d
    BY <1>5, TableCounting
  <2>6. PingTypes'
    BY <1>0, <1>1, <1>3, <2>4, <2>5 DEF PingTypes
  <2>7. OpenWaits'
    BY <2>1, <2>2, <2>4, <2>5, EmptyTable DEF OpenWaits
  <2>8. CacheTells'
    BY <2>1, <2>4, <2>5 DEF CacheTells, Tells
  <2>9. PingInv'
    BY <1>1, <2>6, <2>7, <2>8 DEF PingInv
  <2> QED BY <2>1, <2>4, <2>9
<1> QED BY <1>2, <1>4, <1>5

LEMMA EvictKeeps ==
  ASSUME Ping!TableAssumption, PingInv, Ping!LookupFails \/ Ping!Evict PROVE PingInv' /\ writes' = writes
<1>1. /\ dest' = Ping!Dropped(cache.dest) /\ cache' = [cache EXCEPT !.dest = None]
      /\ UNCHANGED <<writes, wire, asked, owed>>
  BY DEF Ping!LookupFails, Ping!Evict
<1>2. dest' \in [Dest -> DestState] /\ \A d \in Dest : dest'[d].state # "open"
  BY <1>1, DroppedCloses
<1>3. cache' \in [dest : Dest \cup {None}, age : 0 .. Timeout] /\ cache'.dest = None
  BY <1>1 DEF PingInv, PingTypes
<1>4. PingTypes'
  BY <1>1, <1>2, <1>3 DEF PingInv, PingTypes
<1>5. OpenWaits' /\ CacheTells'
  BY <1>2, <1>3 DEF OpenWaits, CacheTells
<1> QED BY <1>1, <1>4, <1>5 DEF PingInv

LEMMA WritePacketKeeps ==
  ASSUME Ping!TableAssumption, PingInv, NEW k \in writes, NEW answers \in BOOLEAN, Ping!WritePacket(k, answers)
  PROVE  PingInv' /\ Ping!RequestsFindTheirWay
<1> DEFINE d == k.dest
           r == k.request
           t == dest[d].requests
<1>1. d \in Dest /\ r \in Ping!Request /\ dest[d] \in DestState /\ t \in Tables
  <2>1. k \in Writes /\ dest \in [Dest -> DestState]
    BY DEF PingInv, PingTypes
  <2> QED BY <2>1 DEF DestState, Writes
<1>2. PICK u \in Ping!Registered(t, r) : dest' = [dest EXCEPT ![d].idle = 0, ![d].requests = u]
  BY DEF Ping!WritePacket
<1>3. /\ writes' = writes \ {k} /\ asked' = asked \cup {r} /\ UNCHANGED <<cache, owed>>
      /\ wire' = wire \/ wire' = wire \cup {[to |-> d, ident |-> Ping!ToWire(r).ident, seq |-> Ping!ToWire(r).seq]}
  BY DEF Ping!WritePacket
<1>4. [to |-> d, ident |-> Ping!ToWire(r).ident, seq |-> Ping!ToWire(r).seq] \in [to : Dest, ident : 0 .. 1, seq : Seqs]
  BY <1>1 DEF Ping!ToWire, Ping!Flip, Ping!Request, Ping!Ident
<1> HIDE DEF d, r, t
<1> DEFINE s == [dest[d] EXCEPT !.idle = 0, !.requests = u]
<1>5. u \in Tables /\ Keys(u) \subseteq Keys(t) \cup {r}
  BY <1>1, <1>2, RegisteredTable
<1>6. s \in DestState /\ s.state = dest[d].state /\ s.requests = u /\ (Tells(dest[d]) => Tells(s))
  BY <1>1, <1>5, UsedNow
<1>7. dest' = [dest EXCEPT ![d] = s]
  BY <1>1, <1>2 DEF PingInv, PingTypes
<1> HIDE DEF s
<1>8. PingInv'
  <2>1. wire' \in SUBSET [to : Dest, ident : 0 .. 1, seq : Seqs] /\ asked' \in SUBSET Ping!Request /\ owed' = TRUE
        /\ writes' \in SUBSET Writes
    BY <1>1, <1>3, <1>4 DEF PingInv, PingTypes
  <2>2. s.state = "open" => Keys(s.requests) \subseteq asked'
    BY <1>1, <1>3, <1>5, <1>6 DEF PingInv, OpenWaits, t
  <2> QED BY <1>1, <1>3, <1>6, <1>7, <2>1, <2>2, DestKeeps
<1>9. Ping!LatestIsKnown
  <2>1. dest'[d].requests = u
    BY <1>1, <1>6, <1>7 DEF PingInv, PingTypes
  <2>2. /\ r \in Keys(u)
        /\ \A x \in {x \in Ping!Young(t) : Ping!Key(x) \notin Keys(u)} :
             /\ {y \in Ping!Young(t) : Ping!Key(y) \notin Keys(u)} = {x} /\ x \in Ping!Oldest(Ping!Young(t))
             /\ Cardinality(Ping!Young(t)) > Limit
    BY <1>1, <1>2, RegisteredTable
  <2>3. \A w \in writes \ writes' : w = k
    BY <1>3
  <2> QED BY <2>1, <2>2, <2>3, TableCounting DEF Ping!LatestIsKnown, Keys, d, r, t
<1>10. Ping!LookupIsOpen
  BY <1>3 DEF Ping!LookupIsOpen
<1> QED BY <1>8, <1>9, <1>10 DEF Ping!RequestsFindTheirWay

LEMMA ForeignReplyKeeps ==
  ASSUME PingInv, NEW d \in Dest, NEW r \in Ping!Request, Ping!ForeignReply(d, r) PROVE PingInv' /\ writes' = writes
<1>1. [to |-> d, ident |-> r.ident, seq |-> r.seq] \in [to : Dest, ident : 0 .. 1, seq : Seqs]
  BY DEF Ping!Request, Ping!Ident
<1>2. PingTypes' /\ OpenWaits' /\ CacheTells'
  BY <1>1 DEF Ping!ForeignReply, PingInv, PingTypes, OpenWaits, CacheTells
<1> QED BY <1>2 DEF Ping!ForeignReply, PingInv

LEMMA ReadKeeps ==
  ASSUME Ping!TableAssumption, PingInv, NEW w \in wire, Ping!Read(w) PROVE PingInv' /\ writes' = writes
<1> DEFINE d == w.to
           r == Ping!FromWire(w)
           t == dest[d].requests
           u == Ping!Answered(t, r)
           s == [dest[d] EXCEPT !.idle = 0, !.requests = u]
<1>1. d \in Dest /\ dest[d].state = "open" /\ wire' = wire \ {w} /\ UNCHANGED <<cache, writes>>
  BY DEF Ping!Read, PingInv, PingTypes
<1>2. dest[d] \in DestState /\ t \in Tables
  <2>1. dest[d] \in DestState
    BY <1>1 DEF PingInv, PingTypes
  <2> QED BY <2>1 DEF DestState
<1>3. u \in Tables /\ Keys(u) \subseteq Keys(t) \ {r}
  BY <1>2, AnsweredTable
<1>4. s \in DestState /\ s.state = "open" /\ s.requests = u /\ (Tells(dest[d]) => Tells(s))
  <2> HIDE DEF u, t, d
  <2> QED BY <1>1, <1>2, <1>3, UsedNow
<1>5. Keys(t) \subseteq asked
  BY <1>1 DEF PingInv, OpenWaits
<1>6. CASE \E x \in t : Ping!Key(x) = r
  <2>1. dest' = [dest EXCEPT ![d].idle = 0, ![d].requests = u] /\ asked' = asked \ {r} /\ owed' = (r \in asked)
    BY <1>1, <1>2, <1>6 DEF Ping!Read, PingInv, PingTypes
  <2>2. dest' = [dest EXCEPT ![d] = s]
    BY <1>1, <2>1 DEF PingInv, PingTypes
  <2>3. r \in asked
    BY <1>5, <1>6 DEF Keys
  <2>4. Keys(s.requests) \subseteq asked'
    BY <1>3, <1>4, <1>5, <2>1
  <2>5. /\ owed' = TRUE /\ asked' \in SUBSET Ping!Request
        /\ wire' \in SUBSET [to : Dest, ident : 0 .. 1, seq : Seqs]
        /\ writes' \in SUBSET Writes
    BY <1>1, <2>1, <2>3 DEF PingInv, PingTypes
  <2> HIDE DEF s, u, t, r, d
  <2> QED BY <1>1, <1>4, <2>2, <2>4, <2>5, DestKeeps
<1>7. CASE ~\E x \in t : Ping!Key(x) = r
  <2>1. UNCHANGED <<dest, asked, owed>>
    BY <1>7 DEF Ping!Read
  <2>2. PingTypes' /\ OpenWaits' /\ CacheTells'
    BY <1>1, <2>1 DEF PingInv, PingTypes, OpenWaits, CacheTells
  <2> QED BY <1>1, <2>1, <2>2 DEF PingInv
<1> QED BY <1>6, <1>7

LEMMA ReaderKeeps ==
  ASSUME PingInv, NEW d \in Dest, Ping!ReaderStep(d) \/ Ping!ReadFails(d) PROVE PingInv' /\ writes' = writes
<1> USE DEF Ping!Leave, Ping!ReadFails, Ping!CloseSocket, Ping!StoreClosed
<1>1. UNCHANGED <<cache, writes, wire, asked, owed>>
  BY DEF Ping!ReaderStep
<1>2. dest[d] \in DestState /\ dest \in [Dest -> DestState]
  BY DEF PingInv, PingTypes
<1>3. PICK s \in DestState : /\ dest' = [dest EXCEPT ![d] = s]
                             /\ s.state = "closed" \/ (s.state = dest[d].state /\ s.requests = dest[d].requests)
                             /\ Tells(dest[d]) => Tells(s)
  <2>1. CASE Ping!Leave(d) \/ Ping!ReadFails(d)
    <3> DEFINE l == [dest[d] EXCEPT !.reader = "leaving"]
    <3>1. dest' = [dest EXCEPT ![d] = l] /\ dest[d].reader = "reading"
      BY <1>2, <2>1
    <3>2. l \in DestState /\ l.state = dest[d].state /\ l.requests = dest[d].requests
          /\ (Tells(dest[d]) => Tells(l))
      BY <1>2, <3>1, ReaderOf
    <3> HIDE DEF l
    <3> QED BY <3>1, <3>2
  <2>2. CASE Ping!CloseSocket(d)
    <3> DEFINE l == [dest[d] EXCEPT !.reader = "closing", !.state = "closed"]
    <3>1. dest' = [dest EXCEPT ![d] = l]
      BY <1>2, <2>2
    <3>2. l \in DestState /\ l.state = "closed" /\ Tells(l)
      BY <1>2, ReaderOf
    <3> HIDE DEF l
    <3> QED BY <3>1, <3>2
  <2>3. CASE Ping!StoreClosed(d)
    <3> DEFINE l == [dest[d] EXCEPT !.reader = "ended", !.closed = TRUE]
    <3>1. dest' = [dest EXCEPT ![d] = l]
      BY <1>2, <2>3
    <3>2. l \in DestState /\ l.state = dest[d].state /\ l.requests = dest[d].requests /\ Tells(l)
      BY <1>2, ReaderOf
    <3> HIDE DEF l
    <3> QED BY <3>1, <3>2
  <2> QED BY <2>1, <2>2, <2>3 DEF Ping!ReaderStep
<1>4. s.state = "open" => dest[d].state = "open" /\ Keys(s.requests) \subseteq asked'
  BY <1>1, <1>3 DEF PingInv, OpenWaits
<1>5. /\ writes' \in SUBSET Writes
      /\ wire' \in SUBSET [to : Dest, ident : 0 .. 1, seq : Seqs]
      /\ asked' \in SUBSET Ping!Request /\ owed' = TRUE
  BY <1>1 DEF PingInv, PingTypes
<1> QED BY <1>1, <1>3, <1>4, <1>5, DestKeeps

LEMMA TickKeeps == ASSUME Ping!TableAssumption, PingInv, Ping!Tick PROVE PingInv' /\ writes' = writes
<1> DEFINE aged(t) == {[x EXCEPT !.age = Ping!Older(@, Timeout + 1)] : x \in t}
           older(s) == [s EXCEPT !.idle = Ping!Older(s.idle, Timeout), !.requests = aged(s.requests)]
<1>1. /\ cache' = [cache EXCEPT !.age = Ping!Older(cache.age, Timeout)]
      /\ dest' = [d \in Dest |-> older(dest[d])] /\ UNCHANGED <<writes, wire, asked, owed>>
  BY DEF Ping!Tick
<1>2. ASSUME NEW s \in DestState
      PROVE  /\ older(s) \in DestState /\ older(s).state = s.state /\ Keys(older(s).requests) = Keys(s.requests)
             /\ Tells(s) => Tells(older(s))
  <2>1. s.requests \in Tables /\ s.idle \in 0 .. Timeout
    BY DEF DestState
  <2>2. aged(s.requests) \in Tables /\ Keys(aged(s.requests)) = Keys(s.requests)
    BY <2>1, OlderTable
  <2>3. Ping!Older(s.idle, Timeout) \in 0 .. Timeout
    BY <2>1, TableCounting DEF Ping!Older
  <2> HIDE DEF aged
  <2> QED BY <2>2, <2>3, TableOf
<1> HIDE DEF older
<1>3. cache' \in [dest : Dest \cup {None}, age : 0 .. Timeout] /\ cache'.dest = cache.dest
  BY <1>1, TableCounting DEF PingInv, PingTypes, Ping!Older
<1>4. PingTypes'
  BY <1>1, <1>2, <1>3 DEF PingInv, PingTypes
<1>5. OpenWaits'
  BY <1>1, <1>2, <1>3 DEF PingInv, PingTypes, OpenWaits
<1>6. CacheTells'
  <2>1. cache.dest \in Dest \cup {None} /\ dest \in [Dest -> DestState] /\ CacheTells
    BY DEF PingInv, PingTypes
  <2>2. ASSUME cache.dest # None PROVE Tells(dest[cache.dest]) /\ dest'[cache.dest] = older(dest[cache.dest])
    BY <1>1, <2>1, <2>2 DEF CacheTells
  <2> QED BY <1>2, <1>3, <2>1, <2>2 DEF CacheTells
<1> QED BY <1>1, <1>4, <1>5, <1>6 DEF PingInv

LEMMA PingStep ==
  ASSUME Ping!TableAssumption, PingInv, [Ping!Next]_(Ping!vars)
  PROVE  PingInv' /\ Ping!RequestsFindTheirWay
<1> USE DEF Ping!RequestsFindTheirWay
<1>1. ASSUME writes' = writes PROVE Ping!RequestsFindTheirWay
  BY <1>1 DEF Ping!LookupIsOpen, Ping!LatestIsKnown
<1>2. CASE UNCHANGED Ping!vars
  <2>1. UNCHANGED <<cache, dest, writes, wire, asked, owed>>
    BY <1>2 DEF Ping!vars
  <2>2. PingInv'
    BY <2>1 DEF PingInv, PingTypes, OpenWaits, CacheTells
  <2> QED BY <1>1, <2>1, <2>2
<1>3. CASE \E r \in Ping!Request : Ping!Lookup(r)
  BY <1>3, LookupKeeps
<1>4. CASE Ping!LookupFails \/ Ping!Evict \/ Ping!Tick
  BY <1>1, <1>4, EvictKeeps, TickKeeps
<1>5. CASE \E k \in writes, answers \in BOOLEAN : Ping!WritePacket(k, answers)
  BY <1>5, WritePacketKeeps
<1>6. CASE \E d \in Dest, r \in Ping!Request : Ping!ForeignReply(d, r)
  BY <1>1, <1>6, ForeignReplyKeeps
<1>7. CASE \E w \in wire : Ping!Read(w)
  BY <1>1, <1>7, ReadKeeps
<1>8. CASE \E d \in Dest : Ping!ReaderStep(d) \/ Ping!ReadFails(d)
  BY <1>1, <1>8, ReaderKeeps
<1> QED BY <1>2, <1>3, <1>4, <1>5, <1>6, <1>7, <1>8 DEF Ping!Next

LEMMA PingHolds ==
  ASSUME Ping!TableAssumption, PingInv
  PROVE  Ping!TypeOK /\ Ping!NothingLeaks /\ Ping!PingsAnsweredRight
<1>1. \A d \in Dest : /\ dest[d] \in DestState /\ dest[d].requests \in Tables
                      /\ Ping!Cardinality(dest[d].requests) <= Limit + 1
  <2>1. \A d \in Dest : dest[d] \in DestState /\ dest[d].requests \in Tables
    BY DEF PingInv, PingTypes, DestState
  <2> QED BY <2>1, TableCounting DEF Tables
<1>2. Ping!TypeOK
  BY <1>1 DEF PingInv, PingTypes, DestState, Writes, Tables, Entry, Ping!TypeOK, Ping!Ident
<1>3. Ping!NothingLeaks
  BY DEF PingInv, OpenWaits, Ping!NothingLeaks
<1>4. Ping!PingsAnsweredRight
  BY <1>1 DEF PingInv, Ping!PingsAnsweredRight, Ping!RequestsBounded, Ping!AnsweredOnce
<1> QED BY <1>2, <1>3, <1>4

LEMMA PingInvariant == Spec => [](PingPart => PingInv)
<1> USE TablesAssumed
<1>1. Ping!Init => PingInv
  BY InitPing
<1>2. PingInv /\ [Ping!Next]_(Ping!vars) => PingInv'
  BY PingStep
<1>3. Init => (PingPart => PingInv)
  BY <1>1 DEF Init, PingPart
<1>4. (PingPart => PingInv) /\ [Next]_vars => (PingPart => PingInv)'
  <2> SUFFICES ASSUME PingPart => PingInv, [Next]_vars, PingPart' PROVE PingInv'
    OBVIOUS
  <2>1. PingPart /\ [Ping!Next]_(Ping!vars)
    BY DEF PingPart, Next, vars, Ping!vars,
           cache, dest, wire, asked, owed, writes
  <2> QED BY <1>2, <2>1
<1> QED BY <1>3, <1>4, PTL DEF Spec

-----------------------------------------------------------------------------
(* TunLoops (the loops that read the device).  The argument: a batch holds  *)
(* the last packets read, in order; what was written and what waits in      *)
(* the queue are, one after the other, the packets to go back among those   *)
(* processed, and a borrowed buffer was released when its packet is         *)
(* processed and not in the queue.                                          *)
\* Sequences of numbers, their elements and their order
Members(s) == {s[i] : i \in 1 .. Len(s)}
Ascends(s) == \A i, j \in 1 .. Len(s) : i < j => s[i] < s[j]
AllBelow(s, t) == \A x \in Members(s), y \in Members(t) : x < y

Verdicts == {"short", "back", "consumed"}
Processed == seen - Len(batch)

LoopTypes ==
  /\ loop \in LoopKinds /\ stack \in {"system", "mixed", "mipstack"} /\ device \in {"open", "closed"}
  /\ pc \in {"read", "process", "write", "ended"} /\ seen \in 0 .. MaxPackets
  /\ packet \in [1 .. seen -> Verdicts] /\ released \in [1 .. seen -> 0 .. 1]
  /\ batch \in Seq(Nat) /\ queue \in Seq(Nat) /\ written \in Seq(Nat)

LoopPlace ==
  /\ Len(batch) <= seen /\ \A k \in 1 .. Len(batch) : batch[k] = Processed + k
  /\ pc # "process" => batch = <<>>
  /\ (pc \notin {"process", "write"} \/ ~Loops!Batching) => queue = <<>>
  /\ (pc = "ended" \/ failed) => (device = "closed" \/ loop = "wintun")

LoopOrder ==
  /\ Ascends(written) /\ Ascends(queue) /\ AllBelow(written, queue)
  /\ Members(written) \cup Members(queue) = {p \in 1 .. Processed : packet[p] = "back"}

LoopBuffers ==
  \A p \in 1 .. seen : released[p] = 1 <=> Loops!Borrowed /\ p <= Processed /\ p \notin Members(queue)

LoopInv == LoopTypes /\ LoopPlace /\ LoopOrder /\ LoopBuffers /\ failed \in BOOLEAN

LEMMA AppendAscends ==
  ASSUME NEW s \in Seq(Nat), NEW p \in Nat, Ascends(s), \A x \in Members(s) : x < p
  PROVE  Append(s, p) \in Seq(Nat) /\ Ascends(Append(s, p)) /\ Members(Append(s, p)) = Members(s) \cup {p}
<1>1. /\ Append(s, p) \in Seq(Nat) /\ Len(Append(s, p)) = Len(s) + 1 /\ Append(s, p)[Len(s) + 1] = p
      /\ \A i \in 1 .. Len(s) : Append(s, p)[i] = s[i]
  OBVIOUS
<1>2. \A i \in 1 .. Len(s) : s[i] < p /\ s[i] \in Nat
  BY DEF Members
<1> DEFINE t == Append(s, p)
<1> HIDE DEF t
<1>3. Ascends(t)
  BY <1>1, <1>2 DEF Ascends, t
<1>4. Members(t) = Members(s) \cup {p}
  BY <1>1 DEF Members, t
<1> QED BY <1>1, <1>3, <1>4 DEF t

LEMMA ConcatAscends ==
  ASSUME NEW s \in Seq(Nat), NEW q \in Seq(Nat), Ascends(s), Ascends(q), AllBelow(s, q)
  PROVE  s \o q \in Seq(Nat) /\ Ascends(s \o q) /\ Members(s \o q) = Members(s) \cup Members(q)
<1> DEFINE t == s \o q
           m == Len(s)
           n == Len(q)
<1>0. /\ t \in Seq(Nat) /\ Len(t) = m + n /\ m \in Nat /\ n \in Nat
      /\ \A i \in 1 .. m + n : t[i] = IF i <= m THEN s[i] ELSE q[i - m]
  BY ConcatProperties
<1> HIDE DEF t, m, n
<1>1. /\ \A i \in 1 .. m : i \in 1 .. m + n /\ t[i] = s[i]
      /\ \A i \in 1 .. n : m + i \in 1 .. m + n /\ t[m + i] = q[i]
      /\ \A i \in 1 .. m + n : i \in 1 .. m \/ \E j \in 1 .. n : i = m + j
  <2>1. ASSUME NEW i \in 1 .. m PROVE i \in 1 .. m + n /\ t[i] = s[i]
    BY <1>0
  <2>2. ASSUME NEW i \in 1 .. n PROVE m + i \in 1 .. m + n /\ t[m + i] = q[i]
    <3>1. m + i \in 1 .. m + n /\ ~(m + i <= m) /\ (m + i) - m = i
      BY <1>0
    <3> QED BY <1>0, <3>1
  <2>3. ASSUME NEW i \in 1 .. m + n, i \notin 1 .. m PROVE \E j \in 1 .. n : i = m + j
    <3>1. i - m \in 1 .. n /\ i = m + (i - m)
      BY <1>0, <2>3
    <3> QED BY <3>1
  <2> QED BY <2>1, <2>2, <2>3
<1>2. \A i \in 1 .. m, j \in 1 .. n : s[i] < q[j]
  BY DEF AllBelow, Members, m, n
<1>3. Ascends(t)
  <2> SUFFICES ASSUME NEW i \in 1 .. m + n, NEW j \in 1 .. m + n, i < j PROVE t[i] < t[j]
    BY <1>0 DEF Ascends
  <2>1. CASE j \in 1 .. m
    <3>1. i \in 1 .. m
      BY <1>0, <2>1
    <3> QED BY <1>1, <2>1, <3>1 DEF Ascends, m
  <2>2. CASE i \in 1 .. m /\ j \notin 1 .. m
    BY <1>1, <1>2, <2>2
  <2>3. CASE i \notin 1 .. m
    <3>1. PICK k \in 1 .. n : i = m + k
      BY <1>1, <2>3
    <3>2. PICK l \in 1 .. n : j = m + l
      BY <1>0, <1>1, <2>3
    <3>3. k < l
      BY <1>0, <3>1, <3>2
    <3> QED BY <1>1, <3>1, <3>2, <3>3 DEF Ascends, n
  <2> QED BY <2>1, <2>2, <2>3
<1>4. Members(t) = Members(s) \cup Members(q)
  <2>1. /\ Members(t) = {t[i] : i \in 1 .. m + n}
        /\ Members(s) = {s[i] : i \in 1 .. m} /\ Members(q) = {q[i] : i \in 1 .. n}
    BY <1>0 DEF Members, m, n
  <2>2. ASSUME NEW i \in 1 .. m + n PROVE t[i] \in Members(s) \cup Members(q)
    BY <1>1, <2>1
  <2>3. ASSUME NEW i \in 1 .. m PROVE s[i] \in Members(t)
    BY <1>1, <2>1
  <2>4. ASSUME NEW i \in 1 .. n PROVE q[i] \in Members(t)
    BY <1>1, <2>1
  <2> QED BY <2>1, <2>2, <2>3, <2>4
<1> QED BY <1>0, <1>3, <1>4 DEF t

LEMMA NoMembers == Members(<<>>) = {} /\ Ascends(<<>>) /\ \A s : AllBelow(s, <<>>) /\ AllBelow(<<>>, s)
  BY DEF Members, Ascends, AllBelow

LEMMA InitLoop == ASSUME Loops!LoopAssumption, Loops!Init PROVE LoopInv
<1> USE DEF Loops!Init
<1>1. /\ packet \in [1 .. seen -> Verdicts] /\ released \in [1 .. seen -> 0 .. 1]
      /\ batch \in Seq(Nat) /\ queue \in Seq(Nat) /\ written \in Seq(Nat) /\ Len(batch) = 0
  OBVIOUS
<1>2. LoopTypes
  BY <1>1 DEF LoopTypes, Loops!LoopAssumption
<1>3. failed \in BOOLEAN
  BY Zenon
<1>4. LoopPlace
  BY <1>1 DEF LoopPlace
<1>5. LoopOrder
  BY <1>1, NoMembers DEF LoopOrder, Processed
<1>6. LoopBuffers
  BY DEF LoopBuffers
<1> QED BY <1>2, <1>3, <1>4, <1>5, <1>6 DEF LoopInv

\* Functions that are sequences of length n; h is f and then g
Row(S, n) == [1 .. n -> S]
Joins(h, f, g) == h = f \o g

LEMMA LongerFunction ==
  ASSUME NEW S, NEW n \in Nat, NEW m \in Nat, NEW f \in Row(S, n), NEW g \in Row(S, m), NEW h, Joins(h, f, g)
  PROVE  /\ h \in Row(S, n + m) /\ \A i \in 1 .. n : h[i] = f[i]
         /\ \A i \in n + 1 .. n + m : h[i] = g[i - n]
<1>1. f \in Seq(S) /\ g \in Seq(S) /\ Len(f) = n /\ Len(g) = m
  BY SeqDef DEF Row
<1>2. /\ h \in Seq(S) /\ Len(h) = n + m
      /\ \A i \in 1 .. n + m : h[i] = IF i <= n THEN f[i] ELSE g[i - n]
  BY <1>1, ConcatProperties DEF Joins
<1>3. h \in Row(S, n + m)
  BY <1>2, LenProperties DEF Row
<1>4. \A i \in 1 .. n : h[i] = f[i]
  BY <1>2
<1>5. \A i \in n + 1 .. n + m : h[i] = g[i - n]
  BY <1>2
<1> QED BY <1>3, <1>4, <1>5

LEMMA LoopReadKeeps == ASSUME Loops!LoopAssumption, LoopInv, Loops!Read PROVE LoopInv'
<1>0. LoopTypes /\ LoopPlace /\ LoopOrder /\ LoopBuffers
  BY DEF LoopInv
<1>1. PICK n \in 0 .. MaxBatch, err \in {"none", "other", "closed"} :
      \E kinds \in [1 .. n -> Verdicts] :
        /\ pc = "read" /\ seen + n <= MaxPackets /\ (~Loops!Batching => n <= 1)
        /\ (err = "closed") = (device = "closed") /\ (err = "closed" => n = 0)
        /\ (loop = "wintun" => (n = 1) = (err = "none"))
        /\ seen' = seen + n /\ packet' = packet \o kinds /\ released' = released \o [k \in 1 .. n |-> 0]
        /\ batch' = [k \in 1 .. n |-> seen + k] /\ failed' = (err # "none" /\ Loops!Fatal(err))
        /\ pc' = IF failed' THEN (IF stack = "mipstack" /\ n > 0 THEN "process" ELSE "ended")
                 ELSE IF n = 0 THEN "read" ELSE "process"
        /\ UNCHANGED <<loop, stack, device, queue, written>>
  BY DEF Loops!Read, Verdicts
<1>2. PICK kinds \in [1 .. n -> Verdicts] : packet' = packet \o kinds
  BY <1>1
<1>3. seen \in Nat /\ n \in Nat /\ seen' = seen + n /\ batch = <<>> /\ queue = <<>> /\ pc = "read"
      /\ seen' \in 0 .. MaxPackets
  BY <1>0, <1>1 DEF LoopTypes, LoopPlace, Loops!LoopAssumption
<1>4. packet' \in [1 .. seen' -> Verdicts] /\ \A p \in 1 .. seen : packet'[p] = packet[p]
  <2>1. packet \in [1 .. seen -> Verdicts]
    BY <1>0 DEF LoopTypes
  <2>2. packet' \in [1 .. seen + n -> Verdicts] /\ \A p \in 1 .. seen : packet'[p] = packet[p]
    <3>1. Joins(packet', packet, kinds)
      BY <1>2, Zenon DEF Joins
    <3>2. packet \in Row(Verdicts, seen) /\ kinds \in Row(Verdicts, n)
      BY <2>1 DEF Row
    <3>3. packet' \in Row(Verdicts, seen + n) /\ \A p \in 1 .. seen : packet'[p] = packet[p]
      BY <1>3, <3>1, <3>2, LongerFunction
    <3> QED BY <3>3 DEF Row
  <2> QED BY <1>3, <2>2
<1>5. /\ released' \in [1 .. seen' -> 0 .. 1]
      /\ \A p \in 1 .. seen : released'[p] = released[p]
      /\ \A p \in seen + 1 .. seen' : released'[p] = 0
  <2> DEFINE z == [k \in 1 .. n |-> 0]
  <2>1. z \in [1 .. n -> 0 .. 1] /\ \A k \in 1 .. n : z[k] = 0
    OBVIOUS
  <2>2. released' = released \o z /\ released \in [1 .. seen -> 0 .. 1]
    BY <1>0, <1>1 DEF LoopTypes
  <2> HIDE DEF z
  <2>3. /\ released' \in [1 .. seen + n -> 0 .. 1] /\ \A i \in 1 .. seen : released'[i] = released[i]
        /\ \A i \in seen + 1 .. seen + n : released'[i] = z[i - seen]
    <3>1. Joins(released', released, z)
      BY <2>2, Zenon DEF Joins
    <3>2. released \in Row(0 .. 1, seen) /\ z \in Row(0 .. 1, n)
      BY <2>1, <2>2 DEF Row
    <3>3. /\ released' \in Row(0 .. 1, seen + n) /\ \A i \in 1 .. seen : released'[i] = released[i]
          /\ \A i \in seen + 1 .. seen + n : released'[i] = z[i - seen]
      BY <1>3, <3>1, <3>2, LongerFunction
    <3> QED BY <3>3 DEF Row
  <2> QED BY <1>3, <2>1, <2>3
<1>6. /\ batch' \in Seq(Nat) /\ Len(batch') = n /\ Processed' = seen /\ Processed = seen
      /\ \A k \in 1 .. n : batch'[k] = seen + k
  <2> DEFINE b == [k \in 1 .. n |-> seen + k]
  <2>1. b \in [1 .. n -> Nat] /\ batch' = b /\ \A k \in 1 .. n : b[k] = seen + k
    BY <1>1, <1>3
  <2> HIDE DEF b
  <2>2. b \in Seq(Nat) /\ Len(b) = n
    BY <1>3, <2>1, SeqDef
  <2> QED BY <1>3, <2>1, <2>2 DEF Processed
<1>7. /\ failed' \in BOOLEAN
      /\ failed' => n = 0 /\ (device = "closed" \/ loop = "wintun")
      /\ (n = 0 => batch' = <<>>) /\ (pc' = "process" <=> n # 0)
      /\ pc' \in {"read", "process", "ended"} /\ (pc' = "ended" => failed')
  <2>1. failed' \in BOOLEAN
    BY <1>1, Zenon
  <2>2. failed' => n = 0 /\ (device = "closed" \/ loop = "wintun")
    <3>1. (err = "closed" <=> device = "closed") /\ (loop = "wintun" => (n = 1 <=> err = "none"))
      BY <1>1, Zenon
    <3>2. failed' <=> err # "none" /\ (err = "closed" \/ loop = "wintun")
      BY <1>1, Zenon DEF Loops!Fatal
    <3>3. (err = "closed" => n = 0) /\ (~Loops!Batching => n <= 1)
      BY <1>1
    <3>4. loop = "wintun" => ~Loops!Batching
      BY DEF Loops!Batching
    <3> QED BY <1>3, <3>1, <3>2, <3>3, <3>4
  <2>3. n = 0 => batch' = <<>>
    BY <1>3, <1>6
  <2>4. (pc' = "process" <=> n # 0) /\ pc' \in {"read", "process", "ended"} /\ (pc' = "ended" => failed')
    BY <1>1, <1>3, <2>2
  <2> QED BY <2>1, <2>2, <2>3, <2>4
<1>8. LoopTypes'
  BY <1>0, <1>1, <1>3, <1>4, <1>5, <1>6, <1>7 DEF LoopTypes
<1>9. LoopPlace'
  <2>1. Len(batch') <= seen' /\ \A k \in 1 .. Len(batch') : batch'[k] = Processed' + k
    BY <1>3, <1>6
  <2> QED BY <1>1, <1>3, <1>7, <2>1 DEF LoopPlace
<1>10. LoopOrder'
  <2>1. {p \in 1 .. Processed' : packet'[p] = "back"} = {p \in 1 .. Processed : packet[p] = "back"}
    BY <1>4, <1>6
  <2> QED BY <1>0, <1>1, <2>1 DEF LoopOrder
<1>11. LoopBuffers'
  <2> SUFFICES ASSUME NEW p \in 1 .. seen'
               PROVE  released'[p] = 1 <=> Loops!Borrowed' /\ p <= Processed' /\ p \notin Members(queue')
    BY DEF LoopBuffers
  <2>1. (Loops!Borrowed' <=> Loops!Borrowed) /\ queue' = queue
    BY <1>1 DEF Loops!Borrowed
  <2>2. CASE p \in 1 .. seen
    BY <1>0, <1>5, <1>6, <2>1, <2>2 DEF LoopBuffers
  <2>3. CASE p \in seen + 1 .. seen'
    <3>1. released'[p] = 0 /\ ~(p <= Processed')
      BY <1>3, <1>5, <1>6, <2>3
    <3> QED BY <3>1
  <2> QED BY <1>3, <2>2, <2>3
<1> QED BY <1>7, <1>8, <1>9, <1>10, <1>11 DEF LoopInv

LEMMA ReleaseOf ==
  ASSUME LoopTypes, NEW p \in 1 .. seen, released[p] = 0
  PROVE  /\ Loops!Release(p) \in [1 .. seen -> 0 .. 1]
         /\ Loops!Release(p)[p] = 1 <=> Loops!Borrowed
         /\ \A x \in 1 .. seen : x # p => Loops!Release(p)[x] = released[x]
  BY DEF LoopTypes, Loops!Release

LEMMA ProcessKeeps == ASSUME Loops!LoopAssumption, LoopInv, Loops!Process PROVE LoopInv'
<1>0. LoopTypes /\ LoopPlace /\ LoopOrder /\ LoopBuffers
  BY DEF LoopInv
<1> DEFINE p == Head(batch)
<1>1. /\ batch \in Seq(Nat) /\ batch # <<>> /\ Len(batch) \in Nat /\ Len(batch) >= 1 /\ seen \in Nat
      /\ pc = "process" /\ batch' = Tail(batch) /\ pc' = (IF Tail(batch) = <<>> THEN "write" ELSE pc)
      /\ UNCHANGED <<loop, stack, device, seen, packet, failed>>
  BY <1>0 DEF LoopTypes, Loops!Process
<1>2. /\ batch' \in Seq(Nat) /\ Len(batch') = Len(batch) - 1 /\ p = batch[1]
      /\ \A i \in 1 .. Len(batch') : batch'[i] = batch[i + 1]
  BY <1>1, HeadTailProperties
<1>3. p = Processed + 1 /\ Processed' = p /\ p \in 1 .. seen /\ Processed \in Nat /\ p \in Nat
  BY <1>0, <1>1, <1>2 DEF LoopPlace, Processed
<1>4. Len(batch') <= seen' /\ \A k \in 1 .. Len(batch') : batch'[k] = Processed' + k
  <2>1. \A k \in 1 .. Len(batch') : k + 1 \in 1 .. Len(batch) /\ batch'[k] = Processed + (k + 1)
    BY <1>0, <1>1, <1>2 DEF LoopPlace
  <2>2. Len(batch') <= seen'
    BY <1>0, <1>1, <1>2 DEF LoopPlace
  <2>3. \A k \in 1 .. Len(batch') : Processed + (k + 1) = Processed' + k
    <3> HIDE DEF p
    <3> QED BY <1>1, <1>2, <1>3
  <2> QED BY <2>1, <2>2, <2>3
<1> HIDE DEF p
<1>5. pc' \in {"process", "write"} /\ (pc' # "process" => batch' = <<>>)
  BY <1>1
<1>6. /\ \A x \in Members(written) \cup Members(queue) : x < p
      /\ released[p] = 0 /\ p \notin Members(queue) /\ packet[p] \in Verdicts
      /\ {x \in 1 .. Processed' : packet'[x] = "back"}
           = (Members(written) \cup Members(queue)) \cup (IF packet[p] = "back" THEN {p} ELSE {})
  <2>1. \A x \in Members(written) \cup Members(queue) : x \in 1 .. Processed
    BY <1>0 DEF LoopOrder
  <2>2. 1 .. Processed' = (1 .. Processed) \cup {p}
    BY <1>3
  <2>3. released[p] = 0
    BY <1>0, <1>3 DEF LoopBuffers, LoopTypes
  <2>4. {x \in 1 .. Processed' : packet'[x] = "back"}
           = {x \in 1 .. Processed : packet[x] = "back"} \cup (IF packet[p] = "back" THEN {p} ELSE {})
    BY <1>1, <2>2
  <2> QED BY <1>0, <1>3, <2>1, <2>3, <2>4 DEF LoopOrder, LoopTypes
<1>7. /\ Loops!Release(p) \in [1 .. seen -> 0 .. 1]
      /\ Loops!Release(p)[p] = 1 <=> Loops!Borrowed
      /\ \A x \in 1 .. seen : x # p => Loops!Release(p)[x] = released[x]
  BY <1>0, <1>3, <1>6, ReleaseOf
<1>8. /\ queue' \in Seq(Nat) /\ written' \in Seq(Nat) /\ (Loops!Batching \/ queue' = <<>>)
      /\ Ascends(written') /\ Ascends(queue') /\ AllBelow(written', queue')
      /\ Members(written') \cup Members(queue')
           = (Members(written) \cup Members(queue)) \cup (IF packet[p] = "back" THEN {p} ELSE {})
      /\ Members(queue') = Members(queue) \cup (IF Loops!Batching /\ packet[p] = "back" THEN {p} ELSE {})
      /\ released' = IF Loops!Batching /\ packet[p] = "back" THEN released ELSE Loops!Release(p)
  <2>0. queue \in Seq(Nat) /\ written \in Seq(Nat) /\ Ascends(written) /\ Ascends(queue) /\ AllBelow(written, queue)
    BY <1>0 DEF LoopTypes, LoopOrder
  <2>1. CASE Loops!Batching /\ packet[p] = "back"
    <3>1. queue' = Append(queue, p) /\ written' = written /\ released' = released
      BY <2>1 DEF Loops!Process, Loops!Queued, Loops!DoneAtOnce, p
    <3>2. queue' \in Seq(Nat) /\ Ascends(queue') /\ Members(queue') = Members(queue) \cup {p}
      BY <1>3, <1>6, <2>0, <3>1, AppendAscends
    <3>3. AllBelow(written', queue')
      BY <1>6, <2>0, <3>1, <3>2 DEF AllBelow
    <3> QED BY <2>0, <2>1, <3>1, <3>2, <3>3
  <2>2. CASE Loops!Batching /\ packet[p] # "back"
    <3>1. queue' = queue /\ written' = written /\ released' = Loops!Release(p)
      BY <2>2 DEF Loops!Process, Loops!DoneAtOnce, p
    <3> QED BY <2>0, <2>2, <3>1
  <2>3. CASE ~Loops!Batching /\ packet[p] = "back"
    <3>1. queue' = queue /\ written' = Append(written, p) /\ released' = Loops!Release(p) /\ queue = <<>>
      BY <1>0, <2>3 DEF Loops!Process, LoopPlace, p
    <3>2. written' \in Seq(Nat) /\ Ascends(written') /\ Members(written') = Members(written) \cup {p}
      BY <1>3, <1>6, <2>0, <3>1, AppendAscends
    <3> QED BY <2>0, <2>3, <3>1, <3>2, NoMembers
  <2>4. CASE ~Loops!Batching /\ packet[p] # "back"
    <3>1. queue' = queue /\ written' = written /\ released' = Loops!Release(p) /\ queue = <<>>
      BY <1>0, <2>4 DEF Loops!Process, LoopPlace, p
    <3> QED BY <2>0, <2>4, <3>1
  <2> QED BY <2>1, <2>2, <2>3, <2>4
<1>9. LoopTypes'
  BY <1>0, <1>1, <1>2, <1>5, <1>7, <1>8 DEF LoopTypes
<1>10. LoopPlace'
  <2>1. Loops!Batching' <=> Loops!Batching
    BY <1>1 DEF Loops!Batching
  <2> QED BY <1>0, <1>1, <1>4, <1>5, <1>8, <2>1 DEF LoopPlace
<1>11. LoopOrder'
  BY <1>6, <1>8 DEF LoopOrder
<1>12. LoopBuffers'
  <2> SUFFICES ASSUME NEW x \in 1 .. seen
               PROVE  released'[x] = 1 <=> Loops!Borrowed /\ x <= p /\ x \notin Members(queue')
    BY <1>1, <1>3 DEF LoopBuffers, Loops!Borrowed
  <2>1. CASE x = p
    BY <1>3, <1>6, <1>7, <1>8, <2>1
  <2>2. CASE x # p
    <3>1. released'[x] = released[x] /\ (x \in Members(queue') <=> x \in Members(queue)) /\ (x <= p <=> x <= Processed)
      BY <1>3, <1>7, <1>8, <2>2
    <3> QED BY <1>0, <3>1 DEF LoopBuffers
  <2> QED BY <2>1, <2>2
<1>13. failed' \in BOOLEAN
  BY <1>1, Zenon DEF LoopInv
<1> QED BY <1>9, <1>10, <1>11, <1>12, <1>13 DEF LoopInv

LEMMA LoopWriteKeeps == ASSUME LoopInv, Loops!Write PROVE LoopInv'
<1>0. LoopTypes /\ LoopPlace /\ LoopOrder /\ LoopBuffers /\ failed \in BOOLEAN
  BY DEF LoopInv
<1>1. /\ pc = "write" /\ batch = <<>> /\ queue' = <<>> /\ batch' = batch /\ written' = written \o queue
      /\ pc' = (IF failed THEN "ended" ELSE "read") /\ released' = Loops!ReleasedAfter(queue)
      /\ UNCHANGED <<loop, stack, device, seen, packet, failed>>
  BY <1>0 DEF Loops!Write, LoopPlace
<1>2. /\ written' \in Seq(Nat) /\ Ascends(written') /\ Members(written') = Members(written) \cup Members(queue)
  BY <1>0, <1>1, ConcatAscends DEF LoopTypes, LoopOrder
<1>3. Processed' = Processed /\ Processed = seen /\ seen \in Nat
  BY <1>0, <1>1 DEF Processed, LoopTypes
<1>4. \A x \in 1 .. seen : released'[x] = IF Loops!Borrowed /\ x \in Members(queue) THEN released[x] + 1 ELSE released[x]
  <2>1. DOMAIN queue = 1 .. Len(queue)
    BY <1>0 DEF LoopTypes
  <2> QED BY <1>1, <2>1 DEF Loops!ReleasedAfter, Members
<1>5. \A x \in 1 .. seen : x \in Members(queue) => released[x] = 0
  BY <1>0 DEF LoopBuffers, LoopTypes
<1>6. released' \in [1 .. seen -> 0 .. 1]
  <2>1. DOMAIN released' = 1 .. seen /\ released' = [x \in 1 .. seen |-> released'[x]]
    BY <1>1 DEF Loops!ReleasedAfter
  <2>2. ASSUME NEW x \in 1 .. seen PROVE released'[x] \in 0 .. 1
    <3>1. released[x] \in 0 .. 1
      BY <1>0 DEF LoopTypes
    <3>2. (released'[x] = released[x] + 1 /\ released[x] = 0) \/ released'[x] = released[x]
      BY <1>4, <1>5
    <3> QED BY <3>1, <3>2
  <2> QED BY <2>1, <2>2
<1>7. pc' \in {"read", "ended"} /\ (pc' = "ended" => failed) /\ queue' \in Seq(Nat)
  BY <1>0, <1>1
<1>8. LoopTypes'
  BY <1>0, <1>1, <1>2, <1>6, <1>7 DEF LoopTypes
<1>9. LoopPlace'
  <2>1. Len(batch') <= seen' /\ \A k \in 1 .. Len(batch') : batch'[k] = Processed' + k
    BY <1>0, <1>1, <1>3 DEF LoopPlace
  <2> QED BY <1>0, <1>1, <1>7, <2>1 DEF LoopPlace
<1>10. LoopOrder'
  BY <1>0, <1>1, <1>2, <1>3, NoMembers DEF LoopOrder
<1>11. LoopBuffers'
  <2> SUFFICES ASSUME NEW x \in 1 .. seen PROVE released'[x] = 1 <=> Loops!Borrowed
    BY <1>1, <1>3, NoMembers DEF LoopBuffers, Loops!Borrowed
  <2> QED BY <1>0, <1>3, <1>4, <1>5 DEF LoopBuffers, LoopTypes
<1>12. failed' \in BOOLEAN
  BY <1>0, <1>1, Zenon
<1> QED BY <1>8, <1>9, <1>10, <1>11, <1>12 DEF LoopInv

LEMMA LoopInvariant == Spec => [](part = "loops" => LoopInv)
<1> USE LoopsAssumed
<1>1. Loops!Init => LoopInv
  BY InitLoop
<1>2. LoopInv /\ [Loops!Next]_(Loops!vars) => LoopInv'
  <2>1. ASSUME LoopInv, UNCHANGED Loops!vars \/ Loops!CloseDevice \/ Loops!Ended PROVE LoopInv'
    <3>1. /\ UNCHANGED <<loop, stack, pc, seen, packet, batch, queue, failed, released, written>>
          /\ device' = device \/ device' = "closed"
      BY <2>1 DEF Loops!vars, Loops!CloseDevice, Loops!Ended
    <3>2. LoopTypes' /\ LoopPlace' /\ LoopOrder' /\ LoopBuffers'
      BY <2>1, <3>1
      DEF LoopInv, LoopTypes, LoopPlace, LoopOrder, LoopBuffers, Processed, Loops!Batching, Loops!Borrowed
    <3>3. failed' \in BOOLEAN
      BY <2>1, <3>1, Zenon DEF LoopInv
    <3> QED BY <3>2, <3>3 DEF LoopInv
  <2>2. Loops!Next => Loops!Step \/ Loops!CloseDevice \/ Loops!Ended
    BY DEF Loops!Next, Loops!TunLoop, Loops!MixedLoop, Loops!MipsLoop, Loops!SystemTunLoop, Loops!SystemWintunLoop,
           Loops!SystemBatchLoopLinux, Loops!SystemBatchLoopDarwin, Loops!MixedTunLoop, Loops!MixedWintunLoop,
           Loops!MixedBatchLoopLinux, Loops!MixedBatchLoopDarwin, Loops!MipsReadLoop, Loops!MipsWintunLoop,
           Loops!MipsBatchLoopLinux, Loops!MipsBatchLoopDarwin
  <2> QED BY <2>1, <2>2, LoopReadKeeps, ProcessKeeps, LoopWriteKeeps DEF Loops!Step
<1>3. Init => (part = "loops" => LoopInv)
  BY <1>1 DEF Init, PingPart
<1>4. (part = "loops" => LoopInv) /\ [Next]_vars => (part = "loops" => LoopInv)'
  <2> SUFFICES ASSUME part = "loops" => LoopInv, [Next]_vars, part' = "loops" PROVE LoopInv'
    OBVIOUS
  <2>1. part = "loops" /\ [Loops!Next]_(Loops!vars)
    BY DEF Next, vars, Loops!vars,
           stack, pc, packet, device, written, loop, seen, batch, queue, failed, released
  <2> QED BY <1>2, <2>1
<1> QED BY <1>3, <1>4, PTL DEF Spec

-----------------------------------------------------------------------------
(* TunIO (NativeTun of tun_linux.go).  The argument: what configure decided *)
(* about the header and the offloads stands before anybody writes; the one  *)
(* writer that holds the lock has its batch divided between the frames      *)
(* written, the errors kept and the frames in gsoToWrite; and the one       *)
(* reader with the lock splits the last frame sent.                         *)
OffloadKinds == {"tcp", "udp"}
AnyWriter == Writers \union {"probe"}
CallState == [at : {"idle", "lock", "file", "gro", "write", "unlock", "done"}, batch : Seq(OffloadKinds \union {"other"}),
              call : Nat, errs : Nat]

Mine(q) == {f \in written : f.by = q}
Covered(q) == UNION {f.packets : f \in Mine(q)}
Pieces(fs) == UNION {fs[i] : i \in 1 .. Len(fs)}
Rest(q) == IF writer[q].at = "write" THEN Pieces(gsoToWrite) ELSE {}

IOTypes ==
  /\ device.at \in {"new", "offload", "offloadUDP", "probe", "up", "closed"} /\ groOff \in SUBSET OffloadKinds
  /\ writer \in [AnyWriter -> CallState] /\ gsoToWrite \in Seq(SUBSET Nat)
  /\ calls \in Nat /\ table \in SUBSET (1 .. calls) /\ \A f \in written : f.by \in AnyWriter
  /\ \A q, r \in AnyWriter : q # r /\ writer[q].call > 0 => writer[q].call # writer[r].call

FileState == [at : {"new", "offload", "offloadUDP", "probe", "up", "closed"}, wanted : BOOLEAN, header : BOOLEAN,
              offload : SUBSET OffloadKinds]

IOFlags == vnetHdr \in BOOLEAN /\ device \in FileState

\* What configure decided
Configured ==
  /\ vnetHdr = TRUE => device.header = TRUE
  /\ device.at \in {"new", "offload"} => vnetHdr = FALSE
  /\ device.at \in {"offloadUDP", "probe"} => vnetHdr = TRUE
  /\ device.at = "offloadUDP" => "tcp" \in device.offload
  /\ device.at \in {"probe", "up", "closed"} /\ vnetHdr = TRUE => OffloadKinds \ groOff \subseteq device.offload
  /\ device.at \in {"up", "closed"} /\ writer["probe"].errs > 0 => groOff = OffloadKinds

\* Where a call stands, and what that says of the device and the lock
Staged(q) ==
  /\ writer[q].call <= calls /\ (writer[q].call \in table => writer[q].at \in {"write", "unlock"})
  /\ writer[q].at \in {"gro", "write", "unlock"} => writeAccess = q
  /\ writer[q].at \in {"lock", "gro", "write", "unlock", "done"} => vnetHdr = TRUE
  /\ writer[q].at = "file" => vnetHdr = FALSE /\ Len(writer[q].batch) = 1
  /\ writer[q].call = 0 => writer[q].at = "idle" /\ writer[q].errs = 0 /\ Mine(q) = {}
  /\ writer[q].call > 0 => device.at \in {"up", "closed"} \/ (q = "probe" /\ device.at = "probe")
  /\ q = "probe" /\ writer[q].at \notin {"idle", "done"} => device.at = "probe"
  /\ q = "probe" /\ writer[q].at = "idle" => writer[q].call = 0

\* Each packet of a batch is written, waits or is reported
Accounted(q) ==
  /\ writer[q].at \in {"lock", "gro", "file"} => writer[q].errs = 0 /\ Mine(q) = {}
  /\ writer[q].at = "unlock" => writer[q].errs = Len(writer[q].batch)
  /\ writer[q].at = "write" \/ (writer[q].at \in {"idle", "done"} /\ writer[q].call > 0) =>
       Cardinality(Covered(q) \cup Rest(q)) + writer[q].errs >= Len(writer[q].batch)
  /\ \A f \in Mine(q) : f.call = writer[q].call /\ f.packets \subseteq 1 .. Len(writer[q].batch)
  /\ \A f, g \in Mine(q) : f # g => f.packets \intersect g.packets = {}

\* The system agreed to take such frames, and the probe did not fail
Agreed(q, kindOf) == kindOf \in device.offload /\ (q # "probe" => writer["probe"].errs = 0)

\* The frames that wait
Waiting(q) ==
  writer[q].at = "write" =>
    \A i \in 1 .. Len(gsoToWrite) :
      /\ gsoToWrite[i] \subseteq 1 .. Len(writer[q].batch) /\ gsoToWrite[i] \intersect Covered(q) = {}
      /\ \A j \in 1 .. Len(gsoToWrite) : i # j => gsoToWrite[i] \intersect gsoToWrite[j] = {}
      /\ Cardinality(gsoToWrite[i]) > 1 => \A k \in gsoToWrite[i] : Agreed(q, writer[q].batch[k])

\* The frames the system took
Taken(q) ==
  \A f \in Mine(q) : f.header = vnetHdr /\ (Cardinality(f.packets) > 1 => Agreed(q, f.kind))

CallOK(q) == Staged(q) /\ Accounted(q) /\ Waiting(q) /\ Taken(q)

WriteInv == IOTypes /\ IOFlags /\ Configured /\ \A q \in AnyWriter : CallOK(q)

ReadInv ==
  /\ sent \in Nat /\ buffer \in 0 .. sent /\ reader \in [Readers -> {"idle", "split"}] /\ delivered \in Seq(Nat)
  /\ \A r \in Readers : reader[r] = "split" => readAccess = r /\ buffer = sent /\ \A x \in Members(delivered) : x < sent
  /\ Ascends(delivered) /\ \A x \in Members(delivered) : x <= sent

LEMMA DeviceCounting ==
  /\ \A S : IO!Cardinality(S) = Cardinality(S) /\ (IO!IsFiniteSet(S) <=> IsFiniteSet(S))
  /\ IO!Kinds = OffloadKinds /\ IO!AllWriters = AnyWriter /\ IO!Probe = "probe"
  /\ IO!DeviceAssumption =>
       /\ "probe" \notin Writers /\ None \notin AnyWriter \union Readers
       /\ Batches \subseteq Seq(OffloadKinds \union {"other"}) /\ <<>> \notin Batches
<1>1. \A S : IO!Cardinality(S) = Cardinality(S) /\ (IO!IsFiniteSet(S) <=> IsFiniteSet(S))
  BY DEF IO!Cardinality, Cardinality, IO!IsFiniteSet, IsFiniteSet
<1>2. IO!Kinds = OffloadKinds /\ IO!AllWriters = AnyWriter /\ IO!Probe = "probe"
  BY DEF IO!Kinds, OffloadKinds, IO!AllWriters, AnyWriter, IO!Probe
<1>3. IO!DeviceAssumption =>
       /\ "probe" \notin Writers /\ None \notin AnyWriter \union Readers
       /\ Batches \subseteq Seq(OffloadKinds \union {"other"}) /\ <<>> \notin Batches
  BY <1>2, Zenon DEF IO!DeviceAssumption
<1> QED BY <1>1, <1>2, <1>3

LEMMA InitRead == ASSUME IO!Init PROVE ReadInv
<1>1. /\ delivered = <<>> /\ sent = 0 /\ buffer = 0 /\ reader = [r \in Readers |-> "idle"]
  BY DEF IO!Init
<1> QED BY <1>1, NoMembers DEF ReadInv

LEMMA BatchReadKeeps == ASSUME IO!DeviceAssumption, ReadInv, NEW r \in Readers, IO!BatchRead(r) PROVE ReadInv'
<1>1. /\ sent' = sent + 1 /\ buffer' = sent + 1 /\ readAccess' = r /\ reader' = [reader EXCEPT ![r] = "split"]
      /\ delivered' = delivered /\ readAccess = None
  BY DEF IO!BatchRead
<1>2. \A x \in Members(delivered) : x < sent' /\ x <= sent'
  <2>1. \A x \in Members(delivered) : x \in Nat /\ x <= sent /\ sent \in Nat
    BY DEF ReadInv, Members
  <2> QED BY <1>1, <2>1
<1>3. \A q \in Readers : q # r => reader'[q] = "idle"
  BY <1>1, DeviceCounting DEF ReadInv
<1> QED BY <1>1, <1>2, <1>3 DEF ReadInv

LEMMA VirtioReadKeeps ==
  ASSUME IO!DeviceAssumption, ReadInv, NEW r \in Readers, IO!handleVirtioRead(r) PROVE ReadInv'
<1>1. /\ reader[r] = "split" /\ delivered' = Append(delivered, buffer) /\ reader' = [reader EXCEPT ![r] = "idle"]
      /\ UNCHANGED <<buffer, sent>>
  BY DEF IO!handleVirtioRead
<1>2. buffer = sent /\ sent \in Nat /\ delivered \in Seq(Nat) /\ readAccess = r /\ Ascends(delivered)
      /\ \A x \in Members(delivered) : x < sent
  BY <1>1 DEF ReadInv
<1>3. delivered' \in Seq(Nat) /\ Ascends(delivered') /\ Members(delivered') = Members(delivered) \cup {sent}
  BY <1>1, <1>2, AppendAscends
<1>4. \A q \in Readers : reader'[q] = "idle"
  BY <1>1, <1>2 DEF ReadInv
<1> QED BY <1>1, <1>2, <1>3, <1>4 DEF ReadInv

LEMMA InitWrite == ASSUME IO!DeviceAssumption, IO!Init PROVE WriteInv
<1>1. PICK wanted \in BOOLEAN : device = [at |-> "new", wanted |-> wanted, header |-> FALSE, offload |-> {}]
  BY DEF IO!Init
<1>2. /\ vnetHdr = FALSE /\ groOff = {} /\ gsoToWrite = <<>> /\ table = {} /\ written = {} /\ calls = 0
      /\ writer = [p \in AnyWriter |-> [at |-> "idle", batch |-> <<>>, call |-> 0, errs |-> 0]]
  BY DeviceCounting DEF IO!Init
<1>3. [at |-> "idle", batch |-> <<>>, call |-> 0, errs |-> 0] \in CallState
  BY DEF CallState
<1>4. writer \in [AnyWriter -> CallState] /\ "probe" \in AnyWriter
      /\ \A q \in AnyWriter : writer[q].at = "idle" /\ writer[q].call = 0 /\ writer[q].errs = 0
  BY <1>2, <1>3 DEF AnyWriter
<1>5. device.at = "new" /\ device.header = FALSE /\ device.offload = {}
  BY <1>1
<1>6. IOTypes
  BY <1>2, <1>4, <1>5 DEF IOTypes
<1>7. IOFlags
  <2>1. device \in FileState
    BY <1>1 DEF FileState
  <2>2. vnetHdr \in BOOLEAN
    BY <1>2, Zenon
  <2> QED BY <2>1, <2>2 DEF IOFlags
<1>8. Configured
  BY <1>2, <1>4, <1>5 DEF Configured
<1>9. ASSUME NEW q \in AnyWriter PROVE CallOK(q)
  BY <1>2, <1>4 DEF CallOK, Staged, Accounted, Waiting, Taken, Mine
<1> QED BY <1>6, <1>7, <1>8, <1>9 DEF WriteInv

(* A file with another place in its life, header or offloads. *)
LEMMA FileOf ==
  ASSUME NEW s \in FileState, NEW to \in {"new", "offload", "offloadUDP", "probe", "up", "closed"}
  PROVE  /\ [s EXCEPT !.at = to] \in FileState /\ [s EXCEPT !.at = to].at = to
         /\ [s EXCEPT !.at = to].header = s.header /\ [s EXCEPT !.at = to].offload = s.offload
  BY DEF FileState

LEMMA HeaderOf ==
  ASSUME NEW s \in FileState, NEW b \in BOOLEAN
  PROVE  /\ [s EXCEPT !.header = b] \in FileState /\ [s EXCEPT !.header = b].header = b
         /\ [s EXCEPT !.header = b].at = s.at /\ [s EXCEPT !.header = b].offload = s.offload
  BY DEF FileState

LEMMA OffloadOf ==
  ASSUME NEW s \in FileState, NEW o \in SUBSET OffloadKinds
  PROVE  /\ [s EXCEPT !.offload = o] \in FileState /\ [s EXCEPT !.offload = o].offload = o
         /\ [s EXCEPT !.offload = o].at = s.at /\ [s EXCEPT !.offload = o].header = s.header
  BY DEF FileState

(* A step of configure or Close: it decides something only before anybody  *)
(* writes.                                                                 *)
LEMMA FileKeeps ==
  ASSUME WriteInv, UNCHANGED <<writeAccess, gsoToWrite, table, writer, written, calls>>,
         device' \in FileState, vnetHdr' \in BOOLEAN, groOff' \in SUBSET OffloadKinds, Configured',
         device.at \in {"probe", "up", "closed"} => device'.offload = device.offload /\ vnetHdr' = vnetHdr,
         device.at \in {"up", "closed"} => device'.at \in {"up", "closed"},
         device.at = "probe" => device'.at = "up" /\ writer["probe"].at \in {"idle", "done"}
  PROVE  WriteInv'
<1>0. IOTypes /\ IOFlags /\ Configured /\ \A q \in AnyWriter : CallOK(q)
  BY DEF WriteInv
<1>1. device'.at \in {"new", "offload", "offloadUDP", "probe", "up", "closed"}
  BY DEF FileState
<1>2. IOTypes'
  BY <1>0, <1>1 DEF IOTypes
<1>3. IOFlags'
  BY Zenon DEF IOFlags
<1>4. ASSUME NEW q \in AnyWriter PROVE CallOK(q)'
  <2>0. Staged(q) /\ Accounted(q) /\ Waiting(q) /\ Taken(q) /\ writer[q] \in CallState /\ table \subseteq 1 .. calls
    BY <1>0 DEF CallOK, IOTypes
  <2>1. Mine(q)' = Mine(q) /\ Covered(q)' = Covered(q) /\ Rest(q)' = Rest(q)
    BY DEF Mine, Covered, Rest
  <2>2. CASE writer[q].call = 0
    <3>1. writer[q].at = "idle" /\ Mine(q) = {} /\ writer[q].errs = 0
      BY <2>0, <2>2 DEF Staged
    <3>2. Staged(q)'
      BY <2>0, <2>1, <2>2, <3>1 DEF Staged
    <3>3. Accounted(q)' /\ Waiting(q)' /\ Taken(q)'
      BY <2>1, <2>2, <3>1 DEF Accounted, Waiting, Taken
    <3> QED BY <3>2, <3>3 DEF CallOK
  <2>3. CASE writer[q].call # 0
    <3>1. writer[q].call > 0
      BY <2>0, <2>3 DEF CallState
    <3>2. device.at \in {"probe", "up", "closed"} /\ (device.at = "probe" => q = "probe")
      BY <2>0, <3>1 DEF Staged
    <3>3. device'.offload = device.offload /\ vnetHdr' = vnetHdr /\ device'.at \in {"up", "closed"}
          /\ (device.at = "probe" => writer["probe"].at \in {"idle", "done"})
      BY <3>2
    <3>4. Staged(q)'
      BY <2>0, <2>1, <3>1, <3>2, <3>3 DEF Staged
    <3>5. Accounted(q)'
      BY <2>0, <2>1 DEF Accounted
    <3>6. Waiting(q)'
      BY <2>0, <2>1, <3>3 DEF Waiting, Agreed
    <3>7. Taken(q)'
      BY <2>0, <2>1, <3>3 DEF Taken, Agreed
    <3> QED BY <3>4, <3>5, <3>6, <3>7 DEF CallOK
  <2> QED BY <2>2, <2>3
<1> QED BY <1>2, <1>3, <1>4 DEF WriteInv

LEMMA ConfigureKeeps == ASSUME IO!DeviceAssumption, WriteInv, IO!Configure \/ IO!Close PROVE WriteInv'
<1>0. IOTypes /\ IOFlags /\ Configured /\ \A q \in AnyWriter : CallOK(q)
  BY DEF WriteInv
<1>1. UNCHANGED <<writeAccess, gsoToWrite, table, writer, written, calls>>
  BY DEF IO!Configure, IO!Close, IO!Open, IO!EnableGSOFails, IO!EnableTCP, IO!EnableUDP, IO!ProbeEnds, IO!NoProbe,
         IO!writing
<1>2. device \in FileState /\ vnetHdr \in BOOLEAN /\ device.header \in BOOLEAN
  BY <1>0, Zenon DEF IOFlags, FileState
<1>3. "probe" \in AnyWriter /\ writer["probe"] \in CallState
  BY <1>0 DEF AnyWriter, IOTypes
<1>4. Staged("probe")
  BY <1>0, <1>3 DEF CallOK
<1>5. writer["probe"].errs \in Nat /\ (writer["probe"].call = 0 => writer["probe"].errs = 0)
      /\ (device.at \in {"new", "offload", "offloadUDP"} => writer["probe"].call = 0)
  BY <1>3, <1>4 DEF CallState, Staged
<1>6. groOff \in SUBSET OffloadKinds
  BY <1>0 DEF IOTypes
<1>7. CASE IO!Open
  <2>1. PICK header \in {FALSE, device.wanted} :
          device' = [device EXCEPT !.at = IF device.wanted THEN "offload" ELSE "up", !.header = header]
    BY <1>7 DEF IO!Open
  <2>2. /\ device.at = "new" /\ UNCHANGED <<vnetHdr, groOff>> /\ header \in BOOLEAN
    <3>1. device.wanted \in BOOLEAN
      BY <1>2, Zenon DEF FileState
    <3>2. header \in BOOLEAN
      BY <2>1, <3>1, Zenon
    <3> QED BY <1>7, <3>2 DEF IO!Open
  <2> DEFINE to == IF device.wanted THEN "offload" ELSE "up"
             m == [device EXCEPT !.at = to]
  <2>3. m \in FileState /\ m.at \in {"offload", "up"}
    <3>1. to \in {"offload", "up"} /\ to \in {"new", "offload", "offloadUDP", "probe", "up", "closed"}
      OBVIOUS
    <3> HIDE DEF to
    <3> QED BY <1>2, <3>1, FileOf
  <2>4. device' = [m EXCEPT !.header = header]
    BY <1>2, <2>1
  <2> HIDE DEF m
  <2>5. device' \in FileState /\ device'.at \in {"offload", "up"}
    BY <2>2, <2>3, <2>4, HeaderOf
  <2>6. vnetHdr = FALSE /\ vnetHdr' = FALSE
    BY <1>0, <2>2 DEF Configured
  <2>7. Configured'
    BY <1>1, <1>5, <2>2, <2>5, <2>6 DEF Configured
  <2> QED BY <1>1, <1>2, <1>6, <2>2, <2>5, <2>7, FileKeeps
<1>8. CASE IO!EnableGSOFails
  <2>1. device.at = "offload" /\ device' = [device EXCEPT !.at = "up"] /\ UNCHANGED <<vnetHdr, groOff>>
    BY <1>8 DEF IO!EnableGSOFails
  <2>2. device' \in FileState /\ device'.at = "up"
    BY <1>2, <2>1, FileOf
  <2>3. vnetHdr = FALSE
    BY <1>0, <2>1 DEF Configured
  <2>4. Configured'
    BY <1>1, <1>5, <2>1, <2>2, <2>3 DEF Configured
  <2> QED BY <1>1, <1>2, <1>6, <2>1, <2>2, <2>4, FileKeeps
<1>9. CASE IO!EnableTCP
  <2>1. /\ device.at = "offload" /\ device.header /\ vnetHdr' = TRUE /\ UNCHANGED groOff
        /\ device' = [device EXCEPT !.at = "offloadUDP", !.offload = {"tcp"}]
    BY <1>9 DEF IO!EnableTCP
  <2> DEFINE m == [device EXCEPT !.at = "offloadUDP"]
  <2>2. m \in FileState /\ m.at = "offloadUDP" /\ m.header = device.header
    BY <1>2, FileOf
  <2>3. device' = [m EXCEPT !.offload = {"tcp"}] /\ {"tcp"} \in SUBSET OffloadKinds
    BY <1>2, <2>1 DEF OffloadKinds
  <2> HIDE DEF m
  <2>4. device' \in FileState /\ device'.at = "offloadUDP" /\ device'.header = device.header /\ device'.offload = {"tcp"}
    BY <2>2, <2>3, OffloadOf
  <2>5. device'.header = TRUE
    BY <1>2, <2>1, <2>4, Zenon
  <2>6. Configured'
    BY <1>1, <2>1, <2>4, <2>5 DEF Configured
  <2>7. vnetHdr' \in BOOLEAN
    BY <2>1, Zenon
  <2> QED BY <1>1, <1>6, <2>1, <2>4, <2>6, <2>7, FileKeeps
<1>10. CASE IO!EnableUDP
  <2>1. device.at = "offloadUDP" /\ UNCHANGED vnetHdr /\ vnetHdr = TRUE /\ "tcp" \in device.offload
        /\ device.header = TRUE
    BY <1>0, <1>10 DEF IO!EnableUDP, Configured
  <2> DEFINE m == [device EXCEPT !.at = "probe"]
  <2>2. m \in FileState /\ m.at = "probe" /\ m.header = device.header /\ m.offload = device.offload
    BY <1>2, FileOf
  <2>3. CASE device' = [device EXCEPT !.at = "probe", !.offload = IO!Kinds] /\ groOff' = groOff
    <3>1. device' = [m EXCEPT !.offload = OffloadKinds] /\ OffloadKinds \in SUBSET OffloadKinds
      BY <1>2, <2>3, DeviceCounting
    <3> HIDE DEF m
    <3>2. device' \in FileState /\ device'.at = "probe" /\ device'.header = device.header
          /\ device'.offload = OffloadKinds
      BY <2>2, <3>1, OffloadOf
    <3>3. Configured'
      BY <1>1, <2>1, <2>3, <3>2 DEF Configured
    <3> QED BY <1>1, <1>2, <1>6, <2>1, <2>3, <3>2, <3>3, FileKeeps
  <2>4. CASE device' = m /\ groOff' = groOff \union {"udp"}
    <3> HIDE DEF m
    <3>1. OffloadKinds \ groOff' \subseteq {"tcp"} /\ groOff' \in SUBSET OffloadKinds
      BY <1>6, <2>4 DEF OffloadKinds
    <3>2. Configured'
      BY <1>1, <2>1, <2>2, <2>4, <3>1 DEF Configured
    <3> QED BY <1>1, <1>2, <2>1, <2>2, <2>4, <3>1, <3>2, FileKeeps
  <2> QED BY <1>10, <2>3, <2>4 DEF IO!EnableUDP
<1>11. CASE IO!ProbeEnds \/ IO!NoProbe
  <2>1. /\ device.at = "probe" /\ device' = [device EXCEPT !.at = "up"] /\ UNCHANGED vnetHdr
        /\ writer["probe"].at \in {"idle", "done"}
        /\ groOff' = groOff \/ (writer["probe"].errs > 0 /\ groOff' = OffloadKinds)
        /\ writer["probe"].errs > 0 => groOff' = OffloadKinds
    BY <1>4, <1>5, <1>11, DeviceCounting DEF IO!ProbeEnds, IO!NoProbe, Staged
  <2>2. device' \in FileState /\ device'.at = "up" /\ device'.header = device.header /\ device'.offload = device.offload
    BY <1>2, <2>1, FileOf
  <2>3. Configured'
    BY <1>0, <1>1, <2>1, <2>2 DEF Configured
  <2> QED BY <1>1, <1>2, <1>6, <2>1, <2>2, <2>3, FileKeeps
<1>12. CASE IO!Close
  <2>1. device.at = "up" /\ device' = [device EXCEPT !.at = "closed"] /\ UNCHANGED <<vnetHdr, groOff>>
    BY <1>12 DEF IO!Close
  <2>2. device' \in FileState /\ device'.at = "closed" /\ device'.header = device.header
        /\ device'.offload = device.offload
    BY <1>2, <2>1, FileOf
  <2>3. Configured'
    BY <1>0, <1>1, <2>1, <2>2 DEF Configured
  <2> QED BY <1>1, <1>2, <1>6, <2>1, <2>2, <2>3, FileKeeps
<1> QED BY <1>7, <1>8, <1>9, <1>10, <1>11, <1>12 DEF IO!Configure

(* A call with another place or more errors. *)
LEMMA CallAt ==
  ASSUME NEW s \in CallState, NEW to \in {"idle", "lock", "file", "gro", "write", "unlock", "done"}
  PROVE  /\ [s EXCEPT !.at = to] \in CallState /\ [s EXCEPT !.at = to].at = to
         /\ [s EXCEPT !.at = to].batch = s.batch /\ [s EXCEPT !.at = to].call = s.call
         /\ [s EXCEPT !.at = to].errs = s.errs
  BY DEF CallState

LEMMA CallErrs ==
  ASSUME NEW s \in CallState, NEW n \in Nat
  PROVE  /\ [s EXCEPT !.errs = n] \in CallState /\ [s EXCEPT !.errs = n].errs = n
         /\ [s EXCEPT !.errs = n].at = s.at /\ [s EXCEPT !.errs = n].batch = s.batch
         /\ [s EXCEPT !.errs = n].call = s.call
  BY DEF CallState

(* A step of one call: the others keep what they have, because only the    *)
(* holder of the lock changes gsoToWrite and the probe is over before      *)
(* anybody else writes.                                                    *)
CallStep(p, s) ==
  /\ writer' = [writer EXCEPT ![p] = s] /\ UNCHANGED <<device, vnetHdr, groOff>> /\ gsoToWrite' \in Seq(SUBSET Nat)
  /\ calls' \in Nat /\ calls' >= calls /\ (s.call = writer[p].call \/ s.call = calls + 1) /\ s.call <= calls'
  /\ \A f \in written' : f.by = p \/ f \in written
  /\ \A f \in written : f.by = p \/ f \in written'
  /\ UNCHANGED <<gsoToWrite, writeAccess>> \/ writeAccess \in {p, None}
  /\ table' \subseteq table \/ (table' \subseteq table \cup {writer[p].call} /\ writer[p].call \in 1 .. calls)
  /\ s.errs = writer[p].errs \/ p # "probe" \/ device.at = "probe"

LEMMA CallKeeps ==
  ASSUME IO!DeviceAssumption, WriteInv, NEW p \in AnyWriter, NEW s \in CallState, CallStep(p, s),
         Staged(p)', Accounted(p)', Waiting(p)', Taken(p)'
  PROVE  WriteInv'
<1> USE DEF CallStep
<1>0. IOTypes /\ IOFlags /\ Configured /\ \A q \in AnyWriter : CallOK(q)
  BY DEF WriteInv
<1>1. writer'[p] = s /\ writer' \in [AnyWriter -> CallState] /\ \A q \in AnyWriter : q # p => writer'[q] = writer[q]
  BY <1>0 DEF IOTypes
<1>2. \A q \in AnyWriter : writer[q].call \in Nat /\ writer[q].call <= calls /\ calls \in Nat /\ writer[q].errs \in Nat
  BY <1>0 DEF IOTypes, CallState, CallOK, Staged
<1>3. IOTypes'
  <2>1. table' \in SUBSET (1 .. calls')
    <3>1. table \subseteq 1 .. calls /\ calls \in Nat
      BY <1>0 DEF IOTypes
    <3>2. \A x \in table' : x \in 1 .. calls
      BY <3>1
    <3>3. 1 .. calls \subseteq 1 .. calls'
      BY <3>1
    <3> QED BY <3>2, <3>3
  <2>2. \A f \in written' : f.by \in AnyWriter
    BY <1>0 DEF IOTypes
  <2>3. \A q, r \in AnyWriter : q # r /\ writer'[q].call > 0 => writer'[q].call # writer'[r].call
    <3> SUFFICES ASSUME NEW q \in AnyWriter, NEW r \in AnyWriter, q # r, writer'[q].call > 0
                 PROVE  writer'[q].call # writer'[r].call
      OBVIOUS
    <3>1. \A x, y \in AnyWriter : x # y /\ writer[x].call > 0 => writer[x].call # writer[y].call
      BY <1>0 DEF IOTypes
    <3>2. CASE q = p
      BY <1>1, <1>2, <3>1, <3>2
    <3>3. CASE r = p
      BY <1>1, <1>2, <3>1, <3>3
    <3> QED BY <1>1, <3>1, <3>2, <3>3
  <2> QED BY <1>0, <1>1, <2>1, <2>2, <2>3 DEF IOTypes
<1>4. IOFlags'
  BY <1>0, Zenon DEF IOFlags
<1>5. ASSUME NEW q \in AnyWriter, q # p, writer[q].call > 0, p = "probe" PROVE s.errs = writer[p].errs
  BY <1>0, <1>5 DEF CallOK, Staged
<1>6. Configured'
  <2>1. "probe" \in AnyWriter
    BY DEF AnyWriter
  <2>2. device.at \in {"up", "closed"} => writer'["probe"].errs = writer["probe"].errs
    BY <1>1, <2>1
  <2> QED BY <1>0, <2>2 DEF Configured
<1>7. ASSUME NEW q \in AnyWriter, q # p PROVE CallOK(q)'
  <2>0. Staged(q) /\ Accounted(q) /\ Waiting(q) /\ Taken(q) /\ writer[q] \in CallState /\ writer'[q] = writer[q]
    BY <1>0, <1>1, <1>7 DEF CallOK, IOTypes
  <2>1. Mine(q)' = Mine(q)
    BY <1>7 DEF Mine
  <2>2. writer[q].at \in {"gro", "write", "unlock"} => UNCHANGED <<gsoToWrite, writeAccess>>
    BY <1>7, <2>0, DeviceCounting DEF Staged
  <2>3. Covered(q)' = Covered(q) /\ Rest(q)' = Rest(q)
    BY <2>0, <2>1, <2>2 DEF Covered, Rest
  <2>4. writer[q].call > 0 /\ q # "probe" => writer'["probe"].errs = writer["probe"].errs
    <3>1. "probe" \in AnyWriter
      BY DEF AnyWriter
    <3> QED BY <1>1, <1>5, <1>7, <3>1
  <2>5. Staged(q)'
    <3>1. writer[q].call \in table' => writer[q].call \in table
      <4>1. writer[q].call = writer[p].call => writer[q].call = 0
        BY <1>0, <1>2, <1>7 DEF IOTypes
      <4> QED BY <1>2, <4>1
    <3>2. writer[q].call <= calls'
      BY <1>2
    <3> QED BY <2>0, <2>1, <2>2, <3>1, <3>2 DEF Staged
  <2>6. Accounted(q)'
    BY <2>0, <2>1, <2>3 DEF Accounted
  <2>7. Waiting(q)'
    <3> SUFFICES ASSUME writer[q].at = "write" PROVE Waiting(q)'
      BY <2>0 DEF Waiting
    <3>1. writer[q].call > 0 /\ gsoToWrite' = gsoToWrite
      BY <1>2, <2>0, <2>2 DEF Staged
    <3>2. q # "probe" => writer'["probe"].errs = writer["probe"].errs
      BY <2>4, <3>1
    <3>3. \A k : Agreed(q, k) => Agreed(q, k)'
      BY <3>2 DEF Agreed
    <3> QED BY <2>0, <2>3, <3>1, <3>3 DEF Waiting
  <2>8. Taken(q)'
    <3>1. CASE writer[q].call = 0
      BY <2>0, <2>1, <3>1 DEF Staged, Taken
    <3>2. CASE writer[q].call > 0
      BY <2>0, <2>1, <2>4, <3>2 DEF Taken, Agreed
    <3> QED BY <1>2, <3>1, <3>2
  <2> QED BY <2>5, <2>6, <2>7, <2>8 DEF CallOK
<1>8. CallOK(p)'
  BY DEF CallOK
<1> QED BY <1>3, <1>4, <1>6, <1>7, <1>8 DEF WriteInv

LEMMA CalledKeeps ==
  ASSUME IO!DeviceAssumption, WriteInv, NEW p \in AnyWriter, NEW b \in Seq(OffloadKinds \union {"other"}),
         IO!Called(p, b),
         \/ p # "probe" /\ device.at = "up" /\ (vnetHdr \/ Len(b) = 1)
         \/ p = "probe" /\ device.at = "probe"
  PROVE  WriteInv'
<1>0. IOTypes /\ IOFlags /\ Configured /\ \A q \in AnyWriter : CallOK(q)
  BY DEF WriteInv
<1> DEFINE to == IF vnetHdr THEN "lock" ELSE "file"
           s == [at |-> to, batch |-> b, call |-> calls + 1, errs |-> 0]
<1>1. /\ writer' = [writer EXCEPT ![p] = s] /\ calls' = calls + 1 /\ written' = {f \in written : f.by # p}
      /\ UNCHANGED <<device, vnetHdr, groOff, writeAccess, gsoToWrite, table>>
  BY DEF IO!Called, IO!config
<1>2. calls \in Nat /\ table \subseteq 1 .. calls /\ gsoToWrite \in Seq(SUBSET Nat) /\ writer \in [AnyWriter -> CallState]
  BY <1>0 DEF IOTypes
<1>3. /\ to \in {"lock", "file"} /\ (to = "lock" => vnetHdr = TRUE) /\ (to = "file" => vnetHdr = FALSE)
  BY <1>0, Zenon DEF IOFlags
<1> HIDE DEF to
<1>4. s \in CallState /\ s.at = to /\ s.batch = b /\ s.call = calls + 1 /\ s.errs = 0
  BY <1>2, <1>3 DEF CallState
<1> HIDE DEF s
<1>5. writer'[p] = s /\ Mine(p)' = {}
  BY <1>1, <1>2 DEF Mine
<1>6. to = "file" => Len(b) = 1
  BY <1>0, <1>3 DEF Configured
<1>7. Staged(p)'
  <2>1. calls + 1 \notin table
    BY <1>2
  <2> QED BY <1>1, <1>2, <1>3, <1>4, <1>5, <1>6, <2>1 DEF Staged
<1>8. Accounted(p)' /\ Waiting(p)' /\ Taken(p)'
  BY <1>3, <1>4, <1>5 DEF Accounted, Waiting, Taken
<1>9. CallStep(p, s)
  BY <1>1, <1>2, <1>4 DEF CallStep
<1> QED BY <1>4, <1>7, <1>8, <1>9, CallKeeps

LEMMA WriteLockKeeps == ASSUME IO!DeviceAssumption, WriteInv, NEW p \in AnyWriter, IO!WriteLock(p) PROVE WriteInv'
<1>0. IOTypes /\ CallOK(p) /\ writer[p] \in CallState /\ writer \in [AnyWriter -> CallState]
  BY DEF WriteInv, IOTypes
<1> DEFINE s == [writer[p] EXCEPT !.at = "gro"]
<1>1. /\ writer[p].at = "lock" /\ writeAccess = None /\ writeAccess' = p /\ gsoToWrite' = <<>>
      /\ writer' = [writer EXCEPT ![p] = s] /\ UNCHANGED <<device, vnetHdr, groOff, table, written, calls>>
  BY <1>0 DEF IO!WriteLock, IO!config
<1>2. s \in CallState /\ s.at = "gro" /\ s.batch = writer[p].batch /\ s.call = writer[p].call /\ s.errs = writer[p].errs
  BY <1>0, CallAt
<1> HIDE DEF s
<1>3. writer'[p] = s /\ Mine(p)' = Mine(p) /\ calls \in Nat /\ gsoToWrite' \in Seq(SUBSET Nat)
  BY <1>0, <1>1 DEF Mine, IOTypes
<1>4. Staged(p)'
  BY <1>0, <1>1, <1>2, <1>3 DEF CallOK, Staged
<1>5. Accounted(p)' /\ Waiting(p)' /\ Taken(p)'
  BY <1>0, <1>1, <1>2, <1>3 DEF CallOK, Accounted, Waiting, Taken
<1>6. s.call <= calls'
  BY <1>0, <1>1, <1>2 DEF CallOK, Staged
<1>7. CallStep(p, s)
  BY <1>1, <1>2, <1>3, <1>6 DEF CallStep
<1> QED BY <1>2, <1>4, <1>5, <1>7, CallKeeps

LEMMA UpTo == ASSUME NEW n \in Nat PROVE IsFiniteSet(1 .. n) /\ Cardinality(1 .. n) = n
<1>1. n \in Int /\ 1 \in Int
  OBVIOUS
<1>2. IsFiniteSet(1 .. n) /\ Cardinality(1 .. n) = IF 1 > n THEN 0 ELSE n - 1 + 1
  BY <1>1, FS_Interval, Zenon
<1> QED BY <1>2

LEMMA GROKeeps == ASSUME IO!DeviceAssumption, WriteInv, NEW p \in AnyWriter, IO!handleGRO(p) PROVE WriteInv'
<1>0. /\ IOTypes /\ Configured /\ CallOK(p) /\ writer[p] \in CallState /\ writer \in [AnyWriter -> CallState]
      /\ "probe" \in AnyWriter /\ writer["probe"] \in CallState
  BY DEF WriteInv, IOTypes, AnyWriter
<1>b. PICK b : b = writer[p].batch
  OBVIOUS
<1> DEFINE s == [writer[p] EXCEPT !.at = "write"]
<1>1. /\ writer[p].at = "gro" /\ gsoToWrite' \in IO!Frames(b) /\ table' = table \union {writer[p].call}
      /\ writer' = [writer EXCEPT ![p] = s] /\ UNCHANGED <<device, vnetHdr, groOff, writeAccess, written, calls>>
  BY <1>0, <1>b DEF IO!handleGRO, IO!config
<1>2. s \in CallState /\ s.at = "write" /\ s.batch = b /\ s.call = writer[p].call /\ s.errs = writer[p].errs
  BY <1>0, <1>b, CallAt
<1>3. b \in Seq(OffloadKinds \union {"other"}) /\ DOMAIN b = 1 .. Len(b) /\ Len(b) \in Nat /\ writer[p].call \in Nat
      /\ writer["probe"].errs \in Nat
  BY <1>0, <1>b DEF CallState
<1>4. /\ Mine(p) = {} /\ writer[p].errs = 0 /\ writeAccess = p /\ vnetHdr = TRUE /\ writer[p].call > 0
      /\ (device.at \in {"up", "closed"} \/ (p = "probe" /\ device.at = "probe")) /\ writer[p].call <= calls
  BY <1>0, <1>1, <1>3 DEF CallOK, Staged, Accounted
<1> HIDE DEF s
<1>5. writer'[p] = s /\ Mine(p)' = {} /\ calls \in Nat
  BY <1>0, <1>1, <1>4 DEF Mine, IOTypes
<1> DEFINE gso == gsoToWrite'
<1>6. /\ gso \in Seq(SUBSET (1 .. Len(b))) /\ Pieces(gso) = 1 .. Len(b)
      /\ \A i, j \in 1 .. Len(gso) : i # j => gso[i] \intersect gso[j] = {}
      /\ \A i \in 1 .. Len(gso) : Cardinality(gso[i]) > 1 => IO!Coalesces(b, gso[i])
  <2>1. PICK n \in 1 .. Len(b) : gso \in [1 .. n -> SUBSET (1 .. Len(b))]
    BY <1>1, <1>3 DEF IO!Frames
  <2>2. /\ UNION {gso[i] : i \in DOMAIN gso} = DOMAIN b
        /\ \A i, j \in DOMAIN gso : i # j => gso[i] \intersect gso[j] = {}
        /\ \A i \in DOMAIN gso : Cardinality(gso[i]) > 1 => IO!Coalesces(b, gso[i])
    BY <1>1, DeviceCounting DEF IO!Frames
  <2> HIDE DEF gso
  <2>3. gso \in Seq(SUBSET (1 .. Len(b))) /\ Len(gso) = n /\ DOMAIN gso = 1 .. n
    BY <1>3, <2>1, SeqDef
  <2> QED BY <1>3, <2>2, <2>3 DEF Pieces
<1>7. ASSUME NEW i \in 1 .. Len(gso), Cardinality(gso[i]) > 1, NEW k \in gso[i] PROVE Agreed(p, b[k])'
  <2>1. b[k] \in OffloadKinds \ groOff
    BY <1>6, <1>7, DeviceCounting DEF IO!Coalesces, IO!CanGRO
  <2>2. b[k] \in device.offload
    BY <1>0, <1>4, <2>1 DEF Configured
  <2>3. p # "probe" => writer["probe"].errs = 0
    <3>1. p # "probe" => device.at \in {"up", "closed"}
      BY <1>4
    <3>2. groOff # OffloadKinds
      BY <2>1
    <3> QED BY <1>0, <1>3, <3>1, <3>2 DEF Configured
  <2>4. p # "probe" => writer'["probe"] = writer["probe"]
    BY <1>0, <1>1
  <2> QED BY <1>1, <2>2, <2>3, <2>4 DEF Agreed
<1>8. gso \in Seq(SUBSET Nat) /\ \A i \in 1 .. Len(gso) : gso[i] \subseteq 1 .. Len(b)
  <2>1. SUBSET (1 .. Len(b)) \subseteq SUBSET Nat
    BY <1>3
  <2> HIDE DEF gso
  <2> QED BY <1>6, <2>1, SeqMonotonic, ElementOfSeq
<1>9. Staged(p)'
  BY <1>0, <1>1, <1>2, <1>4, <1>5 DEF CallOK, Staged
<1>10. Covered(p)' = {} /\ Rest(p)' = 1 .. Len(b)
  BY <1>2, <1>5, <1>6 DEF Covered, Rest
<1>11. Accounted(p)'
  <2>1. Cardinality(1 .. Len(b)) = Len(b)
    BY <1>3, UpTo, Zenon
  <2>2. (Covered(p) \cup Rest(p))' = 1 .. Len(b)
    BY <1>10
  <2>3. Cardinality((Covered(p) \cup Rest(p))') = Len(b)
    BY <2>1, <2>2, Zenon
  <2>4. Cardinality((Covered(p) \cup Rest(p))') + s.errs >= Len(b)
    BY <1>2, <1>3, <1>4, <2>3
  <2> QED BY <1>2, <1>5, <2>4 DEF Accounted
<1>12. Waiting(p)'
  BY <1>2, <1>5, <1>6, <1>7, <1>8, <1>10 DEF Waiting
<1>13. Taken(p)'
  BY <1>5 DEF Taken
<1>14. CallStep(p, s)
  BY <1>1, <1>2, <1>3, <1>4, <1>5, <1>8 DEF CallStep
<1> QED BY <1>2, <1>9, <1>11, <1>12, <1>13, <1>14, CallKeeps

(* The first frame and the others. *)
LEMMA PiecesOf ==
  ASSUME NEW fs \in Seq(SUBSET Nat), fs # <<>>
  PROVE  /\ Tail(fs) \in Seq(SUBSET Nat) /\ Head(fs) = fs[1] /\ 1 \in 1 .. Len(fs)
         /\ Len(Tail(fs)) = Len(fs) - 1 /\ Len(fs) \in Nat
         /\ \A i \in 1 .. Len(Tail(fs)) : i + 1 \in 1 .. Len(fs) /\ Tail(fs)[i] = fs[i + 1]
         /\ Pieces(fs) = Head(fs) \cup Pieces(Tail(fs))
<1> DEFINE t == Tail(fs)
           h == Head(fs)
<1>1. /\ t \in Seq(SUBSET Nat) /\ h = fs[1] /\ Len(t) = Len(fs) - 1 /\ Len(fs) \in Nat /\ Len(fs) >= 1
      /\ \A i \in 1 .. Len(t) : t[i] = fs[i + 1]
  BY HeadTailProperties
<1> HIDE DEF t, h
<1>2. 1 \in 1 .. Len(fs) /\ \A i \in 1 .. Len(t) : i + 1 \in 1 .. Len(fs) /\ t[i] = fs[i + 1]
  BY <1>1
<1>3. \A i \in 1 .. Len(fs) : i = 1 \/ (i - 1 \in 1 .. Len(t) /\ t[i - 1] = fs[i])
  BY <1>1
<1>4. Pieces(fs) = h \cup Pieces(t)
  <2>1. ASSUME NEW x \in Pieces(fs) PROVE x \in h \cup Pieces(t)
    <3>1. PICK i \in 1 .. Len(fs) : x \in fs[i]
      BY DEF Pieces
    <3> QED BY <1>1, <1>3, <3>1 DEF Pieces
  <2>2. ASSUME NEW x \in h \cup Pieces(t) PROVE x \in Pieces(fs)
    BY <1>1, <1>2, <2>2 DEF Pieces
  <2> QED BY <2>1, <2>2
<1> QED BY <1>1, <1>2, <1>4 DEF t, h

(* What is written and what waits are packets of the batch, so they can be counted. *)
LEMMA BatchCounted ==
  ASSUME WriteInv, NEW q \in AnyWriter
  PROVE  /\ Len(writer[q].batch) \in Nat /\ Covered(q) \subseteq 1 .. Len(writer[q].batch)
         /\ IsFiniteSet(Covered(q)) /\ Cardinality(Covered(q)) \in Nat
         /\ \A S \in SUBSET (1 .. Len(writer[q].batch)) : IsFiniteSet(S) /\ Cardinality(S) \in Nat
<1>1. Len(writer[q].batch) \in Nat
  BY DEF WriteInv, IOTypes, CallState
<1>2. Covered(q) \subseteq 1 .. Len(writer[q].batch)
  BY DEF WriteInv, CallOK, Accounted, Covered
<1>3. IsFiniteSet(1 .. Len(writer[q].batch))
  BY <1>1, UpTo
<1>4. \A S \in SUBSET (1 .. Len(writer[q].batch)) : IsFiniteSet(S) /\ Cardinality(S) \in Nat
  BY <1>3, FS_Subset, FS_CardinalityType
<1> QED BY <1>1, <1>2, <1>4

LEMMA UnlockKeeps == ASSUME IO!DeviceAssumption, WriteInv, NEW p \in AnyWriter, IO!WriteUnlock(p) PROVE WriteInv'
<1>0. IOTypes /\ CallOK(p) /\ writer[p] \in CallState /\ writer \in [AnyWriter -> CallState] /\ calls \in Nat
      /\ gsoToWrite \in Seq(SUBSET Nat)
  BY DEF WriteInv, IOTypes
<1> DEFINE to == IF p = "probe" THEN "done" ELSE "idle"
           s == [writer[p] EXCEPT !.at = to]
<1>1. /\ writer[p].at = "unlock" \/ (writer[p].at = "write" /\ gsoToWrite = <<>>)
      /\ table' = {} /\ writeAccess' = None /\ writer' = [writer EXCEPT ![p] = s]
      /\ UNCHANGED <<device, vnetHdr, groOff, gsoToWrite, written, calls>>
  BY <1>0, DeviceCounting DEF IO!WriteUnlock, IO!config
<1>2. to \in {"idle", "lock", "file", "gro", "write", "unlock", "done"} /\ to \in {"idle", "done"}
      /\ (p = "probe" => to = "done")
  OBVIOUS
<1> HIDE DEF to
<1>3. s \in CallState /\ s.at = to /\ s.batch = writer[p].batch /\ s.call = writer[p].call /\ s.errs = writer[p].errs
  BY <1>0, <1>2, CallAt
<1> HIDE DEF s
<1>4. writer'[p] = s /\ Mine(p)' = Mine(p) /\ Covered(p)' = Covered(p) /\ Rest(p)' = {}
  <2>1. writer'[p] = s /\ Mine(p)' = Mine(p)
    BY <1>0, <1>1 DEF Mine
  <2> QED BY <1>2, <1>3, <2>1 DEF Covered, Rest
<1>5. writeAccess = p /\ writer[p].call \in Nat /\ writer[p].call # 0 /\ writer[p].errs \in Nat /\ vnetHdr = TRUE
  BY <1>0, <1>1 DEF CallOK, Staged, CallState
<1>6. Cardinality(Covered(p)) + writer[p].errs >= Len(writer[p].batch)
  <2>1. CASE writer[p].at = "unlock"
    BY <1>0, <1>5, <2>1, BatchCounted DEF CallOK, Accounted
  <2>2. CASE writer[p].at = "write" /\ gsoToWrite = <<>>
    <3>1. Covered(p) \cup Rest(p) = Covered(p)
      BY <2>2 DEF Rest, Pieces
    <3> QED BY <1>0, <2>2, <3>1 DEF CallOK, Accounted
  <2> QED BY <1>1, <2>1, <2>2
<1>7. Staged(p)'
  BY <1>0, <1>1, <1>2, <1>3, <1>4, <1>5 DEF CallOK, Staged
<1>8. Accounted(p)'
  <2>1. (Covered(p) \cup Rest(p))' = Covered(p)
    BY <1>4
  <2> QED BY <1>0, <1>2, <1>3, <1>4, <1>6, <2>1 DEF CallOK, Accounted
<1>9. Waiting(p)'
  BY <1>2, <1>3, <1>4 DEF Waiting
<1>10. Taken(p)'
  <2>1. \A k : Agreed(p, k) => Agreed(p, k)'
    BY <1>0, <1>1 DEF Agreed, AnyWriter
  <2> QED BY <1>0, <1>1, <1>4, <2>1 DEF CallOK, Taken
<1>11. CallStep(p, s)
  <2>1. s.call <= calls'
    BY <1>0, <1>1, <1>3 DEF CallOK, Staged
  <2> QED BY <1>0, <1>1, <1>3, <1>5, <2>1 DEF CallStep
<1> QED BY <1>3, <1>7, <1>8, <1>9, <1>10, <1>11, CallKeeps

LEMMA WriteFileKeeps == ASSUME IO!DeviceAssumption, WriteInv, NEW p \in AnyWriter, IO!Write(p) PROVE WriteInv'
<1>0. IOTypes /\ Configured /\ CallOK(p) /\ writer[p] \in CallState /\ writer \in [AnyWriter -> CallState] /\ calls \in Nat
      /\ gsoToWrite \in Seq(SUBSET Nat)
  BY DEF WriteInv, IOTypes
<1>1. /\ writer[p].at = "file" /\ UNCHANGED <<device, vnetHdr, groOff, writeAccess, gsoToWrite, table, calls>>
  BY DEF IO!Write, IO!config
<1>2. /\ Mine(p) = {} /\ writer[p].errs = 0 /\ vnetHdr = FALSE /\ Len(writer[p].batch) = 1 /\ p # "probe"
      /\ writer[p].call \in Nat /\ writer[p].call > 0 /\ writer[p].call <= calls
  BY <1>0, <1>1 DEF CallOK, Staged, Accounted, Configured, CallState
<1> DEFINE m == [writer[p] EXCEPT !.at = "idle"]
<1>3. m \in CallState /\ m.at = "idle" /\ m.batch = writer[p].batch /\ m.call = writer[p].call /\ m.errs = writer[p].errs
  BY <1>0, CallAt
<1>4. CASE /\ written' = written \union {IO!Frame(p, {1}, FALSE)} /\ writer' = [writer EXCEPT ![p].at = "idle"]
  <2> DEFINE f == IO!Frame(p, {1}, FALSE)
  <2>1. f.by = p /\ f.call = writer[p].call /\ f.packets = {1} /\ f.header = FALSE
    BY DEF IO!Frame
  <2>2. writer' = [writer EXCEPT ![p] = m] /\ written' = written \union {f}
    BY <1>0, <1>4
  <2> HIDE DEF f, m
  <2>3. writer'[p] = m /\ Mine(p)' = {f}
    BY <1>0, <1>2, <2>1, <2>2 DEF Mine
  <2>4. Covered(p)' = {1} /\ Rest(p)' = {} /\ Cardinality({1}) = 1
    BY <1>3, <2>1, <2>3, FS_Singleton DEF Covered, Rest
  <2>5. Staged(p)'
    BY <1>0, <1>1, <1>2, <1>3, <2>3 DEF CallOK, Staged
  <2>6. Accounted(p)'
    <3>1. (Covered(p) \cup Rest(p))' = {1}
      BY <2>4
    <3>2. Cardinality((Covered(p) \cup Rest(p))') = 1 /\ Len(m.batch) = 1 /\ m.errs = 0
      BY <1>2, <1>3, <2>4, <3>1, Zenon
    <3>3. Cardinality((Covered(p) \cup Rest(p))') + m.errs >= Len(m.batch) /\ {1} \subseteq 1 .. Len(m.batch)
      BY <3>2
    <3> QED BY <1>3, <2>1, <2>3, <3>3 DEF Accounted
  <2>7. Waiting(p)' /\ Taken(p)'
    <3>1. ~(Cardinality({1}) > 1)
      BY <2>4
    <3> QED BY <1>1, <1>2, <1>3, <2>1, <2>3, <3>1 DEF Waiting, Taken
  <2>8. CallStep(p, m)
    BY <1>0, <1>1, <1>2, <1>3, <2>1, <2>2 DEF CallStep
  <2> QED BY <1>3, <2>5, <2>6, <2>7, <2>8, CallKeeps
<1>5. CASE written' = written /\ writer' = [writer EXCEPT ![p].at = "idle", ![p].errs = 1]
  <2> DEFINE s == [m EXCEPT !.errs = 1]
  <2>1. writer' = [writer EXCEPT ![p] = s]
    BY <1>0, <1>5
  <2> HIDE DEF m
  <2>2. s \in CallState /\ s.at = "idle" /\ s.batch = writer[p].batch /\ s.call = writer[p].call /\ s.errs = 1
    BY <1>3, CallErrs
  <2> HIDE DEF s
  <2>3. writer'[p] = s /\ Mine(p)' = {}
    BY <1>0, <1>2, <1>5, <2>1 DEF Mine
  <2>4. Staged(p)'
    BY <1>0, <1>1, <1>2, <2>2, <2>3 DEF CallOK, Staged
  <2>5. Accounted(p)'
    <3>1. (Covered(p) \cup Rest(p))' = {}
      BY <2>2, <2>3 DEF Covered, Rest
    <3>2. Cardinality({}) = 0
      BY FS_EmptySet
    <3>3. Cardinality((Covered(p) \cup Rest(p))') = 0 /\ Len(s.batch) = 1
      BY <1>2, <2>2, <3>1, <3>2, Zenon
    <3>4. Cardinality((Covered(p) \cup Rest(p))') + s.errs >= Len(s.batch)
      BY <2>2, <3>3
    <3> QED BY <2>2, <2>3, <3>4 DEF Accounted
  <2>6. Waiting(p)' /\ Taken(p)'
    BY <2>2, <2>3 DEF Waiting, Taken
  <2>7. CallStep(p, s)
    <3>1. written' = written /\ p # "probe" /\ s.call <= calls'
      BY <1>1, <1>2, <1>5, <2>2
    <3> QED BY <1>0, <1>1, <2>1, <2>2, <3>1 DEF CallStep
  <2> QED BY <2>2, <2>4, <2>5, <2>6, <2>7, CallKeeps
<1> QED BY <1>4, <1>5 DEF IO!Write

(* What the next frame of a call that writes is. *)
LEMMA NextFrame ==
  ASSUME IO!DeviceAssumption, WriteInv, NEW p \in AnyWriter, writer[p].at = "write", gsoToWrite # <<>>
  PROVE  /\ Head(gsoToWrite) \subseteq 1 .. Len(writer[p].batch) /\ Head(gsoToWrite) \intersect Covered(p) = {}
         /\ Head(gsoToWrite) \intersect Pieces(Tail(gsoToWrite)) = {}
         /\ Pieces(Tail(gsoToWrite)) \subseteq 1 .. Len(writer[p].batch)
         /\ Pieces(Tail(gsoToWrite)) \intersect Covered(p) = {}
         /\ Pieces(gsoToWrite) = Head(gsoToWrite) \cup Pieces(Tail(gsoToWrite))
         /\ Cardinality(Head(gsoToWrite)) > 1 => \A k \in Head(gsoToWrite) : Agreed(p, writer[p].batch[k])
         /\ Cardinality(Covered(p) \cup Pieces(gsoToWrite)) + writer[p].errs >= Len(writer[p].batch)
         /\ \A i \in 1 .. Len(Tail(gsoToWrite)) :
              /\ Tail(gsoToWrite)[i] \subseteq 1 .. Len(writer[p].batch) /\ Tail(gsoToWrite)[i] \intersect Covered(p) = {}
              /\ \A j \in 1 .. Len(Tail(gsoToWrite)) : i # j => Tail(gsoToWrite)[i] \intersect Tail(gsoToWrite)[j] = {}
              /\ Cardinality(Tail(gsoToWrite)[i]) > 1 => \A k \in Tail(gsoToWrite)[i] : Agreed(p, writer[p].batch[k])
<1>0. IOTypes /\ CallOK(p) /\ gsoToWrite \in Seq(SUBSET Nat)
  BY DEF WriteInv, IOTypes
<1>b. PICK b : b = writer[p].batch
  OBVIOUS
<1>g. PICK g : g = gsoToWrite
  OBVIOUS
<1>h. PICK h : h = Head(gsoToWrite)
  OBVIOUS
<1>t. PICK t : t = Tail(gsoToWrite)
  OBVIOUS
<1>1. /\ t \in Seq(SUBSET Nat) /\ h = g[1] /\ 1 \in 1 .. Len(g) /\ Pieces(g) = h \cup Pieces(t)
      /\ Len(t) = Len(g) - 1 /\ Len(g) \in Nat
      /\ \A i \in 1 .. Len(t) : i + 1 \in 1 .. Len(g) /\ t[i] = g[i + 1]
  BY <1>0, <1>g, <1>h, <1>t, PiecesOf
<1>2. \A i \in 1 .. Len(g) :
        /\ g[i] \subseteq 1 .. Len(b) /\ g[i] \intersect Covered(p) = {}
        /\ \A j \in 1 .. Len(g) : i # j => g[i] \intersect g[j] = {}
        /\ Cardinality(g[i]) > 1 => \A k \in g[i] : Agreed(p, b[k])
  BY <1>0, <1>b, <1>g DEF CallOK, Waiting
<1>3. /\ h \subseteq 1 .. Len(b) /\ h \intersect Covered(p) = {}
      /\ Cardinality(h) > 1 => \A k \in h : Agreed(p, b[k])
  BY <1>1, <1>2
<1>4. ASSUME NEW i \in 1 .. Len(t)
      PROVE  /\ t[i] \subseteq 1 .. Len(b) /\ t[i] \intersect Covered(p) = {} /\ h \intersect t[i] = {}
             /\ \A j \in 1 .. Len(t) : i # j => t[i] \intersect t[j] = {}
             /\ Cardinality(t[i]) > 1 => \A k \in t[i] : Agreed(p, b[k])
  <2>1. i + 1 \in 1 .. Len(g) /\ t[i] = g[i + 1] /\ i + 1 # 1
    BY <1>1
  <2>2. ASSUME NEW j \in 1 .. Len(t), i # j PROVE t[i] \intersect t[j] = {}
    <3>1. j + 1 \in 1 .. Len(g) /\ t[j] = g[j + 1] /\ i + 1 # j + 1
      BY <1>1, <2>2
    <3> QED BY <1>2, <2>1, <3>1
  <2>3. h \intersect t[i] = {}
    BY <1>1, <1>2, <2>1
  <2>4. t[i] \subseteq 1 .. Len(b) /\ t[i] \intersect Covered(p) = {}
    BY <1>2, <2>1
  <2>5. Cardinality(t[i]) > 1 => \A k \in t[i] : Agreed(p, b[k])
    BY <1>2, <2>1
  <2> QED BY <2>2, <2>3, <2>4, <2>5
<1>5. h \intersect Pieces(t) = {} /\ Pieces(t) \subseteq 1 .. Len(b) /\ Pieces(t) \intersect Covered(p) = {}
  BY <1>4 DEF Pieces
<1>6. Cardinality(Covered(p) \cup Pieces(g)) + writer[p].errs >= Len(b)
  <2>1. Rest(p) = Pieces(g)
    BY <1>g DEF Rest
  <2> QED BY <1>0, <1>b, <2>1 DEF CallOK, Accounted
<1> QED BY <1>b, <1>g, <1>h, <1>t, <1>1, <1>3, <1>4, <1>5, <1>6

(* The packets of the frames and of one more. *)
PacketsOf(S) == UNION {f.packets : f \in S}

LEMMA OneMore == ASSUME NEW M, NEW g PROVE PacketsOf(M \cup {g}) = PacketsOf(M) \cup g.packets
<1>1. ASSUME NEW k, NEW S PROVE k \in PacketsOf(S) <=> \E f \in S : k \in f.packets
  BY DEF PacketsOf
<1>2. ASSUME NEW k PROVE k \in PacketsOf(M \cup {g}) <=> k \in PacketsOf(M) \/ k \in g.packets
  BY <1>1
<1> QED BY <1>2

(* The system takes the frame. *)
LEMMA FrameTaken ==
  ASSUME IO!DeviceAssumption, WriteInv, NEW p \in AnyWriter, writer[p].at = "write", gsoToWrite # <<>>,
         written' = written \union {IO!Frame(p, Head(gsoToWrite), TRUE)}, gsoToWrite' = Tail(gsoToWrite),
         UNCHANGED <<device, vnetHdr, groOff, writeAccess, table, calls, writer>>
  PROVE  WriteInv'
<1>0. IOTypes /\ CallOK(p) /\ writer[p] \in CallState /\ writer \in [AnyWriter -> CallState] /\ calls \in Nat
      /\ gsoToWrite \in Seq(SUBSET Nat)
  BY DEF WriteInv, IOTypes
<1>b. PICK b : b = writer[p].batch
  OBVIOUS
<1>h. PICK h : h = Head(gsoToWrite)
  OBVIOUS
<1>t. PICK t : t = Tail(gsoToWrite)
  OBVIOUS
<1>f. PICK f : f = IO!Frame(p, h, TRUE)
  OBVIOUS
<1>c. PICK c : c = Covered(p)
  OBVIOUS
<1>1. /\ h \subseteq 1 .. Len(b) /\ h \intersect c = {} /\ h \intersect Pieces(t) = {}
      /\ Pieces(t) \intersect c = {} /\ Pieces(gsoToWrite) = h \cup Pieces(t)
      /\ Cardinality(h) > 1 => \A k \in h : Agreed(p, b[k])
      /\ Cardinality(c \cup Pieces(gsoToWrite)) + writer[p].errs >= Len(b)
      /\ \A i \in 1 .. Len(t) :
           /\ t[i] \subseteq 1 .. Len(b) /\ t[i] \intersect c = {}
           /\ \A j \in 1 .. Len(t) : i # j => t[i] \intersect t[j] = {}
           /\ Cardinality(t[i]) > 1 => \A k \in t[i] : Agreed(p, b[k])
  BY <1>b, <1>h, <1>t, <1>c, NextFrame, Zenon
<1>2. f.by = p /\ f.call = writer[p].call /\ f.packets = h /\ f.header = TRUE /\ f.kind = b[CHOOSE i \in h : TRUE]
  BY <1>b, <1>f DEF IO!Frame
<1>3. gsoToWrite' = t /\ t \in Seq(SUBSET Nat) /\ written' = written \cup {f} /\ writer' = writer
  BY <1>0, <1>f, <1>h, <1>t, PiecesOf
<1>4. Mine(p)' = Mine(p) \cup {f}
  BY <1>2, <1>3 DEF Mine
<1>5. Covered(p)' = c \cup h /\ Rest(p)' = Pieces(t)
  <2>1. Covered(p)' = PacketsOf(Mine(p)') /\ Covered(p) = PacketsOf(Mine(p))
    BY Zenon DEF Covered, PacketsOf
  <2>2. PacketsOf(Mine(p) \cup {f}) = PacketsOf(Mine(p)) \cup f.packets
    BY OneMore
  <2>3. PacketsOf(Mine(p)') = PacketsOf(Mine(p) \cup {f})
    BY <1>4, Zenon
  <2>4. Rest(p)' = Pieces(t)
    BY <1>3 DEF Rest
  <2> QED BY <1>2, <1>c, <2>1, <2>2, <2>3, <2>4
<1>6. writeAccess = p /\ vnetHdr = TRUE /\ writer[p].call # 0
  BY <1>0 DEF CallOK, Staged
<1>7. \A k : Agreed(p, k) => Agreed(p, k)'
  BY <1>3 DEF Agreed
<1>8. Staged(p)'
  BY <1>0, <1>3, <1>6 DEF CallOK, Staged
<1>9. Accounted(p)'
  <2>1. (Covered(p) \cup Rest(p))' = c \cup Pieces(gsoToWrite)
    BY <1>1, <1>5
  <2>2. Cardinality((Covered(p) \cup Rest(p))') + writer[p].errs >= Len(b)
    BY <1>1, <2>1
  <2>3. \A x \in Mine(p)' : x.call = writer[p].call /\ x.packets \subseteq 1 .. Len(b)
    BY <1>0, <1>1, <1>2, <1>4, <1>b DEF CallOK, Accounted
  <2>4. \A x, y \in Mine(p)' : x # y => x.packets \intersect y.packets = {}
    <3>1. \A x \in Mine(p) : x.packets \intersect h = {}
      BY <1>1, <1>c DEF Covered
    <3> QED BY <1>0, <1>2, <1>4, <3>1 DEF CallOK, Accounted
  <2> QED BY <1>3, <1>b, <2>2, <2>3, <2>4 DEF Accounted
<1>10. Waiting(p)'
  <2>1. \A i \in 1 .. Len(t) : t[i] \subseteq Pieces(t)
    BY DEF Pieces
  <2>2. \A i \in 1 .. Len(t) : t[i] \intersect (c \cup h) = {}
    BY <1>1, <2>1
  <2> QED BY <1>1, <1>3, <1>5, <1>7, <1>b, <2>2 DEF Waiting
<1>11. Taken(p)'
  <2>1. f.header = vnetHdr
    BY <1>2, <1>6
  <2>2. Cardinality(h) > 1 => Agreed(p, f.kind)
    <3>1. Cardinality(h) > 1 => h # {}
      <4>1. Cardinality({}) = 0
        BY FS_EmptySet
      <4>2. h = {} => Cardinality(h) = 0
        BY <4>1, Zenon
      <4> QED BY <4>2
    <3> QED BY <1>1, <1>2, <3>1
  <2>3. \A x \in Mine(p)' : x.header = vnetHdr /\ (Cardinality(x.packets) > 1 => Agreed(p, x.kind))
    BY <1>0, <1>2, <1>4, <2>1, <2>2 DEF CallOK, Taken
  <2> QED BY <1>7, <2>3 DEF Taken
<1>12. CallStep(p, writer[p])
  <2>1. writer[p].call <= calls
    BY <1>0 DEF CallOK, Staged
  <2>2. writer' = [writer EXCEPT ![p] = writer[p]]
    BY <1>0, <1>3
  <2>3. /\ \A x \in written' : x.by = p \/ x \in written
        /\ \A x \in written : x.by = p \/ x \in written'
    BY <1>2, <1>3
  <2>4. /\ calls' \in Nat /\ calls' >= calls /\ writer[p].call <= calls' /\ writeAccess \in {p, None}
        /\ gsoToWrite' \in Seq(SUBSET Nat) /\ table' \subseteq table
    BY <1>0, <1>3, <1>6, <2>1
  <2> QED BY <2>2, <2>3, <2>4, Zenon DEF CallStep
<1> QED BY <1>0, <1>8, <1>9, <1>10, <1>11, <1>12, CallKeeps

(* The system refuses the frame, and its packets are reported. *)
LEMMA FrameRefused ==
  ASSUME IO!DeviceAssumption, WriteInv, NEW p \in AnyWriter, writer[p].at = "write", gsoToWrite # <<>>,
         writer' = [writer EXCEPT ![p].errs = @ + IO!Cardinality(Head(gsoToWrite))], gsoToWrite' = Tail(gsoToWrite),
         UNCHANGED <<device, vnetHdr, groOff, writeAccess, table, calls, written>>
  PROVE  WriteInv'
<1>0. IOTypes /\ CallOK(p) /\ writer[p] \in CallState /\ writer \in [AnyWriter -> CallState] /\ calls \in Nat
      /\ gsoToWrite \in Seq(SUBSET Nat)
  BY DEF WriteInv, IOTypes
<1>b. PICK b : b = writer[p].batch
  OBVIOUS
<1>h. PICK h : h = Head(gsoToWrite)
  OBVIOUS
<1>t. PICK t : t = Tail(gsoToWrite)
  OBVIOUS
<1>c. PICK c : c = Covered(p)
  OBVIOUS
<1>1. /\ h \subseteq 1 .. Len(b) /\ Pieces(gsoToWrite) = h \cup Pieces(t) /\ Pieces(t) \subseteq 1 .. Len(b)
      /\ Cardinality(c \cup Pieces(gsoToWrite)) + writer[p].errs >= Len(b)
      /\ \A i \in 1 .. Len(t) :
           /\ t[i] \subseteq 1 .. Len(b) /\ t[i] \intersect c = {}
           /\ \A j \in 1 .. Len(t) : i # j => t[i] \intersect t[j] = {}
           /\ Cardinality(t[i]) > 1 => \A k \in t[i] : Agreed(p, b[k])
  BY <1>b, <1>h, <1>t, <1>c, NextFrame, Zenon
<1>2. /\ Len(b) \in Nat /\ c \subseteq 1 .. Len(b) /\ writer[p].errs \in Nat
      /\ \A S \in SUBSET (1 .. Len(b)) : IsFiniteSet(S) /\ Cardinality(S) \in Nat
  BY <1>0, <1>b, <1>c, BatchCounted DEF CallState
<1>n. PICK n : n = writer[p].errs + Cardinality(h)
  OBVIOUS
<1>s. PICK s : s = [writer[p] EXCEPT !.errs = n]
  OBVIOUS
<1>3. n \in Nat
  BY <1>1, <1>2, <1>n
<1>4. writer' = [writer EXCEPT ![p] = s] /\ gsoToWrite' = t /\ t \in Seq(SUBSET Nat)
  <2>1. IO!Cardinality(Head(gsoToWrite)) = Cardinality(h)
    BY <1>h, DeviceCounting, Zenon
  <2>2. writer' = [writer EXCEPT ![p].errs = @ + Cardinality(h)]
    BY <2>1, Zenon
  <2> QED BY <1>0, <1>t, <1>n, <1>s, <2>2, PiecesOf
<1>5. s \in CallState /\ s.at = "write" /\ s.batch = b /\ s.call = writer[p].call /\ s.errs = n
  BY <1>0, <1>3, <1>b, <1>s, CallErrs
<1>6. writer'[p] = s /\ Mine(p)' = Mine(p) /\ Covered(p)' = c /\ Rest(p)' = Pieces(t)
  <2>1. writer'[p] = s /\ Mine(p)' = Mine(p)
    BY <1>0, <1>4 DEF Mine
  <2> QED BY <1>4, <1>5, <1>c, <2>1 DEF Covered, Rest
<1>7. writeAccess = p /\ vnetHdr = TRUE /\ writer[p].call # 0 /\ (p = "probe" => device.at = "probe")
  BY <1>0 DEF CallOK, Staged
<1>8. \A k : Agreed(p, k) => Agreed(p, k)'
  <2>1. p # "probe" => writer'["probe"] = writer["probe"]
    BY <1>0, <1>4 DEF AnyWriter
  <2> QED BY <2>1 DEF Agreed
<1>9. Staged(p)'
  BY <1>0, <1>5, <1>6, <1>7 DEF CallOK, Staged
<1>10. Accounted(p)'
  <2> DEFINE left == c \cup Pieces(t)
  <2>1. (Covered(p) \cup Rest(p))' = left /\ c \cup Pieces(gsoToWrite) = left \cup h /\ left \subseteq 1 .. Len(b)
    BY <1>1, <1>2, <1>6
  <2> HIDE DEF left
  <2>2. IsFiniteSet(left) /\ IsFiniteSet(h) /\ Cardinality(left) \in Nat /\ Cardinality(h) \in Nat
        /\ Cardinality(left \intersect h) \in Nat
    BY <1>1, <1>2, <2>1
  <2>3. Cardinality(left \cup h) = Cardinality(left) + Cardinality(h) - Cardinality(left \intersect h)
    BY <2>2, FS_Union, Zenon
  <2>4. Cardinality(c \cup Pieces(gsoToWrite)) = Cardinality(left \cup h)
    BY <2>1, Zenon
  <2>5. Cardinality(left) + n >= Len(b)
    BY <1>1, <1>2, <1>n, <2>2, <2>3, <2>4
  <2>6. Cardinality((Covered(p) \cup Rest(p))') = Cardinality(left)
    BY <2>1, Zenon
  <2>7. Cardinality((Covered(p) \cup Rest(p))') + s.errs >= Len(s.batch)
    BY <1>5, <2>5, <2>6
  <2> QED BY <1>0, <1>5, <1>6, <1>b, <2>7 DEF CallOK, Accounted
<1>11. Waiting(p)'
  BY <1>1, <1>4, <1>5, <1>6, <1>8 DEF Waiting
<1>12. Taken(p)'
  BY <1>0, <1>6, <1>8 DEF CallOK, Taken
<1>13. CallStep(p, s)
  <2>1. s.call <= calls
    BY <1>0, <1>5 DEF CallOK, Staged
  <2>2. /\ calls' \in Nat /\ calls' >= calls /\ s.call <= calls' /\ writeAccess \in {p, None}
        /\ gsoToWrite' \in Seq(SUBSET Nat) /\ table' \subseteq table
    BY <1>0, <1>4, <1>7, <2>1
  <2> QED BY <1>4, <1>5, <1>7, <2>2, Zenon DEF CallStep
<1> QED BY <1>5, <1>9, <1>10, <1>11, <1>12, <1>13, CallKeeps

(* The device was closed under the call, and all its packets are reported. *)
LEMMA FrameClosed ==
  ASSUME IO!DeviceAssumption, WriteInv, NEW p \in AnyWriter, writer[p].at = "write", device.at = "closed",
         writer' = [writer EXCEPT ![p].errs = Len(writer[p].batch), ![p].at = "unlock"],
         UNCHANGED <<device, vnetHdr, groOff, writeAccess, table, calls, written, gsoToWrite>>
  PROVE  WriteInv'
<1>0. IOTypes /\ CallOK(p) /\ writer[p] \in CallState /\ writer \in [AnyWriter -> CallState] /\ calls \in Nat
      /\ gsoToWrite \in Seq(SUBSET Nat)
  BY DEF WriteInv, IOTypes
<1>b. PICK b : b = writer[p].batch
  OBVIOUS
<1> DEFINE m == [writer[p] EXCEPT !.errs = Len(b)]
           s == [m EXCEPT !.at = "unlock"]
<1>1. Len(b) \in Nat
  BY <1>b, BatchCounted
<1>2. writer' = [writer EXCEPT ![p] = s]
  BY <1>0, <1>b
<1>3. m \in CallState /\ m.batch = b /\ m.call = writer[p].call /\ m.errs = Len(b)
  BY <1>0, <1>1, <1>b, CallErrs
<1> HIDE DEF m
<1>4. s \in CallState /\ s.at = "unlock" /\ s.batch = b /\ s.call = writer[p].call /\ s.errs = Len(b)
  BY <1>3, CallAt
<1> HIDE DEF s
<1>5. writer'[p] = s /\ Mine(p)' = Mine(p)
  BY <1>0, <1>2 DEF Mine
<1>6. writeAccess = p /\ vnetHdr = TRUE /\ writer[p].call # 0 /\ p # "probe"
  BY <1>0 DEF CallOK, Staged
<1>7. \A k : Agreed(p, k) => Agreed(p, k)'
  <2>1. writer'["probe"] = writer["probe"]
    BY <1>0, <1>2, <1>6 DEF AnyWriter
  <2> QED BY <2>1 DEF Agreed
<1>8. Staged(p)'
  BY <1>0, <1>4, <1>5, <1>6 DEF CallOK, Staged
<1>9. Accounted(p)' /\ Waiting(p)'
  BY <1>0, <1>4, <1>5, <1>b DEF CallOK, Accounted, Waiting
<1>10. Taken(p)'
  BY <1>0, <1>5, <1>7 DEF CallOK, Taken
<1>11. CallStep(p, s)
  <2>1. s.call <= calls
    BY <1>0, <1>4 DEF CallOK, Staged
  <2>2. /\ calls' \in Nat /\ calls' >= calls /\ s.call <= calls' /\ writeAccess \in {p, None}
        /\ gsoToWrite' \in Seq(SUBSET Nat) /\ table' \subseteq table
    BY <1>0, <1>6, <2>1
  <2> QED BY <1>2, <1>4, <1>6, <2>2, Zenon DEF CallStep
<1> QED BY <1>4, <1>8, <1>9, <1>10, <1>11, CallKeeps

LEMMA WriteFrameKeeps == ASSUME IO!DeviceAssumption, WriteInv, NEW p \in AnyWriter, IO!WriteFrame(p) PROVE WriteInv'
<1>1. writer[p].at = "write" /\ gsoToWrite # <<>> /\ UNCHANGED <<device, vnetHdr, groOff, writeAccess, table, calls>>
  BY DEF IO!WriteFrame, IO!config
<1>2. CASE /\ written' = written \union {IO!Frame(p, Head(gsoToWrite), TRUE)} /\ gsoToWrite' = Tail(gsoToWrite)
           /\ UNCHANGED writer
  BY <1>1, <1>2, FrameTaken
<1>3. CASE /\ writer' = [writer EXCEPT ![p].errs = @ + IO!Cardinality(Head(gsoToWrite))]
           /\ gsoToWrite' = Tail(gsoToWrite) /\ UNCHANGED written
  BY <1>1, <1>3, FrameRefused
<1>4. CASE /\ device.at = "closed" /\ writer' = [writer EXCEPT ![p].errs = Len(writer[p].batch), ![p].at = "unlock"]
           /\ UNCHANGED <<gsoToWrite, written>>
  BY <1>1, <1>4, FrameClosed
<1> QED BY <1>2, <1>3, <1>4 DEF IO!WriteFrame

LEMMA WriteInvariant == Spec => [](part = "io" => WriteInv)
<1> USE DeviceAssumed
<1>1. IO!Init => WriteInv
  BY InitWrite
<1>2. WriteInv /\ [IO!Next]_(IO!vars) => WriteInv'
  <2> SUFFICES ASSUME WriteInv, [IO!Next]_(IO!vars) PROVE WriteInv'
    OBVIOUS
  <2>1. ASSUME UNCHANGED <<IO!config, IO!writing>> PROVE WriteInv'
    <3>1. UNCHANGED <<device, vnetHdr, groOff, writeAccess, gsoToWrite, table, writer, written, calls>>
      BY <2>1 DEF IO!config, IO!writing
    <3>2. IOTypes' /\ Configured'
      BY <3>1 DEF WriteInv, IOTypes, Configured
    <3>3. IOFlags'
      BY <3>1, Zenon DEF WriteInv, IOFlags
    <3>4. ASSUME NEW q \in AnyWriter PROVE CallOK(q)'
      <4>1. Mine(q)' = Mine(q) /\ Covered(q)' = Covered(q) /\ Rest(q)' = Rest(q)
        BY <3>1 DEF Mine, Covered, Rest, Pieces
      <4>2. Staged(q) /\ Accounted(q) /\ Waiting(q) /\ Taken(q)
        BY DEF WriteInv, CallOK
      <4>3. Staged(q)'
        BY <3>1, <4>1, <4>2 DEF Staged
      <4>4. Accounted(q)'
        BY <3>1, <4>1, <4>2, Zenon DEF Accounted
      <4>5. Waiting(q)' /\ Taken(q)'
        BY <3>1, <4>1, <4>2 DEF Waiting, Taken, Agreed
      <4> QED BY <4>3, <4>4, <4>5 DEF CallOK
    <3> QED BY <3>2, <3>3, <3>4 DEF WriteInv
  <2>2. CASE UNCHANGED IO!vars \/ \E r \in Readers : IO!BatchRead(r) \/ IO!handleVirtioRead(r)
    <3>1. UNCHANGED <<IO!config, IO!writing>>
      BY <2>2 DEF IO!vars, IO!BatchRead, IO!handleVirtioRead
    <3> QED BY <2>1, <3>1
  <2>3. CASE IO!Configure \/ IO!Close
    BY <2>3, ConfigureKeeps
  <2>4. CASE IO!probeTCPGRO
    <3>1. device.at = "probe" /\ IO!Called("probe", <<"tcp", "tcp">>)
      BY <2>4, DeviceCounting DEF IO!probeTCPGRO
    <3>2. <<"tcp", "tcp">> \in Seq(OffloadKinds \union {"other"}) /\ "probe" \in AnyWriter
      BY DEF OffloadKinds, AnyWriter
    <3> QED BY <3>1, <3>2, CalledKeeps
  <2>5. CASE \E p \in Writers : IO!BatchWrite(p)
    <3>1. PICK p \in Writers, b \in Batches : device.at = "up" /\ (vnetHdr \/ Len(b) = 1) /\ IO!Called(p, b)
      BY <2>5 DEF IO!BatchWrite
    <3>2. p \in AnyWriter /\ p # "probe" /\ b \in Seq(OffloadKinds \union {"other"})
      BY DeviceCounting DEF AnyWriter
    <3> QED BY <3>1, <3>2, CalledKeeps
  <2>6. CASE \E p \in IO!AllWriters : IO!WriterRuns(p)
    <3>1. PICK p \in AnyWriter : IO!WriterRuns(p)
      BY <2>6, DeviceCounting
    <3> QED BY <3>1, WriteLockKeeps, GROKeeps, WriteFrameKeeps, UnlockKeeps, WriteFileKeeps DEF IO!WriterRuns
  <2> QED BY <2>2, <2>3, <2>4, <2>5, <2>6 DEF IO!Next
<1>3. Init => (part = "io" => WriteInv)
  BY <1>1 DEF Init, PingPart
<1>4. (part = "io" => WriteInv) /\ [Next]_vars => (part = "io" => WriteInv)'
  <2> SUFFICES ASSUME part = "io" => WriteInv, [Next]_vars, part' = "io" PROVE WriteInv'
    OBVIOUS
  <2>1. part = "io" /\ [IO!Next]_(IO!vars)
    BY DEF Next, vars, IO!vars, IO!config, IO!writing, IO!reading,
           vnetHdr, groOff, writeAccess, device, written, writer, gsoToWrite, table,
           readAccess, buffer, reader, sent, delivered, calls, failures
  <2> QED BY <1>2, <2>1
<1> QED BY <1>3, <1>4, PTL DEF Spec

LEMMA ReadInvariant == Spec => [](part = "io" => ReadInv)
<1> USE DeviceAssumed
<1>1. IO!Init => ReadInv
  BY InitRead
<1>2. ReadInv /\ [IO!Next]_(IO!vars) => ReadInv'
  <2> SUFFICES ASSUME ReadInv, [IO!Next]_(IO!vars) PROVE ReadInv'
    OBVIOUS
  <2>1. ASSUME UNCHANGED IO!reading PROVE ReadInv'
    BY <2>1 DEF IO!reading, ReadInv
  <2>2. CASE UNCHANGED IO!vars
    BY <2>1, <2>2 DEF IO!vars
  <2>3. CASE IO!Configure \/ IO!Close
    BY <2>1, <2>3 DEF IO!Configure, IO!Close, IO!Open, IO!EnableGSOFails, IO!EnableTCP, IO!EnableUDP, IO!ProbeEnds, IO!NoProbe
  <2>4. CASE IO!probeTCPGRO \/ \E p \in Writers : IO!BatchWrite(p)
    BY <2>1, <2>4 DEF IO!probeTCPGRO, IO!BatchWrite, IO!Called
  <2>5. CASE \E p \in IO!AllWriters : IO!WriterRuns(p)
    BY <2>1, <2>5 DEF IO!WriterRuns, IO!WriteLock, IO!handleGRO, IO!WriteFrame, IO!WriteUnlock, IO!Write
  <2>6. CASE \E r \in Readers : IO!BatchRead(r) \/ IO!handleVirtioRead(r)
    BY <2>6, BatchReadKeeps, VirtioReadKeeps
  <2> QED BY <2>2, <2>3, <2>4, <2>5, <2>6 DEF IO!Next
<1>3. Init => (part = "io" => ReadInv)
  BY <1>1 DEF Init, PingPart
<1>4. (part = "io" => ReadInv) /\ [Next]_vars => (part = "io" => ReadInv)'
  <2> SUFFICES ASSUME part = "io" => ReadInv, [Next]_vars, part' = "io" PROVE ReadInv'
    OBVIOUS
  <2>1. part = "io" /\ [IO!Next]_(IO!vars)
    BY DEF Next, vars, IO!vars, IO!config, IO!writing, IO!reading,
           vnetHdr, groOff, writeAccess, device, written, writer, gsoToWrite, table,
           readAccess, buffer, reader, sent, delivered, calls, failures
  <2> QED BY <1>2, <2>1
<1> QED BY <1>3, <1>4, PTL DEF Spec

-----------------------------------------------------------------------------
(* Nothing leaks, for any number of connections, requests, sockets and      *)
(* retries: the forwarder counts the handshakes under way and the ICMP      *)
(* slots the detached requests, an open ping socket can be found or is      *)
(* about to be closed, and after Close a stack holds nothing (Forward and   *)
(* Complete, the ICMP handlers, ping.Destination, UnprivilegedConn, Start   *)
(* and Close of the stacks).                                                *)
THEOREM LeaksTheorem == Spec => []NothingLeaks
<1>1. ForwardInv => Fwd!TypeOK /\ Fwd!NothingLeaks
  BY ForwardAssumed, ForwardHolds
<1>2. EchoInv => ICMP!TypeOK /\ ICMP!NothingLeaks
  BY RequestsAssumed, EchoHolds
<1>3. SocketInv => Unpriv!TypeOK /\ Unpriv!NothingLeaks
  BY SocketsHold
<1>4. LifeInv => Life!TypeOK /\ Life!NothingLeaks
  BY StartAssumed, LifeHolds
<1>5. PingInv => Ping!TypeOK /\ Ping!NothingLeaks
  BY TablesAssumed, PingHolds
<1>6. /\ part = "forward" => ForwardInv
      /\ part = "icmp" => EchoInv
      /\ part = "unprivileged" => SocketInv
      /\ part = "lifecycle" => LifeInv
      /\ PingPart => PingInv
      => NothingLeaks
  BY <1>1, <1>2, <1>3, <1>4, <1>5 DEF NothingLeaks
<1> QED BY <1>6, ForwardInvariant, EchoInvariant, SocketInvariant, LifeInvariant, PingInvariant, PTL

(* A ping is answered at most once, only when it was asked and by whom the  *)
(* handler's verdict says, and the table of requests stays within its       *)
(* limit, whatever replies reach the socket (the ICMP paths of the stacks,  *)
(* ping.Destination).                                                       *)
THEOREM PingsTheorem == Spec => []PingsAnsweredRight
<1>1. (part = "icmp" => EchoInv) /\ (PingPart => PingInv) => PingsAnsweredRight
  BY RequestsAssumed, TablesAssumed, EchoHolds, PingHolds DEF PingsAnsweredRight
<1> QED BY <1>1, EchoInvariant, PingInvariant, PTL

(* A lookup returns a destination whose socket is open, unless its reader   *)
(* is between the two halves of Close (it has closed the socket and has not *)
(* stored the flag); and a request is in the table when it is sent, which   *)
(* forgets at most one other for it, an oldest one and only when it is full *)
(* (DirectRouteMapping.Lookup, Conn.Close, ping.Destination.WritePacket).   *)
THEOREM RequestsTheorem == Spec => RequestsFindTheirWay
<1>1. (PingPart => PingInv) /\ [Next]_vars => [PingPart => Ping!RequestsFindTheirWay]_vars
  <2> SUFFICES ASSUME PingPart, PingInv, Next, vars' # vars PROVE Ping!RequestsFindTheirWay
    BY Zenon
  <2>1. Ping!Next /\ UNCHANGED <<part, v7, v8, v9, v10, v11, v12, v13, v14, v15>>
    BY DEF PingPart, Next
  <2>2. ~UNCHANGED Ping!vars
    BY <2>1 DEF vars, Ping!vars, cache, dest, wire, asked, owed, writes
  <2> QED BY <2>1, <2>2, TablesAssumed, PingStep
<1> QED BY <1>1, PingInvariant, PTL DEF Spec, RequestsFindTheirWay

(* The read loops give every borrowed buffer back exactly once, and not     *)
(* before it was written, write each packet that is to go back once and in  *)
(* order, and end only when the device is closed or, on Windows, fails, for *)
(* batches of any size (tunLoop, wintunLoop, batchLoopLinux,                *)
(* batchLoopDarwin, readLoop).                                              *)
THEOREM BuffersTheorem == Spec => []BuffersReturned
<1>1. ASSUME LoopInv PROVE Loops!TypeOK /\ Loops!BuffersReturned
  <2>0. LoopTypes /\ LoopPlace /\ LoopOrder /\ LoopBuffers /\ failed \in BOOLEAN
    BY <1>1 DEF LoopInv
  <2>1. /\ DOMAIN batch = 1 .. Len(batch) /\ DOMAIN queue = 1 .. Len(queue) /\ DOMAIN written = 1 .. Len(written)
        /\ seen \in Nat /\ Len(batch) \in Nat
    BY <2>0 DEF LoopTypes
  <2>2. \A k \in DOMAIN queue : queue[k] \in 1 .. seen /\ released[queue[k]] = 0
    <3>1. \A k \in DOMAIN queue : queue[k] \in Members(queue) /\ queue[k] \in 1 .. Processed
      BY <2>0, <2>1 DEF LoopOrder, Members
    <3>2. \A k \in DOMAIN queue : queue[k] \in 1 .. seen
      BY <2>0, <2>1, <3>1 DEF Processed, LoopPlace
    <3> QED BY <2>0, <3>1, <3>2 DEF LoopBuffers, LoopTypes
  <2>3. \A k \in DOMAIN batch : batch[k] \in 1 .. seen
    BY <2>0, <2>1 DEF LoopPlace, Processed
  <2>4. Loops!TypeOK
    <3>1. failed \in BOOLEAN
      BY <2>0
    <3> QED BY <2>0, <2>2, <2>3, <3>1 DEF LoopTypes, Verdicts, Loops!TypeOK
  <2>5. ASSUME pc \in {"read", "ended"} PROVE queue = <<>> /\ Processed = seen /\ Members(queue) = {}
    <3>1. queue = <<>> /\ batch = <<>>
      BY <2>0, <2>5 DEF LoopPlace
    <3> QED BY <2>1, <3>1, NoMembers DEF Processed
  <2>6. Loops!ReleasedOnce
    BY <2>0, <2>1, <2>2, <2>5 DEF Loops!ReleasedOnce, LoopBuffers
  <2>7. Loops!WrittenOnce
    <3> SUFFICES ASSUME pc \in {"read", "ended"}
                 PROVE  /\ \A i, j \in DOMAIN written : i < j => written[i] < written[j]
                        /\ {written[i] : i \in DOMAIN written} = {p \in 1 .. seen : packet[p] = "back"}
      BY DEF Loops!WrittenOnce
    <3>1. Ascends(written) /\ Members(written) = {p \in 1 .. seen : packet[p] = "back"}
      BY <2>0, <2>5 DEF LoopOrder
    <3> QED BY <2>1, <3>1 DEF Ascends, Members
  <2>8. Loops!EndsForAReason
    BY <2>0 DEF LoopPlace, Loops!EndsForAReason
  <2> QED BY <2>4, <2>6, <2>7, <2>8 DEF Loops!BuffersReturned
<1>2. (part = "loops" => LoopInv) => BuffersReturned
  BY <1>1 DEF BuffersReturned
<1> QED BY <1>2, LoopInvariant, PTL

(* When a call of BatchWrite or Write returns, every packet of its batch    *)
(* is in exactly one frame the system took or is reported, coalesced frames *)
(* are of kinds the system agreed to and after a probe that did not fail,   *)
(* every frame has the header the file wants unless an offload was refused  *)
(* after it was opened, and no frame is read twice, for any number of       *)
(* goroutines, batches of any size and any failures (NativeTun of           *)
(* tun_linux.go).                                                           *)
THEOREM PacketsTheorem == Spec => []EveryPacketAccounted
<1> USE DeviceAssumed
<1>1. ASSUME WriteInv, ReadInv PROVE IO!TypeOK /\ IO!EveryPacketAccounted
  <2>0. IOTypes /\ IOFlags /\ Configured /\ \A q \in AnyWriter : CallOK(q)
    BY <1>1 DEF WriteInv
  <2>1. IO!TypeOK
    <3>1. vnetHdr \in BOOLEAN
      BY <2>0 DEF IOFlags
    <3> QED BY <1>1, <2>0, <3>1, DeviceCounting DEF IO!TypeOK, IOTypes, CallOK, Staged, ReadInv
  <2>2. IO!BatchAccounted
    <3> SUFFICES ASSUME NEW p \in AnyWriter, writer[p].at \in {"idle", "done"}, writer[p].call > 0
                 PROVE  LET mine == {f \in written : f.by = p /\ f.call = writer[p].call}
                        IN  /\ \A f, g \in mine : f # g => f.packets \intersect g.packets = {}
                            /\ IO!Cardinality(UNION {f.packets : f \in mine}) + writer[p].errs >= Len(writer[p].batch)
                            /\ writer[p].call \notin table
      BY DeviceCounting, Zenon DEF IO!BatchAccounted
    <3> DEFINE mine == {f \in written : f.by = p /\ f.call = writer[p].call}
    <3>1. Staged(p) /\ Accounted(p)
      BY <2>0 DEF CallOK
    <3>2. mine = Mine(p)
      BY <3>1 DEF Mine, Accounted
    <3> HIDE DEF mine
    <3>3. Rest(p) = {} /\ Covered(p) \cup Rest(p) = Covered(p)
      BY DEF Rest
    <3>4. Cardinality(Covered(p)) + writer[p].errs >= Len(writer[p].batch)
      BY <3>1, <3>3 DEF Accounted
    <3>5. IO!Cardinality(UNION {f.packets : f \in mine}) = Cardinality(Covered(p))
      BY <3>2, DeviceCounting, Zenon DEF Covered
    <3>6. \A f, g \in mine : f # g => f.packets \intersect g.packets = {}
      BY <3>1, <3>2 DEF Accounted
    <3>7. writer[p].call \notin table
      BY <3>1 DEF Staged
    <3>8. IO!Cardinality(UNION {f.packets : f \in mine}) + writer[p].errs >= Len(writer[p].batch)
      BY <3>4, <3>5
    <3> QED BY <3>6, <3>7, <3>8, Zenon DEF mine
  <2>3. IO!CoalescedIsAccepted
    <3> SUFFICES ASSUME NEW f \in written, Cardinality(f.packets) > 1
                 PROVE  f.kind \in device.offload /\ (f.by # "probe" => writer["probe"].errs = 0)
      BY DeviceCounting DEF IO!CoalescedIsAccepted
    <3>1. f.by \in AnyWriter /\ f \in Mine(f.by)
      BY <2>0 DEF IOTypes, Mine
    <3> QED BY <2>0, <3>1 DEF CallOK, Taken, Agreed
  <2>4. IO!HeadersMatch
    <3>1. ASSUME NEW f \in written PROVE f.header = vnetHdr
      <4>1. f.by \in AnyWriter /\ f \in Mine(f.by)
        BY <2>0 DEF IOTypes, Mine
      <4> QED BY <2>0, <4>1 DEF CallOK, Taken
    <3>2. vnetHdr \in BOOLEAN
      BY <2>0 DEF IOFlags
    <3>3. device.header \in BOOLEAN
      BY <2>0 DEF IOFlags, FileState
    <3>4. vnetHdr = TRUE => device.header = TRUE
      BY <2>0, Zenon DEF Configured
    <3>5. device.header = vnetHdr \/ (device.header = TRUE /\ vnetHdr = FALSE)
      BY <3>2, <3>3, <3>4, Zenon
    <3>6. CASE device.header = vnetHdr
      BY <3>1, <3>6, Zenon DEF IO!HeadersMatch
    <3>7. CASE device.header = TRUE /\ vnetHdr = FALSE
      BY <3>7, Zenon DEF IO!HeadersMatch, IO!GaveUp
    <3> QED BY <3>5, <3>6, <3>7
  <2>5. IO!ReadsIntact
    <3>1. DOMAIN delivered = 1 .. Len(delivered) /\ Ascends(delivered)
      BY <1>1 DEF ReadInv
    <3> QED BY <3>1 DEF Ascends, IO!ReadsIntact
  <2> QED BY <2>1, <2>2, <2>3, <2>4, <2>5 DEF IO!EveryPacketAccounted
<1>2. (part = "io" => WriteInv) /\ (part = "io" => ReadInv) => EveryPacketAccounted
  BY <1>1 DEF EveryPacketAccounted
<1> QED BY <1>2, WriteInvariant, ReadInvariant, PTL
=============================================================================
