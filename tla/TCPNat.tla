------------------------------- MODULE TCPNat -------------------------------
(***************************************************************************)
(* The TCP NAT of the system and mixed stacks (stack_system_nat.go).        *)
(*                                                                          *)
(* Any thread may call Lookup and LookupBack; one more goroutine, the       *)
(* Checker, runs checkTimeout.  A step is what happens between two points   *)
(* at which another goroutine can interfere: a read under RLock is one      *)
(* step, the write locks are state because they are held across steps, and  *)
(* the session mutex is never held across one.                              *)
(***************************************************************************)
EXTENDS Integers

CONSTANTS
  Threads,       \* goroutines that call Lookup and LookupBack
  Checker,       \* the goroutine of loopCheckTimeout
  Nobody,        \* the holder of a free lock
  Keys,          \* tcpNatKey values
  Sessions,      \* the addresses *TCPSession values are allocated at
  NoKey, NoSession,
  MinPort, MaxPort,   \* 10000 and 65535 in the code
  Timeout,       \* TCPNat.timeout
  Grain,         \* the second below which refresh does not write LastActive
  MaxTime        \* bound of the model: the clock stops here

Ports == MinPort .. MaxPort
NoPort == 0      \* the port Lookup returns with an error
Lockers == Threads \cup {Checker}

ASSUME PortAssumption ==
  /\ MinPort \in Nat /\ MaxPort \in Nat
  /\ 0 < MinPort /\ MinPort < MaxPort
ASSUME TimeAssumption ==
  /\ Timeout \in Nat /\ Grain \in Nat /\ MaxTime \in Nat
ASSUME NameAssumption ==
  /\ NoKey \notin Keys
  /\ NoSession \notin Sessions
  /\ Checker \notin Threads
  /\ Nobody \notin Lockers

VARIABLES
  clock,         \* time.Now()
  ctxDone,       \* the context of NewNat is cancelled
  portIndex, addrMap, portMap,      \* the fields of TCPNat
  addrAccess, portAccess,           \* write holder of each RWMutex
  sessKey, lastActive,              \* the fields of each TCPSession
  lastUse,       \* history: when refresh was last called on the session
  pc, key, port, sess,              \* each thread's position and locals
  cpc, cnow, expired                \* checkTimeout's position and locals

natVars == <<portIndex, addrMap, portMap>>
lockVars == <<addrAccess, portAccess>>
sessVars == <<sessKey, lastActive, lastUse>>
threadVars == <<pc, key, port, sess>>
checkVars == <<cpc, cnow, expired>>
vars == <<clock, ctxDone, natVars, lockVars, sessVars, threadVars, checkVars>>

ThreadPC == {"idle", "read", "refresh", "touch", "lock", "locked", "lockedRefresh",
             "lockedTouch", "allocate", "done", "back", "backTouch", "backDone"}
CheckPC == {"wait", "scan", "lockAddr", "lockPort", "delete", "stopped"}

TypeOK ==
  /\ clock \in Nat
  /\ ctxDone \in BOOLEAN
  /\ portIndex \in Ports \cup {0}
  /\ addrMap \in [Keys -> Ports \cup {NoPort}]
  /\ portMap \in [Ports -> Sessions \cup {NoSession}]
  /\ addrAccess \in Lockers \cup {Nobody}
  /\ portAccess \in Lockers \cup {Nobody}
  /\ sessKey \in [Sessions -> Keys \cup {NoKey}]
  /\ lastActive \in [Sessions -> Nat]
  /\ lastUse \in [Sessions -> Nat]
  /\ pc \in [Threads -> ThreadPC]
  /\ key \in [Threads -> Keys \cup {NoKey}]
  /\ port \in [Threads -> Ports \cup {NoPort}]
  /\ sess \in [Threads -> Sessions \cup {NoSession}]
  /\ cpc \in CheckPC
  /\ cnow \in Nat
  /\ expired \subseteq Ports \X Sessions

\* NewNat.
Init ==
  /\ clock = 0 /\ ctxDone = FALSE
  /\ portIndex = MinPort
  /\ addrMap = [k \in Keys |-> NoPort]
  /\ portMap = [p \in Ports |-> NoSession]
  /\ addrAccess = Nobody /\ portAccess = Nobody
  /\ sessKey = [s \in Sessions |-> NoKey]
  /\ lastActive = [s \in Sessions |-> 0]
  /\ lastUse = [s \in Sessions |-> 0]
  /\ pc = [t \in Threads |-> "idle"]
  /\ key = [t \in Threads |-> NoKey]
  /\ port = [t \in Threads |-> NoPort]
  /\ sess = [t \in Threads |-> NoSession]
  /\ cpc = "wait" /\ cnow = 0 /\ expired = {}
-----------------------------------------------------------------------------
(* Locks.  RLock succeeds when no writer holds the lock. *)
CanRLock(lock) == lock = Nobody

GoTo(t, from, to) ==
  /\ pc[t] = from
  /\ pc' = [pc EXCEPT ![t] = to]

(* session.refresh: LastActive moves only when it is more than Grain old. *)
Refresh(s) ==
  /\ lastActive' = [lastActive EXCEPT ![s] = IF clock - @ > Grain THEN clock ELSE @]
  /\ lastUse' = [lastUse EXCEPT ![s] = clock]
  /\ UNCHANGED sessKey

(* A session is reachable from the port map, a local variable or the list *)
(* checkTimeout collected; only unreachable memory is allocated again.    *)
Reachable == {portMap[p] : p \in Ports} \cup {sess[t] : t \in Threads}
               \cup {e[2] : e \in expired}
-----------------------------------------------------------------------------
(* allocatePortLocked.  The i-th port tried, counting from 0: portIndex is  *)
(* a uint16 that wraps from 65535 to 0, and 0 stands for 10000.             *)
First == IF portIndex = 0 THEN MinPort ELSE portIndex
Tried(i) == IF First + i <= MaxPort
            THEN First + i
            ELSE First + i - (MaxPort - MinPort + 1)
IndexAfter(p) == IF p = MaxPort THEN 0 ELSE p + 1
Occupied(p) == portMap[p] # NoSession
Tries == 0 .. MaxPort - MinPort

AllocatedAt(i) == ~Occupied(Tried(i)) /\ \A j \in 0 .. i - 1 : Occupied(Tried(j))
ExhaustedEarly == \A i \in 0 .. MaxPort - MinPort - 1 : Occupied(Tried(i))  \* slip: off by one
Exhausted == \A i \in Tries : Occupied(Tried(i))
-----------------------------------------------------------------------------
(* Lookup(source, destination) *)
CallLookup(t, k) ==
  /\ GoTo(t, "idle", "read")
  /\ key' = [key EXCEPT ![t] = k]
  /\ UNCHANGED <<clock, ctxDone, natVars, lockVars, sessVars, port, sess, checkVars>>

LookupRead(t) ==
  /\ CanRLock(addrAccess)
  /\ GoTo(t, "read", IF addrMap[key[t]] # NoPort THEN "refresh" ELSE "lock")
  /\ port' = [port EXCEPT ![t] = addrMap[key[t]]]
  /\ UNCHANGED <<clock, ctxDone, natVars, lockVars, sessVars, key, sess, checkVars>>

\* n.refresh(port): by now the port may have no session, or another one.
RefreshRead(t) ==
  /\ CanRLock(portAccess)
  /\ LET s == portMap[port[t]] IN
     /\ \/ /\ GoTo(t, "refresh", IF s # NoSession THEN "touch" ELSE "done")
           /\ UNCHANGED addrAccess
        \/ /\ GoTo(t, "lockedRefresh", IF s # NoSession THEN "lockedTouch" ELSE "done")
           /\ addrAccess' = IF s # NoSession THEN addrAccess ELSE Nobody
     /\ sess' = [sess EXCEPT ![t] = s]
  /\ UNCHANGED <<clock, ctxDone, natVars, portAccess, sessVars, key, port, checkVars>>

\* slip: after a refresh the flow is looked up again, to be sure it is still there
RefreshTouchAgain(t) ==
  /\ \/ GoTo(t, "touch", "read") /\ UNCHANGED addrAccess
     \/ GoTo(t, "lockedTouch", "read") /\ addrAccess' = Nobody
  /\ Refresh(sess[t])
  /\ sess' = [sess EXCEPT ![t] = NoSession]
  /\ port' = [port EXCEPT ![t] = NoPort]
  /\ UNCHANGED <<clock, ctxDone, natVars, portAccess, key, checkVars>>

RefreshTouch(t) ==
  /\ \/ GoTo(t, "touch", "done") /\ UNCHANGED addrAccess
     \/ GoTo(t, "lockedTouch", "done") /\ addrAccess' = Nobody
  /\ Refresh(sess[t])
  /\ sess' = [sess EXCEPT ![t] = NoSession]
  /\ UNCHANGED <<clock, ctxDone, natVars, portAccess, key, port, checkVars>>

LookupLock(t) ==
  /\ addrAccess = Nobody
  /\ GoTo(t, "lock", "locked")
  /\ addrAccess' = t
  /\ UNCHANGED <<clock, ctxDone, natVars, portAccess, sessVars, key, port, sess, checkVars>>

LookupReread(t) ==
  /\ GoTo(t, "locked", IF addrMap[key[t]] # NoPort THEN "lockedRefresh" ELSE "allocate")
  /\ port' = [port EXCEPT ![t] = addrMap[key[t]]]
  /\ UNCHANGED <<clock, ctxDone, natVars, lockVars, sessVars, key, sess, checkVars>>

\* portAccess.Lock, allocatePortLocked, both insertions, both unlocks.  A
\* thread that holds addrAccess never waits for anything while it holds
\* portAccess, so the acquisition and the release fall into one step.
LookupInsert(t) ==
  /\ portAccess = Nobody
  /\ GoTo(t, "allocate", "done")
  /\ addrAccess' = Nobody
  /\ \E i \in Tries, s \in Sessions \ Reachable :
       /\ AllocatedAt(i)
       /\ portIndex' = IndexAfter(Tried(i))
       /\ portMap' = [portMap EXCEPT ![Tried(i)] = s]
       /\ addrMap' = [addrMap EXCEPT ![key[t]] = Tried(i)]
       /\ port' = [port EXCEPT ![t] = Tried(i)]
       /\ sessKey' = [sessKey EXCEPT ![s] = key[t]]
       /\ lastActive' = [lastActive EXCEPT ![s] = clock]
       /\ lastUse' = [lastUse EXCEPT ![s] = clock]
  /\ UNCHANGED <<clock, ctxDone, portAccess, key, sess, checkVars>>

LookupExhausted(t) ==
  /\ portAccess = Nobody
  /\ GoTo(t, "allocate", "done")
  /\ addrAccess' = Nobody
  /\ Exhausted
  /\ portIndex' = IndexAfter(Tried(MaxPort - MinPort))
  /\ UNCHANGED <<clock, ctxDone, addrMap, portMap, portAccess, sessVars,
                 key, port, sess, checkVars>>

(* LookupBack(port) *)
CallLookupBack(t, p) ==
  /\ GoTo(t, "idle", "back")
  /\ port' = [port EXCEPT ![t] = p]
  /\ UNCHANGED <<clock, ctxDone, natVars, lockVars, sessVars, key, sess, checkVars>>

LookupBackRead(t) ==
  /\ CanRLock(portAccess)
  /\ GoTo(t, "back", IF portMap[port[t]] # NoSession THEN "backTouch" ELSE "backDone")
  /\ sess' = [sess EXCEPT ![t] = portMap[port[t]]]
  /\ UNCHANGED <<clock, ctxDone, natVars, lockVars, sessVars, key, port, checkVars>>

LookupBackTouch(t) ==
  /\ GoTo(t, "backTouch", "backDone")
  /\ Refresh(sess[t])
  /\ UNCHANGED <<clock, ctxDone, natVars, lockVars, key, port, sess, checkVars>>

\* The caller takes the result: a port (or the error), or a session.
Return(t) ==
  /\ GoTo(t, pc[t], "idle")
  /\ pc[t] \in {"done", "backDone"}
  /\ key' = [key EXCEPT ![t] = NoKey]
  /\ port' = [port EXCEPT ![t] = NoPort]
  /\ sess' = [sess EXCEPT ![t] = NoSession]
  /\ UNCHANGED <<clock, ctxDone, natVars, lockVars, sessVars, checkVars>>
-----------------------------------------------------------------------------
(* checkTimeout *)
CheckGoTo(from, to) == cpc = from /\ cpc' = to

\* slip: the time is read once, before the loop
CheckStartOldNow ==
  /\ CheckGoTo("wait", "scan")
  /\ UNCHANGED <<clock, ctxDone, natVars, lockVars, sessVars, threadVars, cnow, expired>>

\* The ticker fires and the select takes its branch, which it may do even
\* after the context is cancelled.
CheckStart ==
  /\ CheckGoTo("wait", "scan")
  /\ cnow' = clock
  /\ UNCHANGED <<clock, ctxDone, natVars, lockVars, sessVars, threadVars, expired>>

TimedOut(s) == cnow - lastActive[s] > Timeout

CheckScan ==
  /\ CanRLock(portAccess)
  /\ expired' = {e \in Ports \X Sessions : portMap[e[1]] = e[2] /\ TimedOut(e[2])}
  /\ CheckGoTo("scan", IF expired' = {} THEN "wait" ELSE "lockAddr")
  /\ cnow' = IF expired' = {} THEN 0 ELSE cnow
  /\ UNCHANGED <<clock, ctxDone, natVars, lockVars, sessVars, threadVars>>

CheckLockAddr ==
  /\ addrAccess = Nobody
  /\ CheckGoTo("lockAddr", "lockPort")
  /\ addrAccess' = Checker
  /\ UNCHANGED <<clock, ctxDone, natVars, portAccess, sessVars, threadVars, cnow, expired>>

CheckLockPort ==
  /\ portAccess = Nobody
  /\ CheckGoTo("lockPort", "delete")
  /\ portAccess' = Checker
  /\ UNCHANGED <<clock, ctxDone, natVars, addrAccess, sessVars, threadVars, cnow, expired>>

\* slip: what the scan collected is deleted without looking again
StillExpiredUnchecked == expired

\* Every collected session is looked at again: one that was refreshed since
\* the scan is kept.
StillExpired == {e \in expired : TimedOut(e[2])}

\* slip: only the port map is cleaned
CheckDeletePortOnly ==
  /\ CheckGoTo("delete", "wait")
  /\ portMap' = [p \in Ports |-> IF \E e \in StillExpired : e[1] = p
                                 THEN NoSession ELSE portMap[p]]
  /\ addrAccess' = Nobody /\ portAccess' = Nobody
  /\ expired' = {} /\ cnow' = 0
  /\ UNCHANGED <<clock, ctxDone, portIndex, addrMap, sessVars, threadVars>>

CheckDelete ==
  /\ CheckGoTo("delete", "wait")
  /\ addrMap' = [k \in Keys |-> IF \E e \in StillExpired : sessKey[e[2]] = k
                                THEN NoPort ELSE addrMap[k]]
  /\ portMap' = [p \in Ports |-> IF \E e \in StillExpired : e[1] = p
                                 THEN NoSession ELSE portMap[p]]
  /\ addrAccess' = Nobody /\ portAccess' = Nobody
  /\ expired' = {} /\ cnow' = 0
  /\ UNCHANGED <<clock, ctxDone, portIndex, sessVars, threadVars>>

CheckStop ==
  /\ ctxDone
  /\ CheckGoTo("wait", "stopped")
  /\ UNCHANGED <<clock, ctxDone, natVars, lockVars, sessVars, threadVars, cnow, expired>>
-----------------------------------------------------------------------------
Tick ==
  /\ clock < MaxTime
  /\ clock' = clock + 1
  /\ UNCHANGED <<ctxDone, natVars, lockVars, sessVars, threadVars, checkVars>>

Cancel ==
  /\ ~ctxDone
  /\ ctxDone' = TRUE
  /\ UNCHANGED <<clock, natVars, lockVars, sessVars, threadVars, checkVars>>

ThreadStep(t) ==
  \/ LookupRead(t) \/ RefreshRead(t) \/ RefreshTouch(t)
  \/ LookupLock(t) \/ LookupReread(t) \/ LookupInsert(t) \/ LookupExhausted(t)
  \/ LookupBackRead(t) \/ LookupBackTouch(t) \/ Return(t)

CheckStep ==
  CheckScan \/ CheckLockAddr \/ CheckLockPort \/ CheckDelete

Next ==
  \/ \E t \in Threads :
       \/ \E k \in Keys : CallLookup(t, k)
       \/ \E p \in Ports : CallLookupBack(t, p)
       \/ ThreadStep(t)
  \/ CheckStart \/ CheckStep \/ CheckStop
  \/ Tick \/ Cancel

Spec == Init /\ [][Next]_vars

(* Go's locks are not unfair for ever (a waiting writer stops new readers,  *)
(* a starving waiter is served first), so a call that is able to go on      *)
(* again and again goes on; the ticker keeps firing.  Callers, the clock    *)
(* and the cancellation are under no obligation.                            *)
Fairness ==
  /\ \A t \in Threads : SF_vars(ThreadStep(t))
  /\ SF_vars(CheckStep)
  /\ WF_vars(CheckStart)

FairSpec == Spec /\ Fairness
-----------------------------------------------------------------------------
(* The two maps are updated together and stay inverse to each other: a flow *)
(* has a port exactly when that port's session is the flow's.  A port left  *)
(* in one map only would be lost for ever or answer for a dead flow.        *)
MapsAgree ==
  \A k \in Keys, p \in Ports :
    addrMap[k] = p <=> portMap[p] # NoSession /\ sessKey[portMap[p]] = k

(* checkTimeout takes a session away only when nothing has used it for more *)
(* than the timeout less the second that refresh may skip, whatever refresh *)
(* ran between the scan, the locks and the deletion.                        *)
EvictsOnlyIdle ==
  [][\A p \in Ports : portMap[p] # NoSession /\ portMap'[p] # portMap[p] =>
       clock - lastUse[portMap[p]] > Timeout - Grain]_vars

(* The inductive invariant behind the properties above. *)
\* A thread has the locals its position needs.
LookupPC == {"read", "lock", "locked", "allocate"}
AnsweredPC == {"refresh", "touch", "lockedRefresh", "lockedTouch"}
LocalsReady ==
  \A t \in Threads :
    /\ pc[t] \in LookupPC => key[t] \in Keys
    /\ pc[t] \in AnsweredPC \cup {"back"} => port[t] \in Ports
    /\ pc[t] \in {"touch", "lockedTouch", "backTouch"} => sess[t] \in Sessions
    /\ pc[t] \in LookupPC \cup {"idle"} => port[t] = NoPort

\* Who holds a write lock is where the lock is held, and nowhere else.
LocksHeld ==
  /\ \A t \in Threads :
       addrAccess = t <=> pc[t] \in {"locked", "lockedRefresh", "lockedTouch", "allocate"}
  /\ addrAccess = Checker <=> cpc \in {"lockPort", "delete"}
  /\ portAccess = IF cpc = "delete" THEN Checker ELSE Nobody

\* Every session in the port map belongs to a flow.
OwnersKnown == \A p \in Ports : portMap[p] # NoSession => sessKey[portMap[p]] \in Keys

\* A flow found unbound under addrAccess stays unbound until it is inserted.
AllocateUnbound == \A t \in Threads : pc[t] = "allocate" => addrMap[key[t]] = NoPort

\* What checkTimeout collected is still in the port map when it deletes.
ExpiredPresent ==
  /\ \A e \in expired : portMap[e[1]] = e[2]
  /\ cpc \in {"wait", "scan", "stopped"} => expired = {}

\* LastActive lags behind the last use by at most Grain.
TimesOrdered ==
  /\ cnow <= clock
  /\ \A s \in Sessions : lastUse[s] <= clock /\ lastUse[s] - lastActive[s] <= Grain

NatInv ==
  /\ TypeOK /\ LocalsReady /\ LocksHeld /\ OwnersKnown /\ MapsAgree
  /\ AllocateUnbound /\ ExpiredPresent /\ TimesOrdered

(* Lookup and LookupBack behave as if each happened at one instant between  *)
(* its call and its return, on a table that binds flows and ports one to    *)
(* one: a flow keeps its port, a new flow gets a free port, only a full     *)
(* table refuses, and a session answers for the flow that had the port.     *)
CallOf(t) ==
  CASE pc[t] = "idle" -> [phase |-> "idle"]
    [] pc[t] \in {"read", "lock", "locked", "allocate"} ->
         [phase |-> "lookup", key |-> key[t]]
    [] pc[t] \in {"refresh", "touch", "lockedRefresh", "lockedTouch", "done"} ->
         [phase |-> "answered", port |-> port[t]]
    [] pc[t] = "back" -> [phase |-> "back", port |-> port[t]]
    [] pc[t] \in {"backTouch", "backDone"} ->
         [phase |-> "answered",
          key |-> IF sess[t] = NoSession THEN NoKey ELSE sessKey[sess[t]]]

calls == [t \in Threads |-> CallOf(t)]

Abstract == INSTANCE NatTable WITH table <- addrMap, call <- calls
Linearizable == Abstract!Spec

(* Every call returns: no lock is left held on any path. *)
CallsReturn == \A t \in Threads : []<>(pc[t] = "idle")

(* A session nobody uses does not hold its port for ever while the timeout  *)
(* loop runs.                                                               *)
Expired(p, s) == portMap[p] = s /\ clock - lastActive[s] > Timeout
IdleIsEvicted ==
  \A p \in Ports, s \in Sessions : []<>(~Expired(p, s) \/ ctxDone)
=============================================================================
