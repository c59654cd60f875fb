----------------------------- MODULE WinChange -----------------------------
(***************************************************************************)
(* Change notifications on Windows.  internal/winipcfg keeps three copies   *)
(* of one registry, for routes, interfaces and unicast addresses: a set of  *)
(* callbacks behind one subscription (the handle) with the system.  The     *)
(* networkUpdateMonitor of monitor_windows.go uses the first two.           *)
(*                                                                          *)
(* Threads: the owners of monitors and of address listeners; the system's   *)
(* thread that calls routeChanged and its copies; one goroutine for every   *)
(* callback and change.  The second mutex of a registry is never held       *)
(* across a step, the first (addRemove) is.                                 *)
(***************************************************************************)
EXTENDS Integers, FiniteSets

CONSTANTS
  Monitors, Listeners,  \* networkUpdateMonitors, users of the address registry
  Nobody,               \* addRemove is free
  MaxChanges, MaxFailures

Users == Monitors \cup Listeners
Kinds == {"route", "interface", "address"}

VARIABLES
  callbacks, handle, addRemove,  \* the three registries
  running,    \* per kind and user: goroutines in its callback, counted by wait
  arriving,   \* per kind: calls of the system that have not taken the mutex yet
  pc,         \* of each user
  at,         \* where its Unregister is, and for which kind
  listener,   \* per user: the listeners it remembers
  unaware,    \* per kind: users registered at a change they have not heard of
  changes, failures

registry == <<callbacks, handle, addRemove>>
vars == <<registry, running, arriving, pc, at, listener, unaware, changes, failures>>

Idle == [kind |-> "route", step |-> "none"]

\* A user is a monitor or a listener, and nobody is none of them.
UserAssumption ==
  /\ Monitors \cap Listeners = {} /\ Nobody \notin Users
  /\ MaxChanges \in Nat /\ MaxFailures \in Nat

TypeOK ==
  /\ callbacks \in [Kinds -> SUBSET Users] /\ handle \in [Kinds -> BOOLEAN]
  /\ addRemove \in [Kinds -> Users \cup {Nobody}]
  /\ running \in [Kinds -> [Users -> 0 .. MaxChanges]]
  /\ arriving \in [Kinds -> 0 .. MaxChanges]
  /\ pc \in [Users -> {"new", "second", "started", "undo", "failed", "close", "closed"}]
  /\ at \in [Users -> [kind : Kinds, step : {"none", "lock", "wait", "cancel"}]]
  /\ listener \in [Users -> SUBSET Kinds] /\ unaware \in [Kinds -> SUBSET Users]
  /\ changes \in 0 .. MaxChanges /\ failures \in 0 .. MaxFailures

Init ==
  /\ callbacks = [k \in Kinds |-> {}] /\ handle = [k \in Kinds |-> FALSE]
  /\ addRemove = [k \in Kinds |-> Nobody]
  /\ running = [k \in Kinds |-> [u \in Users |-> 0]] /\ arriving = [k \in Kinds |-> 0]
  /\ pc = [u \in Users |-> "new"] /\ at = [u \in Users |-> Idle]
  /\ listener = [u \in Users |-> {}] /\ unaware = [k \in Kinds |-> {}]
  /\ changes = 0 /\ failures = 0
-----------------------------------------------------------------------------
(* Register: both mutexes are held from the first line to the last, so it is *)
(* one step.  The system is asked only when there is no subscription.        *)
Registered(k, u) ==
  /\ addRemove[k] = Nobody
  /\ callbacks' = [callbacks EXCEPT ![k] = @ \cup {u}]
  /\ handle' = [handle EXCEPT ![k] = TRUE]
  /\ UNCHANGED <<addRemove, running, arriving, at, unaware, changes, failures>>

NotRegistered(k, u) ==
  /\ addRemove[k] = Nobody /\ ~ handle[k]
  /\ failures < MaxFailures /\ failures' = failures + 1
  /\ UNCHANGED <<registry, running, arriving, at, unaware, changes>>

RegisterRouteChangeCallback(u) == Registered("route", u)
RegisterRouteChangeCallbackFails(u) == NotRegistered("route", u)
RegisterInterfaceChangeCallback(u) == Registered("interface", u)
RegisterInterfaceChangeCallbackFails(u) == NotRegistered("interface", u)
RegisterUnicastAddressChangeCallback(u) == Registered("address", u)
RegisterUnicastAddressChangeCallbackFails(u) == NotRegistered("address", u)
-----------------------------------------------------------------------------
(* Unregister: addRemove is held until it returns. *)
Step(u, k, from, to) ==
  /\ at[u] = [kind |-> k, step |-> from]
  /\ at' = [at EXCEPT ![u] = IF to = "none" THEN Idle ELSE [kind |-> k, step |-> to]]

UnregisterDelete(k, u) ==
  /\ Step(u, k, "lock", "wait")
  /\ addRemove[k] = Nobody /\ addRemove' = [addRemove EXCEPT ![k] = u]
  /\ callbacks' = [callbacks EXCEPT ![k] = @ \ {u}]
  /\ unaware' = [unaware EXCEPT ![k] = @ \ {u}]
  /\ UNCHANGED <<handle, running, arriving, pc, listener, changes, failures>>

\* removeIt: addRemove keeps everyone else from adding a callback since it was set.
RemoveIt(k) == callbacks[k] = {} /\ handle[k]

\* callback.wait.Wait()
Waited(k, u) == running[k][u] = 0

UnregisterWait(k, u) ==
  /\ Waited(k, u)
  /\ \/ RemoveIt(k) /\ Step(u, k, "wait", "cancel") /\ UNCHANGED addRemove
     \/ ~ RemoveIt(k) /\ Step(u, k, "wait", "none") /\ addRemove' = [addRemove EXCEPT ![k] = Nobody]
  /\ UNCHANGED <<callbacks, handle, running, arriving, pc, listener, unaware, changes, failures>>

\* CancelMibChangeNotify2 returns when no call of routeChanged is under way.
UnregisterCancel(k, u) ==
  /\ Step(u, k, "cancel", "none")
  /\ arriving[k] = 0 /\ handle' = [handle EXCEPT ![k] = FALSE]
  /\ addRemove' = [addRemove EXCEPT ![k] = Nobody]
  /\ UNCHANGED <<callbacks, running, arriving, pc, listener, unaware, changes, failures>>

UnregisterFails(k, u) ==
  /\ Step(u, k, "cancel", "none")
  /\ failures < MaxFailures /\ failures' = failures + 1
  /\ addRemove' = [addRemove EXCEPT ![k] = Nobody]
  /\ UNCHANGED <<callbacks, handle, running, arriving, pc, listener, unaware, changes>>

Unregister(k, u) ==
  UnregisterDelete(k, u) \/ UnregisterWait(k, u) \/ UnregisterCancel(k, u) \/ UnregisterFails(k, u)

UnregisterRoute(u) == Unregister("route", u)
UnregisterInterface(u) == Unregister("interface", u)
UnregisterUnicastAddress(u) == Unregister("address", u)
-----------------------------------------------------------------------------
(* The system, and the goroutines of the callbacks. *)
Change(k) ==
  /\ changes < MaxChanges /\ changes' = changes + 1
  /\ unaware' = [unaware EXCEPT ![k] = @ \cup callbacks[k]]
  /\ arriving' = IF handle[k] THEN [arriving EXCEPT ![k] = @ + 1] ELSE arriving
  /\ UNCHANGED <<registry, running, pc, at, listener, failures>>

Changed(k) ==
  /\ arriving[k] > 0 /\ arriving' = [arriving EXCEPT ![k] = @ - 1]
  /\ running' = [running EXCEPT ![k] = [u \in Users |->
                   IF u \in callbacks[k] THEN @[u] + 1 ELSE @[u]]]
  /\ UNCHANGED <<registry, pc, at, listener, unaware, changes, failures>>

routeChanged == Changed("route")
interfaceChanged == Changed("interface")
unicastAddressChanged == Changed("address")

\* cb.cb, which is m.emit, and wait.Done
CallbackReturns(k, u) ==
  /\ running[k][u] > 0 /\ running' = [running EXCEPT ![k][u] = @ - 1]
  /\ unaware' = [unaware EXCEPT ![k] = @ \ {u}]
  /\ UNCHANGED <<registry, arriving, pc, at, listener, changes, failures>>
-----------------------------------------------------------------------------
(* networkUpdateMonitor and the user of the address registry. *)
GoTo(u, from, to) == pc[u] = from /\ pc' = [pc EXCEPT ![u] = to]
Remembers(u, ks) == listener' = [listener EXCEPT ![u] = ks]
CallsUnregister(u, k) == at' = [at EXCEPT ![u] = [kind |-> k, step |-> "lock"]]

StartRoute(m) ==
  \/ GoTo(m, "new", "second") /\ RegisterRouteChangeCallback(m) /\ Remembers(m, {"route"})
  \/ GoTo(m, "new", "failed") /\ RegisterRouteChangeCallbackFails(m) /\ UNCHANGED listener

\* A failed second registration takes the first back, and Start returns an error
\* while routeListener stays set: Close unregisters it once more.
StartInterface(m) ==
  \/ GoTo(m, "second", "started") /\ RegisterInterfaceChangeCallback(m) /\ Remembers(m, {"route", "interface"})
  \/ GoTo(m, "second", "undo") /\ RegisterInterfaceChangeCallbackFails(m) /\ UNCHANGED listener

StartUndo(m) ==
  /\ GoTo(m, "undo", "failed") /\ at[m] = Idle /\ CallsUnregister(m, "route")
  /\ UNCHANGED <<registry, running, arriving, listener, unaware, changes, failures>>

Start(m) == StartRoute(m) \/ StartInterface(m) \/ StartUndo(m)

CloseNext(u, k) ==
  /\ at[u] = Idle /\ k \in listener[u] /\ CallsUnregister(u, k) /\ Remembers(u, listener[u] \ {k})
  /\ UNCHANGED <<registry, running, arriving, unaware, changes, failures>>

\* The owner calls Close after Start, whatever it has returned.
Close(m) ==
  \/ /\ pc[m] \in {"started", "failed"} /\ at[m] = Idle /\ pc' = [pc EXCEPT ![m] = "close"]
     /\ UNCHANGED <<registry, running, arriving, at, listener, unaware, changes, failures>>
  \/ GoTo(m, "close", "close") /\ CloseNext(m, "route")
  \/ GoTo(m, "close", "close") /\ "route" \notin listener[m] /\ CloseNext(m, "interface")
  \/ /\ GoTo(m, "close", "closed") /\ listener[m] = {} /\ at[m] = Idle
     /\ UNCHANGED <<registry, running, arriving, at, listener, unaware, changes, failures>>

ListenerRuns(l) ==
  \/ GoTo(l, "new", "started") /\ RegisterUnicastAddressChangeCallback(l) /\ Remembers(l, {"address"})
  \/ GoTo(l, "new", "closed") /\ RegisterUnicastAddressChangeCallbackFails(l) /\ UNCHANGED listener
  \/ GoTo(l, "started", "close") /\ CloseNext(l, "address")
  \/ /\ GoTo(l, "close", "closed") /\ at[l] = Idle
     /\ UNCHANGED <<registry, running, arriving, at, listener, unaware, changes, failures>>

UnregisterOf(u) == UnregisterRoute(u) \/ UnregisterInterface(u) \/ UnregisterUnicastAddress(u)

Next ==
  \/ \E m \in Monitors : Start(m) \/ Close(m)
  \/ \E l \in Listeners : ListenerRuns(l)
  \/ \E u \in Users : UnregisterOf(u)
  \/ \E k \in Kinds : Change(k)
  \/ routeChanged \/ interfaceChanged \/ unicastAddressChanged
  \/ \E k \in Kinds, u \in Users : CallbackReturns(k, u)

\* Close of a monitor, or of a listener, that has begun.
GoesOnClosing(u) ==
  pc[u] = "close" /\ ((u \in Monitors /\ Close(u)) \/ (u \in Listeners /\ ListenerRuns(u)))

\* The system delivers what it has announced, goroutines run and the callbacks
\* return (m.emit only restarts a timer); nothing makes an owner call Close.
Fairness ==
  /\ WF_vars(routeChanged) /\ WF_vars(interfaceChanged) /\ WF_vars(unicastAddressChanged)
  /\ \A k \in Kinds, u \in Users : WF_vars(CallbackReturns(k, u))
  /\ \A u \in Users : WF_vars(UnregisterOf(u))
  /\ \A u \in Users : WF_vars(GoesOnClosing(u))

Spec == Init /\ [][Next]_vars /\ Fairness
-----------------------------------------------------------------------------
(* After Close of a monitor has returned none of its callbacks runs or will *)
(* run: Unregister has deleted it and waited for the goroutines it counts.   *)
QuietAfterClose ==
  \A u \in Users : pc[u] = "closed" =>
    \A k \in Kinds : u \notin callbacks[k] /\ running[k][u] = 0

(* A failed Start and a Close leave no subscription of the system behind,    *)
(* unless it could not be cancelled; the callbacks of others keep theirs.    *)
SubscribedIffNeeded ==
  \A k \in Kinds : addRemove[k] = Nobody =>
    /\ callbacks[k] # {} => handle[k]
    /\ handle[k] /\ failures = 0 => callbacks[k] # {}

(* Both: after Close nothing of a monitor is called or left behind.          *)
NoUseAfterClose == QuietAfterClose /\ SubscribedIffNeeded

(* A callback registered at the time of a change hears of it, or its owner   *)
(* unregisters it: another user's Unregister, or a cancellation that failed, *)
(* does not cost it the change.  Close returns although it waits for the     *)
(* callbacks and for other users of the registry, and the system waits for a *)
(* call that needs the mutex.  Changes being bounded, this holds in the end. *)
UsersSettled == \A u \in Users : pc[u] # "close" /\ \A k \in Kinds : u \notin unaware[k]
=============================================================================
