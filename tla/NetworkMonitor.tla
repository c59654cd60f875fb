--------------------------- MODULE NetworkMonitor ---------------------------
(***************************************************************************)
(* The network monitors on Linux: networkUpdateMonitor turns netlink        *)
(* messages into callbacks (monitor_linux.go), defaultInterfaceMonitor      *)
(* waits a second after the last one, looks the default route up and tells  *)
(* its subscribers (monitor_shared.go, monitor_linux_default.go).           *)
(*                                                                          *)
(* Goroutines: the update loop; one for every time the timer fires; the     *)
(* callers of Start, Close, RegisterCallback and UnregisterCallback.  The   *)
(* mutex access is never held across a step.                                *)
(***************************************************************************)
EXTENDS Integers

CONSTANTS
  Interfaces,    \* values of control.Interface
  None,          \* no default interface, no route
  Untold,        \* a subscriber that has not been called yet
  MaxChanges,    \* bounds of the model: changes of the network,
  MaxFailures,   \* failing system calls,
  MaxSubscribes  \* and registrations

ASSUME NoneAssumption == None \notin Interfaces /\ Untold \notin Interfaces \cup {None}
ASSUME BoundAssumption ==
  MaxChanges \in Nat /\ MaxFailures \in Nat /\ MaxSubscribes \in Nat

VARIABLES
  links, route,          \* the kernel's interfaces and default route
  events,                \* netlink messages not yet received
  npc, calling,          \* loopUpdate, its copy of the callbacks
  netLife,               \* of networkUpdateMonitor
  registered,            \* delayCheckUpdate is registered
  timer,                 \* checkUpdateTimer is armed
  waiting,               \* goroutines at checkAccess.Lock
  cpc, known, seen,      \* postCheckUpdate, the interfaces and the route it has read,
  news, copy,            \* what it emits and to whom
  defaultInterface, noRoute,
  subscribed, told,      \* a subscriber, the last interface it was told
  life,                  \* of defaultInterfaceMonitor
  changes, failures, subscribes

netVars == <<links, route, changes>>
loopVars == <<events, npc, calling, netLife>>
checkVars == <<cpc, known, seen, news, copy>>
monVars == <<defaultInterface, noRoute>>
subVars == <<subscribed, told, subscribes>>
vars == <<netVars, loopVars, registered, timer, waiting, checkVars, monVars, subVars,
          life, failures>>

Routes == Interfaces \cup {None}

TypeOK ==
  /\ links \subseteq Interfaces /\ route \in links \cup {None}
  /\ events \in Nat /\ waiting \in Nat
  /\ npc \in {"off", "wait", "emit", "call", "rest"}
  /\ cpc \in {"idle", "update", "list", "check", "emit", "deliver"}
  /\ calling \in BOOLEAN /\ registered \in BOOLEAN /\ timer \in BOOLEAN
  /\ copy \in BOOLEAN /\ noRoute \in BOOLEAN /\ subscribed \in BOOLEAN
  /\ known \subseteq Interfaces
  /\ seen \in Routes /\ news \in Routes /\ defaultInterface \in Routes
  /\ told \in Routes \cup {Untold}
  /\ life \in {"new", "started", "closed"} /\ netLife \in {"new", "started", "closed"}
  /\ changes \in 0 .. MaxChanges /\ failures \in 0 .. MaxFailures
  /\ subscribes \in 0 .. MaxSubscribes

Init ==
  /\ links \in SUBSET Interfaces /\ route \in links \cup {None}
  /\ events = 0 /\ waiting = 0
  /\ npc = "off" /\ cpc = "idle"
  /\ calling = FALSE /\ registered = FALSE /\ timer = FALSE /\ copy = FALSE
  /\ known = {} /\ seen = None /\ news = None
  /\ defaultInterface = None /\ noRoute = FALSE
  /\ subscribed = FALSE /\ told = Untold /\ life = "new" /\ netLife = "new"
  /\ changes = 0 /\ failures = 0 /\ subscribes = 0
-----------------------------------------------------------------------------
(* The kernel. *)
NetworkChanges ==
  /\ changes < MaxChanges
  /\ \E l \in SUBSET Interfaces, r \in Routes :
       /\ r \in l \cup {None} /\ <<l, r>> # <<links, route>>
       /\ links' = l /\ route' = r
  /\ changes' = changes + 1
  /\ events' = IF netLife = "started" THEN events + 1 ELSE events
  /\ UNCHANGED <<npc, calling, netLife, registered, timer, waiting, checkVars, monVars, subVars,
                 life, failures>>

Works == UNCHANGED failures
Fails ==
  /\ failures < MaxFailures
  /\ failures' = failures + 1
-----------------------------------------------------------------------------
(* networkUpdateMonitor *)
LoopGoTo(from, to) == npc = from /\ npc' = to

\* The subscriptions succeed; without them there is no monitor to speak of.
NetStart ==
  /\ netLife = "new" /\ netLife' = "started"
  /\ LoopGoTo("off", "wait")
  /\ UNCHANGED <<netVars, events, calling, registered, timer, waiting, checkVars, monVars,
                 subVars, life, failures>>

NetClose ==
  /\ netLife = "started" /\ netLife' = "closed"
  /\ UNCHANGED <<netVars, events, npc, calling, registered, timer, waiting, checkVars,
                 monVars, subVars, life, failures>>

LoopReceive ==
  /\ LoopGoTo("wait", "emit")
  /\ events > 0 /\ events' = events - 1
  /\ UNCHANGED <<netVars, calling, netLife, registered, timer, waiting, checkVars, monVars,
                 subVars, life, failures>>

\* emit copies the callbacks under the lock and calls them without it.
LoopEmit ==
  /\ LoopGoTo("emit", "call")
  /\ calling' = registered
  /\ UNCHANGED <<netVars, events, netLife, registered, timer, waiting, checkVars, monVars,
                 subVars, life, failures>>

\* The callback is delayCheckUpdate, which arms the timer or resets it.
LoopCall ==
  /\ LoopGoTo("call", "rest")
  /\ timer' = (timer \/ calling)
  /\ calling' = FALSE
  /\ UNCHANGED <<netVars, events, netLife, registered, waiting, checkVars, monVars, subVars,
                 life, failures>>

LoopRest ==
  /\ LoopGoTo("rest", "wait")
  /\ UNCHANGED <<netVars, events, calling, netLife, registered, timer, waiting, checkVars,
                 monVars, subVars, life, failures>>

\* Both selects look at the channel that Close closes.
LoopStop ==
  /\ netLife = "closed"
  /\ LoopGoTo("wait", "off") \/ LoopGoTo("rest", "off")
  /\ UNCHANGED <<netVars, events, calling, netLife, registered, timer, waiting, checkVars,
                 monVars, subVars, life, failures>>

LoopStep == LoopReceive \/ LoopEmit \/ LoopCall \/ LoopRest \/ LoopStop
-----------------------------------------------------------------------------
(* defaultInterfaceMonitor *)
\* slip: the callback is registered after the first check
StartUnregistered ==
  /\ netLife = "started"
  /\ life = "new" /\ life' = "started"
  /\ waiting' = waiting + 1
  /\ UNCHANGED <<netVars, loopVars, registered, timer, checkVars, monVars, subVars, failures>>

\* The first check runs on the caller's goroutine.  The caller has started the
\* networkUpdateMonitor before.
Start ==
  /\ netLife = "started"
  /\ life = "new" /\ life' = "started"
  /\ registered' = TRUE
  /\ waiting' = waiting + 1
  /\ UNCHANGED <<netVars, loopVars, timer, checkVars, monVars, subVars, failures>>

\* The timer is not stopped.
Close ==
  /\ life = "started" /\ life' = "closed"
  /\ registered' = FALSE
  /\ UNCHANGED <<netVars, loopVars, timer, waiting, checkVars, monVars, subVars, failures>>

TimerFires ==
  /\ timer /\ timer' = FALSE
  /\ waiting' = waiting + 1
  /\ UNCHANGED <<netVars, loopVars, registered, checkVars, monVars, subVars, life, failures>>

(* postCheckUpdate *)
CheckGoTo(from, to) == cpc = from /\ cpc' = to

CheckLock ==
  /\ CheckGoTo("idle", "update")
  /\ waiting > 0 /\ waiting' = waiting - 1
  /\ UNCHANGED <<netVars, loopVars, registered, timer, known, seen, news, copy,
                 monVars, subVars, life, failures>>

\* interfaceFinder.Update; an error is tried again in a second.
CheckUpdateFinder ==
  /\ \/ /\ CheckGoTo("update", "list") /\ Works
        /\ known' = links
        /\ UNCHANGED timer
     \/ /\ CheckGoTo("update", "idle") /\ Fails
        /\ timer' = TRUE
        /\ UNCHANGED known
  /\ UNCHANGED <<netVars, loopVars, registered, waiting, seen, news, copy, monVars,
                 subVars, life>>

(* checkUpdate *)
CheckListRoutes ==
  /\ CheckGoTo("list", "check")
  /\ seen' = route
  /\ UNCHANGED <<netVars, loopVars, registered, timer, waiting, known, news, copy, monVars,
                 subVars, life, failures>>

\* The link of the route that was read still exists and the finder knows it.
Found == seen \in links /\ seen \in known
Forget == known' = {} /\ seen' = None

\* slip: an error of the check is only logged
CheckFailsQuietly ==
  /\ CheckGoTo("check", "idle")
  /\ Forget
  /\ \/ Fails
     \/ Works /\ seen # None /\ ~Found
  /\ UNCHANGED <<netVars, loopVars, registered, timer, waiting, news, copy, monVars,
                 subVars, life>>

\* A system call fails, the link is gone again, or it is newer than what the
\* finder knows: tried again in a second.
CheckFails ==
  /\ CheckGoTo("check", "idle")
  /\ Forget
  /\ \/ Fails
     \/ Works /\ seen # None /\ ~Found
  /\ timer' = TRUE
  /\ UNCHANGED <<netVars, loopVars, registered, waiting, news, copy, monVars, subVars, life>>

CheckSame ==
  /\ CheckGoTo("check", "idle")
  /\ Found /\ seen = defaultInterface
  /\ noRoute' = FALSE /\ Forget
  /\ UNCHANGED <<netVars, loopVars, registered, timer, waiting, news, copy,
                 defaultInterface, subVars, life, failures>>

CheckNew ==
  /\ CheckGoTo("check", "emit")
  /\ Found /\ seen # defaultInterface
  /\ defaultInterface' = seen /\ news' = seen /\ Forget
  /\ UNCHANGED <<netVars, loopVars, registered, timer, waiting, copy, noRoute, subVars,
                 life, failures>>

\* slip: the old default interface stays
CheckNoRouteKeeps ==
  /\ seen = None
  /\ Forget
  /\ CheckGoTo("check", IF noRoute THEN "idle" ELSE "emit")
  /\ noRoute' = TRUE
  /\ news' = None
  /\ UNCHANGED <<netVars, loopVars, registered, timer, waiting, copy, defaultInterface,
                 subVars, life, failures>>

\* ErrNoRoute: told once, until a route is found again.
CheckNoRoute ==
  /\ seen = None
  /\ Forget
  /\ CheckGoTo("check", IF noRoute THEN "idle" ELSE "emit")
  /\ noRoute' = TRUE
  /\ defaultInterface' = IF noRoute THEN defaultInterface ELSE None
  /\ news' = None
  /\ UNCHANGED <<netVars, loopVars, registered, timer, waiting, copy, subVars, life, failures>>

CheckEmit ==
  /\ CheckGoTo("emit", "deliver")
  /\ copy' = subscribed
  /\ UNCHANGED <<netVars, loopVars, registered, timer, waiting, known, seen, news,
                 monVars, subVars, life, failures>>

\* The subscriber runs, registered or not by now; the check returns.
CheckDeliver ==
  /\ CheckGoTo("deliver", "idle")
  /\ told' = IF copy THEN news ELSE told
  /\ noRoute' = (news = None)
  /\ copy' = FALSE /\ news' = None
  /\ UNCHANGED <<netVars, loopVars, registered, timer, waiting, known, seen,
                 defaultInterface, subscribed, subscribes, life, failures>>

CheckStep ==
  \/ CheckLock \/ CheckUpdateFinder \/ CheckListRoutes
  \/ CheckFails \/ CheckSame \/ CheckNew \/ CheckNoRoute \/ CheckEmit \/ CheckDeliver

\* Another subscriber, which no emit under way has in its copy.
RegisterCallback ==
  /\ ~subscribed /\ subscribes < MaxSubscribes
  /\ subscribed' = TRUE /\ subscribes' = subscribes + 1
  /\ told' = Untold /\ copy' = FALSE
  /\ UNCHANGED <<netVars, loopVars, registered, timer, waiting, cpc, known, seen, news,
                 monVars, life, failures>>

UnregisterCallback ==
  /\ subscribed /\ subscribed' = FALSE
  /\ UNCHANGED <<netVars, loopVars, registered, timer, waiting, checkVars, monVars, told,
                 subscribes, life, failures>>

Next ==
  \/ NetworkChanges \/ NetStart \/ NetClose \/ LoopStep
  \/ Start \/ Close \/ TimerFires \/ CheckStep
  \/ RegisterCallback \/ UnregisterCallback

Spec == Init /\ [][Next]_vars

(* Goroutines that can run run, and an armed timer fires.  Nobody has to    *)
(* call Start, Close, RegisterCallback or UnregisterCallback, of either.    *)
Fairness == WF_vars(LoopStep) /\ WF_vars(TimerFires) /\ WF_vars(CheckStep)

FairSpec == Spec /\ Fairness
-----------------------------------------------------------------------------
Watching == life = "started" /\ netLife = "started"

(* Checks come from many goroutines, yet a subscriber that has been told    *)
(* anything was told last what DefaultInterface returns, whenever no check  *)
(* is under way.                                                            *)
ToldTheDefault ==
  cpc = "idle" /\ subscribed /\ told # Untold => told = defaultInterface

(* No wake-up is lost: once the network rests and system calls succeed, the *)
(* monitor settles on the real default interface.                           *)
FollowsRoute == <>[](Watching => defaultInterface = route)

(* A subscriber that is registered for good and has ever been called ends   *)
(* up with the real default interface.                                      *)
SubscriberFollows ==
  <>[](Watching /\ subscribed /\ told # Untold => told = route)
=============================================================================
