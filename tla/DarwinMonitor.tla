--------------------------- MODULE DarwinMonitor ---------------------------
(***************************************************************************)
(* The network monitors on macOS (monitor_darwin.go).  loopUpdate opens a   *)
(* routing socket for every single message: it reads one, tells the         *)
(* callbacks when it is about a route and closes the socket.  The check a   *)
(* second later finds the default interface in the routing table or, in a   *)
(* network extension, by asking a connecting socket for its own address.    *)
(*                                                                          *)
(* Goroutines: loopUpdate; for every socket one that closes it when the     *)
(* monitor is closed; the check; for every check in a network extension one *)
(* that polls the connecting socket.  A file is a number, a new one for     *)
(* every socket.                                                            *)
(***************************************************************************)
EXTENDS Integers, Sequences, FiniteSets

CONSTANTS
  Interfaces, None,       \* default interfaces, no default route
  Extensions,             \* the values of underNetworkExtension
  MaxChanges, MaxFailures

VARIABLES
  underNetworkExtension,
  route,             \* the interface of the default route
  pc, file, queue,   \* loopUpdate, its socket (0: none), the messages in it
  read,              \* what it has read
  closed,            \* m.done
  watchers,          \* files whose closing goroutine has not ended
  gone,              \* the closing goroutine has closed the file
  timer,             \* checkUpdateTimer is armed
  cpc, seen,         \* the check and what it has found
  pollers, result,   \* polling goroutines (checks whose), the channel of the check
  default,           \* defaultInterface
  excused,           \* nothing has told the monitor of the last change
  opened, checks, changes, failures

kernelVars == <<underNetworkExtension, route, changes>>
loopVars == <<pc, file, queue, read, gone, opened>>
checkVars == <<cpc, seen, pollers, result, default, checks>>
vars == <<kernelVars, loopVars, closed, watchers, timer, checkVars, excused, failures>>

Routes == Interfaces \cup {None}
Messages == {"route", "other"}
MaxOpened == 2 * MaxChanges + MaxFailures + 1
MaxChecks == 2 * MaxChanges + MaxFailures + 1

BoundAssumption == MaxChanges \in Nat /\ MaxFailures \in Nat

TypeOK ==
  /\ underNetworkExtension \in Extensions
  /\ route \in Routes /\ seen \in Routes /\ default \in Routes
  /\ pc \in {"open", "read", "got", "return", "stopped"} /\ cpc \in {"idle", "wait", "store"}
  /\ file \in 0 .. MaxOpened /\ opened \in 0 .. MaxOpened /\ watchers \subseteq 1 .. MaxOpened
  /\ queue \in Seq(Messages) /\ Len(queue) <= 2 * MaxChanges /\ read \subseteq Messages
  /\ closed \in BOOLEAN /\ gone \in BOOLEAN /\ timer \in BOOLEAN /\ excused \in BOOLEAN
  /\ pollers \subseteq 1 .. MaxChecks /\ checks \in 0 .. MaxChecks
  /\ result \in Seq(Routes) /\ Len(result) <= 1
  /\ changes \in 0 .. MaxChanges /\ failures \in 0 .. MaxFailures

\* Start of both monitors: the loop runs, the first check is due.
Init ==
  /\ underNetworkExtension \in Extensions
  /\ route \in Routes /\ seen = None /\ default = None
  /\ pc = "open" /\ file = 0 /\ queue = <<>> /\ read = {} /\ gone = FALSE /\ opened = 0
  /\ closed = FALSE /\ watchers = {} /\ timer = TRUE
  /\ cpc = "idle" /\ pollers = {} /\ result = <<>> /\ checks = 0
  /\ excused = FALSE /\ changes = 0 /\ failures = 0
-----------------------------------------------------------------------------
(* The kernel: a new default route is announced on the open socket, alone or *)
(* after a message about the interface.                                      *)
NetworkChanges ==
  /\ changes < MaxChanges /\ changes' = changes + 1
  /\ \E r \in Routes \ {route}, m \in {<<"route">>, <<"other", "route">>} :
       /\ route' = r
       /\ queue' = IF file # 0 /\ ~gone THEN queue \o m ELSE queue
  /\ excused' = (excused \/ file = 0 \/ gone)
  /\ UNCHANGED <<underNetworkExtension, pc, file, read, gone, opened, closed, watchers, timer, checkVars, failures>>

Fails == failures < MaxFailures /\ failures' = failures + 1
-----------------------------------------------------------------------------
(* networkUpdateMonitor *)
GoTo(from, to) == pc = from /\ pc' = to

\* socket(2) or fcntl(2) fails: the loop ends for good.
LoopFails ==
  /\ GoTo("open", "stopped") /\ ~closed /\ Fails
  /\ UNCHANGED <<kernelVars, file, queue, read, gone, opened, closed, watchers, timer, checkVars, excused>>

LoopDone ==
  /\ GoTo("open", "stopped") /\ closed
  /\ UNCHANGED <<kernelVars, file, queue, read, gone, opened, closed, watchers, timer, checkVars, excused, failures>>

LoopOpen ==
  /\ GoTo("open", "read") /\ ~closed
  /\ opened' = opened + 1 /\ file' = opened + 1 /\ gone' = FALSE
  /\ watchers' = watchers \cup {opened + 1}
  /\ UNCHANGED <<kernelVars, queue, read, closed, timer, checkVars, excused, failures>>

\* The goroutine of this file, which the monitor's end wakes.
WatcherCloses(f) ==
  /\ f \in watchers /\ closed
  /\ watchers' = watchers \ {f}
  /\ gone' = (gone \/ f = file)
  /\ UNCHANGED <<kernelVars, pc, file, queue, read, opened, closed, timer, checkVars, excused, failures>>

\* or the end of the read: done is closed after it.
WatcherEnds(f) ==
  /\ f \in watchers /\ (f # file \/ pc \in {"got", "return"})
  /\ watchers' = watchers \ {f}
  /\ UNCHANGED <<kernelVars, loopVars, closed, timer, checkVars, excused, failures>>

\* One read returns one record or several.
LoopRead ==
  /\ GoTo("read", "got") /\ ~gone
  /\ \E n \in 1 .. Len(queue) :
       /\ read' = {queue[i] : i \in 1 .. n}
       /\ queue' = SubSeq(queue, n + 1, Len(queue))
  /\ UNCHANGED <<kernelVars, file, gone, opened, closed, watchers, timer, checkVars, excused, failures>>

\* Read returns an error: the file was closed under it, or another one.
LoopReadFails ==
  /\ GoTo("read", "return") /\ IF gone THEN UNCHANGED failures ELSE Fails
  /\ UNCHANGED <<kernelVars, file, queue, read, gone, opened, closed, watchers, timer, checkVars, excused>>

\* ParseRIB returns an error: the messages that were read are lost.
LoopParseFails ==
  /\ GoTo("got", "return") /\ Fails
  /\ excused' = (excused \/ "route" \in read)
  /\ UNCHANGED <<kernelVars, file, queue, read, gone, opened, closed, watchers, timer, checkVars>>

\* emit calls delayCheckUpdate
LoopEmit ==
  /\ GoTo("got", "return")
  /\ timer' = (timer \/ "route" \in read)
  /\ UNCHANGED <<kernelVars, file, queue, read, gone, opened, closed, watchers, checkVars, excused, failures>>

\* The deferred Close drops what the socket still holds.
LoopReturn ==
  /\ GoTo("return", "open")
  /\ file' = 0 /\ gone' = FALSE /\ read' = {} /\ queue' = <<>>
  /\ excused' = (excused \/ "route" \in {queue[i] : i \in DOMAIN queue})
  /\ UNCHANGED <<kernelVars, opened, closed, watchers, timer, checkVars, failures>>

Loop == LoopFails \/ LoopDone \/ LoopOpen \/ LoopRead \/ LoopReadFails \/ LoopParseFails \/ LoopEmit \/ LoopReturn

Close ==
  /\ ~closed /\ closed' = TRUE
  /\ UNCHANGED <<kernelVars, loopVars, watchers, timer, checkVars, excused, failures>>
-----------------------------------------------------------------------------
(* The check.  Its start makes up for every message lost before it. *)
CheckTable ==
  /\ ~underNetworkExtension /\ cpc = "idle" /\ timer /\ timer' = FALSE
  /\ checks < MaxChecks /\ checks' = checks + 1
  /\ cpc' = "store" /\ seen' = route /\ excused' = FALSE
  /\ UNCHANGED <<kernelVars, loopVars, closed, watchers, pollers, result, default, failures>>

\* getDefaultInterfaceBySocket: the goroutines start
CheckSocket ==
  /\ underNetworkExtension /\ cpc = "idle" /\ timer /\ timer' = FALSE
  /\ checks < MaxChecks /\ checks' = checks + 1
  /\ cpc' = "wait" /\ pollers' = pollers \cup {checks + 1} /\ result' = <<>> /\ excused' = FALSE
  /\ UNCHANGED <<kernelVars, loopVars, closed, watchers, seen, default, failures>>

\* The poller of this check finds an address, sends it and ends; without one it
\* sleeps and looks again.  A poller whose check is over finds done closed, or a
\* descriptor that is not its socket any more, and ends.
Poller(p) ==
  /\ p \in pollers
  /\ \/ p = checks /\ cpc = "wait" /\ route # None /\ result = <<>> /\ result' = <<route>>
     \/ (p # checks \/ cpc # "wait") /\ UNCHANGED result
  /\ pollers' = pollers \ {p}
  /\ UNCHANGED <<kernelVars, loopVars, closed, watchers, timer, cpc, seen, default, checks, excused, failures>>

CheckAnswered ==
  /\ cpc = "wait" /\ result # <<>>
  /\ cpc' = "store" /\ seen' = result[1] /\ result' = <<>>
  /\ UNCHANGED <<kernelVars, loopVars, closed, watchers, timer, pollers, default, checks, excused, failures>>

\* After a second there is no default interface: with a route this counts as a
\* failure, one that nobody tries again.
CheckTimeout ==
  /\ cpc = "wait" /\ result = <<>>
  /\ \/ route = None /\ UNCHANGED <<excused, failures>>
     \/ route # None /\ Fails /\ excused' = TRUE
  /\ cpc' = "store" /\ seen' = None
  /\ UNCHANGED <<kernelVars, loopVars, closed, watchers, timer, pollers, result, default, checks>>

\* Every error but ErrNoRoute arms the timer again.
CheckFails ==
  /\ cpc = "store" /\ Fails
  /\ cpc' = "idle" /\ seen' = None /\ timer' = TRUE
  /\ UNCHANGED <<kernelVars, loopVars, closed, watchers, pollers, result, default, checks, excused>>

CheckStore ==
  /\ cpc = "store" /\ cpc' = "idle" /\ default' = seen /\ seen' = None
  /\ UNCHANGED <<kernelVars, loopVars, closed, watchers, timer, pollers, result, checks, excused, failures>>

Check == CheckTable \/ CheckSocket \/ CheckAnswered \/ CheckTimeout \/ CheckFails \/ CheckStore

Next ==
  \/ NetworkChanges \/ Loop \/ Close \/ Check
  \/ \E f \in watchers : WatcherCloses(f) \/ WatcherEnds(f)
  \/ \E p \in pollers : Poller(p)

\* Goroutines run and an armed timer fires; nothing makes the owner call Close.
Fairness ==
  /\ WF_vars(Loop) /\ WF_vars(Check)
  /\ \A f \in 1 .. MaxOpened : WF_vars(WatcherCloses(f) \/ WatcherEnds(f))
  /\ \A p \in 1 .. MaxChecks : WF_vars(Poller(p))

Spec == Init /\ [][Next]_vars /\ Fairness
-----------------------------------------------------------------------------
(* Between two messages, and after it has ended for whatever reason, the     *)
(* loop holds no socket.                                                     *)
NoUseAfterClose == pc \in {"open", "stopped"} => file = 0

(* Close ends the loop although nothing wakes its Read but the goroutine     *)
(* that closes the file, whenever it comes between opening and reading.  Of  *)
(* the goroutines started for every message and every check none stays: not  *)
(* one whose file is long closed, not one whose check has timed out.         *)
(* Changes being bounded, this holds for good in the end.                    *)
GoroutinesEnded ==
  /\ closed => pc = "stopped"
  /\ pc = "stopped" => watchers = {}
  /\ cpc = "idle" => pollers = {}
  /\ watchers \subseteq {file}

(* The monitor settles on the interface of the default route, unless the     *)
(* loop has ended or the last change was announced to a socket that was      *)
(* closed, or not open, or in messages that ParseRIB refused, or the poll of *)
(* a network extension took too long.                                        *)
FollowsRoute == default = route \/ excused \/ pc = "stopped"
=============================================================================
