---------------------------- MODULE MCPlatforms ----------------------------
(* One run for the components of single platforms: the monitors of macOS    *)
(* and Windows, the choice of the default route, and the devices of macOS   *)
(* and Windows.  They share no state, so a behaviour is of one of them:     *)
(* part says which, and the variables v1, v2, ... are that component's,     *)
(* under its names for them.                                                *)
EXTENDS Integers, Sequences
LOCAL Ext == INSTANCE SequencesExt

CONSTANTS Parts,  \* the components this run checks
          None,
          Interfaces, MaxChanges, MaxFailures,                \* the monitors
          Extensions,                                         \* DarwinMonitor
          Platforms, Tables, Width,                           \* DefaultRoute
          Monitors, Listeners, Nobody, MaxEvents, MaxErrors,  \* WinChange
          Writers, MaxPackets,                                \* the devices
          BatchLen, MaxCalls,                                 \* DarwinTun
          Readers, Closers, MaxWrites,                        \* WinSession
          Ranges,                                             \* WinSetup
          FairSteps  \* a component has no more steps to be fair to

\* DefaultRoute: what the tables of each platform may hold.
Defects == {"ok", "down"}
WindowsRows ==
  {r \in [interface : {"wifi", "cell"}, defect : Defects, metric : {0, 1}, ifMetric : {1, 2}] :
     r.defect = "down" => r.metric = 0 /\ r.ifMetric = 1}
DarwinRows == [interface : {"wifi", "cell"}, defect : Defects]
Rules == {"vpn", "vpnNoUID", "default", "other"}
RouteTables ==
  [p \in {"android", "darwin", "windows"} |->
     IF p = "android"
     THEN [rules : UNION {[1 .. n -> Rules] : n \in 0 .. 2},
           routes : [{"vpn", "net"} -> {"wifi", "cell", None}]]
     ELSE IF p = "darwin" THEN UNION {[1 .. n -> DarwinRows] : n \in 0 .. 2}
     ELSE UNION {[1 .. n -> WindowsRows] : n \in 0 .. 2}]

-----------------------------------------------------------------------------
VARIABLES part,  \* which component this behaviour is of
          v1, v2, v3, v4, v5, v6, v7, v8, v9, v10, v11, v12, v13, v14, v15, v16, v17, v18,
          v19, v20  \* its state

vars == <<part, v1, v2, v3, v4, v5, v6, v7, v8, v9, v10, v11, v12, v13, v14, v15, v16, v17, v18,
          v19, v20>>

\* The monitor of macOS
underNetworkExtension == v1
route == v2
pc == v3
file == v4
inbox == v5
read == v6
closed == v7
watchers == v8
gone == v9
timer == v10
cpc == v11
seen == v12
pollers == v13
result == v14
default == v15
excused == v16
opened == v17
checks == v18
changes == v19
failures == v20

Routes == INSTANCE DarwinMonitor WITH queue <- inbox

\* The registries of Windows: monitors and other users of the address registry
callbacks == v1
handle == v2
addRemove == v3
active == v4
arriving == v5
upc == v6
call == v7
listener == v8
unaware == v9
events == v10
errors == v11

Changes == INSTANCE WinChange WITH
    MaxChanges <- MaxEvents, MaxFailures <- MaxErrors,
    running <- active, pc <- upc, at <- call, changes <- events, failures <- errors

\* The device of macOS
device == v1
msgX == v2
tunFd == v3
dns == v4
stopFd == v5
queue == v6
arrived == v7
reader == v8
stranded == v9
writeAccess == v10
sbLock == v11
writer == v12
calls == v13
dropped == v14
closer == v15

Utun == INSTANCE DarwinTun WITH none <- None

\* The session of the device of Windows
running == v1
close == v2
readWait == v3
session == v4
ring == v5
ringArrived == v6
writes == v7
at == v8
misused == v9

Wintun == INSTANCE WinSession WITH arrived <- ringArrived

\* The configuration of the device of Windows
options == v1
stage == v2
adapter == v3
started == v4
engine == v5
todo == v6
done == v7
routes == v8
lost == v9

Filters == INSTANCE WinSetup WITH at <- stage, session <- started

\* The default route
platform == v1
override == v2
table == v3
defaultInterface == v4
androidVPNEnabled == v5
noRoute == v6
told == v7
toldVPN == v8
due == v9
untold == v10
updates == v11
outages == v12

Default == INSTANCE DefaultRoute WITH
    dropped <- untold, changes <- updates, failures <- outages

\* What the proofs assume of the constants holds here.
ASSUME DeviceAssumed == Utun!DeviceAssumption
ASSUME SessionAssumed == Wintun!SessionAssumption
ASSUME UsersAssumed == Changes!UserAssumption
ASSUME BoundsAssumed == Routes!BoundAssumption

-----------------------------------------------------------------------------
Init ==
    /\ part \in Parts
    /\ \/ part = "darwinMonitor" /\ Routes!Init
       \/ /\ part = "winChange" /\ Changes!Init
          /\ v12 = 0 /\ v13 = 0 /\ v14 = 0 /\ v15 = 0 /\ v16 = 0 /\ v17 = 0
          /\ v18 = 0 /\ v19 = 0 /\ v20 = 0
       \/ /\ part = "darwinTun" /\ Utun!Init
          /\ v16 = 0 /\ v17 = 0 /\ v18 = 0 /\ v19 = 0 /\ v20 = 0
       \/ /\ part = "winSession" /\ Wintun!Init
          /\ v10 = 0 /\ v11 = 0 /\ v12 = 0 /\ v13 = 0 /\ v14 = 0 /\ v15 = 0
          /\ v16 = 0 /\ v17 = 0 /\ v18 = 0 /\ v19 = 0 /\ v20 = 0
       \/ /\ part = "winSetup" /\ Filters!Init
          /\ v10 = 0 /\ v11 = 0 /\ v12 = 0 /\ v13 = 0 /\ v14 = 0 /\ v15 = 0
          /\ v16 = 0 /\ v17 = 0 /\ v18 = 0 /\ v19 = 0 /\ v20 = 0
       \/ /\ part = "defaultRoute" /\ Default!Init
          /\ v13 = 0 /\ v14 = 0 /\ v15 = 0 /\ v16 = 0 /\ v17 = 0 /\ v18 = 0
          /\ v19 = 0 /\ v20 = 0

Next ==
    \/ part = "darwinMonitor" /\ Routes!Next /\ UNCHANGED part
    \/ part = "winChange" /\ Changes!Next /\ UNCHANGED <<part, v12, v13, v14, v15, v16, v17, v18, v19, v20>>
    \/ part = "darwinTun" /\ Utun!Next /\ UNCHANGED <<part, v16, v17, v18, v19, v20>>
    \/ part = "winSession" /\ Wintun!Next /\ UNCHANGED <<part, v10, v11, v12, v13, v14, v15, v16, v17, v18, v19, v20>>
    \/ part = "winSetup" /\ Filters!Next /\ UNCHANGED <<part, v10, v11, v12, v13, v14, v15, v16, v17, v18, v19, v20>>
    \/ part = "defaultRoute" /\ Default!Next /\ UNCHANGED <<part, v13, v14, v15, v16, v17, v18, v19, v20>>

(* The k-th of the steps that go on by themselves: what the Spec of each    *)
(* component is fair to.                                                    *)
UserAt == Ext!SetToSeq(Changes!Users)
KindAt == <<"route", "interface", "address">>
WriterAt == Ext!SetToSeq(Writers)
ReaderAt == Ext!SetToSeq(Readers)
CloserAt == Ext!SetToSeq(Closers)

FairRoutes(k) ==
    \/ k = 1 /\ Routes!Loop
    \/ k = 2 /\ Routes!Check
    \/ k - 2 \in 1 .. Routes!MaxOpened /\ (Routes!WatcherCloses(k - 2) \/ Routes!WatcherEnds(k - 2))
    \/ k - 2 - Routes!MaxOpened \in 1 .. Routes!MaxChecks /\ Routes!Poller(k - 2 - Routes!MaxOpened)
FairChanges(k) ==
    LET users == Len(UserAt) IN
    \/ k = 1 /\ Changes!routeChanged
    \/ k = 2 /\ Changes!interfaceChanged
    \/ k = 3 /\ Changes!unicastAddressChanged
    \/ k - 3 \in 1 .. users /\ Changes!UnregisterOf(UserAt[k - 3])
    \/ k - 3 - users \in 1 .. users /\ Changes!GoesOnClosing(UserAt[k - 3 - users])
    \/ \E i \in 1 .. 3 :
         /\ k - 3 - (i + 1) * users \in 1 .. users
         /\ Changes!CallbackReturns(KindAt[i], UserAt[k - 3 - (i + 1) * users])
FairUtun(k) ==
    \/ k = 1 /\ Utun!BatchRead
    \/ k = 2 /\ Utun!Closes
    \/ k - 2 \in 1 .. Len(WriterAt) /\ Utun!Writer(WriterAt[k - 2])
FairWintun(k) ==
    LET readers == Len(ReaderAt)  others == readers + Len(WriterAt) IN
    \/ k \in 1 .. readers /\ Wintun!Reader(ReaderAt[k])
    \/ k \in readers + 1 .. others /\ Wintun!Writer(WriterAt[k - readers])
    \/ k - others \in 1 .. Len(CloserAt) /\ Wintun!Closer(CloserAt[k - others])

FairStep(k) ==
    \/ part = "darwinMonitor" /\ UNCHANGED part /\ FairRoutes(k)
    \/ /\ part = "winChange" /\ UNCHANGED <<part, v12, v13, v14, v15, v16, v17, v18, v19, v20>>
       /\ FairChanges(k)
    \/ part = "darwinTun" /\ UNCHANGED <<part, v16, v17, v18, v19, v20>> /\ FairUtun(k)
    \/ /\ part = "winSession"
       /\ UNCHANGED <<part, v10, v11, v12, v13, v14, v15, v16, v17, v18, v19, v20>>
       /\ FairWintun(k)
    \/ /\ part = "defaultRoute" /\ UNCHANGED <<part, v13, v14, v15, v16, v17, v18, v19, v20>>
       /\ k = 1 /\ Default!Check

Spec == Init /\ [][Next]_vars /\ \A k \in 1 .. FairSteps : WF_vars(FairStep(k))
-----------------------------------------------------------------------------
(* Nothing is used, called or left after Close: no callback of a closed     *)
(* monitor runs and the system's subscription goes with its last user       *)
(* (winipcfg's registries), no goroutine touches a Wintun session after its *)
(* end (NativeTun.Close against Read and Write), and the loop of the macOS  *)
(* monitor holds no socket between messages or when it has ended.           *)
NoUseAfterClose ==
    /\ part = "winChange" => Changes!TypeOK /\ Changes!NoUseAfterClose
    /\ part = "winSession" => Wintun!TypeOK /\ Wintun!NoUseAfterClose
    /\ part = "darwinMonitor" => Routes!TypeOK /\ Routes!NoUseAfterClose

(* No batch is dropped by the kernel of macOS while it is reported as sent, *)
(* and a device that could not be set up leaves nothing open (sendmsg_x     *)
(* under writeAccess, New).                                                 *)
NoBatchDropped == part = "darwinTun" => Utun!TypeOK /\ Utun!NoBatchDropped

(* The filters of strict route on Windows let the program's own and the     *)
(* device's connections pass at every step, block the others' DNS and IPv6  *)
(* once the device is up, and are gone with their process; all routes are   *)
(* there (configure, Close).                                                *)
FiltersHold ==
    part = "winSetup" => Filters!TypeOK /\ Filters!FiltersHold

(* What a subscriber was told last is the default interface, and on Android *)
(* the state of the VPN, whatever sequence of routes, failures and          *)
(* recoveries there has been (checkUpdate of the three platforms).          *)
DefaultIsTold ==
    part = "defaultRoute" => Default!DefaultIsTold

(* In the long run every loop, goroutine and call of a closed monitor,      *)
(* registry or device has ended, every change was heard, every packet read, *)
(* and each monitor is on the default route, which is always one of the     *)
(* interfaces or none.                                                      *)
PlatformsSettle ==
    /\ [](part = "defaultRoute" => Default!TypeOK)
    /\ <>[](/\ part = "darwinMonitor" => Routes!GoroutinesEnded /\ Routes!FollowsRoute
            /\ part = "winChange" => Changes!UsersSettled
            /\ part = "darwinTun" => Utun!DeviceSettled
            /\ part = "winSession" => Wintun!SessionSettled
            /\ part = "defaultRoute" => Default!OnDefault)
=============================================================================
