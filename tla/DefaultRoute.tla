---------------------------- MODULE DefaultRoute ----------------------------
(***************************************************************************)
(* checkUpdate on Android, macOS and Windows: how the default interface is  *)
(* chosen among the system's rules and routes, and what the subscribers are *)
(* told (monitor_android.go, monitor_darwin.go, monitor_windows.go,         *)
(* postCheckUpdate in monitor_shared.go).                                   *)
(*                                                                          *)
(* A row of a routing table is the interface it leads to, its metrics and   *)
(* the one thing that keeps it from being used, or "ok".  A rule of Android *)
(* is what its mask and its UID range make of it.                           *)
(***************************************************************************)
EXTENDS Integers, Sequences, FiniteSets
LOCAL INSTANCE SequencesExt

CONSTANTS
  Interfaces, None,
  Platforms,             \* of {"android", "darwin", "windows"}
  Tables,                \* per platform: what its tables may hold
  Width,                 \* metrics are uint32, here modulo Width; on Windows the sum of a
                         \* route's and its interface's stays below the largest
  MaxChanges, MaxFailures

VARIABLES
  platform, override,  \* overrideAndroidVPN
  table,               \* the system's tables
  defaultInterface, androidVPNEnabled, noRoute,
  told, toldVPN,       \* the last interface and the VPN state a subscriber knows of
  due,                 \* a check is due
  dropped,             \* a change of the VPN was stored and not emitted
  changes, failures

monitor == <<defaultInterface, androidVPNEnabled, noRoute>>
subscriber == <<told, toldVPN, dropped>>
fixed == <<platform, override>>
vars == <<fixed, table, monitor, subscriber, due, changes, failures>>

Routes == Interfaces \cup {None}

TypeOK ==
  /\ platform \in Platforms /\ override \in BOOLEAN /\ table \in Tables[platform]
  /\ defaultInterface \in Routes /\ told \in Routes
  /\ androidVPNEnabled \in BOOLEAN /\ toldVPN \in BOOLEAN /\ noRoute \in BOOLEAN
  /\ due \in BOOLEAN /\ dropped \in BOOLEAN
  /\ changes \in 0 .. MaxChanges /\ failures \in 0 .. MaxFailures

Init ==
  /\ platform \in Platforms /\ override \in BOOLEAN /\ table \in Tables[platform]
  /\ defaultInterface = None /\ androidVPNEnabled = FALSE /\ noRoute = FALSE
  /\ told = None /\ toldVPN = FALSE /\ dropped = FALSE
  /\ due = TRUE /\ changes = 0 /\ failures = 0
-----------------------------------------------------------------------------
(* Windows: the usable default route with the least sum of metrics, the      *)
(* first of those with the same.                                             *)
Better(best, row) ==
  LET metric == (row.metric + row.ifMetric) % Width
  IN IF row.defect = "ok" /\ metric < best.metric
     THEN [metric |-> metric, interface |-> row.interface] ELSE best

WindowsDefault(rows) ==
  FoldLeft(Better, [metric |-> Width - 1, interface |-> None], rows).interface

\* macOS: the first usable default route of IPv4
FirstUsable(found, message) ==
  IF found = None /\ message.defect = "ok" THEN message.interface ELSE found

DarwinDefault(messages) == FoldLeft(FirstUsable, None, messages)

\* Android: the loop over the rules ends at the rule of the default network, or
\* at a VPN's when it is to be followed.
VPNRule(rule) == rule = "vpn"

AndroidRule(scan, rule) ==
  IF scan.table # "none" THEN scan
  ELSE IF VPNRule(rule)
       THEN [vpn |-> TRUE, table |-> IF override THEN "vpn" ELSE "none"]
       ELSE IF rule = "default" THEN [scan EXCEPT !.table = "net"] ELSE scan

AndroidRules(rules) == FoldLeft(AndroidRule, [vpn |-> FALSE, table |-> "none"], rules)

\* The interface of the first route of the chosen table.
AndroidDefault ==
  LET chosen == AndroidRules(table.rules).table
  IN IF chosen = "none" THEN None ELSE table.routes[chosen]

Found ==
  CASE platform = "android" -> AndroidDefault
    [] platform = "darwin" -> DarwinDefault(table)
    [] platform = "windows" -> WindowsDefault(table)
-----------------------------------------------------------------------------
NetworkChanges ==
  /\ changes < MaxChanges /\ changes' = changes + 1
  /\ table' \in Tables[platform] \ {table} /\ due' = TRUE
  /\ UNCHANGED <<fixed, monitor, subscriber, failures>>

Fails == failures < MaxFailures /\ failures' = failures + 1

NewVPN == IF platform = "android" THEN AndroidRules(table.rules).vpn ELSE FALSE

\* slip: after a failure no other check is due
CheckFailsForGood ==
  /\ due /\ due' = FALSE /\ Fails
  /\ UNCHANGED <<fixed, table, monitor, subscriber, changes>>

\* The tables cannot be read, or the interfaces not be updated: nothing has changed.
CheckFailsFirst ==
  /\ due /\ Fails
  /\ UNCHANGED <<fixed, table, monitor, subscriber, due, changes>>

\* The VPN flag is stored, then the routes, the link or the interface are not found.
\* The next check compares with the new flag.
CheckFailsLate ==
  /\ due /\ platform = "android" /\ Fails
  /\ AndroidRules(table.rules).table # "none"
  /\ androidVPNEnabled' = NewVPN
  /\ dropped' = (dropped \/ NewVPN # androidVPNEnabled)
  /\ UNCHANGED <<fixed, table, defaultInterface, noRoute, told, toldVPN, due, changes>>

\* ErrNoRoute: the subscribers are told once, without flags, and there is no retry.
CheckNoRoute ==
  /\ due /\ due' = FALSE /\ Found = None
  /\ androidVPNEnabled' = NewVPN /\ dropped' = (dropped \/ NewVPN # androidVPNEnabled)
  /\ noRoute' = TRUE
  /\ IF noRoute THEN UNCHANGED <<defaultInterface, told>>
     ELSE defaultInterface' = None /\ told' = None
  /\ UNCHANGED <<fixed, table, toldVPN, changes, failures>>

\* slip: subscribers hear of a VPN only together with another interface
EmitsInterfaceOnly == Found # defaultInterface
Emits == Found # defaultInterface \/ NewVPN # androidVPNEnabled

CheckFinds ==
  /\ due /\ due' = FALSE /\ Found # None
  /\ defaultInterface' = Found /\ androidVPNEnabled' = NewVPN /\ noRoute' = FALSE
  /\ told' = IF Emits THEN Found ELSE told
  /\ toldVPN' = IF Emits /\ NewVPN # androidVPNEnabled THEN NewVPN ELSE toldVPN
  /\ UNCHANGED <<fixed, table, dropped, changes, failures>>

Check == CheckFailsFirst \/ CheckFailsLate \/ CheckNoRoute \/ CheckFinds

Next == NetworkChanges \/ Check

\* A check that is due runs: delayCheckUpdate has armed the timer.
Spec == Init /\ [][Next]_vars /\ WF_vars(Check)
-----------------------------------------------------------------------------
(* What a subscriber was told last is what DefaultInterface returns, whatever *)
(* sequence of routes, VPNs, failures and recoveries there has been.          *)
ToldTheDefault == told = defaultInterface

(* A subscriber's view of the VPN (tun_linux.go resets its rules on           *)
(* FlagAndroidVPNUpdate) is the monitor's, unless a change of the VPN came    *)
(* together with a check that failed late or found no route.                  *)
VPNChangeIsTold == ~dropped => toldVPN = androidVPNEnabled

(* checkUpdate: a subscriber knows what the monitor knows.                    *)
DefaultIsTold == ToldTheDefault /\ VPNChangeIsTold

\* The interfaces a user would call the default, from what the tables mean.
Usable == {i \in DOMAIN table : table[i].defect = "ok"}
Metric(i) == table[i].metric + table[i].ifMetric
VPNUp ==
  \E i \in DOMAIN table.rules :
    table.rules[i] = "vpn" /\ \A j \in 1 .. i - 1 : table.rules[j] # "default"
NetUp == \E i \in DOMAIN table.rules : table.rules[i] = "default"
Wanted ==
  CASE platform = "windows" ->
         {table[i].interface : i \in {u \in Usable : \A v \in Usable : Metric(u) <= Metric(v)}}
    [] platform = "darwin" -> {table[i].interface : i \in Usable}
    [] platform = "android" ->
         IF override /\ VPNUp THEN {table.routes["vpn"]}
         ELSE IF NetUp THEN {table.routes["net"]} ELSE {}

(* When the network rests the monitor settles on a default route the system   *)
(* can use: on Windows none has a lower metric, on Android a VPN's only when  *)
(* it is to be followed; without one on no interface; and on Android it knows *)
(* whether a VPN is up.                                                       *)
OnDefault ==
  /\ IF Wanted \subseteq {None} THEN defaultInterface = None ELSE defaultInterface \in Wanted
  /\ platform = "android" => androidVPNEnabled = VPNUp
=============================================================================
