------------------------------ MODULE AutoRoute ------------------------------
(***************************************************************************)
(* Auto-route on Linux: NativeTun.configure and Close (tun_linux.go), the   *)
(* DNAT bypass (route_dnat_linux.go) and the refresh of the IPVS DNS bypass *)
(* (route_ipvs_linux.go, route_ipvs_output_linux.go).                       *)
(*                                                                          *)
(* The goroutine that calls New and Close is ctl; the ticker goroutine of   *)
(* the bypass runs refreshIPVSDNSBypass; on Android the network monitor     *)
(* calls routeUpdate.  The policy rules and the firewall tables belong to   *)
(* the kernel and outlive the process; addresses and routes die with the    *)
(* tun device, so only the outcome of setting them is modelled.  Every      *)
(* operation on the kernel may fail.                                        *)
(***************************************************************************)
EXTENDS Integers

CONSTANTS
  Destinations,  \* ipvsDNSDestination values
  Inet4,         \* the ones with an IPv4 endpoint
  TunFamilies,   \* the families of Inet4Address and Inet6Address
  BaseRules,     \* the other rules of rules(), for these options
  Android,       \* runtime.GOOS = "android"
  MarkMode,      \* options.AutoRedirectMarkMode
  Nobody,        \* the holder of a free routeAccess
  MaxFailures,   \* bounds of the model: operations that fail,
  MaxChanges,    \* changes of the IPVS table,
  MaxRuns        \* and lives of the process

Families == {4, 6}
Family(d) == IF d \in Inet4 THEN 4 ELSE 6

ASSUME OptionsAssumption ==
  /\ Inet4 \subseteq Destinations /\ TunFamilies \subseteq Families
  /\ BaseRules \cap Destinations = {}
  /\ Android \in BOOLEAN /\ MarkMode \in BOOLEAN
ASSUME LockAssumption == Nobody \notin {"refresh", "close"}
ASSUME BoundAssumption == MaxFailures \in Nat /\ MaxChanges \in Nat /\ MaxRuns \in Nat

VARIABLES
  ctl,                      \* where New and Close are
  dnatBypass, ipvsDNSBypass, \* the fields are not nil
  destinations,             \* ipvsDNSBypass.destinations
  ticker, stop,             \* the ticker goroutine, the stop channel closed
  routeAccess,              \* the holder of the mutex
  rpc, newDestinations, current, outputErr, \* refreshIPVSDNSBypass and its locals
  ipvsOutput,               \* dnatBypass.ipvsOutput
  rules,                    \* kernel: the policy rules in our range
  fwTable, fwOut,           \* kernel: the firewall table, its OUTPUT targets
  ipvsTable,                \* kernel: the DNS backends in /proc/net/ip_vs
  registered, pending,      \* Android: the callback, an event on its way
  failures, changes, runs,  \* how often
  stale,                    \* history: rules found by New
  residue                   \* history: a clean-up failed, or was not ours to do

bypassVars == <<destinations, ticker, stop>>
refreshVars == <<rpc, newDestinations, current, outputErr>>
fwVars == <<fwTable, fwOut, ipvsOutput>>
monitorVars == <<registered, pending>>
boundVars == <<changes, runs, stale>>
vars == <<ctl, dnatBypass, ipvsDNSBypass, bypassVars, routeAccess, refreshVars,
          fwVars, rules, ipvsTable, monitorVars, failures, boundVars, residue>>

CtlPC == {"down", "link", "dnat", "ipvs", "route", "cleanup", "rules", "domain",
          "undoRules", "undoDnat", "failed", "refresh", "start", "running",
          "stopping", "lock", "unset", "unsetDnat", "closed"}
RefreshPC == {"idle", "lock", "load", "add", "out4", "out6", "delete", "save"}

FlagsOK ==
  /\ dnatBypass \in BOOLEAN /\ ipvsDNSBypass \in BOOLEAN /\ stop \in BOOLEAN
  /\ outputErr \in BOOLEAN /\ fwTable \in BOOLEAN /\ registered \in BOOLEAN
  /\ pending \in BOOLEAN /\ residue \in BOOLEAN

TypeOK ==
  /\ ctl \in CtlPC /\ rpc \in RefreshPC
  /\ ticker \in {"off", "waiting", "refreshing", "exited"}
  /\ FlagsOK
  /\ destinations \subseteq Destinations /\ newDestinations \subseteq Destinations
  /\ current \subseteq Destinations /\ ipvsTable \subseteq Destinations
  /\ routeAccess \in {Nobody, "refresh", "close"}
  /\ ipvsOutput \in [Families -> SUBSET Destinations]
  /\ fwOut \in [Families -> SUBSET Destinations]
  /\ rules \subseteq BaseRules \cup Destinations
  /\ stale \subseteq BaseRules \cup Destinations
  /\ failures \in Nat /\ changes \in Nat /\ runs \in Nat

NoOutput == [f \in Families |-> {}]

Init ==
  /\ ctl = "down" /\ rpc = "idle" /\ ticker = "off" /\ routeAccess = Nobody
  /\ dnatBypass = FALSE /\ ipvsDNSBypass = FALSE /\ stop = FALSE
  /\ destinations = {} /\ newDestinations = {} /\ current = {} /\ outputErr = FALSE
  /\ ipvsOutput = NoOutput /\ fwOut = NoOutput /\ fwTable = FALSE
  /\ rules = {} /\ stale = {} /\ residue = FALSE
  /\ ipvsTable \in SUBSET Destinations
  /\ registered = FALSE /\ pending = FALSE
  /\ failures = 0 /\ changes = 0 /\ runs = 0
-----------------------------------------------------------------------------
(* Kernel operations. *)
Works == UNCHANGED failures
Fails ==
  /\ failures < MaxFailures
  /\ failures' = failures + 1

\* ipvsDNSRule(d) is not nil.
HasRule(d) == Family(d) \in TunFamilies
LookupRules(S) == {d \in S : HasRule(d)}

\* rules(): the IPVS part comes from what the bypass remembers.
WantedRules == BaseRules \cup (IF ipvsDNSBypass THEN LookupRules(destinations) ELSE {})

\* unsetRules deletes what the kernel lists in our priority range, one rule
\* after the other, and stops at the first failure.
UnsetRules == Works /\ rules' = {}
UnsetRulesFails == Fails /\ rules' \in SUBSET rules

\* setRules adds one rule after the other; a rule that exists is an error.
SetRules ==
  /\ Works /\ rules \cap WantedRules = {}
  /\ rules' = rules \cup WantedRules
SetRulesFails ==
  /\ Fails
  /\ \E S \in SUBSET WantedRules : S # WantedRules /\ rules' = rules \cup S

\* autoRouteDNATBypass.Close: one nftables transaction, or one iptables chain
\* after the other.  The cache is reset only when all of it worked.
CloseDnat ==
  /\ fwTable' = FALSE /\ fwOut' = NoOutput /\ ipvsOutput' = NoOutput
CloseDnatFails ==
  /\ fwTable' \in {fwTable, FALSE}
  /\ fwOut' \in {o \in [Families -> SUBSET Destinations] :
                   \A f \in Families : o[f] \in {fwOut[f], {}}}
  /\ UNCHANGED ipvsOutput

\* common.Close(common.PtrOrNil(t.dnatBypass))
CloseOwnDnat ==
  \/ ~dnatBypass /\ Works /\ UNCHANGED <<fwVars, residue>>
  \/ dnatBypass /\ Works /\ CloseDnat /\ UNCHANGED residue
  \/ dnatBypass /\ Fails /\ CloseDnatFails /\ residue' = TRUE
-----------------------------------------------------------------------------
(* New and configure.  A step names what it changes; the rest of the state  *)
(* belongs to the goroutines that configure has not started yet.            *)
CtlGoTo(from, to) == ctl = from /\ ctl' = to
Quiet == UNCHANGED <<bypassVars, routeAccess, refreshVars, ipvsTable, monitorVars, boundVars>>
NoBypassChange == UNCHANGED <<dnatBypass, ipvsDNSBypass, fwVars>>

New ==
  /\ CtlGoTo("down", "link")
  /\ residue' = (fwTable \/ fwOut # NoOutput)
  /\ UNCHANGED <<rules, failures>> /\ NoBypassChange /\ Quiet

\* MTU, addresses, offloads, link up.  EPERM ends configure without an error.
LinkReady ==
  /\ CtlGoTo("link", IF Android THEN "route" ELSE "dnat")
  /\ UNCHANGED <<rules, failures, residue>> /\ NoBypassChange /\ Quiet

LinkFails ==
  /\ CtlGoTo("link", "running") \/ CtlGoTo("link", "failed")
  /\ Fails
  /\ UNCHANGED <<rules, residue>> /\ NoBypassChange /\ Quiet

\* enableAutoRouteDNATBypass: Start removes what an interrupted process left
\* and sets up the table; when any of it fails the bypass stays off.
AfterDnat == IF MarkMode THEN "route" ELSE "ipvs"
StartDnat ==
  /\ CtlGoTo("dnat", AfterDnat)
  /\ dnatBypass' = TRUE
  /\ fwTable' = TRUE /\ fwOut' = NoOutput /\ ipvsOutput' = NoOutput
  /\ residue' = FALSE
  /\ UNCHANGED <<ipvsDNSBypass, rules, failures>> /\ Quiet

\* The first Close failed or was not reached, the set-up failed and was
\* undone, or undoing it failed as well.
StartDnatFails ==
  /\ CtlGoTo("dnat", AfterDnat)
  /\ Fails
  /\ \/ CloseDnatFails /\ residue' = (fwTable' \/ fwOut' # NoOutput)
     \/ CloseDnat /\ residue' = FALSE
     \/ /\ fwTable' = TRUE /\ fwOut' = NoOutput /\ ipvsOutput' = NoOutput
        /\ residue' = TRUE
  /\ UNCHANGED <<dnatBypass, ipvsDNSBypass, rules>> /\ Quiet

\* enableAutoRouteIPVSDNSBypass
LoadFirst ==
  /\ CtlGoTo("ipvs", "route")
  /\ ipvsDNSBypass' = TRUE /\ destinations' = ipvsTable
  /\ UNCHANGED <<dnatBypass, ticker, stop, routeAccess, refreshVars, fwVars, rules,
                 ipvsTable, monitorVars, failures, boundVars, residue>>

LoadFirstFails ==
  /\ CtlGoTo("ipvs", "route")
  /\ Fails
  /\ UNCHANGED <<rules, residue>> /\ NoBypassChange /\ Quiet

SetRoute ==
  /\ \/ CtlGoTo("route", "cleanup") /\ Works
     \/ CtlGoTo("route", "undoDnat") /\ Fails
  /\ UNCHANGED <<rules, residue>> /\ NoBypassChange /\ Quiet

CleanupRules ==
  /\ \/ CtlGoTo("cleanup", "rules") /\ UnsetRules
     \/ CtlGoTo("cleanup", "undoDnat") /\ UnsetRulesFails
  /\ UNCHANGED residue /\ NoBypassChange /\ Quiet

\* slip: the rules that were added before the failure stay
ConfigureRulesLeft ==
  /\ \/ CtlGoTo("rules", "domain") /\ SetRules
     \/ CtlGoTo("rules", "undoDnat") /\ SetRulesFails
  /\ UNCHANGED residue /\ NoBypassChange /\ Quiet

ConfigureRules ==
  /\ \/ CtlGoTo("rules", "domain") /\ SetRules
     \/ CtlGoTo("rules", "undoRules") /\ SetRulesFails
  /\ UNCHANGED residue /\ NoBypassChange /\ Quiet

SetSearchDomain ==
  /\ \/ CtlGoTo("domain", "refresh") /\ Works
     \/ CtlGoTo("domain", "undoRules") /\ Fails
  /\ UNCHANGED <<rules, residue>> /\ NoBypassChange /\ Quiet

UndoRules ==
  /\ CtlGoTo("undoRules", "undoDnat")
  /\ \/ UnsetRules /\ UNCHANGED residue
     \/ UnsetRulesFails /\ residue' = TRUE
  /\ NoBypassChange /\ Quiet

UndoDnat ==
  /\ CtlGoTo("undoDnat", "failed")
  /\ CloseOwnDnat
  /\ UNCHANGED <<dnatBypass, ipvsDNSBypass, rules>> /\ Quiet

\* The first refresh runs on this goroutine; then the ticker is started and,
\* on Android, the callback is registered.
FirstRefresh ==
  /\ CtlGoTo("refresh", "start")
  /\ rpc' = IF ipvsDNSBypass THEN "lock" ELSE "idle"
  /\ UNCHANGED <<bypassVars, routeAccess, newDestinations, current, outputErr, rules,
                 ipvsTable, monitorVars, failures, boundVars, residue>>
  /\ NoBypassChange

Started ==
  /\ CtlGoTo("start", "running")
  /\ rpc = "idle"
  /\ ticker' = IF ipvsDNSBypass THEN "waiting" ELSE "off"
  /\ registered' = Android
  /\ UNCHANGED <<destinations, stop, routeAccess, refreshVars, rules, ipvsTable, pending,
                 failures, boundVars, residue>>
  /\ NoBypassChange
-----------------------------------------------------------------------------
(* The ticker goroutine, and refreshIPVSDNSBypass on whichever goroutine    *)
(* calls it.                                                                *)
Idling == UNCHANGED <<ctl, dnatBypass, ipvsDNSBypass, ipvsTable, monitorVars, boundVars, residue>>

TickerFires ==
  /\ ticker = "waiting"
  /\ ticker' = "refreshing" /\ rpc' = "lock"
  /\ UNCHANGED <<destinations, stop, routeAccess, newDestinations, current, outputErr,
                 fwVars, rules, failures>> /\ Idling

TickerStops ==
  /\ ticker = "waiting" /\ stop
  /\ ticker' = "exited"
  /\ UNCHANGED <<destinations, stop, routeAccess, refreshVars, fwVars, rules, failures>>
  /\ Idling

RefreshGoTo(from, to) == rpc = from /\ rpc' = to

RefreshLock ==
  /\ routeAccess = Nobody
  /\ RefreshGoTo("lock", "load")
  /\ routeAccess' = "refresh"
  /\ UNCHANGED <<bypassVars, newDestinations, current, outputErr, fwVars, rules, failures>>
  /\ Idling

\* slip: nothing is done when the destinations did not change
AfterLoadChangedOnly == IF destinations # ipvsTable THEN "add" ELSE "save"

\* The unchanged case retries an output update that failed before; it needs
\* no rule and forgets none, so the steps after it have nothing to do.
AfterLoad ==
  CASE destinations # ipvsTable -> "add"
    [] destinations = ipvsTable /\ dnatBypass -> "out4"
    [] destinations = ipvsTable /\ ~dnatBypass -> "save"

RefreshLoad ==
  /\ \/ RefreshGoTo("load", AfterLoad) /\ newDestinations' = ipvsTable /\ Works
     \/ RefreshGoTo("load", "save") /\ UNCHANGED newDestinations /\ Fails
  /\ current' = destinations /\ outputErr' = FALSE
  /\ UNCHANGED <<bypassVars, routeAccess, fwVars, rules>> /\ Idling

\* updateIPVSDNSRules: add, output, delete.
RefreshAdd(d) ==
  /\ d \in newDestinations \ current
  /\ \/ /\ RefreshGoTo("add", "add") /\ Works
        /\ rules' = rules \cup LookupRules({d})
        /\ current' = current \cup {d}
     \/ /\ RefreshGoTo("add", "save") /\ Fails
        /\ HasRule(d)
        /\ UNCHANGED <<rules, current>>
  /\ UNCHANGED <<bypassVars, routeAccess, newDestinations, outputErr, fwVars>> /\ Idling

\* slip: the old rules go before the firewall has stopped selecting them
RefreshAddedDeletes ==
  /\ newDestinations \subseteq current
  /\ RefreshGoTo("add", IF dnatBypass THEN "out4" ELSE "delete")
  /\ rules' = rules \ (current \ newDestinations)
  /\ UNCHANGED <<bypassVars, routeAccess, newDestinations, current, outputErr, fwVars, failures>>
  /\ Idling

RefreshAdded ==
  /\ newDestinations \subseteq current
  /\ RefreshGoTo("add", IF dnatBypass THEN "out4" ELSE "delete")
  /\ UNCHANGED <<bypassVars, routeAccess, newDestinations, current, outputErr, fwVars,
                 rules, failures>>
  /\ Idling

\* updateIPVSDNSOutput: each family in one transaction, a failure of one does
\* not keep the other back.
Targets(f) == {d \in newDestinations : Family(d) = f /\ HasRule(d)}
ReplaceOutput(f) ==
  \/ /\ ipvsOutput[f] = Targets(f) /\ Works
     /\ UNCHANGED <<fwOut, ipvsOutput, outputErr>>
  \/ /\ ipvsOutput[f] # Targets(f) /\ Works
     /\ fwOut' = [fwOut EXCEPT ![f] = Targets(f)]
     /\ ipvsOutput' = [ipvsOutput EXCEPT ![f] = Targets(f)]
     /\ UNCHANGED outputErr
  \/ /\ ipvsOutput[f] # Targets(f) /\ Fails
     /\ outputErr' = TRUE
     /\ UNCHANGED <<fwOut, ipvsOutput>>

RefreshOutput ==
  /\ \/ RefreshGoTo("out4", "out6") /\ ReplaceOutput(4)
     \/ ReplaceOutput(6) /\ RefreshGoTo("out6", IF outputErr' THEN "save" ELSE "delete")
  /\ UNCHANGED <<bypassVars, routeAccess, newDestinations, current, fwTable, rules>>
  /\ Idling

RefreshDelete(d) ==
  /\ d \in current \ newDestinations
  /\ \/ /\ RefreshGoTo("delete", "delete") /\ Works
        /\ rules' = rules \ {d}
        /\ current' = current \ {d}
     \/ /\ RefreshGoTo("delete", "save") /\ Fails
        /\ HasRule(d)
        /\ UNCHANGED <<rules, current>>
  /\ UNCHANGED <<bypassVars, routeAccess, newDestinations, outputErr, fwVars>> /\ Idling

RefreshDeleted ==
  /\ current \subseteq newDestinations
  /\ RefreshGoTo("delete", "save")
  /\ UNCHANGED <<bypassVars, routeAccess, newDestinations, current, outputErr, fwVars,
                 rules, failures>>
  /\ Idling

\* slip: what was added or deleted before a failure is forgotten
InstalledAllOrNothing == IF current = newDestinations THEN current ELSE destinations

\* Replace(installed) and unlock.
Installed == current
RefreshSave ==
  /\ RefreshGoTo("save", "idle")
  /\ destinations' = Installed
  /\ routeAccess' = Nobody
  /\ newDestinations' = {} /\ current' = {} /\ outputErr' = FALSE
  /\ ticker' = IF ticker = "refreshing" THEN "waiting" ELSE ticker
  /\ UNCHANGED <<stop, fwVars, rules, failures>> /\ Idling

RefreshStep ==
  \/ RefreshLock \/ RefreshLoad \/ RefreshAdded \/ RefreshOutput
  \/ \E d \in Destinations : RefreshAdd(d) \/ RefreshDelete(d)
  \/ RefreshDeleted \/ RefreshSave
-----------------------------------------------------------------------------
(* Close. *)
Closing == UNCHANGED <<dnatBypass, ipvsDNSBypass, destinations, ticker, refreshVars,
                       ipvsTable, pending, boundVars>>

\* slip: the stop channel is never closed
CloseStopForgotten ==
  /\ CtlGoTo("running", "stopping")
  /\ UNCHANGED <<stop, routeAccess, fwVars, rules, registered, failures, residue>> /\ Closing

CloseStop ==
  /\ CtlGoTo("running", "stopping")
  /\ stop' = (ticker # "off")
  /\ UNCHANGED <<routeAccess, fwVars, rules, registered, failures, residue>> /\ Closing

CloseWait ==
  /\ CtlGoTo("stopping", "lock")
  /\ ticker \in {"off", "exited"}
  /\ registered' = FALSE
  /\ UNCHANGED <<stop, routeAccess, fwVars, rules, failures, residue>> /\ Closing

CloseLock ==
  /\ routeAccess = Nobody
  /\ CtlGoTo("lock", "unset")
  /\ routeAccess' = "close"
  /\ UNCHANGED <<stop, fwVars, rules, registered, failures, residue>> /\ Closing

CloseRules ==
  /\ CtlGoTo("unset", "unsetDnat")
  /\ \/ UnsetRules /\ UNCHANGED residue
     \/ UnsetRulesFails /\ residue' = TRUE
  /\ UNCHANGED <<stop, routeAccess, fwVars, registered>> /\ Closing

CloseFinish ==
  /\ CtlGoTo("unsetDnat", "closed")
  /\ CloseOwnDnat
  /\ routeAccess' = Nobody
  /\ UNCHANGED <<stop, rules, registered>> /\ Closing

CloseStep == CloseWait \/ CloseLock \/ CloseRules \/ CloseFinish
-----------------------------------------------------------------------------
(* The rest of the world. *)
TableChanges ==
  /\ changes < MaxChanges
  /\ ipvsTable' \in SUBSET Destinations
  /\ changes' = changes + 1
  /\ UNCHANGED <<ctl, dnatBypass, ipvsDNSBypass, bypassVars, routeAccess, refreshVars,
                 fwVars, rules, monitorVars, failures, runs, stale, residue>>

\* The monitor has copied its list of callbacks and is about to call ours.
MonitorEmits ==
  /\ registered /\ ~pending
  /\ pending' = TRUE
  /\ UNCHANGED <<ctl, dnatBypass, ipvsDNSBypass, bypassVars, routeAccess, refreshVars,
                 fwVars, rules, ipvsTable, registered, failures, boundVars, residue>>

\* routeUpdate: resetRules under the lock.  It does not ask whether Close has
\* been called.
RouteUpdate ==
  /\ pending /\ routeAccess = Nobody
  /\ pending' = FALSE
  /\ residue' = (residue \/ ctl = "closed")
  /\ \/ Works /\ rules' = WantedRules
     \/ Fails /\ rules' \in SUBSET rules
     \/ Fails /\ rules' \in SUBSET WantedRules
  /\ UNCHANGED <<ctl, dnatBypass, ipvsDNSBypass, bypassVars, routeAccess, refreshVars,
                 fwVars, ipvsTable, registered, boundVars>>

\* The process ends, wherever it is, and another one starts.
Restart ==
  /\ ctl # "down" /\ runs < MaxRuns
  /\ ctl' = "down" /\ runs' = runs + 1
  /\ dnatBypass' = FALSE /\ ipvsDNSBypass' = FALSE /\ destinations' = {}
  /\ ticker' = "off" /\ stop' = FALSE /\ routeAccess' = Nobody
  /\ rpc' = "idle" /\ newDestinations' = {} /\ current' = {} /\ outputErr' = FALSE
  /\ ipvsOutput' = NoOutput /\ registered' = FALSE /\ pending' = FALSE
  /\ stale' = rules
  /\ UNCHANGED <<fwTable, fwOut, rules, ipvsTable, failures, changes, residue>>

ConfigureStep ==
  \/ LinkReady \/ LinkFails \/ StartDnat \/ StartDnatFails \/ LoadFirst \/ LoadFirstFails
  \/ SetRoute \/ CleanupRules \/ ConfigureRules \/ SetSearchDomain \/ UndoRules \/ UndoDnat
  \/ FirstRefresh \/ Started

Next ==
  \/ New \/ ConfigureStep
  \/ TickerFires \/ TickerStops \/ RefreshStep
  \/ CloseStop \/ CloseStep
  \/ TableChanges \/ MonitorEmits \/ RouteUpdate \/ Restart

Spec == Init /\ [][Next]_vars

(* Every goroutine that can run runs; the ticker keeps firing, and a select *)
(* that finds both channels ready again and again takes either of them.     *)
(* Nothing obliges the program to call New or Close.                        *)
Fairness ==
  /\ WF_vars(ConfigureStep) /\ WF_vars(RefreshStep) /\ WF_vars(CloseStep)
  /\ WF_vars(TickerFires) /\ SF_vars(TickerStops)

FairSpec == Spec /\ Fairness
-----------------------------------------------------------------------------
Serving == ctl \in {"refresh", "start", "running", "stopping", "lock"}

(* "Only re-route packets after their lookup rules exist. Keep the old rules *)
(* until the firewall has stopped selecting those endpoints."  Every endpoint *)
(* the OUTPUT chains select has its lookup rule, in every intermediate state  *)
(* of a refresh and whatever part of it failed, until Close takes the lock.   *)
FirewallCovered ==
  Serving /\ dnatBypass => \A f \in Families : fwOut[f] \subseteq rules

(* Between refreshes the bypass remembers exactly the lookup rules that are  *)
(* installed: one it forgot would never be deleted, one it only imagines     *)
(* would never be added.                                                     *)
RulesRemembered ==
  Serving /\ ipvsDNSBypass /\ rpc \in {"idle", "lock", "load"} =>
    rules = BaseRules \cup LookupRules(destinations)

(* A configure that fails undoes what it did, and Close leaves nothing behind *)
(* although the ticker and the monitor work beside it.  The exceptions are a *)
(* clean-up that fails and a routeUpdate that the monitor delivers after     *)
(* Close.                                                                    *)
StoppedLeavesNothing ==
  ~residue =>
    /\ ctl = "failed" => rules \subseteq stale
    /\ ctl = "closed" => rules = {}
    /\ ctl \in {"failed", "closed"} => ~fwTable /\ fwOut = NoOutput

(* The inductive invariant behind the properties above. *)
\* Who holds the mutex is where it is held.
LockHeld ==
  /\ routeAccess = "refresh" <=> rpc \notin {"idle", "lock"}
  /\ routeAccess = "close" <=> ctl \in {"unset", "unsetDnat"}

\* A refresh runs in configure or on the ticker goroutine, and is over before
\* Close goes past the wait.
RefreshPlace ==
  /\ rpc # "idle" => ctl = "start" \/ ticker = "refreshing"
  /\ rpc # "idle" \/ ticker # "off" => ipvsDNSBypass
  /\ ticker \in {"waiting", "refreshing"} => ctl \in {"running", "stopping"}
  /\ ticker = "exited" \/ stop => ctl \in {"stopping", "lock", "unset", "unsetDnat", "closed"}

\* Which bypass exists when.
BypassPlace ==
  /\ ctl \in {"down", "link", "dnat"} => ~dnatBypass
  /\ ctl \in {"down", "link", "dnat", "ipvs"} => ~ipvsDNSBypass
  /\ Android => ~dnatBypass /\ ~ipvsDNSBypass /\ ctl \notin {"dnat", "ipvs"}
  /\ registered \/ pending =>
       Android /\ ctl \in {"running", "stopping", "lock", "unset", "unsetDnat", "closed"}

\* The lookup rules, also in the middle of a refresh.
Remembered == IF rpc \in {"idle", "lock", "load"} THEN destinations ELSE current
RulesPlace ==
  /\ ctl \in {"down", "link", "dnat", "ipvs", "route", "cleanup"} => rules \subseteq stale
  /\ ctl = "rules" => rules = {}
  /\ ctl = "domain" => rules = WantedRules
  /\ Serving /\ ipvsDNSBypass => rules = BaseRules \cup LookupRules(Remembered)

\* The firewall, against its cache and against the refresh.
OutputPlace ==
  dnatBypass =>
    /\ ctl \notin {"failed", "closed"} => ipvsOutput = fwOut
    /\ ctl \in {"ipvs", "route", "cleanup", "rules", "domain"} => fwOut = NoOutput
    /\ Serving /\ ~ipvsDNSBypass => fwOut = NoOutput
    /\ Serving /\ ipvsDNSBypass =>
         \A f \in Families : fwOut[f] \subseteq LookupRules(Remembered)
    /\ rpc = "out6" /\ ~outputErr => fwOut[4] = Targets(4)
    /\ rpc = "delete" => \A f \in Families : fwOut[f] = Targets(f)

RefreshPhase ==
  /\ rpc \in {"out4", "out6", "delete"} => newDestinations \subseteq current
  /\ rpc \in {"out4", "out6"} => dnatBypass

\* What is left when a clean-up has not failed.
CleanPlace ==
  ~residue =>
    /\ ctl # "down" /\ ~dnatBypass => ~fwTable /\ fwOut = NoOutput
    /\ ctl = "undoDnat" => rules \subseteq stale
    /\ ctl = "unsetDnat" => rules = {}

RouteInv ==
  /\ TypeOK /\ LockHeld /\ RefreshPlace /\ BypassPlace /\ RulesPlace
  /\ OutputPlace /\ RefreshPhase /\ CleanPlace /\ StoppedLeavesNothing

(* Close returns: it waits for the ticker goroutine before it takes the lock *)
(* a refresh may need.                                                       *)
CloseReturns == (ctl = "stopping") ~> (ctl \in {"closed", "down"})

(* Once nothing fails and the IPVS table rests, the rules and both firewall *)
(* families follow it, whatever failed before.                               *)
Settled ==
  /\ rules = BaseRules \cup LookupRules(ipvsTable)
  /\ dnatBypass => \A f \in Families :
                     fwOut[f] = {d \in LookupRules(ipvsTable) : Family(d) = f}
Converges ==
  (ctl = "running" /\ ipvsDNSBypass) ~> (Settled \/ ctl # "running")
=============================================================================
