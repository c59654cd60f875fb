--------------------------- MODULE AutoRouteProofs ---------------------------
(***************************************************************************)
(* Proofs about AutoRoute: the inductive invariant RouteInv, one lemma per  *)
(* action, and the three properties that follow from it.                    *)
(***************************************************************************)
EXTENDS AutoRoute, TLAPS

USE OptionsAssumption, LockAssumption, BoundAssumption
    DEF bypassVars, refreshVars, fwVars, monitorVars, boundVars,
        Families, NoOutput, HasRule, LookupRules

(* The initial states satisfy the invariant. *)
LEMMA InitInv == Init => RouteInv
<1> SUFFICES ASSUME Init PROVE RouteInv
  OBVIOUS
<1>1. FlagsOK
  BY Zenon DEF Init, FlagsOK
<1>2. TypeOK
  BY <1>1 DEF Init, TypeOK, CtlPC, RefreshPC
<1>3. LockHeld /\ RefreshPlace /\ BypassPlace /\ RefreshPhase
  BY DEF Init, LockHeld, RefreshPlace, BypassPlace, RefreshPhase
<1>4. RulesPlace /\ OutputPlace /\ CleanPlace /\ StoppedLeavesNothing
  BY DEF Init, RulesPlace, OutputPlace, CleanPlace, StoppedLeavesNothing, Serving
<1> QED BY <1>1, <1>2, <1>3, <1>4 DEF RouteInv

(* Closing the firewall bypass leaves well-typed tables and empties some of *)
(* the OUTPUT targets, all of them when it works.                           *)
LEMMA CloseDnatTypes ==
  ASSUME TypeOK, CloseDnat \/ CloseDnatFails
  PROVE  /\ fwTable' \in BOOLEAN
         /\ fwOut' \in [Families -> SUBSET Destinations]
         /\ ipvsOutput' \in [Families -> SUBSET Destinations]
<1>1. fwTable' \in BOOLEAN
  BY Zenon DEF TypeOK, FlagsOK, CloseDnat, CloseDnatFails
<1>2. CASE CloseDnat
  BY <1>1, <1>2 DEF CloseDnat
<1>3. CASE CloseDnatFails
  BY <1>1, <1>3 DEF TypeOK, CloseDnatFails
<1> QED BY <1>2, <1>3

(* Closing the bypass of this tun: what is left when nothing failed. *)
LEMMA CloseOwnDnatEffect ==
  ASSUME TypeOK, CloseOwnDnat
  PROVE  /\ fwOut' \in [Families -> SUBSET Destinations]
         /\ ipvsOutput' \in [Families -> SUBSET Destinations]
         /\ failures' \in Nat
         /\ ~residue' => ~residue
         /\ ~residue' /\ dnatBypass => ~fwTable' /\ fwOut' = NoOutput
         /\ ~residue' /\ ~dnatBypass => UNCHANGED <<fwTable, fwOut>>
<1>1. CASE ~dnatBypass /\ Works /\ UNCHANGED <<fwVars, residue>>
  BY <1>1 DEF TypeOK, Works
<1>2. CASE dnatBypass /\ Works /\ CloseDnat /\ UNCHANGED residue
  BY <1>2 DEF TypeOK, Works, CloseDnat
<1>3. CASE dnatBypass /\ Fails /\ CloseDnatFails /\ residue' = TRUE
  BY <1>3, CloseDnatTypes DEF TypeOK, Fails
<1> QED BY <1>1, <1>2, <1>3 DEF CloseOwnDnat

(* One family of the OUTPUT chains: it follows the new destinations, or an  *)
(* error is noted and nothing changes; the cache stays true.                *)
LEMMA ReplaceOutputEffect ==
  ASSUME TypeOK, ipvsOutput = fwOut, NEW f \in Families, ReplaceOutput(f)
  PROVE  /\ outputErr' \in BOOLEAN
         /\ fwOut' \in [Families -> SUBSET Destinations]
         /\ ipvsOutput' = fwOut'
         /\ \A g \in Families : g # f => fwOut'[g] = fwOut[g]
         /\ fwOut'[f] = Targets(f) \/ fwOut'[f] = fwOut[f]
         /\ ~outputErr' => fwOut'[f] = Targets(f) /\ ~outputErr
         /\ failures' \in Nat
<1>0. Targets(f) \in SUBSET Destinations
  BY DEF Targets, TypeOK
<1>1. outputErr' \in BOOLEAN
  BY Zenon DEF ReplaceOutput, TypeOK, FlagsOK
<1>2. CASE ipvsOutput[f] = Targets(f) /\ UNCHANGED <<fwOut, ipvsOutput, outputErr, failures>>
  BY <1>1, <1>2 DEF TypeOK
<1>3. CASE /\ fwOut' = [fwOut EXCEPT ![f] = Targets(f)]
           /\ ipvsOutput' = [ipvsOutput EXCEPT ![f] = Targets(f)]
           /\ UNCHANGED <<outputErr, failures>>
  BY <1>0, <1>1, <1>3 DEF TypeOK
<1>4. CASE Fails /\ outputErr' = TRUE /\ UNCHANGED <<fwOut, ipvsOutput>>
  BY <1>1, <1>4 DEF TypeOK, Fails
<1> QED BY <1>2, <1>3, <1>4 DEF ReplaceOutput, Works

(* New notes what an earlier process left. *)
LEMMA NewInv ==
  ASSUME RouteInv, New
  PROVE  RouteInv'
<1> USE DEF New, CtlGoTo, Quiet, NoBypassChange
<1>1. FlagsOK'
  BY Zenon DEF RouteInv, TypeOK, FlagsOK
<1>2. TypeOK'
  BY <1>1 DEF RouteInv, TypeOK, CtlPC, RefreshPC, WantedRules
<1>3. /\ LockHeld' /\ RefreshPlace' /\ BypassPlace' /\ RefreshPhase' /\ RulesPlace'
      /\ OutputPlace' /\ CleanPlace' /\ StoppedLeavesNothing'
  BY DEF RouteInv, TypeOK, LockHeld, RefreshPlace, BypassPlace, RefreshPhase, RulesPlace,
     OutputPlace, CleanPlace, StoppedLeavesNothing, Remembered, Serving, WantedRules, Targets
<1> QED BY <1>2, <1>3 DEF RouteInv

(* The link is up. *)
LEMMA LinkReadyInv ==
  ASSUME RouteInv, LinkReady
  PROVE  RouteInv'
<1> USE DEF LinkReady, CtlGoTo, Quiet, NoBypassChange
<1>1. FlagsOK'
  BY Zenon DEF RouteInv, TypeOK, FlagsOK
<1>2. TypeOK'
  BY <1>1 DEF RouteInv, TypeOK, CtlPC, RefreshPC, WantedRules
<1>3. /\ LockHeld' /\ RefreshPlace' /\ BypassPlace' /\ RefreshPhase' /\ RulesPlace'
      /\ OutputPlace' /\ CleanPlace' /\ StoppedLeavesNothing'
  BY DEF RouteInv, TypeOK, LockHeld, RefreshPlace, BypassPlace, RefreshPhase, RulesPlace,
     OutputPlace, CleanPlace, StoppedLeavesNothing, Remembered, Serving, WantedRules, Targets
<1> QED BY <1>2, <1>3 DEF RouteInv

(* configure ends before it touched rules or firewall. *)
LEMMA LinkFailsInv ==
  ASSUME RouteInv, LinkFails
  PROVE  RouteInv'
<1> USE DEF LinkFails, Fails, CtlGoTo, Quiet, NoBypassChange
<1>1. FlagsOK'
  BY Zenon DEF RouteInv, TypeOK, FlagsOK
<1>2. TypeOK'
  BY <1>1 DEF RouteInv, TypeOK, CtlPC, RefreshPC, WantedRules
<1>3. /\ LockHeld' /\ RefreshPlace' /\ BypassPlace' /\ RefreshPhase' /\ RulesPlace'
      /\ OutputPlace' /\ CleanPlace' /\ StoppedLeavesNothing'
  BY DEF RouteInv, TypeOK, LockHeld, RefreshPlace, BypassPlace, RefreshPhase, RulesPlace,
     OutputPlace, CleanPlace, StoppedLeavesNothing, Remembered, Serving, WantedRules, Targets
<1> QED BY <1>2, <1>3 DEF RouteInv

(* The DNAT bypass is on, with a fresh table. *)
LEMMA StartDnatInv ==
  ASSUME RouteInv, StartDnat
  PROVE  RouteInv'
<1> USE DEF StartDnat, AfterDnat, CtlGoTo, Quiet, NoBypassChange
<1>1. FlagsOK'
  BY Zenon DEF RouteInv, TypeOK, FlagsOK
<1>2. TypeOK'
  BY <1>1 DEF RouteInv, TypeOK, CtlPC, RefreshPC, WantedRules
<1>3. /\ LockHeld' /\ RefreshPlace' /\ BypassPlace' /\ RefreshPhase' /\ RulesPlace'
      /\ OutputPlace' /\ CleanPlace' /\ StoppedLeavesNothing'
  BY DEF RouteInv, TypeOK, LockHeld, RefreshPlace, BypassPlace, RefreshPhase, RulesPlace,
     OutputPlace, CleanPlace, StoppedLeavesNothing, Remembered, Serving, WantedRules, Targets
<1> QED BY <1>2, <1>3 DEF RouteInv

(* The DNAT bypass stays off. *)
LEMMA StartDnatFailsInv ==
  ASSUME RouteInv, StartDnatFails
  PROVE  RouteInv'
<1> USE DEF StartDnatFails, Fails, AfterDnat, CloseDnat, CloseDnatFails, CtlGoTo, Quiet,
   NoBypassChange
<1>1. FlagsOK'
  BY Zenon DEF RouteInv, TypeOK, FlagsOK
<1>2. TypeOK'
  <2>1. fwOut' \in [Families -> SUBSET Destinations] /\ ipvsOutput' \in [Families -> SUBSET Destinations]
    <3>1. CASE CloseDnat \/ CloseDnatFails
      BY <3>1, CloseDnatTypes DEF RouteInv
    <3>2. CASE fwOut' = NoOutput /\ ipvsOutput' = NoOutput
      BY <3>2
    <3> HIDE DEF CloseDnat, CloseDnatFails
    <3> QED BY <3>1, <3>2
  <2> QED BY <1>1, <2>1 DEF RouteInv, TypeOK, CtlPC
<1>3. /\ LockHeld' /\ RefreshPlace' /\ BypassPlace' /\ RefreshPhase' /\ RulesPlace'
      /\ OutputPlace' /\ CleanPlace' /\ StoppedLeavesNothing'
  BY DEF RouteInv, TypeOK, LockHeld, RefreshPlace, BypassPlace, RefreshPhase, RulesPlace,
     OutputPlace, CleanPlace, StoppedLeavesNothing, Remembered, Serving, WantedRules, Targets
<1> QED BY <1>2, <1>3 DEF RouteInv

(* The IPVS bypass is on. *)
LEMMA LoadFirstInv ==
  ASSUME RouteInv, LoadFirst
  PROVE  RouteInv'
<1> USE DEF LoadFirst, CtlGoTo, Quiet, NoBypassChange
<1>1. FlagsOK'
  BY Zenon DEF RouteInv, TypeOK, FlagsOK
<1>2. TypeOK'
  BY <1>1 DEF RouteInv, TypeOK, CtlPC, RefreshPC, WantedRules
<1>3. /\ LockHeld' /\ RefreshPlace' /\ BypassPlace' /\ RefreshPhase' /\ RulesPlace'
      /\ OutputPlace' /\ CleanPlace' /\ StoppedLeavesNothing'
  BY DEF RouteInv, TypeOK, LockHeld, RefreshPlace, BypassPlace, RefreshPhase, RulesPlace,
     OutputPlace, CleanPlace, StoppedLeavesNothing, Remembered, Serving, WantedRules, Targets
<1> QED BY <1>2, <1>3 DEF RouteInv

(* The IPVS bypass stays off. *)
LEMMA LoadFirstFailsInv ==
  ASSUME RouteInv, LoadFirstFails
  PROVE  RouteInv'
<1> USE DEF LoadFirstFails, Fails, CtlGoTo, Quiet, NoBypassChange
<1>1. FlagsOK'
  BY Zenon DEF RouteInv, TypeOK, FlagsOK
<1>2. TypeOK'
  BY <1>1 DEF RouteInv, TypeOK, CtlPC, RefreshPC, WantedRules
<1>3. /\ LockHeld' /\ RefreshPlace' /\ BypassPlace' /\ RefreshPhase' /\ RulesPlace'
      /\ OutputPlace' /\ CleanPlace' /\ StoppedLeavesNothing'
  BY DEF RouteInv, TypeOK, LockHeld, RefreshPlace, BypassPlace, RefreshPhase, RulesPlace,
     OutputPlace, CleanPlace, StoppedLeavesNothing, Remembered, Serving, WantedRules, Targets
<1> QED BY <1>2, <1>3 DEF RouteInv

(* Routes set, or configure gives up. *)
LEMMA SetRouteInv ==
  ASSUME RouteInv, SetRoute
  PROVE  RouteInv'
<1> USE DEF SetRoute, Works, Fails, CtlGoTo, Quiet, NoBypassChange
<1>1. FlagsOK'
  BY Zenon DEF RouteInv, TypeOK, FlagsOK
<1>2. TypeOK'
  BY <1>1 DEF RouteInv, TypeOK, CtlPC, RefreshPC, WantedRules
<1>3. /\ LockHeld' /\ RefreshPlace' /\ BypassPlace' /\ RefreshPhase' /\ RulesPlace'
      /\ OutputPlace' /\ CleanPlace' /\ StoppedLeavesNothing'
  BY DEF RouteInv, TypeOK, LockHeld, RefreshPlace, BypassPlace, RefreshPhase, RulesPlace,
     OutputPlace, CleanPlace, StoppedLeavesNothing, Remembered, Serving, WantedRules, Targets
<1> QED BY <1>2, <1>3 DEF RouteInv

(* The stale rules are gone, or configure gives up. *)
LEMMA CleanupRulesInv ==
  ASSUME RouteInv, CleanupRules
  PROVE  RouteInv'
<1> USE DEF CleanupRules, UnsetRules, UnsetRulesFails, Works, Fails, CtlGoTo, Quiet, NoBypassChange
<1>1. FlagsOK'
  BY Zenon DEF RouteInv, TypeOK, FlagsOK
<1>2. TypeOK'
  BY <1>1 DEF RouteInv, TypeOK, CtlPC, RefreshPC, WantedRules
<1>3. /\ LockHeld' /\ RefreshPlace' /\ BypassPlace' /\ RefreshPhase' /\ RulesPlace'
      /\ OutputPlace' /\ CleanPlace' /\ StoppedLeavesNothing'
  BY DEF RouteInv, TypeOK, LockHeld, RefreshPlace, BypassPlace, RefreshPhase, RulesPlace,
     OutputPlace, CleanPlace, StoppedLeavesNothing, Remembered, Serving, WantedRules, Targets
<1> QED BY <1>2, <1>3 DEF RouteInv

(* The wanted rules are in the kernel, or configure gives up. *)
LEMMA ConfigureRulesInv ==
  ASSUME RouteInv, ConfigureRules
  PROVE  RouteInv'
<1> USE DEF ConfigureRules, SetRules, SetRulesFails, Works, Fails, CtlGoTo, Quiet, NoBypassChange
<1>1. FlagsOK'
  BY Zenon DEF RouteInv, TypeOK, FlagsOK
<1>2. TypeOK'
  BY <1>1 DEF RouteInv, TypeOK, CtlPC, RefreshPC, WantedRules
<1>3. /\ LockHeld' /\ RefreshPlace' /\ BypassPlace' /\ RefreshPhase' /\ RulesPlace'
      /\ OutputPlace' /\ CleanPlace' /\ StoppedLeavesNothing'
  BY DEF RouteInv, TypeOK, LockHeld, RefreshPlace, BypassPlace, RefreshPhase, RulesPlace,
     OutputPlace, CleanPlace, StoppedLeavesNothing, Remembered, Serving, WantedRules, Targets
<1> QED BY <1>2, <1>3 DEF RouteInv

(* DNS is set, or configure gives up. *)
LEMMA SetSearchDomainInv ==
  ASSUME RouteInv, SetSearchDomain
  PROVE  RouteInv'
<1> USE DEF SetSearchDomain, Works, Fails, CtlGoTo, Quiet, NoBypassChange
<1>1. FlagsOK'
  BY Zenon DEF RouteInv, TypeOK, FlagsOK
<1>2. TypeOK'
  BY <1>1 DEF RouteInv, TypeOK, CtlPC, RefreshPC, WantedRules
<1>3. /\ LockHeld' /\ RefreshPlace' /\ BypassPlace' /\ RefreshPhase' /\ RulesPlace'
      /\ OutputPlace' /\ CleanPlace' /\ StoppedLeavesNothing'
  BY DEF RouteInv, TypeOK, LockHeld, RefreshPlace, BypassPlace, RefreshPhase, RulesPlace,
     OutputPlace, CleanPlace, StoppedLeavesNothing, Remembered, Serving, WantedRules, Targets
<1> QED BY <1>2, <1>3 DEF RouteInv

(* Roll-back of the rules. *)
LEMMA UndoRulesInv ==
  ASSUME RouteInv, UndoRules
  PROVE  RouteInv'
<1> USE DEF UndoRules, UnsetRules, UnsetRulesFails, Works, Fails, CtlGoTo, Quiet, NoBypassChange
<1>1. FlagsOK'
  BY Zenon DEF RouteInv, TypeOK, FlagsOK
<1>2. TypeOK'
  BY <1>1 DEF RouteInv, TypeOK, CtlPC, RefreshPC, WantedRules
<1>3. /\ LockHeld' /\ RefreshPlace' /\ BypassPlace' /\ RefreshPhase' /\ RulesPlace'
      /\ OutputPlace' /\ CleanPlace' /\ StoppedLeavesNothing'
  BY DEF RouteInv, TypeOK, LockHeld, RefreshPlace, BypassPlace, RefreshPhase, RulesPlace,
     OutputPlace, CleanPlace, StoppedLeavesNothing, Remembered, Serving, WantedRules, Targets
<1> QED BY <1>2, <1>3 DEF RouteInv

(* Roll-back of the firewall. *)
LEMMA UndoDnatInv ==
  ASSUME RouteInv, UndoDnat
  PROVE  RouteInv'
<1> USE DEF CtlGoTo, UndoDnat, Quiet
<1>1. FlagsOK'
  BY Zenon DEF RouteInv, TypeOK, FlagsOK, CloseOwnDnat, CloseDnat, CloseDnatFails
<1>2. TypeOK'
  BY <1>1, CloseOwnDnatEffect DEF RouteInv, TypeOK, CtlPC
<1>3. LockHeld' /\ RefreshPlace' /\ BypassPlace' /\ RefreshPhase'
  BY DEF RouteInv, TypeOK, LockHeld, RefreshPlace, BypassPlace, RefreshPhase
<1>4. RulesPlace'
  BY DEF RouteInv, TypeOK, RulesPlace, Serving
<1>5. OutputPlace'
  BY DEF RouteInv, TypeOK, OutputPlace, Serving, RefreshPlace, LockHeld
<1>6. CleanPlace' /\ StoppedLeavesNothing'
  BY CloseOwnDnatEffect DEF RouteInv, CleanPlace, StoppedLeavesNothing
<1> QED BY <1>2, <1>3, <1>4, <1>5, <1>6 DEF RouteInv

(* configure calls the first refresh. *)
LEMMA FirstRefreshInv ==
  ASSUME RouteInv, FirstRefresh
  PROVE  RouteInv'
<1> USE DEF FirstRefresh, CtlGoTo, Quiet, NoBypassChange
<1>1. FlagsOK'
  BY Zenon DEF RouteInv, TypeOK, FlagsOK
<1>2. TypeOK'
  BY <1>1 DEF RouteInv, TypeOK, CtlPC, RefreshPC, WantedRules
<1>3. /\ LockHeld' /\ RefreshPlace' /\ BypassPlace' /\ RefreshPhase' /\ RulesPlace'
      /\ OutputPlace' /\ CleanPlace' /\ StoppedLeavesNothing'
  BY DEF RouteInv, TypeOK, LockHeld, RefreshPlace, BypassPlace, RefreshPhase, RulesPlace,
     OutputPlace, CleanPlace, StoppedLeavesNothing, Remembered, Serving, WantedRules, Targets
<1> QED BY <1>2, <1>3 DEF RouteInv

(* The ticker and the callback start. *)
LEMMA StartedInv ==
  ASSUME RouteInv, Started
  PROVE  RouteInv'
<1> USE DEF Started, CtlGoTo, Quiet, NoBypassChange
<1>1. FlagsOK'
  BY Zenon DEF RouteInv, TypeOK, FlagsOK
<1>2. TypeOK'
  BY <1>1 DEF RouteInv, TypeOK, CtlPC, RefreshPC, WantedRules
<1>3. /\ LockHeld' /\ RefreshPlace' /\ BypassPlace' /\ RefreshPhase' /\ RulesPlace'
      /\ OutputPlace' /\ CleanPlace' /\ StoppedLeavesNothing'
  BY DEF RouteInv, TypeOK, LockHeld, RefreshPlace, BypassPlace, RefreshPhase, RulesPlace,
     OutputPlace, CleanPlace, StoppedLeavesNothing, Remembered, Serving, WantedRules, Targets
<1> QED BY <1>2, <1>3 DEF RouteInv

(* A refresh begins on the ticker goroutine. *)
LEMMA TickerFiresInv ==
  ASSUME RouteInv, TickerFires
  PROVE  RouteInv'
<1> USE DEF TickerFires, RefreshGoTo, Idling
<1>1. FlagsOK'
  BY Zenon DEF RouteInv, TypeOK, FlagsOK
<1>2. TypeOK'
  BY <1>1 DEF RouteInv, TypeOK, CtlPC, RefreshPC, WantedRules
<1>3. /\ LockHeld' /\ RefreshPlace' /\ BypassPlace' /\ RefreshPhase' /\ RulesPlace'
      /\ OutputPlace' /\ CleanPlace' /\ StoppedLeavesNothing'
  BY DEF RouteInv, TypeOK, LockHeld, RefreshPlace, BypassPlace, RefreshPhase, RulesPlace,
     OutputPlace, CleanPlace, StoppedLeavesNothing, Remembered, Serving, WantedRules, Targets
<1> QED BY <1>2, <1>3 DEF RouteInv

(* The ticker goroutine ends. *)
LEMMA TickerStopsInv ==
  ASSUME RouteInv, TickerStops
  PROVE  RouteInv'
<1> USE DEF TickerStops, RefreshGoTo, Idling
<1>1. FlagsOK'
  BY Zenon DEF RouteInv, TypeOK, FlagsOK
<1>2. TypeOK'
  BY <1>1 DEF RouteInv, TypeOK, CtlPC, RefreshPC, WantedRules
<1>3. /\ LockHeld' /\ RefreshPlace' /\ BypassPlace' /\ RefreshPhase' /\ RulesPlace'
      /\ OutputPlace' /\ CleanPlace' /\ StoppedLeavesNothing'
  BY DEF RouteInv, TypeOK, LockHeld, RefreshPlace, BypassPlace, RefreshPhase, RulesPlace,
     OutputPlace, CleanPlace, StoppedLeavesNothing, Remembered, Serving, WantedRules, Targets
<1> QED BY <1>2, <1>3 DEF RouteInv

(* The refresh takes the lock. *)
LEMMA RefreshLockInv ==
  ASSUME RouteInv, RefreshLock
  PROVE  RouteInv'
<1> USE DEF RefreshLock, RefreshGoTo, Idling
<1>1. FlagsOK'
  BY Zenon DEF RouteInv, TypeOK, FlagsOK
<1>2. TypeOK'
  BY <1>1 DEF RouteInv, TypeOK, CtlPC, RefreshPC, WantedRules
<1>3. /\ LockHeld' /\ RefreshPlace' /\ BypassPlace' /\ RefreshPhase' /\ RulesPlace'
      /\ OutputPlace' /\ CleanPlace' /\ StoppedLeavesNothing'
  BY DEF RouteInv, TypeOK, LockHeld, RefreshPlace, BypassPlace, RefreshPhase, RulesPlace,
     OutputPlace, CleanPlace, StoppedLeavesNothing, Remembered, Serving, WantedRules, Targets
<1> QED BY <1>2, <1>3 DEF RouteInv

(* The refresh reads the IPVS table. *)
LEMMA RefreshLoadInv ==
  ASSUME RouteInv, RefreshLoad
  PROVE  RouteInv'
<1> USE DEF RefreshLoad, AfterLoad, Works, Fails, RefreshGoTo, Idling
<1>1. FlagsOK'
  BY Zenon DEF RouteInv, TypeOK, FlagsOK
<1>2. TypeOK'
  BY <1>1 DEF RouteInv, TypeOK, CtlPC, RefreshPC, WantedRules
<1>3. /\ LockHeld' /\ RefreshPlace' /\ BypassPlace' /\ RefreshPhase' /\ RulesPlace'
      /\ OutputPlace' /\ CleanPlace' /\ StoppedLeavesNothing'
  BY DEF RouteInv, TypeOK, LockHeld, RefreshPlace, BypassPlace, RefreshPhase, RulesPlace,
     OutputPlace, CleanPlace, StoppedLeavesNothing, Remembered, Serving, WantedRules, Targets
<1> QED BY <1>2, <1>3 DEF RouteInv

(* All new rules are in. *)
LEMMA RefreshAddedInv ==
  ASSUME RouteInv, RefreshAdded
  PROVE  RouteInv'
<1> USE DEF RefreshAdded, RefreshGoTo, Idling
<1>1. FlagsOK'
  BY Zenon DEF RouteInv, TypeOK, FlagsOK
<1>2. TypeOK'
  BY <1>1 DEF RouteInv, TypeOK, CtlPC, RefreshPC, WantedRules
<1>3. /\ LockHeld' /\ RefreshPlace' /\ BypassPlace' /\ RefreshPhase' /\ RulesPlace'
      /\ OutputPlace' /\ CleanPlace' /\ StoppedLeavesNothing'
  BY DEF RouteInv, TypeOK, LockHeld, RefreshPlace, BypassPlace, RefreshPhase, RulesPlace,
     OutputPlace, CleanPlace, StoppedLeavesNothing, Remembered, Serving, WantedRules, Targets
<1> QED BY <1>2, <1>3 DEF RouteInv

(* A new rule is added or fails. *)
LEMMA RefreshAddInv ==
  ASSUME RouteInv, NEW d \in Destinations, RefreshAdd(d)
  PROVE  RouteInv'
<1> USE DEF RefreshAdd, Works, Fails, RefreshGoTo, Idling
<1>1. FlagsOK'
  BY Zenon DEF RouteInv, TypeOK, FlagsOK
<1>2. TypeOK'
  BY <1>1 DEF RouteInv, TypeOK, CtlPC, RefreshPC, WantedRules
<1>3. /\ LockHeld' /\ RefreshPlace' /\ BypassPlace' /\ RefreshPhase' /\ RulesPlace'
      /\ OutputPlace' /\ CleanPlace' /\ StoppedLeavesNothing'
  BY DEF RouteInv, TypeOK, LockHeld, RefreshPlace, BypassPlace, RefreshPhase, RulesPlace,
     OutputPlace, CleanPlace, StoppedLeavesNothing, Remembered, Serving, WantedRules, Targets
<1> QED BY <1>2, <1>3 DEF RouteInv

(* One family of the firewall follows. *)
LEMMA RefreshOutputInv ==
  ASSUME RouteInv, RefreshOutput
  PROVE  RouteInv'
<1> USE DEF RefreshOutput, RefreshGoTo, Idling
<1>1. /\ TypeOK /\ RefreshPlace /\ BypassPlace /\ RefreshPhase /\ LockHeld /\ RulesPlace
      /\ OutputPlace /\ CleanPlace /\ StoppedLeavesNothing
  BY DEF RouteInv
<1>2. /\ ctl \in {"start", "running", "stopping"} /\ rpc \in {"out4", "out6"}
      /\ dnatBypass /\ ipvsDNSBypass /\ ipvsOutput = fwOut
  BY <1>1 DEF RefreshPlace, RefreshPhase, OutputPlace
<1>3. PICK f \in Families :
        /\ ReplaceOutput(f)
        /\ f = IF rpc = "out4" THEN 4 ELSE 6
  BY <1>2
<1>4. /\ fwOut' \in [Families -> SUBSET Destinations] /\ ipvsOutput' = fwOut'
      /\ \A g \in Families : g # f => fwOut'[g] = fwOut[g]
      /\ fwOut'[f] = Targets(f) \/ fwOut'[f] = fwOut[f]
      /\ ~outputErr' => fwOut'[f] = Targets(f) /\ ~outputErr
      /\ failures' \in Nat
  BY <1>1, <1>2, <1>3, ReplaceOutputEffect
<1>5. FlagsOK'
  BY <1>1, <1>2, <1>3, ReplaceOutputEffect, Zenon DEF TypeOK, FlagsOK
<1>6. TypeOK'
  BY <1>1, <1>4, <1>5 DEF TypeOK, RefreshPC
<1>7. LockHeld' /\ RefreshPlace' /\ BypassPlace' /\ RefreshPhase'
  BY <1>1, <1>2 DEF LockHeld, RefreshPlace, BypassPlace, RefreshPhase
<1>8. RulesPlace'
  BY <1>1, <1>2 DEF RulesPlace, Remembered, Serving, WantedRules
<1>9. Targets(f) \subseteq LookupRules(current) /\ \A g \in Families : Targets(g)' = Targets(g)
  BY <1>1, <1>2 DEF Targets, RefreshPhase
<1>10. OutputPlace'
  <2>1. \A g \in Families : fwOut'[g] \subseteq LookupRules(current)
    BY <1>1, <1>2, <1>4, <1>9 DEF OutputPlace, Remembered, Serving
  <2>2. rpc' = "out6" /\ ~outputErr' => fwOut'[4] = Targets(4)
    BY <1>2, <1>3, <1>4
  <2>3. rpc' = "delete" => \A g \in Families : fwOut'[g] = Targets(g)
    BY <1>1, <1>2, <1>3, <1>4 DEF OutputPlace
  <2> QED BY <1>2, <1>4, <1>9, <2>1, <2>2, <2>3 DEF OutputPlace, Remembered, Serving
<1>11. CleanPlace' /\ StoppedLeavesNothing'
  BY <1>1, <1>2 DEF CleanPlace, StoppedLeavesNothing
<1> QED BY <1>6, <1>7, <1>8, <1>10, <1>11 DEF RouteInv

(* An old rule is deleted or fails. *)
LEMMA RefreshDeleteInv ==
  ASSUME RouteInv, NEW d \in Destinations, RefreshDelete(d)
  PROVE  RouteInv'
<1> USE DEF RefreshDelete, Works, Fails, RefreshGoTo, Idling
<1>1. FlagsOK'
  BY Zenon DEF RouteInv, TypeOK, FlagsOK
<1>2. TypeOK'
  BY <1>1 DEF RouteInv, TypeOK, CtlPC, RefreshPC, WantedRules
<1>3. /\ LockHeld' /\ RefreshPlace' /\ BypassPlace' /\ RefreshPhase' /\ RulesPlace'
      /\ OutputPlace' /\ CleanPlace' /\ StoppedLeavesNothing'
  BY DEF RouteInv, TypeOK, LockHeld, RefreshPlace, BypassPlace, RefreshPhase, RulesPlace,
     OutputPlace, CleanPlace, StoppedLeavesNothing, Remembered, Serving, WantedRules, Targets
<1> QED BY <1>2, <1>3 DEF RouteInv

(* All old rules are out. *)
LEMMA RefreshDeletedInv ==
  ASSUME RouteInv, RefreshDeleted
  PROVE  RouteInv'
<1> USE DEF RefreshDeleted, RefreshGoTo, Idling
<1>1. FlagsOK'
  BY Zenon DEF RouteInv, TypeOK, FlagsOK
<1>2. TypeOK'
  BY <1>1 DEF RouteInv, TypeOK, CtlPC, RefreshPC, WantedRules
<1>3. /\ LockHeld' /\ RefreshPlace' /\ BypassPlace' /\ RefreshPhase' /\ RulesPlace'
      /\ OutputPlace' /\ CleanPlace' /\ StoppedLeavesNothing'
  BY DEF RouteInv, TypeOK, LockHeld, RefreshPlace, BypassPlace, RefreshPhase, RulesPlace,
     OutputPlace, CleanPlace, StoppedLeavesNothing, Remembered, Serving, WantedRules, Targets
<1> QED BY <1>2, <1>3 DEF RouteInv

(* The refresh remembers what is installed. *)
LEMMA RefreshSaveInv ==
  ASSUME RouteInv, RefreshSave
  PROVE  RouteInv'
<1> USE DEF RefreshSave, Installed, RefreshGoTo, Idling
<1>1. FlagsOK'
  BY Zenon DEF RouteInv, TypeOK, FlagsOK
<1>2. TypeOK'
  BY <1>1 DEF RouteInv, TypeOK, CtlPC, RefreshPC, WantedRules
<1>3. /\ LockHeld' /\ RefreshPlace' /\ BypassPlace' /\ RefreshPhase' /\ RulesPlace'
      /\ OutputPlace' /\ CleanPlace' /\ StoppedLeavesNothing'
  BY DEF RouteInv, TypeOK, LockHeld, RefreshPlace, BypassPlace, RefreshPhase, RulesPlace,
     OutputPlace, CleanPlace, StoppedLeavesNothing, Remembered, Serving, WantedRules, Targets
<1> QED BY <1>2, <1>3 DEF RouteInv

(* Close closes the stop channel. *)
LEMMA CloseStopInv ==
  ASSUME RouteInv, CloseStop
  PROVE  RouteInv'
<1> USE DEF CloseStop, CtlGoTo, Closing
<1>1. FlagsOK'
  BY Zenon DEF RouteInv, TypeOK, FlagsOK
<1>2. TypeOK'
  BY <1>1 DEF RouteInv, TypeOK, CtlPC, RefreshPC, WantedRules
<1>3. /\ LockHeld' /\ RefreshPlace' /\ BypassPlace' /\ RefreshPhase' /\ RulesPlace'
      /\ OutputPlace' /\ CleanPlace' /\ StoppedLeavesNothing'
  BY DEF RouteInv, TypeOK, LockHeld, RefreshPlace, BypassPlace, RefreshPhase, RulesPlace,
     OutputPlace, CleanPlace, StoppedLeavesNothing, Remembered, Serving, WantedRules, Targets
<1> QED BY <1>2, <1>3 DEF RouteInv

(* Close has waited for the ticker goroutine. *)
LEMMA CloseWaitInv ==
  ASSUME RouteInv, CloseWait
  PROVE  RouteInv'
<1> USE DEF CloseWait, CtlGoTo, Closing
<1>1. FlagsOK'
  BY Zenon DEF RouteInv, TypeOK, FlagsOK
<1>2. TypeOK'
  BY <1>1 DEF RouteInv, TypeOK, CtlPC, RefreshPC, WantedRules
<1>3. /\ LockHeld' /\ RefreshPlace' /\ BypassPlace' /\ RefreshPhase' /\ RulesPlace'
      /\ OutputPlace' /\ CleanPlace' /\ StoppedLeavesNothing'
  BY DEF RouteInv, TypeOK, LockHeld, RefreshPlace, BypassPlace, RefreshPhase, RulesPlace,
     OutputPlace, CleanPlace, StoppedLeavesNothing, Remembered, Serving, WantedRules, Targets
<1> QED BY <1>2, <1>3 DEF RouteInv

(* Close takes the lock. *)
LEMMA CloseLockInv ==
  ASSUME RouteInv, CloseLock
  PROVE  RouteInv'
<1> USE DEF CloseLock, CtlGoTo, Closing
<1>1. FlagsOK'
  BY Zenon DEF RouteInv, TypeOK, FlagsOK
<1>2. TypeOK'
  BY <1>1 DEF RouteInv, TypeOK, CtlPC, RefreshPC, WantedRules
<1>3. /\ LockHeld' /\ RefreshPlace' /\ BypassPlace' /\ RefreshPhase' /\ RulesPlace'
      /\ OutputPlace' /\ CleanPlace' /\ StoppedLeavesNothing'
  BY DEF RouteInv, TypeOK, LockHeld, RefreshPlace, BypassPlace, RefreshPhase, RulesPlace,
     OutputPlace, CleanPlace, StoppedLeavesNothing, Remembered, Serving, WantedRules, Targets
<1> QED BY <1>2, <1>3 DEF RouteInv

(* Close removes the rules. *)
LEMMA CloseRulesInv ==
  ASSUME RouteInv, CloseRules
  PROVE  RouteInv'
<1> USE DEF CloseRules, UnsetRules, UnsetRulesFails, Works, Fails, CtlGoTo, Closing
<1>1. FlagsOK'
  BY Zenon DEF RouteInv, TypeOK, FlagsOK
<1>2. TypeOK'
  BY <1>1 DEF RouteInv, TypeOK, CtlPC, RefreshPC, WantedRules
<1>3. /\ LockHeld' /\ RefreshPlace' /\ BypassPlace' /\ RefreshPhase' /\ RulesPlace'
      /\ OutputPlace' /\ CleanPlace' /\ StoppedLeavesNothing'
  BY DEF RouteInv, TypeOK, LockHeld, RefreshPlace, BypassPlace, RefreshPhase, RulesPlace,
     OutputPlace, CleanPlace, StoppedLeavesNothing, Remembered, Serving, WantedRules, Targets
<1> QED BY <1>2, <1>3 DEF RouteInv

(* Close removes the firewall table. *)
LEMMA CloseFinishInv ==
  ASSUME RouteInv, CloseFinish
  PROVE  RouteInv'
<1> USE DEF CtlGoTo, CloseFinish, Closing
<1>1. FlagsOK'
  BY Zenon DEF RouteInv, TypeOK, FlagsOK, CloseOwnDnat, CloseDnat, CloseDnatFails
<1>2. TypeOK'
  BY <1>1, CloseOwnDnatEffect DEF RouteInv, TypeOK, CtlPC
<1>3. LockHeld' /\ RefreshPlace' /\ BypassPlace' /\ RefreshPhase'
  BY DEF RouteInv, TypeOK, LockHeld, RefreshPlace, BypassPlace, RefreshPhase
<1>4. RulesPlace'
  BY DEF RouteInv, TypeOK, RulesPlace, Serving
<1>5. OutputPlace'
  BY DEF RouteInv, TypeOK, OutputPlace, Serving, RefreshPlace, LockHeld
<1>6. CleanPlace' /\ StoppedLeavesNothing'
  BY CloseOwnDnatEffect DEF RouteInv, CleanPlace, StoppedLeavesNothing
<1> QED BY <1>2, <1>3, <1>4, <1>5, <1>6 DEF RouteInv

(* The IPVS table is not ours. *)
LEMMA TableChangesInv ==
  ASSUME RouteInv, TableChanges
  PROVE  RouteInv'
<1> USE DEF TableChanges
<1>1. FlagsOK'
  BY Zenon DEF RouteInv, TypeOK, FlagsOK
<1>2. TypeOK'
  BY <1>1 DEF RouteInv, TypeOK, CtlPC, RefreshPC, WantedRules
<1>3. /\ LockHeld' /\ RefreshPlace' /\ BypassPlace' /\ RefreshPhase' /\ RulesPlace'
      /\ OutputPlace' /\ CleanPlace' /\ StoppedLeavesNothing'
  BY DEF RouteInv, TypeOK, LockHeld, RefreshPlace, BypassPlace, RefreshPhase, RulesPlace,
     OutputPlace, CleanPlace, StoppedLeavesNothing, Remembered, Serving, WantedRules, Targets
<1> QED BY <1>2, <1>3 DEF RouteInv

(* An event is on its way. *)
LEMMA MonitorEmitsInv ==
  ASSUME RouteInv, MonitorEmits
  PROVE  RouteInv'
<1> USE DEF MonitorEmits
<1>1. FlagsOK'
  BY Zenon DEF RouteInv, TypeOK, FlagsOK
<1>2. TypeOK'
  BY <1>1 DEF RouteInv, TypeOK, CtlPC, RefreshPC, WantedRules
<1>3. /\ LockHeld' /\ RefreshPlace' /\ BypassPlace' /\ RefreshPhase' /\ RulesPlace'
      /\ OutputPlace' /\ CleanPlace' /\ StoppedLeavesNothing'
  BY DEF RouteInv, TypeOK, LockHeld, RefreshPlace, BypassPlace, RefreshPhase, RulesPlace,
     OutputPlace, CleanPlace, StoppedLeavesNothing, Remembered, Serving, WantedRules, Targets
<1> QED BY <1>2, <1>3 DEF RouteInv

(* Android resets the rules. *)
LEMMA RouteUpdateInv ==
  ASSUME RouteInv, RouteUpdate
  PROVE  RouteInv'
<1> USE DEF RouteUpdate, Works, Fails
<1>1. FlagsOK'
  BY Zenon DEF RouteInv, TypeOK, FlagsOK
<1>2. TypeOK'
  BY <1>1 DEF RouteInv, TypeOK, CtlPC, RefreshPC, WantedRules
<1>3. /\ LockHeld' /\ RefreshPlace' /\ BypassPlace' /\ RefreshPhase' /\ RulesPlace'
      /\ OutputPlace' /\ CleanPlace' /\ StoppedLeavesNothing'
  BY DEF RouteInv, TypeOK, LockHeld, RefreshPlace, BypassPlace, RefreshPhase, RulesPlace,
     OutputPlace, CleanPlace, StoppedLeavesNothing, Remembered, Serving, WantedRules, Targets
<1> QED BY <1>2, <1>3 DEF RouteInv

(* Only the kernel's state survives. *)
LEMMA RestartInv ==
  ASSUME RouteInv, Restart
  PROVE  RouteInv'
<1> USE DEF Restart
<1>1. FlagsOK'
  BY Zenon DEF RouteInv, TypeOK, FlagsOK
<1>2. TypeOK'
  BY <1>1 DEF RouteInv, TypeOK, CtlPC, RefreshPC, WantedRules
<1>3. /\ LockHeld' /\ RefreshPlace' /\ BypassPlace' /\ RefreshPhase' /\ RulesPlace'
      /\ OutputPlace' /\ CleanPlace' /\ StoppedLeavesNothing'
  BY DEF RouteInv, TypeOK, LockHeld, RefreshPlace, BypassPlace, RefreshPhase, RulesPlace,
     OutputPlace, CleanPlace, StoppedLeavesNothing, Remembered, Serving, WantedRules, Targets
<1> QED BY <1>2, <1>3 DEF RouteInv

(* Every step preserves the invariant. *)
LEMMA NextInv == RouteInv /\ [Next]_vars => RouteInv'
<1> SUFFICES ASSUME RouteInv, [Next]_vars PROVE RouteInv'
  OBVIOUS
<1>1. CASE UNCHANGED vars
  BY <1>1 DEF vars, RouteInv, TypeOK, FlagsOK, LockHeld, RefreshPlace, BypassPlace, RulesPlace,
     OutputPlace, RefreshPhase, CleanPlace, StoppedLeavesNothing, Remembered, Serving,
     Targets, WantedRules
<1>2. CASE ConfigureStep
  BY <1>2, LinkReadyInv, LinkFailsInv, StartDnatInv, StartDnatFailsInv, LoadFirstInv,
     LoadFirstFailsInv, SetRouteInv, CleanupRulesInv, ConfigureRulesInv, SetSearchDomainInv,
     UndoRulesInv, UndoDnatInv, FirstRefreshInv, StartedInv
     DEF ConfigureStep
<1>3. CASE RefreshStep
  BY <1>3, RefreshLockInv, RefreshLoadInv, RefreshAddedInv, RefreshOutputInv, RefreshAddInv,
     RefreshDeleteInv, RefreshDeletedInv, RefreshSaveInv DEF RefreshStep
<1>4. CASE CloseStep
  BY <1>4, CloseWaitInv, CloseLockInv, CloseRulesInv, CloseFinishInv DEF CloseStep
<1> QED BY <1>1, <1>2, <1>3, <1>4, NewInv, TickerFiresInv, TickerStopsInv, CloseStopInv,
     TableChangesInv, MonitorEmitsInv, RouteUpdateInv, RestartInv DEF Next

(* RouteInv, type correctness included, is an invariant of auto-route. *)
THEOREM RouteInvariant == Spec => []RouteInv
BY InitInv, NextInv, PTL DEF Spec

(* Every endpoint the firewall selects has its lookup rule: the comment in  *)
(* updateIPVSDNSRules holds in every intermediate state and after every     *)
(* failure.                                                                 *)
THEOREM FirewallAlwaysCovered == Spec => []FirewallCovered
<1>1. RouteInv => FirewallCovered
  BY DEF RouteInv, FirewallCovered, RulesPlace, OutputPlace
<1> QED BY <1>1, RouteInvariant, PTL

(* Between refreshes the bypass remembers exactly the installed rules.      *)
THEOREM RulesAlwaysRemembered == Spec => []RulesRemembered
<1>1. RouteInv => RulesRemembered
  BY DEF RouteInv, RulesRemembered, RulesPlace, Remembered
<1> QED BY <1>1, RouteInvariant, PTL

(* A failed configure and a Close leave nothing of theirs behind unless a   *)
(* clean-up failed or a routeUpdate came after Close.                       *)
THEOREM NothingLeftBehind == Spec => []StoppedLeavesNothing
<1>1. RouteInv => StoppedLeavesNothing
  BY DEF RouteInv
<1> QED BY <1>1, RouteInvariant, PTL
=============================================================================
