------------------------ MODULE NetworkMonitorProofs ------------------------
(***************************************************************************)
(* What a subscriber of the default interface monitor on Linux may rely    *)
(* on, for any interfaces and any number of changes, failures, checks and  *)
(* registrations.                                                          *)
(*                                                                         *)
(* The argument: a check publishes defaultInterface before it tells        *)
(* anybody, so while it emits, subscribers lag behind; what it emits is    *)
(* the default, and a subscriber that it has not copied has been told      *)
(* nothing.  checkAccess keeps other checks out until then.                *)
(***************************************************************************)
EXTENDS NetworkMonitor, TLAPS

Emitting == cpc \in {"emit", "deliver"}

NewsIsDefault == Emitting => news = defaultInterface
MissedIsUntold == cpc = "deliver" /\ subscribed /\ ~copy => told = Untold
ToldUnlessEmitting == ~Emitting /\ subscribed /\ told # Untold => told = defaultInterface

MonitorInv == TypeOK /\ NewsIsDefault /\ MissedIsUntold /\ ToldUnlessEmitting
-----------------------------------------------------------------------------
\* The types in two parts, one for each prover.
Flags ==
  /\ calling \in BOOLEAN /\ registered \in BOOLEAN /\ timer \in BOOLEAN
  /\ copy \in BOOLEAN /\ noRoute \in BOOLEAN /\ subscribed \in BOOLEAN
Values ==
  /\ links \subseteq Interfaces /\ route \in links \cup {None}
  /\ events \in Nat /\ waiting \in Nat
  /\ npc \in {"off", "wait", "emit", "call", "rest"}
  /\ cpc \in {"idle", "update", "list", "check", "emit", "deliver"}
  /\ known \subseteq Interfaces
  /\ seen \in Routes /\ news \in Routes /\ defaultInterface \in Routes
  /\ told \in Routes \cup {Untold}
  /\ life \in {"new", "started", "closed"} /\ netLife \in {"new", "started", "closed"}
  /\ changes \in 0 .. MaxChanges /\ failures \in 0 .. MaxFailures
  /\ subscribes \in 0 .. MaxSubscribes

LEMMA TypeParts == TypeOK <=> Flags /\ Values
  BY DEF TypeOK, Flags, Values

LEMMA TypePartsNext == TypeOK' <=> Flags' /\ Values'
  BY DEF TypeOK, Flags, Values

LEMMA InitMonitorInv == Init => MonitorInv
<1> SUFFICES ASSUME Init PROVE MonitorInv
  OBVIOUS
<1>1. Flags
  BY Zenon DEF Init, Flags
<1>2. Values
  BY NoneAssumption, BoundAssumption DEF Init, Values, Routes
<1>3. NewsIsDefault /\ MissedIsUntold /\ ToldUnlessEmitting
  BY DEF Init, NewsIsDefault, MissedIsUntold, ToldUnlessEmitting, Emitting
<1> QED BY <1>1, <1>2, <1>3, TypeParts DEF MonitorInv

(* The kernel, networkUpdateMonitor, Start, Close and the timer touch nothing
   that a check or a subscriber knows. *)
LEMMA OutsideKeeps ==
  ASSUME MonitorInv, UNCHANGED <<checkVars, monVars, subVars>>, TypeOK'
  PROVE  MonitorInv'
  BY DEF MonitorInv, checkVars, monVars, subVars, NewsIsDefault, MissedIsUntold,
         ToldUnlessEmitting, Emitting

LEMMA NetworkChangesKeeps == ASSUME MonitorInv, NetworkChanges PROVE MonitorInv'
<1>1. UNCHANGED <<checkVars, monVars, subVars>>
  BY DEF NetworkChanges
<1>2. TypeOK'
  <2>1. Flags'
    BY TypeParts, Zenon DEF MonitorInv, Flags, NetworkChanges, checkVars, monVars, subVars
  <2>2. Values'
    BY BoundAssumption, TypeParts DEF Values, MonitorInv, Routes, NetworkChanges, checkVars, monVars, subVars
  <2> QED BY <2>1, <2>2, TypePartsNext
<1> QED BY <1>1, <1>2, OutsideKeeps

LEMMA LoopKeeps == ASSUME MonitorInv, NetStart \/ NetClose \/ LoopStep PROVE MonitorInv'
<1> USE DEF NetStart, NetClose, LoopStep, LoopReceive, LoopEmit, LoopCall, LoopRest, LoopStop, LoopGoTo
<1>1. UNCHANGED <<checkVars, monVars, subVars>>
  OBVIOUS
<1>2. TypeOK'
  <2>1. Flags'
    BY TypeParts, Zenon DEF MonitorInv, Flags, netVars, checkVars, monVars, subVars
  <2>2. Values'
    BY TypeParts DEF Values, MonitorInv, Routes, netVars, checkVars, monVars, subVars
  <2> QED BY <2>1, <2>2, TypePartsNext
<1> QED BY <1>1, <1>2, OutsideKeeps

LEMMA OwnerKeeps == ASSUME MonitorInv, Start \/ Close \/ TimerFires PROVE MonitorInv'
<1> USE DEF Start, Close, TimerFires
<1>1. UNCHANGED <<checkVars, monVars, subVars>>
  OBVIOUS
<1>2. TypeOK'
  <2>1. Flags'
    BY TypeParts, Zenon DEF MonitorInv, Flags, netVars, loopVars, checkVars, monVars, subVars
  <2>2. Values'
    BY TypeParts DEF Values, MonitorInv, Routes, netVars, loopVars, checkVars, monVars, subVars
  <2> QED BY <2>1, <2>2, TypePartsNext
<1> QED BY <1>1, <1>2, OutsideKeeps
-----------------------------------------------------------------------------
(* The check itself. *)
LEMMA CheckLockKeeps == ASSUME MonitorInv, CheckLock PROVE MonitorInv'
<1> USE DEF CheckLock, CheckGoTo, MonitorInv, netVars, loopVars, monVars, subVars
<1>1. TypeOK'
  <2>1. Flags'
    BY TypeParts, Zenon DEF Flags
  <2>2. Values'
    BY TypeParts DEF Values
  <2> QED BY <2>1, <2>2, TypePartsNext
<1>2. NewsIsDefault' /\ MissedIsUntold' /\ ToldUnlessEmitting'
  BY DEF NewsIsDefault, MissedIsUntold, ToldUnlessEmitting, Emitting
<1> QED BY <1>1, <1>2

LEMMA CheckUpdateFinderKeeps == ASSUME MonitorInv, CheckUpdateFinder PROVE MonitorInv'
<1> USE BoundAssumption
    DEF CheckUpdateFinder, CheckGoTo, Works, Fails, MonitorInv, netVars, loopVars, monVars, subVars
<1>1. TypeOK'
  <2>1. Flags'
    BY TypeParts, Zenon DEF Flags
  <2>2. Values'
    BY TypeParts DEF Values
  <2> QED BY <2>1, <2>2, TypePartsNext
<1>2. NewsIsDefault' /\ MissedIsUntold' /\ ToldUnlessEmitting'
  BY DEF NewsIsDefault, MissedIsUntold, ToldUnlessEmitting, Emitting
<1> QED BY <1>1, <1>2

LEMMA CheckListRoutesKeeps == ASSUME MonitorInv, CheckListRoutes PROVE MonitorInv'
<1> USE DEF CheckListRoutes, CheckGoTo, MonitorInv, netVars, loopVars, monVars, subVars
<1>1. TypeOK'
  <2>1. Flags'
    BY TypeParts, Zenon DEF Flags
  <2>2. Values'
    BY TypeParts DEF Values, Routes
  <2> QED BY <2>1, <2>2, TypePartsNext
<1>2. NewsIsDefault' /\ MissedIsUntold' /\ ToldUnlessEmitting'
  BY DEF NewsIsDefault, MissedIsUntold, ToldUnlessEmitting, Emitting
<1> QED BY <1>1, <1>2

LEMMA CheckFailsKeeps == ASSUME MonitorInv, CheckFails PROVE MonitorInv'
<1> USE BoundAssumption
    DEF CheckFails, CheckGoTo, Works, Fails, Forget, MonitorInv, netVars, loopVars, monVars, subVars
<1>1. TypeOK'
  <2>1. Flags'
    BY TypeParts, Zenon DEF Flags
  <2>2. Values'
    BY TypeParts DEF Values, Routes
  <2> QED BY <2>1, <2>2, TypePartsNext
<1>2. NewsIsDefault' /\ MissedIsUntold' /\ ToldUnlessEmitting'
  BY DEF NewsIsDefault, MissedIsUntold, ToldUnlessEmitting, Emitting
<1> QED BY <1>1, <1>2

LEMMA CheckSameKeeps == ASSUME MonitorInv, CheckSame PROVE MonitorInv'
<1> USE DEF CheckSame, CheckGoTo, Forget, MonitorInv, netVars, loopVars, subVars
<1>1. TypeOK'
  <2>1. Flags'
    BY TypeParts, Zenon DEF Flags
  <2>2. Values'
    BY TypeParts DEF Values, Routes
  <2> QED BY <2>1, <2>2, TypePartsNext
<1>2. NewsIsDefault' /\ MissedIsUntold' /\ ToldUnlessEmitting'
  BY DEF NewsIsDefault, MissedIsUntold, ToldUnlessEmitting, Emitting
<1> QED BY <1>1, <1>2

\* From here on the subscribers lag behind the default.
LEMMA CheckNewKeeps == ASSUME MonitorInv, CheckNew PROVE MonitorInv'
<1> USE DEF CheckNew, CheckGoTo, Forget, Found, MonitorInv, netVars, loopVars, subVars
<1>1. TypeOK'
  <2>1. Flags'
    BY TypeParts, Zenon DEF Flags
  <2>2. Values'
    BY TypeParts DEF Values, Routes
  <2> QED BY <2>1, <2>2, TypePartsNext
<1>2. NewsIsDefault' /\ MissedIsUntold' /\ ToldUnlessEmitting'
  BY DEF NewsIsDefault, MissedIsUntold, ToldUnlessEmitting, Emitting
<1> QED BY <1>1, <1>2

LEMMA NoRouteKeeps == ASSUME MonitorInv, CheckNoRoute PROVE MonitorInv'
<1> USE DEF CheckNoRoute, CheckGoTo, Forget, MonitorInv, netVars, loopVars, subVars
<1>1. TypeOK'
  <2>1. Flags'
    BY TypeParts, Zenon DEF Flags
  <2>2. Values'
    BY TypeParts DEF Values, Routes
  <2> QED BY <2>1, <2>2, TypePartsNext
<1>2. NewsIsDefault' /\ MissedIsUntold' /\ ToldUnlessEmitting'
  BY DEF TypeOK, NewsIsDefault, MissedIsUntold, ToldUnlessEmitting, Emitting
<1> QED BY <1>1, <1>2

LEMMA CheckEmitKeeps == ASSUME MonitorInv, CheckEmit PROVE MonitorInv'
<1> USE DEF CheckEmit, CheckGoTo, MonitorInv, netVars, loopVars, monVars, subVars
<1>1. TypeOK'
  <2>1. Flags'
    BY TypeParts, Zenon DEF Flags
  <2>2. Values'
    BY TypeParts DEF Values
  <2> QED BY <2>1, <2>2, TypePartsNext
<1>2. NewsIsDefault' /\ MissedIsUntold' /\ ToldUnlessEmitting'
  BY DEF TypeOK, NewsIsDefault, MissedIsUntold, ToldUnlessEmitting, Emitting
<1> QED BY <1>1, <1>2

\* They have caught up; one that was not copied has heard nothing at all.
LEMMA CheckDeliverKeeps == ASSUME MonitorInv, CheckDeliver PROVE MonitorInv'
<1> USE DEF CheckDeliver, CheckGoTo, MonitorInv, netVars, loopVars
<1>1. TypeOK'
  <2>1. Flags'
    BY TypeParts, Zenon DEF Flags
  <2>2. Values'
    BY TypeParts DEF Values, Routes
  <2> QED BY <2>1, <2>2, TypePartsNext
<1>2. NewsIsDefault' /\ MissedIsUntold'
  BY DEF NewsIsDefault, MissedIsUntold, Emitting
<1>3. ToldUnlessEmitting'
  BY DEF TypeOK, NewsIsDefault, MissedIsUntold, ToldUnlessEmitting, Emitting
<1> QED BY <1>1, <1>2, <1>3
-----------------------------------------------------------------------------
(* Registrations. *)
LEMMA RegisterCallbackKeeps == ASSUME MonitorInv, RegisterCallback PROVE MonitorInv'
<1> USE BoundAssumption DEF RegisterCallback, MonitorInv, netVars, loopVars, monVars
<1>1. TypeOK'
  <2>1. Flags'
    BY TypeParts, Zenon DEF Flags
  <2>2. Values'
    BY TypeParts DEF Values
  <2> QED BY <2>1, <2>2, TypePartsNext
<1>2. NewsIsDefault' /\ MissedIsUntold' /\ ToldUnlessEmitting'
  BY DEF NewsIsDefault, MissedIsUntold, ToldUnlessEmitting, Emitting
<1> QED BY <1>1, <1>2

LEMMA UnregisterCallbackKeeps == ASSUME MonitorInv, UnregisterCallback PROVE MonitorInv'
<1> USE DEF UnregisterCallback, MonitorInv, netVars, loopVars, monVars, checkVars
<1>1. TypeOK'
  <2>1. Flags'
    BY TypeParts, Zenon DEF Flags
  <2>2. Values'
    BY TypeParts DEF Values
  <2> QED BY <2>1, <2>2, TypePartsNext
<1>2. NewsIsDefault' /\ MissedIsUntold' /\ ToldUnlessEmitting'
  BY DEF NewsIsDefault, MissedIsUntold, ToldUnlessEmitting, Emitting
<1> QED BY <1>1, <1>2
-----------------------------------------------------------------------------
LEMMA MonitorStepKeeps == ASSUME MonitorInv, [Next]_vars PROVE MonitorInv'
<1>1. CASE NetworkChanges \/ NetStart \/ NetClose \/ LoopStep
  BY <1>1, NetworkChangesKeeps, LoopKeeps
<1>2. CASE Start \/ Close \/ TimerFires
  BY <1>2, OwnerKeeps
<1>3. CASE CheckStep
  BY <1>3, CheckLockKeeps, CheckUpdateFinderKeeps, CheckListRoutesKeeps, CheckFailsKeeps,
     CheckSameKeeps, CheckNewKeeps, NoRouteKeeps, CheckEmitKeeps, CheckDeliverKeeps
     DEF CheckStep
<1>4. CASE RegisterCallback \/ UnregisterCallback
  BY <1>4, RegisterCallbackKeeps, UnregisterCallbackKeeps
<1>5. CASE UNCHANGED vars
  <2>1. TypeOK'
    BY <1>5 DEF MonitorInv, TypeOK, vars, netVars, loopVars, checkVars, monVars, subVars
  <2> QED BY <1>5, <2>1, OutsideKeeps DEF vars
<1> QED BY <1>1, <1>2, <1>3, <1>4, <1>5 DEF Next

(* The monitor keeps its invariant, whatever goroutine a check runs on and
   whenever a callback is registered (postCheckUpdate, checkUpdate, emit). *)
THEOREM MonitorInvariant == Spec => []MonitorInv
<1>1. Init => MonitorInv
  BY InitMonitorInv
<1>2. MonitorInv /\ [Next]_vars => MonitorInv'
  BY MonitorStepKeeps
<1> QED BY <1>1, <1>2, PTL DEF Spec

(* Between checks, whoever was told anything was told last what
   DefaultInterface returns. *)
THEOREM ToldTheorem == Spec => []ToldTheDefault
<1>1. MonitorInv => ToldTheDefault
  BY DEF MonitorInv, ToldUnlessEmitting, Emitting, ToldTheDefault
<1> QED BY <1>1, MonitorInvariant, PTL
=============================================================================
