---------------------------- MODULE TCPNatProofs ----------------------------
(***************************************************************************)
(* Proofs about TCPNat for any number of threads, flows, sessions and ports *)
(* and any timeout: NatInv is inductive; from it follow the agreement of    *)
(* the two maps, the bound on early eviction and the refinement of          *)
(* NatTable.                                                                *)
(***************************************************************************)
EXTENDS TCPNat, TLAPS

(* The ports allocatePortLocked tries lie in the port space. *)
LEMMA TriedIsPort ==
  ASSUME portIndex \in Ports \cup {0}, NEW i \in Tries
  PROVE  Tried(i) \in Ports
  BY PortAssumption DEF Ports, Tries, Tried, First

(* They cover it: when all of them are occupied, every port is. *)
LEMMA TriesCoverPorts ==
  ASSUME portIndex \in Ports \cup {0}, Exhausted, NEW p \in Ports
  PROVE  portMap[p] # NoSession
<1>1. CASE First <= p
  <2>1. p - First \in Tries /\ Tried(p - First) = p
    BY <1>1, PortAssumption DEF Ports, Tries, Tried, First
  <2> QED BY <2>1 DEF Exhausted, Occupied
<1>2. CASE p < First
  <2> DEFINE i == p - First + (MaxPort - MinPort + 1)
  <2>1. i \in Tries /\ Tried(i) = p
    BY <1>2, PortAssumption DEF Ports, Tries, Tried, First
  <2> QED BY <2>1 DEF Exhausted, Occupied
<1> QED BY <1>1, <1>2, PortAssumption DEF Ports, First

(* The index stays a port or the wrapped zero. *)
LEMMA IndexAfterTyped ==
  ASSUME NEW p \in Ports
  PROVE  IndexAfter(p) \in Ports \cup {0}
  BY PortAssumption DEF Ports, IndexAfter
-----------------------------------------------------------------------------
(* NatInv holds initially. *)
LEMMA InitNatInv == Init => NatInv
<1> SUFFICES ASSUME Init PROVE NatInv
  OBVIOUS
<1> USE NameAssumption DEF Init
<1>1. TypeOK
  <2>1. ctxDone \in BOOLEAN
    OBVIOUS
  <2> QED BY <2>1, PortAssumption DEF TypeOK, Ports, NoPort, Lockers, ThreadPC, CheckPC
<1>2. LocalsReady /\ AllocateUnbound
  BY DEF LocalsReady, AllocateUnbound, LookupPC, AnsweredPC
<1>3. LocksHeld
  BY DEF LocksHeld, Lockers
<1>4. OwnersKnown /\ MapsAgree
  BY PortAssumption DEF OwnersKnown, MapsAgree, Ports, NoPort
<1>5. ExpiredPresent /\ TimesOrdered
  BY TimeAssumption DEF ExpiredPresent, TimesOrdered
<1> QED BY <1>1, <1>2, <1>3, <1>4, <1>5 DEF NatInv

(* One lemma per action: it preserves each part of NatInv. *)
(* Entering Lookup. *)
LEMMA CallLookupKeeps ==
  ASSUME NatInv, NEW t \in Threads, NEW k \in Keys, CallLookup(t, k)
  PROVE  NatInv'
<1> USE PortAssumption, TimeAssumption, NameAssumption
    DEF NatInv, CallLookup, GoTo, Ports, NoPort, Lockers, ThreadPC, CheckPC,
        LookupPC, AnsweredPC, natVars, lockVars, sessVars, threadVars,
        checkVars
<1>1. TypeOK'
  BY DEF TypeOK, LocalsReady
<1>2. LocalsReady'
  BY DEF TypeOK, LocalsReady
<1>3. LocksHeld'
  BY DEF TypeOK, LocksHeld
<1>4. AllocateUnbound'
  BY DEF TypeOK, AllocateUnbound, LocksHeld, LocalsReady
<1>5. OwnersKnown' /\ MapsAgree' /\ ExpiredPresent' /\ TimesOrdered'
  BY DEF TypeOK, OwnersKnown, MapsAgree, ExpiredPresent, TimesOrdered
<1> QED BY <1>1, <1>2, <1>3, <1>4, <1>5
(* Entering LookupBack. *)
LEMMA CallLookupBackKeeps ==
  ASSUME NatInv, NEW t \in Threads, NEW p \in Ports, CallLookupBack(t, p)
  PROVE  NatInv'
<1> USE PortAssumption, TimeAssumption, NameAssumption
    DEF NatInv, CallLookupBack, GoTo, Ports, NoPort, Lockers, ThreadPC,
        CheckPC, LookupPC, AnsweredPC, natVars, lockVars, sessVars,
        threadVars, checkVars
<1>1. TypeOK'
  BY DEF TypeOK, LocalsReady
<1>2. LocalsReady'
  BY DEF TypeOK, LocalsReady
<1>3. LocksHeld'
  BY DEF TypeOK, LocksHeld
<1>4. AllocateUnbound'
  BY DEF TypeOK, AllocateUnbound, LocksHeld, LocalsReady
<1>5. OwnersKnown' /\ MapsAgree' /\ ExpiredPresent' /\ TimesOrdered'
  BY DEF TypeOK, OwnersKnown, MapsAgree, ExpiredPresent, TimesOrdered
<1> QED BY <1>1, <1>2, <1>3, <1>4, <1>5
(* The read under addrAccess.RLock. *)
LEMMA LookupReadKeeps ==
  ASSUME NatInv, NEW t \in Threads, LookupRead(t)
  PROVE  NatInv'
<1> USE PortAssumption, TimeAssumption, NameAssumption
    DEF NatInv, LookupRead, GoTo, Ports, NoPort, Lockers, ThreadPC, CheckPC,
        LookupPC, AnsweredPC, natVars, lockVars, sessVars, threadVars,
        checkVars
<1>1. TypeOK'
  BY DEF TypeOK, LocalsReady
<1>2. LocalsReady'
  BY DEF TypeOK, LocalsReady
<1>3. LocksHeld'
  BY DEF TypeOK, LocksHeld
<1>4. AllocateUnbound'
  BY DEF TypeOK, AllocateUnbound, LocksHeld, LocalsReady
<1>5. OwnersKnown' /\ MapsAgree' /\ ExpiredPresent' /\ TimesOrdered'
  BY DEF TypeOK, OwnersKnown, MapsAgree, ExpiredPresent, TimesOrdered
<1> QED BY <1>1, <1>2, <1>3, <1>4, <1>5
(* The read of n.refresh, with or without addrAccess held. *)
LEMMA RefreshReadKeeps ==
  ASSUME NatInv, NEW t \in Threads, RefreshRead(t)
  PROVE  NatInv'
<1> USE PortAssumption, TimeAssumption, NameAssumption
    DEF NatInv, RefreshRead, GoTo, CanRLock, Ports, NoPort, Lockers, ThreadPC,
        CheckPC, LookupPC, AnsweredPC, natVars, lockVars, sessVars,
        threadVars, checkVars
<1>1. TypeOK'
  <2>1. CASE pc[t] = "refresh"
    BY <2>1 DEF TypeOK, LocalsReady, LocksHeld
  <2>2. CASE pc[t] = "lockedRefresh"
    BY <2>2 DEF TypeOK, LocalsReady, LocksHeld
  <2> QED BY <2>1, <2>2
<1>2. LocalsReady'
  BY DEF TypeOK, LocalsReady
<1>3. LocksHeld'
  <2>1. CASE pc[t] = "refresh"
    BY <2>1 DEF TypeOK, LocalsReady, LocksHeld
  <2>2. CASE pc[t] = "lockedRefresh"
    BY <2>2 DEF TypeOK, LocalsReady, LocksHeld
  <2> QED BY <2>1, <2>2
<1>4. AllocateUnbound'
  BY DEF TypeOK, AllocateUnbound, LocksHeld, LocalsReady
<1>5. OwnersKnown' /\ MapsAgree' /\ ExpiredPresent' /\ TimesOrdered'
  BY DEF TypeOK, OwnersKnown, MapsAgree, ExpiredPresent, TimesOrdered
<1> QED BY <1>1, <1>2, <1>3, <1>4, <1>5
(* session.refresh inside Lookup. *)
LEMMA RefreshTouchKeeps ==
  ASSUME NatInv, NEW t \in Threads, RefreshTouch(t)
  PROVE  NatInv'
<1> USE PortAssumption, TimeAssumption, NameAssumption
    DEF NatInv, RefreshTouch, GoTo, Refresh, Ports, NoPort, Lockers, ThreadPC,
        CheckPC, LookupPC, AnsweredPC, natVars, lockVars, sessVars,
        threadVars, checkVars
<1>1. TypeOK'
  <2>1. CASE pc[t] = "touch"
    BY <2>1 DEF TypeOK, LocalsReady, LocksHeld
  <2>2. CASE pc[t] = "lockedTouch"
    BY <2>2 DEF TypeOK, LocalsReady, LocksHeld
  <2> QED BY <2>1, <2>2
<1>2. LocalsReady'
  BY DEF TypeOK, LocalsReady
<1>3. LocksHeld'
  <2>1. /\ pc[t] \in {"touch", "lockedTouch"}
        /\ pc' = [pc EXCEPT ![t] = "done"]
        /\ addrAccess' = IF pc[t] = "touch" THEN addrAccess ELSE Nobody
        /\ UNCHANGED <<portAccess, cpc>>
    OBVIOUS
  <2> HIDE DEF RefreshTouch
  <2> QED BY <2>1 DEF TypeOK, LocksHeld
<1>4. AllocateUnbound'
  BY DEF TypeOK, AllocateUnbound, LocksHeld, LocalsReady
<1>5. TimesOrdered'
  BY DEF TypeOK, TimesOrdered, LocalsReady
<1>6. OwnersKnown' /\ MapsAgree' /\ ExpiredPresent'
  BY DEF TypeOK, OwnersKnown, MapsAgree, ExpiredPresent
<1> QED BY <1>1, <1>2, <1>3, <1>4, <1>5, <1>6
(* Taking addrAccess. *)
LEMMA LookupLockKeeps ==
  ASSUME NatInv, NEW t \in Threads, LookupLock(t)
  PROVE  NatInv'
<1> USE PortAssumption, TimeAssumption, NameAssumption
    DEF NatInv, LookupLock, GoTo, Ports, NoPort, Lockers, ThreadPC, CheckPC,
        LookupPC, AnsweredPC, natVars, lockVars, sessVars, threadVars,
        checkVars
<1>1. TypeOK'
  BY DEF TypeOK, LocalsReady
<1>2. LocalsReady'
  BY DEF TypeOK, LocalsReady
<1>3. LocksHeld'
  BY DEF TypeOK, LocksHeld
<1>4. AllocateUnbound'
  BY DEF TypeOK, AllocateUnbound, LocksHeld, LocalsReady
<1>5. OwnersKnown' /\ MapsAgree' /\ ExpiredPresent' /\ TimesOrdered'
  BY DEF TypeOK, OwnersKnown, MapsAgree, ExpiredPresent, TimesOrdered
<1> QED BY <1>1, <1>2, <1>3, <1>4, <1>5
(* The second read, under addrAccess. *)
LEMMA LookupRereadKeeps ==
  ASSUME NatInv, NEW t \in Threads, LookupReread(t)
  PROVE  NatInv'
<1> USE PortAssumption, TimeAssumption, NameAssumption
    DEF NatInv, LookupReread, GoTo, Ports, NoPort, Lockers, ThreadPC, CheckPC,
        LookupPC, AnsweredPC, natVars, lockVars, sessVars, threadVars,
        checkVars
<1>1. TypeOK'
  BY DEF TypeOK, LocalsReady
<1>2. LocalsReady'
  BY DEF TypeOK, LocalsReady
<1>3. LocksHeld'
  BY DEF TypeOK, LocksHeld
<1>4. AllocateUnbound'
  BY DEF TypeOK, AllocateUnbound, LocksHeld, LocalsReady
<1>5. OwnersKnown' /\ MapsAgree' /\ ExpiredPresent' /\ TimesOrdered'
  BY DEF TypeOK, OwnersKnown, MapsAgree, ExpiredPresent, TimesOrdered
<1> QED BY <1>1, <1>2, <1>3, <1>4, <1>5
(* The insertion: a free port and an unreachable session become one binding. *)
LEMMA LookupInsertKeeps ==
  ASSUME NatInv, NEW t \in Threads, LookupInsert(t)
  PROVE  NatInv'
<1> USE NameAssumption DEF NatInv
<1>1. PICK i \in Tries, s \in Sessions \ Reachable :
        /\ AllocatedAt(i)
        /\ portIndex' = IndexAfter(Tried(i))
        /\ portMap' = [portMap EXCEPT ![Tried(i)] = s]
        /\ addrMap' = [addrMap EXCEPT ![key[t]] = Tried(i)]
        /\ port' = [port EXCEPT ![t] = Tried(i)]
        /\ sessKey' = [sessKey EXCEPT ![s] = key[t]]
        /\ lastActive' = [lastActive EXCEPT ![s] = clock]
        /\ lastUse' = [lastUse EXCEPT ![s] = clock]
  BY DEF LookupInsert
<1> DEFINE q == Tried(i)
<1>2. q \in Ports /\ IndexAfter(q) \in Ports \cup {0}
  BY TriedIsPort, IndexAfterTyped DEF TypeOK
<1>3. portMap[q] = NoSession
  BY <1>1 DEF AllocatedAt, Occupied
<1>4. /\ \A p \in Ports : portMap[p] # s
      /\ \A e \in expired : e[2] # s
  BY DEF Reachable
<1>5. /\ pc[t] = "allocate" /\ key[t] \in Keys
      /\ pc' = [pc EXCEPT ![t] = "done"]
      /\ portAccess = Nobody /\ addrAccess = t /\ addrAccess' = Nobody
      /\ UNCHANGED <<clock, ctxDone, portAccess, key, sess, cpc, cnow, expired>>
  BY DEF LookupInsert, GoTo, LocalsReady, LookupPC, LocksHeld, checkVars
<1>6. addrMap[key[t]] = NoPort
  BY <1>5 DEF AllocateUnbound
<1> HIDE DEF q
<1>7. TypeOK'
  BY <1>1, <1>2, <1>5 DEF TypeOK, ThreadPC, q
<1>8. LocalsReady'
  BY <1>1, <1>2, <1>5 DEF TypeOK, LocalsReady, LookupPC, AnsweredPC, q
<1>9. LocksHeld'
  BY <1>5 DEF TypeOK, LocksHeld, Lockers
<1>10. OwnersKnown'
  BY <1>1, <1>2, <1>4, <1>5 DEF TypeOK, OwnersKnown, q
<1>11. MapsAgree'
  <2> SUFFICES ASSUME NEW k \in Keys, NEW p \in Ports
               PROVE  (addrMap[k] = p <=> portMap[p] # NoSession /\ sessKey[portMap[p]] = k)'
    BY DEF MapsAgree
  <2>1. CASE p = q
    <3>1. portMap'[p] = s /\ sessKey'[s] = key[t]
      BY <1>1, <1>2, <2>1 DEF TypeOK, q
    <3>2. k # key[t] => addrMap[k] # p
      BY <1>3, <2>1 DEF MapsAgree, q
    <3> QED BY <1>1, <1>2, <1>5, <2>1, <3>1, <3>2 DEF TypeOK, q
  <2>2. CASE p # q
    <3>1. portMap'[p] = portMap[p] /\ sessKey'[portMap[p]] = sessKey[portMap[p]]
      BY <1>1, <1>4, <2>2 DEF TypeOK, q
    <3>2. ~(portMap[p] # NoSession /\ sessKey[portMap[p]] = key[t])
      BY <1>5, <1>6, PortAssumption DEF MapsAgree, Ports, NoPort
    <3> QED BY <1>1, <1>2, <1>5, <2>2, <3>1, <3>2 DEF TypeOK, MapsAgree, q
  <2> QED BY <2>1, <2>2
<1>12. AllocateUnbound'
  BY <1>1, <1>5 DEF TypeOK, AllocateUnbound, LocksHeld, LocalsReady, LookupPC
<1>13. ExpiredPresent'
  BY <1>1, <1>2, <1>3, <1>5 DEF TypeOK, ExpiredPresent, q
<1>14. TimesOrdered'
  BY <1>1, <1>5, TimeAssumption DEF TypeOK, TimesOrdered
<1> QED BY <1>7, <1>8, <1>9, <1>10, <1>11, <1>12, <1>13, <1>14
(* A full port space changes only the index. *)
LEMMA LookupExhaustedKeeps ==
  ASSUME NatInv, NEW t \in Threads, LookupExhausted(t)
  PROVE  NatInv'
<1> USE PortAssumption, TimeAssumption, NameAssumption
    DEF NatInv, LookupExhausted, GoTo, Ports, NoPort, Lockers, ThreadPC,
        CheckPC, LookupPC, AnsweredPC, natVars, lockVars, sessVars,
        threadVars, checkVars
<1>1. TypeOK'
  BY TriedIsPort, IndexAfterTyped DEF TypeOK, LocalsReady, Tries
<1>2. LocalsReady'
  BY DEF TypeOK, LocalsReady
<1>3. LocksHeld'
  BY DEF TypeOK, LocksHeld
<1>4. AllocateUnbound'
  BY DEF TypeOK, AllocateUnbound, LocksHeld, LocalsReady
<1>5. OwnersKnown' /\ MapsAgree' /\ ExpiredPresent' /\ TimesOrdered'
  BY DEF TypeOK, OwnersKnown, MapsAgree, ExpiredPresent, TimesOrdered
<1> QED BY <1>1, <1>2, <1>3, <1>4, <1>5
(* The read of LookupBack. *)
LEMMA LookupBackReadKeeps ==
  ASSUME NatInv, NEW t \in Threads, LookupBackRead(t)
  PROVE  NatInv'
<1> USE PortAssumption, TimeAssumption, NameAssumption
    DEF NatInv, LookupBackRead, GoTo, CanRLock, Ports, NoPort, Lockers,
        ThreadPC, CheckPC, LookupPC, AnsweredPC, natVars, lockVars, sessVars,
        threadVars, checkVars
<1>1. TypeOK'
  BY DEF TypeOK, LocalsReady
<1>2. LocalsReady'
  BY DEF TypeOK, LocalsReady
<1>3. LocksHeld'
  BY DEF TypeOK, LocksHeld
<1>4. AllocateUnbound'
  BY DEF TypeOK, AllocateUnbound, LocksHeld, LocalsReady
<1>5. OwnersKnown' /\ MapsAgree' /\ ExpiredPresent' /\ TimesOrdered'
  BY DEF TypeOK, OwnersKnown, MapsAgree, ExpiredPresent, TimesOrdered
<1> QED BY <1>1, <1>2, <1>3, <1>4, <1>5
(* session.refresh inside LookupBack. *)
LEMMA LookupBackTouchKeeps ==
  ASSUME NatInv, NEW t \in Threads, LookupBackTouch(t)
  PROVE  NatInv'
<1> USE PortAssumption, TimeAssumption, NameAssumption
    DEF NatInv, LookupBackTouch, GoTo, Refresh, Ports, NoPort, Lockers,
        ThreadPC, CheckPC, LookupPC, AnsweredPC, natVars, lockVars, sessVars,
        threadVars, checkVars
<1>1. TypeOK'
  BY DEF TypeOK, LocalsReady
<1>2. LocalsReady'
  BY DEF TypeOK, LocalsReady
<1>3. LocksHeld'
  BY DEF TypeOK, LocksHeld
<1>4. AllocateUnbound'
  BY DEF TypeOK, AllocateUnbound, LocksHeld, LocalsReady
<1>5. TimesOrdered'
  BY DEF TypeOK, TimesOrdered, LocalsReady
<1>6. OwnersKnown' /\ MapsAgree' /\ ExpiredPresent'
  BY DEF TypeOK, OwnersKnown, MapsAgree, ExpiredPresent
<1> QED BY <1>1, <1>2, <1>3, <1>4, <1>5, <1>6
(* Returning to the caller. *)
LEMMA ReturnKeeps ==
  ASSUME NatInv, NEW t \in Threads, Return(t)
  PROVE  NatInv'
<1> USE PortAssumption, TimeAssumption, NameAssumption
    DEF NatInv, Return, GoTo, Ports, NoPort, Lockers, ThreadPC, CheckPC,
        LookupPC, AnsweredPC, natVars, lockVars, sessVars, threadVars,
        checkVars
<1>1. TypeOK'
  BY DEF TypeOK, LocalsReady
<1>2. LocalsReady'
  BY DEF TypeOK, LocalsReady
<1>3. LocksHeld'
  BY DEF TypeOK, LocksHeld
<1>4. AllocateUnbound'
  BY DEF TypeOK, AllocateUnbound, LocksHeld, LocalsReady
<1>5. OwnersKnown' /\ MapsAgree' /\ ExpiredPresent' /\ TimesOrdered'
  BY DEF TypeOK, OwnersKnown, MapsAgree, ExpiredPresent, TimesOrdered
<1> QED BY <1>1, <1>2, <1>3, <1>4, <1>5
(* checkTimeout reads the clock. *)
LEMMA CheckStartKeeps ==
  ASSUME NatInv, CheckStart
  PROVE  NatInv'
<1> USE PortAssumption, TimeAssumption, NameAssumption
    DEF NatInv, CheckStart, CheckGoTo, Ports, NoPort, Lockers, ThreadPC,
        CheckPC, LookupPC, AnsweredPC, natVars, lockVars, sessVars,
        threadVars, checkVars
<1>1. TypeOK'
  BY DEF TypeOK, LocalsReady
<1>2. LocksHeld'
  BY DEF TypeOK, LocksHeld
<1>3. ExpiredPresent'
  BY DEF TypeOK, ExpiredPresent, LocksHeld
<1>4. TimesOrdered'
  BY DEF TypeOK, TimesOrdered, LocalsReady
<1>5. LocalsReady' /\ OwnersKnown' /\ MapsAgree' /\ AllocateUnbound'
  BY DEF TypeOK, LocalsReady, OwnersKnown, MapsAgree, AllocateUnbound
<1> QED BY <1>1, <1>2, <1>3, <1>4, <1>5
(* The scan under portAccess.RLock. *)
LEMMA CheckScanKeeps ==
  ASSUME NatInv, CheckScan
  PROVE  NatInv'
<1> USE PortAssumption, TimeAssumption, NameAssumption
    DEF NatInv, CheckScan, CheckGoTo, CanRLock, Ports, NoPort, Lockers,
        ThreadPC, CheckPC, LookupPC, AnsweredPC, natVars, lockVars, sessVars,
        threadVars, checkVars
<1>1. TypeOK'
  BY DEF TypeOK, LocalsReady
<1>2. LocksHeld'
  BY DEF TypeOK, LocksHeld
<1>3. ExpiredPresent'
  BY DEF TypeOK, ExpiredPresent, LocksHeld
<1>4. TimesOrdered'
  BY DEF TypeOK, TimesOrdered, LocalsReady
<1>5. LocalsReady' /\ OwnersKnown' /\ MapsAgree' /\ AllocateUnbound'
  BY DEF TypeOK, LocalsReady, OwnersKnown, MapsAgree, AllocateUnbound
<1> QED BY <1>1, <1>2, <1>3, <1>4, <1>5
(* checkTimeout takes addrAccess. *)
LEMMA CheckLockAddrKeeps ==
  ASSUME NatInv, CheckLockAddr
  PROVE  NatInv'
<1> USE PortAssumption, TimeAssumption, NameAssumption
    DEF NatInv, CheckLockAddr, CheckGoTo, Ports, NoPort, Lockers, ThreadPC,
        CheckPC, LookupPC, AnsweredPC, natVars, lockVars, sessVars,
        threadVars, checkVars
<1>1. TypeOK'
  BY DEF TypeOK, LocalsReady
<1>2. LocksHeld'
  BY DEF TypeOK, LocksHeld
<1>3. ExpiredPresent'
  BY DEF TypeOK, ExpiredPresent, LocksHeld
<1>4. LocalsReady' /\ OwnersKnown' /\ MapsAgree' /\ AllocateUnbound' /\
    TimesOrdered'
  BY DEF TypeOK, LocalsReady, OwnersKnown, MapsAgree, AllocateUnbound,
      TimesOrdered
<1> QED BY <1>1, <1>2, <1>3, <1>4
(* checkTimeout takes portAccess. *)
LEMMA CheckLockPortKeeps ==
  ASSUME NatInv, CheckLockPort
  PROVE  NatInv'
<1> USE PortAssumption, TimeAssumption, NameAssumption
    DEF NatInv, CheckLockPort, CheckGoTo, Ports, NoPort, Lockers, ThreadPC,
        CheckPC, LookupPC, AnsweredPC, natVars, lockVars, sessVars,
        threadVars, checkVars
<1>1. TypeOK'
  BY DEF TypeOK, LocalsReady
<1>2. LocksHeld'
  BY DEF TypeOK, LocksHeld
<1>3. ExpiredPresent'
  BY DEF TypeOK, ExpiredPresent, LocksHeld
<1>4. LocalsReady' /\ OwnersKnown' /\ MapsAgree' /\ AllocateUnbound' /\
    TimesOrdered'
  BY DEF TypeOK, LocalsReady, OwnersKnown, MapsAgree, AllocateUnbound,
      TimesOrdered
<1> QED BY <1>1, <1>2, <1>3, <1>4
(* The deletion removes both halves of a binding. *)
LEMMA CheckDeleteKeeps ==
  ASSUME NatInv, CheckDelete
  PROVE  NatInv'
<1> USE PortAssumption, TimeAssumption, NameAssumption
    DEF NatInv, CheckDelete, CheckGoTo, StillExpired, Ports, NoPort, Lockers,
        ThreadPC, CheckPC, LookupPC, AnsweredPC, natVars, lockVars, sessVars,
        threadVars, checkVars
<1>1. TypeOK'
  BY DEF TypeOK, LocalsReady
<1>2. LocalsReady'
  BY DEF TypeOK, LocalsReady
<1>3. LocksHeld'
  BY DEF TypeOK, LocksHeld
<1>4. OwnersKnown'
  BY DEF TypeOK, OwnersKnown
<1>5. MapsAgree'
  BY DEF TypeOK, OwnersKnown, MapsAgree, ExpiredPresent
<1>6. AllocateUnbound'
  BY DEF TypeOK, AllocateUnbound, LocksHeld, LocalsReady
<1>7. ExpiredPresent'
  BY DEF TypeOK, ExpiredPresent, LocksHeld
<1>8. TimesOrdered'
  BY DEF TypeOK, TimesOrdered, LocalsReady
<1> QED BY <1>1, <1>2, <1>3, <1>4, <1>5, <1>6, <1>7, <1>8
(* The timeout loop ends. *)
LEMMA CheckStopKeeps ==
  ASSUME NatInv, CheckStop
  PROVE  NatInv'
<1> USE PortAssumption, TimeAssumption, NameAssumption
    DEF NatInv, CheckStop, CheckGoTo, Ports, NoPort, Lockers, ThreadPC,
        CheckPC, LookupPC, AnsweredPC, natVars, lockVars, sessVars,
        threadVars, checkVars
<1>1. TypeOK'
  BY DEF TypeOK, LocalsReady
<1>2. LocksHeld'
  BY DEF TypeOK, LocksHeld
<1>3. ExpiredPresent'
  BY DEF TypeOK, ExpiredPresent, LocksHeld
<1>4. LocalsReady' /\ OwnersKnown' /\ MapsAgree' /\ AllocateUnbound' /\
    TimesOrdered'
  BY DEF TypeOK, LocalsReady, OwnersKnown, MapsAgree, AllocateUnbound,
      TimesOrdered
<1> QED BY <1>1, <1>2, <1>3, <1>4
(* Time passes. *)
LEMMA TickKeeps ==
  ASSUME NatInv, Tick
  PROVE  NatInv'
<1> USE PortAssumption, TimeAssumption, NameAssumption
    DEF NatInv, Tick, Ports, NoPort, Lockers, ThreadPC, CheckPC, LookupPC,
        AnsweredPC, natVars, lockVars, sessVars, threadVars, checkVars
<1>1. TypeOK'
  BY DEF TypeOK, LocalsReady
<1>2. TimesOrdered'
  BY DEF TypeOK, TimesOrdered, LocalsReady
<1>3. LocalsReady' /\ LocksHeld' /\ OwnersKnown' /\ MapsAgree' /\
    AllocateUnbound' /\ ExpiredPresent'
  BY DEF TypeOK, LocalsReady, LocksHeld, OwnersKnown, MapsAgree,
      AllocateUnbound, ExpiredPresent
<1> QED BY <1>1, <1>2, <1>3
(* The context is cancelled. *)
LEMMA CancelKeeps ==
  ASSUME NatInv, Cancel
  PROVE  NatInv'
<1> USE PortAssumption, TimeAssumption, NameAssumption
    DEF NatInv, Cancel, Ports, NoPort, Lockers, ThreadPC, CheckPC, LookupPC,
        AnsweredPC, natVars, lockVars, sessVars, threadVars, checkVars
<1>1. TypeOK'
  BY DEF TypeOK, LocalsReady
<1>2. LocalsReady' /\ LocksHeld' /\ OwnersKnown' /\ MapsAgree' /\
    AllocateUnbound' /\ ExpiredPresent' /\ TimesOrdered'
  BY DEF TypeOK, LocalsReady, LocksHeld, OwnersKnown, MapsAgree,
      AllocateUnbound, ExpiredPresent, TimesOrdered
<1> QED BY <1>1, <1>2

(* NatInv is inductive. *)
LEMMA NextNatInv == NatInv /\ [Next]_vars => NatInv'
<1> SUFFICES ASSUME NatInv, [Next]_vars PROVE NatInv'
  OBVIOUS
<1>1. ASSUME NEW t \in Threads, NEW k \in Keys, CallLookup(t, k) PROVE NatInv'
  BY <1>1, CallLookupKeeps
<1>2. ASSUME NEW t \in Threads, NEW p \in Ports, CallLookupBack(t, p) PROVE NatInv'
  BY <1>2, CallLookupBackKeeps
<1>3. ASSUME NEW t \in Threads, ThreadStep(t) PROVE NatInv'
  BY <1>3, LookupReadKeeps, RefreshReadKeeps, RefreshTouchKeeps, LookupLockKeeps,
     LookupRereadKeeps, LookupInsertKeeps, LookupExhaustedKeeps, LookupBackReadKeeps,
     LookupBackTouchKeeps, ReturnKeeps DEF ThreadStep
<1>4. ASSUME CheckStart \/ CheckStep \/ CheckStop PROVE NatInv'
  BY <1>4, CheckStartKeeps, CheckScanKeeps, CheckLockAddrKeeps, CheckLockPortKeeps,
     CheckDeleteKeeps, CheckStopKeeps DEF CheckStep
<1>5. ASSUME Tick \/ Cancel PROVE NatInv'
  BY <1>5, TickKeeps, CancelKeeps
<1>6. CASE UNCHANGED vars
  BY <1>6 DEF vars, natVars, lockVars, sessVars, threadVars, checkVars, NatInv, TypeOK,
     LocalsReady, LocksHeld, OwnersKnown, MapsAgree, AllocateUnbound, ExpiredPresent,
     TimesOrdered
<1> QED BY <1>1, <1>2, <1>3, <1>4, <1>5, <1>6 DEF Next

(* The inductive invariant, and with it type correctness, holds of every    *)
(* behaviour of the NAT.                                                    *)
THEOREM NatInvariant == Spec => []NatInv
<1> QED BY InitNatInv, NextNatInv, PTL DEF Spec

(* stack_system_nat.go keeps addrMap and portMap inverse to each other for  *)
(* any number of callers racing with checkTimeout.                          *)
THEOREM MapsAlwaysAgree == Spec => []MapsAgree
<1>1. NatInv => MapsAgree
  BY DEF NatInv
<1> QED BY <1>1, NatInvariant, PTL

(* checkTimeout never evicts a session used within Timeout - Grain. *)
THEOREM EvictionBound == Spec => EvictsOnlyIdle
<1> DEFINE A == \A p \in Ports : portMap[p] # NoSession /\ portMap'[p] # portMap[p] =>
                  clock - lastUse[portMap[p]] > Timeout - Grain
<1>1. NatInv /\ [Next]_vars => [A]_vars
  <2> SUFFICES ASSUME NatInv, [Next]_vars, NEW p \in Ports,
                      portMap[p] # NoSession, portMap'[p] # portMap[p]
               PROVE  clock - lastUse[portMap[p]] > Timeout - Grain
    OBVIOUS
  <2>1. ASSUME NEW t \in Threads, LookupInsert(t) PROVE FALSE
    <3>1. PICK i \in Tries, s \in Sessions \ Reachable :
            AllocatedAt(i) /\ portMap' = [portMap EXCEPT ![Tried(i)] = s]
      BY <2>1 DEF LookupInsert
    <3>2. portMap[Tried(i)] = NoSession
      BY <3>1 DEF AllocatedAt, Occupied
    <3> QED BY <3>1, <3>2 DEF NatInv, TypeOK
  <2>2. CASE CheckDelete
    <3>1. PICK e \in expired : e[1] = p /\ TimedOut(e[2])
      BY <2>2 DEF CheckDelete, StillExpired
    <3>2. e[2] = portMap[p] /\ e[2] \in Sessions
      BY <3>1 DEF NatInv, TypeOK, ExpiredPresent
    <3> QED BY <3>1, <3>2, TimeAssumption DEF NatInv, TypeOK, TimesOrdered, TimedOut
  <2>3. CASE UNCHANGED portMap
    BY <2>3
  <2>4. \/ \E t \in Threads : LookupInsert(t)
        \/ CheckDelete
        \/ UNCHANGED portMap
    BY DEF Next, ThreadStep, CheckStep, CallLookup, CallLookupBack, LookupRead, RefreshRead,
       RefreshTouch, LookupLock, LookupReread, LookupExhausted, LookupBackRead,
       LookupBackTouch, Return, CheckStart, CheckScan, CheckLockAddr, CheckLockPort,
       CheckStop, Tick, Cancel, vars, natVars
  <2> QED BY <2>1, <2>2, <2>3, <2>4
<1> QED BY <1>1, NatInvariant, PTL DEF Spec, EvictsOnlyIdle
-----------------------------------------------------------------------------
(* Refinement of NatTable. *)

(* A step of t that leaves the locals of the others, and the flow of every  *)
(* session they hold, alone changes at most t's call.                       *)
LEMMA OnlyOwnCall ==
  ASSUME NEW t \in Threads,
         \A u \in Threads \ {t} :
           /\ pc'[u] = pc[u] /\ key'[u] = key[u]
           /\ port'[u] = port[u] /\ sess'[u] = sess[u]
           /\ sess[u] # NoSession => sessKey'[sess[u]] = sessKey[sess[u]]
  PROVE  calls' = [calls EXCEPT ![t] = CallOf(t)']
<1>1. ASSUME NEW u \in Threads \ {t} PROVE CallOf(u)' = CallOf(u)
  BY <1>1 DEF CallOf
<1> QED BY <1>1 DEF calls

(* The thread's own part of a step that changes neither map nor session. *)
LEMMA QuietStep ==
  ASSUME NatInv, NEW t \in Threads,
         UNCHANGED <<addrMap, sessKey>>, CallOf(t)' = CallOf(t),
         \A u \in Threads \ {t} : /\ pc'[u] = pc[u] /\ key'[u] = key[u]
                                  /\ port'[u] = port[u] /\ sess'[u] = sess[u]
  PROVE  UNCHANGED <<addrMap, calls>>
<1>1. calls' = [calls EXCEPT ![t] = CallOf(t)']
  BY OnlyOwnCall
<1> QED BY <1>1 DEF calls

(* The owner NatTable chooses for a port is the flow of the port's session. *)
LEMMA OwnerIsSessionKey ==
  ASSUME NatInv, NEW p \in Ports
  PROVE  Abstract!Owner(p) = IF portMap[p] = NoSession THEN NoKey ELSE sessKey[portMap[p]]
<1> USE DEF NatInv
<1>1. CASE portMap[p] = NoSession
  BY <1>1 DEF MapsAgree, Abstract!Owner, Abstract!Bound
<1>2. CASE portMap[p] # NoSession
  <2> DEFINE k == sessKey[portMap[p]]
  <2>1. k \in Keys /\ addrMap[k] = p
    BY <1>2 DEF OwnersKnown, MapsAgree
  <2>2. \A j \in Keys : addrMap[j] = p => j = k
    BY DEF MapsAgree
  <2> HIDE DEF k
  <2> QED BY <1>2, <2>1, <2>2 DEF Abstract!Owner, Abstract!Bound, k
<1> QED BY <1>1, <1>2

(* Each step of a thread is a step of NatTable or none. *)
LEMMA ThreadRefines ==
  ASSUME NatInv, NatInv', NEW t \in Threads, ThreadStep(t)
  PROVE  Abstract!Next \/ UNCHANGED <<addrMap, calls>>
<1> USE DEF NatInv, GoTo, natVars, sessVars
<1>0. calls[t] = CallOf(t)
  BY DEF calls
<1>1. CASE LookupRead(t)
  <2>1. /\ CallOf(t) = [phase |-> "lookup", key |-> key[t]]
        /\ CallOf(t)' = IF addrMap[key[t]] # NoPort
                        THEN [phase |-> "answered", port |-> addrMap[key[t]]]
                        ELSE CallOf(t)
    BY <1>1 DEF LookupRead, CallOf, TypeOK
  <2>2. calls' = [calls EXCEPT ![t] = CallOf(t)'] /\ UNCHANGED addrMap
    BY <1>1, OnlyOwnCall DEF LookupRead, TypeOK
  <2>3. CASE addrMap[key[t]] # NoPort
    <3>1. calls[t].phase = "lookup" /\ calls[t].key = key[t]
      BY <1>0, <2>1
    <3>2. calls' = [calls EXCEPT ![t] = [phase |-> "answered", port |-> addrMap[key[t]]]]
      BY <2>1, <2>2, <2>3
    <3>3. Abstract!AnswerLookup(t)
      BY <2>2, <2>3, <3>1, <3>2 DEF Abstract!AnswerLookup
    <3> QED BY <3>3 DEF Abstract!Next
  <2>4. CASE addrMap[key[t]] = NoPort
    BY <2>1, <2>2, <2>4 DEF calls
  <2> QED BY <2>3, <2>4
<1>2. CASE RefreshRead(t)
  <2>1. CallOf(t)' = CallOf(t)
    BY <1>2 DEF RefreshRead, CallOf, TypeOK
  <2> QED BY <1>2, <2>1, QuietStep DEF RefreshRead, TypeOK
<1>3. CASE RefreshTouch(t)
  <2>1. CallOf(t)' = CallOf(t)
    BY <1>3 DEF RefreshTouch, CallOf, TypeOK
  <2> QED BY <1>3, <2>1, QuietStep DEF RefreshTouch, Refresh, TypeOK
<1>4. CASE LookupLock(t)
  <2>1. CallOf(t)' = CallOf(t)
    BY <1>4 DEF LookupLock, CallOf, TypeOK
  <2> QED BY <1>4, <2>1, QuietStep DEF LookupLock, TypeOK
<1>5. CASE LookupReread(t)
  <2>1. /\ CallOf(t) = [phase |-> "lookup", key |-> key[t]]
        /\ CallOf(t)' = IF addrMap[key[t]] # NoPort
                        THEN [phase |-> "answered", port |-> addrMap[key[t]]]
                        ELSE CallOf(t)
    BY <1>5 DEF LookupReread, CallOf, TypeOK
  <2>2. calls' = [calls EXCEPT ![t] = CallOf(t)'] /\ UNCHANGED addrMap
    BY <1>5, OnlyOwnCall DEF LookupReread, TypeOK
  <2>3. CASE addrMap[key[t]] # NoPort
    <3>1. calls[t].phase = "lookup" /\ calls[t].key = key[t]
      BY <1>0, <2>1
    <3>2. calls' = [calls EXCEPT ![t] = [phase |-> "answered", port |-> addrMap[key[t]]]]
      BY <2>1, <2>2, <2>3
    <3>3. Abstract!AnswerLookup(t)
      BY <2>2, <2>3, <3>1, <3>2 DEF Abstract!AnswerLookup
    <3> QED BY <3>3 DEF Abstract!Next
  <2>4. CASE addrMap[key[t]] = NoPort
    BY <2>1, <2>2, <2>4 DEF calls
  <2> QED BY <2>3, <2>4
<1>6. CASE LookupInsert(t)
  <2>1. PICK i \in Tries, s \in Sessions \ Reachable :
          /\ AllocatedAt(i)
          /\ addrMap' = [addrMap EXCEPT ![key[t]] = Tried(i)]
          /\ port' = [port EXCEPT ![t] = Tried(i)]
          /\ sessKey' = [sessKey EXCEPT ![s] = key[t]]
    BY <1>6 DEF LookupInsert
  <2>2. \A u \in Threads : sess[u] # s
    BY DEF Reachable
  <2>3. /\ CallOf(t) = [phase |-> "lookup", key |-> key[t]]
        /\ CallOf(t)' = [phase |-> "answered", port |-> Tried(i)]
    BY <1>6, <2>1 DEF LookupInsert, CallOf, TypeOK
  <2>4. calls' = [calls EXCEPT ![t] = CallOf(t)']
    BY <1>6, <2>1, <2>2, OnlyOwnCall DEF LookupInsert, TypeOK
  <2>5. key[t] \in Keys /\ addrMap[key[t]] = NoPort
    BY <1>6 DEF LookupInsert, LocalsReady, LookupPC, AllocateUnbound
  <2>6. Tried(i) \in Ports /\ ~Abstract!Bound(Tried(i))
    <3>1. Tried(i) \in Ports /\ portMap[Tried(i)] = NoSession
      BY <2>1, TriedIsPort DEF TypeOK, AllocatedAt, Occupied
    <3> QED BY <3>1 DEF MapsAgree, Abstract!Bound
  <2>7. Abstract!AnswerLookup(t)
    <3>1. calls[t].phase = "lookup" /\ calls[t].key = key[t]
      BY <1>0, <2>3
    <3>2. calls' = [calls EXCEPT ![t] = [phase |-> "answered", port |-> Tried(i)]]
      BY <2>3, <2>4
    <3> QED BY <2>1, <2>5, <2>6, <3>1, <3>2 DEF Abstract!AnswerLookup
  <2> QED BY <2>7 DEF Abstract!Next
<1>7. CASE LookupExhausted(t)
  <2>1. /\ CallOf(t) = [phase |-> "lookup", key |-> key[t]]
        /\ CallOf(t)' = [phase |-> "answered", port |-> NoPort]
    BY <1>7 DEF LookupExhausted, CallOf, TypeOK, LocalsReady, LookupPC
  <2>2. calls' = [calls EXCEPT ![t] = CallOf(t)'] /\ UNCHANGED addrMap
    BY <1>7, OnlyOwnCall DEF LookupExhausted, TypeOK
  <2>3. key[t] \in Keys /\ addrMap[key[t]] = NoPort
    BY <1>7 DEF LookupExhausted, LocalsReady, LookupPC, AllocateUnbound
  <2>4. \A p \in Ports : Abstract!Bound(p)
    <3> SUFFICES ASSUME NEW p \in Ports PROVE Abstract!Bound(p)
      OBVIOUS
    <3>1. portMap[p] # NoSession
      BY <1>7, TriesCoverPorts DEF LookupExhausted, TypeOK
    <3> QED BY <3>1 DEF OwnersKnown, MapsAgree, Abstract!Bound
  <2>5. Abstract!AnswerLookup(t)
    BY <1>0, <2>1, <2>2, <2>3, <2>4 DEF Abstract!AnswerLookup
  <2> QED BY <2>5 DEF Abstract!Next
<1>8. CASE LookupBackRead(t)
  <2>1. port[t] \in Ports
    BY <1>8 DEF LookupBackRead, LocalsReady
  <2>2. /\ CallOf(t) = [phase |-> "back", port |-> port[t]]
        /\ CallOf(t)' = [phase |-> "answered", key |-> Abstract!Owner(port[t])]
    <3>1. Abstract!Owner(port[t]) = IF portMap[port[t]] = NoSession THEN NoKey
                                    ELSE sessKey[portMap[port[t]]]
      BY <2>1, OwnerIsSessionKey
    <3> QED BY <1>8, <3>1 DEF LookupBackRead, CallOf, TypeOK
  <2>3. calls' = [calls EXCEPT ![t] = CallOf(t)'] /\ UNCHANGED addrMap
    BY <1>8, OnlyOwnCall DEF LookupBackRead, TypeOK
  <2>4. Abstract!AnswerBack(t)
    BY <1>0, <2>2, <2>3 DEF Abstract!AnswerBack
  <2> QED BY <2>4 DEF Abstract!Next
<1>9. CASE LookupBackTouch(t)
  <2>1. CallOf(t)' = CallOf(t)
    BY <1>9 DEF LookupBackTouch, Refresh, CallOf, TypeOK
  <2> QED BY <1>9, <2>1, QuietStep DEF LookupBackTouch, Refresh, TypeOK
<1>10. CASE Return(t)
  <2>1. CallOf(t).phase = "answered" /\ CallOf(t)' = [phase |-> "idle"]
    BY <1>10 DEF Return, CallOf, TypeOK
  <2>2. calls' = [calls EXCEPT ![t] = CallOf(t)'] /\ UNCHANGED addrMap
    BY <1>10, OnlyOwnCall DEF Return, TypeOK
  <2>3. Abstract!Return(t)
    BY <1>0, <2>1, <2>2 DEF Abstract!Return, Abstract!Idle
  <2> QED BY <2>3 DEF Abstract!Next
<1> QED BY <1>1, <1>2, <1>3, <1>4, <1>5, <1>6, <1>7, <1>8, <1>9, <1>10 DEF ThreadStep

(* Entering an operation is a call of NatTable. *)
LEMMA CallRefines ==
  ASSUME NatInv, NEW t \in Threads,
         \/ \E k \in Keys : CallLookup(t, k)
         \/ \E p \in Ports : CallLookupBack(t, p)
  PROVE  Abstract!Next
<1> USE DEF NatInv, GoTo, natVars, sessVars
<1>1. calls[t] = Abstract!Idle
  BY DEF calls, CallOf, CallLookup, CallLookupBack, Abstract!Idle
<1>2. ASSUME NEW k \in Keys, CallLookup(t, k)
      PROVE  Abstract!Call(t)
  <2>1. CallOf(t)' = [phase |-> "lookup", key |-> k]
    BY <1>2 DEF CallLookup, CallOf, TypeOK
  <2>2. calls' = [calls EXCEPT ![t] = CallOf(t)'] /\ UNCHANGED addrMap
    BY <1>2, OnlyOwnCall DEF CallLookup, TypeOK
  <2> QED BY <1>1, <2>1, <2>2 DEF Abstract!Call
<1>3. ASSUME NEW p \in Ports, CallLookupBack(t, p)
      PROVE  Abstract!Call(t)
  <2>1. CallOf(t)' = [phase |-> "back", port |-> p]
    BY <1>3 DEF CallLookupBack, CallOf, TypeOK
  <2>2. calls' = [calls EXCEPT ![t] = CallOf(t)'] /\ UNCHANGED addrMap
    BY <1>3, OnlyOwnCall DEF CallLookupBack, TypeOK
  <2> QED BY <1>1, <2>1, <2>2 DEF Abstract!Call
<1> QED BY <1>2, <1>3 DEF Abstract!Next

(* Steps that are not a thread's leave every call alone. *)
LEMMA OtherRefines ==
  ASSUME NatInv, CheckStart \/ CheckStep \/ CheckStop \/ Tick \/ Cancel
  PROVE  Abstract!Next \/ UNCHANGED <<addrMap, calls>>
<1>1. UNCHANGED <<pc, key, port, sess, sessKey>>
  BY DEF CheckStart, CheckStep, CheckScan, CheckLockAddr, CheckLockPort, CheckDelete,
     CheckStop, Tick, Cancel, threadVars, sessVars
<1>2. UNCHANGED calls
  BY <1>1 DEF calls, CallOf
<1>3. CASE CheckDelete
  <2> DEFINE S == {k \in Keys : \E e \in StillExpired : sessKey[e[2]] = k}
  <2>1. addrMap' = [k \in Keys |-> IF k \in S THEN NoPort ELSE addrMap[k]]
    BY <1>3 DEF CheckDelete
  <2>2. Abstract!Evict
    BY <1>2, <2>1 DEF Abstract!Evict
  <2> QED BY <2>2 DEF Abstract!Next
<1>4. CASE ~CheckDelete
  BY <1>2, <1>4 DEF CheckStart, CheckStep, CheckScan, CheckLockAddr, CheckLockPort,
     CheckStop, Tick, Cancel, natVars
<1> QED BY <1>3, <1>4

(* The NAT of stack_system_nat.go is linearizable: it implements NatTable   *)
(* for any number of callers, flows and ports.                              *)
THEOREM NatRefinesTable == Spec => Linearizable
<1>1. Init => Abstract!Init
  BY DEF Init, Abstract!Init, Abstract!Idle, calls, CallOf
<1>2. NatInv /\ NatInv' /\ [Next]_vars => [Abstract!Next]_(Abstract!vars)
  <2> SUFFICES ASSUME NatInv, NatInv', [Next]_vars
               PROVE  Abstract!Next \/ UNCHANGED <<addrMap, calls>>
    BY DEF Abstract!vars
  <2>1. CASE UNCHANGED vars
    BY <2>1 DEF vars, natVars, sessVars, threadVars, calls, CallOf
  <2>2. CASE Next
    BY <2>2, ThreadRefines, CallRefines, OtherRefines DEF Next
  <2> QED BY <2>1, <2>2
<1> QED BY <1>1, <1>2, NatInvariant, PTL DEF Spec, Linearizable, Abstract!Spec
=============================================================================
