---------------------------- MODULE DeviceProofs ----------------------------
(***************************************************************************)
(* Proofs about the components of single platforms: the devices of macOS   *)
(* and Windows, the change registries of Windows, the monitor of macOS and *)
(* what the subscribers of the three monitors are told.  They are proofs   *)
(* about the specification of the run MCPlatforms, for every value of its  *)
(* constants: a behaviour of it is one of a single component, so each      *)
(* component has an invariant of its own here, and what the run checks of  *)
(* it follows.                                                             *)
(***************************************************************************)
EXTENDS MCPlatforms, FiniteSets, FiniteSetTheorems, TLAPS

-----------------------------------------------------------------------------
(* DarwinTun (tun_darwin.go).  The argument: with sendmsg_x every writer    *)
(* holds writeAccess from before its first call into the kernel until after *)
(* its last, so nobody else is in the socket's buffer.                      *)
WriterState == [at : {"idle", "lock", "send", "kernel"}, kind : {"batch", "single", "endpoint"},
                left : 0 .. BatchLen]

\* New and Close: only an open device is closed, only a device has descriptors.
UtunLife ==
  /\ device \in {"new", "open", "failed", "closed"}
  /\ device \in {"new", "failed"} => closer = "no" /\ ~tunFd /\ ~stopFd.open /\ ~dns

UtunCounts ==
  /\ queue \in Nat /\ arrived \in Nat /\ queue <= arrived /\ arrived <= MaxPackets
  /\ calls \in Nat /\ calls <= MaxCalls
  /\ dropped = 0
  /\ writer \in [Writers -> WriterState]

\* Who is in the buffer, and with sendmsg_x who holds the lock
UtunLocks ==
  /\ \A w \in Writers : writer[w].at = "kernel" => sbLock = w /\ writer[w].left > 0
  /\ sbLock # None => sbLock \in Writers /\ writer[sbLock].at = "kernel"
  /\ msgX => \A w \in Writers : writer[w].at \in {"send", "kernel"} => writeAccess = w

UtunInv == UtunLife /\ UtunCounts /\ UtunLocks

LEMMA InitUtun == ASSUME Utun!DeviceAssumption, Utun!Init PROVE UtunInv
  BY DEF Utun!DeviceAssumption, Utun!Init, UtunInv, UtunLife, UtunCounts, UtunLocks, WriterState

(* New, the reader and Close leave the writers alone. *)
LEMMA LifeKeeps ==
  ASSUME Utun!DeviceAssumption, UtunInv,
         Utun!NewFails \/ Utun!NewDNSFails \/ Utun!New \/ Utun!Close
  PROVE  UtunInv'
<1> USE DEF UtunInv, Utun!reads, Utun!writes, Utun!life
<1>1. UNCHANGED <<writeAccess, sbLock, writer, calls, dropped, queue, arrived, msgX>>
  BY DEF Utun!NewFails, Utun!NewDNSFails, Utun!New, Utun!Close, Utun!CloseDNS, Utun!CloseStop,
         Utun!CloseFile, Utun!ClosePipe
<1>2. UtunCounts' /\ UtunLocks'
  BY <1>1 DEF UtunCounts, UtunLocks
<1>3. UtunLife'
  BY DEF UtunLife, Utun!NewFails, Utun!NewDNSFails, Utun!New, Utun!Close, Utun!CloseDNS,
         Utun!CloseStop, Utun!CloseFile, Utun!ClosePipe
<1> QED BY <1>2, <1>3

LEMMA ReaderKeeps ==
  ASSUME Utun!DeviceAssumption, UtunInv, Utun!PacketArrives \/ Utun!BatchRead PROVE UtunInv'
<1> USE DEF UtunInv, Utun!reads, Utun!writes, Utun!life, Utun!DeviceAssumption
<1>1. UNCHANGED <<writeAccess, sbLock, writer, calls, dropped, device, msgX, tunFd, dns, stopFd, closer>>
  BY DEF Utun!PacketArrives, Utun!BatchRead, Utun!RecvMMsg, Utun!Register, Utun!Wake
<1>2. UtunLife' /\ UtunLocks'
  BY <1>1 DEF UtunLife, UtunLocks
<1>3. queue' \in Nat /\ arrived' \in Nat /\ queue' <= arrived' /\ arrived' <= MaxPackets
  BY DEF UtunCounts, Utun!PacketArrives, Utun!BatchRead, Utun!RecvMMsg, Utun!Register, Utun!Wake
<1> QED BY <1>1, <1>2, <1>3 DEF UtunCounts

(* A step of one writer: the new state of w is s, that of the others as it was. *)
LEMMA WriterKeeps ==
  ASSUME Utun!DeviceAssumption, UtunInv, NEW w \in Writers, NEW s \in WriterState,
         writer' = [writer EXCEPT ![w] = s],
         UNCHANGED <<device, msgX, tunFd, dns, stopFd, closer, queue, arrived, dropped>>,
         calls' \in Nat, calls' <= MaxCalls,
         s.at = "kernel" => sbLock' = w /\ s.left > 0,
         IF s.at = "kernel" THEN sbLock = None
           ELSE sbLock' = (IF sbLock = w THEN None ELSE sbLock),
         msgX /\ s.at \in {"send", "kernel"} => writeAccess' = w,
         writeAccess' # writeAccess => writeAccess \in {w, None}
  PROVE  UtunInv'
<1> USE DEF UtunInv, Utun!DeviceAssumption
<1>1. writer' \in [Writers -> WriterState] /\ writer'[w] = s
      /\ \A v \in Writers \ {w} : writer'[v] = writer[v]
  BY DEF UtunCounts
<1>2. UtunLife'
  BY DEF UtunLife
<1>3. UtunCounts'
  BY <1>1 DEF UtunCounts
<1>4. ASSUME NEW v \in Writers, writer'[v].at = "kernel" PROVE sbLock' = v /\ writer'[v].left > 0
  BY <1>1, <1>4 DEF UtunLocks
<1>5. ASSUME sbLock' # None PROVE sbLock' \in Writers /\ writer'[sbLock'].at = "kernel"
  BY <1>1, <1>5 DEF UtunLocks
<1>6. ASSUME msgX, NEW v \in Writers, writer'[v].at \in {"send", "kernel"} PROVE writeAccess' = v
  BY <1>1, <1>6 DEF UtunLocks
<1>7. UtunLocks'
  BY <1>4, <1>5, <1>6 DEF UtunLocks
<1> QED BY <1>2, <1>3, <1>7

LEMMA UtunWriterSteps ==
  ASSUME Utun!DeviceAssumption, UtunInv, NEW w \in Writers, Utun!Enter(w) \/ Utun!Writer(w)
  PROVE  UtunInv'
<1> USE DEF Utun!DeviceAssumption, Utun!life, Utun!reads, Utun!Go
<1>0. /\ writer \in [Writers -> WriterState] /\ writer[w] \in WriterState
      /\ calls \in Nat /\ calls <= MaxCalls /\ dropped = 0
  BY DEF UtunInv, UtunCounts
<1>l. /\ writer[w].at = "kernel" => sbLock = w /\ writer[w].left > 0
      /\ sbLock = w => writer[w].at = "kernel"
      /\ msgX /\ writer[w].at \in {"send", "kernel"} => writeAccess = w
  BY DEF UtunInv, UtunLocks
<1>1. CASE Utun!Enter(w)
  <2>1. PICK kind \in {"batch", "single", "endpoint"} :
          writer' = [writer EXCEPT ![w] = [at |-> IF Utun!Locks(kind) THEN "lock" ELSE "send",
                                           kind |-> kind, left |-> Utun!Packets(kind)]]
    BY <1>1 DEF Utun!Enter
  <2> DEFINE s == [at |-> IF Utun!Locks(kind) THEN "lock" ELSE "send", kind |-> kind, left |-> Utun!Packets(kind)]
  <2>2. s \in WriterState /\ s.at # "kernel" /\ (msgX => s.at = "lock")
    BY DEF WriterState, Utun!Locks, Utun!Packets
  <2>3. sbLock # w
    BY <1>1, <1>l DEF Utun!Enter
  <2>4. /\ UNCHANGED <<device, msgX, tunFd, dns, stopFd, closer, queue, arrived, dropped, sbLock, writeAccess>>
        /\ calls' \in Nat /\ calls' <= MaxCalls
    BY <1>0, <1>1 DEF Utun!Enter
  <2> HIDE DEF s
  <2> QED BY <2>1, <2>2, <2>3, <2>4, WriterKeeps DEF s
<1>2. CASE Utun!Lock(w)
  <2> DEFINE s == [writer[w] EXCEPT !.at = "send"]
  <2>1. s \in WriterState /\ s.at = "send" /\ writer' = [writer EXCEPT ![w] = s]
    BY <1>0, <1>2 DEF WriterState, Utun!Lock
  <2> HIDE DEF s
  <2> QED BY <2>1, <1>0, <1>l, <1>2, WriterKeeps DEF Utun!Lock
<1>3. CASE Utun!SendBegin(w)
  <2>1. sbLock = None
    <3>1. SUFFICES ASSUME sbLock # None PROVE FALSE
      OBVIOUS
    <3>2. msgX /\ writeAccess = w /\ writer[w].at = "send"
      BY <1>3, <1>l, <3>1 DEF Utun!SendBegin, Utun!UsesMsgX
    <3>3. sbLock \in Writers /\ writer[sbLock].at = "kernel" /\ writeAccess = sbLock
      BY <3>1, <3>2 DEF UtunInv, UtunLocks
    <3> QED BY <3>2, <3>3
  <2> DEFINE s == [writer[w] EXCEPT !.at = "kernel"]
  <2>2. s \in WriterState /\ s.at = "kernel" /\ s.left > 0 /\ writer' = [writer EXCEPT ![w] = s]
    BY <1>0, <1>3, <2>1 DEF WriterState, Utun!SendBegin
  <2>3. sbLock' = w /\ (msgX => writeAccess' = w) /\ writeAccess' = writeAccess
    BY <1>3, <1>l, <2>1 DEF Utun!SendBegin
  <2>4. UNCHANGED <<device, msgX, tunFd, dns, stopFd, closer, queue, arrived, dropped, calls>>
    BY <1>3, <2>1 DEF Utun!SendBegin
  <2> HIDE DEF s
  <2> QED BY <2>1, <2>2, <2>3, <2>4, <1>0, WriterKeeps
<1>4. CASE Utun!SendEnd(w)
  <2>1. PICK sent \in (IF Utun!UsesMsgX(w) THEN 1..writer[w].left ELSE {1}) \union {writer[w].left} :
          writer' = [writer EXCEPT ![w].at = "send", ![w].left = @ - sent]
    BY <1>4 DEF Utun!SendEnd
  <2>2. sent \in 1 .. writer[w].left /\ writer[w].left \in 0 .. BatchLen
    BY <1>0, <1>4, <1>l DEF WriterState, Utun!SendEnd
  <2>3. writer[w].left - sent \in 0 .. BatchLen
    BY <2>2
  <2> DEFINE s == [writer[w] EXCEPT !.at = "send", !.left = writer[w].left - sent]
  <2>4. s \in WriterState /\ s.at = "send"
    BY <1>0, <2>3 DEF WriterState
  <2>5. writer' = [writer EXCEPT ![w] = s]
    BY <1>0, <2>1 DEF WriterState
  <2>6. /\ UNCHANGED <<device, msgX, tunFd, dns, stopFd, closer, queue, arrived, dropped, calls, writeAccess>>
        /\ sbLock = w /\ sbLock' = None /\ (msgX => writeAccess = w)
    BY <1>4, <1>l DEF Utun!SendEnd
  <2> HIDE DEF s
  <2> QED BY <1>0, <2>4, <2>5, <2>6, WriterKeeps
<1>5. CASE Utun!SendClosed(w)
  <2> DEFINE s == [writer[w] EXCEPT !.left = 0]
  <2>1. s \in WriterState /\ s.at = "send" /\ writer' = [writer EXCEPT ![w] = s]
    BY <1>0, <1>5 DEF WriterState, Utun!SendClosed
  <2>2. /\ UNCHANGED <<device, msgX, tunFd, dns, stopFd, closer, queue, arrived, dropped, calls, writeAccess, sbLock>>
        /\ sbLock # w /\ (msgX => writeAccess = w)
    BY <1>5, <1>l DEF Utun!SendClosed
  <2> HIDE DEF s
  <2> QED BY <1>0, <2>1, <2>2, WriterKeeps
<1>6. CASE Utun!Unlock(w)
  <2> DEFINE s == [writer[w] EXCEPT !.at = "idle"]
  <2>1. s \in WriterState /\ s.at = "idle" /\ writer' = [writer EXCEPT ![w] = s]
    BY <1>0, <1>6 DEF WriterState, Utun!Unlock
  <2>2. /\ UNCHANGED <<device, msgX, tunFd, dns, stopFd, closer, queue, arrived, dropped, calls, sbLock>>
        /\ sbLock # w /\ (writeAccess' # writeAccess => writeAccess = w)
    BY <1>6, <1>l DEF Utun!Unlock
  <2> HIDE DEF s
  <2> QED BY <1>0, <2>1, <2>2, WriterKeeps
<1> QED BY <1>1, <1>2, <1>3, <1>4, <1>5, <1>6 DEF Utun!Writer

LEMMA UtunInvariant == Spec => [](part = "darwinTun" => UtunInv)
<1> USE DeviceAssumed
<1>1. Utun!Init => UtunInv
  BY InitUtun
<1>2. UtunInv /\ [Utun!Next]_(Utun!vars) => UtunInv'
  <2>1. ASSUME UtunInv, UNCHANGED Utun!vars PROVE UtunInv'
    BY <2>1 DEF UtunInv, UtunLife, UtunCounts, UtunLocks, Utun!vars, Utun!life, Utun!reads, Utun!writes
  <2> QED BY <2>1, LifeKeeps, ReaderKeeps, UtunWriterSteps DEF Utun!Next
<1>3. Init => (part = "darwinTun" => UtunInv)
  BY <1>1 DEF Init
<1>4. (part = "darwinTun" => UtunInv) /\ [Next]_vars => (part = "darwinTun" => UtunInv)'
  <2> SUFFICES ASSUME part = "darwinTun" => UtunInv, [Next]_vars, part' = "darwinTun" PROVE UtunInv'
    OBVIOUS
  <2>1. part = "darwinTun" /\ [Utun!Next]_(Utun!vars)
    BY DEF Next, vars, Utun!vars, Utun!life, Utun!reads, Utun!writes,
           device, msgX, tunFd, dns, stopFd, queue, arrived, reader, stranded,
           writeAccess, sbLock, writer, calls, dropped, closer
  <2> QED BY <1>2, <2>1
<1> QED BY <1>3, <1>4, PTL DEF Spec

(* BatchWrite, Write and gVisor's sendBatch: the kernel drops no batch it
   reports as sent, for any number of writers and packets, and a device that
   could not be set up leaves nothing open. *)
THEOREM BatchTheorem == Spec => []NoBatchDropped
<1>1. (part = "darwinTun" => UtunInv) => NoBatchDropped
  BY DeviceAssumed DEF Utun!DeviceAssumption, UtunInv, UtunLife, UtunCounts, WriterState, Utun!TypeOK,
     Utun!NoBatchDropped, NoBatchDropped
<1> QED BY <1>1, UtunInvariant, PTL

-----------------------------------------------------------------------------
(* WinSession (tun_windows.go).  The argument: t.running is the number of   *)
(* goroutines inside a call, the flag is set before Close waits for zero,   *)
(* and whoever counts itself later finds the flag before the session.       *)
InCall == {"check", "receive", "wait", "hold", "send"}
Inside == {p \in Wintun!Users : at[p] \in InCall}

SessionTypes ==
  /\ at \in [Wintun!Users \union Closers -> InCall \union {"idle", "ended", "wake", "drain", "once", "closed"}]
  /\ \A p \in Wintun!Users : at[p] \in InCall \union {"idle", "ended"}
  /\ ring \in Nat /\ ringArrived \in Nat /\ ring <= ringArrived /\ ringArrived <= MaxPackets

SessionFlags == close \in BOOLEAN /\ readWait \in BOOLEAN /\ misused = FALSE

\* What the flag and the end of the session say about those inside
SessionEnd ==
  /\ \A c \in Closers : at[c] \in {"wake", "drain"} => close
  /\ session = "ended" => close
  /\ session = "ended" => \A p \in Wintun!Users : at[p] \notin {"receive", "wait", "hold", "send"}

SessionCount == running = Cardinality(Inside)

SessionInv == SessionTypes /\ SessionFlags /\ SessionEnd /\ SessionCount

(* FiniteSets is the same for the instance as for this module. *)
LEMMA SameCounting ==
  /\ Wintun!SessionAssumption => IsFiniteSet(Wintun!Users)
  /\ \A S : Wintun!Cardinality(S) = Cardinality(S)
<1>1. Wintun!SessionAssumption => IsFiniteSet(Wintun!Users)
  BY DEF Wintun!SessionAssumption, Wintun!IsFiniteSet, IsFiniteSet
<1>2. \A S : Wintun!Cardinality(S) = Cardinality(S)
  BY DEF Wintun!Cardinality, Cardinality, Wintun!IsFiniteSet, IsFiniteSet
<1> QED BY <1>1, <1>2

LEMMA InitSession == ASSUME Wintun!SessionAssumption, Wintun!Init PROVE SessionInv
<1> USE DEF Wintun!SessionAssumption, Wintun!Init
<1>1. SessionTypes /\ SessionEnd
  BY DEF SessionTypes, SessionEnd, InCall
<1>2. SessionFlags
  BY Zenon DEF SessionFlags
<1>3. Inside = {}
  BY DEF Inside, InCall
<1> QED BY <1>1, <1>2, <1>3, FS_EmptySet DEF SessionInv, SessionCount

(* Counting: a goroutine that enters or leaves a call changes the number of
   those inside by one, any other step leaves it. *)
LEMMA InsideCounts ==
  ASSUME Wintun!SessionAssumption, SessionTypes, NEW p \in Wintun!Users \union Closers, NEW where,
         at' = [at EXCEPT ![p] = where], where \in InCall => p \in Wintun!Users
  PROVE  /\ IsFiniteSet(Inside) /\ Cardinality(Inside) \in Nat
         /\ (at[p] \notin InCall /\ where \in InCall) => Cardinality(Inside') = Cardinality(Inside) + 1
         /\ (p \in Inside /\ where \notin InCall) => Cardinality(Inside') = Cardinality(Inside) - 1
         /\ (at[p] \in InCall <=> where \in InCall) => Inside' = Inside
<1>1. IsFiniteSet(Inside) /\ Cardinality(Inside) \in Nat
  <2>1. Inside \subseteq Wintun!Users
    BY DEF Inside
  <2> QED BY <2>1, SameCounting, FS_Subset, FS_CardinalityType
<1>2. /\ (at[p] \notin InCall /\ where \in InCall) => Inside' = Inside \union {p} /\ p \notin Inside
      /\ where \notin InCall => Inside' = Inside \ {p}
      /\ (at[p] \in InCall <=> where \in InCall) => Inside' = Inside
  BY DEF Inside, SessionTypes
<1>3. (at[p] \notin InCall /\ where \in InCall) => Cardinality(Inside') = Cardinality(Inside) + 1
  BY <1>1, <1>2, FS_AddElement
<1>4. (p \in Inside /\ where \notin InCall) => Cardinality(Inside') = Cardinality(Inside) - 1
  BY <1>1, <1>2, FS_RemoveElement
<1> QED BY <1>1, <1>2, <1>3, <1>4

(* A step of a reader or writer: the counter follows it, and it gets at the
   session, or stays with it, only while that has not ended. *)
LEMMA UserKeeps ==
  ASSUME Wintun!SessionAssumption, SessionInv, NEW p \in Wintun!Users,
         NEW where \in InCall \union {"idle", "ended"},
         at' = [at EXCEPT ![p] = where], UNCHANGED <<close, session, ringArrived>>,
         ring' \in Nat, ring' <= ringArrived, readWait' \in BOOLEAN, misused' = FALSE,
         where \in {"receive", "wait", "hold", "send"} => session # "ended",
         running' = IF where \in InCall THEN (IF at[p] \in InCall THEN running ELSE running + 1)
                    ELSE running - 1,
         at[p] \in InCall \/ where \in InCall
  PROVE  SessionInv'
<1>0. SessionTypes /\ SessionEnd /\ SessionFlags /\ SessionCount
  BY DEF SessionInv
<1>1. SessionTypes'
  BY <1>0 DEF SessionTypes, InCall
<1>2. SessionFlags'
  BY <1>0, Zenon DEF SessionFlags
<1>3. SessionEnd'
  BY <1>0 DEF SessionTypes, SessionEnd, InCall, Wintun!SessionAssumption
<1>4. at[p] \in InCall => p \in Inside
  BY DEF Inside
<1>5. SessionCount'
  BY <1>0, <1>4, InsideCounts DEF SessionCount
<1> QED BY <1>1, <1>2, <1>3, <1>5 DEF SessionInv

LEMMA ReaderStepKeeps ==
  ASSUME Wintun!SessionAssumption, SessionInv, NEW r \in Readers, Wintun!Reader(r) PROVE SessionInv'
<1>0. /\ r \in Wintun!Users /\ ring \in Nat /\ ring <= ringArrived /\ ringArrived \in Nat
      /\ close \in BOOLEAN /\ readWait \in BOOLEAN /\ misused = FALSE
      /\ session = "ended" => close /\ at[r] \notin {"receive", "wait", "hold", "send"}
  BY DEF Wintun!Users, SessionInv, SessionTypes, SessionFlags, SessionEnd
<1> USE DEF Wintun!Go, InCall
<1>1. CASE Wintun!ReadEnter(r)
  BY <1>0, <1>1, UserKeeps DEF Wintun!ReadEnter
<1>2. CASE Wintun!ReadCheck(r) /\ close
  BY <1>0, <1>2, UserKeeps DEF Wintun!ReadCheck
<1>3. CASE Wintun!ReadCheck(r) /\ ~close
  BY <1>0, <1>3, UserKeeps DEF Wintun!ReadCheck
<1>4. CASE Wintun!ReceiveEmpty(r)
  <2>1. session # "ended" /\ at[r] = "receive"
    BY <1>0, <1>4 DEF Wintun!ReceiveEmpty
  <2>2. misused' = FALSE
    BY <1>0, <1>4, <2>1 DEF Wintun!ReceiveEmpty, Wintun!Uses
  <2> QED BY <1>0, <1>4, <2>1, <2>2, UserKeeps DEF Wintun!ReceiveEmpty
<1>5. CASE Wintun!ReceivePacket(r)
  <2>1. session # "ended" /\ at[r] = "receive"
    BY <1>0, <1>5 DEF Wintun!ReceivePacket
  <2>2. misused' = FALSE
    BY <1>0, <1>5, <2>1 DEF Wintun!ReceivePacket, Wintun!Uses
  <2>3. ring' \in Nat /\ ring' <= ringArrived
    BY <1>0, <1>5 DEF Wintun!ReceivePacket
  <2> QED BY <1>0, <1>5, <2>1, <2>2, <2>3, UserKeeps DEF Wintun!ReceivePacket
<1>6. CASE Wintun!ReceiveEOF(r)
  BY <1>0, <1>6, UserKeeps DEF Wintun!ReceiveEOF
<1>7. CASE Wintun!WaitForEvent(r)
  BY <1>0, <1>7, UserKeeps DEF Wintun!WaitForEvent
<1>8. CASE Wintun!Release(r)
  <2>1. session # "ended" /\ at[r] = "hold"
    BY <1>0, <1>8 DEF Wintun!Release
  <2>2. misused' = FALSE
    BY <1>0, <1>8, <2>1 DEF Wintun!Release, Wintun!Uses
  <2> QED BY <1>0, <1>8, <2>1, <2>2, UserKeeps DEF Wintun!Release
<1> QED BY <1>1, <1>2, <1>3, <1>4, <1>5, <1>6, <1>7, <1>8 DEF Wintun!Reader

LEMMA WriterStepKeeps ==
  ASSUME Wintun!SessionAssumption, SessionInv, NEW w \in Writers,
         Wintun!WriteEnter(w) \/ Wintun!Writer(w)
  PROVE  SessionInv'
<1>0. /\ w \in Wintun!Users /\ ring \in Nat /\ ring <= ringArrived /\ ringArrived \in Nat
      /\ close \in BOOLEAN /\ readWait \in BOOLEAN /\ misused = FALSE
      /\ session = "ended" => close /\ at[w] \notin {"receive", "wait", "hold", "send"}
  BY DEF Wintun!Users, SessionInv, SessionTypes, SessionFlags, SessionEnd
<1> USE DEF Wintun!Go, InCall
<1>1. CASE Wintun!WriteEnter(w)
  BY <1>0, <1>1, UserKeeps DEF Wintun!WriteEnter
<1>2. CASE Wintun!WriteCheck(w) /\ close
  BY <1>0, <1>2, UserKeeps DEF Wintun!WriteCheck
<1>3. CASE Wintun!WriteCheck(w) /\ ~close
  BY <1>0, <1>3, UserKeeps DEF Wintun!WriteCheck
<1>4. CASE Wintun!WriteSend(w)
  <2>1. session # "ended" /\ at[w] = "send"
    BY <1>0, <1>4 DEF Wintun!WriteSend
  <2>2. misused' = FALSE
    BY <1>0, <1>4, <2>1 DEF Wintun!WriteSend, Wintun!Uses
  <2> QED BY <1>0, <1>4, <2>1, <2>2, UserKeeps DEF Wintun!WriteSend
<1> QED BY <1>1, <1>2, <1>3, <1>4 DEF Wintun!Writer

(* Close: the session ends when nobody is inside, with the flag set. *)
LEMMA CloserKeeps ==
  ASSUME Wintun!SessionAssumption, SessionInv, NEW c \in Closers,
         Wintun!CloseStore(c) \/ Wintun!CloseOnce(c) \/ Wintun!Closer(c)
  PROVE  SessionInv'
<1>0. SessionTypes /\ SessionEnd /\ SessionFlags /\ SessionCount /\ c \notin Wintun!Users
  BY DEF SessionInv, Wintun!SessionAssumption
<1>1. PICK where \in {"wake", "drain", "once", "closed"} : at' = [at EXCEPT ![c] = where]
  BY DEF Wintun!CloseStore, Wintun!CloseOnce, Wintun!Closer, Wintun!CloseWake, Wintun!CloseEnd,
         Wintun!CloseOnceDone, Wintun!Go
<1>2. UNCHANGED <<running, ring, ringArrived, misused>>
  BY DEF Wintun!CloseStore, Wintun!CloseOnce, Wintun!Closer, Wintun!CloseWake, Wintun!CloseEnd,
         Wintun!CloseOnceDone
<1>3. SessionTypes'
  BY <1>0, <1>1, <1>2 DEF SessionTypes, InCall
<1>4. SessionFlags'
  BY <1>0, <1>2, Zenon DEF SessionFlags, Wintun!CloseStore, Wintun!CloseOnce, Wintun!Closer,
     Wintun!CloseWake, Wintun!CloseEnd, Wintun!CloseOnceDone
<1>5. Inside' = Inside
  BY <1>0, <1>1 DEF Inside, SessionTypes
<1>6. SessionCount'
  BY <1>0, <1>2, <1>5 DEF SessionCount
<1>7. SessionEnd'
  <2>1. \A p \in Wintun!Users : at'[p] = at[p]
    BY <1>0, <1>1 DEF SessionTypes
  <2>2. CASE Wintun!CloseEnd(c)
    <3>1. Inside = {}
      <4>1. Inside \subseteq Wintun!Users /\ IsFiniteSet(Inside)
        BY SameCounting, FS_Subset DEF Inside
      <4> QED BY <1>0, <2>2, <4>1, FS_EmptySet DEF SessionCount, Wintun!CloseEnd
    <3>2. close /\ close' = close
      BY <1>0, <2>2 DEF Wintun!CloseEnd, SessionEnd
    <3> QED BY <1>0, <2>1, <3>1, <3>2 DEF SessionEnd, Inside, InCall
  <2>3. CASE ~Wintun!CloseEnd(c)
    <3>1. UNCHANGED session /\ (close => close') /\ (at'[c] \in {"wake", "drain"} => close')
      BY <1>0, <2>3 DEF SessionTypes, SessionEnd, Wintun!CloseStore, Wintun!CloseOnce, Wintun!Closer,
         Wintun!CloseWake, Wintun!CloseOnceDone, Wintun!Go
    <3>2. \A d \in Closers \ {c} : at'[d] = at[d]
      BY <1>0, <1>1 DEF SessionTypes
    <3> QED BY <1>0, <2>1, <3>1, <3>2 DEF SessionEnd
  <2> QED BY <2>2, <2>3
<1> QED BY <1>3, <1>4, <1>6, <1>7 DEF SessionInv

LEMMA RingKeeps ==
  ASSUME Wintun!SessionAssumption, SessionInv, Wintun!PacketArrives \/ Wintun!AdapterRemoved
  PROVE  SessionInv'
<1>0. SessionTypes /\ SessionEnd /\ SessionFlags /\ SessionCount
  BY DEF SessionInv
<1> USE DEF Wintun!PacketArrives, Wintun!AdapterRemoved
<1>1. SessionTypes' /\ SessionEnd'
  BY <1>0 DEF SessionTypes, SessionEnd, Wintun!SessionAssumption
<1>2. SessionFlags'
  BY <1>0, Zenon DEF SessionFlags
<1>3. SessionCount'
  BY <1>0 DEF SessionCount, Inside
<1> QED BY <1>1, <1>2, <1>3 DEF SessionInv

LEMMA SessionInvariant == Spec => [](part = "winSession" => SessionInv)
<1> USE SessionAssumed
<1>1. Wintun!Init => SessionInv
  BY InitSession
<1>2. SessionInv /\ [Wintun!Next]_(Wintun!vars) => SessionInv'
  <2>1. ASSUME SessionInv, UNCHANGED Wintun!vars PROVE SessionInv'
    BY <2>1 DEF SessionInv, SessionTypes, SessionFlags, SessionEnd, SessionCount, Inside, Wintun!vars
  <2> QED BY <2>1, ReaderStepKeeps, WriterStepKeeps, CloserKeeps, RingKeeps DEF Wintun!Next
<1>3. Init => (part = "winSession" => SessionInv)
  BY <1>1 DEF Init
<1>4. (part = "winSession" => SessionInv) /\ [Next]_vars => (part = "winSession" => SessionInv)'
  <2> SUFFICES ASSUME part = "winSession" => SessionInv, [Next]_vars, part' = "winSession" PROVE SessionInv'
    OBVIOUS
  <2>1. part = "winSession" /\ [Wintun!Next]_(Wintun!vars)
    BY DEF Next, vars, Wintun!vars,
           running, close, readWait, session, ring, ringArrived, writes, at, misused
  <2> QED BY <1>2, <2>1
<1> QED BY <1>3, <1>4, PTL DEF Spec

(* Close against Read, ReadPacket and Write: no goroutine touches the session
   after its end, for any number of readers, writers and callers of Close. *)
LEMMA SessionHolds == SessionInv => Wintun!TypeOK /\ Wintun!NoUseAfterClose
<1>1. SessionInv => ring \in 0 .. MaxPackets /\ running = Cardinality(Inside)
  BY SessionAssumed DEF Wintun!SessionAssumption, SessionInv, SessionTypes, SessionCount
<1>2. SessionInv => Wintun!NoUseAfterClose
  BY DEF SessionInv, SessionFlags, Wintun!NoUseAfterClose
<1> QED BY <1>1, <1>2, SessionAssumed, SameCounting DEF SessionInv, SessionFlags, Inside, InCall, Wintun!TypeOK

-----------------------------------------------------------------------------
(* DarwinMonitor (monitor_darwin.go).  The argument for the number of       *)
(* sockets: each is opened after a message of the last was read, of which   *)
(* there are at most two for every change of the network, or after a Read   *)
(* that failed.                                                             *)
\* The loop, its socket and the messages: one socket may be without either, the
\* one that is being read, and after Close the last.
Sockets ==
  /\ pc \in {"open", "read", "got", "return", "stopped"}
  /\ opened \in Nat /\ changes \in Nat /\ changes <= MaxChanges
  /\ inbox \in Seq(Routes!Messages)
  /\ opened = 0 => inbox = <<>>
  /\ failures \in Nat /\ failures <= MaxFailures /\ Len(inbox) <= 2 * changes
  /\ opened + Len(inbox) <= 2 * changes + failures + 1
  /\ pc \in {"open", "got", "return"} /\ ~closed => opened + Len(inbox) <= 2 * changes + failures
  /\ gone => closed
  /\ pc \in {"open", "stopped"} => file = 0
  /\ file \in 0 .. opened
  /\ watchers \subseteq 1 .. opened

RouteFlags ==
  /\ underNetworkExtension \in Extensions
  /\ closed \in BOOLEAN /\ gone \in BOOLEAN /\ timer \in BOOLEAN /\ excused \in BOOLEAN

Checking ==
  /\ route \in Routes!Routes /\ seen \in Routes!Routes /\ default \in Routes!Routes
  /\ cpc \in {"idle", "wait", "store"}
  /\ pollers \subseteq 1 .. Routes!MaxChecks /\ checks \in 0 .. Routes!MaxChecks
  /\ result \in Seq(Routes!Routes) /\ Len(result) <= 1
  /\ read \subseteq Routes!Messages
  /\ failures \in 0 .. MaxFailures

RoutesInv == Sockets /\ RouteFlags /\ Checking

LEMMA InitRoutes == ASSUME Routes!BoundAssumption, Routes!Init PROVE RoutesInv
<1> USE DEF Routes!BoundAssumption, Routes!Init
<1>1. Sockets
  BY DEF Sockets
<1>2. RouteFlags
  BY Zenon DEF RouteFlags
<1>3. Checking
  BY DEF Checking, Routes!Routes, Routes!MaxChecks
<1> QED BY <1>1, <1>2, <1>3 DEF RoutesInv

LEMMA NetworkChangesKeeps ==
  ASSUME Routes!BoundAssumption, RoutesInv, Routes!NetworkChanges PROVE RoutesInv'
<1> USE DEF Routes!BoundAssumption, Routes!NetworkChanges, Routes!checkVars
<1>1. PICK m \in {<<"route">>, <<"other", "route">>} :
        inbox' = IF file # 0 /\ ~gone THEN inbox \o m ELSE inbox
  OBVIOUS
<1>2. m \in Seq(Routes!Messages) /\ Len(m) <= 2 /\ Len(m) \in Nat
  <2>1. CASE m = <<"route">>
    BY <2>1 DEF Routes!Messages
  <2>2. CASE m = <<"other", "route">>
    BY <2>2 DEF Routes!Messages
  <2> QED BY <2>1, <2>2
<1>3. /\ inbox \in Seq(Routes!Messages) /\ Len(inbox) \in Nat /\ opened \in Nat /\ changes \in Nat
      /\ opened = 0 => file = 0 /\ inbox = <<>>
  BY DEF RoutesInv, Sockets
<1>c. inbox \o m \in Seq(Routes!Messages) /\ Len(inbox \o m) = Len(inbox) + Len(m)
  BY <1>2, <1>3
<1>d. /\ inbox' \in Seq(Routes!Messages) /\ Len(inbox') <= Len(inbox) + 2
      /\ Len(inbox') \in Nat /\ (opened = 0 => inbox' = <<>>)
  BY <1>1, <1>2, <1>3, <1>c
<1>4. Sockets'
  <2>1. Len(inbox') <= 2 * changes' /\ changes' = changes + 1 /\ changes' <= MaxChanges
    BY <1>3, <1>d DEF RoutesInv, Sockets
  <2>2. UNCHANGED <<pc, file, gone, opened, closed, watchers, failures>>
    OBVIOUS
  <2>3. Sockets
    BY DEF RoutesInv
  <2> QED BY ONLY <1>3, <1>d, <2>1, <2>2, <2>3, Routes!BoundAssumption DEF Sockets, Routes!BoundAssumption
<1>5. RouteFlags'
  BY Zenon DEF RoutesInv, RouteFlags
<1>6. Checking'
  BY DEF RoutesInv, Checking
<1> QED BY <1>4, <1>5, <1>6 DEF RoutesInv

LEMMA LoopKeeps ==
  ASSUME Routes!BoundAssumption, RoutesInv, Routes!Loop \/ Routes!Close PROVE RoutesInv'
<1> USE DEF Routes!BoundAssumption, Routes!kernelVars, Routes!checkVars, Routes!loopVars, Routes!GoTo, Routes!Fails
<1>s. inbox \in Seq(Routes!Messages) /\ Len(inbox) \in Nat
  BY DEF RoutesInv, Sockets
<1>1. Sockets'
  <2>1. CASE Routes!LoopFails
    BY <2>1 DEF Routes!LoopFails, RoutesInv, Sockets
  <2>2. CASE Routes!LoopDone
    BY <2>2 DEF Routes!LoopDone, RoutesInv, Sockets
  <2>3. CASE Routes!LoopOpen
    BY <1>s, <2>3 DEF Routes!LoopOpen, RoutesInv, Sockets
  <2>4. CASE Routes!LoopRead
    <3>1. PICK n \in 1 .. Len(inbox) : inbox' = SubSeq(inbox, n + 1, Len(inbox))
      BY <2>4 DEF Routes!LoopRead
    <3>2. inbox' \in Seq(Routes!Messages) /\ Len(inbox') = Len(inbox) - n /\ opened # 0
      BY <1>s, <3>1 DEF RoutesInv, Sockets
    <3> QED BY <1>s, <2>4, <3>2 DEF Routes!LoopRead, RoutesInv, Sockets
  <2>5. CASE Routes!LoopReadFails
    <3>1. UNCHANGED <<inbox, opened, changes, closed, gone, file, watchers>> /\ pc' = "return"
      BY <2>5 DEF Routes!LoopReadFails
    <3>2. \/ gone /\ failures' = failures
          \/ failures < MaxFailures /\ failures' = failures + 1
      BY <2>5 DEF Routes!LoopReadFails
    <3>3. pc = "read"
      BY <2>5 DEF Routes!LoopReadFails
    <3> QED BY <1>s, <3>1, <3>2, <3>3 DEF RoutesInv, Sockets
  <2>6. CASE Routes!LoopEmit \/ Routes!LoopParseFails
    <3>1. UNCHANGED <<inbox, opened, changes, closed, gone, file, watchers>> /\ pc = "got" /\ pc' = "return"
      BY <2>6 DEF Routes!LoopEmit, Routes!LoopParseFails
    <3>2. \/ failures' = failures
          \/ failures < MaxFailures /\ failures' = failures + 1
      BY <2>6 DEF Routes!LoopEmit, Routes!LoopParseFails
    <3>3. Sockets
      BY DEF RoutesInv
    <3>4. CASE failures' = failures
      BY ONLY <1>s, <3>1, <3>3, <3>4 DEF Sockets
    <3>5. CASE failures < MaxFailures /\ failures' = failures + 1
      BY ONLY <1>s, <3>1, <3>3, <3>5, Routes!BoundAssumption DEF Sockets, Routes!BoundAssumption
    <3> QED BY ONLY <3>2, <3>4, <3>5
  <2>7. CASE Routes!LoopReturn
    <3>1. inbox' = <<>> /\ inbox' \in Seq(Routes!Messages) /\ Len(inbox') = 0
      BY <2>7 DEF Routes!LoopReturn
    <3> QED BY <1>s, <2>7, <3>1 DEF Routes!LoopReturn, RoutesInv, Sockets
  <2>8. CASE Routes!Close
    BY <2>8 DEF Routes!Close, RoutesInv, Sockets
  <2> QED BY <2>1, <2>2, <2>3, <2>4, <2>5, <2>6, <2>7, <2>8 DEF Routes!Loop
<1>2. RouteFlags'
  BY Zenon DEF RoutesInv, RouteFlags, Routes!Loop, Routes!Close, Routes!LoopFails, Routes!LoopDone, Routes!LoopOpen,
     Routes!LoopRead, Routes!LoopReadFails, Routes!LoopParseFails, Routes!LoopEmit, Routes!LoopReturn
<1>3. read' \subseteq Routes!Messages
  <2>1. CASE Routes!LoopRead
    BY <1>s, <2>1 DEF Routes!LoopRead
  <2>2. CASE ~Routes!LoopRead
    BY <2>2 DEF RoutesInv, Checking, Routes!Loop, Routes!Close, Routes!LoopFails, Routes!LoopDone, Routes!LoopOpen,
       Routes!LoopReadFails, Routes!LoopParseFails, Routes!LoopEmit, Routes!LoopReturn
  <2> QED BY <2>1, <2>2
<1>4. failures' \in 0 .. MaxFailures /\ UNCHANGED <<route, seen, default, cpc, pollers, checks, result>>
  BY DEF RoutesInv, Checking, Routes!Loop, Routes!Close, Routes!LoopFails, Routes!LoopDone, Routes!LoopOpen,
     Routes!LoopRead, Routes!LoopReadFails, Routes!LoopParseFails, Routes!LoopEmit, Routes!LoopReturn
<1>5. Checking'
  BY <1>3, <1>4 DEF RoutesInv, Checking
<1> QED BY <1>1, <1>2, <1>5 DEF RoutesInv

(* The goroutines beside the loop only take themselves away. *)
LEMMA WatcherKeeps ==
  ASSUME RoutesInv, NEW f, Routes!WatcherCloses(f) \/ Routes!WatcherEnds(f) PROVE RoutesInv'
<1> USE DEF Routes!kernelVars, Routes!checkVars, Routes!loopVars, Routes!WatcherCloses, Routes!WatcherEnds
<1>1. (gone' => closed') /\ closed' = closed
  <2>0. gone => closed
    BY DEF RoutesInv, Sockets
  <2>1. CASE Routes!WatcherCloses(f)
    BY <2>0, <2>1
  <2>2. CASE Routes!WatcherEnds(f)
    BY <2>0, <2>2
  <2> QED BY <2>1, <2>2
<1>2. watchers' \subseteq watchers /\ UNCHANGED <<pc, file, inbox, opened, changes>>
  OBVIOUS
<1>3. Sockets'
  BY <1>1, <1>2 DEF RoutesInv, Sockets
<1>4. RouteFlags'
  BY Zenon DEF RoutesInv, RouteFlags
<1>5. Checking'
  BY DEF RoutesInv, Checking
<1> QED BY <1>3, <1>4, <1>5 DEF RoutesInv

LEMMA OneElement == ASSUME NEW S, NEW x \in S PROVE <<x>> \in Seq(S) /\ Len(<<x>>) <= 1
  OBVIOUS

LEMMA CheckKeeps ==
  ASSUME Routes!BoundAssumption, RoutesInv, Routes!Check \/ \E p \in pollers : Routes!Poller(p)
  PROVE  RoutesInv'
<1> USE DEF Routes!BoundAssumption, Routes!kernelVars, Routes!loopVars, Routes!Fails
<1>1. /\ UNCHANGED <<pc, file, inbox, read, gone, opened, closed, watchers, underNetworkExtension, route, changes>>
      /\ failures' \in {failures, failures + 1} /\ (failures' # failures => failures < MaxFailures)
  BY DEF Routes!Check, Routes!CheckTable, Routes!CheckSocket, Routes!CheckAnswered, Routes!CheckTimeout,
     Routes!CheckFails, Routes!CheckStore, Routes!Poller
<1>2. Sockets'
  BY <1>1 DEF RoutesInv, Sockets
<1>3. RouteFlags'
  BY <1>1, Zenon DEF RoutesInv, RouteFlags, Routes!Check, Routes!CheckTable, Routes!CheckSocket, Routes!CheckAnswered,
     Routes!CheckTimeout, Routes!CheckFails, Routes!CheckStore, Routes!Poller
<1>4. Checking'
  <2> USE DEF RoutesInv, Checking, Routes!Routes, Routes!MaxChecks
  <2>1. CASE Routes!CheckTable
    BY <1>1, <2>1 DEF Routes!CheckTable
  <2>2. CASE Routes!CheckSocket
    BY <1>1, <2>2 DEF Routes!CheckSocket
  <2>3. CASE Routes!CheckAnswered
    BY <1>1, <2>3 DEF Routes!CheckAnswered
  <2>4. CASE Routes!CheckTimeout
    BY <1>1, <2>4 DEF Routes!CheckTimeout
  <2>5. CASE Routes!CheckFails
    BY <1>1, <2>5 DEF Routes!CheckFails
  <2>6. CASE Routes!CheckStore
    BY <1>1, <2>6 DEF Routes!CheckStore
  <2>7. CASE \E p \in pollers : Routes!Poller(p)
    <3>1. result' = <<route>> \/ result' = result
      BY <2>7 DEF Routes!Poller
    <3>0. route \in Routes!Routes /\ result \in Seq(Routes!Routes) /\ Len(result) <= 1
      OBVIOUS
    <3>2. <<route>> \in Seq(Routes!Routes) /\ Len(<<route>>) <= 1
      BY ONLY <3>0, OneElement
    <3>3. result' \in Seq(Routes!Routes) /\ Len(result') <= 1
      BY ONLY <3>0, <3>1, <3>2
    <3> QED BY <1>1, <2>7, <3>3 DEF Routes!Poller
  <2> QED BY <2>1, <2>2, <2>3, <2>4, <2>5, <2>6, <2>7 DEF Routes!Check
<1> QED BY <1>2, <1>3, <1>4 DEF RoutesInv

LEMMA RoutesInvariant == Spec => [](part = "darwinMonitor" => RoutesInv)
<1> USE BoundsAssumed
<1>1. Routes!Init => RoutesInv
  BY InitRoutes
<1>2. RoutesInv /\ [Routes!Next]_(Routes!vars) => RoutesInv'
  <2>1. ASSUME RoutesInv, UNCHANGED Routes!vars PROVE RoutesInv'
    BY <2>1 DEF RoutesInv, Sockets, RouteFlags, Checking, Routes!vars, Routes!kernelVars, Routes!loopVars, Routes!checkVars
  <2> QED BY <2>1, NetworkChangesKeeps, LoopKeeps, WatcherKeeps, CheckKeeps DEF Routes!Next
<1>3. Init => (part = "darwinMonitor" => RoutesInv)
  BY <1>1 DEF Init
<1>4. (part = "darwinMonitor" => RoutesInv) /\ [Next]_vars => (part = "darwinMonitor" => RoutesInv)'
  <2> SUFFICES ASSUME part = "darwinMonitor" => RoutesInv, [Next]_vars, part' = "darwinMonitor" PROVE RoutesInv'
    OBVIOUS
  <2>1. part = "darwinMonitor" /\ [Routes!Next]_(Routes!vars)
    BY DEF Next, vars, Routes!vars, Routes!kernelVars, Routes!loopVars, Routes!checkVars,
           underNetworkExtension, route, pc, file, inbox, read, closed, watchers, gone,
           timer, cpc, seen, pollers, result, default, excused, opened, checks, changes,
           failures
  <2> QED BY <1>2, <2>1
<1> QED BY <1>3, <1>4, PTL DEF Spec

LEMMA RoutesHold == ASSUME Routes!BoundAssumption, RoutesInv PROVE Routes!TypeOK /\ Routes!NoUseAfterClose
<1>1. Len(inbox) \in Nat /\ (inbox # <<>> => opened > 0) /\ opened + Len(inbox) <= 2 * MaxChanges + MaxFailures + 1
      /\ (inbox = <<>> => Len(inbox) = 0)
  BY DEF RoutesInv, Sockets, Routes!BoundAssumption
<1>2. opened \in 0 .. Routes!MaxOpened /\ Len(inbox) <= 2 * MaxChanges
  BY <1>1 DEF RoutesInv, Sockets, Routes!MaxOpened, Routes!BoundAssumption
<1>3. file \in 0 .. Routes!MaxOpened /\ watchers \subseteq 1 .. Routes!MaxOpened
  <2>1. 0 .. opened \subseteq 0 .. Routes!MaxOpened /\ 1 .. opened \subseteq 1 .. Routes!MaxOpened
    BY <1>2 DEF Routes!MaxOpened, Routes!BoundAssumption
  <2> QED BY <2>1 DEF RoutesInv, Sockets
<1>4. Routes!NoUseAfterClose
  BY DEF RoutesInv, Sockets, Routes!NoUseAfterClose
<1>5. changes \in 0 .. MaxChanges
  BY DEF RoutesInv, Sockets, Routes!BoundAssumption
<1> QED BY <1>2, <1>3, <1>4, <1>5 DEF RoutesInv, Sockets, RouteFlags, Checking, Routes!TypeOK

-----------------------------------------------------------------------------
(* WinChange (internal/winipcfg, monitor_windows.go).  The argument: a      *)
(* callback is in a registry only as long as its user remembers it or is on *)
(* its way to unregister it, a goroutine is in it only as long as that or   *)
(* while Unregister waits, and nobody registers while addRemove is held.    *)
(* The bounds and their counters are shared with the part above.            *)
Calls == [kind : Changes!Kinds, step : {"none", "lock", "wait", "cancel"}]

ChangeTypes ==
  /\ callbacks \in [Changes!Kinds -> SUBSET Changes!Users] /\ handle \in [Changes!Kinds -> BOOLEAN]
  /\ addRemove \in [Changes!Kinds -> Changes!Users \cup {Nobody}]
  /\ upc \in [Changes!Users -> {"new", "second", "started", "undo", "failed", "close", "closed"}]
  /\ call \in [Changes!Users -> Calls]
  /\ listener \in [Changes!Users -> SUBSET Changes!Kinds]
  /\ unaware \in [Changes!Kinds -> SUBSET Changes!Users]
  /\ events \in Nat /\ events <= MaxEvents /\ errors \in Nat /\ errors <= MaxErrors

\* Every goroutine in a callback, and every call on its way, is of a change.
Runs ==
  /\ active \in [Changes!Kinds -> [Changes!Users -> Nat]] /\ arriving \in [Changes!Kinds -> Nat]
  /\ \A k \in Changes!Kinds : arriving[k] <= events
  /\ \A k \in Changes!Kinds, u \in Changes!Users : active[k][u] + arriving[k] <= events

\* Unregister has the lock, and cancels what nobody needs.
Locked ==
  /\ \A u \in Changes!Users : call[u].step \in {"wait", "cancel"} => addRemove[call[u].kind] = u
  /\ \A u \in Changes!Users : call[u].step = "cancel" => callbacks[call[u].kind] = {}

Subscribed ==
  \A k \in Changes!Kinds :
    /\ callbacks[k] # {} => handle[k]
    /\ handle[k] /\ errors = 0 /\ addRemove[k] = Nobody => callbacks[k] # {}

\* Whose callbacks are registered, and whose run
Owned ==
  \A k \in Changes!Kinds, u \in Changes!Users :
    /\ u \in callbacks[k] => k \in listener[u] \/ (call[u].kind = k /\ call[u].step = "lock")
    /\ active[k][u] > 0 => u \in callbacks[k] \/ (call[u].kind = k /\ call[u].step = "wait")

\* What a user remembers
Remembered ==
  /\ \A u \in Changes!Users : upc[u] \in {"new", "closed"} => listener[u] = {} /\ call[u].step = "none"
  /\ \A u \in Changes!Users : upc[u] = "second" => listener[u] \subseteq {"route"}
  /\ \A l \in Listeners : upc[l] = "started" => listener[l] \subseteq {"address"}
  /\ \A l \in Listeners : upc[l] = "close" => listener[l] = {}

ChangesInv == ChangeTypes /\ Runs /\ Locked /\ Subscribed /\ Owned /\ Remembered

LEMMA InitChanges == ASSUME Changes!UserAssumption, Changes!Init PROVE ChangesInv
<1> USE DEF Changes!UserAssumption, Changes!Init
<1>1. Changes!Idle \in Calls /\ Changes!Idle.step = "none"
  BY DEF Changes!Idle, Calls, Changes!Kinds
<1>2. ChangeTypes
  BY <1>1 DEF ChangeTypes
<1>3. Runs
  BY DEF Runs
<1>4. Locked /\ Subscribed /\ Owned /\ Remembered
  BY <1>1 DEF Locked, Subscribed, Owned, Remembered, Changes!Users
<1> QED BY <1>2, <1>3, <1>4 DEF ChangesInv

(* Register, with what the caller does next. *)
LEMMA RegisteredKeeps ==
  ASSUME Changes!UserAssumption, ChangesInv, NEW k \in Changes!Kinds, NEW u \in Changes!Users,
         NEW to \in {"second", "started"}, NEW ks \in SUBSET Changes!Kinds,
         Changes!Registered(k, u), upc' = [upc EXCEPT ![u] = to], Changes!Remembers(u, ks),
         k \in ks, listener[u] \subseteq ks,
         to = "second" => ks \subseteq {"route"},
         u \in Listeners => ks \subseteq {"address"}
  PROVE  ChangesInv'
<1> USE DEF ChangesInv, Changes!Registered, Changes!Remembers
<1>1. ChangeTypes'
  BY DEF ChangeTypes
<1>2. Runs'
  BY DEF Runs
<1>3. Locked'
  BY DEF Locked, ChangeTypes, Changes!UserAssumption, Calls
<1>4. Subscribed'
  BY DEF Subscribed, ChangeTypes
<1>5. Owned'
  BY DEF Owned, ChangeTypes
<1>6. Remembered'
  BY DEF Remembered, ChangeTypes
<1> QED BY <1>1, <1>2, <1>3, <1>4, <1>5, <1>6

(* The system refuses: an error more and a user elsewhere. *)
LEMMA NotRegisteredKeeps ==
  ASSUME Changes!UserAssumption, ChangesInv, NEW k \in Changes!Kinds, NEW u \in Changes!Users,
         NEW to \in {"failed", "undo", "closed"},
         Changes!NotRegistered(k, u), upc' = [upc EXCEPT ![u] = to], UNCHANGED listener,
         to = "closed" => upc[u] = "new"
  PROVE  ChangesInv'
<1> USE DEF ChangesInv, Changes!NotRegistered, Changes!registry, Changes!UserAssumption
<1>1. ChangeTypes'
  BY DEF ChangeTypes
<1>2. Runs' /\ Locked' /\ Owned'
  BY DEF Runs, Locked, Owned
<1>3. Subscribed'
  BY DEF Subscribed, ChangeTypes
<1>4. Remembered'
  BY DEF Remembered, ChangeTypes
<1> QED BY <1>1, <1>2, <1>3, <1>4

(* A user calls Unregister for k and forgets what is not in ks. *)
LEMMA CallsKeeps ==
  ASSUME Changes!UserAssumption, ChangesInv, NEW k \in Changes!Kinds, NEW u \in Changes!Users,
         NEW to \in {"failed", "close"}, NEW ks \in SUBSET Changes!Kinds,
         call[u] = Changes!Idle, Changes!CallsUnregister(u, k),
         upc' = [upc EXCEPT ![u] = to], Changes!Remembers(u, ks),
         listener[u] \ {k} \subseteq ks,
         u \in Listeners /\ to = "close" => ks = {},
         UNCHANGED <<callbacks, handle, addRemove, active, arriving, unaware, events, errors>>
  PROVE  ChangesInv'
<1> USE DEF ChangesInv, Changes!CallsUnregister, Changes!Remembers
<1>0. call'[u].kind = k /\ call'[u].step = "lock" /\ call[u].step = "none" /\ call[u] \in Calls
      /\ \A v \in Changes!Users \ {u} : call'[v] = call[v]
  BY DEF ChangeTypes, Changes!Idle
<1>1. ChangeTypes'
  BY DEF ChangeTypes, Calls
<1>2. Runs' /\ Subscribed'
  BY DEF Runs, Subscribed
<1>3. Locked'
  BY <1>0 DEF Locked
<1>4. Owned'
  <2>1. SUFFICES ASSUME NEW j \in Changes!Kinds, NEW v \in Changes!Users
        PROVE /\ v \in callbacks[j] => j \in listener'[v] \/ (call'[v].kind = j /\ call'[v].step = "lock")
              /\ active[j][v] > 0 => v \in callbacks[j] \/ (call'[v].kind = j /\ call'[v].step = "wait")
    BY DEF Owned
  <2>2. CASE v = u
    BY <1>0, <2>2 DEF Owned, ChangeTypes
  <2>3. CASE v # u
    BY <1>0, <2>3 DEF Owned, ChangeTypes
  <2> QED BY <2>2, <2>3
<1>5. Remembered'
  BY <1>0 DEF Remembered, ChangeTypes
<1> QED BY <1>1, <1>2, <1>3, <1>4, <1>5

(* A user goes on without touching a registry. *)
LEMMA GoesOnKeeps ==
  ASSUME ChangesInv, NEW u \in Changes!Users, NEW to \in {"close", "closed"},
         upc' = [upc EXCEPT ![u] = to], call[u] = Changes!Idle,
         IF to = "closed" THEN listener[u] = {} ELSE u \notin Listeners,
         UNCHANGED <<callbacks, handle, addRemove, active, arriving, call, listener, unaware, events, errors>>
  PROVE  ChangesInv'
<1> USE DEF ChangesInv
<1>1. ChangeTypes'
  BY DEF ChangeTypes
<1>2. Runs' /\ Locked' /\ Owned' /\ Subscribed'
  BY DEF Runs, Locked, Owned, Subscribed
<1>3. Remembered'
  BY DEF Remembered, ChangeTypes, Changes!Idle
<1> QED BY <1>1, <1>2, <1>3

LEMMA MonitorKeeps ==
  ASSUME Changes!UserAssumption, ChangesInv, NEW m \in Monitors, Changes!Start(m) \/ Changes!Close(m)
  PROVE  ChangesInv'
<1>0. /\ m \in Changes!Users /\ m \notin Listeners /\ listener[m] \subseteq Changes!Kinds
      /\ upc[m] = "new" => listener[m] = {}
      /\ upc[m] = "second" => listener[m] \subseteq {"route"}
      /\ {"route", "interface"} \subseteq Changes!Kinds /\ listener \in [Changes!Users -> SUBSET Changes!Kinds]
  BY DEF Changes!Users, Changes!Kinds, Changes!UserAssumption, ChangesInv, ChangeTypes, Remembered
<1> USE DEF Changes!GoTo, Changes!registry
<1>1. CASE /\ Changes!GoTo(m, "new", "second") /\ Changes!RegisterRouteChangeCallback(m)
           /\ Changes!Remembers(m, {"route"})
  BY <1>0, <1>1, RegisteredKeeps DEF Changes!RegisterRouteChangeCallback
<1>2. CASE /\ Changes!GoTo(m, "new", "failed") /\ Changes!RegisterRouteChangeCallbackFails(m)
           /\ UNCHANGED listener
  BY <1>0, <1>2, NotRegisteredKeeps DEF Changes!RegisterRouteChangeCallbackFails
<1>3. CASE /\ Changes!GoTo(m, "second", "started") /\ Changes!RegisterInterfaceChangeCallback(m)
           /\ Changes!Remembers(m, {"route", "interface"})
  BY <1>0, <1>3, RegisteredKeeps DEF Changes!RegisterInterfaceChangeCallback
<1>4. CASE /\ Changes!GoTo(m, "second", "undo") /\ Changes!RegisterInterfaceChangeCallbackFails(m)
           /\ UNCHANGED listener
  BY <1>0, <1>4, NotRegisteredKeeps DEF Changes!RegisterInterfaceChangeCallbackFails
<1>5. CASE Changes!StartUndo(m)
  <2>1. listener' = [listener EXCEPT ![m] = listener[m]]
    BY <1>0, <1>5 DEF Changes!StartUndo
  <2> QED BY <1>0, <1>5, <2>1, CallsKeeps DEF Changes!StartUndo, Changes!Remembers
<1>6. CASE Changes!Close(m)
  <2>1. CASE /\ upc[m] \in {"started", "failed"} /\ call[m] = Changes!Idle /\ upc' = [upc EXCEPT ![m] = "close"]
             /\ UNCHANGED <<callbacks, handle, addRemove, active, arriving, call, listener, unaware, events, errors>>
    BY <1>0, <2>1, GoesOnKeeps
  <2>2. CASE Changes!GoTo(m, "close", "close") /\ Changes!CloseNext(m, "route")
    BY <1>0, <2>2, CallsKeeps DEF Changes!CloseNext
  <2>3. CASE Changes!GoTo(m, "close", "close") /\ Changes!CloseNext(m, "interface")
    BY <1>0, <2>3, CallsKeeps DEF Changes!CloseNext
  <2>4. CASE /\ Changes!GoTo(m, "close", "closed") /\ listener[m] = {} /\ call[m] = Changes!Idle
             /\ UNCHANGED <<callbacks, handle, addRemove, active, arriving, call, listener, unaware, events, errors>>
    BY <1>0, <2>4, GoesOnKeeps
  <2> QED BY <1>6, <2>1, <2>2, <2>3, <2>4 DEF Changes!Close
<1> QED BY <1>1, <1>2, <1>3, <1>4, <1>5, <1>6 DEF Changes!Start, Changes!StartRoute, Changes!StartInterface

LEMMA ListenerKeeps ==
  ASSUME Changes!UserAssumption, ChangesInv, NEW l \in Listeners, Changes!ListenerRuns(l)
  PROVE  ChangesInv'
<1>0. /\ l \in Changes!Users /\ listener[l] \subseteq Changes!Kinds /\ "address" \in Changes!Kinds
      /\ upc[l] = "new" => listener[l] = {}
      /\ upc[l] = "started" => listener[l] \subseteq {"address"}
      /\ upc[l] = "close" => listener[l] = {}
  BY DEF Changes!Users, Changes!Kinds, ChangesInv, ChangeTypes, Remembered
<1> USE DEF Changes!GoTo, Changes!registry
<1>1. CASE /\ Changes!GoTo(l, "new", "started") /\ Changes!RegisterUnicastAddressChangeCallback(l)
           /\ Changes!Remembers(l, {"address"})
  BY <1>0, <1>1, RegisteredKeeps DEF Changes!RegisterUnicastAddressChangeCallback
<1>2. CASE /\ Changes!GoTo(l, "new", "closed") /\ Changes!RegisterUnicastAddressChangeCallbackFails(l)
           /\ UNCHANGED listener
  BY <1>0, <1>2, NotRegisteredKeeps DEF Changes!RegisterUnicastAddressChangeCallbackFails
<1>3. CASE Changes!GoTo(l, "started", "close") /\ Changes!CloseNext(l, "address")
  BY <1>0, <1>3, CallsKeeps DEF Changes!CloseNext
<1>4. CASE /\ Changes!GoTo(l, "close", "closed") /\ call[l] = Changes!Idle
           /\ UNCHANGED <<callbacks, handle, addRemove, active, arriving, call, listener, unaware, events, errors>>
  BY <1>0, <1>4, GoesOnKeeps
<1> QED BY <1>1, <1>2, <1>3, <1>4 DEF Changes!ListenerRuns

(* Unregister: what each of its steps does to the call of its user. *)
LEMMA StepOf ==
  ASSUME ChangeTypes, NEW k \in Changes!Kinds, NEW u \in Changes!Users,
         NEW from, NEW to \in {"none", "wait", "cancel"}, Changes!Step(u, k, from, to)
  PROVE  /\ call[u].kind = k /\ call[u].step = from
         /\ call' \in [Changes!Users -> Calls]
         /\ call'[u].step = to /\ (to # "none" => call'[u].kind = k)
         /\ \A v \in Changes!Users \ {u} : call'[v] = call[v]
  BY DEF Changes!Step, ChangeTypes, Calls, Changes!Idle, Changes!Kinds

LEMMA DeleteKeeps ==
  ASSUME Changes!UserAssumption, ChangesInv, NEW k \in Changes!Kinds, NEW u \in Changes!Users,
         Changes!UnregisterDelete(k, u)
  PROVE  ChangesInv'
<1>0. ChangeTypes /\ Runs /\ Locked /\ Subscribed /\ Owned /\ Remembered
  BY DEF ChangesInv
<1>1. /\ call[u].kind = k /\ call[u].step = "lock" /\ call' \in [Changes!Users -> Calls]
      /\ call'[u].step = "wait" /\ call'[u].kind = k
      /\ \A v \in Changes!Users \ {u} : call'[v] = call[v]
  BY <1>0, StepOf DEF Changes!UnregisterDelete
<1> USE DEF Changes!UnregisterDelete, Changes!UserAssumption
<1>2. ChangeTypes'
  BY <1>0, <1>1 DEF ChangeTypes
<1>3. Runs'
  BY <1>0 DEF Runs
<1>4. Locked'
  <2> SUFFICES ASSUME NEW v \in Changes!Users
              PROVE /\ call'[v].step \in {"wait", "cancel"} => addRemove'[call'[v].kind] = v
                    /\ call'[v].step = "cancel" => callbacks'[call'[v].kind] = {}
    BY DEF Locked
  <2>0. /\ call[v].kind \in Changes!Kinds /\ v # Nobody
        /\ addRemove \in [Changes!Kinds -> Changes!Users \cup {Nobody}]
        /\ callbacks \in [Changes!Kinds -> SUBSET Changes!Users]
        /\ call[v].step \in {"wait", "cancel"} => addRemove[call[v].kind] = v
        /\ call[v].step = "cancel" => callbacks[call[v].kind] = {}
    BY <1>0 DEF ChangeTypes, Calls, Locked
  <2>1. CASE v = u
    BY <1>1, <2>0, <2>1
  <2>2. CASE v # u
    BY <1>1, <2>0, <2>2
  <2> QED BY <2>1, <2>2
<1>5. Subscribed'
  BY <1>0 DEF Subscribed, ChangeTypes
<1>6. Owned'
  BY <1>0, <1>1 DEF Owned, ChangeTypes
<1>7. Remembered'
  BY <1>0, <1>1 DEF Remembered, ChangeTypes
<1> QED BY <1>2, <1>3, <1>4, <1>5, <1>6, <1>7 DEF ChangesInv

(* The steps after the deletion: the callbacks stay, the lock is kept or given
   back, and the subscription is kept, or given up when nobody needs it. *)
LEMMA AfterDelete ==
  ASSUME Changes!UserAssumption, ChangesInv, NEW k \in Changes!Kinds, NEW u \in Changes!Users,
         NEW from \in {"wait", "cancel"}, NEW to \in {"none", "cancel"}, Changes!Step(u, k, from, to),
         from = "wait" => active[k][u] = 0,
         to = "cancel" => callbacks[k] = {} /\ UNCHANGED addRemove,
         to = "none" => addRemove' = [addRemove EXCEPT ![k] = Nobody],
         from = "wait" /\ to = "none" => ~Changes!RemoveIt(k),
         from = "wait" => UNCHANGED handle,
         from = "cancel" => handle' = [handle EXCEPT ![k] = FALSE] \/ (UNCHANGED handle /\ errors' # 0),
         errors' \in Nat, errors' <= MaxErrors, errors' = 0 => errors = 0,
         UNCHANGED <<callbacks, active, arriving, upc, listener, unaware, events>>
  PROVE  ChangesInv'
<1>0. ChangeTypes /\ Runs /\ Locked /\ Subscribed /\ Owned /\ Remembered
  BY DEF ChangesInv
<1>1. /\ call[u].kind = k /\ call[u].step = from /\ call' \in [Changes!Users -> Calls]
      /\ call'[u].step = to /\ (to # "none" => call'[u].kind = k)
      /\ \A v \in Changes!Users \ {u} : call'[v] = call[v]
  BY <1>0, StepOf
<1>2. addRemove[k] = u /\ (from = "cancel" => callbacks[k] = {})
  BY <1>0, <1>1 DEF Locked
<1> USE DEF Changes!UserAssumption
<1>3. ChangeTypes'
  BY <1>0, <1>1 DEF ChangeTypes
<1>4. Runs'
  BY <1>0 DEF Runs
<1>5. Locked'
  <2> SUFFICES ASSUME NEW v \in Changes!Users
              PROVE /\ call'[v].step \in {"wait", "cancel"} => addRemove'[call'[v].kind] = v
                    /\ call'[v].step = "cancel" => callbacks'[call'[v].kind] = {}
    BY DEF Locked
  <2>0. /\ call[v].kind \in Changes!Kinds /\ v # Nobody
        /\ addRemove \in [Changes!Kinds -> Changes!Users \cup {Nobody}]
        /\ callbacks \in [Changes!Kinds -> SUBSET Changes!Users]
        /\ call[v].step \in {"wait", "cancel"} => addRemove[call[v].kind] = v
        /\ call[v].step = "cancel" => callbacks[call[v].kind] = {}
    BY <1>0 DEF ChangeTypes, Calls, Locked
  <2>1. CASE v = u
    BY <1>1, <1>2, <2>0, <2>1
  <2>2. CASE v # u
    BY <1>1, <1>2, <2>0, <2>2
  <2> QED BY <2>1, <2>2
<1>6. Subscribed'
  BY <1>0, <1>2 DEF Subscribed, ChangeTypes, Changes!RemoveIt
<1>7. Owned'
  BY <1>0, <1>1 DEF Owned, ChangeTypes, Runs
<1>8. Remembered'
  BY <1>0, <1>1 DEF Remembered, ChangeTypes
<1> QED BY <1>3, <1>4, <1>5, <1>6, <1>7, <1>8 DEF ChangesInv

LEMMA UnregisterKeeps ==
  ASSUME Changes!UserAssumption, ChangesInv, NEW k \in Changes!Kinds, NEW u \in Changes!Users,
         Changes!Unregister(k, u)
  PROVE  ChangesInv'
<1>0. errors \in Nat /\ errors <= MaxErrors
  BY DEF ChangesInv, ChangeTypes
<1>1. CASE Changes!UnregisterDelete(k, u)
  BY <1>1, DeleteKeeps
<1>2. CASE Changes!UnregisterWait(k, u)
  <2>1. CASE Changes!RemoveIt(k) /\ Changes!Step(u, k, "wait", "cancel") /\ UNCHANGED addRemove
    BY <1>0, <1>2, <2>1, AfterDelete DEF Changes!UnregisterWait, Changes!Waited, Changes!RemoveIt
  <2>2. CASE /\ ~Changes!RemoveIt(k) /\ Changes!Step(u, k, "wait", "none")
             /\ addRemove' = [addRemove EXCEPT ![k] = Nobody]
    BY <1>0, <1>2, <2>2, AfterDelete DEF Changes!UnregisterWait, Changes!Waited
  <2> QED BY <1>2, <2>1, <2>2 DEF Changes!UnregisterWait
<1>3. CASE Changes!UnregisterCancel(k, u)
  BY <1>0, <1>3, AfterDelete DEF Changes!UnregisterCancel
<1>4. CASE Changes!UnregisterFails(k, u)
  <2>1. errors' \in Nat /\ errors' <= MaxErrors /\ errors' # 0
    BY <1>0, <1>4 DEF Changes!UnregisterFails, Changes!UserAssumption
  <2> QED BY <1>4, <2>1, AfterDelete DEF Changes!UnregisterFails
<1> QED BY <1>1, <1>2, <1>3, <1>4 DEF Changes!Unregister

(* The system announces a change; its calls take the mutex; callbacks return. *)
LEMMA SystemKeeps ==
  ASSUME Changes!UserAssumption, ChangesInv, NEW k \in Changes!Kinds,
         Changes!Change(k) \/ Changes!Changed(k)
  PROVE  ChangesInv'
<1>0. ChangeTypes /\ Runs /\ Locked /\ Subscribed /\ Owned /\ Remembered
  BY DEF ChangesInv
<1> USE DEF Changes!Change, Changes!Changed, Changes!registry
<1>1. ChangeTypes'
  BY <1>0 DEF ChangeTypes, Changes!UserAssumption
<1>2. Runs'
  <2>1. CASE Changes!Change(k)
    BY <1>0, <2>1 DEF Runs, ChangeTypes
  <2>2. CASE Changes!Changed(k)
    BY <1>0, <2>2 DEF Runs, ChangeTypes
  <2> QED BY <2>1, <2>2
<1>3. Locked' /\ Subscribed' /\ Remembered'
  BY <1>0 DEF Locked, Subscribed, Remembered
<1>4. Owned'
  <2>1. CASE Changes!Change(k)
    BY <1>0, <2>1 DEF Owned
  <2>2. CASE Changes!Changed(k)
    BY <1>0, <2>2 DEF Owned, Runs
  <2> QED BY <2>1, <2>2
<1> QED BY <1>1, <1>2, <1>3, <1>4 DEF ChangesInv

LEMMA ReturnKeeps ==
  ASSUME Changes!UserAssumption, ChangesInv, NEW k \in Changes!Kinds, NEW u \in Changes!Users,
         Changes!CallbackReturns(k, u)
  PROVE  ChangesInv'
<1>0. ChangeTypes /\ Runs /\ Locked /\ Subscribed /\ Owned /\ Remembered
  BY DEF ChangesInv
<1> USE DEF Changes!CallbackReturns, Changes!registry
<1>1. ChangeTypes' /\ Locked' /\ Subscribed' /\ Remembered'
  BY <1>0 DEF ChangeTypes, Locked, Subscribed, Remembered
<1>2. Runs'
  <2>1. active[k][u] - 1 \in Nat
    BY <1>0 DEF Runs
  <2>2. active' \in [Changes!Kinds -> [Changes!Users -> Nat]]
    BY <1>0, <2>1 DEF Runs
  <2>3. \A j \in Changes!Kinds, v \in Changes!Users : active'[j][v] <= active[j][v]
    BY <1>0 DEF Runs
  <2> QED BY <1>0, <2>2, <2>3 DEF Runs, ChangeTypes
<1>3. Owned'
  BY <1>0 DEF Owned, Runs
<1> QED BY <1>1, <1>2, <1>3 DEF ChangesInv

LEMMA ChangesInvariant == Spec => [](part = "winChange" => ChangesInv)
<1> USE UsersAssumed
<1>1. Changes!Init => ChangesInv
  BY InitChanges
<1>2. ChangesInv /\ [Changes!Next]_(Changes!vars) => ChangesInv'
  <2>1. ASSUME ChangesInv, UNCHANGED Changes!vars PROVE ChangesInv'
    BY <2>1 DEF ChangesInv, ChangeTypes, Runs, Locked, Subscribed, Owned, Remembered, Changes!vars, Changes!registry
  <2>2. {"route", "interface", "address"} = Changes!Kinds
    BY DEF Changes!Kinds
  <2>3. ASSUME ChangesInv, NEW u \in Changes!Users, Changes!UnregisterOf(u) PROVE ChangesInv'
    BY <2>2, <2>3, UnregisterKeeps DEF Changes!UnregisterOf, Changes!UnregisterRoute,
       Changes!UnregisterInterface, Changes!UnregisterUnicastAddress
  <2>4. ASSUME ChangesInv, Changes!routeChanged \/ Changes!interfaceChanged \/ Changes!unicastAddressChanged
        PROVE ChangesInv'
    BY <2>2, <2>4, SystemKeeps DEF Changes!routeChanged, Changes!interfaceChanged, Changes!unicastAddressChanged
  <2> QED BY <2>1, <2>3, <2>4, MonitorKeeps, ListenerKeeps, SystemKeeps, ReturnKeeps DEF Changes!Next
<1>3. Init => (part = "winChange" => ChangesInv)
  BY <1>1 DEF Init
<1>4. (part = "winChange" => ChangesInv) /\ [Next]_vars => (part = "winChange" => ChangesInv)'
  <2> SUFFICES ASSUME part = "winChange" => ChangesInv, [Next]_vars, part' = "winChange" PROVE ChangesInv'
    OBVIOUS
  <2>1. part = "winChange" /\ [Changes!Next]_(Changes!vars)
    BY DEF Next, vars, Changes!vars, Changes!registry,
           callbacks, handle, addRemove, active, arriving, upc, call, listener, unaware,
           events, errors
  <2> QED BY <1>2, <2>1
<1> QED BY <1>3, <1>4, PTL DEF Spec

LEMMA ChangesHold == ASSUME Changes!UserAssumption, ChangesInv PROVE Changes!TypeOK /\ Changes!NoUseAfterClose
<1>1. active \in [Changes!Kinds -> [Changes!Users -> 0 .. MaxEvents]]
  <2>1. \A k \in Changes!Kinds : active[k] \in [Changes!Users -> 0 .. MaxEvents]
    BY DEF ChangesInv, Runs, ChangeTypes, Changes!UserAssumption
  <2> QED BY <2>1 DEF ChangesInv, Runs
<1>2. arriving \in [Changes!Kinds -> 0 .. MaxEvents] /\ events \in 0 .. MaxEvents /\ errors \in 0 .. MaxErrors
  BY DEF ChangesInv, Runs, ChangeTypes, Changes!UserAssumption
<1>3. Changes!TypeOK
  BY <1>1, <1>2 DEF ChangesInv, ChangeTypes, Calls, Changes!TypeOK
<1>4. Changes!QuietAfterClose
  BY DEF ChangesInv, Owned, Remembered, Runs, Changes!QuietAfterClose
<1>5. Changes!SubscribedIffNeeded
  BY DEF ChangesInv, Subscribed, Changes!SubscribedIffNeeded
<1> QED BY <1>3, <1>4, <1>5 DEF Changes!NoUseAfterClose

(* Nothing is used, called or left after Close, for any number of goroutines,
   users and changes: no callback of a closed monitor runs and the system's
   subscription goes with its last user (winipcfg), no goroutine touches a
   Wintun session after its end (NativeTun.Close), and the loop of the macOS
   monitor holds no socket between messages or when it has ended. *)
THEOREM NoUseTheorem == Spec => []NoUseAfterClose
<1>1. ChangesInv => Changes!TypeOK /\ Changes!NoUseAfterClose
  BY UsersAssumed, ChangesHold
<1>2. RoutesInv => Routes!TypeOK /\ Routes!NoUseAfterClose
  BY BoundsAssumed, RoutesHold
<1>3. /\ part = "winChange" => ChangesInv
      /\ part = "winSession" => SessionInv
      /\ part = "darwinMonitor" => RoutesInv
      => NoUseAfterClose
  BY <1>1, <1>2, SessionHolds DEF NoUseAfterClose
<1> QED BY <1>3, ChangesInvariant, SessionInvariant, RoutesInvariant, PTL

-----------------------------------------------------------------------------
(* DefaultRoute (checkUpdate of three platforms).  What the rules and       *)
(* routes amount to is a fold over the tables and stays opaque here: the    *)
(* argument is the same whatever a check has found.                         *)

LEMMA ToldInvariant == Spec => [](part = "defaultRoute" => Default!DefaultIsTold)
<1> USE DEF Default!DefaultIsTold, Default!ToldTheDefault, Default!VPNChangeIsTold, Default!fixed,
            Default!monitor, Default!subscriber
<1>1. Default!Init => Default!DefaultIsTold
  BY DEF Default!Init
<1>2. Default!DefaultIsTold /\ [Default!Next]_(Default!vars) => Default!DefaultIsTold'
  <2> SUFFICES ASSUME Default!DefaultIsTold, [Default!Next]_(Default!vars) PROVE Default!DefaultIsTold'
    OBVIOUS
  <2>1. CASE Default!NetworkChanges
    BY <2>1 DEF Default!NetworkChanges
  <2>2. CASE Default!CheckFailsFirst
    BY <2>2 DEF Default!CheckFailsFirst
  <2>3. CASE Default!CheckFailsLate
    BY <2>3 DEF Default!CheckFailsLate
  <2>4. CASE Default!CheckNoRoute
    <3>1. told' = defaultInterface'
      <4>1. CASE noRoute
        BY <2>4, <4>1 DEF Default!CheckNoRoute
      <4>2. CASE ~noRoute
        BY <2>4, <4>2 DEF Default!CheckNoRoute
      <4> QED BY <4>1, <4>2
    <3>2. ~untold' => toldVPN' = androidVPNEnabled'
      BY <2>4 DEF Default!CheckNoRoute
    <3> QED BY <3>1, <3>2
  <2>5. CASE Default!CheckFinds
    BY <2>5 DEF Default!CheckFinds, Default!Emits
  <2>6. CASE UNCHANGED Default!vars
    BY <2>6 DEF Default!vars
  <2> QED BY <2>1, <2>2, <2>3, <2>4, <2>5, <2>6 DEF Default!Next, Default!Check
<1>3. Init => (part = "defaultRoute" => Default!DefaultIsTold)
  BY <1>1 DEF Init
<1>4. (part = "defaultRoute" => Default!DefaultIsTold) /\ [Next]_vars => (part = "defaultRoute" => Default!DefaultIsTold)'
  <2> SUFFICES ASSUME part = "defaultRoute" => Default!DefaultIsTold, [Next]_vars, part' = "defaultRoute" PROVE Default!DefaultIsTold'
    OBVIOUS
  <2>1. part = "defaultRoute" /\ [Default!Next]_(Default!vars)
    BY DEF Next, vars, Default!vars, Default!fixed, Default!monitor, Default!subscriber,
           platform, override, table, defaultInterface, androidVPNEnabled, noRoute, told,
           toldVPN, due, untold, updates, outages
  <2> QED BY <1>2, <2>1
<1> QED BY <1>3, <1>4, PTL DEF Spec

(* What a subscriber was told last is the default interface, and on Android
   the state of the VPN, whatever sequence of routes, failures and recoveries
   there has been (checkUpdate, postCheckUpdate). *)
THEOREM DefaultTheorem == Spec => []DefaultIsTold
<1>1. (part = "defaultRoute" => Default!DefaultIsTold) => DefaultIsTold
  BY DEF DefaultIsTold
<1> QED BY <1>1, ToldInvariant, PTL

-----------------------------------------------------------------------------
(* WinSetup (tun_windows.go).  The argument: configure takes its steps in   *)
(* the order of their ranks, so what is done ranks below what is left, and  *)
(* no filter blocks before those that permit are there.                     *)
Names == {"address4", "dns4", "address6", "dns6", "routes", "flush", "options4", "options6",
          "engine", "sublayer", "permit4", "permit6", "ndp", "block6", "tun4", "tun6",
          "blockDNS4", "blockDNS6"}

Rank(x) ==
  CASE x = "address4" -> 1 [] x = "dns4" -> 2 [] x = "address6" -> 3 [] x = "dns6" -> 4
    [] x = "routes" -> 5 [] x = "flush" -> 6 [] x = "options4" -> 7 [] x = "options6" -> 8
    [] x = "engine" -> 9 [] x = "sublayer" -> 10 [] x = "permit4" -> 11 [] x = "permit6" -> 12
    [] x = "ndp" -> 13 [] x = "block6" -> 14 [] x = "tun4" -> 15 [] x = "tun6" -> 16
    [] x = "blockDNS4" -> 17 [] x = "blockDNS6" -> 18

In(x, s) == \E i \in 1 .. Len(s) : s[i] = x

\* A list of steps in ascending order whose ranks are from lo to hi
Ascending(s, lo, hi) ==
  /\ s \in Seq(Names)
  /\ \A i \in 1 .. Len(s) : lo <= Rank(s[i]) /\ Rank(s[i]) <= hi
  /\ \A i, j \in 1 .. Len(s) : i < j => Rank(s[i]) < Rank(s[j])

LEMMA RankType == \A x \in Names : Rank(x) \in 1 .. 18
  BY DEF Names, Rank

LEMMA EmptySteps == ASSUME NEW lo \in Nat, NEW hi \in Nat PROVE Ascending(<<>>, lo, hi) /\ \A x : ~In(x, <<>>)
  BY DEF Ascending, In

LEMMA OneStep ==
  ASSUME NEW a \in Names, NEW lo \in Nat, NEW hi \in Nat, lo <= Rank(a), Rank(a) <= hi
  PROVE  Ascending(<<a>>, lo, hi) /\ \A x : In(x, <<a>>) <=> x = a
  BY DEF Ascending, In

LEMMA TwoSteps ==
  ASSUME NEW a \in Names, NEW b \in Names, NEW lo \in Nat, NEW hi \in Nat,
         lo <= Rank(a), Rank(a) < Rank(b), Rank(b) <= hi
  PROVE  Ascending(<<a, b>>, lo, hi) /\ \A x : In(x, <<a, b>>) <=> x = a \/ x = b
<1> DEFINE s == <<a, b>>
<1>1. s \in Seq(Names) /\ Len(s) = 2 /\ s[1] = a /\ s[2] = b
  OBVIOUS
<1> HIDE DEF s
<1>2. \A i \in 1 .. 2 : i = 1 \/ i = 2
  OBVIOUS
<1>3. Rank(a) \in Int /\ Rank(b) \in Int
  BY RankType
<1>4. Ascending(s, lo, hi)
  BY <1>1, <1>2, <1>3 DEF Ascending
<1>5. \A x : In(x, s) <=> x = a \/ x = b
  BY <1>1, <1>2 DEF In
<1> QED BY <1>4, <1>5 DEF s

LEMMA Append2 ==
  ASSUME NEW lo \in Nat, NEW mid \in Nat, NEW top \in Nat, NEW hi \in Nat, mid < top, lo <= top, mid <= hi,
         NEW s, NEW t, Ascending(s, lo, mid), Ascending(t, top, hi)
  PROVE  Ascending(s \o t, lo, hi) /\ \A x : In(x, s \o t) <=> In(x, s) \/ In(x, t)
<1>1. /\ s \in Seq(Names) /\ t \in Seq(Names) /\ Len(s) \in Nat /\ Len(t) \in Nat
  BY DEF Ascending
<1> DEFINE u == s \o t
<1>2. /\ u \in Seq(Names) /\ Len(u) = Len(s) + Len(t)
      /\ \A i \in 1 .. Len(s) : u[i] = s[i] /\ i \in 1 .. Len(u)
      /\ \A i \in 1 .. Len(u) : i > Len(s) => u[i] = t[i - Len(s)] /\ i - Len(s) \in 1 .. Len(t)
      /\ \A i \in 1 .. Len(t) : u[i + Len(s)] = t[i] /\ i + Len(s) \in 1 .. Len(u)
  BY <1>1
<1> HIDE DEF u
<1>3. \A i \in 1 .. Len(u) : i \in 1 .. Len(s) \/ i > Len(s)
  BY <1>1, <1>2
<1>r. /\ \A i \in 1 .. Len(s) : Rank(s[i]) \in Int /\ lo <= Rank(s[i]) /\ Rank(s[i]) <= mid
      /\ \A i \in 1 .. Len(t) : Rank(t[i]) \in Int /\ top <= Rank(t[i]) /\ Rank(t[i]) <= hi
  <2>1. \A i \in 1 .. Len(s) : s[i] \in Names /\ lo <= Rank(s[i]) /\ Rank(s[i]) <= mid
    BY <1>1 DEF Ascending
  <2>2. \A i \in 1 .. Len(t) : t[i] \in Names /\ top <= Rank(t[i]) /\ Rank(t[i]) <= hi
    BY <1>1 DEF Ascending
  <2>3. \A x \in Names : Rank(x) \in Int
    BY RankType
  <2> QED BY <2>1, <2>2, <2>3
<1>s. /\ \A i, j \in 1 .. Len(s) : i < j => Rank(s[i]) < Rank(s[j])
      /\ \A i, j \in 1 .. Len(t) : i < j => Rank(t[i]) < Rank(t[j])
  BY DEF Ascending
<1>4. ASSUME NEW i \in 1 .. Len(u) PROVE lo <= Rank(u[i]) /\ Rank(u[i]) <= hi
  <2>1. CASE i \in 1 .. Len(s)
    BY <1>2, <1>r, <2>1
  <2>2. CASE i > Len(s)
    <3>1. u[i] = t[i - Len(s)] /\ i - Len(s) \in 1 .. Len(t)
      BY <1>2, <2>2
    <3> QED BY <1>r, <3>1
  <2> QED BY <1>3, <2>1, <2>2
<1>5. ASSUME NEW i \in 1 .. Len(u), NEW j \in 1 .. Len(u), i < j PROVE Rank(u[i]) < Rank(u[j])
  <2>1. CASE j \in 1 .. Len(s)
    <3>1. i \in 1 .. Len(s)
      BY <1>5, <2>1
    <3> QED BY <1>2, <1>5, <1>s, <2>1, <3>1
  <2>2. CASE j > Len(s) /\ i \in 1 .. Len(s)
    <3>1. u[i] = s[i] /\ u[j] = t[j - Len(s)] /\ j - Len(s) \in 1 .. Len(t)
      BY <1>2, <2>2
    <3> QED BY <1>r, <2>2, <3>1
  <2>3. CASE i > Len(s)
    <3>1. j > Len(s) /\ i - Len(s) < j - Len(s)
      BY <1>1, <1>5, <2>3
    <3>2. /\ u[i] = t[i - Len(s)] /\ i - Len(s) \in 1 .. Len(t)
          /\ u[j] = t[j - Len(s)] /\ j - Len(s) \in 1 .. Len(t)
      BY <1>2, <2>3, <3>1
    <3> QED BY <1>s, <3>1, <3>2
  <2> QED BY <1>3, <2>1, <2>2, <2>3
<1>6. Ascending(u, lo, hi)
  BY <1>2, <1>4, <1>5 DEF Ascending
<1>7. ASSUME NEW x PROVE In(x, u) <=> In(x, s) \/ In(x, t)
  <2>1. ASSUME In(x, u) PROVE In(x, s) \/ In(x, t)
    <3>1. PICK i \in 1 .. Len(u) : u[i] = x
      BY <2>1 DEF In
    <3> QED BY <1>2, <1>3, <3>1 DEF In
  <2>2. ASSUME In(x, s) PROVE In(x, u)
    BY <1>2, <2>2 DEF In
  <2>3. ASSUME In(x, t) PROVE In(x, u)
    <3>1. PICK i \in 1 .. Len(t) : t[i] = x
      BY <2>3 DEF In
    <3> QED BY <1>2, <3>1 DEF In
  <2> QED BY <2>1, <2>2, <2>3
<1> QED BY <1>6, <1>7 DEF u

LEMMA TailSteps ==
  ASSUME NEW s, Ascending(s, 1, 18), s # <<>>
  PROVE  /\ Ascending(Tail(s), 1, 18) /\ Head(s) \in Names
         /\ \A x : In(x, s) <=> x = Head(s) \/ In(x, Tail(s))
         /\ \A x : In(x, Tail(s)) => Rank(Head(s)) < Rank(x)
<1>1. /\ s \in Seq(Names) /\ Len(s) \in Nat \ {0} /\ Head(s) = s[1]
      /\ Tail(s) \in Seq(Names) /\ Len(Tail(s)) = Len(s) - 1
      /\ \A i \in 1 .. Len(Tail(s)) : Tail(s)[i] = s[i + 1] /\ i + 1 \in 1 .. Len(s)
  BY DEF Ascending
<1>2. Ascending(Tail(s), 1, 18)
  BY <1>1 DEF Ascending
<1>3. ASSUME NEW x PROVE In(x, s) <=> x = Head(s) \/ In(x, Tail(s))
  <2>1. ASSUME NEW i \in 1 .. Len(s), s[i] = x PROVE x = Head(s) \/ In(x, Tail(s))
    <3>1. CASE i = 1
      BY <1>1, <2>1, <3>1
    <3>2. CASE i # 1
      <4>1. i - 1 \in 1 .. Len(Tail(s)) /\ (i - 1) + 1 = i
        BY <1>1, <3>2
      <4>2. Tail(s)[i - 1] = x
        BY <1>1, <2>1, <4>1
      <4> QED BY <4>1, <4>2 DEF In
    <3> QED BY <3>1, <3>2
  <2>2. ASSUME x = Head(s) PROVE In(x, s)
    BY <1>1, <2>2 DEF In
  <2>3. ASSUME In(x, Tail(s)) PROVE In(x, s)
    BY <1>1, <2>3 DEF In
  <2> QED BY <2>1, <2>2, <2>3 DEF In
<1>4. ASSUME NEW x, In(x, Tail(s)) PROVE Rank(Head(s)) < Rank(x)
  <2>1. PICK i \in 1 .. Len(Tail(s)) : Tail(s)[i] = x
    BY <1>4 DEF In
  <2>2. s[i + 1] = x /\ i + 1 \in 1 .. Len(s) /\ 1 < i + 1 /\ 1 \in 1 .. Len(s)
    BY <1>1, <2>1
  <2> QED BY <1>1, <2>2 DEF Ascending
<1>5. Head(s) \in Names
  BY <1>1
<1> QED BY <1>2, <1>3, <1>4, <1>5

(* The steps of configure are in the order of their ranks, and which they are. *)
LEMMA FilterStepsOf ==
  ASSUME NEW o \in Filters!OptionsSet
  PROVE  /\ Ascending(Filters!FilterSteps(o), 11, 18)
         /\ \A x : In(x, Filters!FilterSteps(o)) <=>
              \/ x \in {"permit4", "permit6"}
              \/ 6 \notin o.inet /\ x \in {"ndp", "block6"}
              \/ 4 \in o.inet /\ x = "tun4"
              \/ 6 \in o.inet /\ x = "tun6"
              \/ o.dns = "hijack" /\ x \in {"blockDNS4", "blockDNS6"}
<1> DEFINE a == <<"permit4", "permit6">>
           b == Filters!When(6 \notin o.inet, <<"ndp", "block6">>)
           c == Filters!When(4 \in o.inet, <<"tun4">>)
           d == Filters!When(6 \in o.inet, <<"tun6">>)
           e == Filters!When(o.dns = "hijack", <<"blockDNS4", "blockDNS6">>)
<1>r. /\ Rank("permit4") = 11 /\ Rank("permit6") = 12 /\ Rank("ndp") = 13 /\ Rank("block6") = 14
      /\ Rank("tun4") = 15 /\ Rank("tun6") = 16 /\ Rank("blockDNS4") = 17 /\ Rank("blockDNS6") = 18
      /\ {"permit4", "permit6", "ndp", "block6", "tun4", "tun6", "blockDNS4", "blockDNS6"} \subseteq Names
  BY DEF Rank, Names
<1>1. Ascending(a, 11, 12) /\ \A x : In(x, a) <=> x = "permit4" \/ x = "permit6"
  BY <1>r, TwoSteps
<1>2. Ascending(b, 13, 14) /\ \A x : In(x, b) <=> 6 \notin o.inet /\ (x = "ndp" \/ x = "block6")
  <2>1. Ascending(<<"ndp", "block6">>, 13, 14) /\ \A x : In(x, <<"ndp", "block6">>) <=> x = "ndp" \/ x = "block6"
    BY <1>r, TwoSteps
  <2>2. (6 \notin o.inet => b = <<"ndp", "block6">>) /\ (~(6 \notin o.inet) => b = <<>>)
    BY DEF Filters!When
  <2> HIDE DEF b
  <2> QED BY <2>1, <2>2, EmptySteps
<1>3. Ascending(c, 15, 15) /\ \A x : In(x, c) <=> 4 \in o.inet /\ x = "tun4"
  <2>1. Ascending(<<"tun4">>, 15, 15) /\ \A x : In(x, <<"tun4">>) <=> x = "tun4"
    BY <1>r, OneStep
  <2>2. (4 \in o.inet => c = <<"tun4">>) /\ (~(4 \in o.inet) => c = <<>>)
    BY DEF Filters!When
  <2> HIDE DEF c
  <2> QED BY <2>1, <2>2, EmptySteps
<1>4. Ascending(d, 16, 16) /\ \A x : In(x, d) <=> 6 \in o.inet /\ x = "tun6"
  <2>1. Ascending(<<"tun6">>, 16, 16) /\ \A x : In(x, <<"tun6">>) <=> x = "tun6"
    BY <1>r, OneStep
  <2>2. (6 \in o.inet => d = <<"tun6">>) /\ (~(6 \in o.inet) => d = <<>>)
    BY DEF Filters!When
  <2> HIDE DEF d
  <2> QED BY <2>1, <2>2, EmptySteps
<1>5. Ascending(e, 17, 18) /\ \A x : In(x, e) <=> o.dns = "hijack" /\ (x = "blockDNS4" \/ x = "blockDNS6")
  <2>1. /\ Ascending(<<"blockDNS4", "blockDNS6">>, 17, 18)
        /\ \A x : In(x, <<"blockDNS4", "blockDNS6">>) <=> x = "blockDNS4" \/ x = "blockDNS6"
    BY <1>r, TwoSteps
  <2>2. (o.dns = "hijack" => e = <<"blockDNS4", "blockDNS6">>) /\ (~(o.dns = "hijack") => e = <<>>)
    BY DEF Filters!When
  <2> HIDE DEF e
  <2> QED BY <2>1, <2>2, EmptySteps
<1>6. Filters!FilterSteps(o) = (((a \o b) \o c) \o d) \o e
  BY DEF Filters!FilterSteps
<1> HIDE DEF a, b, c, d, e
<1>7. Ascending(a \o b, 11, 14) /\ \A x : In(x, a \o b) <=> In(x, a) \/ In(x, b)
  BY <1>1, <1>2, Append2
<1>8. Ascending((a \o b) \o c, 11, 15) /\ \A x : In(x, (a \o b) \o c) <=> In(x, a \o b) \/ In(x, c)
  BY <1>3, <1>7, Append2
<1>9. Ascending(((a \o b) \o c) \o d, 11, 16) /\ \A x : In(x, ((a \o b) \o c) \o d) <=> In(x, (a \o b) \o c) \/ In(x, d)
  BY <1>4, <1>8, Append2
<1>10. /\ Ascending((((a \o b) \o c) \o d) \o e, 11, 18)
       /\ \A x : In(x, (((a \o b) \o c) \o d) \o e) <=> In(x, ((a \o b) \o c) \o d) \/ In(x, e)
  BY <1>5, <1>9, Append2
<1> QED BY <1>1, <1>2, <1>3, <1>4, <1>5, <1>6, <1>7, <1>8, <1>9, <1>10

LEMMA StepsOf ==
  ASSUME NEW o \in Filters!OptionsSet
  PROVE  /\ Ascending(Filters!Steps(o), 1, 18)
         /\ \A x : In(x, Filters!Steps(o)) <=>
              \/ 4 \in o.inet /\ x \in {"address4", "dns4", "options4"}
              \/ 6 \in o.inet /\ x \in {"address6", "dns6", "options6"}
              \/ o.autoRoute /\ x \in {"routes", "flush"}
              \/ o.autoRoute /\ o.strict /\ (x \in {"engine", "sublayer"} \/ In(x, Filters!FilterSteps(o)))
<1> DEFINE a == Filters!When(4 \in o.inet, <<"address4", "dns4">>)
           b == Filters!When(6 \in o.inet, <<"address6", "dns6">>)
           c == Filters!When(o.autoRoute, <<"routes", "flush">>)
           d == Filters!When(4 \in o.inet, <<"options4">>)
           e == Filters!When(6 \in o.inet, <<"options6">>)
           f == Filters!When(o.autoRoute /\ o.strict, <<"engine", "sublayer">> \o Filters!FilterSteps(o))
<1>r. /\ Rank("address4") = 1 /\ Rank("dns4") = 2 /\ Rank("address6") = 3 /\ Rank("dns6") = 4
      /\ Rank("routes") = 5 /\ Rank("flush") = 6 /\ Rank("options4") = 7 /\ Rank("options6") = 8
      /\ Rank("engine") = 9 /\ Rank("sublayer") = 10
      /\ {"address4", "dns4", "address6", "dns6", "routes", "flush", "options4", "options6",
          "engine", "sublayer"} \subseteq Names
  BY DEF Rank, Names
<1>1. Ascending(a, 1, 2) /\ \A x : In(x, a) <=> 4 \in o.inet /\ (x = "address4" \/ x = "dns4")
  <2>1. Ascending(<<"address4", "dns4">>, 1, 2) /\ \A x : In(x, <<"address4", "dns4">>) <=> (x = "address4" \/ x = "dns4")
    BY <1>r, TwoSteps
  <2>2. (4 \in o.inet => a = <<"address4", "dns4">>) /\ (~(4 \in o.inet) => a = <<>>)
    BY DEF Filters!When
  <2> HIDE DEF a
  <2> QED BY <2>1, <2>2, EmptySteps
<1>2. Ascending(b, 3, 4) /\ \A x : In(x, b) <=> 6 \in o.inet /\ (x = "address6" \/ x = "dns6")
  <2>1. Ascending(<<"address6", "dns6">>, 3, 4) /\ \A x : In(x, <<"address6", "dns6">>) <=> (x = "address6" \/ x = "dns6")
    BY <1>r, TwoSteps
  <2>2. (6 \in o.inet => b = <<"address6", "dns6">>) /\ (~(6 \in o.inet) => b = <<>>)
    BY DEF Filters!When
  <2> HIDE DEF b
  <2> QED BY <2>1, <2>2, EmptySteps
<1>3. Ascending(c, 5, 6) /\ \A x : In(x, c) <=> o.autoRoute /\ (x = "routes" \/ x = "flush")
  <2>1. Ascending(<<"routes", "flush">>, 5, 6) /\ \A x : In(x, <<"routes", "flush">>) <=> (x = "routes" \/ x = "flush")
    BY <1>r, TwoSteps
  <2>2. (o.autoRoute => c = <<"routes", "flush">>) /\ (~(o.autoRoute) => c = <<>>)
    BY DEF Filters!When
  <2> HIDE DEF c
  <2> QED BY <2>1, <2>2, EmptySteps
<1>4. Ascending(d, 7, 7) /\ \A x : In(x, d) <=> 4 \in o.inet /\ x = "options4"
  <2>1. Ascending(<<"options4">>, 7, 7) /\ \A x : In(x, <<"options4">>) <=> x = "options4"
    BY <1>r, OneStep
  <2>2. (4 \in o.inet => d = <<"options4">>) /\ (~(4 \in o.inet) => d = <<>>)
    BY DEF Filters!When
  <2> HIDE DEF d
  <2> QED BY <2>1, <2>2, EmptySteps
<1>5. Ascending(e, 8, 8) /\ \A x : In(x, e) <=> 6 \in o.inet /\ x = "options6"
  <2>1. Ascending(<<"options6">>, 8, 8) /\ \A x : In(x, <<"options6">>) <=> x = "options6"
    BY <1>r, OneStep
  <2>2. (6 \in o.inet => e = <<"options6">>) /\ (~(6 \in o.inet) => e = <<>>)
    BY DEF Filters!When
  <2> HIDE DEF e
  <2> QED BY <2>1, <2>2, EmptySteps
<1>6. /\ Ascending(f, 9, 18)
      /\ \A x : In(x, f) <=> o.autoRoute /\ o.strict /\ (x \in {"engine", "sublayer"} \/ In(x, Filters!FilterSteps(o)))
  <2>1. /\ Ascending(<<"engine", "sublayer">>, 9, 10)
        /\ \A x : In(x, <<"engine", "sublayer">>) <=> x = "engine" \/ x = "sublayer"
    BY <1>r, TwoSteps
  <2> DEFINE h == <<"engine", "sublayer">>
             g == Filters!FilterSteps(o)
  <2>2. Ascending(g, 11, 18)
    BY FilterStepsOf
  <2> HIDE DEF g, h
  <2>3. Ascending(h \o g, 9, 18) /\ \A x : In(x, h \o g) <=> In(x, h) \/ In(x, g)
    BY <2>1, <2>2, Append2 DEF h
  <2>4. (o.autoRoute /\ o.strict => f = h \o g) /\ (~(o.autoRoute /\ o.strict) => f = <<>>)
    BY DEF Filters!When, g, h
  <2>5. \A x : In(x, h) <=> x \in {"engine", "sublayer"}
    BY <2>1 DEF h
  <2> HIDE DEF f
  <2>6. Ascending(f, 9, 18)
    BY <2>3, <2>4, EmptySteps
  <2>7. \A x : In(x, f) <=> o.autoRoute /\ o.strict /\ (x \in {"engine", "sublayer"} \/ In(x, g))
    BY <2>3, <2>4, <2>5, EmptySteps
  <2> QED BY <2>6, <2>7 DEF g
<1>7. Filters!Steps(o) = ((((a \o b) \o c) \o d) \o e) \o f
  BY DEF Filters!Steps
<1> HIDE DEF a, b, c, d, e, f
<1>8. Ascending(a \o b, 1, 4) /\ \A x : In(x, a \o b) <=> In(x, a) \/ In(x, b)
  BY <1>1, <1>2, Append2
<1>9. Ascending((a \o b) \o c, 1, 6) /\ \A x : In(x, (a \o b) \o c) <=> In(x, a \o b) \/ In(x, c)
  BY <1>3, <1>8, Append2
<1>10. /\ Ascending(((a \o b) \o c) \o d, 1, 7)
       /\ \A x : In(x, ((a \o b) \o c) \o d) <=> In(x, (a \o b) \o c) \/ In(x, d)
  BY <1>4, <1>9, Append2
<1>11. /\ Ascending((((a \o b) \o c) \o d) \o e, 1, 8)
       /\ \A x : In(x, (((a \o b) \o c) \o d) \o e) <=> In(x, ((a \o b) \o c) \o d) \/ In(x, e)
  BY <1>5, <1>10, Append2
<1>12. /\ Ascending(((((a \o b) \o c) \o d) \o e) \o f, 1, 18)
       /\ \A x : In(x, ((((a \o b) \o c) \o d) \o e) \o f) <=> In(x, (((a \o b) \o c) \o d) \o e) \/ In(x, f)
  BY <1>6, <1>11, Append2
<1> DEFINE z == (((a \o b) \o c) \o d) \o e
<1>13. \A x : In(x, z) <=> In(x, a) \/ In(x, b) \/ In(x, c) \/ In(x, d) \/ In(x, e)
  BY <1>8, <1>9, <1>10, <1>11
<1>14. \A x : In(x, Filters!Steps(o)) <=> In(x, z) \/ In(x, f)
  BY <1>7, <1>12
<1> HIDE DEF z
<1>15. \A x : In(x, Filters!Steps(o)) <=>
              \/ 4 \in o.inet /\ x \in {"address4", "dns4", "options4"}
              \/ 6 \in o.inet /\ x \in {"address6", "dns6", "options6"}
              \/ o.autoRoute /\ x \in {"routes", "flush"}
              \/ o.autoRoute /\ o.strict /\ (x \in {"engine", "sublayer"} \/ In(x, Filters!FilterSteps(o)))
  BY <1>1, <1>2, <1>3, <1>4, <1>5, <1>6, <1>13, <1>14
<1> QED BY <1>7, <1>12, <1>15

(* What the firewall's filters need of the steps. *)
LEMMA StepsNeeded ==
  ASSUME NEW o \in Filters!OptionsSet
  PROVE  /\ \A x : In(x, Filters!Steps(o)) /\ Filters!Blocks(x) =>
               o.autoRoute /\ o.strict /\ In("permit4", Filters!Steps(o)) /\ In("permit6", Filters!Steps(o))
         /\ In("block6", Filters!Steps(o)) => 6 \notin o.inet
         /\ In("blockDNS4", Filters!Steps(o)) /\ 4 \in o.inet => In("tun4", Filters!Steps(o))
         /\ In("blockDNS6", Filters!Steps(o)) /\ 6 \in o.inet => In("tun6", Filters!Steps(o))
         /\ o.autoRoute /\ o.strict => In("engine", Filters!Steps(o))
         /\ o.autoRoute /\ o.strict /\ o.dns = "hijack" =>
               In("blockDNS4", Filters!Steps(o)) /\ In("blockDNS6", Filters!Steps(o))
         /\ o.autoRoute /\ o.strict /\ 6 \notin o.inet => In("block6", Filters!Steps(o))
         /\ o.autoRoute => In("routes", Filters!Steps(o))
<1>1. \A x : In(x, Filters!Steps(o)) <=>
              \/ 4 \in o.inet /\ x \in {"address4", "dns4", "options4"}
              \/ 6 \in o.inet /\ x \in {"address6", "dns6", "options6"}
              \/ o.autoRoute /\ x \in {"routes", "flush"}
              \/ o.autoRoute /\ o.strict /\ (x \in {"engine", "sublayer"} \/ In(x, Filters!FilterSteps(o)))
  BY StepsOf
<1>2. \A x : In(x, Filters!FilterSteps(o)) <=>
              \/ x \in {"permit4", "permit6"}
              \/ 6 \notin o.inet /\ x \in {"ndp", "block6"}
              \/ 4 \in o.inet /\ x = "tun4"
              \/ 6 \in o.inet /\ x = "tun6"
              \/ o.dns = "hijack" /\ x \in {"blockDNS4", "blockDNS6"}
  BY FilterStepsOf
<1> QED BY <1>1, <1>2 DEF Filters!Blocks

\* How far configure is: what is done, what is left, and in which order
Progress ==
  /\ Ascending(todo, 1, 18)
  /\ \A x \in done, y \in Names : In(y, todo) => Rank(x) < Rank(y)
  /\ \A x : In(x, todo) => In(x, Filters!Steps(options))
  /\ \A x : In(x, Filters!Steps(options)) => x = "routes" \/ x \in done \/ In(x, todo)
  /\ "engine" \in done => engine
  /\ In("routes", todo) => routes = {}
  /\ options.autoRoute /\ ~In("routes", todo) => routes = Ranges \/ lost
  /\ stage = "up" => todo = <<>>

\* At every stage: what has been done, and whom the filters let through
Handles ==
  /\ options \in Filters!OptionsSet
  /\ stage \in {"new", "configure", "up", "failed", "closed", "crashed"}
  /\ done \subseteq Names /\ routes \subseteq Ranges
  /\ \A x \in done : In(x, Filters!Steps(options))
  /\ (\E x \in done : Filters!Blocks(x)) => "permit4" \in done /\ "permit6" \in done
  /\ engine => "engine" \in done
  /\ routes # {} => adapter
  /\ stage = "new" => done = {} /\ routes = {}
  /\ stage \in {"configure", "up"} => adapter /\ started
  /\ stage \in {"closed", "crashed"} => ~adapter /\ ~started /\ ~engine /\ routes = {}
  /\ stage = "failed" /\ done # {} => ~adapter /\ ~started /\ routes = {}

SetupInv == Handles /\ (stage \in {"configure", "up"} => Progress)

LEMMA InitSetup == Filters!Init => SetupInv
  BY DEF Filters!Init, SetupInv, Handles

LEMMA OpenKeeps ==
  ASSUME SetupInv, Filters!OpenAdapter \/ Filters!StartSession PROVE SetupInv'
<1>1. CASE Filters!OpenAdapter
  BY <1>1 DEF Filters!OpenAdapter, SetupInv, Handles
<1>2. CASE Filters!StartSession
  <2>1. Handles'
    BY <1>2 DEF Filters!StartSession, SetupInv, Handles
  <2>2. CASE stage' = "configure"
    <3>1. todo' = Filters!Steps(options) /\ options \in Filters!OptionsSet /\ options' = options /\ done' = {} /\ routes' = {}
      BY <1>2, <2>2 DEF Filters!StartSession, SetupInv, Handles
    <3>2. Ascending(todo', 1, 18)
      BY <3>1, StepsOf
    <3>3. options.autoRoute => In("routes", todo')
      BY <3>1, StepsNeeded
    <3>4. Progress'
      BY <2>2, <3>1, <3>2, <3>3 DEF Progress
    <3> QED BY <2>1, <3>4 DEF SetupInv
  <2>3. CASE stage' = "failed"
    BY <2>1, <2>3 DEF SetupInv
  <2> QED BY <1>2, <2>2, <2>3 DEF Filters!StartSession
<1> QED BY <1>1, <1>2

(* One step of configure: what blocks comes after what permits. *)
LEMMA StepKeeps == ASSUME SetupInv, Filters!Step PROVE SetupInv'
<1>0. Handles /\ Progress /\ stage = "configure" /\ todo # <<>>
  BY DEF SetupInv, Filters!Step
<1> DEFINE h == Head(todo)
<1>1. /\ Ascending(todo', 1, 18) /\ h \in Names /\ h # "routes"
      /\ \A x : In(x, todo) <=> x = h \/ In(x, todo')
      /\ \A x : In(x, todo') => Rank(h) < Rank(x)
      /\ todo' = Tail(todo)
  <2>1. Ascending(todo, 1, 18)
    BY <1>0 DEF Progress
  <2> QED BY <1>0, <2>1, TailSteps DEF Filters!Step
<1>2. /\ done' = done \union {h} /\ engine' = (engine \/ h = "engine")
      /\ UNCHANGED <<options, stage, adapter, started, routes, lost>>
  BY DEF Filters!Step
<1> HIDE DEF h
<1>3. In(h, Filters!Steps(options))
  BY <1>0, <1>1 DEF Progress
<1>4. ASSUME Filters!Blocks(h) PROVE "permit4" \in done /\ "permit6" \in done
  <2>1. In("permit4", Filters!Steps(options)) /\ In("permit6", Filters!Steps(options))
    BY <1>0, <1>3, <1>4, StepsNeeded DEF Handles
  <2>2. /\ "permit4" \in done \/ In("permit4", todo)
        /\ "permit6" \in done \/ In("permit6", todo)
    BY <1>0, <2>1 DEF Progress
  <2>3. Rank("permit4") < Rank(h) /\ Rank("permit6") < Rank(h) /\ Rank(h) \in Int
        /\ Rank("permit4") \in Int /\ Rank("permit6") \in Int
    <3>1. /\ Rank("permit4") = 11 /\ Rank("permit6") = 12 /\ Rank("block6") = 14
          /\ Rank("blockDNS4") = 17 /\ Rank("blockDNS6") = 18
      BY DEF Rank
    <3> QED BY <1>4, <3>1 DEF Filters!Blocks
  <2> QED BY <1>1, <2>2, <2>3
<1>5. Handles'
  <2>1. done' \subseteq Names /\ \A x \in done' : In(x, Filters!Steps(options))
    BY <1>0, <1>1, <1>2, <1>3 DEF Handles
  <2>2. (\E x \in done' : Filters!Blocks(x)) => "permit4" \in done' /\ "permit6" \in done'
    BY <1>0, <1>2, <1>4 DEF Handles
  <2>3. engine' => "engine" \in done'
    BY <1>0, <1>2 DEF Handles
  <2> QED BY <1>0, <1>2, <2>1, <2>2, <2>3 DEF Handles
<1>6. Progress'
  <2>1. \A x \in done', y \in Names : In(y, todo') => Rank(x) < Rank(y)
    BY <1>0, <1>1, <1>2 DEF Progress
  <2>2. /\ \A x : In(x, todo') => In(x, Filters!Steps(options))
        /\ \A x : In(x, Filters!Steps(options)) => x = "routes" \/ x \in done' \/ In(x, todo')
    BY <1>0, <1>1, <1>2 DEF Progress
  <2>3. "engine" \in done' => engine'
    BY <1>0, <1>2 DEF Progress
  <2>4. In("routes", todo') <=> In("routes", todo)
    BY <1>1
  <2> QED BY <1>0, <1>1, <1>2, <2>1, <2>2, <2>3, <2>4 DEF Progress
<1> QED BY <1>5, <1>6 DEF SetupInv

LEMMA AddRoutesKeeps == ASSUME SetupInv, Filters!AddRoutes PROVE SetupInv'
<1>0. Handles /\ Progress /\ stage = "configure" /\ todo # <<>> /\ Head(todo) = "routes"
  BY DEF SetupInv, Filters!AddRoutes
<1>1. /\ Ascending(Tail(todo), 1, 18)
      /\ \A x : In(x, todo) <=> x = "routes" \/ In(x, Tail(todo))
      /\ \A x : In(x, Tail(todo)) => Rank("routes") < Rank(x)
  <2>1. Ascending(todo, 1, 18)
    BY <1>0 DEF Progress
  <2> QED BY <1>0, <2>1, TailSteps
<1>2. routes = {} /\ ~In("routes", Tail(todo))
  <2>1. Rank("routes") = 5
    BY DEF Rank
  <2> QED BY <1>0, <1>1, <2>1 DEF Progress
<1>3. UNCHANGED <<options, engine, done>>
  BY DEF Filters!AddRoutes
<1>4. CASE stage' = "failed"
  <2>1. ~adapter' /\ ~started' /\ routes' = {}
    BY <1>0, <1>2, <1>4 DEF Filters!AddRoutes
  <2> QED BY <1>0, <1>3, <1>4, <2>1 DEF SetupInv, Handles
<1>5. CASE stage' # "failed"
  <2>1. /\ stage' = stage /\ UNCHANGED <<adapter, started>> /\ todo' = Tail(todo)
        /\ routes' \subseteq Ranges /\ (routes' = Ranges \/ lost')
    BY <1>5 DEF Filters!AddRoutes
  <2>2. Handles'
    BY <1>0, <1>3, <2>1 DEF Handles
  <2>3. Progress'
    BY <1>0, <1>1, <1>2, <1>3, <2>1 DEF Progress
  <2> QED BY <2>2, <2>3 DEF SetupInv
<1> QED BY <1>4, <1>5

LEMMA EndKeeps ==
  ASSUME SetupInv, Filters!StepFails \/ Filters!Configured \/ Filters!Close \/ Filters!Crash PROVE SetupInv'
<1>1. CASE Filters!StepFails
  BY <1>1 DEF Filters!StepFails, SetupInv, Handles
<1>2. CASE Filters!Configured
  <2>1. Handles'
    BY <1>2 DEF Filters!Configured, SetupInv, Handles
  <2>2. Progress'
    BY <1>2 DEF Filters!Configured, SetupInv, Progress
  <2> QED BY <2>1, <2>2 DEF SetupInv
<1>3. CASE Filters!Close
  BY <1>3 DEF Filters!Close, SetupInv, Handles
<1>4. CASE Filters!Crash
  BY <1>4 DEF Filters!Crash, SetupInv, Handles
<1> QED BY <1>1, <1>2, <1>3, <1>4

LEMMA SetupInvariant == Spec => [](part = "winSetup" => SetupInv)
<1>1. Filters!Init => SetupInv
  BY InitSetup
<1>2. SetupInv /\ [Filters!Next]_(Filters!vars) => SetupInv'
  <2>1. ASSUME SetupInv, UNCHANGED Filters!vars PROVE SetupInv'
    BY <2>1 DEF SetupInv, Handles, Progress, Filters!vars
  <2> QED BY <2>1, OpenKeeps, StepKeeps, AddRoutesKeeps, EndKeeps DEF Filters!Next
<1>3. Init => (part = "winSetup" => SetupInv)
  BY <1>1 DEF Init
<1>4. (part = "winSetup" => SetupInv) /\ [Next]_vars => (part = "winSetup" => SetupInv)'
  <2> SUFFICES ASSUME part = "winSetup" => SetupInv, [Next]_vars, part' = "winSetup" PROVE SetupInv'
    OBVIOUS
  <2>1. part = "winSetup" /\ [Filters!Next]_(Filters!vars)
    BY DEF Next, vars, Filters!vars,
           options, stage, adapter, started, engine, todo, done, routes, lost
  <2> QED BY <1>2, <2>1
<1> QED BY <1>3, <1>4, PTL DEF Spec

LEMMA WeightOf ==
  /\ \A x : Filters!Blocks(x) => Filters!Weight(x) \in Int /\ Filters!Weight(x) <= 12
  /\ Filters!Weight("permit4") = 13 /\ Filters!Weight("permit6") = 13 /\ Filters!Weight("block6") = 12
  /\ Filters!Weight("tun4") = 11 /\ Filters!Weight("tun6") = 11
  /\ Filters!Weight("blockDNS4") = 10 /\ Filters!Weight("blockDNS6") = 10
<1>1. /\ Filters!Weight("permit4") = 13 /\ Filters!Weight("permit6") = 13 /\ Filters!Weight("block6") = 12
      /\ Filters!Weight("tun4") = 11 /\ Filters!Weight("tun6") = 11
      /\ Filters!Weight("blockDNS4") = 10 /\ Filters!Weight("blockDNS6") = 10
  BY DEF Filters!Weight
<1> QED BY <1>1 DEF Filters!Blocks

LEMMA MatchesOf ==
  ASSUME NEW c \in Filters!Connections
  PROVE  /\ c.family \in {4, 6} /\ (c.ndp => c.family = 6 /\ ~c.dns /\ ~c.own) /\ (c.device => ~c.own)
         /\ Filters!Matches("permit4", c) <=> c.family = 4 /\ c.own
         /\ Filters!Matches("permit6", c) <=> c.family = 6 /\ c.own
         /\ Filters!Matches("ndp", c) <=> c.ndp
         /\ Filters!Matches("block6", c) <=> c.family = 6
         /\ Filters!Matches("tun4", c) <=> c.family = 4 /\ c.device
         /\ Filters!Matches("tun6", c) <=> c.family = 6 /\ c.device
         /\ Filters!Matches("blockDNS4", c) <=> c.family = 4 /\ c.dns
         /\ Filters!Matches("blockDNS6", c) <=> c.family = 6 /\ c.dns
  BY DEF Filters!Connections, Filters!Families, Filters!Matches

LEMMA OwnPasses == SetupInv => Filters!OwnTrafficPasses
<1> SUFFICES ASSUME SetupInv, NEW c \in Filters!Connections, c.own, Filters!Blocked(c) PROVE FALSE
  BY DEF Filters!OwnTrafficPasses
<1>1. PICK f \in Filters!Active : /\ Filters!Matches(f, c) /\ Filters!Blocks(f)
                                /\ \A g \in Filters!Active : Filters!Matches(g, c) => Filters!Weight(g) <= Filters!Weight(f)
  BY DEF Filters!Blocked
<1>2. f \in done /\ Filters!Active = done \intersect Filters!Filters
  BY <1>1 DEF Filters!Active
<1>3. "permit4" \in Filters!Active /\ "permit6" \in Filters!Active
  BY <1>1, <1>2 DEF SetupInv, Handles, Filters!Filters
<1>4. Filters!Matches("permit4", c) \/ Filters!Matches("permit6", c)
  BY MatchesOf
<1> QED BY <1>1, <1>3, <1>4, WeightOf

(* When the device is up every step has been done. *)
LEMMA AllDone ==
  ASSUME SetupInv, stage = "up"
  PROVE  /\ options \in Filters!OptionsSet
         /\ \A x : In(x, Filters!Steps(options)) => x = "routes" \/ x \in done
         /\ "engine" \in done => engine
         /\ \A x : x \in done => In(x, Filters!Steps(options))
         /\ options.autoRoute => routes = Ranges \/ lost
<1>1. Progress /\ Handles /\ todo = <<>>
  BY DEF SetupInv, Progress
<1>2. \A x : ~In(x, todo)
  BY <1>1, EmptySteps
<1> QED BY <1>1, <1>2 DEF Progress, Handles

LEMMA NoLeak == SetupInv => Filters!NothingLeaks
<1> SUFFICES ASSUME SetupInv, stage = "up", options.autoRoute, options.strict,
                    NEW c \in Filters!Connections, ~c.own, ~c.ndp, ~c.device
             PROVE  /\ c.dns /\ options.dns = "hijack" => Filters!Blocked(c)
                    /\ c.family = 6 /\ 6 \notin options.inet => Filters!Blocked(c)
  BY DEF Filters!NothingLeaks
<1>1. Filters!Active = done \intersect Filters!Filters
  BY AllDone, StepsNeeded DEF Filters!Active
<1>2. \A g \in Filters!Active : Filters!Matches(g, c) =>
        g = "block6" \/ (g = "blockDNS4" /\ c.family = 4) \/ (g = "blockDNS6" /\ c.family = 6)
  BY <1>1, MatchesOf DEF Filters!Filters
<1>3. ASSUME "block6" \in Filters!Active, c.family = 6 PROVE Filters!Blocked(c)
  BY <1>2, <1>3, MatchesOf, WeightOf DEF Filters!Blocked, Filters!Blocks
<1>4. ASSUME c.dns, options.dns = "hijack" PROVE Filters!Blocked(c)
  <2>1. "blockDNS4" \in Filters!Active /\ "blockDNS6" \in Filters!Active
    BY <1>1, <1>4, AllDone, StepsNeeded DEF Filters!Filters
  <2>2. CASE c.family = 4
    BY <1>2, <1>4, <2>1, <2>2, MatchesOf, WeightOf DEF Filters!Blocked, Filters!Blocks
  <2>3. CASE c.family = 6
    BY <1>2, <1>3, <1>4, <2>1, <2>3, MatchesOf, WeightOf DEF Filters!Blocked, Filters!Blocks
  <2> QED BY <2>2, <2>3, MatchesOf
<1>5. ASSUME c.family = 6, 6 \notin options.inet PROVE Filters!Blocked(c)
  <2>1. "block6" \in Filters!Active
    BY <1>1, <1>5, AllDone, StepsNeeded DEF Filters!Filters
  <2> QED BY <1>3, <1>5, <2>1
<1> QED BY <1>4, <1>5

LEMMA DevicePasses == SetupInv => Filters!DeviceTrafficPasses
<1> SUFFICES ASSUME SetupInv, stage = "up", NEW c \in Filters!Connections, c.device,
                    c.family \in options.inet, Filters!Blocked(c)
             PROVE  FALSE
  BY DEF Filters!DeviceTrafficPasses
<1>1. PICK f \in Filters!Active : /\ Filters!Matches(f, c) /\ Filters!Blocks(f)
                                /\ \A g \in Filters!Active : Filters!Matches(g, c) => Filters!Weight(g) <= Filters!Weight(f)
  BY DEF Filters!Blocked
<1>2. f \in done /\ Filters!Active = done \intersect Filters!Filters /\ In(f, Filters!Steps(options))
  BY <1>1, AllDone DEF Filters!Active
<1>3. CASE f = "block6"
  BY <1>1, <1>2, <1>3, AllDone, StepsNeeded, MatchesOf
<1>4. CASE f = "blockDNS4"
  <2>1. c.family = 4
    BY <1>1, <1>4, MatchesOf
  <2>2. "tun4" \in Filters!Active
    BY <1>2, <1>4, <2>1, AllDone, StepsNeeded DEF Filters!Filters
  <2> QED BY <1>1, <1>4, <2>1, <2>2, MatchesOf, WeightOf
<1>5. CASE f = "blockDNS6"
  <2>1. c.family = 6
    BY <1>1, <1>5, MatchesOf
  <2>2. "tun6" \in Filters!Active
    BY <1>2, <1>5, <2>1, AllDone, StepsNeeded DEF Filters!Filters
  <2> QED BY <1>1, <1>5, <2>1, <2>2, MatchesOf, WeightOf
<1> QED BY <1>1, <1>3, <1>4, <1>5 DEF Filters!Blocks

(* configure, Close: the filters of a strict route let the program's own and
   the device's connections pass at every step, block the others' DNS and IPv6
   once the device is up and are gone with their process; all routes are
   there; for every set of ranges and every way a step may fail. *)
THEOREM FiltersTheorem == Spec => []FiltersHold
<1>1. SetupInv => Filters!TypeOK
  <2> SUFFICES ASSUME SetupInv PROVE Filters!TypeOK
    OBVIOUS
  <2>1. ASSUME stage = "up"
        PROVE {Filters!Steps(options)[i] : i \in DOMAIN Filters!Steps(options)} \subseteq done \union {"routes"}
    <3>1. Filters!Steps(options) \in Seq(Names)
      BY <2>1, AllDone, StepsOf DEF Ascending
    <3>2. DOMAIN Filters!Steps(options) = 1 .. Len(Filters!Steps(options))
      BY <3>1
    <3> QED BY <2>1, <3>2, AllDone DEF In
  <2> QED BY <2>1 DEF SetupInv, Handles, Filters!TypeOK
<1>2. SetupInv => Filters!NothingIsLeft
  BY DEF SetupInv, Handles, Filters!NothingIsLeft, Filters!Active
<1>3. SetupInv => Filters!RoutesComplete
  BY AllDone DEF Filters!RoutesComplete
<1>4. SetupInv => Filters!TypeOK /\ Filters!FiltersHold
  BY <1>1, <1>2, <1>3, OwnPasses, NoLeak, DevicePasses DEF Filters!FiltersHold
<1>5. (part = "winSetup" => SetupInv) => FiltersHold
  BY <1>4 DEF FiltersHold
<1> QED BY <1>5, SetupInvariant, PTL
=============================================================================
