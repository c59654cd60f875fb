------------------------------- MODULE TunIO -------------------------------
(***************************************************************************)
(* The device file of Linux (NativeTun of tun_linux.go): what configure    *)
(* makes of a device opened with or without IFF_VNET_HDR (enableGSO, the   *)
(* probe), and BatchRead, BatchWrite and Write of several goroutines       *)
(* that share the read buffer, the GRO tables and the list gsoToWrite.     *)
(*                                                                         *)
(* A packet is its kind.  Which packets coalesce is module GRO's subject;  *)
(* here a frame is any run of packets of one kind that may be coalesced.   *)
(***************************************************************************)
EXTENDS Integers, Sequences, FiniteSets

CONSTANTS Writers,      \* goroutines that call BatchWrite or Write
          Readers,      \* goroutines that call BatchRead
          Batches,      \* the packets of a call, by kind
          MaxCalls,     \* calls of BatchWrite
          MaxReads,     \* frames the system sends
          MaxFailures,  \* failing system calls
          none

Kinds == {"tcp", "udp"}   \* the kinds GRO knows
Probe == "probe"          \* probeTCPGRO, a writer of configure
AllWriters == Writers \union {Probe}

DeviceAssumption ==
    /\ Probe \notin Writers /\ none \notin AllWriters \union Readers
    /\ Batches \subseteq Seq(Kinds \union {"other"}) \ {<<>>}

VARIABLES device,     \* [at, wanted, header, offload]: life of the file, options.GSO, and the system's IFF_VNET_HDR and offloads
          vnetHdr, groOff,
          writeAccess, gsoToWrite, table,
          writer,     \* [at, batch, errs] of each goroutine that writes
          written,    \* frames the system took of the writers' last calls
          readAccess, buffer, reader, sent, delivered,
          calls, failures

config == <<device, vnetHdr, groOff>>
writing == <<writeAccess, gsoToWrite, table, writer, written, calls>>
reading == <<readAccess, buffer, reader, sent, delivered>>
vars == <<config, writing, reading, failures>>

Fails == failures < MaxFailures /\ failures' = failures + 1

---------------------------------------------------------------------------
(* open, configure and Close                                               *)
\* A system may not know IFF_VNET_HDR and leave it unset
Open ==
    /\ device.at = "new"
    /\ \E header \in {FALSE, device.wanted} :
         device' = [device EXCEPT !.at = IF device.wanted THEN "offload" ELSE "up", !.header = header]
    /\ UNCHANGED <<vnetHdr, groOff, writing, reading, failures>>

\* enableGSO: the flag is missing, or a call fails; configure goes on without
EnableGSOFails ==
    /\ device.at = "offload"
    /\ \/ Fails
       \/ ~device.header /\ UNCHANGED failures
    /\ device' = [device EXCEPT !.at = "up"]
    /\ UNCHANGED <<vnetHdr, groOff, writing, reading>>

EnableTCP ==
    /\ device.at = "offload" /\ device.header
    /\ vnetHdr' = TRUE
    /\ device' = [device EXCEPT !.at = "offloadUDP", !.offload = {"tcp"}]
    /\ UNCHANGED <<groOff, writing, reading, failures>>

\* An old system refuses UDP segmentation, and UDP is not coalesced
EnableUDP ==
    /\ device.at = "offloadUDP"
    /\ \/ /\ device' = [device EXCEPT !.at = "probe", !.offload = Kinds]
          /\ UNCHANGED <<groOff, failures>>
       \/ /\ Fails
          /\ device' = [device EXCEPT !.at = "probe"]
          /\ groOff' = groOff \union {"udp"}
    /\ UNCHANGED <<vnetHdr, writing, reading>>

\* probeTCPGRO has written its two segments; an error disables all coalescing
ProbeEnds ==
    /\ device.at = "probe" /\ writer[Probe].at = "done"
    /\ device' = [device EXCEPT !.at = "up"]
    /\ groOff' = IF writer[Probe].errs > 0 THEN Kinds ELSE groOff
    /\ UNCHANGED <<vnetHdr, writing, reading, failures>>

\* A device without an IPv4 address is not probed
NoProbe ==
    /\ device.at = "probe" /\ writer[Probe].at = "idle"
    /\ device' = [device EXCEPT !.at = "up"]
    /\ UNCHANGED <<vnetHdr, groOff, writing, reading, failures>>

\* Close, or the interface is deleted under the file (EBADFD)
Close ==
    /\ device.at = "up"
    /\ device' = [device EXCEPT !.at = "closed"]
    /\ UNCHANGED <<vnetHdr, groOff, writing, reading, failures>>

---------------------------------------------------------------------------
(* BatchWrite                                                              *)
Called(p, b) ==
    /\ writer[p].at = "idle" /\ calls < MaxCalls
    /\ calls' = calls + 1
    /\ writer' = [writer EXCEPT ![p] = [at |-> IF vnetHdr THEN "lock" ELSE "file", batch |-> b, call |-> calls + 1, errs |-> 0]]
    /\ written' = {f \in written : f.by # p}
    /\ UNCHANGED <<config, writeAccess, gsoToWrite, table, reading, failures>>

\* Without GSO the stacks write one packet at a time and take no lock
BatchWrite(p) ==
    /\ device.at = "up"
    /\ \E b \in Batches : (vnetHdr \/ Len(b) = 1) /\ Called(p, b)

\* Two segments of one flow, which coalesce
probeTCPGRO == device.at = "probe" /\ Called(Probe, <<"tcp", "tcp">>)

WriteLock(p) ==
    /\ writer[p].at = "lock" /\ writeAccess = none
    /\ writeAccess' = p
    /\ gsoToWrite' = <<>>
    /\ writer' = [writer EXCEPT ![p].at = "gro"]
    /\ UNCHANGED <<config, table, written, calls, reading, failures>>

\* packetIsGROCandidate asks the flags
CanGRO(kind) == kind \in Kinds \ groOff

\* A frame of several packets: all of one kind that may be coalesced
Coalesces(b, packets) == \A i, k \in packets : b[i] = b[k] /\ CanGRO(b[i])

\* handleGRO: the frames of a batch, in the order of their first packets
Frames(b) ==
    {fs \in UNION {[1..n -> SUBSET DOMAIN b] : n \in 1..Len(b)} :
        /\ UNION {fs[i] : i \in DOMAIN fs} = DOMAIN b
        /\ \A i, j \in DOMAIN fs : i # j => fs[i] \intersect fs[j] = {}
        /\ \A i \in DOMAIN fs : fs[i] # {} /\ (Cardinality(fs[i]) > 1 => Coalesces(b, fs[i]))
        /\ \A i, j \in DOMAIN fs : i < j => \E k \in fs[i] : \A l \in fs[j] : k < l}

handleGRO(p) ==
    /\ writer[p].at = "gro"
    /\ gsoToWrite' \in Frames(writer[p].batch)
    /\ table' = table \union {writer[p].call}
    /\ writer' = [writer EXCEPT ![p].at = "write"]
    /\ UNCHANGED <<config, writeAccess, written, calls, reading, failures>>

Frame(p, packets, header) == [by |-> p, call |-> writer[p].call, packets |-> packets,
                              kind |-> writer[p].batch[CHOOSE i \in packets : TRUE], header |-> header]

\* slip: an error ends the call
WriteFrameStops(p) ==
    /\ writer[p].at = "write" /\ gsoToWrite # <<>>
    /\ \/ /\ device.at # "closed"
          /\ written' = written \union {Frame(p, Head(gsoToWrite), TRUE)}
          /\ gsoToWrite' = Tail(gsoToWrite)
          /\ UNCHANGED <<writer, failures>>
       \/ /\ device.at # "closed" /\ Fails
          /\ writer' = [writer EXCEPT ![p].errs = @ + 1]
          /\ gsoToWrite' = <<>>
          /\ UNCHANGED written
       \/ /\ device.at = "closed"
          /\ writer' = [writer EXCEPT ![p].errs = Len(writer[p].batch), ![p].at = "unlock"]
          /\ UNCHANGED <<gsoToWrite, written, failures>>
    /\ UNCHANGED <<config, writeAccess, table, calls, reading>>

\* One frame is written; an error is kept and the next frame is tried, a
\* closed device ends the call
WriteFrame(p) ==
    /\ writer[p].at = "write" /\ gsoToWrite # <<>>
    /\ \/ /\ device.at # "closed"
          /\ written' = written \union {Frame(p, Head(gsoToWrite), TRUE)}
          /\ gsoToWrite' = Tail(gsoToWrite)
          /\ UNCHANGED <<writer, failures>>
       \/ /\ device.at # "closed" /\ Fails
          /\ writer' = [writer EXCEPT ![p].errs = @ + Cardinality(Head(gsoToWrite))]
          /\ gsoToWrite' = Tail(gsoToWrite)
          /\ UNCHANGED written
       \/ /\ device.at = "closed"
          /\ writer' = [writer EXCEPT ![p].errs = Len(writer[p].batch), ![p].at = "unlock"]
          /\ UNCHANGED <<gsoToWrite, written, failures>>
    /\ UNCHANGED <<config, writeAccess, table, calls, reading>>

\* The deferred function resets the tables before it unlocks
WriteUnlock(p) ==
    /\ \/ writer[p].at = "unlock"
       \/ writer[p].at = "write" /\ gsoToWrite = <<>>
    /\ table' = {}
    /\ writeAccess' = none
    /\ writer' = [writer EXCEPT ![p].at = IF p = Probe THEN "done" ELSE "idle"]
    /\ UNCHANGED <<config, gsoToWrite, written, calls, reading, failures>>

\* Write of a device without GSO goes to the file
Write(p) ==
    /\ writer[p].at = "file"
    /\ \/ /\ device.at = "up"
          /\ written' = written \union {Frame(p, {1}, FALSE)}
          /\ writer' = [writer EXCEPT ![p].at = "idle"]
          /\ UNCHANGED failures
       \/ /\ \/ device.at = "closed" /\ UNCHANGED failures
             \/ Fails
          /\ writer' = [writer EXCEPT ![p].at = "idle", ![p].errs = 1]
          /\ UNCHANGED written
    /\ UNCHANGED <<config, writeAccess, gsoToWrite, table, calls, reading>>

---------------------------------------------------------------------------
(* BatchRead: frames 1, 2, .. are read into the one buffer and split from  *)
(* it                                                                      *)
BatchRead(r) ==
    /\ vnetHdr /\ reader[r] = "idle" /\ readAccess = none /\ device.at = "up"
    /\ sent < MaxReads
    /\ readAccess' = r
    /\ sent' = sent + 1
    /\ buffer' = sent + 1
    /\ reader' = [reader EXCEPT ![r] = "split"]
    /\ UNCHANGED <<config, writing, delivered, failures>>

handleVirtioRead(r) ==
    /\ reader[r] = "split"
    /\ delivered' = Append(delivered, buffer)
    /\ reader' = [reader EXCEPT ![r] = "idle"]
    /\ readAccess' = none
    /\ UNCHANGED <<config, writing, buffer, sent, failures>>

---------------------------------------------------------------------------
Init ==
    /\ \E wanted \in BOOLEAN : device = [at |-> "new", wanted |-> wanted, header |-> FALSE, offload |-> {}]
    /\ vnetHdr = FALSE /\ groOff = {}
    /\ writeAccess = none /\ gsoToWrite = <<>> /\ table = {}
    /\ writer = [p \in AllWriters |-> [at |-> "idle", batch |-> <<>>, call |-> 0, errs |-> 0]]
    /\ written = {} /\ calls = 0 /\ failures = 0
    /\ readAccess = none /\ buffer = 0 /\ reader = [r \in Readers |-> "idle"] /\ sent = 0 /\ delivered = <<>>

Configure == Open \/ EnableGSOFails \/ EnableTCP \/ EnableUDP \/ ProbeEnds \/ NoProbe
WriterRuns(p) == WriteLock(p) \/ handleGRO(p) \/ WriteFrame(p) \/ WriteUnlock(p) \/ Write(p)

Next ==
    \/ Configure \/ Close
    \/ probeTCPGRO
    \/ \E p \in Writers : BatchWrite(p)
    \/ \E p \in AllWriters : WriterRuns(p)
    \/ \E r \in Readers : BatchRead(r) \/ handleVirtioRead(r)

Spec == Init /\ [][Next]_vars /\ \A p \in AllWriters : WF_vars(WriterRuns(p))

---------------------------------------------------------------------------
(* The state has its type, and only the holder of the write lock           *)
(* coalesces or writes frames.                                             *)
TypeOK ==
    /\ device.at \in {"new", "offload", "offloadUDP", "probe", "up", "closed"}
    /\ vnetHdr \in BOOLEAN /\ groOff \subseteq Kinds
    /\ \A p \in AllWriters : writer[p].at \in {"gro", "write", "unlock"} => writeAccess = p
    /\ gsoToWrite \in Seq(SUBSET Nat) /\ buffer \in 0..sent

\* The device has the header and the program gave up on it
GaveUp == device.header /\ ~vnetHdr

(* enableGSO and BatchWrite: every frame has the header the system expects *)
(* of this file, unless an offload was refused after the file was opened   *)
(* with IFF_VNET_HDR, which is not taken back.                             *)
HeadersMatch == \A f \in written : f.header = device.header \/ GaveUp

(* enableGSO and the probe: packets are coalesced only into kinds of       *)
(* frames the system agreed to take, and after a failed probe not at all.  *)
CoalescedIsAccepted ==
    \A f \in written : Cardinality(f.packets) > 1 =>
        /\ f.kind \in device.offload
        /\ f.by # Probe => writer[Probe].errs = 0

(* BatchWrite: when a call returns, every packet of its batch went to the  *)
(* system in exactly one frame or its error is returned, whatever other    *)
(* goroutines wrote meanwhile, and no table still points into its buffers. *)
BatchAccounted ==
    \A p \in AllWriters : (writer[p].at \in {"idle", "done"} /\ writer[p].call > 0) =>
        LET mine == {f \in written : f.by = p /\ f.call = writer[p].call}
        IN  /\ \A f, g \in mine : f # g => f.packets \intersect g.packets = {}
            /\ Cardinality(UNION {f.packets : f \in mine}) + writer[p].errs >= Len(writer[p].batch)
            /\ writer[p].call \notin table

(* BatchRead: no frame is delivered twice or overwritten by the next one   *)
(* before it is split.                                                     *)
ReadsIntact == \A i, j \in DOMAIN delivered : i < j => delivered[i] < delivered[j]

(* Every packet is written once in a frame the system takes, or reported,  *)
(* and every frame is read once.                                           *)
EveryPacketAccounted == BatchAccounted /\ CoalescedIsAccepted /\ HeadersMatch /\ ReadsIntact

(* BatchWrite and Close: every call returns, also when the device is       *)
(* closed under it.  Calls being bounded, this holds for good in the end.  *)
WritersReturned == \A p \in AllWriters : writer[p].at \in {"idle", "done"}

=============================================================================
