------------------------------ MODULE MCStacks ------------------------------
(* One run for the components around the stacks: the Linux device's reads   *)
(* and writes, the read loops, the start and stop of the stacks, their TCP  *)
(* and ICMP paths and the ping destinations.  They share no state, so a     *)
(* behaviour is of one of them: part says which, and the variables v1, v2,  *)
(* ... are that component's, under its names for them.                      *)
EXTENDS Integers, Sequences, FiniteSets
LOCAL Ext == INSTANCE SequencesExt

CONSTANTS Parts,  \* the components this run checks
          None,
          Writers, Readers, Batches, MaxCalls, MaxReads, MaxFailures,  \* TunIO
          LoopKinds, MaxPackets, MaxBatch,                             \* TunLoops
          StackKinds, MaxTries,                                        \* StackLifecycle
          Conns, MaxInFlight,                                          \* TCPForward
          Echoes, Slots, MaxDest,                                      \* ICMPPaths
          Dest, Seqs, Limit, Timeout, MaxWire, MaxWrites,              \* PingDestination
          FewDest, FewSeqs, FewWire, FewWrites,                        \* of these, when few
          Idents, Socks, Writer,                                       \* UnprivilegedPing
          FairSteps  \* a component has no more steps to be fair to

WriteBatches == {<<"other">>, <<"tcp", "tcp">>, <<"udp", "other", "udp">>}

-----------------------------------------------------------------------------
VARIABLES part,  \* which component this behaviour is of
          v1, v2, v3, v4, v5, v6, v7, v8, v9, v10, v11, v12, v13, v14, v15  \* its state

vars == <<part, v1, v2, v3, v4, v5, v6, v7, v8, v9, v10, v11, v12, v13, v14, v15>>

\* The read loops
stack == v1
pc == v2
packet == v3
device == v4
written == v5
loop == v6
seen == v7
batch == v8
queue == v9
failed == v10
released == v11

Loops == INSTANCE TunLoops WITH Kinds <- LoopKinds

\* The Linux device; device and written are v4 and v5 here, too
vnetHdr == v1
groOff == v2
writeAccess == v3
writer == v6
gsoToWrite == v7
table == v8
readAccess == v9
buffer == v10
reader == v11
sent == v12
delivered == v13
calls == v14
failures == v15

IO == INSTANCE TunIO WITH none <- None

\* The start and stop of the stacks
kind == v1
families == v2
phase == v3
todo == v4
tries == v5
open == v6
known == v7
loops == v8
tun == v9
ctx == v10

Life == INSTANCE StackLifecycle WITH Stacks <- StackKinds

\* The TCP paths, with stack and pc
done == v3
watcher == v4
notified == v5
inFlight == v6
completed == v7

Fwd == INSTANCE TCPForward

\* The ICMP paths, with stack and packet
state == v2
got == v4
outcome == v5
slots == v6
entry == v7
dests == v8

ICMP == INSTANCE ICMPPaths WITH Request <- Echoes

\* The ping destinations
cache == v1
dest == v2
wire == v3
asked == v4
owed == v5
writes == v6

Ping == INSTANCE PingDestination

\* The unprivileged sockets, with writer
context == v1
mapping == v2
conn == v3
fetch == v4

Unpriv == INSTANCE UnprivilegedPing WITH Ident <- Idents, Conn <- Socks

\* What the proofs assume of the constants holds here.
ASSUME ForwardAssumed == Fwd!ForwardAssumption
ASSUME RequestsAssumed == ICMP!RequestAssumption
ASSUME SocketsAssumed == Unpriv!NoneAssumption
ASSUME StartAssumed == Life!StartAssumption
ASSUME TablesAssumed == Ping!TableAssumption
ASSUME LoopsAssumed == Loops!LoopAssumption
ASSUME DeviceAssumed == IO!DeviceAssumption

-----------------------------------------------------------------------------
PingPart == part \in {"pingRequests", "pingDests"}

Init ==
    /\ part \in Parts
    /\ \/ part = "io" /\ IO!Init
       \/ /\ part = "loops" /\ Loops!Init
          /\ v12 = 0 /\ v13 = 0 /\ v14 = 0 /\ v15 = 0
       \/ /\ part = "lifecycle" /\ Life!Init
          /\ v11 = 0 /\ v12 = 0 /\ v13 = 0 /\ v14 = 0 /\ v15 = 0
       \/ /\ part = "forward" /\ Fwd!Init
          /\ v8 = 0 /\ v9 = 0 /\ v10 = 0 /\ v11 = 0 /\ v12 = 0 /\ v13 = 0 /\ v14 = 0
          /\ v15 = 0
       \/ /\ part = "icmp" /\ ICMP!Init
          /\ v9 = 0 /\ v10 = 0 /\ v11 = 0 /\ v12 = 0 /\ v13 = 0 /\ v14 = 0 /\ v15 = 0
       \/ /\ PingPart /\ Ping!Init
          /\ v7 = 0 /\ v8 = 0 /\ v9 = 0 /\ v10 = 0 /\ v11 = 0 /\ v12 = 0 /\ v13 = 0
          /\ v14 = 0 /\ v15 = 0
       \/ /\ part = "unprivileged" /\ Unpriv!Init
          /\ v5 = 0 /\ v7 = 0 /\ v8 = 0 /\ v9 = 0 /\ v10 = 0 /\ v11 = 0 /\ v12 = 0
          /\ v13 = 0 /\ v14 = 0 /\ v15 = 0

\* The ping destinations are looked at twice: with few of them and all requests, and
\* all of them with few requests.
FewDests ==
    /\ \A d \in Dest : dest'[d].state # "unused" => d \in FewDest
    /\ Cardinality(writes') + Cardinality(wire') <= MaxWire
FewRequests ==
    /\ Cardinality(writes') <= FewWrites /\ \A x \in writes' : x.request.seq \in FewSeqs
    /\ Cardinality(wire') <= FewWire /\ \A w \in wire' : w.seq \in FewSeqs

Next ==
    \/ part = "io" /\ IO!Next /\ UNCHANGED part
    \/ part = "loops" /\ Loops!Next /\ UNCHANGED <<part, v12, v13, v14, v15>>
    \/ part = "lifecycle" /\ Life!Next /\ UNCHANGED <<part, v11, v12, v13, v14, v15>>
    \/ part = "forward" /\ Fwd!Next /\ UNCHANGED <<part, v8, v9, v10, v11, v12, v13, v14, v15>>
    \/ part = "icmp" /\ ICMP!Next /\ UNCHANGED <<part, v9, v10, v11, v12, v13, v14, v15>>
    \/ part = "pingRequests" /\ Ping!Next /\ FewDests /\ UNCHANGED <<part, v7, v8, v9, v10, v11, v12, v13, v14, v15>>
    \/ part = "pingDests" /\ Ping!Next /\ FewRequests /\ UNCHANGED <<part, v7, v8, v9, v10, v11, v12, v13, v14, v15>>
    \/ part = "unprivileged" /\ Unpriv!Next /\ UNCHANGED <<part, v5, v7, v8, v9, v10, v11, v12, v13, v14, v15>>

(* The k-th of the steps that go on by themselves: what the Spec of each    *)
(* component is fair to.                                                    *)
WriterAt == Ext!SetToSeq(IO!AllWriters)
LoopAt == <<"accept4", "accept6", "tun", "packet">>
ConnAt == Ext!SetToSeq(Conns)
RequestAt == Ext!SetToSeq(Echoes)
DestAt == Ext!SetToSeq(Dest)
SocketAt == Ext!SetToSeq(Socks)
PingerAt == Ext!SetToSeq(Writer)

FairForward(k) ==
    /\ k \in 1 .. 3 * Len(ConnAt)
    /\ LET c == ConnAt[(k + 2) \div 3] IN
       \/ k % 3 = 0 /\ (Fwd!WatcherWakes(c) \/ Fwd!WatcherEnds(c))
       \/ k % 3 = 1 /\ Fwd!GoesOn(c)
       \/ k % 3 = 2 /\ Fwd!NotifiedFails(c)
FairPing(k) ==
    \/ k = 1 /\ Ping!Tick
    \/ k - 1 \in DOMAIN DestAt /\ Ping!ReaderStep(DestAt[k - 1])
FairUnpriv(k) ==
    LET sockets == Len(SocketAt) IN
    \/ k \in 1 .. sockets /\ (Unpriv!Finish(SocketAt[k]) \/ Unpriv!Fetch(SocketAt[k]))
    \/ k - sockets \in DOMAIN PingerAt /\ Unpriv!WriterStep(PingerAt[k - sockets])
    \/ k = sockets + Len(PingerAt) + 1 /\ Unpriv!ReaderCloses

FairStep(k) ==
    \/ part = "io" /\ k \in DOMAIN WriterAt /\ IO!WriterRuns(WriterAt[k]) /\ UNCHANGED part
    \/ part = "loops" /\ k = 1 /\ Loops!Step /\ UNCHANGED <<part, v12, v13, v14, v15>>
    \/ /\ part = "lifecycle" /\ UNCHANGED <<part, v11, v12, v13, v14, v15>>
       /\ \/ k \in 1 .. 4 /\ Life!LoopEnds(LoopAt[k])
          \/ k = 5 /\ Life!Acquire
    \/ /\ part = "forward" /\ UNCHANGED <<part, v8, v9, v10, v11, v12, v13, v14, v15>>
       /\ FairForward(k)
    \/ /\ part = "icmp" /\ UNCHANGED <<part, v9, v10, v11, v12, v13, v14, v15>>
       /\ k \in DOMAIN RequestAt /\ ICMP!GoesOn(RequestAt[k])
    \/ /\ part = "pingDests" /\ UNCHANGED <<part, v7, v8, v9, v10, v11, v12, v13, v14, v15>>
       /\ FairPing(k)
    \/ /\ part = "unprivileged" /\ UNCHANGED <<part, v5, v7, v8, v9, v10, v11, v12, v13, v14, v15>>
       /\ FairUnpriv(k)

Spec == Init /\ [][Next]_vars /\ \A k \in 1 .. FairSteps : WF_vars(FairStep(k))
-----------------------------------------------------------------------------
(* The Linux device: every packet of a batch is written in exactly one      *)
(* frame or its error is returned, whoever else writes, in frames the       *)
(* system agreed to take and with the header it expects, and no frame is    *)
(* delivered twice or overwritten while it is split (BatchWrite, BatchRead, *)
(* enableGSO, probeTCPGRO).                                                 *)
EveryPacketAccounted ==
    part = "io" => IO!TypeOK /\ IO!EveryPacketAccounted

(* The read loops of the three stacks give every borrowed buffer back once, *)
(* after it was written, write each packet that is to go back once and in   *)
(* order, and end only when the device is closed, or fails on Windows       *)
(* (tunLoop, wintunLoop, batchLoopLinux, batchLoopDarwin, readLoop).        *)
BuffersReturned ==
    part = "loops" => Loops!TypeOK /\ Loops!BuffersReturned

(* Nothing leaks.  After Close a stack holds no listener and no gVisor      *)
(* stack, however far Start came; a failed one leaves the device to others; *)
(* the forwarder counts exactly the handshakes under way, the ICMP slots    *)
(* exactly the detached requests; an open ping socket is one that can still *)
(* be found, or that somebody is about to close.                            *)
NothingLeaks ==
    /\ part = "lifecycle" => Life!TypeOK /\ Life!NothingLeaks
    /\ part = "forward" => Fwd!TypeOK /\ Fwd!NothingLeaks
    /\ part = "icmp" => ICMP!TypeOK /\ ICMP!NothingLeaks
    /\ PingPart => Ping!TypeOK /\ Ping!NothingLeaks
    /\ part = "unprivileged" => Unpriv!TypeOK /\ Unpriv!NothingLeaks

(* An ICMP handler's verdict is carried out alike by every stack, a stack   *)
(* answers for nobody but itself without one, and a ping is answered at     *)
(* most once and only when it was asked, from a table that stays bounded    *)
(* (the ICMP paths of the stacks, ping.Destination).                        *)
PingsAnsweredRight ==
    /\ part = "icmp" => ICMP!PingsAnsweredRight
    /\ PingPart => Ping!PingsAnsweredRight

(* No step of a lookup returns a destination whose socket is closed, unless *)
(* its Close is about to say so, and no request forgets a younger one than  *)
(* the table's limit makes it forget (DirectRouteMapping.Lookup,            *)
(* ping.Destination.WritePacket).                                           *)
RequestsFindTheirWay ==
    [][PingPart => Ping!RequestsFindTheirWay]_vars

(* In the long run every write has returned, every loop of a closed device  *)
(* or stack has ended, every unwanted connection is closed and every        *)
(* handshake of a cancelled stack over, and every goroutine of a closed     *)
(* ping connection has ended; and again and again an ICMP request gives its *)
(* slot back and an idle ping destination its socket.                       *)
StacksSettle ==
    /\ <>[](/\ part = "io" => IO!WritersReturned
            /\ part = "loops" => Loops!EndedWhenClosed
            /\ part = "lifecycle" => Life!AllLoopsEnded
            /\ part = "forward" => Fwd!ConnsSettled
            /\ part = "unprivileged" => Unpriv!AllEnded)
    /\ \A k \in DOMAIN RequestAt \cup DOMAIN DestAt :
         []<>(/\ part = "icmp" /\ k \in DOMAIN RequestAt => ICMP!SlotIsBack(RequestAt[k])
              /\ part = "pingDests" /\ k \in DOMAIN DestAt => Ping!UsedOrClosed(DestAt[k]))
=============================================================================
