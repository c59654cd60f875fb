---------------------------- MODULE PacketProofs ----------------------------
(***************************************************************************)
(* Proofs about the components that work on single packets: GSOSplit, the  *)
(* dispatch of packets by the four stacks and the partition of Mipstack's  *)
(* batches.  They are proofs about the specification of the run MCPackets, *)
(* for every value of its constants: a behaviour of it is one of a single  *)
(* component, so each component has an invariant of its own here, and what *)
(* the run checks of it follows.                                           *)
(***************************************************************************)
EXTENDS MCPackets, TLAPS

-----------------------------------------------------------------------------
(* GSOSplit (tun_offload.go).  The argument: after k passes the next       *)
(* segment starts k segment sizes behind the header, so there are fewer    *)
(* passes than bytes and the 16-bit product does not wrap.                 *)
\* In the loop the next segment starts where the last one ended, or behind
\* the end; the offsets grow by one segment size a pass.
SplitLoop ==
  /\ hdr < len /\ gso > 0
  /\ at = hdr + gso * Len(out)
  /\ Len(out) > 0 => out[Len(out)].to = (IF at > len THEN len ELSE at)
  /\ \A i \in 1 .. Len(out) : out[i].last <=> out[i].to = len
  /\ \A i \in 1 .. Len(out) : out[i].to = len => i = Len(out)

SplitInv ==
  /\ GSO!TypeOK /\ at \in Nat
  /\ GSO!SegmentsTile /\ GSO!SequenceMatchesData /\ GSO!FlagsOnLast
  /\ none \/ gso > 0
  /\ state \in {"start", "error"} => out = <<>>
  /\ state = "start" => at = 0
  /\ state = "loop" => SplitLoop

LEMMA SmallMod == ASSUME NEW w \in Nat \ {0}, NEW x \in 0 .. w - 1 PROVE x % w = x
  OBVIOUS
LEMMA OneMore == ASSUME NEW a \in Nat, NEW b \in Nat PROVE a * (b + 1) = a * b + a
  OBVIOUS
LEMMA Grows == ASSUME NEW a \in Nat \ {0}, NEW b \in Nat PROVE b <= a * b /\ a * b \in Nat
  OBVIOUS

LEMMA InitSplit == ASSUME GSO!SplitAssumption, GSO!Init PROVE SplitInv
<1> USE DEF GSO!SplitAssumption, GSO!Init
<1>1. out \in Seq(GSO!Segment) /\ Len(out) = 0
  OBVIOUS
<1>2. GSO!TypeOK
  BY <1>1 DEF GSO!TypeOK
<1> QED BY <1>1, <1>2 DEF SplitInv, GSO!SegmentsTile, GSO!SequenceMatchesData, GSO!FlagsOnLast

(* A packet that is refused, or copied whole. *)
LEMMA RefuseKeeps == ASSUME GSO!SplitAssumption, SplitInv, GSO!Refuse PROVE SplitInv'
  BY DEF GSO!SplitAssumption, SplitInv, GSO!Refuse, GSO!TypeOK, GSO!inputs, GSO!Segment,
         GSO!SegmentsTile, GSO!SequenceMatchesData, GSO!FlagsOnLast

LEMMA CopyWholeKeeps == ASSUME GSO!SplitAssumption, SplitInv, GSO!CopyWhole PROVE SplitInv'
<1> USE DEF GSO!SplitAssumption, GSO!CopyWhole, GSO!inputs, SplitInv
<1>1. /\ len \in 1 .. GSOWord /\ hdr \in Nat /\ hdr <= len /\ bufs \in Nat \ {0} /\ GSOWord \in Nat
      /\ hdr < GSOWord
  BY DEF GSO!TypeOK
<1>2. GSO!Whole \in GSO!Segment
  BY <1>1 DEF GSO!Whole, GSO!Segment
<1>3. out' \in Seq(GSO!Segment) /\ Len(out') = 1 /\ out'[1] = GSO!Whole
  BY <1>2
<1>4. GSO!TypeOK'
  BY <1>1, <1>3 DEF GSO!TypeOK, GSO!Segment
<1>5. GSO!SegmentsTile' /\ GSO!SequenceMatchesData' /\ GSO!FlagsOnLast'
  BY <1>1, <1>3 DEF GSO!Whole, GSO!SegmentsTile, GSO!SequenceMatchesData, GSO!FlagsOnLast
<1> QED BY <1>4, <1>5

(* The loop. *)
LEMMA EnterKeeps == ASSUME GSO!SplitAssumption, SplitInv, GSO!Enter PROVE SplitInv'
<1> USE DEF GSO!SplitAssumption, GSO!Enter, GSO!inputs, SplitInv
<1>1. /\ len \in 1 .. GSOWord /\ hdr \in Nat /\ gso \in Nat /\ hdr < len /\ gso > 0
  BY DEF GSO!TypeOK, GSO!Single
<1>2. Len(out) = 0 /\ gso * Len(out) = 0
  BY <1>1
<1>3. GSO!TypeOK'
  BY DEF GSO!TypeOK, GSO!Segment
<1>4. GSO!SegmentsTile' /\ GSO!SequenceMatchesData' /\ GSO!FlagsOnLast'
  BY <1>2 DEF GSO!SegmentsTile, GSO!SequenceMatchesData, GSO!FlagsOnLast
<1>5. SplitLoop'
  BY <1>1, <1>2 DEF SplitLoop
<1> QED BY <1>1, <1>3, <1>4, <1>5

(* The product of two uint16 values does not wrap: there are no more passes
   than bytes. *)
LEMMA OffsetExact ==
  ASSUME GSO!SplitAssumption, SplitInv, state = "loop", at < len
  PROVE  GSO!SeqOffset = at - hdr
<1>1. /\ len \in 1 .. GSOWord /\ hdr \in Nat /\ gso \in Nat \ {0} /\ Len(out) \in Nat /\ GSOWord \in Nat
      /\ at = hdr + gso * Len(out)
  BY DEF SplitInv, SplitLoop, GSO!TypeOK, GSO!SplitAssumption
<1>2. Len(out) <= gso * Len(out) /\ gso * Len(out) \in Nat
  BY <1>1, Grows
<1>3. gso * Len(out) \in 0 .. GSOWord - 1 /\ Len(out) \in 0 .. GSOWord - 1
  BY <1>1, <1>2
<1>4. GSO!U16(Len(out)) = Len(out) /\ GSO!U16(gso * Len(out)) = gso * Len(out)
  BY <1>1, <1>3, SmallMod DEF GSO!U16
<1> QED BY <1>1, <1>2, <1>4 DEF GSO!SeqOffset

LEMMA CutKeeps == ASSUME GSO!SplitAssumption, SplitInv, GSO!Cut PROVE SplitInv'
<1> USE DEF GSO!Cut, GSO!inputs
<1> DEFINE k == Len(out)
           s == [from |-> at, to |-> GSO!SegmentEnd, seq |-> GSO!SeqOffset,
                 last |-> GSO!IsLast, total |-> hdr + GSO!SegmentEnd - at]
<1>1. /\ len \in 1 .. GSOWord /\ hdr \in Nat /\ hdr < len /\ gso \in Nat \ {0} /\ k \in Nat
      /\ GSOWord \in Nat /\ bufs \in Nat /\ k < bufs /\ at \in Nat /\ at < len
      /\ at = hdr + gso * k /\ SplitLoop /\ state = "loop"
  BY DEF SplitInv, SplitLoop, GSO!TypeOK, GSO!SplitAssumption
<1>2. GSO!SeqOffset = at - hdr /\ gso * k \in Nat
  BY <1>1, OffsetExact, Grows
<1>3. GSO!SegmentEnd \in Nat /\ at < GSO!SegmentEnd /\ GSO!SegmentEnd <= len
  BY <1>1 DEF GSO!SegmentEnd
<1>4. s \in GSO!Segment
  <2>1. s.last \in BOOLEAN
    BY DEF GSO!IsLast
  <2>2. /\ at \in 0 .. GSOWord /\ GSO!SegmentEnd \in 0 .. GSOWord /\ GSO!SeqOffset \in 0 .. GSOWord - 1
        /\ hdr + GSO!SegmentEnd - at \in 0 .. 2 * GSOWord
    BY <1>1, <1>2, <1>3
  <2> QED BY <2>1, <2>2 DEF GSO!Segment
<1>5. out \in Seq(GSO!Segment)
  BY DEF SplitInv, GSO!TypeOK
<1>6. /\ out' \in Seq(GSO!Segment) /\ Len(out') = k + 1 /\ out'[k + 1] = s
      /\ \A i \in 1 .. k : out'[i] = out[i]
  BY <1>4, <1>5
<1>7. GSO!TypeOK' /\ at' \in Nat /\ (none \/ gso > 0)' /\ state' = "loop"
  <2>1. UNCHANGED <<len, hdr, gso, none, valid, bufs, n, state>> /\ at' = at + gso
    OBVIOUS
  <2>2. out' \in Seq(GSO!Segment) /\ Len(out') <= bufs
    BY <1>1, <1>6
  <2>3. GSO!TypeOK'
    BY <2>1, <2>2 DEF SplitInv, GSO!TypeOK, GSO!Segment
  <2> QED BY <1>1, <2>1, <2>3 DEF SplitInv
<1>8. at' = hdr + gso * (k + 1)
  BY <1>1, OneMore
<1>9. \A i \in 1 .. k : out[i].to # len /\ ~out[i].last
  BY <1>1 DEF SplitLoop
<1>10. k > 0 => out[k].to = at
  BY <1>1 DEF SplitLoop
<1>11. s.last <=> s.to = len
  BY DEF GSO!IsLast
<1>12. GSO!SegmentsTile'
  <2> SUFFICES ASSUME NEW i \in 1 .. k + 1
               PROVE  /\ out'[i].from = IF i = 1 THEN hdr ELSE out'[i - 1].to
                      /\ out'[i].from <= out'[i].to /\ out'[i].to <= len
    BY <1>6, <1>7 DEF GSO!SegmentsTile
  <2>1. CASE i \in 1 .. k
    <3>1. /\ out[i].from = IF i = 1 THEN hdr ELSE out[i - 1].to
          /\ out[i].from <= out[i].to /\ out[i].to <= len
      BY <1>1, <2>1 DEF SplitInv, GSO!SegmentsTile
    <3>2. i # 1 => i - 1 \in 1 .. k
      BY <1>1, <2>1
    <3> QED BY <1>6, <2>1, <3>1, <3>2
  <2>2. CASE i = k + 1
    <3>1. out'[i] = s /\ s.from = at /\ s.to = GSO!SegmentEnd
      BY <1>6, <2>2
    <3>2. CASE k = 0
      <4>1. at = hdr
        BY <1>1, <3>2
      <4> QED BY <1>1, <1>3, <2>2, <3>1, <3>2, <4>1
    <3>3. CASE k > 0
      <4>1. out'[k] = out[k] /\ out'[k].to = at /\ i - 1 = k /\ i # 1
        BY <1>1, <1>6, <1>10, <2>2, <3>3
      <4> QED BY <1>1, <1>3, <3>1, <4>1
    <3> QED BY <1>1, <3>2, <3>3
  <2> QED BY <1>1, <2>1, <2>2
<1>13. GSO!SequenceMatchesData'
  BY <1>1, <1>2, <1>6 DEF SplitInv, GSO!SequenceMatchesData
<1>14. GSO!FlagsOnLast'
  BY <1>1, <1>6, <1>7, <1>9, <1>11 DEF GSO!FlagsOnLast
<1>15. SplitLoop'
  <2>1. out'[k + 1].to = (IF at' > len THEN len ELSE at')
    BY <1>6 DEF GSO!SegmentEnd
  <2>2. \A i \in 1 .. k + 1 : (out'[i].last <=> out'[i].to = len) /\ (out'[i].to = len => i = k + 1)
    BY <1>1, <1>6, <1>9, <1>11
  <2> QED BY <1>1, <1>6, <1>8, <2>1, <2>2 DEF SplitLoop
<1> QED BY <1>7, <1>12, <1>13, <1>14, <1>15 DEF SplitInv

LEMMA TooManyKeeps == ASSUME GSO!SplitAssumption, SplitInv, GSO!TooMany PROVE SplitInv'
<1> USE DEF GSO!SplitAssumption, GSO!TooMany, GSO!inputs, SplitInv
<1>1. GSO!TypeOK'
  BY DEF GSO!TypeOK, GSO!Segment
<1> QED BY <1>1 DEF GSO!SegmentsTile, GSO!SequenceMatchesData, GSO!FlagsOnLast

LEMMA FinishKeeps == ASSUME GSO!SplitAssumption, SplitInv, GSO!Finish PROVE SplitInv'
<1> USE DEF GSO!SplitAssumption, GSO!Finish, GSO!inputs, SplitInv
<1>1. GSO!TypeOK'
  BY DEF GSO!TypeOK, GSO!Segment
<1>2. Len(out) \in Nat /\ len \in Nat /\ hdr \in Nat /\ gso \in Nat
  BY DEF GSO!TypeOK
<1>3. Len(out) > 0
  <2>1. Len(out) = 0 => gso * Len(out) = 0
    BY <1>2
  <2> QED BY <1>2, <2>1 DEF SplitLoop
<1>4. out[Len(out)].to = len /\ out[Len(out)].last
  BY <1>2, <1>3 DEF SplitLoop
<1> QED BY <1>1, <1>4 DEF GSO!SegmentsTile, GSO!SequenceMatchesData, GSO!FlagsOnLast

LEMMA SplitStep == ASSUME GSO!SplitAssumption, SplitInv, [GSO!Next]_(GSO!vars) PROVE SplitInv'
<1>1. CASE GSO!Next
  BY <1>1, RefuseKeeps, CopyWholeKeeps, EnterKeeps, CutKeeps, TooManyKeeps, FinishKeeps DEF GSO!Next
<1>2. CASE UNCHANGED GSO!vars
  BY <1>2 DEF GSO!vars, GSO!inputs, SplitInv, SplitLoop, GSO!TypeOK, GSO!Segment, GSO!SegmentsTile,
              GSO!SequenceMatchesData, GSO!FlagsOnLast
<1> QED BY <1>1, <1>2

(* In the run every state is the component's. *)
LEMMA SplitInvariant == Spec => [](part = "gso" => SplitInv)
<1>1. Init => (part = "gso" => SplitInv)
  BY SplitAssumed, InitSplit DEF Init
<1>2. (part = "gso" => SplitInv) /\ [Next]_vars => (part = "gso" => SplitInv)'
  <2> SUFFICES ASSUME part = "gso" => SplitInv, [Next]_vars, part' = "gso" PROVE SplitInv'
    OBVIOUS
  <2>1. part = "gso" /\ [GSO!Next]_(GSO!vars)
    BY DEF Next, vars, GSO!vars, GSO!inputs, len, hdr, gso, none, valid, bufs, at, out, n, state
  <2> QED BY <2>1, SplitAssumed, SplitStep
<1> QED BY <1>1, <1>2, PTL DEF Spec

(* GSOSplit is exact for every packet of up to GSOWord bytes, every header and
   segment size and every number of buffers: the segments tile the payload,
   their sequence numbers are their positions although they are computed in
   16 bits, and FIN and PSH are on the last one only. *)
THEOREM SplitTheorem == Spec => []SplitIsExact
<1>1. (part = "gso" => SplitInv) => SplitIsExact
  BY DEF SplitInv, SplitIsExact, GSO!SplitIsExact
<1> QED BY <1>1, SplitInvariant, PTL
-----------------------------------------------------------------------------
(* The stacks' dispatch (processPacket, DeliverNetworkPacket, the UDP       *)
(* writers).  The argument: a writer that is kept is its own client's.     *)
\* A writer knows its own client.
WritersOwn == \A c \in Dispatched!Clients : writers[c] \in {None, c}

DispatchInv ==
  /\ Dispatched!TypeOK /\ WritersOwn
  /\ writers = [c \in Dispatched!Clients |-> writers[c]]
  /\ Dispatched!AnswersReachTheirClient /\ Dispatched!AnswersNameTheirSource

LEMMA InitDispatch == ASSUME Dispatched!ClientAssumption, Dispatched!Init PROVE DispatchInv
  BY DEF Dispatched!Init, DispatchInv, Dispatched!TypeOK, Dispatched!Stacks, Dispatched!Fates, WritersOwn, 
     Dispatched!AnswersReachTheirClient, Dispatched!AnswersNameTheirSource

LEMMA PacketTyped ==
  ASSUME NEW p \in Dispatched!Packets
  PROVE  /\ p.version \in {4, 6, 0} /\ p.valid \in BOOLEAN /\ p.client \in Dispatched!Clients
         /\ p.dst \in {"unicast", "broadcast", "multicast", "loopback"}
         /\ p.proto \in {"tcp", "udp", "icmp", "other"}
         /\ p.tcp \in {"flow", "full", "listener", "stranger"}
         /\ p.fragment \in {"none", "first", "later"} /\ p.ext \in BOOLEAN /\ p.empty \in BOOLEAN
         /\ p.version = 0 => ~p.valid
         /\ p.version = 6 <=> p.client \in Clients6
         /\ p.version = 6 => p.dst # "broadcast"
         /\ p.ext => p.version = 6 /\ p.valid /\ p.tcp = "flow"
         /\ ~p.valid => p.dst = "unicast" /\ p.proto = "udp" /\ p.fragment = "none"
         /\ p.tcp # "flow" => p.valid /\ p.proto = "tcp" /\ p.dst = "unicast" /\ p.fragment = "none"
         /\ p.empty => p.proto = "udp" /\ p.fragment = "none"
  BY DEF Dispatched!Packets

LEMMA FateTyped ==
  ASSUME NEW p \in Dispatched!Packets, NEW s \in Dispatched!Stacks
  PROVE  Dispatched!Fate(s, p) \in Dispatched!Fates
  BY PacketTyped
     DEF Dispatched!Stacks, Dispatched!Fates, Dispatched!Fate, Dispatched!SystemPacket, Dispatched!MixedPacket, Dispatched!DeliverNetworkPacket,
         Dispatched!MipsPacket, Dispatched!SystemIPv4, Dispatched!SystemIPv6, Dispatched!MixedIPv4, Dispatched!MixedIPv6,
         Dispatched!SystemUDP4, Dispatched!SystemUDP6, Dispatched!SystemTCP4, Dispatched!SystemTCP6, Dispatched!TCPFate,
         Dispatched!Unicast, Dispatched!TransportProtocol6, Dispatched!MipsTCP, Dispatched!Walks

(* What gets to the handler as a datagram, said once for all four stacks. *)
LEMMA DatagramsOver ==
  ASSUME NEW p \in Dispatched!Packets, NEW s \in Dispatched!Stacks
  PROVE  Dispatched!HandsOverUDP(s, p) <=>
           /\ p.valid /\ Dispatched!Unicast(p) /\ p.fragment = "none" /\ p.proto = "udp"
           /\ s = "system" => ~p.empty
           /\ p.ext => Dispatched!Walks(s)
<1> USE PacketTyped
    DEF Dispatched!HandsOverUDP, Dispatched!HandlePacket, Dispatched!forwardUDP, Dispatched!StackTakes, Dispatched!Fate, Dispatched!SystemPacket, Dispatched!MixedPacket, Dispatched!DeliverNetworkPacket,
         Dispatched!MipsPacket, Dispatched!SystemIPv4, Dispatched!SystemIPv6, Dispatched!MixedIPv4, Dispatched!MixedIPv6,
         Dispatched!SystemUDP4, Dispatched!SystemUDP6, Dispatched!SystemTCP4, Dispatched!SystemTCP6, Dispatched!TCPFate,
         Dispatched!Unicast, Dispatched!TransportProtocol6, Dispatched!MipsTCP, Dispatched!Walks
<1>1. CASE s = "system"
  BY <1>1
<1>2. CASE s = "mixed"
  BY <1>2
<1>3. CASE s = "gvisor"
  BY <1>3
<1>4. CASE s = "mipstack"
  BY <1>4
<1> QED BY <1>1, <1>2, <1>3, <1>4 DEF Dispatched!Stacks

(* And as a connection, for packets a stack can serve. *)
LEMMA SegmentsOver ==
  ASSUME NEW p \in Dispatched!Packets, NEW s \in Dispatched!Stacks,
         p.valid, p.fragment = "none", p.dst # "loopback", p.version \in families, p.tcp = "flow"
  PROVE  Dispatched!HandsOverTCP(s, p) <=>
           Dispatched!Unicast(p) /\ p.proto = "tcp" /\ (p.ext => Dispatched!Walks(s))
<1> USE PacketTyped
    DEF Dispatched!HandsOverTCP, Dispatched!StackTakes, Dispatched!Fate, Dispatched!SystemPacket, Dispatched!MixedPacket, Dispatched!DeliverNetworkPacket,
         Dispatched!MipsPacket, Dispatched!SystemIPv4, Dispatched!SystemIPv6, Dispatched!MixedIPv4, Dispatched!MixedIPv6,
         Dispatched!SystemUDP4, Dispatched!SystemUDP6, Dispatched!SystemTCP4, Dispatched!SystemTCP6, Dispatched!TCPFate,
         Dispatched!Unicast, Dispatched!TransportProtocol6, Dispatched!MipsTCP, Dispatched!Walks
<1>1. CASE s = "system"
  BY <1>1
<1>2. CASE s = "mixed"
  BY <1>2
<1>3. CASE s = "gvisor"
  BY <1>3
<1>4. CASE s = "mipstack"
  BY <1>4
<1> QED BY <1>1, <1>2, <1>3, <1>4 DEF Dispatched!Stacks
-----------------------------------------------------------------------------
LEMMA ReadKeeps == ASSUME DispatchInv, Dispatched!Read PROVE DispatchInv'
  BY DEF DispatchInv, Dispatched!Read, Dispatched!TypeOK, Dispatched!Fates, WritersOwn,
         Dispatched!AnswersReachTheirClient, Dispatched!AnswersNameTheirSource

LEMMA ProcessKeeps == ASSUME DispatchInv, Dispatched!Process PROVE DispatchInv'
<1>1. buffer \in Dispatched!Packets /\ buffer.client \in Dispatched!Clients /\ stack \in Dispatched!Stacks
  BY PacketTyped DEF Dispatched!Process, DispatchInv, Dispatched!TypeOK
<1>2. fate' \in Dispatched!Fates
  BY <1>1, FateTyped DEF Dispatched!Process
<1>3. writers' = [c \in Dispatched!Clients |-> writers'[c]] /\ WritersOwn'
  BY <1>1 DEF Dispatched!Process, Dispatched!WithWriter, Dispatched!Writer, DispatchInv, WritersOwn
<1>4. Dispatched!TypeOK'
  BY <1>2, <1>3 DEF Dispatched!Process, DispatchInv, Dispatched!TypeOK, WritersOwn
<1> QED BY <1>3, <1>4 DEF Dispatched!Process, DispatchInv, Dispatched!AnswersReachTheirClient,
                          Dispatched!AnswersNameTheirSource

LEMMA DetachFailsKeeps == ASSUME DispatchInv, Dispatched!DetachFails PROVE DispatchInv'
  BY DEF DispatchInv, Dispatched!DetachFails, Dispatched!TypeOK, Dispatched!Fates, WritersOwn,
         Dispatched!AnswersReachTheirClient, Dispatched!AnswersNameTheirSource

(* The writer's client is the one asked for, and the source it writes is the
   one named, mapped, or as much of it as the system stack can write. *)
LEMMA WritePacketKeeps ==
  ASSUME Dispatched!ClientAssumption, DispatchInv,
         NEW c \in Dispatched!Clients, NEW d \in Dispatched!Destinations, Dispatched!WritePacket(c, d)
  PROVE  DispatchInv'
<1>1. writers[c] = c /\ c # "buffer" /\ (c \in Clients4 <=> c \notin Clients6)
  BY DEF Dispatched!ClientAssumption, Dispatched!Clients, DispatchInv, WritersOwn, Dispatched!WritePacket
<1>2. UNCHANGED <<stack, families, buffer, fate, writers>>
  BY DEF Dispatched!WritePacket
<1>3. CASE Dispatched!Source(c, d) = None
  <2>1. sent' = None
    BY <1>3 DEF Dispatched!WritePacket
  <2> QED BY <1>2, <2>1 DEF DispatchInv, Dispatched!TypeOK, WritersOwn,
                            Dispatched!AnswersReachTheirClient, Dispatched!AnswersNameTheirSource
<1>4. CASE Dispatched!Source(c, d) # None
  <2>1. sent' = [for |-> c, answer |-> d, from |-> Dispatched!Source(c, d), to |-> c]
    BY <1>1, <1>4 DEF Dispatched!WritePacket
  <2>2. stack \in Dispatched!Stacks
    BY DEF DispatchInv, Dispatched!TypeOK
  <2>3. Dispatched!Source(c, d) \in Dispatched!Sources
    BY <1>4, <2>2 DEF Dispatched!Source, Dispatched!SystemSource, Dispatched!UDPBackSource, Dispatched!MipsSource,
                      Dispatched!Sources, Dispatched!Destinations, Dispatched!Stacks
  <2>4. \/ Dispatched!Source(c, d) = d /\ (d = "inet4" <=> c \in Clients4)
        \/ Dispatched!Source(c, d) = "mapped" /\ d = "inet4" /\ c \in Clients6
        \/ stack = "system" /\ Dispatched!Source(c, d) \in {"cut", "overlaid", "client"}
    BY <1>1, <1>4, <2>2 DEF Dispatched!Source, Dispatched!SystemSource, Dispatched!UDPBackSource, Dispatched!MipsSource,
                      Dispatched!Destinations, Dispatched!Stacks, Dispatched!Clients
  <2>5. Dispatched!TypeOK'
    BY <1>2, <2>1, <2>3 DEF DispatchInv, Dispatched!TypeOK
  <2>6. Dispatched!AnswersReachTheirClient' /\ Dispatched!AnswersNameTheirSource'
    BY <1>2, <2>1, <2>4 DEF Dispatched!AnswersReachTheirClient, Dispatched!AnswersNameTheirSource
  <2> QED BY <1>2, <2>5, <2>6 DEF DispatchInv, WritersOwn
<1> QED BY <1>3, <1>4

LEMMA DispatchStep ==
  ASSUME Dispatched!ClientAssumption, DispatchInv, [Dispatched!Next]_(Dispatched!vars)
  PROVE  DispatchInv'
<1>1. CASE Dispatched!Next
  BY <1>1, ReadKeeps, ProcessKeeps, DetachFailsKeeps, WritePacketKeeps DEF Dispatched!Next
<1>2. CASE UNCHANGED Dispatched!vars
  BY <1>2 DEF Dispatched!vars, DispatchInv, Dispatched!TypeOK, WritersOwn,
              Dispatched!AnswersReachTheirClient, Dispatched!AnswersNameTheirSource
<1> QED BY <1>1, <1>2

LEMMA DispatchInvariant == Spec => [](part = "dispatch" => DispatchInv)
<1>1. Init => (part = "dispatch" => DispatchInv)
  BY ClientsAssumed, InitDispatch DEF Init
<1>2. (part = "dispatch" => DispatchInv) /\ [Next]_vars => (part = "dispatch" => DispatchInv)'
  <2> SUFFICES ASSUME part = "dispatch" => DispatchInv, [Next]_vars, part' = "dispatch" PROVE DispatchInv'
    OBVIOUS
  <2>1. part = "dispatch" /\ [Dispatched!Next]_(Dispatched!vars)
    BY DEF Next, vars, Dispatched!vars, stack, families, buffer, fate, writers, sent
  <2> QED BY <2>1, ClientsAssumed, DispatchStep
<1> QED BY <1>1, <1>2, PTL DEF Spec

(* An answer goes to the client it is for, under the address the handler
   names, whatever has been read since: for any set of clients. *)
THEOREM AnswersTheorem == Spec => []AnswersGoHome
<1>1. (part = "dispatch" => DispatchInv) => AnswersGoHome
  BY DEF DispatchInv, AnswersGoHome, Dispatched!AnswersGoHome
<1> QED BY <1>1, DispatchInvariant, PTL

(* The four stacks hand the same packets to the handler, and only whole ones
   to unicast addresses, for every packet and every set of clients; those with
   extension headers gVisor and Mipstack both take, and the others neither. *)
THEOREM StacksTheorem == Spec => []StacksAgree
<1>1. DispatchInv => Dispatched!OnlyWholeUnicast
  BY ClientsAssumed, DatagramsOver DEF DispatchInv, Dispatched!TypeOK, Dispatched!OnlyWholeUnicast
<1>2. DispatchInv => Dispatched!StacksAgree
  BY ClientsAssumed, DatagramsOver, SegmentsOver DEF DispatchInv, Dispatched!TypeOK, Dispatched!StacksAgree
<1>3. (part = "dispatch" => DispatchInv) => StacksAgree
  BY <1>1, <1>2 DEF DispatchInv, StacksAgree
<1> QED BY <1>3, DispatchInvariant, PTL
-----------------------------------------------------------------------------
(* Mipstack.processPackets.  The argument: the entries before the turn are  *)
(* two sorted runs, the stack's and the device's, and no round writes to an *)
(* entry whose turn has not come.                                          *)
Slot == [p : Mips!PacketFields, id : Nat]

BatchTyped ==
  /\ input \in Seq(BatchPackets) /\ Len(input) \in 1 .. MaxBatchLen
  /\ slots \in [1 .. Len(input) -> Slot]
  /\ \A k \in 1 .. Len(input) : slots[k].id \in 1 .. Len(input)
  /\ device \in Devices /\ failAt \in Nat \ {0}
  /\ turn \in 1 .. Len(input) + 1
  /\ stackCount \in Nat /\ packetCount \in Nat /\ stackCount <= packetCount /\ packetCount < turn
  /\ pc \in {"loop", "write", "done"}

\* The entries whose turn has not come are as they were read.
Unread == \A k \in turn .. Len(input) : slots[k] = Mips!Buffer(input[k], k)

\* Of those before, the ones for the stack are in front, in order.
StackPart ==
  /\ \A k \in 1 .. stackCount :
       /\ slots[k].id \in Mips!ForStack /\ slots[k].id < turn
       /\ slots[k].p = input[slots[k].id]
  /\ \A j, k \in 1 .. stackCount : j < k => slots[j].id < slots[k].id
  /\ \A j \in Mips!ForStack : j < turn => \E k \in 1 .. stackCount : slots[k].id = j

\* And the ones to send back follow them, in order.
DevicePart ==
  /\ \A k \in stackCount + 1 .. packetCount :
       /\ slots[k].id \in Mips!ForDevice /\ slots[k].id < turn
       /\ slots[k].p = Mips!Swapped(input[slots[k].id])
  /\ \A j, k \in stackCount + 1 .. packetCount : j < k => slots[j].id < slots[k].id
  /\ \A j \in Mips!ForDevice : j < turn => \E k \in stackCount + 1 .. packetCount : slots[k].id = j

BatchInv ==
  /\ BatchTyped /\ Unread /\ StackPart /\ DevicePart
  /\ pc # "loop" => turn = Len(input) + 1 /\ toStack = SubSeq(slots, 1, stackCount)
  /\ pc # "done" => written = <<>>
  /\ Mips!OnlyValidReturns /\ Mips!WrittenWithHeader
-----------------------------------------------------------------------------
LEMMA InitBatch == ASSUME Mips!BatchAssumption, Mips!Init PROVE BatchInv
<1> USE DEF Mips!BatchAssumption
<1>1. PICK m \in 1 .. MaxBatchLen : input \in [1 .. m -> BatchPackets]
  BY DEF Mips!Init
<1>2. input \in Seq(BatchPackets) /\ Len(input) = m /\ DOMAIN input = 1 .. m
  BY <1>1
<1>3. \A k \in 1 .. m : Mips!Buffer(input[k], k) \in Slot
  BY <1>1 DEF Mips!Buffer, Slot
<1>4. slots = [k \in 1 .. m |-> Mips!Buffer(input[k], k)]
  BY <1>2 DEF Mips!Init
<1>5. turn = 1 /\ stackCount = 0 /\ packetCount = 0 /\ pc = "loop" /\ written = <<>>
      /\ device \in Devices /\ failAt \in Nat \ {0}
  BY DEF Mips!Init
<1>6. BatchTyped
  <2>1. slots \in [1 .. Len(input) -> Slot]
    BY <1>2, <1>3, <1>4
  <2>2. \A k \in 1 .. Len(input) : slots[k].id \in 1 .. Len(input)
    BY <1>2, <1>4 DEF Mips!Buffer
  <2> QED BY <1>2, <1>5, <2>1, <2>2 DEF BatchTyped
<1>7. Unread
  BY <1>2, <1>4, <1>5 DEF Unread
<1>8. StackPart /\ DevicePart
  BY <1>2, <1>5 DEF StackPart, DevicePart, Mips!ForStack, Mips!ForDevice
<1>9. DOMAIN written = {}
  BY <1>5
<1> QED BY <1>5, <1>6, <1>7, <1>8, <1>9
        DEF BatchInv, Mips!OnlyValidReturns, Mips!WrittenWithHeader

(* What a round of the loop reads. *)
LEMMA EntryRead ==
  ASSUME Mips!BatchAssumption, BatchInv, Mips!Sort
  PROVE  /\ turn \in 1 .. Len(input) /\ Len(slots) = Len(input) /\ DOMAIN slots = 1 .. Len(input)
         /\ DOMAIN input = 1 .. Len(input)
         /\ input[turn] \in Mips!PacketFields
         /\ slots[turn] = Mips!Buffer(input[turn], turn)
         /\ slots[turn].p = input[turn] /\ slots[turn].id = turn
         /\ Len(input) \in Nat
<1>1. Len(input) \in Nat /\ DOMAIN input = 1 .. Len(input)
  BY DEF BatchInv, BatchTyped
<1>2. DOMAIN slots = 1 .. Len(input) /\ Len(slots) = Len(input)
  BY <1>1 DEF BatchInv, BatchTyped
<1>3. turn \in 1 .. Len(input)
  BY <1>1, <1>2 DEF BatchInv, BatchTyped, Mips!Sort
<1>4. input[turn] \in Mips!PacketFields
  BY <1>3 DEF BatchInv, BatchTyped, Mips!BatchAssumption
<1>5. slots[turn] = Mips!Buffer(input[turn], turn)
  BY <1>1, <1>3 DEF BatchInv, Unread
<1> QED BY <1>1, <1>2, <1>3, <1>4, <1>5 DEF Mips!Buffer

LEMMA SwappedTyped ==
  ASSUME NEW p \in Mips!PacketFields
  PROVE  /\ Mips!Swapped(p) \in Mips!PacketFields
         /\ Mips!Swapped(p).version = p.version /\ Mips!Swapped(p).dst = p.dst
         /\ Mips!Swapped(p).parses = p.parses /\ Mips!Swapped(p).fragment = p.fragment
         /\ Mips!Swapped(p).protocol = p.protocol /\ Mips!Swapped(p).upper = p.upper
         /\ Mips!Swapped(p).segment = p.segment
         /\ Mips!Swapped(p).swapped \/ Mips!Reflects(p)
  BY DEF Mips!Swapped, Mips!PacketFields

(* A packet that is dropped leaves the slots alone. *)
LEMMA SortDropKeeps ==
  ASSUME Mips!BatchAssumption, BatchInv, Mips!Sort, Mips!Drops(slots[turn].p),
         UNCHANGED <<slots, stackCount, packetCount>>
  PROVE  BatchInv'
<1>1. turn \in 1 .. Len(input) /\ slots[turn].p = input[turn] /\ Len(input) \in Nat
  BY EntryRead
<1>2. turn' = turn + 1 /\ pc = "loop" /\ UNCHANGED <<input, device, pc, toStack, written, failAt>>
  BY DEF Mips!Sort
<1>3. turn \notin Mips!ForStack /\ turn \notin Mips!ForDevice
  BY <1>1 DEF Mips!ForStack, Mips!ForDevice
<1>4. Mips!ForStack' = Mips!ForStack /\ Mips!ForDevice' = Mips!ForDevice
  BY <1>2 DEF Mips!ForStack, Mips!ForDevice
<1>5. Mips!ForStack \subseteq Nat /\ Mips!ForDevice \subseteq Nat
  BY DEF Mips!ForStack, Mips!ForDevice, BatchInv, BatchTyped
<1>6. BatchTyped'
  BY <1>1, <1>2 DEF BatchInv, BatchTyped
<1>7. Unread'
  BY <1>1, <1>2 DEF BatchInv, Unread
<1>8. StackPart'
  BY <1>1, <1>2, <1>3, <1>4, <1>5 DEF BatchInv, BatchTyped, StackPart
<1>9. DevicePart'
  <2>1. \A k \in stackCount + 1 .. packetCount :
          /\ slots[k].id \in Mips!ForDevice /\ slots[k].id < turn + 1
          /\ slots[k].p = Mips!Swapped(input[slots[k].id])
    <3> TAKE k \in stackCount + 1 .. packetCount
    <3>1. /\ slots[k].id \in Mips!ForDevice /\ slots[k].id < turn
          /\ slots[k].p = Mips!Swapped(input[slots[k].id])
      BY DEF BatchInv, DevicePart
    <3>2. slots[k].id < turn + 1
      <4>1. \A x \in Nat : x < turn => x < turn + 1
        BY <1>1
      <4>2. slots[k].id \in Nat
        BY <1>5, <3>1
      <4> QED BY <3>1, <4>1, <4>2
    <3> QED BY <3>1, <3>2
  <2>2. \A j \in Mips!ForDevice : j < turn + 1 => j < turn
    BY <1>1, <1>3, <1>5
  <2>3. \A j \in Mips!ForDevice : j < turn + 1 =>
          \E k \in stackCount + 1 .. packetCount : slots[k].id = j
    BY <2>2 DEF BatchInv, DevicePart
  <2>4. \A j, k \in stackCount + 1 .. packetCount : j < k => slots[j].id < slots[k].id
    BY DEF BatchInv, DevicePart
  <2> QED BY <1>2, <1>4, <2>1, <2>3, <2>4 DEF DevicePart
<1>10. Mips!OnlyValidReturns' /\ Mips!WrittenWithHeader'
  BY <1>2 DEF BatchInv, Mips!OnlyValidReturns, Mips!WrittenWithHeader, Mips!HeaderSize
<1> QED BY <1>2, <1>6, <1>7, <1>8, <1>9, <1>10 DEF BatchInv

(* A packet to send back is put behind the others. *)
LEMMA SortReturnKeeps ==
  ASSUME Mips!BatchAssumption, BatchInv, Mips!Sort,
         ~Mips!Drops(slots[turn].p), Mips!Returns(slots[turn].p),
         slots' = [slots EXCEPT ![packetCount + 1] =
                     [slots[turn] EXCEPT !.p = Mips!Swapped(slots[turn].p)]],
         packetCount' = packetCount + 1, UNCHANGED stackCount
  PROVE  BatchInv'
<1> DEFINE new == [slots[turn] EXCEPT !.p = Mips!Swapped(slots[turn].p)]
           c == packetCount + 1
<1>1. /\ turn \in 1 .. Len(input) /\ slots[turn].p = input[turn] /\ slots[turn].id = turn
      /\ Len(input) \in Nat /\ DOMAIN input = 1 .. Len(input) /\ input[turn] \in Mips!PacketFields
      /\ slots[turn] = Mips!Buffer(input[turn], turn)
  BY EntryRead
<1>2. turn' = turn + 1 /\ pc = "loop" /\ UNCHANGED <<input, device, pc, toStack, written, failAt>>
  BY DEF Mips!Sort
<1>3. turn \notin Mips!ForStack /\ turn \in Mips!ForDevice
  BY <1>1 DEF Mips!ForStack, Mips!ForDevice
<1>4. Mips!ForStack' = Mips!ForStack /\ Mips!ForDevice' = Mips!ForDevice
  BY <1>2 DEF Mips!ForStack, Mips!ForDevice
<1>5. Mips!ForStack \subseteq Nat /\ Mips!ForDevice \subseteq Nat
  BY DEF Mips!ForStack, Mips!ForDevice, BatchInv, BatchTyped
<1>6. /\ stackCount \in Nat /\ packetCount \in Nat /\ stackCount <= packetCount
      /\ c \in 1 .. turn /\ c \in 1 .. Len(input)
  BY <1>1 DEF BatchInv, BatchTyped
<1>7. new = [p |-> Mips!Swapped(input[turn]), id |-> turn]
  BY <1>1 DEF Mips!Buffer
<1>8. slots'[c] = new /\ \A k \in 1 .. Len(input) : k # c => slots'[k] = slots[k]
  BY <1>6 DEF BatchInv, BatchTyped
<1>9. new \in Slot /\ new.id = turn /\ new.p = Mips!Swapped(input[turn])
  BY <1>1, <1>7, SwappedTyped DEF Slot
<1> HIDE DEF new
<1>10. BatchTyped'
  <2>1. slots' \in [1 .. Len(input) -> Slot]
    BY <1>9 DEF BatchInv, BatchTyped, new
  <2>2. \A k \in 1 .. Len(input) : slots'[k].id \in 1 .. Len(input)
    BY <1>1, <1>8, <1>9 DEF BatchInv, BatchTyped
  <2> QED BY <1>1, <1>2, <1>6, <2>1, <2>2 DEF BatchInv, BatchTyped
<1>11. Unread'
  BY <1>1, <1>2, <1>6, <1>8 DEF BatchInv, Unread
<1>12. StackPart'
  <2>1. \A k \in 1 .. stackCount : slots'[k] = slots[k]
    BY <1>1, <1>6, <1>8
  <2> QED BY <1>1, <1>2, <1>3, <1>4, <1>5, <1>6, <2>1 DEF BatchInv, StackPart
<1>13. DevicePart'
  <2>1. \A k \in stackCount + 1 .. packetCount : slots'[k] = slots[k]
    BY <1>1, <1>6, <1>8
  <2>2. ASSUME NEW k \in stackCount + 1 .. c
        PROVE  /\ slots'[k].id \in Mips!ForDevice /\ slots'[k].id < turn + 1
               /\ slots'[k].p = Mips!Swapped(input[slots'[k].id])
    <3>1. CASE k = c
      BY <1>1, <1>3, <1>8, <1>9, <3>1
    <3>2. CASE k # c
      <4>1. k \in stackCount + 1 .. packetCount
        BY <1>6, <3>2
      <4>2. slots[k].id \in Nat
        BY <1>5, <4>1 DEF BatchInv, DevicePart
      <4>3. /\ slots[k].id \in Mips!ForDevice /\ slots[k].id < turn
            /\ slots[k].p = Mips!Swapped(input[slots[k].id])
        BY <4>1 DEF BatchInv, DevicePart
      <4>4. slots'[k] = slots[k] /\ slots[k].id < turn + 1
        BY <1>1, <2>1, <4>1, <4>2, <4>3
      <4> QED BY <4>3, <4>4
    <3> QED BY <3>1, <3>2
  <2>3. ASSUME NEW j \in stackCount + 1 .. c, NEW k \in stackCount + 1 .. c, j < k
        PROVE  slots'[j].id < slots'[k].id
    <3>1. j \in stackCount + 1 .. packetCount
      BY <1>6, <2>3
    <3>2. CASE k = c
      <4>1. slots[j].id < turn
        BY <3>1 DEF BatchInv, DevicePart
      <4> QED BY <1>8, <1>9, <2>1, <3>1, <3>2, <4>1
    <3>3. CASE k # c
      <4>1. k \in stackCount + 1 .. packetCount
        BY <1>6, <3>3
      <4> QED BY <2>1, <2>3, <3>1, <4>1 DEF BatchInv, DevicePart
    <3> QED BY <3>2, <3>3
  <2>4. ASSUME NEW j \in Mips!ForDevice, j < turn + 1
        PROVE  \E k \in stackCount + 1 .. c : slots'[k].id = j
    <3>1. CASE j = turn
      <4>1. c \in stackCount + 1 .. c
        BY <1>6
      <4> QED BY <1>8, <1>9, <3>1, <4>1
    <3>2. CASE j < turn
      <4>1. PICK k \in stackCount + 1 .. packetCount : slots[k].id = j
        BY <3>2 DEF BatchInv, DevicePart
      <4>2. k \in stackCount + 1 .. c
        BY <1>6
      <4> QED BY <2>1, <4>1, <4>2
    <3> QED BY <1>1, <1>5, <2>4, <3>1, <3>2
  <2> QED BY <1>2, <1>4, <2>2, <2>3, <2>4 DEF DevicePart
<1>14. Mips!OnlyValidReturns' /\ Mips!WrittenWithHeader'
  BY <1>2 DEF BatchInv, Mips!OnlyValidReturns, Mips!WrittenWithHeader, Mips!HeaderSize
<1> QED BY <1>2, <1>10, <1>11, <1>12, <1>13, <1>14 DEF BatchInv

(* A packet for the stack is put between the two parts: the ones to send
   back move up by one, over an entry whose turn has been. *)
LEMMA SortStackKeeps ==
  ASSUME Mips!BatchAssumption, BatchInv, Mips!Sort,
         ~Mips!Drops(slots[turn].p), ~Mips!Returns(slots[turn].p),
         slots' = [Mips!Shifted(slots, stackCount, packetCount) EXCEPT ![stackCount + 1] = slots[turn]],
         packetCount' = packetCount + 1, stackCount' = stackCount + 1
  PROVE  BatchInv'
<1> DEFINE new == slots[turn]
           a == stackCount + 1
           c == packetCount + 1
<1>1. /\ turn \in 1 .. Len(input) /\ new.p = input[turn] /\ new.id = turn
      /\ Len(input) \in Nat /\ DOMAIN input = 1 .. Len(input) /\ DOMAIN slots = 1 .. Len(input)
  BY EntryRead
<1>2. turn' = turn + 1 /\ pc = "loop" /\ UNCHANGED <<input, device, pc, toStack, written, failAt>>
  BY DEF Mips!Sort
<1>3. turn \in Mips!ForStack /\ turn \notin Mips!ForDevice
  BY <1>1 DEF Mips!ForStack, Mips!ForDevice
<1>4. Mips!ForStack' = Mips!ForStack /\ Mips!ForDevice' = Mips!ForDevice
  BY <1>2 DEF Mips!ForStack, Mips!ForDevice
<1>5. Mips!ForStack \subseteq Nat /\ Mips!ForDevice \subseteq Nat
  BY DEF Mips!ForStack, Mips!ForDevice, BatchInv, BatchTyped
<1>6. /\ stackCount \in Nat /\ packetCount \in Nat /\ stackCount <= packetCount
      /\ a \in 1 .. c /\ c \in 1 .. turn /\ c \in 1 .. Len(input) /\ new \in Slot
  BY <1>1 DEF BatchInv, BatchTyped
<1>7. slots' = [k \in 1 .. Len(input) |->
                  IF k = a THEN new ELSE IF k \in a + 1 .. c THEN slots[k - 1] ELSE slots[k]]
  <2>1. (stackCount + 2) .. (packetCount + 1) = a + 1 .. c
    BY <1>6
  <2>2. Mips!Shifted(slots, stackCount, packetCount)
          = [k \in 1 .. Len(input) |-> IF k \in a + 1 .. c THEN slots[k - 1] ELSE slots[k]]
    BY <1>1, <2>1, Zenon DEF Mips!Shifted
  <2> QED BY <2>2
<1>8. /\ slots'[a] = new
      /\ \A k \in 1 .. stackCount : slots'[k] = slots[k]
      /\ \A k \in stackCount + 1 .. packetCount : slots'[k + 1] = slots[k]
      /\ \A k \in turn + 1 .. Len(input) : slots'[k] = slots[k]
  BY <1>1, <1>6, <1>7
<1>9. BatchTyped'
  <2>1. \A k \in 1 .. Len(input) : k \in a + 1 .. c => k - 1 \in 1 .. Len(input)
    BY <1>6
  <2>2. slots' \in [1 .. Len(input) -> Slot]
    BY <1>6, <1>7, <2>1 DEF BatchInv, BatchTyped
  <2>3. \A k \in 1 .. Len(input) : slots'[k].id \in 1 .. Len(input)
    BY <1>1, <1>7, <2>1 DEF BatchInv, BatchTyped
  <2> QED BY <1>1, <1>2, <1>6, <2>2, <2>3 DEF BatchInv, BatchTyped
<1> HIDE DEF new
<1>10. Unread'
  BY <1>1, <1>2, <1>6, <1>8 DEF BatchInv, Unread
<1>11. StackPart'
  <2>1. ASSUME NEW k \in 1 .. a
        PROVE  /\ slots'[k].id \in Mips!ForStack /\ slots'[k].id < turn + 1
               /\ slots'[k].p = input[slots'[k].id]
    <3>1. CASE k = a
      BY <1>1, <1>3, <1>8, <3>1
    <3>2. CASE k # a
      <4>1. k \in 1 .. stackCount
        BY <1>6, <3>2
      <4>2. slots[k].id \in Nat
        BY <1>5, <4>1 DEF BatchInv, StackPart
      <4> QED BY <1>1, <1>8, <4>1, <4>2 DEF BatchInv, StackPart
    <3> QED BY <3>1, <3>2
  <2>2. ASSUME NEW j \in 1 .. a, NEW k \in 1 .. a, j < k
        PROVE  slots'[j].id < slots'[k].id
    <3>1. j \in 1 .. stackCount
      BY <1>6, <2>2
    <3>2. CASE k = a
      BY <1>1, <1>8, <3>1, <3>2 DEF BatchInv, StackPart
    <3>3. CASE k # a
      <4>1. k \in 1 .. stackCount
        BY <1>6, <3>3
      <4> QED BY <1>8, <2>2, <3>1, <4>1 DEF BatchInv, StackPart
    <3> QED BY <3>2, <3>3
  <2>3. ASSUME NEW j \in Mips!ForStack, j < turn + 1
        PROVE  \E k \in 1 .. a : slots'[k].id = j
    <3>1. CASE j = turn
      <4>1. a \in 1 .. a
        BY <1>6
      <4> QED BY <1>1, <1>8, <3>1, <4>1
    <3>2. CASE j < turn
      <4>1. PICK k \in 1 .. stackCount : slots[k].id = j
        BY <3>2 DEF BatchInv, StackPart
      <4>2. k \in 1 .. a
        BY <1>6
      <4> QED BY <1>8, <4>1, <4>2
    <3> QED BY <1>1, <1>5, <2>3, <3>1, <3>2
  <2> QED BY <1>2, <1>4, <2>1, <2>2, <2>3 DEF StackPart
<1>12. DevicePart'
  <2>1. \A k \in a + 1 .. c : k - 1 \in stackCount + 1 .. packetCount /\ slots'[k] = slots[k - 1]
    BY <1>6, <1>8
  <2>2. ASSUME NEW k \in a + 1 .. c
        PROVE  /\ slots'[k].id \in Mips!ForDevice /\ slots'[k].id < turn + 1
               /\ slots'[k].p = Mips!Swapped(input[slots'[k].id])
    <3>1. slots[k - 1].id \in Nat
      BY <1>5, <2>1 DEF BatchInv, DevicePart
    <3> QED BY <1>1, <2>1, <3>1 DEF BatchInv, DevicePart
  <2>3. ASSUME NEW j \in a + 1 .. c, NEW k \in a + 1 .. c, j < k
        PROVE  slots'[j].id < slots'[k].id
    <3>1. j - 1 < k - 1
      BY <2>3, <1>6
    <3> QED BY <2>1, <3>1 DEF BatchInv, DevicePart
  <2>4. ASSUME NEW j \in Mips!ForDevice, j < turn + 1
        PROVE  \E k \in a + 1 .. c : slots'[k].id = j
    <3>1. j < turn
      BY <1>1, <1>3, <1>5, <2>4
    <3>2. PICK k \in stackCount + 1 .. packetCount : slots[k].id = j
      BY <3>1 DEF BatchInv, DevicePart
    <3>3. k + 1 \in a + 1 .. c /\ slots'[k + 1] = slots[k]
      BY <1>6, <1>8
    <3> QED BY <3>2, <3>3
  <2> QED BY <1>2, <1>4, <2>2, <2>3, <2>4 DEF DevicePart
<1>13. Mips!OnlyValidReturns' /\ Mips!WrittenWithHeader'
  BY <1>2 DEF BatchInv, Mips!OnlyValidReturns, Mips!WrittenWithHeader, Mips!HeaderSize
<1> QED BY <1>2, <1>9, <1>10, <1>11, <1>12, <1>13 DEF BatchInv

LEMMA SortKeeps == ASSUME Mips!BatchAssumption, BatchInv, Mips!Sort PROVE BatchInv'
<1>1. \/ Mips!Drops(slots[turn].p) /\ UNCHANGED <<slots, stackCount, packetCount>>
      \/ /\ ~Mips!Drops(slots[turn].p) /\ Mips!Returns(slots[turn].p)
         /\ slots' = [slots EXCEPT ![packetCount + 1] =
                        [slots[turn] EXCEPT !.p = Mips!Swapped(slots[turn].p)]]
         /\ packetCount' = packetCount + 1 /\ UNCHANGED stackCount
      \/ /\ ~Mips!Drops(slots[turn].p) /\ ~Mips!Returns(slots[turn].p)
         /\ slots' = [Mips!Shifted(slots, stackCount, packetCount)
                        EXCEPT ![stackCount + 1] = slots[turn]]
         /\ packetCount' = packetCount + 1 /\ stackCount' = stackCount + 1
  BY Zenon DEF Mips!Sort
<1> QED BY <1>1, SortDropKeeps, SortReturnKeeps, SortStackKeeps
-----------------------------------------------------------------------------
(* The loop is over: the stack gets the first part. *)
LEMMA GiveStackKeeps == ASSUME Mips!BatchAssumption, BatchInv, Mips!GiveStack PROVE BatchInv'
<1>1. /\ toStack' = SubSeq(slots, 1, stackCount) /\ pc = "loop" /\ pc' = "write" /\ turn > Len(slots)
      /\ UNCHANGED <<input, device, slots, turn, stackCount, packetCount, written, failAt>>
  BY DEF Mips!GiveStack
<1>2. Len(slots) = Len(input)
  BY DEF BatchInv, BatchTyped
<1>3. turn = Len(input) + 1
  BY <1>1, <1>2 DEF BatchInv, BatchTyped
<1>4. BatchTyped' /\ Unread'
  BY <1>1 DEF BatchInv, BatchTyped, Unread
<1>5. StackPart' /\ DevicePart'
  BY <1>1 DEF BatchInv, StackPart, DevicePart, Mips!ForStack, Mips!ForDevice
<1>6. Mips!OnlyValidReturns' /\ Mips!WrittenWithHeader'
  BY <1>1 DEF BatchInv, Mips!OnlyValidReturns, Mips!WrittenWithHeader, Mips!HeaderSize
<1> QED BY <1>1, <1>3, <1>4, <1>5, <1>6 DEF BatchInv

(* The device gets the other one, or its beginning. *)
LEMMA WritePacketsKeeps == ASSUME Mips!BatchAssumption, BatchInv, Mips!WritePackets PROVE BatchInv'
<1> DEFINE back == SubSeq(slots, stackCount + 1, packetCount)
           most == IF Mips!Batches \/ failAt > Len(back) THEN Len(back) ELSE failAt - 1
<1>1. /\ pc = "write" /\ pc' = "done" /\ written' = [k \in 1 .. most |-> Mips!Frame(back[k])]
      /\ UNCHANGED <<input, device, slots, turn, stackCount, packetCount, toStack, failAt>>
  BY DEF Mips!WritePackets
<1>2. /\ stackCount \in Nat /\ packetCount \in Nat /\ stackCount <= packetCount
      /\ packetCount <= Len(input) /\ Len(input) \in Nat /\ failAt \in Nat \ {0}
      /\ DOMAIN input = 1 .. Len(input)
  BY DEF BatchInv, BatchTyped
<1>3. slots \in Seq(Slot) /\ Len(slots) = Len(input)
  BY <1>2 DEF BatchInv, BatchTyped
<1>4. /\ Len(back) = packetCount - stackCount
      /\ \A k \in 1 .. packetCount - stackCount : back[k] = slots[stackCount + k]
  BY <1>2, <1>3
<1>5. most \in Nat /\ most <= packetCount - stackCount
  BY <1>2, <1>4
<1>6. ASSUME NEW k \in DOMAIN written'
      PROVE  \E j \in Mips!ForDevice :
               /\ written'[k].p = Mips!Swapped(input[j])
               /\ written'[k].header = Mips!Header(Mips!Swapped(input[j]))
               /\ written'[k].room = Mips!Room
  <2>1. k \in 1 .. most
    BY <1>1
  <2>2. k \in 1 .. packetCount - stackCount /\ stackCount + k \in stackCount + 1 .. packetCount
    BY <1>2, <1>5, <2>1
  <2>3. written'[k] = Mips!Frame(slots[stackCount + k])
    BY <1>1, <1>4, <2>1, <2>2
  <2> DEFINE j == slots[stackCount + k].id
  <2>4. j \in Mips!ForDevice /\ slots[stackCount + k].p = Mips!Swapped(input[j])
    BY <2>2 DEF BatchInv, DevicePart
  <2> QED BY <2>3, <2>4 DEF Mips!Frame
<1>7. ASSUME NEW j \in Mips!ForDevice
      PROVE  input[j] \in Mips!PacketFields /\ ~Mips!Drops(input[j]) /\ Mips!Returns(input[j])
  BY DEF Mips!ForDevice, Mips!BatchAssumption, BatchInv, BatchTyped
<1>8. Mips!OnlyValidReturns'
  <2> SUFFICES ASSUME NEW k \in DOMAIN written'
               PROVE  LET p == written'[k].p
                      IN p.parses /\ (p.swapped \/ Mips!Reflects(p))
                         /\ (Mips!IsLoopback(p) =>
                               "tcp" \in {p.protocol, p.upper} /\ (p.segment \/ p.fragment # "none"))
    BY DEF Mips!OnlyValidReturns
  <2>1. PICK j \in Mips!ForDevice : written'[k].p = Mips!Swapped(input[j])
    BY <1>6
  <2> DEFINE q == input[j]
  <2>2. q \in Mips!PacketFields /\ ~Mips!Drops(q) /\ Mips!Returns(q)
    BY <1>7
  <2> HIDE DEF q
  <2>3. /\ Mips!Swapped(q).dst = q.dst /\ Mips!Swapped(q).parses = q.parses
        /\ Mips!Swapped(q).fragment = q.fragment /\ Mips!Swapped(q).protocol = q.protocol
        /\ Mips!Swapped(q).upper = q.upper /\ Mips!Swapped(q).segment = q.segment
        /\ Mips!Swapped(q).swapped \/ Mips!Reflects(q)
    BY <2>2, SwappedTyped
  <2>4. q.parses
    BY <2>2 DEF Mips!Drops, Mips!Returns
  <2>5. Mips!IsLoopback(q) => "tcp" \in {q.protocol, q.upper} /\ (q.segment \/ q.fragment # "none")
    BY <2>2 DEF Mips!Returns, Mips!Reflects, Mips!IsLoopback, Mips!ValidLoopback
  <2>6. /\ Mips!Reflects(Mips!Swapped(q)) <=> Mips!Reflects(q)
        /\ Mips!IsLoopback(Mips!Swapped(q)) <=> Mips!IsLoopback(q)
    BY <2>3 DEF Mips!Reflects, Mips!IsLoopback
  <2>7. written'[k].p = Mips!Swapped(q)
    BY <2>1 DEF q
  <2> QED BY <2>3, <2>4, <2>5, <2>6, <2>7
<1>9. Mips!WrittenWithHeader'
  <2> SUFFICES ASSUME NEW k \in DOMAIN written'
               PROVE  /\ written'[k].room >= Mips!HeaderSize
                      /\ device.kind = "darwin" =>
                           written'[k].header = (IF written'[k].p.version = 6 THEN 30 ELSE 2)
    BY <1>1 DEF Mips!WrittenWithHeader, Mips!HeaderSize
  <2>1. PICK j \in Mips!ForDevice :
               /\ written'[k].p = Mips!Swapped(input[j])
               /\ written'[k].header = Mips!Header(Mips!Swapped(input[j]))
               /\ written'[k].room = Mips!Room
    BY <1>6
  <2>2. device.offset \in Nat
    BY DEF Mips!BatchAssumption, BatchInv, BatchTyped
  <2>3. Mips!HeaderSize \in Nat
    BY DEF Mips!HeaderSize
  <2>4. Mips!Room >= Mips!HeaderSize
    BY <2>2, <2>3 DEF Mips!Room
  <2> QED BY <2>1, <2>4 DEF Mips!Header, Mips!Family
<1>10. BatchTyped' /\ Unread'
  BY <1>1 DEF BatchInv, BatchTyped, Unread
<1>11. StackPart' /\ DevicePart'
  BY <1>1 DEF BatchInv, StackPart, DevicePart, Mips!ForStack, Mips!ForDevice
<1>12. (pc # "loop" => turn = Len(input) + 1 /\ toStack = SubSeq(slots, 1, stackCount))'
  BY <1>1 DEF BatchInv
<1> QED BY <1>1, <1>8, <1>9, <1>10, <1>11, <1>12 DEF BatchInv

LEMMA BatchStep ==
  ASSUME Mips!BatchAssumption, BatchInv, [Mips!Next]_(Mips!vars)
  PROVE  BatchInv'
<1>1. CASE Mips!Sort \/ Mips!GiveStack \/ Mips!WritePackets
  BY <1>1, SortKeeps, GiveStackKeeps, WritePacketsKeeps
<1>2. CASE UNCHANGED Mips!vars
  <2> USE <1>2 DEF Mips!vars
  <2>1. BatchTyped' /\ Unread'
    BY DEF BatchInv, BatchTyped, Unread
  <2>2. StackPart' /\ DevicePart'
    BY DEF BatchInv, StackPart, DevicePart, Mips!ForStack, Mips!ForDevice
  <2>3. Mips!OnlyValidReturns' /\ Mips!WrittenWithHeader'
    BY DEF BatchInv, Mips!OnlyValidReturns, Mips!WrittenWithHeader, Mips!HeaderSize
  <2> QED BY <2>1, <2>2, <2>3 DEF BatchInv
<1> QED BY <1>1, <1>2 DEF Mips!Next, Mips!Done

LEMMA BatchExact == ASSUME Mips!BatchAssumption, BatchInv PROVE Mips!PartitionIsExact
<1> SUFFICES ASSUME pc # "loop" PROVE Mips!PartitionIsExact
  BY DEF Mips!PartitionIsExact
<1> DEFINE back == SubSeq(slots, stackCount + 1, packetCount)
<1>1. /\ stackCount \in Nat /\ packetCount \in Nat /\ stackCount <= packetCount
      /\ packetCount <= Len(input) /\ Len(input) \in Nat /\ turn = Len(input) + 1
      /\ toStack = SubSeq(slots, 1, stackCount)
  BY DEF BatchInv, BatchTyped
<1>2. slots \in Seq(Slot) /\ Len(slots) = Len(input)
  BY <1>1 DEF BatchInv, BatchTyped
<1>3. DOMAIN toStack = 1 .. stackCount /\ \A k \in 1 .. stackCount : toStack[k] = slots[k]
  BY <1>1, <1>2
<1>4. /\ DOMAIN back = 1 .. packetCount - stackCount
      /\ \A k \in 1 .. packetCount - stackCount : back[k] = slots[stackCount + k]
  BY <1>1, <1>2
<1>5. /\ \A j \in Mips!ForStack : j \in Nat /\ j < turn
      /\ \A j \in Mips!ForDevice : j \in Nat /\ j < turn
  BY <1>1 DEF BatchInv, BatchTyped, Mips!ForStack, Mips!ForDevice
<1>6. Mips!Ids(toStack) = Mips!ForStack
  <2>1. ASSUME NEW x \in Mips!Ids(toStack) PROVE x \in Mips!ForStack
    BY <1>3 DEF Mips!Ids, BatchInv, StackPart
  <2>2. ASSUME NEW x \in Mips!ForStack PROVE x \in Mips!Ids(toStack)
    <3>1. PICK k \in 1 .. stackCount : slots[k].id = x
      BY <1>5 DEF BatchInv, StackPart
    <3> QED BY <1>3, <3>1 DEF Mips!Ids
  <2> QED BY <2>1, <2>2
<1>7. Mips!InOrder(toStack) /\ \A k \in DOMAIN toStack : toStack[k].p = input[toStack[k].id]
  BY <1>3 DEF Mips!InOrder, BatchInv, StackPart
<1>8. \A k \in 1 .. packetCount - stackCount : stackCount + k \in stackCount + 1 .. packetCount
  BY <1>1
<1>9. Mips!Ids(back) = Mips!ForDevice
  <2>1. ASSUME NEW x \in Mips!Ids(back) PROVE x \in Mips!ForDevice
    <3>1. PICK k \in 1 .. packetCount - stackCount : x = back[k].id
      BY <1>4 DEF Mips!Ids
    <3>2. x = slots[stackCount + k].id
      BY <1>4, <3>1
    <3> QED BY <1>8, <3>2 DEF BatchInv, DevicePart
  <2>2. ASSUME NEW x \in Mips!ForDevice PROVE x \in Mips!Ids(back)
    <3>1. PICK k \in stackCount + 1 .. packetCount : slots[k].id = x
      BY <1>5 DEF BatchInv, DevicePart
    <3>2. k - stackCount \in 1 .. packetCount - stackCount /\ stackCount + (k - stackCount) = k
      BY <1>1
    <3> QED BY <1>4, <3>1, <3>2 DEF Mips!Ids
  <2> QED BY <2>1, <2>2
<1>10. Mips!InOrder(back)
  <2> SUFFICES ASSUME NEW j \in DOMAIN back, NEW k \in DOMAIN back, j < k
               PROVE  back[j].id < back[k].id
    BY DEF Mips!InOrder
  <2>1. stackCount + j < stackCount + k
    BY <1>1, <1>4
  <2>2. slots[stackCount + j].id < slots[stackCount + k].id
    BY <1>4, <1>8, <2>1 DEF BatchInv, DevicePart
  <2>3. back[j] = slots[stackCount + j] /\ back[k] = slots[stackCount + k]
    BY <1>4
  <2> HIDE DEF back
  <2> QED BY <2>2, <2>3
<1> QED BY <1>6, <1>7, <1>9, <1>10 DEF Mips!PartitionIsExact

LEMMA FragmentsStay == ASSUME Mips!PartitionIsExact PROVE Mips!FragmentsTogether
<1> SUFFICES ASSUME pc # "loop", NEW j \in DOMAIN input, NEW k \in DOMAIN input,
                    Mips!Siblings(input[j], input[k])
             PROVE  /\ (input[j].upper = input[j].protocol) =>
                         (j \in Mips!Ids(toStack) <=> k \in Mips!Ids(toStack))
                    /\ (input[j].protocol # "tcp") => k \in Mips!Ids(toStack)
  BY DEF Mips!FragmentsTogether
<1>1. Mips!Ids(toStack) = Mips!ForStack
  BY DEF Mips!PartitionIsExact
<1>2. Mips!Returns(input[k]) <=> input[j].protocol = "tcp"
  BY DEF Mips!Siblings, Mips!Returns, Mips!Reflects, Mips!IsLoopback, Mips!ValidLoopback
<1>3. Mips!Returns(input[j]) <=> input[j].upper = "tcp"
  BY DEF Mips!Siblings, Mips!Returns, Mips!Reflects, Mips!IsLoopback, Mips!ValidLoopback
<1>4. ~Mips!Drops(input[j]) /\ ~Mips!Drops(input[k])
  BY DEF Mips!Siblings
<1> QED BY <1>1, <1>2, <1>3, <1>4 DEF Mips!ForStack

LEMMA BatchTypeOK == ASSUME Mips!BatchAssumption, BatchInv PROVE Mips!TypeOK
<1>1. /\ Len(input) \in 1 .. MaxBatchLen /\ MaxBatchLen \in Nat /\ turn \in 1 .. Len(input) + 1
      /\ stackCount \in Nat /\ packetCount \in Nat
      /\ stackCount <= packetCount /\ packetCount < turn
  BY DEF BatchInv, BatchTyped, Mips!BatchAssumption
<1>2. /\ turn \in 1 .. MaxBatchLen + 1 /\ stackCount \in 0 .. MaxBatchLen
      /\ packetCount \in stackCount .. MaxBatchLen /\ packetCount < turn
  BY <1>1
<1>3. DOMAIN slots = 1 .. Len(input) /\ DOMAIN input = 1 .. Len(input)
  BY DEF BatchInv, BatchTyped
<1>4. \A k \in DOMAIN slots : slots[k].id \in DOMAIN input
  BY <1>3 DEF BatchInv, BatchTyped
<1> QED BY <1>2, <1>4 DEF BatchInv, BatchTyped, Mips!TypeOK

LEMMA BatchInvariant == Spec => [](part = "mips" => BatchInv)
<1>1. Init => (part = "mips" => BatchInv)
  BY BatchAssumed, InitBatch DEF Init
<1>2. (part = "mips" => BatchInv) /\ [Next]_vars => (part = "mips" => BatchInv)'
  <2> SUFFICES ASSUME part = "mips" => BatchInv, [Next]_vars, part' = "mips" PROVE BatchInv'
    OBVIOUS
  <2>1. part = "mips" /\ [Mips!Next]_(Mips!vars)
    BY DEF Next, vars, Mips!vars, input, device, slots, turn, stackCount, packetCount, pc, toStack, written, failAt
  <2> QED BY <2>1, BatchAssumed, BatchStep
<1> QED BY <1>1, <1>2, PTL DEF Spec

(* processPackets splits every batch exactly, in one pass and in place: the
   stack and the device get their packets, all of them, once and in order. *)
THEOREM PartitionTheorem == Spec => []PartitionIsExact
<1>1. BatchInv => /\ Mips!PartitionIsExact /\ Mips!OnlyValidReturns
                  /\ Mips!FragmentsTogether /\ Mips!WrittenWithHeader
  BY BatchAssumed, BatchExact, FragmentsStay DEF BatchInv
<1>2. BatchInv => Mips!TypeOK
  BY BatchAssumed, BatchTypeOK
<1>3. (part = "mips" => BatchInv) => PartitionIsExact
  BY <1>1, <1>2 DEF PartitionIsExact
<1> QED BY <1>3, BatchInvariant, PTL
=============================================================================
