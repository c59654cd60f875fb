-------------------------- MODULE PacketChecksums --------------------------
(***************************************************************************)
(* What the stacks do to a packet they send back, and its checksums: TCP   *)
(* rewritten in place with incremental updates, resets and rejections made *)
(* from scratch, UDP answers, echo replies.                                *)
(*                                                                         *)
(* A packet is the 16-bit words its checksums see: two of each address,    *)
(* one for the rest of the IP header, two of ports (of an ICMP message:    *)
(* type and identifier), one each for the rest of the transport header,    *)
(* the payload and the protocol and length of the pseudo header.  W is the *)
(* number of values of a word, 2^16 in the code.                           *)
(***************************************************************************)
EXTENDS Naturals, Sequences

CONSTANTS W,       \* values of a word
          Addr,    \* addresses, pairs of words
          Port,    \* words that are ports
          S        \* sequence numbers, 2^32 in the code

Word == 0..(W - 1)
Kind == {"tcp", "udp", "icmp"}

VARIABLES offload,  \* txChecksumOffload
          in, out,  \* the packet from the device and the one to it
          op,       \* what made out
          segment, reset  \* the numbers of a TCP segment and of its reset

vars == <<offload, in, out, op, segment, reset>>

-----------------------------------------------------------------------------
Not(x) == W - 1 - x

Combine(a, b) == LET v == a + b IN (v + (v \div W)) % W

(* checksum.Checksum over words.                                           *)
Sum(ws) == LET r[i \in 0..Len(ws)] == IF i = 0 THEN 0 ELSE Combine(r[i - 1], ws[i]) IN r[Len(ws)]

checksumUpdate2ByteAlignedUint16(x, old, new) == IF old = new THEN x ELSE Combine(x, Combine(new, Not(old)))

checksumUpdate2ByteAlignedAddress(x, old, new) ==
    checksumUpdate2ByteAlignedUint16(checksumUpdate2ByteAlignedUint16(x, old[1], new[1]), old[2], new[2])

NormalizeUDPChecksum(x) == IF x = 0 THEN W - 1 ELSE x

(* The sums the code computes leave the checksum itself out.               *)
HeaderWords(p) == p.src \o p.dst \o <<p.hdr>>
TransportWords(p) == <<p.sport, p.dport, p.tail>>
PseudoWords(p) == p.src \o p.dst \o <<p.pseudo>>

IPv4CalculateChecksum(p) == Sum(HeaderWords(p))
TCPCalculateChecksum(p) == Sum(PseudoWords(p) \o TransportWords(p) \o <<p.data>>)
UDPCalculateChecksum(p) == Sum(PseudoWords(p) \o <<p.data>> \o TransportWords(p))
ICMPv4Checksum(p) == Not(Sum(<<p.data>> \o TransportWords(p)))
ICMPv6Checksum(p) == Not(Sum(PseudoWords(p) \o <<p.data>> \o TransportWords(p)))

(* What a receiver checks; a UDP packet of IPv4 may do without.            *)
IPv4IsChecksumValid(p) == Sum(HeaderWords(p) \o <<p.ipck>>) = W - 1
TCPIsChecksumValid(p) == Sum(PseudoWords(p) \o <<p.data>> \o TransportWords(p) \o <<p.ck>>) = W - 1
UDPValid(p) == IF p.ck = 0 THEN p.v = 4 ELSE TCPIsChecksumValid(p)
ICMPValid(p) == IF p.v = 4 THEN Sum(TransportWords(p) \o <<p.data, p.ck>>) = W - 1 ELSE TCPIsChecksumValid(p)

TransportValid(p) == CASE p.kind = "tcp" -> TCPIsChecksumValid(p) [] p.kind = "udp" -> UDPValid(p) [] p.kind = "icmp" -> ICMPValid(p)

-----------------------------------------------------------------------------
SetSourcePortWithChecksumUpdate(p, port) ==
    [p EXCEPT !.sport = port, !.ck = Not(checksumUpdate2ByteAlignedUint16(Not(p.ck), p.sport, port))]
SetDestinationPortWithChecksumUpdate(p, port) ==
    [p EXCEPT !.dport = port, !.ck = Not(checksumUpdate2ByteAlignedUint16(Not(p.ck), p.dport, port))]
UpdateChecksumPseudoHeaderAddress(p, old, new) ==
    [p EXCEPT !.ck = Not(checksumUpdate2ByteAlignedAddress(Not(p.ck), old, new))]
SetSourceAddressWithChecksumUpdate(p, new) ==
    [p EXCEPT !.src = new, !.ipck = Not(checksumUpdate2ByteAlignedAddress(Not(p.ipck), p.src, new))]
SetDestinationAddressWithChecksumUpdate(p, new) ==
    [p EXCEPT !.dst = new, !.ipck = Not(checksumUpdate2ByteAlignedAddress(Not(p.ipck), p.dst, new))]

(* ports is << >> when the ports stay.                                     *)
Ports(p, ports, off) ==
    CASE ports = << >> /\ ~off -> p [] ports = << >> /\ off -> [p EXCEPT !.ck = 0]
      [] ports # << >> /\ off -> [p EXCEPT !.sport = ports[1], !.dport = ports[2], !.ck = 0]
      [] ports # << >> /\ ~off -> SetDestinationPortWithChecksumUpdate(SetSourcePortWithChecksumUpdate(p, ports[1]), ports[2])

Pseudo(p, old, new, off) == IF off THEN p ELSE UpdateChecksumPseudoHeaderAddress(p, old, new)

rewriteIPv4TCP(p, off, src, dst, ports) ==
    LET a == IF src = p.src THEN p ELSE Pseudo(SetSourceAddressWithChecksumUpdate(p, src), p.src, src, off)
        b == IF dst = p.dst THEN a ELSE Pseudo(SetDestinationAddressWithChecksumUpdate(a, dst), p.dst, dst, off)
    IN Ports(b, ports, off)

rewriteIPv6TCP(p, off, src, dst, ports) ==
    LET a == IF src = p.src THEN p ELSE Pseudo([p EXCEPT !.src = src], p.src, src, off)
        b == IF dst = p.dst THEN a ELSE Pseudo([a EXCEPT !.dst = dst], p.dst, dst, off)
    IN Ports(b, ports, off)

-----------------------------------------------------------------------------
(* A packet back: addresses and ports swapped.                             *)
Swapped(p) == [p EXCEPT !.src = p.dst, !.dst = p.src]
Back(p) == [Swapped(p) EXCEPT !.sport = p.dport, !.dport = p.sport]

WithIPv4(p) == [p EXCEPT !.ipck = Not(IPv4CalculateChecksum(p))]

(* A reset has a header and no data.                                       *)
resetIPv4TCP(p, off) ==
    LET r == [Back(p) EXCEPT !.hdr = 1, !.tail = 2, !.data = 0, !.pseudo = 1, !.ck = 0]
    IN WithIPv4(IF off THEN r ELSE [r EXCEPT !.ck = Not(TCPCalculateChecksum(r))])
resetIPv6TCP(p, off) ==
    LET r == [Back(p) EXCEPT !.hdr = 1, !.tail = 2, !.data = 0, !.pseudo = 1, !.ck = 0]
    IN IF off THEN r ELSE [r EXCEPT !.ck = Not(TCPCalculateChecksum(r))]

(* An answer over UDP: the header of the request, the new payload, and the *)
(* source the handler names.                                               *)
Answered(p, from, port, payload, size) == [Back(p) EXCEPT !.src = from, !.sport = port, !.data = payload, !.pseudo = size]

systemUDPPacketWriter4(p, off, from, port, payload, size) ==
    LET r == Answered(p, from, port, payload, size)
    IN WithIPv4([r EXCEPT !.ck = IF off THEN 0 ELSE NormalizeUDPChecksum(Not(UDPCalculateChecksum(r)))])
systemUDPPacketWriter6(p, off, from, port, payload, size) ==
    LET r == Answered(p, from, port, payload, size)
    IN [r EXCEPT !.ck = IF off THEN 0 ELSE NormalizeUDPChecksum(Not(UDPCalculateChecksum(r)))]

(* gVisor leaves the checksum of IPv4 out and sends all ones for all ones. *)
UDPBackWriter(p, from, port, payload, size) ==
    LET r == Answered(p, from, port, payload, size)
        x == UDPCalculateChecksum(r)
    IN IF p.v = 4 THEN WithIPv4([r EXCEPT !.ck = 0])
       ELSE [r EXCEPT !.ck = IF x = W - 1 THEN x ELSE Not(x)]

(* Segments to a loopback address return with the checksum computed anew.  *)
TCPLoopback(p) ==
    LET r == IF p.v = 4 THEN SetSourceAddressWithChecksumUpdate(SetDestinationAddressWithChecksumUpdate(p, p.src), p.dst) ELSE Swapped(p)
    IN [r EXCEPT !.ck = Not(TCPCalculateChecksum(r))]

(* An echo reply; its type is the word sport.                              *)
EchoIPv4(p) == LET r == [Swapped(p) EXCEPT !.sport = 0] IN WithIPv4([r EXCEPT !.ck = ICMPv4Checksum(r)])
EchoIPv6(p) == LET r == [Swapped(p) EXCEPT !.sport = 0] IN [r EXCEPT !.ck = ICMPv6Checksum(r)]

(* A reply the ping connection has read goes to the source of the session, *)
(* which for IPv6 is the one the connection has summed it for.             *)
systemICMPDirectPacketWriter4(p, source) == WithIPv4([p EXCEPT !.dst = source])
systemICMPDirectPacketWriter6(p, source) == [p EXCEPT !.dst = source]

(* A rejection quotes the packet.  That of IPv4 sums the payload only: the *)
(* header it quotes as well sums to nothing.                               *)
Quoted(p) == Sum(HeaderWords(p) \o (IF p.v = 4 THEN <<p.ipck>> ELSE << >>) \o TransportWords(p) \o <<p.data, p.ck>>)
Rejection(p) == [Swapped(p) EXCEPT !.kind = "icmp", !.hdr = 1, !.sport = 1, !.dport = 0, !.tail = 0, !.pseudo = 1]
rejectIPv4WithICMP(p) ==
    LET r == Rejection(p)
        payload == Sum(TransportWords(p) \o <<p.data, p.ck>>)
    IN WithIPv4([r EXCEPT !.data = Quoted(p), !.ck = ICMPv4Checksum([r EXCEPT !.data = payload])])
rejectIPv6WithICMP(p) ==
    LET r == [Rejection(p) EXCEPT !.data = Quoted(p)] IN [r EXCEPT !.ck = ICMPv6Checksum(r)]

-----------------------------------------------------------------------------
(* Headers without a zero sum (they have a version and a protocol), with   *)
(* their checksums right; the transport's may be damaged.                  *)
Raw == [v : {4, 6}, kind : Kind, src : Addr, dst : Addr, hdr : {1}, sport : Port, dport : Port,
        tail : {0, 2}, data : Word, pseudo : {1}, ipck : {0}, ck : {0}]
Right(p) == LET q == WithIPv4(p)
            IN [q EXCEPT !.ck = CASE p.kind = "tcp" -> Not(TCPCalculateChecksum(p)) [] p.kind = "udp" -> NormalizeUDPChecksum(Not(UDPCalculateChecksum(p)))
                                  [] p.kind = "icmp" /\ p.v = 4 -> ICMPv4Checksum(p) [] p.kind = "icmp" /\ p.v = 6 -> ICMPv6Checksum(p)]

NoSegment == [seq |-> 0, ack |-> 0, syn |-> 0, fin |-> 0, acks |-> FALSE, len |-> 0]

TypeOK ==
    /\ offload \in BOOLEAN /\ in.kind \in Kind /\ op \in STRING
    /\ out.src \in Addr /\ out.dst \in Addr /\ {out.ck, out.ipck, out.data} \subseteq Word
    /\ reset.seq \in 0..(S - 1) /\ reset.ack \in 0..(S - 1)

Init ==
    /\ offload \in BOOLEAN /\ op = "none" /\ segment = NoSegment /\ reset = [seq |-> 0, ack |-> 0, acks |-> FALSE]
    /\ \E p \in Raw, bad \in {0, 1} : in = [Right(p) EXCEPT !.ck = (@ + bad) % W]
    /\ out = in

Sent(name, p) == op = "none" /\ op' = name /\ out' = p /\ UNCHANGED <<offload, in>>

RewriteTCP(src, dst, ports) ==
    /\ in.kind = "tcp" /\ UNCHANGED <<segment, reset>>
    /\ Sent("rewrite", IF in.v = 4 THEN rewriteIPv4TCP(in, offload, src, dst, ports) ELSE rewriteIPv6TCP(in, offload, src, dst, ports))

ResetNumbers(s) == IF s.acks THEN [seq |-> s.ack, ack |-> 0, acks |-> FALSE]
                   ELSE [seq |-> 0, ack |-> (s.seq + s.len + s.syn + s.fin) % S, acks |-> TRUE]

Segments == [seq : 0..(S - 1), ack : 0..(S - 1), syn : {0, 1}, fin : {0, 1}, acks : BOOLEAN, len : 0..2]

ResetTCP(s) ==
    /\ in.kind = "tcp" /\ segment' = s /\ reset' = ResetNumbers(s)
    /\ Sent("reset", IF in.v = 4 THEN resetIPv4TCP(in, offload) ELSE resetIPv6TCP(in, offload))

LoopTCP == in.kind = "tcp" /\ Sent("loopback", TCPLoopback(in)) /\ UNCHANGED <<segment, reset>>

AnswerUDP(from, port, payload, size) ==
    /\ in.kind = "udp" /\ UNCHANGED <<segment, reset>>
    /\ \/ in.v = 4 /\ Sent("answer", systemUDPPacketWriter4(in, offload, from, port, payload, size))
       \/ in.v = 6 /\ Sent("answer", systemUDPPacketWriter6(in, offload, from, port, payload, size))
       \/ Sent("gvisor", UDPBackWriter(in, from, port, payload, size))

AnswerEcho ==
    /\ in.kind = "icmp" /\ UNCHANGED <<segment, reset>>
    /\ Sent("echo", IF in.v = 4 THEN EchoIPv4(in) ELSE EchoIPv6(in))

RejectEcho ==
    /\ in.kind = "icmp" /\ UNCHANGED <<segment, reset>>
    /\ Sent("reject", IF in.v = 4 THEN rejectIPv4WithICMP(in) ELSE rejectIPv6WithICMP(in))

DirectReply(source) ==
    /\ in.kind = "icmp" /\ TransportValid(in) /\ UNCHANGED <<segment, reset>>
    /\ \/ in.v = 4 /\ Sent("direct", systemICMPDirectPacketWriter4(in, source))
       \/ in.v = 6 /\ source = in.dst /\ Sent("direct", systemICMPDirectPacketWriter6(in, source))

Next ==
    \/ \E src, dst \in Addr : RewriteTCP(src, dst, << >>) \/ \E ports \in Port \X Port : RewriteTCP(src, dst, ports)
    \/ \E s \in Segments : in.data = 0 /\ in.tail = 0 /\ ResetTCP(s)
    \/ \E source \in Addr : DirectReply(source)
    \/ LoopTCP \/ AnswerEcho \/ RejectEcho
    \/ \E from \in Addr, port \in Port, payload \in Word, size \in {1, 2} : AnswerUDP(from, port, payload, size)

Spec == Init /\ [][Next]_vars

-----------------------------------------------------------------------------
(* Whatever a stack sends back has an IPv4 header checksum its receiver    *)
(* accepts, and one of its transport unless the device is to compute it or *)
(* the client had sent a damaged segment.                                  *)
SentIsAccepted ==
    op # "none" =>
        /\ out.v = 4 => IPv4IsChecksumValid(out)
        /\ ~offload \/ op \in {"loopback", "gvisor", "echo", "reject", "direct"} =>
              TransportValid(out) \/ (op = "rewrite" /\ ~TransportValid(in))

(* A segment rewritten in place stays damaged if it was: the update does   *)
(* not put a right checksum over wrong data.                               *)
DamageStaysVisible == op = "rewrite" /\ ~offload => (TransportValid(out) <=> TransportValid(in))

(* With offload the field is zero, which the device takes as to be filled; *)
(* without, a UDP answer of the system stack never says "no checksum".     *)
ZeroMeansOffload ==
    /\ offload /\ op \in {"rewrite", "reset", "answer"} => out.ck = 0
    /\ ~offload /\ op = "answer" => out.ck # 0

(* A client takes the reset: in SYN-SENT it acknowledges all it has sent,  *)
(* afterwards it is the next byte the client expects.                      *)
ResetAccepted ==
    op = "reset" =>
        LET next == (segment.seq + segment.syn + segment.len + segment.fin) % S
        IN IF segment.acks THEN reset.seq = segment.ack ELSE reset.acks /\ reset.ack = next
=============================================================================
