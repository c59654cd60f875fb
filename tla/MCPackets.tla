----------------------------- MODULE MCPackets -----------------------------
(* One run for the components that compute on packets: the segmentation and *)
(* coalescing of the Linux device, the checksums, the rewriting of a ping,  *)
(* the dispatch of packets and the partition of mipstack's batches.  They   *)
(* share no state, so a behaviour is of one of them: part says which, and   *)
(* the variables v1, v2, ... are that component's.  The components that     *)
(* PacketProofs proves about take their constants from the configuration,   *)
(* and their variables have their names here, too.                          *)
EXTENDS Integers, Sequences

CONSTANTS Parts,  \* the components this run checks
          None,
          GSOWord, Bufs, MinHdr,                        \* GSOSplit
          Clients4, Clients6,                           \* Dispatch
          BatchPackets, MaxBatchLen, Devices, MaxFail   \* MipsPackets

\* GRO: one TCP flow in depth, one UDP flow in depth, and both mixed.
Segment(seq, len, flags, hdr, csum) ==
    [proto |-> "tcp", flow |-> "t1", hdr |-> hdr, seq |-> seq, len |-> len, flags |-> flags,
     csum |-> csum, room |-> 5, whole |-> TRUE]
Datagram(flow, len, hdr, csum) ==
    [proto |-> "udp", flow |-> flow, hdr |-> hdr, seq |-> 0, len |-> len, flags |-> "none",
     csum |-> csum, room |-> 5, whole |-> TRUE]

TCPKinds == {Segment(s, l, "ack", 1, "ok") : s \in {0, 1, 2, 14}, l \in 1 .. 2}
            \cup {Segment(s, 1, "push", 1, "ok") : s \in {0, 1, 2}}
            \cup {Segment(2, 1, "ack", 2, "ok"), Segment(2, 1, "fin", 1, "ok")}
UDPKinds == {Datagram("u1", l, 1, c) : l \in 1 .. 3, c \in {"ok", "zero"}}
            \cup {Datagram("u1", 1, 2, "ok"), Datagram("u2", 1, 1, "ok")}
MixedKinds == {Segment(s, 1, "ack", 1, "ok") : s \in 0 .. 2} \cup {Segment(1, 0, "ack", 1, "ok")}
              \cup {[Segment(1, 1, "ack", 1, "ok") EXCEPT !.flow = "t2"], [Segment(1, 1, "ack", 1, "ok") EXCEPT !.whole = FALSE]}
              \cup {Datagram("u1", 2, 1, "ok"), Datagram("u1", 0, 1, "ok")}
Trusted == {TCPKinds, UDPKinds, MixedKinds}

\* With validation: some checksums are wrong.
Validated == {{Segment(s, l, "ack", 1, c) : s \in 0 .. 2, l \in 1 .. 2, c \in {"ok", "bad"}},
              {Datagram("u1", l, 1, c) : l \in 1 .. 2, c \in {"ok", "zero", "bad"}}}

\* Checksum: every length up to 20 and those around the blocks, in patterns
\* that carry everywhere, nowhere, from one end and unevenly, and every
\* sequence of up to four extreme bytes.
Base == 8
Lengths == (0 .. 20) \cup {31, 32, 33, 63, 64, 65, 127, 128}
Pattern(p, i, n) ==
    CASE p = 1 -> Base - 1 [] p = 2 -> (i * i + 3 * i) % Base
      [] p = 3 -> IF i = n THEN Base - 1 ELSE 0 [] p = 4 -> IF i = 1 THEN 1 ELSE Base - 1
ByteStrings == {[i \in 1 .. n |-> Pattern(p, i, n)] : p \in 1 .. 4, n \in Lengths}
               \cup UNION {[1 .. n -> {0, 1, Base - 1}] : n \in 1 .. 4}

\* PacketChecksums: words of four values, addresses at the ends.
WordAddresses == {<<0, 1>>, <<1, 3>>, <<3, 0>>}

\* MipsPackets: one packet of each way through the loop, and the fragments of an
\* IPv4 segment, of an IPv6 segment and of one behind destination options.
P(v, whole, dst, parses, fragment, protocol, upper, segment) ==
    [version |-> v, whole |-> whole, dst |-> dst, parses |-> parses, fragment |-> fragment,
     protocol |-> protocol, upper |-> upper, segment |-> segment, swapped |-> FALSE]
MipsKinds ==
    { P(4, FALSE, "global", FALSE, "none", "tcp", "tcp", FALSE),
      P(4, TRUE, "global", TRUE, "none", "tcp", "tcp", TRUE),
      P(6, TRUE, "nonunicast", TRUE, "none", "udp", "udp", FALSE),
      P(4, TRUE, "broadcast", FALSE, "none", "udp", "udp", FALSE),
      P(6, TRUE, "loopback", TRUE, "none", "options", "tcp", TRUE),
      P(6, TRUE, "loopback", TRUE, "none", "tcp", "tcp", FALSE),
      P(4, TRUE, "loopback", TRUE, "first", "tcp", "tcp", FALSE),
      P(4, TRUE, "loopback", TRUE, "later", "tcp", "tcp", FALSE),
      P(6, TRUE, "loopback", TRUE, "first", "options", "tcp", FALSE),
      P(6, TRUE, "loopback", TRUE, "later", "options", "none", FALSE),
      P(4, TRUE, "loopback", TRUE, "none", "udp", "udp", TRUE) }
MipsDevices ==
    { [kind |-> "linux_gso", offset |-> 10], [kind |-> "linux_gso", offset |-> 0],
      [kind |-> "darwin", offset |-> 4], [kind |-> "darwin", offset |-> 2],
      [kind |-> "darwin_x", offset |-> 0], [kind |-> "other", offset |-> 0] }

-----------------------------------------------------------------------------
VARIABLES part,  \* which component this behaviour is of
          v1, v2, v3, v4, v5, v6, v7, v8, v9, v10, v11  \* its state

vars == <<part, v1, v2, v3, v4, v5, v6, v7, v8, v9, v10, v11>>

\* GRO without validation of checksums, batches of one and of four packets.
Trusting == INSTANCE GRO WITH
    PacketSets <- Trusted, Sizes <- {1, 4}, SkipValues <- {TRUE}, Enabled <- {"tcp", "udp"},
    Word <- 8, SeqSpace <- 16,
    offered <- v1, size <- v2, skip <- v3, given <- v4, bufs <- v5, hdrs <- v6, tcp <- v7,
    udp <- v8, scan <- v9, toWrite <- v10, pc <- v11

\* GRO with it.
Checking == INSTANCE GRO WITH
    PacketSets <- Validated, Sizes <- {1, 4}, SkipValues <- {FALSE},
    Enabled <- {"tcp", "udp"}, Word <- 8, SeqSpace <- 16,
    offered <- v1, size <- v2, skip <- v3, given <- v4, bufs <- v5, hdrs <- v6, tcp <- v7,
    udp <- v8, scan <- v9, toWrite <- v10, pc <- v11

Sums == INSTANCE Checksum WITH
    B <- Base, Data <- ByteStrings, Initial <- {0, 1, Base * Base - 1}, Align <- {0, 1, 7},
    data <- v1, initial <- v2, big <- v3, align <- v4, done <- v5, odd <- v6, sum <- v7,
    by <- v8

Sent == INSTANCE PacketChecksums WITH
    W <- 4, S <- 3, Addr <- WordAddresses, Port <- {1, 3},
    offload <- v1, in <- v2, out <- v3, op <- v4, segment <- v5, reset <- v6

Rewriter == INSTANCE PingRewriter WITH
    Client <- {"c1", "c2"}, Ident <- {1, 2}, Alias <- "alias", Real <- "real",
    Bind <- "bind", MaxAsk <- 2, None <- None,
    v6 <- v1, endpoint <- v2, sourceAddress <- v3, inbox <- v4, net <- v5, asked <- v6,
    got <- v7, last <- v8

\* GSO segmentation
len == v1
hdr == v2
gso == v3
none == v4
valid == v5
bufs == v6
at == v7
out == v8
n == v9
state == v10

GSO == INSTANCE GSOSplit WITH Word <- GSOWord

\* Dispatch of packets
stack == v1
families == v2
buffer == v3
fate == v4
writers == v5
sent == v6

Dispatched == INSTANCE Dispatch

\* Mipstack's batches; turn is i
input == v1
device == v2
slots == v3
turn == v4
stackCount == v5
packetCount == v6
pc == v7
toStack == v8
written == v9
failAt == v10

Mips == INSTANCE MipsPackets WITH
    i <- turn, Packets <- BatchPackets, Batch <- MaxBatchLen

\* The assumptions of the proofs.
ASSUME SplitAssumed == GSO!SplitAssumption
ASSUME ClientsAssumed == Dispatched!ClientAssumption
ASSUME BatchAssumed == Mips!BatchAssumption

-----------------------------------------------------------------------------
Init ==
    /\ part \in Parts
    /\ \/ part = "gso" /\ GSO!Init /\ v11 = 0
       \/ part = "gro" /\ Trusting!Init
       \/ part = "groChecked" /\ Checking!Init
       \/ part = "sum" /\ Sums!Init /\ v9 = 0 /\ v10 = 0 /\ v11 = 0
       \/ /\ part = "checksums" /\ Sent!Init
          /\ v7 = 0 /\ v8 = 0 /\ v9 = 0 /\ v10 = 0 /\ v11 = 0
       \/ part = "rewriter" /\ Rewriter!Init /\ v9 = 0 /\ v10 = 0 /\ v11 = 0
       \/ /\ part = "dispatch" /\ Dispatched!Init
          /\ v7 = 0 /\ v8 = 0 /\ v9 = 0 /\ v10 = 0 /\ v11 = 0
       \/ part = "mips" /\ Mips!Init /\ v11 = 0

Next ==
    \/ part = "gso" /\ GSO!Next /\ UNCHANGED <<part, v11>>
    \/ part = "gro" /\ Trusting!Next /\ UNCHANGED part
    \/ part = "groChecked" /\ Checking!Next /\ UNCHANGED part
    \/ part = "sum" /\ Sums!Next /\ UNCHANGED <<part, v9, v10, v11>>
    \/ part = "checksums" /\ Sent!Next /\ UNCHANGED <<part, v7, v8, v9, v10, v11>>
    \/ part = "rewriter" /\ Rewriter!Next /\ UNCHANGED <<part, v9, v10, v11>>
    \/ part = "dispatch" /\ Dispatched!Next /\ UNCHANGED <<part, v7, v8, v9, v10, v11>>
    \/ part = "mips" /\ Mips!Next /\ UNCHANGED <<part, v11>>

Spec == Init /\ [][Next]_vars
-----------------------------------------------------------------------------
(* Segmentation is exact: the segments tile the payload, each has the       *)
(* sequence number of its first byte although the offset is computed in 16  *)
(* bits, and FIN and PSH are on the last one only (GSOSplit).               *)
SplitIsExact ==
    part = "gso" => GSO!TypeOK /\ GSO!SplitIsExact

(* tun.GSOSplit: "It returns the number of buffers populated, and/or an     *)
(* error."                                                                  *)
CountsPopulated == part = "gso" => GSO!CountsPopulated

(* Coalescing is invisible: what the kernel cuts from the written buffers   *)
(* is each packet of the batch once, with its sequence number, payload and  *)
(* boundaries; datagrams of a flow stay in order, PSH stays on the last     *)
(* packet, and no packet with a wrong or absent checksum gets a right one   *)
(* by being merged (GRO, with and without validation).  Without validation  *)
(* every written buffer also has a virtio header of its own batch.          *)
CoalescingIsInvisible ==
    /\ part = "gro" =>
         /\ Trusting!TypeOK /\ Trusting!SegmentsSurvive /\ Trusting!DatagramsInOrder
         /\ Trusting!PushIsLast /\ Trusting!InvalidStaysAlone /\ Trusting!HeaderOfThisBatch
    /\ part = "groChecked" =>
         /\ Checking!TypeOK /\ Checking!SegmentsSurvive /\ Checking!DatagramsInOrder
         /\ Checking!PushIsLast /\ Checking!InvalidStaysAlone

(* Every buffer that is written has a virtio header of this batch, as       *)
(* tcpGRO's and udpGRO's comments on their results want it, also when       *)
(* checksums are validated.                                                 *)
HeaderOfThisBatch == part = "groChecked" => Checking!HeaderOfThisBatch

(* A receiver accepts every checksum.  The sums over words of all widths,   *)
(* blocks, byte orders and addresses are the one's complement sum, in       *)
(* pieces or at once (Checksum); what a stack sends back, rewritten, reset, *)
(* echoed or answered, verifies unless the client's own segment did not     *)
(* (PacketChecksums); a ping verifies at the far end and at the client,     *)
(* with the addresses each of them knows, and is answered at most once      *)
(* (PingRewriter).                                                          *)
ChecksumsAccepted ==
    /\ part = "sum" => Sums!TypeOK /\ Sums!SumExact /\ Sums!AlternateExact /\ Sums!PiecesCompose /\ Sums!PseudoHeadersAgree
    /\ part = "checksums" =>
         /\ Sent!TypeOK /\ Sent!SentIsAccepted /\ Sent!DamageStaysVisible
         /\ Sent!ZeroMeansOffload /\ Sent!ResetAccepted
    /\ part = "rewriter" =>
         Rewriter!TypeOK /\ Rewriter!ChecksumsValid /\ Rewriter!AddressesRestored /\ Rewriter!NoMoreThanAsked

(* The four stacks agree on what reaches the handler: neither fragments nor *)
(* packets to groups do as datagrams, and the stacks can be exchanged for   *)
(* one another, those that look at the first header only and those that     *)
(* look further among themselves where IPv6 has extension headers           *)
(* (Dispatch).                                                              *)
StacksAgree == part = "dispatch" => Dispatched!TypeOK /\ Dispatched!OnlyWholeUnicast /\ Dispatched!StacksAgree

(* The answer to a datagram goes to the client that sent it, from the       *)
(* address the handler names, whatever has been read into the buffer since  *)
(* (the UDP writers of the stacks).                                         *)
AnswersGoHome == part = "dispatch" => Dispatched!AnswersGoHome

(* mipstack's in-place partition loses, doubles and reorders nothing, lets  *)
(* only whole and valid packets return to the host, sends the fragments of  *)
(* a segment one way unless extension headers stand before it, and leaves   *)
(* room for the device's header.                                            *)
PartitionIsExact ==
    part = "mips" => /\ Mips!TypeOK /\ Mips!PartitionIsExact /\ Mips!OnlyValidReturns
                     /\ Mips!FragmentsTogether /\ Mips!WrittenWithHeader
=============================================================================
