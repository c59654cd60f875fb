---------------------------------- MODULE GRO ----------------------------------
(***************************************************************************)
(* BatchWrite and handleGRO (tun_linux.go, tun_offload_linux.go): a batch   *)
(* of packets is written to the tun, TCP segments and UDP datagrams that    *)
(* fit together are coalesced first, and the kernel cuts what was coalesced *)
(* at the gsoSize of its virtio header.                                     *)
(*                                                                          *)
(* A byte of payload is <<number of its packet in the batch, position>>.    *)
(* p.hdr stands for everything that has to be equal for coalescing (ToS,    *)
(* TTL, DF, TCP options); p.flow for the flow key, the ACK number included; *)
(* p.room for the capacity of its buffer.  p.whole is false for packets     *)
(* whose lengths disagree and for fragments.  Header layout and checksum    *)
(* arithmetic are left out.                                                 *)
(***************************************************************************)
EXTENDS Integers, Sequences, FiniteSets, TLC, SequencesExt

CONSTANTS PacketSets,   \* the kinds of packets of a batch, one set is chosen per batch
          Sizes,        \* numbers of packets in a batch
          SkipValues,   \* skipChecksumValidation = !txChecksumOffload
          Enabled,      \* what GRO is enabled for: a subset of {"tcp", "udp"}
          Word,         \* 65536 in the code: the range of a uint16
          SeqSpace      \* 2^32 in the code: the range of a sequence number

VARIABLES offered, size, skip,     \* the batch: its kinds of packets, len(bufs), skipChecksumValidation
          given,                   \* the packets as the caller gave them
          bufs, hdrs,              \* the buffers and the virtio headers in front of them
          tcp, udp,                \* itemsByFlow of the two tables
          scan,                    \* i of the loop of tcpGRO
          toWrite, pc
vars == <<offered, size, skip, given, bufs, hdrs, tcp, udp, scan, toWrite, pc>>

Stale == [gso |-> -1]              \* not written for this batch
Plain == [gso |-> 0]               \* the zero virtioNetHdr
Merged(item) == [gso |-> item.gso]

Init ==
    /\ offered \in PacketSets /\ size \in Sizes /\ skip \in SkipValues
    /\ given = << >> /\ bufs = << >> /\ hdrs = << >>
    /\ tcp = << >> /\ udp = << >> /\ scan = 0 /\ toWrite = << >> /\ pc = "next"

--------------------------------------------------------------------------------
Idx == Len(given)
Cur == bufs[Idx]

\* The packet as a buffer: its payload, and whether its header has PSH set.
Buffer(p, i) == [flow |-> p.flow, hdr |-> p.hdr, seq |-> p.seq, psh |-> p.flags = "push", csum |-> p.csum,
                 room |-> p.room, data |-> [k \in 1 .. p.len |-> <<i, k>>]]

\* packetIsGROCandidate and the tests at the top of tcpGRO and udpGRO.
GROCandidate(p) == p.proto \in Enabled
CandidateTCP(p) == p.proto = "tcp" /\ p.whole /\ p.flags \in {"ack", "push"} /\ p.len > 0 /\ size > 1
CandidateUDP(p) == p.proto = "udp" /\ p.whole /\ p.len > 0 /\ size > 1
Candidate(p) == GROCandidate(p) /\ (CandidateTCP(p) \/ CandidateUDP(p))

Item(b, i, bad) == [buf |-> i, merged |-> 0, gso |-> Len(b.data), seq |-> b.seq, psh |-> b.psh, bad |-> bad]

Inserted(table, b, i, bad) ==
    IF b.flow \in DOMAIN table
    THEN [table EXCEPT ![b.flow] = Append(@, Item(b, i, bad))]
    ELSE table @@ (b.flow :> << Item(b, i, bad) >>)

\* handleGRO takes the next packet: no candidate, or the first one of its flow, or one to compare.
Take(p) ==
    /\ pc = "next" /\ Idx < size
    /\ given' = Append(given, p)
    /\ bufs' = Append(bufs, Buffer(p, Idx + 1))
    /\ hdrs' = Append(hdrs, IF Candidate(p) THEN Stale ELSE Plain)
    /\ UNCHANGED <<offered, size, skip>>

TakeNoop ==
    \E p \in offered :
        /\ ~Candidate(p) /\ Take(p)
        /\ toWrite' = Append(toWrite, Idx + 1)
        /\ UNCHANGED <<tcp, udp, scan, pc>>

TakeFirst ==
    \E p \in offered :
        /\ Candidate(p) /\ p.flow \notin DOMAIN (IF p.proto = "tcp" THEN tcp ELSE udp)
        /\ Take(p)
        /\ LET b == Buffer(p, Idx + 1) IN
           /\ tcp' = IF p.proto = "tcp" THEN Inserted(tcp, b, Idx + 1, FALSE) ELSE tcp
           /\ udp' = IF p.proto = "udp" THEN Inserted(udp, b, Idx + 1, FALSE) ELSE udp
        /\ toWrite' = Append(toWrite, Idx + 1)
        /\ UNCHANGED <<scan, pc>>

TakeKnown ==
    \E p \in offered :
        /\ Candidate(p) /\ p.flow \in DOMAIN (IF p.proto = "tcp" THEN tcp ELSE udp)
        /\ Take(p)
        /\ scan' = IF p.proto = "tcp" THEN Len(tcp[p.flow]) ELSE Len(udp[p.flow])
        /\ pc' = p.proto
        /\ UNCHANGED <<tcp, udp, toWrite>>

--------------------------------------------------------------------------------
U16(x) == x % Word
U32(x) == x % SeqSpace

\* tcpPacketsCanCoalesce
FollowsTCP(b, item) ==
    /\ b.seq = U32(item.seq + U16(item.gso + U16(item.merged * item.gso)))
    /\ ~item.psh
    /\ Len(bufs[item.buf].data) % item.gso = 0
    /\ Len(b.data) <= item.gso

\* slip: PSH is only looked at when appending
PrecedesTCPPush(b, item) ==
    /\ U32(b.seq + Len(b.data)) = item.seq
    /\ Len(b.data) >= item.gso /\ (Len(b.data) > item.gso => item.merged = 0)

PrecedesTCP(b, item) ==
    /\ b.seq # U32(item.seq + U16(item.gso + U16(item.merged * item.gso)))
    /\ U32(b.seq + Len(b.data)) = item.seq
    /\ ~b.psh
    /\ Len(b.data) >= item.gso
    /\ Len(b.data) > item.gso => item.merged = 0

ItemValid(item) == skip \/ item.merged > 0 \/ bufs[item.buf].csum = "ok"
PacketValid == skip \/ Cur.csum = "ok"

TCPItem == tcp[Cur.flow][scan]
Comparable(item) == Cur.hdr = bufs[item.buf].hdr
Fits(item, head) == Len(bufs[item.buf].data) + Len(Cur.data) <= head.room

CanTCP ==
    /\ pc = "tcp" /\ scan > 0 /\ Comparable(TCPItem)
    /\ \/ FollowsTCP(Cur, TCPItem) /\ Fits(TCPItem, bufs[TCPItem.buf])
       \/ PrecedesTCP(Cur, TCPItem) /\ Fits(TCPItem, Cur)

\* coalesceTCPPackets, append: the payload moves behind the item's.
AppendTCP ==
    /\ CanTCP /\ FollowsTCP(Cur, TCPItem) /\ ItemValid(TCPItem) /\ PacketValid
    /\ bufs' = [bufs EXCEPT ![TCPItem.buf].data = @ \o Cur.data, ![TCPItem.buf].psh = @ \/ Cur.psh]
    /\ tcp' = [tcp EXCEPT ![Cur.flow][scan].psh = @ \/ Cur.psh, ![Cur.flow][scan].merged = @ + 1]
    /\ scan' = 0 /\ pc' = "next"
    /\ UNCHANGED <<offered, size, skip, given, hdrs, udp, toWrite>>

\* Prepend: the item's payload moves behind the packet's and the two buffers change places,
\* because the item's index is the one that will be written.  PSH of the item is not kept.
PrependTCP ==
    /\ CanTCP /\ PrecedesTCP(Cur, TCPItem) /\ ItemValid(TCPItem) /\ PacketValid
    /\ bufs' = [bufs EXCEPT ![TCPItem.buf] = [Cur EXCEPT !.data = @ \o bufs[TCPItem.buf].data],
                            ![Idx] = bufs[TCPItem.buf]]
    /\ tcp' = [tcp EXCEPT ![Cur.flow][scan] =
                  [@ EXCEPT !.seq = Cur.seq, !.merged = @ + 1,
                            !.gso = IF Len(Cur.data) > @ THEN Len(Cur.data) ELSE @]]
    /\ scan' = 0 /\ pc' = "next"
    /\ UNCHANGED <<offered, size, skip, given, hdrs, udp, toWrite>>

\* coalesceItemInvalidCSum: the item leaves the table, the loop goes on.
DropItemTCP ==
    /\ CanTCP /\ ~ItemValid(TCPItem)
    /\ tcp' = [tcp EXCEPT ![Cur.flow] = RemoveAt(@, scan)]
    /\ scan' = scan - 1
    /\ UNCHANGED <<offered, size, skip, given, bufs, hdrs, udp, toWrite, pc>>

\* coalescePktInvalidCSum: handleGRO writes the packet as it is.
InvalidTCP ==
    /\ CanTCP /\ ItemValid(TCPItem) /\ ~PacketValid
    /\ hdrs' = [hdrs EXCEPT ![Idx] = Plain]
    /\ toWrite' = Append(toWrite, Idx)
    /\ scan' = 0 /\ pc' = "next"
    /\ UNCHANGED <<offered, size, skip, given, bufs, tcp, udp>>

SkipTCP ==
    /\ pc = "tcp" /\ scan > 0 /\ ~CanTCP
    /\ scan' = scan - 1
    /\ UNCHANGED <<offered, size, skip, given, bufs, hdrs, tcp, udp, toWrite, pc>>

InsertTCP ==
    /\ pc = "tcp" /\ scan = 0
    /\ tcp' = Inserted(tcp, Cur, Idx, FALSE)
    /\ toWrite' = Append(toWrite, Idx)
    /\ pc' = "next"
    /\ UNCHANGED <<offered, size, skip, given, bufs, hdrs, udp, scan>>

--------------------------------------------------------------------------------
\* Only the last item of the flow is looked at.
UDPItems == {Len(udp[Cur.flow])}

\* udpPacketsCanCoalesce and coalesceUDPPackets up to the checksums
CanUDP(item) ==
    /\ Comparable(item)
    /\ Len(bufs[item.buf].data) % item.gso = 0
    /\ Len(Cur.data) <= item.gso
    /\ Fits(item, bufs[item.buf])

UDPItemValid(item) ==
    item.merged > 0 \/ (~item.bad /\ bufs[item.buf].csum # "zero" /\ (skip \/ bufs[item.buf].csum = "ok"))
UDPPacketValid == Cur.csum # "zero" /\ (skip \/ Cur.csum = "ok")

AppendUDP ==
    /\ pc = "udp"
    /\ \E k \in UDPItems :
        LET item == udp[Cur.flow][k] IN
        /\ CanUDP(item) /\ UDPItemValid(item) /\ UDPPacketValid
        /\ bufs' = [bufs EXCEPT ![item.buf].data = @ \o Cur.data]
        /\ udp' = [udp EXCEPT ![Cur.flow][k].merged = @ + 1]
    /\ scan' = 0 /\ pc' = "next"
    /\ UNCHANGED <<offered, size, skip, given, hdrs, tcp, toWrite>>

InsertUDP ==
    /\ pc = "udp"
    /\ LET item == udp[Cur.flow][scan] IN
       /\ ~(CanUDP(item) /\ UDPItemValid(item) /\ UDPPacketValid)
       /\ udp' = Inserted(udp, Cur, Idx, CanUDP(item) /\ UDPItemValid(item))
    /\ toWrite' = Append(toWrite, Idx)
    /\ scan' = 0 /\ pc' = "next"
    /\ UNCHANGED <<offered, size, skip, given, bufs, hdrs, tcp>>

--------------------------------------------------------------------------------
\* The headers of the buffers that have an item in the table.
Accounted(table, old) ==
    LET items == UNION {Range(table[f]) : f \in DOMAIN table}
        of(i) == {it \in items : it.buf = i}
    IN  [i \in DOMAIN old |->
            CASE of(i) = {}                         -> old[i]
              [] \E it \in of(i) : it.merged > 0    -> Merged(CHOOSE it \in of(i) : TRUE)
              [] OTHER                              -> Plain]

\* applyTCPCoalesceAccounting, applyUDPCoalesceAccounting
Account ==
    /\ pc = "next" /\ Idx = size
    /\ hdrs' = Accounted(udp, Accounted(tcp, hdrs))
    /\ pc' = "write"
    /\ UNCHANGED <<offered, size, skip, given, bufs, tcp, udp, scan, toWrite>>

\* BatchWrite has written the buffers and resets the tables.
NextBatch ==
    /\ pc = "write"
    /\ given' = << >> /\ bufs' = << >> /\ hdrs' = << >> /\ tcp' = << >> /\ udp' = << >>
    /\ toWrite' = << >> /\ scan' = 0 /\ pc' = "next"
    /\ UNCHANGED <<offered, size, skip>>

Next ==
    \/ TakeNoop \/ TakeFirst \/ TakeKnown
    \/ AppendTCP \/ PrependTCP \/ DropItemTCP \/ InvalidTCP \/ SkipTCP \/ InsertTCP
    \/ AppendUDP \/ InsertUDP \/ Account \/ NextBatch

Spec == Init /\ [][Next]_vars

--------------------------------------------------------------------------------
\* What the kernel makes of a written buffer: segments of gso bytes, sequence numbers counted on.
Segments(i) ==
    LET b == bufs[i]
        g == IF hdrs[i].gso > 0 THEN hdrs[i].gso ELSE Len(b.data)
        n == IF b.data = << >> THEN 1 ELSE (Len(b.data) + g - 1) \div g
    IN  [k \in 1 .. n |->
            [flow |-> b.flow, seq |-> U32(b.seq + (k - 1) * g),
             data |-> SubSeq(b.data, (k - 1) * g + 1, IF k = n THEN Len(b.data) ELSE k * g)]]

Sent(i) == [flow |-> given[i].flow, seq |-> given[i].seq, data |-> [k \in 1 .. given[i].len |-> <<i, k>>]]
Written == FlattenSeq([k \in DOMAIN toWrite |-> Segments(toWrite[k])])

(* Type correctness: every item points at a buffer of its flow that will be      *)
(* written, and its segment size fits the 16 bits of the virtio header (tcpGRO,  *)
(* udpGRO, handleGRO).                                                           *)
TypeOK ==
    /\ pc \in {"next", "tcp", "udp", "write"} /\ Len(given) <= size /\ Len(bufs) = Len(given)
    /\ \A f \in DOMAIN tcp \cup DOMAIN udp :
        \A it \in (IF f \in DOMAIN tcp THEN Range(tcp[f]) ELSE Range(udp[f])) :
            bufs[it.buf].flow = f /\ it.buf \in Range(toWrite) /\ it.gso \in 1 .. Word - 1

(* Coalescing is invisible: what the kernel cuts from the written buffers is       *)
(* exactly the packets of the batch, each once, with its sequence number, its      *)
(* payload and its boundaries (handleGRO against the split of the receiver).       *)
SegmentsSurvive ==
    pc = "write" =>
        /\ Len(Written) = size
        /\ \A i \in 1 .. size :
            \E k \in DOMAIN Written :
                /\ Written[k].flow = given[i].flow /\ Written[k].data = Sent(i).data
                /\ given[i].proto = "tcp" => Written[k].seq = given[i].seq

UDPFlows == {given[i].flow : i \in {j \in DOMAIN given : given[j].proto = "udp"}}
Payloads(segments, f) == [k \in DOMAIN SelectSeq(segments, LAMBDA s : s.flow = f) |->
                            SelectSeq(segments, LAMBDA s : s.flow = f)[k].data]
Batch == [i \in DOMAIN given |-> Sent(i)]
NotEmpty(data) == data # << >>

(* The datagrams of a UDP flow that carry payload and are not fragments leave in    *)
(* the order in which they came (udpGRO: only the last item is looked at).          *)
DatagramsInOrder ==
    pc = "write" =>
        \A f \in UDPFlows : SelectSeq(Payloads(Written, f), NotEmpty) = SelectSeq(Payloads(Batch, f), NotEmpty)

(* Every buffer that is written has a virtio header of this batch: the zero one,      *)
(* or, if and only if packets were merged into it, one with their segment size        *)
(* (the accounting functions and the noop case of handleGRO).                         *)
HeaderOfThisBatch ==
    pc = "write" =>
        \A k \in DOMAIN toWrite :
            LET i == toWrite[k]
                packets == {bufs[i].data[j][1] : j \in DOMAIN bufs[i].data}
            IN  hdrs[i].gso >= 0 /\ (hdrs[i].gso > 0 <=> Cardinality(packets) > 1)

(* A packet whose checksum does not verify, or is absent, leaves alone: merged, it    *)
(* would get a correct checksum from the kernel (coalesceTCPPackets,                  *)
(* coalesceUDPPackets).                                                               *)
InvalidStaysAlone ==
    \A i \in DOMAIN bufs :
        LET packets == {bufs[i].data[j][1] : j \in DOMAIN bufs[i].data} IN
        Cardinality(packets) > 1 =>
            \A n \in packets : given[n].csum = "ok" \/ (skip /\ given[n].csum = "bad")

(* PSH in the header of a written buffer is PSH of its last packet: the kernel         *)
(* repeats it on the last segment only (tcpPacketsCanCoalesce).                        *)
PushIsLast ==
    pc = "write" =>
        \A k \in DOMAIN toWrite :
            LET b == bufs[toWrite[k]] IN
            b.data # << >> /\ b.psh => given[b.data[Len(b.data)][1]].flags = "push"
================================================================================
