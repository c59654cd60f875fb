----------------------------- MODULE MipsPackets -----------------------------
(***************************************************************************)
(* Mipstack.processPackets and writePackets (stack_mipstack.go): a batch   *)
(* that was read from the device is partitioned in place, in one pass and  *)
(* without another slice, into packets for the stack and packets to send   *)
(* back; the latter are written with the header the device wants, in the   *)
(* headroom of the buffer or in a copy.                                    *)
(*                                                                         *)
(* A packet is what the code asks of it: whether it has a whole header,    *)
(* its version, its destination, whether ParseIPPacket accepts it, the     *)
(* fragment it is, the protocol its IP or fragment header names, the one   *)
(* UpperLayer finds behind extension headers, and whether its segment is   *)
(* valid.                                                                  *)
(***************************************************************************)
EXTENDS Naturals, Sequences, FiniteSets

CONSTANTS Packets,  \* the packets there can be in a batch
          Batch,    \* the largest batch
          Devices,  \* devices: [kind, offset]
          MaxFail   \* the write that fails, counted from 1; one more never fails

\* What the code asks of a packet; swapped is history.
PacketFields ==
    [version : Nat, whole : BOOLEAN, dst : STRING, parses : BOOLEAN, fragment : STRING,
     protocol : STRING, upper : STRING, segment : BOOLEAN, swapped : BOOLEAN]

BatchAssumption ==
    /\ Packets \subseteq PacketFields /\ Batch \in Nat
    /\ Devices \subseteq [kind : STRING, offset : Nat] /\ MaxFail \in Nat

VARIABLES
    input,    \* the batch as it was read
    device,   \* where it was read from
    slots,    \* the slice packets
    i,        \* the next entry of the loop
    stackCount, packetCount,
    pc,       \* "loop", "stack", "write", "done"
    toStack,  \* what Stack.Write got
    written,  \* what the device got
    failAt    \* which write fails

vars == <<input, device, slots, i, stackCount, packetCount, pc, toStack, written, failAt>>

-----------------------------------------------------------------------------
(* mipsPacketDestination: version and header length.                       *)
HasDestination(p) == p.version \in {4, 6} /\ p.whole

Reflects(p) == p.dst \in {"broadcast", "nonunicast"}
IsLoopback(p) == p.dst = "loopback"

(* mipsValidLoopbackPacket: the checksum is asked of whole packets only; a *)
(* first fragment is TCP when UpperLayer finds it so, a later one when the *)
(* fragment header says so.                                                *)
ValidLoopback(p) ==
    CASE p.fragment = "none"  -> p.upper = "tcp" /\ p.segment
      [] p.fragment = "first" -> p.upper = "tcp"
      [] OTHER                -> p.protocol = "tcp"

Drops(p) == ~HasDestination(p) \/ ((Reflects(p) \/ IsLoopback(p)) /\ ~p.parses)

Returns(p) == Reflects(p) \/ (IsLoopback(p) /\ ValidLoopback(p))

(* Source and destination are exchanged in place.                          *)
Swapped(p) == IF Reflects(p) THEN p ELSE [p EXCEPT !.swapped = TRUE]

Buffer(p, id) == [p |-> p, id |-> id]

(* The headroom buffers have when they come from readLoop or a batch loop. *)
Init ==
    /\ \E n \in 1..Batch : input \in [1..n -> Packets]
    /\ device \in Devices /\ failAt \in 1..MaxFail
    /\ slots = [k \in DOMAIN input |-> Buffer(input[k], k)]
    /\ i = 1 /\ stackCount = 0 /\ packetCount = 0 /\ pc = "loop" /\ toStack = <<>> /\ written = <<>>

\* slip: one entry too few is moved
ShiftedShort(s, from, to) == [k \in DOMAIN s |-> IF k \in (from + 2)..to THEN s[k - 1] ELSE s[k]]

(* copy(packets[from+1:to+1], packets[from:to])                            *)
Shifted(s, from, to) == [k \in DOMAIN s |-> IF k \in (from + 2)..(to + 1) THEN s[k - 1] ELSE s[k]]

(* One round of the loop; the entry is read when it is its turn.           *)
Sort ==
    /\ pc = "loop" /\ i <= Len(slots) /\ i' = i + 1
    /\ LET b == slots[i]
       IN \/ /\ Drops(b.p) /\ UNCHANGED <<slots, stackCount, packetCount>>
          \/ /\ ~Drops(b.p) /\ Returns(b.p)
             /\ slots' = [slots EXCEPT ![packetCount + 1] = [b EXCEPT !.p = Swapped(@)]]
             /\ packetCount' = packetCount + 1 /\ UNCHANGED stackCount
          \/ /\ ~Drops(b.p) /\ ~Returns(b.p)
             /\ slots' = [Shifted(slots, stackCount, packetCount) EXCEPT ![stackCount + 1] = b]
             /\ packetCount' = packetCount + 1 /\ stackCount' = stackCount + 1
    /\ UNCHANGED <<input, device, pc, toStack, written, failAt>>

(* Stack.Write, whose errors concern single packets.                       *)
GiveStack ==
    /\ pc = "loop" /\ i > Len(slots) /\ pc' = "write"
    /\ toStack' = SubSeq(slots, 1, stackCount)
    /\ UNCHANGED <<input, device, slots, i, stackCount, packetCount, written, failAt>>

-----------------------------------------------------------------------------
(* The family as Darwin numbers it, in front of the packet.                *)
Family(p) == IF p.version = 6 THEN 30 ELSE 2

Header(p) == IF device.kind = "darwin" THEN Family(p) ELSE 0

(* Linux with GSO wants the virtio header, Darwin the family.              *)
HeaderSize == CASE device.kind = "linux_gso" -> 10 [] device.kind = "darwin" -> 4 [] OTHER -> 0

(* Not enough headroom: the packet is copied behind enough of it.          *)
Room == IF device.offset < HeaderSize THEN HeaderSize ELSE device.offset

Frame(b) == [p |-> b.p, id |-> b.id, header |-> Header(b.p), room |-> Room]

(* BatchWrite of Linux with GSO and of Darwin with sendmsg_x take them     *)
(* all; the other devices stop at the first write that fails.              *)
Batches == device.kind \in {"linux_gso", "darwin_x"}

WritePackets ==
    LET back == SubSeq(slots, stackCount + 1, packetCount)
        most == IF Batches \/ failAt > Len(back) THEN Len(back) ELSE failAt - 1
    IN /\ pc = "write" /\ pc' = "done"
       /\ written' = [k \in 1..most |-> Frame(back[k])]
       /\ UNCHANGED <<input, device, slots, i, stackCount, packetCount, toStack, failAt>>

Done == pc = "done" /\ UNCHANGED vars

Next == Sort \/ GiveStack \/ WritePackets \/ Done

Spec == Init /\ [][Next]_vars

TypeOK ==
    /\ device \in Devices /\ i \in 1..(Batch + 1) /\ pc \in {"loop", "write", "done"}
    /\ stackCount \in 0..Batch /\ packetCount \in stackCount..Batch /\ packetCount < i
    /\ \A k \in DOMAIN slots : slots[k].id \in DOMAIN input

-----------------------------------------------------------------------------
\* The reference: what each packet of the batch is for, told one by one.
ForStack == {k \in DOMAIN input : ~Drops(input[k]) /\ ~Returns(input[k])}
ForDevice == {k \in DOMAIN input : ~Drops(input[k]) /\ Returns(input[k])}

Ids(s) == {s[k].id : k \in DOMAIN s}
InOrder(s) == \A j, k \in DOMAIN s : j < k => s[j].id < s[k].id

(* The partition loses, duplicates and reorders nothing: at the end of the *)
(* pass the stack gets exactly its packets in the order they came, as they *)
(* came, and the rest of the prefix is what goes back, in order.           *)
PartitionIsExact ==
    pc # "loop" => /\ Ids(toStack) = ForStack /\ InOrder(toStack)
                   /\ \A k \in DOMAIN toStack : toStack[k].p = input[toStack[k].id]
                   /\ Ids(SubSeq(slots, stackCount + 1, packetCount)) = ForDevice
                   /\ InOrder(SubSeq(slots, stackCount + 1, packetCount))

(* What goes back to the host around the stack was parsed as a whole, has  *)
(* its addresses exchanged unless its destination is a group, and is never *)
(* a segment with a wrong checksum or a fragment of another protocol.      *)
OnlyValidReturns ==
    \A k \in DOMAIN written :
        LET p == written[k].p
        IN p.parses /\ (p.swapped \/ Reflects(p))
           /\ (IsLoopback(p) => /\ "tcp" \in {p.protocol, p.upper}
                                /\ p.segment \/ p.fragment # "none")

\* Two fragments of one datagram to a loopback address, the first and a later
\* one: the fragment headers name the same protocol.
Siblings(p, q) ==
    /\ IsLoopback(p) /\ IsLoopback(q) /\ ~Drops(p) /\ ~Drops(q)
    /\ p.version = q.version /\ p.protocol = q.protocol /\ p.fragment = "first" /\ q.fragment = "later"

(* A later fragment of a segment goes the way of its first one, when the   *)
(* segment begins at once behind the fragment header.  Behind extension    *)
(* headers only the first one is seen to be TCP: it goes back to the host  *)
(* and the later ones go to the stack, never the other way round.          *)
FragmentsTogether ==
    pc # "loop" => \A j, k \in DOMAIN input : Siblings(input[j], input[k]) =>
        /\ (input[j].upper = input[j].protocol) => (j \in Ids(toStack) <=> k \in Ids(toStack))
        /\ (input[j].protocol # "tcp") => k \in Ids(toStack)

(* The device gets every packet behind a whole header of its family,       *)
(* whatever headroom the reader of this device leaves.                     *)
WrittenWithHeader ==
    \A k \in DOMAIN written :
        /\ written[k].room >= HeaderSize
        /\ device.kind = "darwin" => written[k].header = (IF written[k].p.version = 6 THEN 30 ELSE 2)
=============================================================================
