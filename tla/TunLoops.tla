------------------------------ MODULE TunLoops ------------------------------
(***************************************************************************)
(* The loops that read the device: tunLoop, wintunLoop, batchLoopLinux and *)
(* batchLoopDarwin of stack_system.go and stack_mixed.go, and the loops of *)
(* stack_mipstack.go.                                                      *)
(*                                                                         *)
(* The stacks differ in where a packet goes and agree in what happens to   *)
(* its buffer: it is either the loop's own, filled again by the next read  *)
(* ("plain", "linux"), or borrowed from the device and given back          *)
(* ("wintun", "darwin").  A batch collects what is to be written back and  *)
(* writes it at its end; the others write at once.                         *)
(***************************************************************************)
EXTENDS Naturals, Sequences, FiniteSets

CONSTANTS Kinds,      \* kinds of loops: of {"plain", "wintun", "linux", "darwin"}
          MaxPackets, \* bound on the packets of a behaviour
          MaxBatch    \* packets of one read

LoopAssumption == MaxPackets \in Nat /\ MaxBatch \in Nat

VARIABLES
    loop,     \* which loop it is
    stack,    \* whose loop it is: "system", "mixed" or "mipstack"
    device,   \* "open" or "closed"
    pc,       \* "read", "process", "write", "ended"
    seen,     \* packets read so far: they are numbered
    packet,   \* [number -> "short", "back" or "consumed"]
    batch,    \* numbers of the batch that is being processed
    queue,    \* writeBuffers
    failed,   \* the read reported an error that ends the loop
    released, \* [number -> times its buffer was given back]
    written   \* numbers in the order they were written to the device

vars == <<loop, stack, device, pc, seen, packet, batch, queue, failed, released, written>>

TypeOK ==
    /\ loop \in Kinds /\ stack \in {"system", "mixed", "mipstack"} /\ device \in {"open", "closed"} /\ failed \in BOOLEAN
    /\ pc \in {"read", "process", "write", "ended"} /\ seen \in 0..MaxPackets
    /\ packet \in [1..seen -> {"short", "back", "consumed"}]
    /\ released \in [1..seen -> 0..1]
    /\ \A k \in DOMAIN batch : batch[k] \in 1..seen
    /\ \A k \in DOMAIN queue : queue[k] \in 1..seen

Init ==
    /\ loop \in Kinds /\ stack \in {"system", "mixed", "mipstack"} /\ device = "open" /\ pc = "read" /\ failed = FALSE
    /\ seen = 0 /\ packet = <<>> /\ batch = <<>> /\ queue = <<>> /\ released = <<>> /\ written = <<>>

Borrowed == loop \in {"wintun", "darwin"}
Batching == loop \in {"linux", "darwin"}

-----------------------------------------------------------------------------
(* Which error ends the loop: a closed device, and any error of Wintun.    *)
Fatal(err) == err = "closed" \/ loop = "wintun"

(* One read: some packets, an error, or both.  System and Mixed look at    *)
(* the error first, Mipstack at the packets.                               *)
Read ==
    \E n \in 0..MaxBatch, err \in {"none", "other", "closed"} :
    \E kinds \in [1..n -> {"short", "back", "consumed"}] :
       /\ pc = "read" /\ seen + n <= MaxPackets
       /\ ~Batching => n <= 1
       /\ (err = "closed") = (device = "closed")
       /\ err = "closed" => n = 0
       /\ loop = "wintun" => (n = 1) = (err = "none")
       /\ seen' = seen + n /\ packet' = packet \o kinds /\ released' = released \o [k \in 1..n |-> 0]
       /\ batch' = [k \in 1..n |-> seen + k]
       /\ failed' = (err # "none" /\ Fatal(err))
       /\ pc' = IF failed' THEN (IF stack = "mipstack" /\ n > 0 THEN "process" ELSE "ended")
                ELSE IF n = 0 THEN "read" ELSE "process"
       /\ UNCHANGED <<loop, stack, device, queue, written>>

(* The buffer of a packet goes back to the device it was borrowed from.    *)
Release(p) == IF Borrowed THEN [released EXCEPT ![p] = @ + 1] ELSE released

\* slip: a packet that is too short is skipped, and its buffer with it
DoneAtOnceSkip(p) == packet[p] = "consumed"

(* A buffer that is not kept for the write is released right away.         *)
DoneAtOnce(p) == packet[p] # "back"

Queued(q, p) == Append(q, p)

(* One packet: too short, consumed by the stack, or to be written back.    *)
Process ==
    /\ pc = "process" /\ batch # <<>>
    /\ LET p == Head(batch)
       IN IF Batching
          THEN /\ queue' = IF packet[p] = "back" THEN Queued(queue, p) ELSE queue
               /\ released' = IF DoneAtOnce(p) THEN Release(p) ELSE released
               /\ UNCHANGED written
          ELSE /\ written' = IF packet[p] = "back" THEN Append(written, p) ELSE written
               /\ released' = Release(p)
               /\ UNCHANGED queue
    /\ batch' = Tail(batch)
    /\ pc' = IF Tail(batch) = <<>> THEN "write" ELSE pc
    /\ UNCHANGED <<loop, stack, device, seen, packet, failed>>

(* ReleaseMulti after the write, whether it failed or not.                 *)
ReleasedAfter(q) ==
    [p \in 1..seen |-> IF Borrowed /\ \E k \in DOMAIN q : q[k] = p THEN released[p] + 1 ELSE released[p]]

(* The end of a batch; an error of the write is logged.                    *)
Write ==
    /\ pc = "write"
    /\ written' = written \o queue
    /\ released' = ReleasedAfter(queue)
    /\ queue' = <<>>
    /\ pc' = IF failed THEN "ended" ELSE "read"
    /\ UNCHANGED <<loop, stack, device, seen, packet, batch, failed>>

CloseDevice == /\ device = "open" /\ device' = "closed"
               /\ UNCHANGED <<loop, stack, pc, seen, packet, batch, queue, failed, released, written>>

Ended == pc = "ended" /\ device = "closed" /\ UNCHANGED vars

Step == Read \/ Process \/ Write

\* The loops of the three stacks, one definition for each.
SystemTunLoop == stack = "system" /\ loop = "plain" /\ Step
SystemWintunLoop == stack = "system" /\ loop = "wintun" /\ Step
SystemBatchLoopLinux == stack = "system" /\ loop = "linux" /\ Step
SystemBatchLoopDarwin == stack = "system" /\ loop = "darwin" /\ Step
MixedTunLoop == stack = "mixed" /\ loop = "plain" /\ Step
MixedWintunLoop == stack = "mixed" /\ loop = "wintun" /\ Step
MixedBatchLoopLinux == stack = "mixed" /\ loop = "linux" /\ Step
MixedBatchLoopDarwin == stack = "mixed" /\ loop = "darwin" /\ Step
MipsReadLoop == stack = "mipstack" /\ loop = "plain" /\ Step
MipsWintunLoop == stack = "mipstack" /\ loop = "wintun" /\ Step
MipsBatchLoopLinux == stack = "mipstack" /\ loop = "linux" /\ Step
MipsBatchLoopDarwin == stack = "mipstack" /\ loop = "darwin" /\ Step

TunLoop == SystemTunLoop \/ SystemWintunLoop \/ SystemBatchLoopLinux \/ SystemBatchLoopDarwin
MixedLoop == MixedTunLoop \/ MixedWintunLoop \/ MixedBatchLoopLinux \/ MixedBatchLoopDarwin
MipsLoop == MipsReadLoop \/ MipsWintunLoop \/ MipsBatchLoopLinux \/ MipsBatchLoopDarwin

Next == TunLoop \/ MixedLoop \/ MipsLoop \/ CloseDevice \/ Ended

Spec == Init /\ [][Next]_vars /\ WF_vars(Step)

-----------------------------------------------------------------------------
(* Every borrowed buffer is given back exactly once by the time the loop   *)
(* reads again or ends, and not before it was written: neither a leak nor  *)
(* a buffer released twice, on every path through the loop.                *)
ReleasedOnce ==
    /\ pc \in {"read", "ended"} /\ Borrowed => \A p \in 1..seen : released[p] = 1
    /\ \A k \in DOMAIN queue : released[queue[k]] = 0

(* The packets to be written back are written, each once and in the order  *)
(* they came, and no other packet is; nothing is carried from one batch to *)
(* the next.                                                               *)
WrittenOnce ==
    pc \in {"read", "ended"} =>
        /\ \A i, j \in DOMAIN written : i < j => written[i] < written[j]
        /\ {written[i] : i \in DOMAIN written} = {p \in 1..seen : packet[p] = "back"}

(* A read error does not stop the stack: only a closed device ends a loop, *)
(* or any error where the device is Wintun.                                *)
EndsForAReason == pc = "ended" => device = "closed" \/ loop = "wintun"

(* A loop neither leaks nor misuses a buffer, and ends when it should.     *)
BuffersReturned == ReleasedOnce /\ WrittenOnce /\ EndsForAReason

(* When the device is closed the loop ends: in the long run this holds.    *)
EndedWhenClosed == device = "closed" => pc = "ended"
=============================================================================
