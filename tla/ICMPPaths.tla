------------------------------ MODULE ICMPPaths ------------------------------
(***************************************************************************)
(* Echo requests through the three implementations of ICMP: the system     *)
(* stack (also Mixed's), the gVisor stack and Mipstack.  All of them ask   *)
(* the handler for a destination through the direct route mapping and hand *)
(* the packet over, reject it, drop it, or answer it themselves.           *)
(*                                                                         *)
(* The system and gVisor stacks do so in the loop that reads the device.   *)
(* Mipstack detaches the request to a goroutine of its own, of which there *)
(* are at most Slots (icmpSlots).                                          *)
(***************************************************************************)
EXTENDS Naturals, FiniteSets

CONSTANTS Request,  \* requests on their way
          Slots,    \* 16 in the code
          MaxDest   \* bound on the destinations of a behaviour

RequestAssumption == IsFiniteSet(Request) /\ Slots \in Nat /\ MaxDest \in Nat

\* big: longer than an IPv4 rejection has room for
Packet == {p \in [v : {4, 6}, echo : BOOLEAN, code : {0, 1}, own : BOOLEAN, big : BOOLEAN] :
             p.big => p.v = 4 /\ p.echo /\ p.code = 0 /\ ~p.own}
Answer == {"nil", "dest", "reset", "drop", "error", "dest_error"}

VARIABLES
    stack,    \* "system", "gvisor" or "mipstack"
    packet,   \* [Request -> the packet]
    state,    \* [Request -> "new", "detached", "found" or "done"]
    got,      \* [Request -> what Lookup returned]
    outcome,  \* [Request -> what became of it]
    slots,    \* slots in use
    entry,    \* the entry of the session in the mapping: "none", "nil", "dest"
    dests     \* destinations nobody has closed, the one in the mapping among them

vars == <<stack, packet, state, got, outcome, slots, entry, dests>>

Outcomes == {"none", "dropped", "echo", "handed", "rejected", "builtin"}

TypeOK ==
    /\ stack \in {"system", "gvisor", "mipstack"} /\ packet \in [Request -> Packet]
    /\ state \in [Request -> {"new", "detached", "found", "done"}]
    /\ got \in [Request -> Answer \cup {"none"}] /\ outcome \in [Request -> Outcomes]
    /\ slots \in 0..Slots /\ entry \in {"none", "nil", "dest"} /\ dests \in 0..MaxDest

Init ==
    /\ stack \in {"system", "gvisor", "mipstack"} /\ packet \in [Request -> Packet]
    /\ state = [r \in Request |-> "new"] /\ got = [r \in Request |-> "none"]
    /\ outcome = [r \in Request |-> "none"] /\ slots = 0 /\ entry = "none" /\ dests = 0

-----------------------------------------------------------------------------
(* Mipstack closes a destination that comes with an error; the others      *)
(* forget it.                                                              *)
StaysOpen(a) == a = "dest" \/ (a = "dest_error" /\ stack # "mipstack")

(* Lookup finds the entry or asks the handler; what the handler gives is   *)
(* stored unless it came with an error.                                    *)
Looked(a) ==
    \/ entry # "none" /\ a = entry /\ UNCHANGED <<entry, dests>>
    \/ /\ entry = "none" /\ a \in Answer
       /\ entry' = IF a \in {"nil", "dest"} THEN a ELSE "none"
       /\ a \in {"dest", "dest_error"} => dests < MaxDest
       /\ dests' = IF StaysOpen(a) THEN dests + 1 ELSE dests

(* What a lookup comes to: an error that is neither is no destination.     *)
Direct(a) == CASE a = "dest" -> "handed" [] a = "reset" -> "rejected" [] a = "drop" -> "dropped" [] OTHER -> "echo"

(* The address of the interface answers for itself.                        *)
ByHandler(p, a) == IF p.own THEN "echo" ELSE Direct(a)

(* rejectIPv4WithICMP asks for room for the whole packet, and sends no     *)
(* rejection of a longer one.                                              *)
RejectIPv4(p, o) == IF o = "rejected" /\ p.big THEN "dropped" ELSE o

SystemICMP4(p, a) == IF p.echo /\ p.code = 0 THEN RejectIPv4(p, ByHandler(p, a)) ELSE "dropped"
SystemICMP6(p, a) == IF p.echo /\ p.code = 0 THEN ByHandler(p, a) ELSE "dropped"

GVisorICMP4(p, a) == IF p.echo /\ p.code = 0 THEN ByHandler(p, a) ELSE "builtin"

(* An echo request with another code is kept from the stack, which would   *)
(* answer it for any address.                                              *)
GVisorICMP6(p, a) == CASE ~p.echo -> "builtin" [] p.code # 0 -> "dropped" [] OTHER -> ByHandler(p, a)

InLoop(p, a) == CASE stack = "system" /\ p.v = 4 -> SystemICMP4(p, a) [] stack = "system" /\ p.v = 6 -> SystemICMP6(p, a)
                  [] stack = "gvisor" /\ p.v = 4 -> GVisorICMP4(p, a) [] stack = "gvisor" /\ p.v = 6 -> GVisorICMP6(p, a)

(* gVisor's own reply is not sent when there is no endpoint or no route.   *)
Sent(o) == IF stack = "gvisor" /\ o = "echo" THEN {"echo", "dropped"} ELSE {o}

Asks(p) == p.echo /\ p.code = 0 /\ ~p.own

(* The loop handles a request at once.                                     *)
Handle(r, a) ==
    /\ stack # "mipstack" /\ state[r] = "new"
    /\ IF Asks(packet[r]) THEN Looked(a) ELSE a = "nil" /\ UNCHANGED <<entry, dests>>
    /\ state' = [state EXCEPT ![r] = "done"] /\ got' = [got EXCEPT ![r] = a]
    /\ \E o \in Sent(InLoop(packet[r], a)) : outcome' = [outcome EXCEPT ![r] = o]
    /\ UNCHANGED <<stack, packet, slots>>

-----------------------------------------------------------------------------
(* The send to icmpSlots that does not wait.                               *)
HasSlot == slots < Slots

(* forwardICMP: what is no echo request, what is for the interface, and    *)
(* what finds no slot is over at once.                                     *)
ForwardICMP(r) ==
    LET p == packet[r]
    IN /\ stack = "mipstack" /\ state[r] = "new"
       /\ \/ /\ ~Asks(p) \/ ~HasSlot
             /\ outcome' = [outcome EXCEPT ![r] = IF p.echo /\ p.code = 0 /\ p.own THEN "echo" ELSE "dropped"]
             /\ state' = [state EXCEPT ![r] = "done"] /\ UNCHANGED slots
          \/ /\ Asks(p) /\ HasSlot
             /\ slots' = slots + 1
             /\ state' = [state EXCEPT ![r] = "detached"] /\ UNCHANGED outcome
       /\ UNCHANGED <<stack, packet, got, entry, dests>>

SlotsAfterFailure == slots

(* Detach fails: the slot goes back and the request is gone.               *)
DetachFails(r) ==
    /\ stack = "mipstack" /\ state[r] = "new" /\ Asks(packet[r]) /\ HasSlot
    /\ slots' = SlotsAfterFailure
    /\ state' = [state EXCEPT ![r] = "done"] /\ outcome' = [outcome EXCEPT ![r] = "dropped"]
    /\ UNCHANGED <<stack, packet, got, entry, dests>>

(* forwardDetachedICMP up to the end of Lookup.                            *)
LookUp(r, a) ==
    /\ state[r] = "detached" /\ Looked(a)
    /\ got' = [got EXCEPT ![r] = a] /\ state' = [state EXCEPT ![r] = "found"]
    /\ UNCHANGED <<stack, packet, outcome, slots>>

(* Every path returns once the packet is handed over, answered, rejected   *)
(* or dropped.                                                             *)
Ends(r) == state[r] = "found"

(* The deferred receive gives the slot back.                               *)
FinishDetached(r) ==
    /\ Ends(r) /\ state' = [state EXCEPT ![r] = "done"]
    /\ outcome' = [outcome EXCEPT ![r] = Direct(got[r])]
    /\ slots' = slots - 1
    /\ UNCHANGED <<stack, packet, got, entry, dests>>

(* The entry is too old, or its destination has closed itself.             *)
Expire ==
    /\ entry # "none" /\ entry' = "none"
    /\ dests' = IF entry = "dest" THEN dests - 1 ELSE dests
    /\ UNCHANGED <<stack, packet, state, got, outcome, slots>>

(* The same place takes another packet.                                    *)
Again(r, p) ==
    /\ state[r] = "done" /\ state' = [state EXCEPT ![r] = "new"]
    /\ packet' = [packet EXCEPT ![r] = p] /\ got' = [got EXCEPT ![r] = "none"]
    /\ outcome' = [outcome EXCEPT ![r] = "none"]
    /\ UNCHANGED <<stack, slots, entry, dests>>

Next ==
    \/ \E r \in Request : ForwardICMP(r) \/ DetachFails(r) \/ FinishDetached(r)
    \/ \E r \in Request, a \in Answer : Handle(r, a) \/ LookUp(r, a)
    \/ \E r \in Request : \E p \in Packet : Again(r, p)
    \/ Expire

(* The handler answers, and goroutines go on.                              *)
GoesOn(r) == (\E a \in Answer : LookUp(r, a)) \/ FinishDetached(r)

Spec == Init /\ [][Next]_vars /\ \A r \in Request : WF_vars(GoesOn(r))

-----------------------------------------------------------------------------
Running == {r \in Request : state[r] \in {"detached", "found"}}

(* A slot is in use exactly while a detached request is: none is lost on   *)
(* the paths that fail, and none is given back twice.                      *)
NothingLeaks == slots = Cardinality(Running)

(* The slots come back: a request gives its slot up again and again, so    *)
(* the stack does not stop forwarding ICMP after a burst.                  *)
SlotIsBack(r) == r \notin Running

(* A stack answers an echo request of a client itself only for its own     *)
(* address, or when the handler has no destination and no verdict for it;  *)
(* gVisor's own code never gets an echo request it would answer.           *)
NeverAnswersForOthers ==
    \A r \in Request :
        LET p == packet[r]
        IN /\ outcome[r] = "echo" => p.echo /\ p.code = 0 /\ (p.own \/ got[r] \in {"nil", "error", "dest_error"})
           /\ outcome[r] = "builtin" /\ p.v = 6 => ~p.echo

(* The handler's verdict is the same for a client whatever the stack: a    *)
(* drop is silent, a reset is answered (unless the IPv4 rejection of the   *)
(* system stack has no room), a destination gets the packet, and without   *)
(* either the stack replies (unless gVisor has no route).                  *)
HandlerIsObeyed ==
    \A r \in Request :
        LET p == packet[r]
        IN outcome[r] # "none" /\ Asks(p) =>
             /\ got[r] = "drop" => outcome[r] = "dropped"
             /\ got[r] = "dest" => outcome[r] = "handed"
             /\ got[r] = "reset" => outcome[r] = "rejected" \/ (p.v = 4 /\ p.big /\ stack = "system")
             /\ got[r] \in {"nil", "error", "dest_error"} => outcome[r] = "echo" \/ (outcome[r] = "dropped" /\ stack = "gvisor")

(* A ping is answered as the handler said, or by the stack for itself.     *)
PingsAnsweredRight == NeverAnswersForOthers /\ HandlerIsObeyed
=============================================================================
