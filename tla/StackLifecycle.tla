--------------------------- MODULE StackLifecycle ---------------------------
(***************************************************************************)
(* Start and Close of the four stacks (stack_system.go, stack_mixed.go,    *)
(* stack_gvisor.go, stack_mipstack.go) with the goroutines they start.     *)
(*                                                                         *)
(* Start takes its resources one after the other and any of them may fail; *)
(* the listeners of the system stack are tried three times.  The owner     *)
(* calls Start once, then Close, closes the tun device and cancels the     *)
(* context, in any order after Start has returned.                         *)
(***************************************************************************)
EXTENDS Naturals, FiniteSets, Sequences

CONSTANTS Stacks,   \* of {"system", "mixed", "gvisor", "mipstack"}
          MaxTries  \* listener attempts: 3 in the code

StartAssumption ==
    Stacks \subseteq {"system", "mixed", "gvisor", "mipstack"} /\ MaxTries \in Nat \ {0}

Listeners == {"listen4", "listen6"}
Resources == Listeners \cup {"stack"}
Loops == {"accept4", "accept6", "tun", "packet"}

VARIABLES
    kind,      \* which stack it is
    families,  \* the families that have an address
    phase,     \* "new", "starting", "started", "failed", "closed"
    todo,      \* what Start still has to do
    tries,     \* attempts at the listener at hand
    open,      \* resources that are open
    known,     \* resources Close can find: the fields of the stack
    loops,     \* goroutines that run
    tun,       \* the device is open
    ctx        \* the context is not cancelled

vars == <<kind, families, phase, todo, tries, open, known, loops, tun, ctx>>

TypeOK ==
    /\ kind \in Stacks /\ families \subseteq {"4", "6"} /\ tries \in 0..(MaxTries - 1)
    /\ phase \in {"new", "starting", "started", "failed", "closed"}
    /\ todo \in Seq(Resources \cup {"forwarders"}) /\ known \subseteq Resources /\ open \subseteq Resources
    /\ loops \subseteq Loops /\ tun \in BOOLEAN /\ ctx \in BOOLEAN

Listening == (IF "4" \in families THEN <<"listen4">> ELSE <<>>) \o (IF "6" \in families THEN <<"listen6">> ELSE <<>>)

Init ==
    /\ kind \in Stacks /\ families \in {{"4"}, {"6"}, {"4", "6"}}
    /\ phase = "new" /\ todo = <<>> /\ tries = 0 /\ open = {} /\ known = {} /\ loops = {}
    /\ tun = TRUE /\ ctx = TRUE

\* What Start does, in order.
SystemStart == Listening
MixedStart == SystemStart \o <<"stack">>
GVisorStart == <<"stack">>
MipstackStart == <<"stack", "forwarders">>

Plan == CASE kind = "system" -> SystemStart [] kind = "mixed" -> MixedStart
          [] kind = "gvisor" -> GVisorStart [] kind = "mipstack" -> MipstackStart

Start ==
    /\ phase = "new" /\ phase' = "starting" /\ todo' = Plan
    /\ UNCHANGED <<kind, families, tries, open, known, loops, tun, ctx>>

(* The goroutine that comes with a resource; the endpoint of the gVisor    *)
(* stack reads the device as soon as it is attached.                       *)
LoopOf(r) == CASE r = "listen4" -> {"accept4"} [] r = "listen6" -> {"accept6"}
               [] r = "stack" /\ kind = "gvisor" -> {"tun"} [] OTHER -> {}

(* The field of the stack that Close looks at; Mipstack stores its stack   *)
(* when it has its forwarders and has started.                             *)
Stored(r) == CASE r = "forwarders" -> known \cup {"stack"}
               [] r = "stack" /\ kind = "mipstack" -> known
               [] OTHER -> known \cup {r}

Acquire ==
    /\ phase = "starting" /\ todo # <<>>
    /\ open' = open \cup ({Head(todo)} \cap Resources) /\ known' = Stored(Head(todo))
    /\ loops' = loops \cup LoopOf(Head(todo))
    /\ todo' = Tail(todo) /\ tries' = 0
    /\ UNCHANGED <<kind, families, phase, tun, ctx>>

(* listener.Listen: retryableListenError, and a second of sleep.           *)
Retry ==
    /\ phase = "starting" /\ todo # <<>> /\ Head(todo) \in Listeners /\ tries + 1 < MaxTries
    /\ tries' = tries + 1
    /\ UNCHANGED <<kind, families, phase, todo, open, known, loops, tun, ctx>>

(* What a failing step leaves: Mipstack.Start closes the stack it made.    *)
LeftByFailure(r) == IF r = "forwarders" THEN open \ {"stack"} ELSE open

Fail ==
    /\ phase = "starting" /\ todo # <<>>
    /\ open' = LeftByFailure(Head(todo))
    /\ phase' = "failed" /\ todo' = <<>> /\ tries' = 0
    /\ UNCHANGED <<kind, families, known, loops, tun, ctx>>

(* Start returns: the loops of the stack.                                  *)
Started ==
    /\ phase = "starting" /\ todo = <<>>
    /\ phase' = "started"
    /\ loops' = loops \cup {"tun"} \cup (IF kind \in {"mixed", "mipstack"} THEN {"packet"} ELSE {})
    /\ UNCHANGED <<kind, families, todo, tries, open, known, tun, ctx>>

-----------------------------------------------------------------------------
\* What Close closes of what it finds.
SystemClose == Listeners

(* Mixed.Close returns at once when it has no gVisor stack.                *)
MixedClose == IF "stack" \in known THEN {"stack"} \cup SystemClose ELSE {}
GVisorClose == {"stack"}
MipstackClose == {"stack"}

Closes == CASE kind = "system" -> SystemClose [] kind = "mixed" -> MixedClose
            [] kind = "gvisor" -> GVisorClose [] kind = "mipstack" -> MipstackClose

Close ==
    /\ phase \in {"started", "failed"}
    /\ phase' = "closed" /\ open' = open \ (Closes \cap known)
    /\ UNCHANGED <<kind, families, todo, tries, known, loops, tun, ctx>>

CloseTun == /\ phase \notin {"new", "starting"} /\ tun /\ tun' = FALSE
            /\ UNCHANGED <<kind, families, phase, todo, tries, open, known, loops, ctx>>

Cancel == /\ phase \notin {"new", "starting"} /\ ctx /\ ctx' = FALSE
          /\ UNCHANGED <<kind, families, phase, todo, tries, open, known, loops, tun>>

-----------------------------------------------------------------------------
(* When a loop ends: its listener is closed; the device is closed or the   *)
(* endpoint detached.                                                      *)
AcceptLoopEnds(r) == r \notin open
TunLoopEnds == ~tun \/ (kind = "gvisor" /\ "stack" \notin open)

(* Mixed.packetLoop ends with the context.                                 *)
PacketLoopEnds == ~ctx

(* Mipstack.writeLoop ends with its stack.                                 *)
WriteLoopEnds == "stack" \notin open

EndsOn(l) == CASE l = "accept4" -> AcceptLoopEnds("listen4") [] l = "accept6" -> AcceptLoopEnds("listen6")
               [] l = "tun" -> TunLoopEnds
               [] l = "packet" -> IF kind = "mixed" THEN PacketLoopEnds ELSE WriteLoopEnds

LoopEnds(l) ==
    /\ l \in loops /\ EndsOn(l)
    /\ loops' = loops \ {l}
    /\ UNCHANGED <<kind, families, phase, todo, tries, open, known, tun, ctx>>

(* It also ends when a write finds the device closed.                      *)
WriteFails ==
    /\ kind = "mipstack" /\ "packet" \in loops /\ ~tun
    /\ loops' = loops \ {"packet"}
    /\ UNCHANGED <<kind, families, phase, todo, tries, open, known, tun, ctx>>

(* Everything is over.                                                     *)
Over == phase = "closed" /\ ~tun /\ ~ctx /\ UNCHANGED vars

Next == Start \/ Acquire \/ Retry \/ Fail \/ Started \/ Close \/ CloseTun \/ Cancel \/ WriteFails
        \/ (\E l \in Loops : LoopEnds(l)) \/ Over

Spec == Init /\ [][Next]_vars /\ WF_vars(Acquire) /\ \A l \in Loops : WF_vars(LoopEnds(l))

-----------------------------------------------------------------------------
\* A Mixed whose Start failed has no gVisor stack, and its Close leaves the
\* listeners that System.start had opened: see the README.
MixedWithoutStack == kind = "mixed" /\ "stack" \notin known

(* After Close nothing that Start opened is open, whatever Start got done  *)
(* before it failed: a listener of one family when the other one failed,   *)
(* or a stack whose forwarders or start failed.                            *)
CloseFreesAll == phase = "closed" /\ ~MixedWithoutStack => open = {}

(* A stack that failed to start has no loop on the device: the owner may   *)
(* hand it to another stack.                                               *)
FailedLeavesDevice == phase = "failed" => loops \cap {"tun", "packet"} = {}

(* Nothing is left open by Close, nor running by a Start that failed.      *)
NothingLeaks == CloseFreesAll /\ FailedLeavesDevice

(* Once the owner has closed the stack and the device and cancelled the    *)
(* context, every goroutine of the stack ends: in the long run this holds. *)
AllLoopsEnded == phase = "closed" /\ ~tun /\ ~ctx /\ ~MixedWithoutStack => loops = {}
=============================================================================
