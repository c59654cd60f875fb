---------------------------- MODULE IPTablesSetup ----------------------------
(***************************************************************************)
(* Auto-redirect with iptables (redirect_iptables.go): the commands that   *)
(* build and remove its chains, one family after the other, with the       *)
(* process dying or a command failing between any two of them.             *)
(*                                                                         *)
(* What the rules in a chain say is in RedirectChain; here a chain is the  *)
(* number of its rules, and a jump is the rule of the built-in chain that  *)
(* sends packets to it.                                                    *)
(***************************************************************************)
EXTENDS Integers, Sequences

CONSTANTS Families,  \* the families set up: enableIPv4, enableIPv6
          PreRules,  \* rules of the prerouting chain
          MaxFaults  \* bound on the commands that fail for no reason of their own

FaultAssumption == Families \subseteq {4, 6} /\ PreRules \in Nat /\ MaxFaults \in Nat

VARIABLES android, \* runtime.GOOS = "android": only the output chain
          chain,  \* the chains there are: the number of rules, or -1 without it
          jumps,  \* the jumps to each chain from its built-in one
          conflict, \* families with a route address beside an included interface or uid
          todo,   \* commands of the call in progress
          phase,  \* "off", "cleaning", "setting", "up", "failed", "closing", "closed"
          faults, \* failures so far
          dirty   \* a removal failed for no reason of its own and was not repeated

vars == <<android, chain, jumps, conflict, todo, phase, faults, dirty>>

Name == {"output", "input", "forward", "prerouting"}
Key == {4, 6} \X Name
Absent == 0 - 1

TypeOK ==
    /\ android \in BOOLEAN
    /\ chain \in [Key -> {Absent} \cup 0..(PreRules + 2)]
    /\ jumps \in [Key -> 0..1] /\ conflict \subseteq {4, 6}
    /\ phase \in {"off", "cleaning", "setting", "up", "failed", "closing", "closed"}
    /\ faults \in 0..MaxFaults /\ dirty \in BOOLEAN

-----------------------------------------------------------------------------
Cmd(op, f, c) == [op |-> op, key |-> <<f, c>>]
Rules(c) == CASE c = "output" -> 1 [] c = "prerouting" -> PreRules [] OTHER -> 2

(* A chain is created, filled, and only then jumped to.                    *)
Build(f, c) ==
    <<Cmd("N", f, c)>> \o [i \in 1..Rules(c) |-> Cmd("A", f, c)] \o <<Cmd("I", f, c)>>

(* setupIPTablesForFamily; a conflict of the options returns an error in   *)
(* the middle of the prerouting chain.                                     *)
SetupFamily(f) ==
    Build(f, "output") \o
    (IF android THEN <<>>
     ELSE Build(f, "input") \o Build(f, "forward") \o
          (IF f \in conflict THEN <<Cmd("N", f, "prerouting"), Cmd("conflict", f, "prerouting")>>
           ELSE Build(f, "prerouting")))

RemoveChain(f, c) == <<Cmd("D", f, c), Cmd("F", f, c), Cmd("X", f, c)>>

(* cleanupIPTablesForFamily.                                               *)
CleanupFamily(f) ==
    RemoveChain(f, "output") \o
    (IF android THEN <<>>
     ELSE RemoveChain(f, "input") \o RemoveChain(f, "forward") \o RemoveChain(f, "prerouting"))

Setup ==
    (IF 4 \in Families THEN SetupFamily(4) ELSE <<>>) \o
    (IF 6 \in Families THEN SetupFamily(6) ELSE <<>>)
Cleanup ==
    (IF 4 \in Families THEN CleanupFamily(4) ELSE <<>>) \o
    (IF 6 \in Families THEN CleanupFamily(6) ELSE <<>>)

(* External, iptables: when a command can be done, and what it does.       *)
Possible(c) ==
    CASE c.op = "N" -> chain[c.key] = Absent
      [] c.op = "A" -> chain[c.key] # Absent
      [] c.op = "I" -> chain[c.key] # Absent
      [] c.op = "D" -> jumps[c.key] > 0
      [] c.op = "F" -> chain[c.key] # Absent
      [] c.op = "X" -> chain[c.key] = 0 /\ jumps[c.key] = 0
      [] c.op = "conflict" -> FALSE

Effect(c) ==
    /\ chain' = [chain EXCEPT ![c.key] =
                    CASE c.op \in {"N", "F"} -> 0 [] c.op = "A" -> @ + 1 [] c.op = "X" -> Absent [] OTHER -> @]
    /\ jumps' = [jumps EXCEPT ![c.key] =
                    CASE c.op = "I" -> @ + 1 [] c.op = "D" -> @ - 1 [] OTHER -> @]

-----------------------------------------------------------------------------
Init == /\ android \in BOOLEAN
        /\ chain = [k \in Key |-> Absent] /\ jumps = [k \in Key |-> 0]
        /\ conflict \in SUBSET {4, 6}
        /\ todo = <<>> /\ phase = "off" /\ faults = 0 /\ dirty = FALSE

(* Start removes what an earlier process may have left, then sets up.      *)
Start ==
    /\ phase = "off"
    /\ phase' = "cleaning" /\ todo' = Cleanup
    /\ UNCHANGED <<android, chain, jumps, conflict, faults, dirty>>

(* runShell of a removal: its error is ignored.                            *)
RunRemoval(ok) ==
    /\ phase \in {"cleaning", "closing"} /\ todo # <<>>
    /\ LET c == Head(todo)
       IN IF ok /\ Possible(c) THEN Effect(c) /\ UNCHANGED <<faults, dirty>>
          ELSE /\ UNCHANGED <<chain, jumps>>
               /\ faults' = IF ok THEN faults ELSE faults + 1
               /\ dirty' = (dirty \/ ~ok)
    /\ todo' = Tail(todo)
    /\ UNCHANGED <<android, conflict, phase>>

Removed ==
    /\ phase \in {"cleaning", "closing"} /\ todo = <<>>
    /\ IF phase = "cleaning" THEN phase' = "setting" /\ todo' = Setup
       ELSE phase' = "closed" /\ todo' = <<>>
    /\ UNCHANGED <<android, chain, jumps, conflict, faults, dirty>>

(* runShell of the setup: the first error ends Start, and what is there    *)
(* stays.                                                                  *)
RunSetup(ok) ==
    /\ phase = "setting" /\ todo # <<>>
    /\ IF ok /\ Possible(Head(todo))
       THEN Effect(Head(todo)) /\ todo' = Tail(todo) /\ UNCHANGED phase
       ELSE UNCHANGED <<chain, jumps>> /\ todo' = <<>> /\ phase' = "failed"
    /\ faults' = IF ok THEN faults ELSE faults + 1
    /\ UNCHANGED <<android, conflict, dirty>>

Started ==
    /\ phase = "setting" /\ todo = <<>>
    /\ phase' = "up"
    /\ UNCHANGED <<android, chain, jumps, conflict, todo, faults, dirty>>

(* Close, after a Start that failed as well.                               *)
Close ==
    /\ phase \in {"up", "failed"}
    /\ phase' = "closing" /\ todo' = Cleanup /\ dirty' = FALSE
    /\ UNCHANGED <<android, chain, jumps, conflict, faults>>

(* The process dies, or ends after Close, and is started again.            *)
Restart ==
    /\ phase # "off"
    /\ phase' = "off" /\ todo' = <<>>
    /\ UNCHANGED <<android, chain, jumps, conflict, faults, dirty>>

Next == \/ Start \/ Removed \/ Started \/ Close \/ Restart
        \/ \E ok \in BOOLEAN : (ok \/ faults < MaxFaults) /\ (RunRemoval(ok) \/ RunSetup(ok))

Spec == Init /\ [][Next]_vars

-----------------------------------------------------------------------------
(* No packet ever goes through a chain that has some of its rules: the     *)
(* jump is made last and removed first, and what a dead process or a       *)
(* failed removal left behind stops the next setup instead of being built  *)
(* upon.  A prerouting chain without its first rules would take the        *)
(* traffic of the tun itself.                                              *)
NoHalfChain ==
    \A k \in Key : jumps[k] > 0 => chain[k] \in {0, Rules(k[2])}

(* After Close none of its commands left a chain or a jump behind, however *)
(* far Start had come and whatever an earlier process had left, unless a   *)
(* removal failed for a reason of its own.                                 *)
ClosedLeavesNothing ==
    (phase = "closed" /\ ~dirty) =>
        \A k \in Key : chain[k] = Absent /\ jumps[k] = 0

(* A Start without an error has everything in place once.                  *)
UpIsComplete ==
    phase = "up" =>
        \A f \in Families : \A c \in (IF android THEN {"output"} ELSE Name) :
            chain[<<f, c>>] = Rules(c) /\ jumps[<<f, c>>] = 1
=============================================================================
