------------------------------ MODULE PolicyRules ------------------------------
(***************************************************************************)
(* The policy routing rules of tun_linux.go (rules, setRules, unsetRules,  *)
(* resetRules, nextIndex6), the firewall marks they depend on              *)
(* (route_dnat_linux.go) and the way the kernel walks them.  A firewall    *)
(* mark is the set of its one-bits.  A rule is a priority, a family, a     *)
(* match and an action; a packet carries what the matches look at.  The    *)
(* rules of the two families never meet in the kernel, so the list is      *)
(* built per family.                                                       *)
(***************************************************************************)
EXTENDS Integers, Sequences, SequencesExt

CONSTANTS OptionSet,   \* the configurations to install
          Packets,     \* the packets to route
          Bits,        \* bit numbers of a firewall mark
          Field,       \* autoRouteDNATBypassMarkFieldMask
          Protected,   \* the mark of protectedFromVPN
          Start,       \* IPRoute2RuleIndex
          SystemMain,  \* priority of the kernel's rule for table main
          Fallback     \* IPRoute2AutoRedirectFallbackRuleIndex

OptionsType ==
    [autoRoute : BOOLEAN, families : SUBSET {4, 6}, markMode : BOOLEAN, dnat : BOOLEAN, ipvs : BOOLEAN,
     exclude : SUBSET {"sport", "dport", "uid"}, interface : {"any", "include", "exclude"}, android : BOOLEAN,
     vpn : {"off", "follow", "override"}, strict : BOOLEAN, input : SUBSET Bits, output : SUBSET Bits]

PacketType ==
    [family : {4, 6}, iif : {"lo", "tun", "listed", "other"}, oif : {"none", "tun"},
     excluded : SUBSET {"sport", "dport", "uid"}, mark : SUBSET Bits, src : {"unspecified", "tun", "low", "high"},
     dst : {"tun", "ipvs", "specific", "default", "nowhere", "outside"}, dns : BOOLEAN, dnat : BOOLEAN]

\* The rules have their place between the kernel's first and second, the
\* fallback is behind both, and the two marks of auto-redirect differ.
PolicyAssumption ==
    /\ Start \in Nat \ {0} /\ SystemMain \in Nat /\ Fallback \in Nat
    /\ Start + 10 < SystemMain /\ SystemMain < Fallback
    /\ Bits \subseteq Nat /\ Packets \subseteq PacketType /\ OptionSet \subseteq OptionsType
    /\ \A o \in OptionSet : o.input # o.output

VARIABLES options, phase, todo, kernel, ruleIndex6,
          unlisted     \* RuleList failed in nextIndex6 (history)
vars == <<options, phase, todo, kernel, ruleIndex6, unlisted>>

--------------------------------------------------------------------------------
(* Firewall marks. *)

Xor(a, b) == (a \ b) \cup (b \ a)

\* difference & -difference
LowestBit(d) == {b \in d : \A c \in d : b <= c}

\* autoRouteDNATBypassMask
BypassMask(o) ==
    LET mask == IF o.output \cap Field = {} THEN o.output ELSE Field
        difference == Xor(o.input, o.output)
    IN  IF o.markMode /\ difference \cap mask = {}
        THEN mask \cup LowestBit(difference) ELSE mask

BypassMark(o) == o.output \cap BypassMask(o)

\* The mark of a packet after the prerouting chain of the DNAT bypass.
MarkDNAT(o, p) ==
    IF o.dnat /\ p.dnat /\ p.iif # "lo" /\ (o.markMode => p.mark # o.input)
    THEN Xor(p.mark \ BypassMask(o), BypassMark(o))
    ELSE p.mark

--------------------------------------------------------------------------------
(* rules(). *)

Rule(pref, family, by, is, action, to) ==
    [pref |-> pref, family |-> family, by |-> by, is |-> is, action |-> action, to |-> to]
Goto(pref, f, by, is, to) == Rule(pref, f, by, is, "goto", to)
Lookup(pref, f, by, is)   == Rule(pref, f, by, is, "tun", 0)
Nop(pref, f)              == Rule(pref, f, "all", {}, "nop", 0)

Inc(b) == IF b THEN 1 ELSE 0
When(b, s) == IF b THEN s ELSE << >>

\* slip: the budget from before the bypass rules were there
NopPriorityTight == Start + 8

NopPriority == Start + 10

\* AutoRedirectMarkMode: the firewall has decided, the rules only look at its mark.
MarkModeRules(o, f) ==
    << Goto(Start, f, "mark",
            IF o.dnat THEN [value |-> BypassMark(o), mask |-> BypassMask(o)]
                      ELSE [value |-> o.output, mask |-> Bits], Start + 2),
       Lookup(Start + 1, f, "mark", [value |-> o.input, mask |-> Bits]),
       Nop(Start + 2, f),
       Lookup(Fallback, f, "all", {}) >>

BypassRules(o, f) ==
       When(o.dnat, << Goto(Start, f, "mark", [value |-> BypassMark(o), mask |-> BypassMask(o)], NopPriority) >>)
    \o When(o.ipvs, << Goto(Start + Inc(o.dnat), f, "dst", "ipvs", NopPriority) >>)

\* The priority after the bypass rules; the IPVS rules keep theirs when there are none.
AfterBypass(o) == Start + Inc(o.dnat) + Inc(o.ipvs)

ExcludeRules(o, f) ==
       When("sport" \in o.exclude, << Goto(AfterBypass(o), f, "exclude", "sport", NopPriority) >>)
    \o When("dport" \in o.exclude, << Goto(AfterBypass(o), f, "exclude", "dport", NopPriority) >>)
    \o When("uid" \in o.exclude, << Goto(AfterBypass(o), f, "exclude", "uid", NopPriority) >>)

AfterExclude(o) == AfterBypass(o) + Inc(o.exclude # {})

InterfaceRules(o, f) ==
    LET p == AfterExclude(o) IN
       When(o.interface = "include",
            << Goto(p, f, "iif", "listed", p + 2), Goto(p + 1, f, "all", {}, NopPriority), Nop(p + 2, f) >>)
    \o When(o.interface = "exclude", << Goto(p, f, "iif", "listed", NopPriority) >>)

AfterInterface(o) ==
    AfterExclude(o) + (CASE o.interface = "include" -> 3 [] o.interface = "exclude" -> 1 [] OTHER -> 0)

\* Without OverrideAndroidVPN the rule has a mask and no mark: it matches the unprotected packets.
AndroidRules(o, f) ==
    When(o.android /\ o.vpn # "off",
         << Goto(AfterInterface(o), f, "mark",
                 [value |-> IF o.vpn = "override" THEN Protected ELSE {}, mask |-> Protected], NopPriority) >>)

AfterAndroid(o) == AfterInterface(o) + Inc(o.android /\ o.vpn # "off")

\* Only DNS is kept from the more specific routes of table main.
MainRules(o, f, pref) == When(~o.android, << Rule(pref, f, "notdns", {}, "main", 0) >>)

Inet4Rules(o) ==
    LET own == AfterAndroid(o)
        p   == own + Inc(~o.android)
    IN  When(~o.android, << Lookup(own, 4, "dst", "tun") >>)
        \o MainRules(o, 4, p)
        \o << Goto(p, 4, "iif", "tun", NopPriority),
              Lookup(p + 1, 4, "notlo", {}),
              Lookup(p + 1, 4, "losrc", "unspecified"),
              Lookup(p + 1, 4, "losrc", "tun") >>

\* The two halves of the address space, low and high, are rules of their own.
Inet6Rules(o) ==
    LET p == AfterAndroid(o)
    IN  MainRules(o, 6, p)
        \o << Lookup(p, 6, "losrc", "tun"),
              Goto(p + 1, 6, "iif", "tun", NopPriority),
              Goto(p + 1, 6, "losrc", "low", NopPriority),
              Goto(p + 1, 6, "losrc", "high", NopPriority),
              Lookup(p + 2, 6, "all", {}) >>

NopRules(f) == << Nop(NopPriority, f) >>

StrictRules(o, f) == When(o.strict, << Rule(Start, f, "all", {}, "unreachable", 0) >>)

FamilyRules(o, f) ==
    CASE o.markMode /\ f \in o.families     -> MarkModeRules(o, f)
      [] o.markMode /\ f \notin o.families -> << >>
      [] ~o.markMode /\ f \notin o.families -> StrictRules(o, f)
      [] OTHER -> BypassRules(o, f) \o ExcludeRules(o, f) \o InterfaceRules(o, f) \o AndroidRules(o, f)
                  \o (IF f = 4 THEN Inet4Rules(o) ELSE Inet6Rules(o)) \o NopRules(f)

\* nextIndex6: one before the first rule there is.
NextIndex6 ==
    LET prefs == {kernel[i].pref : i \in {j \in DOMAIN kernel : kernel[j].family = 6 /\ kernel[j].pref > 0}}
    IN  (CHOOSE m \in prefs : \A n \in prefs : m <= n) - 1

\* Without AutoRoute only what is bound to the tun is routed, and only in IPv6.
OifRules(o, index) == When(6 \in o.families, << Lookup(index, 6, "oif", "tun") >>)

RulesOf(o, index) ==
    IF ~o.autoRoute THEN OifRules(o, index)
    ELSE When(o.families # {}, FamilyRules(o, 4) \o FamilyRules(o, 6))

--------------------------------------------------------------------------------
(* The kernel: rules in order of priority, equal ones in order of insertion;  *)
(* a jump whose target is missing is skipped.                                 *)

\* r comes behind every rule of its priority, at place i.
Behind(r, i) ==
    /\ \A j \in 1 .. i - 1 : kernel[j].pref <= r.pref
    /\ \A j \in i .. Len(kernel) : r.pref < kernel[j].pref

Matches(r, p, mark) ==
    CASE r.by = "all"     -> TRUE
      [] r.by = "mark"    -> mark \cap r.is.mask = r.is.value
      [] r.by = "dst"     -> p.dst = r.is
      [] r.by = "exclude" -> r.is \in p.excluded
      [] r.by = "iif"     -> p.iif = r.is
      [] r.by = "notlo"   -> p.iif # "lo"
      [] r.by = "notdns"  -> ~p.dns
      [] r.by = "oif"     -> p.oif = r.is
      \* an IPv6 lookup without a source address matches no source prefix
      [] r.by = "losrc"   -> p.iif = "lo" /\ p.src = r.is

\* dst: "specific" and "default" have a route in main, "nowhere" has none,
\* "outside" is excluded from the routes of the tun table.
InMain(p) == p.dst # "nowhere"

Fires(r, p, mark) == r.family = p.family /\ Matches(r, p, mark)

\* What a rule that fires finds: a route, or nothing.
Finds(r, p) ==
    CASE r.action = "tun" /\ p.dst # "outside"   -> "tun"
      [] r.action = "main" /\ p.dst = "specific" -> "main"
      [] r.action = "system" /\ InMain(p)        -> "main"
      [] r.action = "unreachable"                -> "unreachable"
      [] OTHER                                   -> "nothing"

\* Where a jump of rule i can go
Targets(rules, i) == {j \in i + 1 .. Len(rules) : rules[j].pref = rules[i].to}

Jumps(rules, i, p, mark) == Fires(rules[i], p, mark) /\ rules[i].action = "goto" /\ Targets(rules, i) # {}
Ends(rules, i, p, mark)  == Fires(rules[i], p, mark) /\ Finds(rules[i], p) # "nothing"

\* What the list decides for a packet, from rule i on.
Verdict(rules, p, mark) ==
    LET at[i \in 1 .. Len(rules) + 1] ==
            IF i > Len(rules) THEN "unreachable"
            ELSE IF Jumps(rules, i, p, mark) THEN at[Min(Targets(rules, i))]
            ELSE IF Ends(rules, i, p, mark) THEN Finds(rules[i], p)
            ELSE at[i + 1]
    IN  at[1]

Routed(p) == Verdict(kernel, p, MarkDNAT(options, p))

SystemRules == << Rule(0, 4, "all", {}, "nop", 0), Rule(0, 6, "all", {}, "nop", 0),
                  Rule(SystemMain, 4, "all", {}, "system", 0), Rule(SystemMain, 6, "all", {}, "system", 0) >>
Ours(r) == r \notin Range(SystemRules)

--------------------------------------------------------------------------------
(* Installing and removing. *)

Init ==
    /\ options \in OptionSet
    /\ phase = "new" /\ todo = << >> /\ kernel = SystemRules /\ ruleIndex6 = {} /\ unlisted = FALSE

\* Start, and resetRules after unsetRules, call rules() once and add what it returned.
Configure ==
    /\ phase \in {"new", "reset"}
    /\ phase' = IF phase = "new" THEN "adding" ELSE "readding"
    /\ todo' = RulesOf(options, NextIndex6)
    /\ ruleIndex6' = ruleIndex6 \cup (IF ~options.autoRoute /\ 6 \in options.families THEN {NextIndex6} ELSE {})
    /\ UNCHANGED <<options, kernel, unlisted>>

\* RuleList fails: the rule gets no priority, so the kernel puts it before the others.
ConfigureUnlisted ==
    /\ phase = "new" /\ ~options.autoRoute /\ 6 \in options.families
    /\ phase' = "adding" /\ todo' = OifRules(options, NextIndex6)
    /\ unlisted' = TRUE
    /\ UNCHANGED <<options, kernel, ruleIndex6>>

AddRule ==
    /\ phase \in {"adding", "readding"} /\ todo # << >>
    /\ \E i \in 1 .. Len(kernel) + 1 : Behind(Head(todo), i) /\ kernel' = InsertAt(kernel, i, Head(todo))
    /\ todo' = Tail(todo)
    /\ UNCHANGED <<options, phase, ruleIndex6, unlisted>>

Added ==
    /\ phase \in {"adding", "readding"} /\ todo = << >>
    /\ phase' = "up"
    /\ UNCHANGED <<options, todo, kernel, ruleIndex6, unlisted>>

\* setRules fails in resetRules: nothing is undone, and the device goes on with some of its rules.
AddStops ==
    /\ phase = "readding" /\ todo # << >>
    /\ phase' = "broken" /\ todo' = << >>
    /\ UNCHANGED <<options, kernel, ruleIndex6, unlisted>>

\* The rules of the list that unsetRules takes for its own.
InRange(r) ==
    \/ r.pref \in Start .. Start + 10
    \/ options.markMode /\ r.pref = Fallback

\* What RuleList returns to unsetRules, which asks with AutoRoute only; then
\* ruleIndex6 is empty, so it is all the same that those rules go first.
Listed == IF options.autoRoute THEN kernel ELSE << >>

\* unsetRules: on Close, again after one that failed, or in Start when a rule cannot be added.
Unset ==
    /\ phase \in {"adding", "up", "broken", "left"}
    /\ phase' = "removing"
    /\ todo' = Listed
    /\ UNCHANGED <<options, kernel, ruleIndex6, unlisted>>

\* unsetRules in resetRules: routeUpdate is registered with AutoRoute on Android.
UnsetForUpdate ==
    /\ phase \in {"up", "broken"} /\ options.autoRoute /\ options.android
    /\ \E vpn \in {"off", "follow", "override"} : options' = [options EXCEPT !.vpn = vpn]
    /\ phase' = "resetting"
    /\ todo' = Listed
    /\ UNCHANGED <<kernel, ruleIndex6, unlisted>>

\* RuleDel names family and priority: the kernel removes the first such rule.
Same(family, pref) == {i \in 1 .. Len(kernel) : kernel[i].pref = pref /\ kernel[i].family = family}

RuleDel(family, pref) ==
    \E i \in Same(family, pref) : (\A j \in Same(family, pref) : i <= j) /\ kernel' = RemoveAt(kernel, i)

DeleteIndexed ==
    /\ phase \in {"removing", "resetting"}
    /\ \E index \in ruleIndex6 : RuleDel(6, index) /\ ruleIndex6' = ruleIndex6 \ {index}
    /\ UNCHANGED <<options, phase, todo, unlisted>>

\* The rule was not added yet: RuleDel fails and unsetRules returns, with the
\* index still in ruleIndex6.
UnsetFails ==
    /\ phase = "removing" /\ \E index \in ruleIndex6 : Same(6, index) = {}
    /\ phase' = "down"
    /\ UNCHANGED <<options, todo, kernel, ruleIndex6, unlisted>>

DeleteListed ==
    /\ phase \in {"removing", "resetting"} /\ ruleIndex6 = {} /\ todo # << >>
    /\ IF InRange(Head(todo)) THEN RuleDel(Head(todo).family, Head(todo).pref) ELSE UNCHANGED kernel
    /\ todo' = Tail(todo)
    /\ UNCHANGED <<options, phase, ruleIndex6, unlisted>>

\* unsetRules returns an error with rules in place: all of them when RuleList fails, those
\* from the first that RuleDel cannot remove.  resetRules then adds none.
UnsetStops ==
    /\ phase \in {"removing", "resetting"}
    /\ ruleIndex6 # {} \/ (todo # << >> /\ (todo = kernel \/ InRange(Head(todo))))
    /\ phase' = IF phase = "removing" THEN "left" ELSE "broken"
    /\ todo' = << >>
    /\ UNCHANGED <<options, kernel, ruleIndex6, unlisted>>

Unsetted ==
    /\ phase \in {"removing", "resetting"} /\ ruleIndex6 = {} /\ todo = << >>
    /\ phase' = IF phase = "removing" THEN "down" ELSE "reset"
    /\ UNCHANGED <<options, todo, kernel, ruleIndex6, unlisted>>

Next == Configure \/ ConfigureUnlisted \/ AddRule \/ Added \/ AddStops \/ Unset \/ UnsetForUpdate
        \/ DeleteIndexed \/ UnsetFails \/ DeleteListed \/ UnsetStops \/ Unsetted
Spec == Init /\ [][Next]_vars
--------------------------------------------------------------------------------
(* Type correctness: the rules stay sorted by priority and what is still to be *)
(* done is a list of rules (setRules, unsetRules).                             *)
TypeOK ==
    /\ phase \in {"new", "adding", "up", "removing", "resetting", "reset", "readding", "broken", "left", "down"}
    /\ \A i \in DOMAIN todo : todo[i].pref \in Nat /\ todo[i].family \in {4, 6}
    /\ \A i \in 1 .. Len(kernel) - 1 : kernel[i].pref <= kernel[i + 1].pref

Ready == phase = "up" /\ options.autoRoute

\* Some option keeps the packet away from the tun.
KeptAway(o, p) ==
    \/ o.dnat /\ (BypassMark(o) = MarkDNAT(o, p) \cap BypassMask(o) \/ (p.dnat /\ p.iif # "lo"))
    \/ o.ipvs /\ p.dst = "ipvs"
    \/ p.excluded \cap o.exclude # {}
    \/ o.interface = "include" /\ p.iif # "listed"
    \/ o.interface = "exclude" /\ p.iif = "listed"
    \/ o.android /\ o.vpn = "override" /\ p.mark \cap Protected = Protected
    \/ o.android /\ o.vpn = "follow" /\ p.mark \cap Protected = {}

(* A packet that an exclusion, an interface option, the DNAT or IPVS bypass or  *)
(* Android's VPN keeps away is never looked up in the tun table: every goto     *)
(* lands behind every lookup, whatever the other options insert (rules).        *)
KeptAwayNeverTunnelled ==
    Ready /\ ~options.markMode =>
        \A p \in Packets : KeptAway(options, p) => Routed(p) # "tun"

(* A forwarded packet nothing keeps away, with no more specific route in main    *)
(* unless it is DNS, does reach the tun table: no earlier goto catches it        *)
(* (rules).                                                                      *)
OthersTunnelled ==
    Ready /\ ~options.markMode =>
        \A p \in Packets :
            /\ p.family \in options.families /\ p.iif \notin {"lo", "tun"} /\ ~KeptAway(options, p)
            /\ p.dst # "outside" /\ (p.dst = "specific" => p.dns \/ options.android)
            => Routed(p) = "tun"

(* What the stack sends out through the tun is not routed into the tun again,     *)
(* except to the tun's own subnet (rules: the iif rule before the lookups).       *)
NoLoop ==
    Ready /\ ~options.markMode =>
        \A p \in Packets : p.iif = "tun" /\ p.dst # "tun" => Routed(p) # "tun"

(* Auto-redirect: the input mark leads to the tun although the bypass mark is      *)
(* compared under a mask only, and a packet marked for output reaches the tun only  *)
(* when the system has no route for it (rules, autoRouteDNATBypassMask).            *)
MarkDecides ==
    Ready /\ options.markMode =>
        \A p \in Packets : p.family \in options.families =>
            /\ p.mark = options.input /\ p.dst # "outside" => Routed(p) = "tun"
            /\ p.mark = options.output /\ Routed(p) = "tun" => p.dst = "nowhere"

(* A forwarded packet fares the same in both families when both are configured,     *)
(* although the two lists have different priorities (rules, priority and priority6). *)
FamiliesAgree ==
    Ready /\ options.families = {4, 6} =>
        \A p \in Packets :
            p.family = 4 /\ p.iif # "lo" /\ p.dst # "tun" => Routed(p) = Routed([p EXCEPT !.family = 6])

(* Strict route: a family without a tun address is unreachable, whatever the other   *)
(* family's options have added before (rules, FR_ACT_UNREACHABLE).  Without any      *)
(* tun address there are no rules at all.                                             *)
StrictUnreachable ==
    Ready /\ ~options.markMode /\ options.strict /\ options.families # {} =>
        \A p \in Packets : p.family \notin options.families => Routed(p) = "unreachable"

(* When unsetRules is through, every rule that rules() made is gone: also those of a    *)
(* setRules that failed half-way, and those that earlier calls of unsetRules left when   *)
(* RuleList or RuleDel failed in them ("left", "broken").  The one rule it never finds   *)
(* is that of a nextIndex6 that could not list the rules.                                *)
UnsetRemovesAll ==
    phase = "down" /\ ~unlisted => \A i \in DOMAIN kernel : ~Ours(kernel[i])

(* No step has removed a rule of the system (unsetRules deletes by family and priority).    *)
SystemKept == \A r \in Range(SystemRules) : r \in Range(kernel)

================================================================================
