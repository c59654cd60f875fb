---------------------------- MODULE RedirectChain ----------------------------
(***************************************************************************)
(* What the firewall chains of auto-redirect do with the packets of a flow *)
(* (redirect_nftables.go, redirect_nftables_rules.go, the iptables twin in *)
(* redirect_iptables.go and both kinds of DNS hijacking rules).            *)
(*                                                                         *)
(* One behaviour is one configuration and one flow.  Its first packet goes *)
(* through the NAT chain of its hook; every packet goes through the filter *)
(* and route chains; conntrack keeps the flow's mark and its translation.  *)
(* In between the route address sets may be replaced, and replies arrive.  *)
(*                                                                         *)
(* Addresses are classes: "pub" and "alt" are elsewhere, "dns" is a name   *)
(* server, "lan" is in the subnet of a local interface, "self" is the      *)
(* host's own address, "loop" is a configured loopback address.            *)
(***************************************************************************)
EXTENDS Naturals, FiniteSets

CONSTANTS Options, \* the configurations: see OptionsType
          Flows,   \* the flows: see FlowType
          RouteSets \* the values <<route, exclude>> of the route address sets

Class == {"pub", "alt", "dns", "lan", "self", "loop"}
Iface == {"lan0", "lan1", "tun"}
UID == (0..1) \X (0..1)  \* the two bytes of a user id that tell the orders apart
Network == {"tcp", "udp", "any"}

OptionsType ==
    [mark : BOOLEAN, auto : BOOLEAN, strict : BOOLEAN, families : SUBSET {4, 6},
     includeIf : SUBSET {"lan0", "lan1", "lo"}, excludeIf : SUBSET {"lan0", "lan1", "lo"},
     includeMAC : SUBSET {"m1", "m2"}, excludeMAC : SUBSET {"m1", "m2"},
     includeUID : SUBSET UID, excludeUID : SUBSET UID,
     route : SUBSET Class, excludeRoute : SUBSET Class, loopback : SUBSET {"loop"},
     hijack : BOOLEAN, dnsRules : SUBSET [network : Network, to : {"any", "dns"}], defaultDNS : BOOLEAN,
     excludeMPTCP : BOOLEAN]

FlowType ==
    [hook : {"output", "prerouting"}, proto : {"tcp", "udp", "icmp"}, family : {4, 6},
     dst : Class, port : {53, 80}, iif : Iface, ether : BOOLEAN, mac : {"m1", "m2"},
     localSource : BOOLEAN, uid : UID, oif : {"tun", "eth", "lo"}, own : BOOLEAN,
     mptcp : BOOLEAN, dnat : BOOLEAN]

ChainAssumption ==
    /\ Options \subseteq OptionsType /\ Flows \subseteq FlowType
    /\ RouteSets \subseteq (SUBSET Class) \X (SUBSET Class)

VARIABLES o,       \* the configuration
          flow,    \* the flow
          sets,    \* [on, route, exclude]: the route address sets of the kernel
          ct,      \* conntrack: [known, mark, nat]
          outcome, \* what happened to the last packet
          first,   \* what happened to the first packet that passed
          updated  \* whether the sets were replaced since then

vars == <<o, flow, sets, ct, outcome, first, updated>>

Mark == {"none", "input", "output"}
NAT == {"none", "redirect", "hijack"}
Outcome == [verdict : {"accept", "drop", "reject"}, nat : NAT, mark : Mark]
Nothing == [verdict |-> "accept", nat |-> "none", mark |-> "none"]

TypeOK ==
    /\ o \in OptionsType /\ flow \in FlowType
    /\ sets \in [routeRule : BOOLEAN, excludeRule : BOOLEAN, route : SUBSET Class, exclude : SUBSET Class]
    /\ ct \in [known : BOOLEAN, mark : Mark, nat : NAT]
    /\ outcome \in Outcome /\ first \in Outcome /\ updated \in BOOLEAN

-----------------------------------------------------------------------------
(* The rules of nftablesCreateExcludeRules, each as the condition under    *)
(* which its packet leaves the chain.                                      *)
IsUDPOrICMP(f) == f.proto \in {"udp", "icmp"}

ReturnDNAT(p, f) == p.auto /\ f.hook = "prerouting" /\ f.dnat

ReturnOwn(p, f, type, ctmark) ==
    /\ p.mark /\ f.hook = "output"
    /\ \/ f.own
       \/ type = "route" /\ (~IsUDPOrICMP(f) \/ ctmark = "output")

ReturnInterface(p, f) ==
    /\ f.hook = "prerouting"
    /\ \/ f.iif = "tun"
       \/ p.includeIf # {} /\ f.iif \notin p.includeIf
       \/ f.iif \in p.excludeIf

ReturnMAC(p, f) ==
    /\ f.hook = "prerouting"
    /\ \/ p.includeMAC # {} /\ (~f.ether \/ f.mac \notin p.includeMAC)
       \/ f.ether /\ f.mac \in p.excludeMAC

(* A single included id is compared in network byte order, where every     *)
(* other comparison of ids is in the byte order of the host (a little      *)
(* endian one here).                                                       *)
SwapBytes(u) == <<u[2], u[1]>>
Included(S) == IF Cardinality(S) = 1 THEN {SwapBytes(u) : u \in S} ELSE S

ReturnUID(p, f) ==
    /\ f.hook = "output"
    /\ \/ p.includeUID # {} /\ f.uid \notin Included(p.includeUID)
       \/ f.uid \in p.excludeUID

(* The expressions that look a destination up in a set of its family.      *)
InDestinationSet(f, S, invert) == (f.dst \in S) # invert

ReturnRoute(p, f) ==
    \/ p.route # {} /\ InDestinationSet(f, p.route, TRUE)
    \/ InDestinationSet(f, p.excludeRoute, FALSE)

(* The sets of the interfaces' prefixes hold whole subnets.                *)
ReturnLocal(p, f) == f.family \in p.families /\ InDestinationSet(f, {"lan", "self"}, FALSE)

ReturnSets(p, f, s) ==
    /\ f.family \in p.families
    /\ \/ s.routeRule /\ InDestinationSet(f, s.route, TRUE)
       \/ s.excludeRule /\ InDestinationSet(f, s.exclude, FALSE)

(* One rule of nftablesCreateDNSHijackRulesForFamily.  The rule without a  *)
(* configuration is the one for port 53 of both protocols.                 *)
DefaultRule == [network |-> "any", to |-> "any"]
HijackRules(p) == IF p.defaultDNS THEN {DefaultRule} ELSE p.dnsRules

HijackedBy(rule, f) ==
    /\ f.hook = "output" => f.oif # "lo"
    /\ (f.hook = "prerouting" /\ rule.to = "any") => f.localSource
    /\ rule.to # "any" => f.dst = rule.to
    /\ f.proto \in (IF rule.network = "any" THEN {"tcp", "udp"} ELSE {rule.network})
    /\ f.port = 53

Hijacked(p, f, type) ==
    /\ p.hijack /\ type = "nat" /\ (f.hook = "prerouting" \/ p.mark)
    /\ f.family \in p.families
    /\ \E rule \in HijackRules(p) : HijackedBy(rule, f)

IsMPTCP(f) == f.proto = "tcp" /\ f.mptcp

(* nftablesCreateExcludeRules: what the rules make of a packet, in order.  *)
ExcludeRules(p, f, s, type, ctmark) ==
    IF \/ ReturnDNAT(p, f) \/ ReturnOwn(p, f, type, ctmark) \/ ReturnInterface(p, f)
       \/ ReturnMAC(p, f) \/ ReturnUID(p, f) \/ ReturnRoute(p, f)
    THEN "return"
    ELSE IF Hijacked(p, f, type) THEN "hijack"
    ELSE IF ReturnLocal(p, f) \/ ReturnSets(p, f, s) THEN "return"
    ELSE IF ~IsMPTCP(f) THEN "continue"
    ELSE IF p.excludeMPTCP THEN "return" ELSE "drop"

(* nftablesCreateUnreachable and nftablesCreateRedirect.                   *)
Unreachable(p, f) == p.strict /\ Cardinality(p.families) = 1 /\ f.family \notin p.families
InLoopbackSet(p, f) == f.family \in p.families /\ f.dst \in p.loopback
Redirected(p, f) == f.proto = "tcp" /\ f.family \in p.families /\ ~InLoopbackSet(p, f)

(* The chain "output" is left out when the loopback interface is not       *)
(* among the interfaces.                                                   *)
SkipOutput(p) == (p.includeIf # {} /\ "lo" \notin p.includeIf) \/ "lo" \in p.excludeIf

-----------------------------------------------------------------------------
(* A chain takes the packet as the chains before it left it: k is its      *)
(* outcome so far with the flow's conntrack mark (field ctmark).           *)
Rejects(k) == [k EXCEPT !.verdict = "reject"]
Marks(k) == [k EXCEPT !.mark = "input", !.ctmark = "input"]

(* The NAT chains "output" and "prerouting", for the first packet.         *)
NATChain(p, f, s, k) ==
    LET x == ExcludeRules(p, f, s, "nat", k.ctmark)
    IN IF f.hook = "output" /\ ~p.mark
       THEN IF f.oif = "tun" /\ Redirected(p, f) THEN [k EXCEPT !.nat = "redirect"] ELSE k
       ELSE CASE x = "hijack" -> [k EXCEPT !.nat = "hijack"]
              [] x = "drop" -> [k EXCEPT !.verdict = "drop"]
              [] x = "return" -> k
              [] x = "continue" ->
                 CASE Unreachable(p, f) -> Rejects(k)
                   [] ~Unreachable(p, f) /\ Redirected(p, f) -> [k EXCEPT !.nat = "redirect"]
                   [] OTHER -> IF f.hook = "prerouting" /\ p.mark THEN Marks(k) ELSE k

(* nftablesCreateLoopbackReroute, for every packet.                        *)
LoopbackReroute(p, f, k) ==
    IF /\ p.mark /\ f.proto = "tcp" /\ k.mark # "input" /\ k.nat = "none"
       /\ InLoopbackSet(p, f)
    THEN IF f.hook = "output" THEN Marks(k) ELSE [k EXCEPT !.mark = "input"]
    ELSE k

(* The chain "output_udp_icmp": the exclusions again, then the mark.  A    *)
(* hijacked packet has the address of the tun's name server by now, which  *)
(* is in the tun's own subnet.                                             *)
OutputUDP(p, f, s, k) ==
    LET now == IF k.nat = "hijack" THEN [f EXCEPT !.dst = "lan"] ELSE f
        x == ExcludeRules(p, now, s, "route", k.ctmark)
    IN CASE ~p.mark \/ x \in {"return", "hijack"} -> k
         [] p.mark /\ x = "drop" -> [k EXCEPT !.verdict = "drop"]
         [] OTHER -> IF Unreachable(p, f) THEN Rejects(k) ELSE Marks(k)

\* slip: the mark of a captured flow is not restored on its later packets
PreroutingUDPForgets(p, iif, f, k) ==
    IF ~p.mark \/ ~IsUDPOrICMP(f) \/ iif = "tun" THEN k
    ELSE IF k.ctmark = "input" THEN k
    ELSE [k EXCEPT !.mark = "output", !.ctmark = "output"]

(* The chain "prerouting_udp_icmp".                                        *)
PreroutingUDP(p, iif, f, k) ==
    IF ~p.mark \/ ~IsUDPOrICMP(f) \/ iif = "tun" THEN k
    ELSE IF k.ctmark = "input" THEN [k EXCEPT !.mark = "input"]
    ELSE [k EXCEPT !.mark = "output", !.ctmark = "output"]

(* A packet of the flow in its own direction, through the chains of its    *)
(* hook in the order of their priorities; conntrack has c.                 *)
Through(p, f, s, c) ==
    LET in  == [verdict |-> "accept", nat |-> c.nat, ctmark |-> c.mark,
                mark |-> IF f.own THEN "output" ELSE "none"]
        nat == IF c.known \/ (f.hook = "output" /\ SkipOutput(p)) THEN in ELSE NATChain(p, f, s, in)
        route == IF nat.verdict # "accept" \/ (f.hook = "output" /\ SkipOutput(p)) THEN nat
                 ELSE LoopbackReroute(p, f, nat)
    IN IF route.verdict # "accept" THEN route
       ELSE IF f.hook = "prerouting" THEN PreroutingUDP(p, f.iif, f, route)
       ELSE IF SkipOutput(p) THEN route ELSE OutputUDP(p, f, s, route)

Result(k) == [verdict |-> k.verdict, nat |-> k.nat, mark |-> k.mark]

(* The flow's packets go through the tunnel's program: to the redirect     *)
(* server, to its name server, or with the mark that routes to the tun.    *)
Captured(r) == r.verdict = "accept" /\ (r.nat # "none" \/ r.mark = "input")

-----------------------------------------------------------------------------
(* iptables: the chain in PREROUTING and the one in OUTPUT, for the first  *)
(* packet of a flow.                                                       *)
IPTConflict(p) == p.route # {} /\ (p.includeIf # {} \/ p.includeUID # {})
Selected(p, f) ==
    IF p.route # {} THEN f.dst \in p.route
    ELSE (p.includeIf # {} \/ p.includeUID # {}) => f.iif \in p.includeIf

IPTHijackRules(p) == IF p.defaultDNS THEN {[network |-> "udp", to |-> "any"]} ELSE p.dnsRules

IPTHijacked(p, f) ==
    /\ p.hijack /\ f.proto = "udp" /\ f.port = 53 /\ Selected(p, f)
    /\ \E rule \in IPTHijackRules(p) : rule.network # "tcp" /\ rule.to \in {"any", f.dst}

IPTPrerouting(p, f) ==
    IF \/ p.auto /\ (f.dnat \/ f.dst = "self")
       \/ f.iif = "tun" \/ f.dst \in p.excludeRoute \/ f.iif \in p.excludeIf
    THEN "none"
    ELSE IF IPTHijacked(p, f) THEN "hijack"
    ELSE IF f.dst # "self" /\ f.proto = "tcp" /\ Selected(p, f) THEN "redirect"
    ELSE "none"

IPTOutput(p, f) == IF f.proto = "tcp" /\ f.oif = "tun" THEN "redirect" ELSE "none"

IPTResult(p, f) ==
    IF f.family \notin p.families THEN "none"
    ELSE IF f.hook = "output" THEN IPTOutput(p, f)
    ELSE IF IPTConflict(p) THEN "none" ELSE IPTPrerouting(p, f)

-----------------------------------------------------------------------------
NoSets == [routeRule |-> FALSE, excludeRule |-> FALSE, route |-> {}, exclude |-> {}]

(* The rules for the sets are there when the sets had members at setup.    *)
Init ==
    /\ o \in Options /\ flow \in Flows
    /\ \E v \in RouteSets : sets = [routeRule |-> v[1] # {}, excludeRule |-> v[2] # {}, route |-> v[1], exclude |-> v[2]]
    /\ ct = [known |-> FALSE, mark |-> "none", nat |-> "none"]
    /\ outcome = Nothing /\ first = Nothing /\ updated = FALSE

(* A packet that is dropped or rejected leaves conntrack without an entry. *)
Packet ==
    LET k == Through(o, flow, sets, ct)
    IN /\ outcome' = Result(k)
       /\ ct' = IF k.verdict = "accept" THEN [known |-> TRUE, mark |-> k.ctmark, nat |-> k.nat] ELSE ct
       /\ first' = IF ct.known THEN first ELSE Result(k)
       /\ updated' = (updated /\ ct.known)
       /\ UNCHANGED <<o, flow, sets>>

(* A reply comes from the tun when the flow went there, and otherwise from *)
(* another interface; it is known, so only "prerouting_udp_icmp" sees it.  *)
Reply ==
    /\ ct.known
    /\ ct' = [ct EXCEPT !.mark =
                PreroutingUDP(o, IF Captured(outcome) THEN "tun" ELSE "lan1", flow,
                              [verdict |-> "accept", nat |-> ct.nat, mark |-> "none", ctmark |-> ct.mark]).ctmark]
    /\ UNCHANGED <<o, flow, sets, outcome, first, updated>>

(* UpdateRouteAddressSet replaces the members of the sets that are there.  *)
UpdateRouteAddressSet(r, x) ==
    /\ (r # {}) = sets.routeRule /\ (x # {}) = sets.excludeRule
    /\ sets' = [sets EXCEPT !.route = r, !.exclude = x]
    /\ updated' = TRUE
    /\ UNCHANGED <<o, flow, ct, outcome, first>>

Next == \/ Packet \/ Reply
        \/ \E v \in RouteSets : UpdateRouteAddressSet(v[1], v[2])

Spec == Init /\ [][Next]_vars

-----------------------------------------------------------------------------
(* The program's own traffic, which carries the output mark, is never sent *)
(* back to it, whatever is configured and in whatever order packets,       *)
(* replies and updates come: otherwise a connection it makes for a client  *)
(* would return to it for ever.  Loopback addresses are meant to be.       *)
OwnTrafficEscapes ==
    (o.mark /\ flow.hook = "output" /\ flow.own /\ flow.dst \notin o.loopback)
        => ~Captured(outcome)

(* A flow keeps its path: every packet goes where the first one went, and  *)
(* for forwarded flows a replaced address set changes nothing, because     *)
(* their decision is in the conntrack mark.  A path that changes in the    *)
(* middle of a flow breaks its connection.  (For a family without a tun    *)
(* address there are no routing rules that look at a mark.)                *)
FlowKeepsPath ==
    (ct.known /\ flow.family \in o.families /\ (flow.hook = "prerouting" \/ ~updated)) =>
        /\ outcome.verdict = "accept"
        /\ Captured(outcome) = Captured(first)

(* In mark mode a TCP flow and a UDP flow with the same ends are treated   *)
(* alike, although two different chains decide about them.                 *)
TCPLikeUDP ==
    LET As(proto) == Result(Through(o, [flow EXCEPT !.proto = proto], sets,
                                    [known |-> FALSE, mark |-> "none", nat |-> "none"]))
    IN (o.mark /\ flow.family \in o.families /\ flow.port # 53 /\ ~flow.mptcp)
        => \/ Captured(As("tcp")) = Captured(As("udp"))
           \/ flow.hook = "output" /\ flow.own /\ flow.dst \in o.loopback
           \/ flow.dst \in o.loopback /\ Captured(As("tcp"))

(* The host's own services stay reachable: nothing addressed to the host   *)
(* itself is taken, by nftables or by iptables, but for its name service.  *)
LocalReachable ==
    (flow.dst = "self" /\ flow.port # 53 /\ flow.hook = "prerouting" /\ flow.family \in o.families) =>
        /\ ~Captured(outcome)
        /\ IPTResult(o, flow) = "none"

(* Where both can express a configuration, nftables and iptables do the    *)
(* same with a forwarded flow: TCP beyond the local subnets, and DNS from  *)
(* a local client (iptables lets a query to the host itself pass when      *)
(* auto-route is on, nftables does not).                                   *)
Comparable(p, f, s) ==
    /\ ~p.mark /\ f.hook = "prerouting" /\ f.family \in p.families /\ s = NoSets
    /\ p.includeMAC = {} /\ p.excludeMAC = {} /\ p.includeUID = {} /\ p.loopback = {}
    /\ ~f.mptcp /\ ~IPTConflict(p)
    /\ \/ f.proto = "tcp" /\ f.port # 53 /\ f.dst # "lan"
       \/ f.proto = "udp" /\ f.localSource /\ f.dst # "self"

BackendsAgree ==
    (Comparable(o, flow, sets) /\ ct.known) => first.nat = IPTResult(o, flow)
=============================================================================
