------------------------------ MODULE MCRules ------------------------------
(* One run for the components that decide which traffic goes to the tun:    *)
(* nftables sets and chains, iptables chains, the lifecycle of auto-        *)
(* redirect, policy routing rules, route ranges and Android's packages.     *)
(* They share no state, so a behaviour is of one of them: part says which,  *)
(* and the variables v1, v2, ... are that component's, under its names for  *)
(* them.                                                                    *)
EXTENDS Integers, Sequences, TLC

CONSTANTS Parts,  \* the components this run checks
          None, Failed,
          MaxAddr, BatchSize, Digit,                             \* NftSet
          W4, W6, TopBits, MaxIndex, RangeOptionSet,             \* RouteRanges
          Options, Flows, RouteSets,                             \* RedirectChain
          RuleOptionSet, RulePackets, MarkBits, BypassField, VPNMark,
          RuleStart, MainPref, FallbackPref,                     \* PolicyRules
          IPTFamilies, PreRules, MaxFaults,                      \* IPTablesSetup
          RedirectAddr, Reports, MaxStarts,                      \* AutoRedirect
          Files, AppOptionSet, Dirs, UserRange, UidBits, MaxChanges, MaxFailures  \* Packages

\* PolicyRules: marks of four bits, of which two make the bypass field.
PlainOptions == [autoRoute |-> TRUE, families |-> {4, 6}, markMode |-> FALSE, dnat |-> FALSE, ipvs |-> FALSE,
          exclude |-> {}, interface |-> "any", android |-> FALSE, vpn |-> "off", strict |-> FALSE,
          input |-> {0}, output |-> {1}]

\* output and input marks: in the bypass field, outside it, and equal inside it
Marks == {<<{1}, {0}>>, <<{2}, {0}>>, <<{1}, {1, 2}>>, <<{2}, {2, 3}>>}

RuleOptions ==
    {[PlainOptions EXCEPT !.families = f, !.dnat = d, !.ipvs = v, !.exclude = e, !.interface = i, !.strict = s,
                   !.output = m[1], !.input = m[2]] :
        f \in {{4}, {6}, {4, 6}}, d \in BOOLEAN, v \in BOOLEAN, e \in {{}, {"uid"}, {"sport", "dport"}},
        i \in {"any", "include", "exclude"}, s \in BOOLEAN, m \in {<<{1}, {0}>>, <<{2}, {0}>>}}
    \cup {[PlainOptions EXCEPT !.android = TRUE, !.vpn = v, !.exclude = e, !.interface = i] :
        v \in {"off", "follow", "override"}, e \in {{}, {"uid"}}, i \in {"any", "include", "exclude"}}
    \cup {[PlainOptions EXCEPT !.markMode = TRUE, !.dnat = d, !.families = f, !.output = m[1], !.input = m[2]] :
        d \in BOOLEAN, f \in {{4}, {4, 6}}, m \in Marks}
    \cup {[PlainOptions EXCEPT !.autoRoute = FALSE, !.families = f] : f \in {{4}, {4, 6}}}

BasePacket == [family |-> 4, iif |-> "other", oif |-> "none", excluded |-> {}, mark |-> {}, src |-> "low",
         dst |-> "default", dns |-> FALSE, dnat |-> FALSE]
RuleFamilies == {4, 6}
RuleInterfaces == {"lo", "tun", "listed", "other"}
RuleDestinations == {"tun", "ipvs", "specific", "default", "nowhere", "outside"}
PacketMarks == {{}, {0}, {1}, {2}, {1, 2}, {2, 3}, {3}}

RoutedPackets ==
    {[BasePacket EXCEPT !.family = f, !.iif = "lo", !.src = s, !.dst = d, !.dns = n] :
        f \in RuleFamilies, s \in {"unspecified", "tun", "low", "high"}, d \in RuleDestinations, n \in BOOLEAN}
    \cup {[BasePacket EXCEPT !.family = f, !.iif = i, !.dst = d, !.dnat = t, !.dns = n] :
        f \in RuleFamilies, i \in RuleInterfaces, d \in RuleDestinations, n \in BOOLEAN, t \in BOOLEAN}
    \cup {[BasePacket EXCEPT !.family = f, !.iif = i, !.mark = m, !.dst = d, !.dnat = t] :
        f \in RuleFamilies, i \in RuleInterfaces, m \in PacketMarks, d \in {"default", "nowhere"}, t \in BOOLEAN}
    \cup {[BasePacket EXCEPT !.family = f, !.iif = i, !.excluded = {e}] :
        f \in RuleFamilies, i \in RuleInterfaces, e \in {"sport", "dport", "uid"}}

\* RedirectChain: every combination of the modes and families with one of the
\* other options set, or two of those that decide together; a flow differs from
\* the plain one of its hook, protocol and destination in one attribute.
Plain == [strict |-> FALSE, includeIf |-> {}, excludeIf |-> {}, includeMAC |-> {}, excludeMAC |-> {},
          includeUID |-> {}, excludeUID |-> {}, route |-> {}, excludeRoute |-> {}, loopback |-> {},
          hijack |-> FALSE, dnsRules |-> {}, defaultDNS |-> TRUE, excludeMPTCP |-> FALSE]

Change == <<[strict |-> TRUE], [includeIf |-> {"lan0"}], [includeIf |-> {"lan0", "lo"}], [excludeIf |-> {"lan1"}],
            [includeMAC |-> {"m1"}], [excludeMAC |-> {"m1"}], [includeUID |-> {<<0, 1>>}],
            [includeUID |-> {<<0, 1>>, <<1, 1>>}], [excludeUID |-> {<<0, 1>>}], [route |-> {"pub", "self", "dns"}],
            [excludeRoute |-> {"alt"}], [loopback |-> {"loop"}], [hijack |-> TRUE],
            [hijack |-> TRUE, defaultDNS |-> FALSE, dnsRules |-> {[network |-> "udp", to |-> "dns"]}],
            [excludeMPTCP |-> TRUE]>>

Set(r, c) == [x \in DOMAIN r |-> IF x \in DOMAIN c THEN c[x] ELSE r[x]]
Mode == [mark : BOOLEAN, auto : BOOLEAN, families : {{4}, {4, 6}}]
With(m, r) == [x \in DOMAIN m \cup DOMAIN r |-> IF x \in DOMAIN m THEN m[x] ELSE r[x]]

Pairs == {<<i, i>> : i \in DOMAIN Change} \cup
         {<<2, 4>>, <<2, 10>>, <<4, 11>>, <<3, 11>>, <<2, 13>>, <<10, 13>>, <<10, 14>>, <<9, 12>>, <<6, 11>>, <<1, 12>>}
ChainOptions == {With(m, Set(Set(Plain, Change[p[1]]), Change[p[2]])) : m \in Mode, p \in Pairs}

PlainFlow == [iif |-> "lan0", ether |-> TRUE, mac |-> "m1", localSource |-> TRUE, uid |-> <<0, 1>>,
              oif |-> "eth", own |-> FALSE, mptcp |-> FALSE, dnat |-> FALSE]
FlowChange == {[ether |-> TRUE], [iif |-> "lan1"], [iif |-> "tun"], [ether |-> FALSE], [mac |-> "m2"],
               [uid |-> <<1, 0>>], [oif |-> "tun"], [own |-> TRUE], [mptcp |-> TRUE], [dnat |-> TRUE]}
Ends == [hook : {"output", "prerouting"}, proto : {"tcp", "udp"}, family : {4},
         dst : {"pub", "alt", "lan", "self", "loop"}, port : {80}]
        \cup [hook : {"output", "prerouting"}, proto : {"tcp", "icmp"}, family : {6}, dst : {"pub"}, port : {80}]
        \cup [hook : {"output", "prerouting"}, proto : {"udp"}, family : {4}, dst : {"self", "pub", "dns"}, port : {53}]

Sensible(f) ==
    /\ f.hook = "output" => f.iif = "lan0" /\ f.ether /\ f.mac = "m1" /\ ~f.dnat
    /\ f.hook = "prerouting" => ~f.own /\ f.oif = "eth" /\ f.uid = <<0, 1>>
    /\ f.mptcp => f.proto = "tcp"
ChainFlows == {f \in {With(e, Set(PlainFlow, c)) : e \in Ends, c \in FlowChange} : Sensible(f)}
ChainRouteSets == {<<{}, {}>>, <<{"pub"}, {}>>, <<{"alt"}, {}>>, <<{}, {"pub"}>>, <<{}, {"alt"}>>}

\* RouteRanges: IPv4 of three bits, IPv6 of four, sub ranges of two; every
\* system, with short, host and no addresses, route lists that overlap, and
\* excluded ranges that cut them.
P(a, b) == [addr |-> a, bits |-> b]

Both(x, y) == [f \in {4, 6} |-> IF f = 4 THEN x ELSE y]

Address4 == {<<>>, <<P(5, 1)>>, <<P(7, 3)>>, <<P(2, 3), P(2, 2)>>}
Address6 == {<<>>, <<P(9, 3)>>, <<P(11, 2)>>}
Route4 == {{}, {P(4, 1)}, {P(0, 3), P(6, 2)}}
Route6 == {{}, {P(8, 2), P(1, 4)}}
Exclude4 == {{}, {P(5, 2), P(0, 3)}}
Exclude6 == {{}, {P(10, 4)}}
ServerSets == {{}, {[family |-> 6, addr |-> 3]}, {[family |-> 4, addr |-> 1], [family |-> 6, addr |-> 3]}}

RangeOptions ==
    {[goos |-> g, extension |-> e, autoRoute |-> r, address |-> Both(a4, a6), route |-> Both(r4, r6),
      exclude |-> Both(x4, x6), gateway |-> Both(gw, None), servers |-> s] :
        g \in {"linux", "android", "darwin", "windows"}, e \in {FALSE}, r \in {TRUE},
        a4 \in Address4, a6 \in Address6, r4 \in Route4, r6 \in Route6, x4 \in Exclude4, x6 \in Exclude6,
        gw \in {None}, s \in {{}}}
    \union
    {[goos |-> g, extension |-> e, autoRoute |-> r, address |-> Both(a4, a6), route |-> Both({}, {}),
      exclude |-> Both({}, {}), gateway |-> Both(gw, None), servers |-> s] :
        g \in {"linux", "darwin"}, e \in BOOLEAN, r \in BOOLEAN,
        a4 \in Address4, a6 \in Address6, gw \in {None, 6}, s \in ServerSets}

\* Packages: an app of its own uid, two apps of a shared uid and its group, and
\* one that comes and goes, in two versions of the file and a torn one.
Fixed == ("app" :> 1) @@ ("left" :> 3) @@ ("right" :> 3)
Group == ("group" :> 3)

PackageFiles == {[torn |-> FALSE, id |-> Fixed, shared |-> Group],
            [torn |-> FALSE, id |-> Fixed @@ ("comes" :> 2), shared |-> Group],
            [torn |-> TRUE, id |-> <<>>, shared |-> <<>>]}

PackageOptions == {[users |-> u, include |-> i, exclude |-> x] :
                u \in {{}, {1}, {0, 2}},
                i \in {{}, {"app"}, {"group", "comes"}, {"left", "absent"}},
                x \in {{}, {"app", "comes"}, {"group"}}}

-----------------------------------------------------------------------------
VARIABLES part,  \* which component this behaviour is of
          v1, v2, v3, v4, v5, v6, v7, v8, v9, v10, v11, v12, v13, v14  \* its state

vars == <<part, v1, v2, v3, v4, v5, v6, v7, v8, v9, v10, v11, v12, v13, v14>>

\* The sets of nftables
wanted == v1
pending == v2
queue == v3
kernel == v4
phase == v5
little == v6
uids == v7

Sets == INSTANCE NftSet

\* The options of the device
options == v1
routes == v2
gateways == v3
servers == v4
name == v5

Ranges == INSTANCE RouteRanges WITH
    OptionsSet <- RangeOptionSet, none <- None, failed <- Failed

\* The verdict of the chains
o == v1
flow == v2
sets == v3
ct == v4
outcome == v5
first == v6
updated == v7

Chains == INSTANCE RedirectChain

\* The policy rules, with options, kernel and phase
ruleIndex6 == v2
todo == v3
unlisted == v6

Policy == INSTANCE PolicyRules WITH
    OptionSet <- RuleOptionSet, Packets <- RulePackets, Bits <- MarkBits, Field <- BypassField,
    Protected <- VPNMark, Start <- RuleStart, SystemMain <- MainPref, Fallback <- FallbackPref

\* The commands of iptables, with todo and phase
chain == v1
jumps == v2
conflict == v4
faults == v6
dirty == v7
android == v8

IPTables == INSTANCE IPTablesSetup WITH Families <- IPTFamilies

\* The life cycle of auto-redirect, with wanted and phase
starts == v2
server == v3
table == v4
fw4 == v6
update == v7
registered == v8
last == v9
addresses == v10
setup == v11
stale == v12
host == v13
residue == v14

Redirect == INSTANCE AutoRedirect WITH Addr <- RedirectAddr

\* The packages of Android, with update
file == v1
changes == v2
failures == v3
manager == v4
reported == v5
missed == v6
idByPackage == v8
sharedByPackage == v9
packageById == v10
sharedById == v11
rules == v12

Apps == INSTANCE Packages WITH OptionsSet <- AppOptionSet, none <- None

ASSUME BatchAssumed == Sets!BatchAssumption
ASSUME RangesAssumed == Ranges!RangeAssumption
ASSUME ChainsAssumed == Chains!ChainAssumption
ASSUME RulesAssumed == Policy!PolicyAssumption
ASSUME FaultsAssumed == IPTables!FaultAssumption
ASSUME StartsAssumed == Redirect!StartAssumption
ASSUME AppsAssumed == Apps!AppAssumption

-----------------------------------------------------------------------------
Init ==
    /\ part \in Parts
    /\ \/ /\ part = "nft" /\ Sets!Init
          /\ v8 = 0 /\ v9 = 0 /\ v10 = 0 /\ v11 = 0 /\ v12 = 0 /\ v13 = 0 /\ v14 = 0
       \/ /\ part = "ranges" /\ Ranges!Init
          /\ v6 = 0 /\ v7 = 0 /\ v8 = 0 /\ v9 = 0 /\ v10 = 0 /\ v11 = 0 /\ v12 = 0 /\ v13 = 0 /\ v14 = 0
       \/ /\ part = "chain" /\ Chains!Init
          /\ v8 = 0 /\ v9 = 0 /\ v10 = 0 /\ v11 = 0 /\ v12 = 0 /\ v13 = 0 /\ v14 = 0
       \/ /\ part = "policy" /\ Policy!Init
          /\ v7 = 0 /\ v8 = 0 /\ v9 = 0 /\ v10 = 0 /\ v11 = 0 /\ v12 = 0 /\ v13 = 0 /\ v14 = 0
       \/ /\ part = "iptables" /\ IPTables!Init
          /\ v9 = 0 /\ v10 = 0 /\ v11 = 0 /\ v12 = 0 /\ v13 = 0 /\ v14 = 0
       \/ part = "redirect" /\ Redirect!Init
       \/ /\ part = "packages" /\ Apps!Init
          /\ v13 = 0 /\ v14 = 0

Next ==
    \/ part = "nft" /\ Sets!Next /\ UNCHANGED <<part, v8, v9, v10, v11, v12, v13, v14>>
    \/ part = "ranges" /\ Ranges!Next /\ UNCHANGED <<part, v6, v7, v8, v9, v10, v11, v12, v13, v14>>
    \/ part = "chain" /\ Chains!Next /\ UNCHANGED <<part, v8, v9, v10, v11, v12, v13, v14>>
    \/ part = "policy" /\ Policy!Next /\ UNCHANGED <<part, v7, v8, v9, v10, v11, v12, v13, v14>>
    \/ part = "iptables" /\ IPTables!Next /\ UNCHANGED <<part, v9, v10, v11, v12, v13, v14>>
    \/ part = "redirect" /\ Redirect!Next /\ UNCHANGED part
    \/ part = "packages" /\ Apps!Next /\ UNCHANGED <<part, v13, v14>>

Spec == Init /\ [][Next]_vars
        /\ WF_(Redirect!vars)(part = "redirect" /\ Redirect!AcceptAny)
        /\ WF_(Redirect!vars)(part = "redirect" /\ Redirect!CloseServer)
        /\ WF_(Apps!vars)(part = "packages" /\ Apps!Manager)
-----------------------------------------------------------------------------
(* An nftables set of addresses matches exactly what it was asked for once  *)
(* it is complete, and at no moment while its batches are sent does it      *)
(* match an address that was not (nftablesCreateIPSet and the set updates); *)
(* a set of user ids never matches more on a host whose byte order is the   *)
(* kernel's, and less only where ranges overlap.                            *)
SetsMatchExactly ==
    part = "nft" => Sets!TypeOK /\ Sets!CompleteIsExact /\ Sets!NeverTooWide /\ Sets!UIDsMatched

(* BuildAutoRouteRanges, the gateways, the DNS servers and the name of the  *)
(* device: an address is routed to the device exactly if the options ask    *)
(* for it, the gateway and the servers are neighbours in its network, and   *)
(* the name is free.                                                        *)
RangesAsAsked ==
    part = "ranges" => /\ Ranges!TypeOK /\ Ranges!RoutedAsAsked /\ Ranges!GatewayIsNeighbour
                       /\ Ranges!ServerOrError /\ Ranges!NameIsFree

(* The redirect chains: the program's own traffic escapes them, the packets *)
(* of a flow keep to the way of the first one although the route sets       *)
(* change, TCP and UDP are treated alike, local services stay reachable,    *)
(* and nftables and iptables decide alike where they are meant to.          *)
FlowsGoTheirWay ==
    part = "chain" => /\ Chains!TypeOK /\ Chains!OwnTrafficEscapes /\ Chains!FlowKeepsPath
                      /\ Chains!TCPLikeUDP /\ Chains!LocalReachable /\ Chains!BackendsAgree

(* The policy rules: what an option keeps away is never looked up in the    *)
(* tun's table, everything else is, the stack's own packets do not come     *)
(* back, marks decide under auto-redirect, both families fare alike, strict *)
(* route leaves no family open, an unsetRules that meets no error leaves    *)
(* none of the rules that were set, and no rule of the system goes.         *)
PolicyDecides ==
    part = "policy" =>
        /\ Policy!TypeOK /\ Policy!KeptAwayNeverTunnelled /\ Policy!OthersTunnelled /\ Policy!NoLoop
        /\ Policy!MarkDecides /\ Policy!FamiliesAgree /\ Policy!StrictUnreachable /\ Policy!SystemKept
        /\ Policy!UnsetRemovesAll

(* Nothing is left and nothing is half there: after Close, however far      *)
(* Start came and whatever an earlier process left, no chain, jump, table,  *)
(* file or listener remains but where an error of the clean-up itself was   *)
(* dropped; while it runs everything is there once, and no packet goes      *)
(* through a chain that has some of its rules (setupIPTables,               *)
(* setupNFTables, Close).                                                   *)
NothingIsLeft ==
    /\ part = "iptables" => IPTables!TypeOK /\ IPTables!NoHalfChain /\ IPTables!ClosedLeavesNothing /\ IPTables!UpIsComplete
    /\ part = "redirect" => /\ Redirect!TypeOK /\ Redirect!ClosedLeavesNothing /\ Redirect!ChainsOnce
                            /\ Redirect!RouteSetFollows /\ Redirect!LoopEndsAfterClose

(* What nftablesUpdateLocalAddressSet is for: once the callback has run,    *)
(* the set of local addresses is the one the finder reported.               *)
LocalSetFollows == [][part = "redirect" => Redirect!LocalSetFollows]_vars

(* The uids kept away from the device are those the options name, in every  *)
(* user, although packages.xml changes between the lookups, and no user is  *)
(* routed who was not asked for (BuildAndroidRules, ExcludedRanges).        *)
AppsObeyed ==
    part = "packages" => Apps!TypeOK /\ Apps!TablesAgree /\ Apps!StableAppsObeyed /\ Apps!OtherUsersStayOut

(* In the long run the accept loop of a closed redirect server has ended,   *)
(* and the package manager holds the file as it is.                         *)
RulesSettle ==
    <>[](/\ part = "redirect" => Redirect!LoopEnded
         /\ part = "packages" => Apps!FollowsFile)
=============================================================================
