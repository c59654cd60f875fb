---------------------------- MODULE RouteRanges ----------------------------
(***************************************************************************)
(* What the options of a device are turned into: the ranges that are       *)
(* routed to it (BuildAutoRouteRanges), the gateway and the DNS servers it *)
(* is given, and the name of the interface (tun_rules.go, tun.go,          *)
(* stack.go).  One action per function; one of them is called on every     *)
(* choice of options.                                                      *)
(*                                                                         *)
(* Addresses are scaled: an IPv4 address has W4 bits and an IPv6 address   *)
(* W6 > W4, and TopBits stand for the eight leading bits the list of sub   *)
(* ranges is written in.  The sets of addresses of netipx are sets.        *)
(***************************************************************************)
EXTENDS Integers, Sequences

CONSTANTS W4, W6,       \* widths of the two families (32 and 128)
          TopBits,      \* 8: the sub ranges leave out 0/TopBits
          MaxIndex,     \* 2^15-1, the largest index ParseInt(.., 10, 16) takes
          OptionsSet,   \* the options the program may be started with
          none, failed  \* no value yet or an invalid one; an error

VARIABLES options,   \* Options, with GOOS and underNetworkExtension
          routes,    \* result of BuildAutoRouteRanges: prefixes of each family
          gateways,  \* results of Inet4GatewayAddr and Inet6GatewayAddr
          servers,   \* result of DNSServerAddress
          name       \* [taken, index] of CalculateInterfaceName

vars == <<options, routes, gateways, servers, name>>

\* No function has been called yet
Fresh == routes = none /\ gateways = none /\ servers = none /\ name = none

Families == {4, 6}
Width(f) == IF f = 4 THEN W4 ELSE W6
Addresses(f) == 0..(2^Width(f) - 1)
Prefixes(f) == [addr : Addresses(f), bits : 0..Width(f)]

Server == UNION {[family : {f}, addr : Addresses(f)] : f \in Families}

\* The options are well formed, none and failed are no results of a function,
\* and the powers of two are what they are as far as they are used.
IsOptions(o) ==
    /\ o.autoRoute \in BOOLEAN /\ o.extension \in BOOLEAN
    /\ o.servers \subseteq Server
    /\ \A f \in Families : /\ o.address[f] \in Seq(Prefixes(f))
                           /\ o.route[f] \subseteq Prefixes(f) /\ o.exclude[f] \subseteq Prefixes(f)
                           /\ o.gateway[f] \in Addresses(f) \union {none}

FamilyServers ==
    {{}} \union {{s} : s \in Server} \union {{s \in o.servers : s.family = f} : o \in OptionsSet, f \in Families}

RangeAssumption ==
    /\ W4 \in Nat /\ W6 \in Nat /\ TopBits \in 0..W4 /\ TopBits \in 0..W6 /\ MaxIndex \in Nat
    /\ 2^0 = 1 /\ \A k \in 0..(W4 + W6) : 2^k \in Nat /\ 2^(k + 1) = 2 * 2^k
    /\ \A o \in OptionsSet : IsOptions(o)
    /\ \A f \in Families : none \notin Addresses(f)
    /\ none # failed /\ {none, failed} \intersect {x \union y : x \in FamilyServers, y \in FamilyServers} = {}

\* netip.Prefix: the addresses below a prefix, and the prefix without host bits
Size(f, p) == 2^(Width(f) - p.bits)
Masked(f, p) == [p EXCEPT !.addr = (p.addr \div Size(f, p)) * Size(f, p)]
Range(f, p) == LET first == Masked(f, p).addr IN first..(first + Size(f, p) - 1)
Covered(f, ps) == UNION {Range(f, p) : p \in ps}

\* netipx.IPSet.Prefixes: the largest prefixes inside a set of addresses
PrefixesOf(f, addrs) ==
    LET inside == {p \in Prefixes(f) : p = Masked(f, p) /\ Range(f, p) \subseteq addrs}
    IN  {p \in inside : \A q \in inside : Range(f, p) \subseteq Range(f, q) => p = q}

---------------------------------------------------------------------------
\* The eight ranges 1/8, 2/7, .. 128/1, which avoid a default route on macOS
SubRanges(f) == {[addr |-> 2^k * 2^(Width(f) - TopBits), bits |-> TopBits - k] : k \in 0..(TopBits - 1)}

\* With a list of route addresses macOS also routes the device's own networks;
\* the code compares the length with 32 in both families.
OwnNetworks(f, o) ==
    IF o.goos = "darwin"
    THEN {Masked(f, o.address[f][i]) : i \in {j \in DOMAIN o.address[f] : o.address[f][j].bits < W4}}
    ELSE {}

Wanted(f, o) ==
    IF o.route[f] # {} THEN o.route[f] \union OwnNetworks(f, o)
    ELSE IF o.goos = "darwin" /\ ~o.extension THEN SubRanges(f)
    ELSE {[addr |-> 0, bits |-> 0]}

\* slip: whole prefixes are dropped when they meet an excluded one
FamilyRangesWhole(f, o) ==
    IF o.address[f] = <<>> \/ (f = 4 /\ ~o.autoRoute) THEN {}
    ELSE {p \in Wanted(f, o) : Range(f, p) \intersect Covered(f, o.exclude[f]) = {}}

\* AutoRoute is asked for in the IPv4 half only
FamilyRanges(f, o) ==
    IF o.address[f] = <<>> \/ (f = 4 /\ ~o.autoRoute) THEN {}
    ELSE IF o.exclude[f] = {} THEN Wanted(f, o)
    ELSE PrefixesOf(f, Covered(f, Wanted(f, o)) \ Covered(f, o.exclude[f]))

BuildAutoRouteRanges ==
    /\ Fresh
    /\ routes' = [f \in Families |-> FamilyRanges(f, options)]
    /\ UNCHANGED <<options, gateways, servers, name>>

---------------------------------------------------------------------------
\* Next is the invalid address after the last one of the family
Next1(f, a) == IF a + 1 \in Addresses(f) THEN a + 1 ELSE none

HasNextAddress(f, p) == Next1(f, p.addr) # none /\ Next1(f, p.addr) \in Range(f, p)

First(f, o) == o.address[f][1]

\* Inet4GatewayAddr, Inet6GatewayAddr; 0 is the unspecified address
GatewayAddr(f, o) ==
    IF o.gateway[f] # none THEN o.gateway[f]
    ELSE IF o.address[f] = <<>> \/ o.goos = "android" THEN 0
    ELSE IF o.goos = "darwin" THEN First(f, o).addr
    ELSE IF HasNextAddress(f, First(f, o)) THEN Next1(f, First(f, o).addr)
    ELSE IF o.goos = "linux" THEN 0
    ELSE First(f, o).addr

GatewayAddrs ==
    /\ Fresh
    /\ gateways' = [f \in Families |-> GatewayAddr(f, options)]
    /\ UNCHANGED <<options, routes, servers, name>>

---------------------------------------------------------------------------
Offers(f, o) == o.address[f] # <<>> /\ HasNextAddress(f, First(f, o))

\* Inet4DNSAddress, Inet6DNSAddress: none is the error
DNSAddress(f, o) ==
    IF o.address[f] = <<>> THEN {}
    ELSE IF o.servers # {} THEN {s \in o.servers : s.family = f}
    ELSE IF HasNextAddress(f, First(f, o)) THEN {[family |-> f, addr |-> Next1(f, First(f, o).addr)]}
    ELSE IF \E g \in Families \ {f} : Offers(g, o) THEN {}
    ELSE none

DNSServerAddress ==
    /\ Fresh
    /\ servers' = IF \E f \in Families : DNSAddress(f, options) = none THEN failed
                  ELSE UNION {DNSAddress(f, options) : f \in Families}
    /\ UNCHANGED <<options, routes, gateways, name>>

---------------------------------------------------------------------------
\* The index one above every index in use that fits 16 bits; names with other
\* suffixes do not parse.
NextIndex(taken) ==
    LET parsed == taken \intersect 0..MaxIndex
    IN  CHOOSE n \in 0..(MaxIndex + 1) : /\ \A i \in parsed : i < n
                                         /\ n = 0 \/ n - 1 \in parsed

\* net.Interfaces may fail, and then the name has no index
CalculateInterfaceName ==
    /\ Fresh
    /\ \E taken \in SUBSET (0..(MaxIndex + 1)) :
         name' \in {[taken |-> taken, index |-> NextIndex(taken)], [taken |-> taken, index |-> none]}
    /\ UNCHANGED <<options, routes, gateways, servers>>

---------------------------------------------------------------------------
Init ==
    /\ options \in OptionsSet
    /\ Fresh

Next == BuildAutoRouteRanges \/ GatewayAddrs \/ DNSServerAddress \/ CalculateInterfaceName

Spec == Init /\ [][Next]_vars

---------------------------------------------------------------------------
(* Every result has its type: prefixes of their family, an address of the  *)
(* family as gateway, servers or the error.                                *)
TypeOK ==
    /\ routes # none => \A f \in Families : routes[f] \subseteq Prefixes(f)
    /\ gateways # none => \A f \in Families : gateways[f] \in Addresses(f)
    /\ servers \in {none, failed} \/ \A s \in servers : s.family \in Families /\ s.addr \in Addresses(s.family)
    /\ name # none => name.index \in {none} \union 0..(MaxIndex + 1)

\* What the user asked for, address by address
Asks(f, a) ==
    LET o == options
    IN  /\ o.address[f] # <<>>
        /\ a \notin Covered(f, o.exclude[f])
        /\ \/ o.route[f] = {}
           \/ a \in Covered(f, o.route[f])
           \/ o.goos = "darwin" /\ \E i \in DOMAIN o.address[f] : a \in Range(f, o.address[f][i])

\* What the ranges leave out although it is asked for: 0/8 where sub ranges
\* are used, host routes, and IPv6 networks longer than /32.
LeftOut(f, a) ==
    LET o == options
    IN  \/ o.route[f] = {} /\ o.goos = "darwin" /\ ~o.extension /\ a < 2^(Width(f) - TopBits)
        \/ o.route[f] # {} /\ a \notin Covered(f, o.route[f]) /\ \A i \in DOMAIN o.address[f] :
                                a \in Range(f, o.address[f][i]) => o.address[f][i].bits >= W4

(* BuildAutoRouteRanges: with auto route an address is routed to the       *)
(* device exactly if the options ask for it, whatever the prefixes are     *)
(* split into when excluded ranges cut them, but for the ranges LeftOut    *)
(* names.                                                                  *)
RoutedAsAsked ==
    (routes # none /\ options.autoRoute) =>
        \A f \in Families : \A a \in Addresses(f) :
            (a \in Covered(f, routes[f])) <=> (Asks(f, a) /\ ~LeftOut(f, a))

(* Inet4GatewayAddr, Inet6GatewayAddr: a gateway the user did not give is  *)
(* unspecified or an address of the device's first network, and on Linux   *)
(* and Windows it is not the device's own address while there is another.  *)
GatewayIsNeighbour ==
    gateways # none => \A f \in Families : options.gateway[f] = none =>
        \/ gateways[f] = 0
        \/ /\ gateways[f] \in Range(f, First(f, options))
           /\ gateways[f] = First(f, options).addr =>
                options.goos = "darwin" \/ ~HasNextAddress(f, First(f, options))

\* Configured servers of a family without an address are dropped silently
AllDropped == options.servers # {} /\ \A s \in options.servers : options.address[s.family] = <<>>

(* DNSServerAddress: a device with an address gets a server or an error,   *)
(* never neither, unless all configured servers are of the family it has   *)
(* no address of; a chosen server is in the device's network and not its   *)
(* own address; and one family's missing neighbour is no error when the    *)
(* other has one.                                                          *)
ServerOrError ==
    /\ (servers # none /\ servers # failed /\ ~AllDropped) =>
           /\ (\E f \in Families : options.address[f] # <<>>) => servers # {}
           /\ options.servers = {} => \A s \in servers :
                  /\ s.addr \in Range(s.family, First(s.family, options))
                  /\ s.addr # First(s.family, options).addr
    /\ servers = failed => options.servers = {} /\ ~\E f \in Families : Offers(f, options)

(* CalculateInterfaceName: the name is not in use, unless the interfaces   *)
(* could not be listed or the index no longer fits 16 bits.                *)
NameIsFree ==
    (name # none /\ name.index \notin {none, MaxIndex + 1}) => name.index \notin name.taken

=============================================================================
