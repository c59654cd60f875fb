------------------------------ MODULE WinSetup ------------------------------
(***************************************************************************)
(* Setting up the Windows device (New, configure and Close of              *)
(* tun_windows.go): adapter, session, addresses, DNS servers, routes and   *)
(* the filters of strict routing, one call after the other, any of which   *)
(* may fail, and what the filters let through meanwhile.                   *)
(*                                                                         *)
(* The Windows Filtering Platform is external: of the filters that match a *)
(* connection the heaviest decides, and without one it is permitted; the   *)
(* filters of a dynamic session go with the engine's handle or the         *)
(* process.                                                                *)
(***************************************************************************)
EXTENDS Integers, Sequences, FiniteSets

CONSTANTS Ranges   \* the ranges to route

Families == {4, 6}

VARIABLES options,   \* [inet, autoRoute, strict, dns]: families with an address, and modes
          at,        \* "new", "configure", "up", "failed", "closed", "crashed"
          adapter, session, engine,   \* handles that are open
          todo,      \* steps of configure that are left
          done,      \* steps that succeeded; the filters are steps, too
          routes,
          lost       \* a route could not be added and a later one could

vars == <<options, at, adapter, session, engine, todo, done, routes, lost>>

OptionsSet == [inet : (SUBSET Families) \ {{}}, autoRoute : BOOLEAN, strict : BOOLEAN, dns : {"disabled", "native", "hijack"}]

---------------------------------------------------------------------------
(* The steps of configure, in the code's order                             *)
When(condition, steps) == IF condition THEN steps ELSE <<>>

\* slip: DNS is blocked in the device's families only
FilterStepsFamily(o) ==
    <<"permit4", "permit6">>
    \o When(6 \notin o.inet, <<"ndp", "block6">>)
    \o When(4 \in o.inet, <<"tun4">>) \o When(6 \in o.inet, <<"tun6">>)
    \o When(o.dns = "hijack" /\ 4 \in o.inet, <<"blockDNS4">>)
    \o When(o.dns = "hijack" /\ 6 \in o.inet, <<"blockDNS6">>)

FilterSteps(o) ==
    <<"permit4", "permit6">>
    \o When(6 \notin o.inet, <<"ndp", "block6">>)
    \o When(4 \in o.inet, <<"tun4">>) \o When(6 \in o.inet, <<"tun6">>)
    \o When(o.dns = "hijack", <<"blockDNS4", "blockDNS6">>)

Steps(o) ==
    When(4 \in o.inet, <<"address4", "dns4">>) \o When(6 \in o.inet, <<"address6", "dns6">>)
    \o When(o.autoRoute, <<"routes", "flush">>)
    \o When(4 \in o.inet, <<"options4">>) \o When(6 \in o.inet, <<"options6">>)
    \o When(o.autoRoute /\ o.strict, <<"engine", "sublayer">> \o FilterSteps(o))

---------------------------------------------------------------------------
\* New: the adapter is created, or an existing one is opened
OpenAdapter ==
    /\ at = "new" /\ ~adapter
    /\ \/ adapter' = TRUE /\ UNCHANGED at
       \/ at' = "failed" /\ UNCHANGED adapter
    /\ UNCHANGED <<options, session, engine, todo, done, routes, lost>>

\* A failure leaves the adapter open
StartSession ==
    /\ at = "new" /\ adapter
    /\ \/ session' = TRUE /\ at' = "configure" /\ todo' = Steps(options)
       \/ at' = "failed" /\ UNCHANGED <<session, todo>>
    /\ UNCHANGED <<options, adapter, engine, done, routes, lost>>

Step ==
    /\ at = "configure" /\ todo # <<>> /\ Head(todo) # "routes"
    /\ done' = done \union {Head(todo)}
    /\ engine' = (engine \/ Head(todo) = "engine")
    /\ todo' = Tail(todo)
    /\ UNCHANGED <<options, at, adapter, session, routes, lost>>

\* An error of configure: New ends the session and closes the adapter, and
\* with it addresses and routes; the engine's handle is not closed
StepFails ==
    /\ at = "configure" /\ todo # <<>> /\ Head(todo) # "routes"
    /\ at' = "failed"
    /\ session' = FALSE /\ adapter' = FALSE /\ routes' = {}
    /\ UNCHANGED <<options, engine, todo, done, lost>>

\* Each range is tried; only the error of the last one is looked at
AddRoutes ==
    /\ at = "configure" /\ todo # <<>> /\ Head(todo) = "routes"
    /\ \E added \in SUBSET Ranges, last \in Ranges :
         IF last \in added
         THEN /\ routes' = added /\ lost' = (added # Ranges)
              /\ todo' = Tail(todo)
              /\ UNCHANGED <<at, adapter, session>>
         ELSE /\ at' = "failed" /\ session' = FALSE /\ adapter' = FALSE
              /\ UNCHANGED <<todo, routes, lost>>
    /\ UNCHANGED <<options, engine, done>>

Configured ==
    /\ at = "configure" /\ todo = <<>>
    /\ at' = "up"
    /\ UNCHANGED <<options, adapter, session, engine, todo, done, routes, lost>>

Close ==
    /\ at = "up"
    /\ at' = "closed"
    /\ session' = FALSE /\ adapter' = FALSE /\ engine' = FALSE /\ routes' = {}
    /\ UNCHANGED <<options, todo, done, lost>>

\* The process dies: Windows closes its handles
Crash ==
    /\ at \in {"configure", "up", "failed"}
    /\ at' = "crashed"
    /\ session' = FALSE /\ adapter' = FALSE /\ engine' = FALSE /\ routes' = {}
    /\ UNCHANGED <<options, todo, done, lost>>

Init ==
    /\ options \in OptionsSet
    /\ at = "new"
    /\ adapter = FALSE /\ session = FALSE /\ engine = FALSE
    /\ todo = <<>> /\ done = {} /\ routes = {} /\ lost = FALSE

Next == OpenAdapter \/ StartSession \/ Step \/ StepFails \/ AddRoutes \/ Configured \/ Close \/ Crash

Spec == Init /\ [][Next]_vars

---------------------------------------------------------------------------
(* The filters                                                             *)
Filters == {"permit4", "permit6", "ndp", "block6", "tun4", "tun6", "blockDNS4", "blockDNS6"}

\* Kinds of connections: of this program or another, to port 53, neighbour
\* discovery, bound to the device
Connections == {c \in [family : Families, own : BOOLEAN, dns : BOOLEAN, ndp : BOOLEAN, device : BOOLEAN] :
                    /\ c.ndp => c.family = 6 /\ ~c.dns /\ ~c.own
                    /\ c.device => ~c.own}

Matches(f, c) ==
    CASE f = "permit4" -> c.family = 4 /\ c.own
      [] f = "permit6" -> c.family = 6 /\ c.own
      [] f = "ndp" -> c.ndp
      [] f = "block6" -> c.family = 6
      [] f = "tun4" -> c.family = 4 /\ c.device
      [] f = "tun6" -> c.family = 6 /\ c.device
      [] f = "blockDNS4" -> c.family = 4 /\ c.dns
      [] f = "blockDNS6" -> c.family = 6 /\ c.dns

Weight(f) ==
    CASE f \in {"permit4", "permit6", "ndp"} -> 13
      [] f = "block6" -> 12
      [] f \in {"tun4", "tun6"} -> 11
      [] f \in {"blockDNS4", "blockDNS6"} -> 10

Blocks(f) == f \in {"block6", "blockDNS4", "blockDNS6"}

Active == IF engine THEN done \intersect Filters ELSE {}

Blocked(c) ==
    LET matching == {f \in Active : Matches(f, c)}
    IN  \E f \in matching : Blocks(f) /\ \A g \in matching : Weight(g) <= Weight(f)

---------------------------------------------------------------------------
(* Handles and steps belong together: a device that is up has its adapter  *)
(* and session, and filters need the engine.                               *)
TypeOK ==
    /\ at \in {"new", "configure", "up", "failed", "closed", "crashed"}
    /\ at \in {"configure", "up"} => adapter /\ session
    /\ routes \subseteq Ranges /\ (routes # {} => adapter)
    /\ engine => "engine" \in done
    /\ at = "up" => {Steps(options)[i] : i \in DOMAIN Steps(options)} \subseteq done \union {"routes"}

(* configure with strict routing: the program's own connections are never  *)
(* blocked, not while the filters are added one by one, and not by those a *)
(* failed start leaves.                                                    *)
OwnTrafficPasses == \A c \in Connections : c.own => ~Blocked(c)

(* configure with strict routing: when the device is up, another program's *)
(* DNS query leaves through the device or not at all if DNS is hijacked,   *)
(* and so does IPv6 if the device has none, but for neighbour discovery.   *)
NothingLeaks ==
    (at = "up" /\ options.autoRoute /\ options.strict) =>
        \A c \in Connections : (~c.own /\ ~c.ndp /\ ~c.device) =>
            /\ (c.dns /\ options.dns = "hijack") => Blocked(c)
            /\ (c.family = 6 /\ 6 \notin options.inet) => Blocked(c)

(* configure with strict routing: connections bound to the device pass in  *)
(* the families it has an address of, DNS queries included.                *)
DeviceTrafficPasses ==
    at = "up" => \A c \in Connections : (c.device /\ c.family \in options.inet) => ~Blocked(c)

(* New, Close: a device that is closed, or whose process died, leaves no   *)
(* filter, session, adapter or route; one whose configuration failed       *)
(* leaves no session, adapter or route.                                    *)
NothingIsLeft ==
    /\ at \in {"closed", "crashed"} => ~adapter /\ ~session /\ ~engine /\ routes = {} /\ Active = {}
    /\ (at = "failed" /\ done # {}) => ~adapter /\ ~session /\ routes = {}

(* configure: a device that is up has all its routes, unless the error of  *)
(* one was overwritten by a later one's success.                           *)
RoutesComplete == (at = "up" /\ options.autoRoute) => routes = Ranges \/ lost

(* configure, Close: the filters and routes hold all of this together.     *)
FiltersHold ==
    OwnTrafficPasses /\ NothingLeaks /\ DeviceTrafficPasses /\ NothingIsLeft /\ RoutesComplete

=============================================================================
