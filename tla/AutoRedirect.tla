---------------------------- MODULE AutoRedirect ----------------------------
(***************************************************************************)
(* Auto-redirect with nftables (redirect_linux.go, redirect_server.go,     *)
(* redirect_nftables.go): Start, the network monitor's callback that is to *)
(* keep the set of local addresses current, UpdateRouteAddressSet, Close,  *)
(* and the accept loop of the redirect server.  The callback and the       *)
(* update run beside Close: each looks the table up, and queues and        *)
(* flushes its changes later.                                              *)
(*                                                                         *)
(* The table's chains are in RedirectChain, how a set is written is in     *)
(* NftSet.                                                                 *)
(***************************************************************************)
EXTENDS Naturals, FiniteSets

CONSTANTS Addr,       \* local addresses, and addresses of the route sets
          Reports,    \* what the interface finder can report
          MaxStarts   \* bound on the processes that start one after the other

StartAssumption == MaxStarts \in Nat /\ Reports \subseteq (SUBSET Addr) \ {{}}

VARIABLES
    host,       \* [customPort, hasFw4]: the port is another component's, so there is
                \* no redirect server; OpenWrt's firewall is there
    phase,      \* "off", "listening", "clean", "sets", "up", "failed", "closing", "closed"
    starts,     \* processes started so far
    server,     \* the redirect server: [listener, shutdown, loop]
    table,      \* the kernel's table: [there, chains, local, route]
    fw4,        \* whether the file with the firewall's rules is there
    registered, \* networkListener: the callback is registered
    last,       \* r.localAddresses
    addresses,  \* the addresses the interface finder reports
    wanted,     \* *r.routeAddressSet, the caller's
    setup,      \* what the table's route set was created with, {} without one
    update,     \* calls in progress: [kind, new], after the table was found
    stale,      \* the caller's sets changed and no update has begun since
    residue     \* the last cleanupNFTables of this process met an error (history)

vars == <<host, phase, starts, server, table, fw4, registered, last, addresses, wanted, setup, update, stale, residue>>

NoTable == [there |-> FALSE, chains |-> 0, local |-> {}, route |-> {}]
NoServer == [listener |-> "none", shutdown |-> FALSE, loop |-> "off"]

TypeOK ==
    /\ host \in [customPort : BOOLEAN, hasFw4 : BOOLEAN]
    /\ phase \in {"off", "listening", "clean", "sets", "up", "failed", "closing", "closed"}
    /\ starts \in 0..MaxStarts
    /\ server \in [listener : {"none", "open", "closed"}, shutdown : BOOLEAN, loop : {"off", "accept", "ended"}]
    /\ table \in [there : BOOLEAN, chains : 0..MaxStarts, local : SUBSET Addr, route : SUBSET Addr]
    /\ fw4 \in BOOLEAN /\ registered \in BOOLEAN
    /\ last \subseteq Addr /\ addresses \subseteq Addr /\ wanted \subseteq Addr /\ setup \subseteq Addr
    /\ stale \in BOOLEAN /\ residue \in BOOLEAN
    /\ update \subseteq [kind : {"local", "route"}, new : SUBSET Addr]

-----------------------------------------------------------------------------
Init ==
    /\ host \in [customPort : BOOLEAN, hasFw4 : BOOLEAN]
    /\ phase = "off" /\ starts = 0 /\ server = NoServer /\ table = NoTable /\ fw4 = FALSE
    /\ registered = FALSE /\ last = {} /\ setup = {} /\ update = {} /\ stale = FALSE /\ residue = FALSE
    /\ addresses \in Reports /\ wanted \in SUBSET Addr

(* Start: the listener, if the port is not another component's.            *)
StartServer(ok) ==
    /\ phase = "off" /\ starts < MaxStarts
    /\ starts' = starts + 1
    /\ IF host.customPort THEN phase' = "listening" /\ UNCHANGED server
       ELSE IF ok THEN phase' = "listening" /\ server' = [listener |-> "open", shutdown |-> FALSE, loop |-> "accept"]
       ELSE phase' = "failed" /\ UNCHANGED server
    /\ UNCHANGED <<host, table, fw4, registered, last, addresses, wanted, setup, update, stale, residue>>

(* cleanupNFTables: firewall4's file, then the table.  Its errors are      *)
(* dropped; both stay when there is no connection to nftables.             *)
CleanUp(removed, flushed) ==
    /\ registered' = FALSE
    /\ fw4' = (fw4 /\ ~removed)
    /\ IF flushed THEN table' = NoTable /\ setup' = {} ELSE UNCHANGED <<table, setup>>
    /\ residue' = ~(removed /\ flushed)

CleanBefore ==
    /\ phase = "listening"
    /\ phase' = "clean"
    /\ \E removed, flushed \in BOOLEAN : CleanUp(removed, flushed)
    /\ UNCHANGED <<host, starts, server, last, addresses, wanted, update, stale>>

(* The first half of setupNFTables: the sets, which commit the table with  *)
(* them.  In a table that stayed they are there already and take more      *)
(* members.                                                                *)
CreateSets ==
    /\ phase = "clean"
    /\ phase' = "sets"
    /\ table' = [table EXCEPT !.there = TRUE, !.local = @ \cup addresses, !.route = @ \cup wanted]
    /\ setup' = setup \cup wanted
    /\ last' = addresses /\ stale' = FALSE
    /\ UNCHANGED <<host, starts, server, fw4, registered, addresses, wanted, update, residue>>

(* The other half: the chains, the file for the firewall, the last Flush,  *)
(* and the callback.                                                       *)
CreateChains ==
    /\ phase = "sets"
    /\ phase' = "up"
    /\ table' = [table EXCEPT !.chains = @ + 1]
    /\ fw4' = host.hasFw4 /\ registered' = TRUE
    /\ UNCHANGED <<host, starts, server, last, addresses, wanted, setup, update, stale, residue>>

(* An error in between: Start returns it and leaves what is there, the     *)
(* file too when the last Flush failed.                                    *)
SetupFails(written) ==
    /\ phase \in {"clean", "sets"} /\ (written => phase = "sets" /\ host.hasFw4)
    /\ phase' = "failed"
    /\ fw4' = (fw4 \/ written)
    /\ UNCHANGED <<host, starts, server, table, registered, last, addresses, wanted, setup, update, stale, residue>>

-----------------------------------------------------------------------------
(* The addresses of the interfaces, and the caller's sets, change.         *)
NetworkChange(a) ==
    /\ a # addresses
    /\ addresses' = a
    /\ UNCHANGED <<host, phase, starts, server, table, fw4, registered, last, wanted, setup, update, stale, residue>>

SetWanted(w) ==
    /\ phase = "up" /\ w # wanted
    /\ wanted' = w /\ stale' = TRUE
    /\ UNCHANGED <<host, phase, starts, server, table, fw4, registered, last, addresses, setup, update, residue>>

Busy(kind) == \E u \in update : u.kind = kind

(* nftablesUpdateLocalAddressSet up to the lookup of the table.  The       *)
(* callback that the monitor has begun may run after UnregisterCallback.   *)
CallbackBegins ==
    /\ registered /\ ~Busy("local") /\ addresses # last /\ table.there
    /\ update' = update \cup {[kind |-> "local", new |-> addresses]}
    /\ UNCHANGED <<host, phase, starts, server, table, fw4, registered, last, addresses, wanted, setup, stale, residue>>

(* nftablesCreateLocalAddressSets, for one family: the addresses to        *)
(* compare with are taken from the new list.                               *)
NeedsUpdate(new, old) ==
    LET updateAddresses == new
    IN old = {} \/ new # updateAddresses

(* Flush fails when the table is gone; r.localAddresses is set before it.  *)
CallbackFlushes ==
    \E u \in update :
        /\ u.kind = "local"
        /\ update' = update \ {u}
        /\ last' = u.new
        /\ table' = IF table.there /\ NeedsUpdate(u.new, last) THEN [table EXCEPT !.local = u.new] ELSE table
        /\ UNCHANGED <<host, phase, starts, server, fw4, registered, addresses, wanted, setup, stale, residue>>

(* UpdateRouteAddressSet: nothing is done for empty sets.                  *)
UpdateBegins ==
    /\ phase \in {"up", "closing"} /\ ~Busy("route") /\ table.there
    /\ update' = update \cup {[kind |-> "route", new |-> wanted]} /\ stale' = FALSE
    /\ UNCHANGED <<host, phase, starts, server, table, fw4, registered, last, addresses, wanted, setup, residue>>

\* slip: the update adds the table, as the setup does
UpdateFlushesAdds ==
    \E u \in update :
        /\ u.kind = "route"
        /\ update' = update \ {u}
        /\ table' = IF u.new # {} THEN [table EXCEPT !.there = TRUE, !.route = u.new] ELSE table
        /\ UNCHANGED <<host, phase, starts, server, fw4, registered, last, addresses, wanted, setup, stale, residue>>

(* FlushSet of a set that the setup did not create is an error, as is one  *)
(* in a table that is gone.                                                *)
UpdateFlushes ==
    \E u \in update :
        /\ u.kind = "route"
        /\ update' = update \ {u}
        /\ table' = IF table.there /\ setup # {} /\ u.new # {} THEN [table EXCEPT !.route = u.new] ELSE table
        /\ UNCHANGED <<host, phase, starts, server, fw4, registered, last, addresses, wanted, setup, stale, residue>>

-----------------------------------------------------------------------------
(* Close: cleanupNFTables, then the redirect server when there is one.     *)
CloseRules ==
    /\ phase \in {"up", "failed"}
    /\ phase' = "closing"
    /\ \E removed, flushed \in BOOLEAN : CleanUp(removed, flushed)
    /\ UNCHANGED <<host, starts, server, last, addresses, wanted, update, stale>>

\* slip: only the listener is closed
CloseServerOnly ==
    /\ phase = "closing"
    /\ phase' = "closed"
    /\ server' = IF server.listener = "none" THEN server ELSE [server EXCEPT !.listener = "closed"]
    /\ UNCHANGED <<host, starts, table, fw4, registered, last, addresses, wanted, setup, update, stale, residue>>

CloseServer ==
    /\ phase = "closing"
    /\ phase' = "closed"
    /\ server' = IF server.listener = "none" THEN server
                 ELSE [server EXCEPT !.listener = "closed", !.shutdown = TRUE]
    /\ UNCHANGED <<host, starts, table, fw4, registered, last, addresses, wanted, setup, update, stale, residue>>

(* The process ends or dies; the kernel's table and the file stay.         *)
Exit ==
    /\ phase # "off"
    /\ phase' = "off" /\ server' = NoServer /\ registered' = FALSE /\ update' = {} /\ last' = {}
    /\ stale' = FALSE /\ residue' = FALSE
    /\ UNCHANGED <<host, starts, table, fw4, addresses, wanted, setup>>

-----------------------------------------------------------------------------
(* loopIn, one turn: a connection or a temporary error (the loop goes on), *)
(* or another error, which closes the listener unless it was Close.        *)
Accept(kind) ==
    /\ server.loop = "accept"
    /\ server.listener = "closed" => kind = "closed"
    /\ server.listener = "open" => kind # "closed"
    /\ server' = CASE kind \in {"conn", "temporary"} -> server
                   [] kind = "closed" /\ server.shutdown -> [server EXCEPT !.loop = "ended"]
                   [] OTHER -> [server EXCEPT !.listener = "closed"]
    /\ UNCHANGED <<host, phase, starts, table, fw4, registered, last, addresses, wanted, setup, update, stale, residue>>

AcceptAny == \E kind \in {"conn", "temporary", "closed", "error"} : Accept(kind)

Next ==
    \/ \E ok \in BOOLEAN : StartServer(ok)
    \/ CleanBefore \/ CreateSets \/ CreateChains \/ \E w \in BOOLEAN : SetupFails(w)
    \/ (\E a \in Reports : NetworkChange(a)) \/ \E w \in SUBSET Addr : SetWanted(w)
    \/ CallbackBegins \/ CallbackFlushes \/ UpdateBegins \/ UpdateFlushes
    \/ CloseRules \/ CloseServer \/ Exit \/ AcceptAny

(* The accept loop is a goroutine of its own that the scheduler runs, and  *)
(* a Close that has begun goes on.                                         *)
Fairness == WF_vars(AcceptAny) /\ WF_vars(CloseServer)

Spec == Init /\ [][Next]_vars /\ Fairness

-----------------------------------------------------------------------------
(* After Close no table, no file and no listener remain, however far Start *)
(* came, what an earlier process left and whichever callback or update was *)
(* in progress: neither can bring the table back.  Only the errors that    *)
(* this Close drops (residue) leave the table or the file.                 *)
ClosedLeavesNothing ==
    phase = "closed" =>
        /\ ~residue => ~table.there /\ ~fw4
        /\ ~registered /\ server.listener # "open"

(* The chains are there once while it runs, although the table of a        *)
(* process that died has the same name: only a clean-up that failed at     *)
(* this Start lets the rules of the two add up.                            *)
ChainsOnce == phase = "up" => table.there /\ (~residue => table.chains = 1)

(* A route address set that the caller changed is in force once an update  *)
(* begun after the change has ended, as long as there were members at the  *)
(* setup and there are now, and the set was not an earlier process's.      *)
RouteSetFollows ==
    (phase = "up" /\ ~stale /\ ~residue /\ ~Busy("route") /\ setup # {} /\ wanted # {})
        => table.route = wanted

(* The accept loop ends only after Close.                                  *)
LoopEndsAfterClose == server.loop = "ended" => server.shutdown

(* And it does end, although an error may have closed its listener and     *)
(* left it turning without one: in the long run this holds for good.       *)
LoopEnded == phase = "closed" => server.loop # "accept"

(* What nftablesUpdateLocalAddressSet is for: once the callback has run,   *)
(* the set of local addresses is the one the finder reported.              *)
LocalSetFollows == CallbackFlushes /\ table.there => table'.local = last'
=============================================================================
