--------------------------- MODULE PingDestination ---------------------------
(***************************************************************************)
(* Direct ICMP: the mapping of route_direct.go from a pair of addresses to *)
(* a destination, and the destination of ping/destination.go over the raw  *)
(* socket of ping/ping.go.  One session (one source and one destination    *)
(* address) is followed.                                                   *)
(*                                                                         *)
(* The goroutines of a stack look the destination up and then write to it; *)
(* in between the destination's reader may find it idle and close it, and  *)
(* the cache may evict it.  Close closes the socket and then stores the    *)
(* flag that a lookup reads.  The raw socket sees every echo reply the     *)
(* host gets from the address, so the destination keeps a bounded table of *)
(* the requests it sent and passes on the replies to those.                *)
(*                                                                         *)
(* Time is the age of things, counted up to Timeout.                       *)
(***************************************************************************)
EXTENDS Naturals, FiniteSets

CONSTANTS Dest,    \* destinations there can be at one time
          Seqs,    \* sequence numbers of the requests
          Limit,   \* requestsLimit: 1024 in the code
          Timeout, \* the timeout of a destination and of a request
          MaxWire, \* bound on the replies on their way
          MaxWrites, \* bound on the goroutines between Lookup and WritePacket
          None     \* no destination

TableAssumption ==
    /\ None \notin Dest /\ Limit \in Nat /\ Timeout \in Nat

Ident == 0..1   \* the identifiers, as many bits as tell them apart
Flip(i) == 1 - i
Request == [ident : Ident, seq : Seqs]

VARIABLES
    cache,     \* the mapping's entry: [dest, age]
    dest,      \* [Dest -> [state, closed, idle, requests, reader]]: state is the
               \* socket's, closed the flag
    writes,    \* those between Lookup and WritePacket: [dest, request]
    wire,      \* echo replies on their way to the socket of a destination
    asked,     \* requests of the client that were not answered yet
    owed       \* the last reply passed to the client was one it waited for

vars == <<cache, dest, writes, wire, asked, owed>>

Unused == [state |-> "unused", closed |-> FALSE, idle |-> 0, requests |-> {}, reader |-> "ended"]

TypeOK ==
    /\ cache \in [dest : Dest \cup {None}, age : 0..Timeout]
    /\ \A d \in Dest :
        /\ dest[d].state \in {"unused", "open", "closed"}
        /\ dest[d].closed \in BOOLEAN /\ dest[d].idle \in 0..Timeout
        /\ dest[d].requests \subseteq [ident : Ident, seq : Seqs, age : 0..(Timeout + 1)]
        /\ dest[d].reader \in {"reading", "leaving", "closing", "ended"}
    /\ writes \subseteq [dest : Dest, request : Request]
    /\ wire \subseteq [to : Dest, ident : Ident, seq : Seqs]
    /\ asked \subseteq Request /\ owed \in BOOLEAN

Key(r) == [ident |-> r.ident, seq |-> r.seq]

\* Close as the cache calls it, under the lock that every look at the flag takes.
Closed(d) == [dest EXCEPT ![d].state = "closed", ![d].closed = TRUE]

-----------------------------------------------------------------------------
Init ==
    /\ cache = [dest |-> None, age |-> 0] /\ dest = [d \in Dest |-> Unused]
    /\ writes = {} /\ wire = {} /\ asked = {} /\ owed = TRUE

(* A destination that nothing refers to any more.                          *)
Free(d) == /\ dest[d].reader = "ended" /\ dest[d].state # "open" /\ cache.dest # d
           /\ \A x \in writes : x.dest # d

\* slip: an entry is used without asking whether it is closed
UsableUnchecked == cache.dest # None /\ cache.age < Timeout

(* The entry is used when it is neither too old nor its flag is set.       *)
Usable == cache.dest # None /\ cache.age < Timeout /\ ~dest[cache.dest].closed

(* An entry that leaves the cache is closed (WithEvict).                   *)
Dropped(d) == IF d = None THEN dest ELSE Closed(d)

(* Lookup: LoadOrStoreEx holds the cache's lock through the health check   *)
(* and the constructor, which opens the socket and starts the reader.      *)
Lookup(r) ==
    /\ Cardinality(writes) < MaxWrites
    /\ \/ /\ Usable
          /\ cache' = [cache EXCEPT !.age = 0]
          /\ writes' = writes \cup {[dest |-> cache.dest, request |-> r]}
          /\ UNCHANGED dest
       \/ \E d \in Dest :
          /\ ~Usable /\ Free(d)
          /\ cache' = [dest |-> d, age |-> 0]
          /\ dest' = [Dropped(cache.dest) EXCEPT
                        ![d] = [state |-> "open", closed |-> FALSE, idle |-> 0, requests |-> {},
                                reader |-> "reading"]]
          /\ writes' = writes \cup {[dest |-> d, request |-> r]}
    /\ wire' = IF cache'.dest = cache.dest THEN wire ELSE {w \in wire : w.to # cache'.dest}
    /\ UNCHANGED <<asked, owed>>

(* The constructor fails: nothing is stored, the packet goes elsewhere.    *)
LookupFails ==
    /\ ~Usable
    /\ dest' = Dropped(cache.dest)
    /\ cache' = [cache EXCEPT !.dest = None]
    /\ UNCHANGED <<writes, wire, asked, owed>>

(* Another session pushes the entry out of the cache.                      *)
Evict ==
    /\ cache.dest # None
    /\ dest' = Dropped(cache.dest)
    /\ cache' = [cache EXCEPT !.dest = None]
    /\ UNCHANGED <<writes, wire, asked, owed>>

-----------------------------------------------------------------------------
Young(table) == {x \in table : x.age <= Timeout}

\* No two requests are made at the same time, but ages in ticks do not tell
\* which of several is the oldest.
Oldest(table) == {x \in table : \A y \in table : y.age <= x.age}

(* registerRequest: requests that are too old go, then the oldest one if   *)
(* there are more than the limit; the table is a map, so a request that is *)
(* registered again replaces itself.  These are the tables it may leave.   *)
Registered(table, r) ==
    LET young == Young(table)
        rooms == IF Cardinality(young) > Limit THEN {young \ {x} : x \in Oldest(young)} ELSE {young}
    IN {{x \in room : Key(x) # r} \cup {[ident |-> r.ident, seq |-> r.seq, age |-> 0]} : room \in rooms}

(* WriteIP sends the request with its identifier inverted, so that another *)
(* program's reply is not taken for one of its own; ReadIP undoes it.      *)
ToWire(r) == [r EXCEPT !.ident = Flip(@)]
FromWire(w) == [ident |-> Flip(w.ident), seq |-> w.seq]

(* WritePacket; on a closed socket it fails after the request is           *)
(* registered.  The far end may answer, or not.                            *)
WritePacket(x, answers) ==
    /\ LET d == x.dest
           r == x.request
           w == ToWire(r)
       IN /\ \E table \in Registered(dest[d].requests, r) :
               dest' = [dest EXCEPT ![d].idle = 0, ![d].requests = table]
          /\ asked' = asked \cup {r}
          /\ answers => dest[d].state = "open" /\ Cardinality(wire) < MaxWire
          /\ wire' = IF answers THEN wire \cup {[to |-> d, ident |-> w.ident, seq |-> w.seq]} ELSE wire
    /\ writes' = writes \ {x}
    /\ UNCHANGED <<cache, owed>>

(* An echo reply for another program, or a reply sent twice.               *)
ForeignReply(d, r) ==
    /\ dest[d].state = "open" /\ Cardinality(wire) < MaxWire
    /\ wire' = wire \cup {[to |-> d, ident |-> r.ident, seq |-> r.seq]}
    /\ UNCHANGED <<cache, dest, writes, asked, owed>>

-----------------------------------------------------------------------------
\* slip: the request stays in the table
AnsweredKept(table, r) == table

Answered(table, r) == {x \in table : Key(x) # r}

(* loopRead takes a reply: it is passed on when its request is in the      *)
(* table, which forgets it.                                                *)
Read(w) ==
    LET d == w.to
        r == FromWire(w)
        known == \E x \in dest[d].requests : Key(x) = r
    IN /\ dest[d].reader = "reading" /\ dest[d].state = "open" /\ w \in wire
       /\ wire' = wire \ {w}
       /\ IF known
          THEN /\ dest' = [dest EXCEPT ![d].idle = 0, ![d].requests = Answered(@, r)]
               /\ asked' = asked \ {r} /\ owed' = (r \in asked)
          ELSE UNCHANGED <<dest, asked, owed>>
       /\ UNCHANGED <<cache, writes>>

(* loopRead leaves: idle for the timeout, or its socket was closed.  The   *)
(* deferred Close follows in steps of its own.                             *)
Leave(d) ==
    /\ dest[d].reader = "reading"
    /\ dest[d].idle = Timeout \/ dest[d].state = "closed"
    /\ dest' = [dest EXCEPT ![d].reader = "leaving"]
    /\ UNCHANGED <<cache, writes, wire, asked, owed>>

(* The socket reports an error of the network, and the loop ends.          *)
ReadFails(d) ==
    /\ dest[d].reader = "reading" /\ dest[d].state = "open"
    /\ dest' = [dest EXCEPT ![d].reader = "leaving"]
    /\ UNCHANGED <<cache, writes, wire, asked, owed>>

(* Conn.Close: the socket, and the flag when it has returned.              *)
CloseSocket(d) ==
    /\ dest[d].reader = "leaving"
    /\ dest' = [dest EXCEPT ![d].reader = "closing", ![d].state = "closed"]
    /\ UNCHANGED <<cache, writes, wire, asked, owed>>

StoreClosed(d) ==
    /\ dest[d].reader = "closing"
    /\ dest' = [dest EXCEPT ![d].reader = "ended", ![d].closed = TRUE]
    /\ UNCHANGED <<cache, writes, wire, asked, owed>>

Older(age, most) == IF age < most THEN age + 1 ELSE age

Tick ==
    /\ cache' = [cache EXCEPT !.age = Older(@, Timeout)]
    /\ dest' = [d \in Dest |->
                 [dest[d] EXCEPT !.idle = Older(@, Timeout),
                    !.requests = {[x EXCEPT !.age = Older(@, Timeout + 1)] : x \in @}]]
    /\ UNCHANGED <<writes, wire, asked, owed>>

ReaderStep(d) == Leave(d) \/ CloseSocket(d) \/ StoreClosed(d)

Next ==
    \/ \E r \in Request : Lookup(r)
    \/ LookupFails \/ Evict \/ Tick
    \/ \E x \in writes, answers \in BOOLEAN : WritePacket(x, answers)
    \/ \E d \in Dest, r \in Request : ForeignReply(d, r)
    \/ \E w \in wire : Read(w)
    \/ \E d \in Dest : ReaderStep(d) \/ ReadFails(d)

(* Time passes, and each reader is a goroutine of its own.                 *)
Spec == Init /\ [][Next]_vars /\ WF_vars(Tick) /\ \A d \in Dest : WF_vars(ReaderStep(d))

-----------------------------------------------------------------------------
(* The table of outstanding requests stays within its limit, whatever is   *)
(* sent and lost.                                                          *)
RequestsBounded == \A d \in Dest : Cardinality(dest[d].requests) <= Limit + 1

(* A reply is passed to the client at most once for each request, and only *)
(* for a request it has made, although replies to other programs and       *)
(* replies sent twice reach the same socket.                               *)
AnsweredOnce == owed

(* A ping is answered once, from a table that stays small.                 *)
PingsAnsweredRight == RequestsBounded /\ AnsweredOnce

(* The reply to the latest request always finds it, as long as it comes in *)
(* time: the table forgets one other, and only an oldest, when it is full. *)
LatestIsKnown ==
    \A w \in writes \ writes' :
        LET before == Young(dest[w.dest].requests)
            after == {Key(x) : x \in dest'[w.dest].requests}
            forgotten == {x \in before : Key(x) \notin after}
        IN /\ w.request \in after
           /\ \A x \in forgotten : forgotten = {x} /\ x \in Oldest(before) /\ Cardinality(before) > Limit

(* Lookup returns a destination with an open socket: one that its reader   *)
(* closed is replaced although it is still in the cache, unless the lookup *)
(* comes between the two halves of that very Close.                        *)
LookupIsOpen ==
    \A w \in writes' \ writes : dest'[w.dest].state = "open" \/ dest'[w.dest].reader = "closing"

(* A request goes to a destination that is open or about to say that it is *)
(* not, and is known there.                                                *)
RequestsFindTheirWay == LookupIsOpen /\ LatestIsKnown

(* No socket is lost: the one that is open is the one in the cache.        *)
NothingLeaks == \A d \in Dest : dest[d].state = "open" => cache.dest = d

(* A destination that is not used any more gives its socket back, whether  *)
(* or not anybody looks it up again: this is so again and again.           *)
UsedOrClosed(d) == dest[d].state # "open" \/ dest[d].idle = 0
=============================================================================
