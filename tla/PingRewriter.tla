---------------------------- MODULE PingRewriter ----------------------------
(***************************************************************************)
(* Direct ICMP through a gVisor stack (ping/destination_gvisor.go): a raw  *)
(* endpoint per session, bound to the one address of the stack.  The       *)
(* SourceRewriter puts that address in place of the client's and finds the *)
(* client again by the identifier of the reply (ping/source_rewriter.go).  *)
(* DestinationWriter and ContextDestinationWriter                          *)
(* (ping/destination_rewriter.go) put the real destination in place of the *)
(* one the client used, and back.                                          *)
(*                                                                         *)
(* Endpoints of sessions with the same destination all get every reply of  *)
(* it.  A checksum is the addresses it was computed over: the header's of  *)
(* IPv4, the pseudo header's of ICMPv6.                                    *)
(***************************************************************************)
EXTENDS Naturals, FiniteSets, FiniteSetsExt

CONSTANTS Client,  \* source addresses
          Ident,   \* identifiers
          Alias,   \* the address the clients use
          Real,    \* the address it stands for
          Bind,    \* the stack's own address
          MaxAsk,  \* bound on the requests of a client
          None

VARIABLES
    v6,            \* the family of this run of the system
    endpoint,      \* [Client -> "none", "open" or "closed"]: the session's destination
    sourceAddress, \* [Client -> [Ident -> Client or None]]: of the session's rewriter
    inbox,         \* [Client -> set of replies its endpoint holds]
    net,           \* requests on their way
    asked, got,    \* [Client -> number of requests, of replies]
    last           \* the packet somebody got last

vars == <<v6, endpoint, sourceAddress, inbox, net, asked, got, last>>

Address == Client \cup {Alias, Real, Bind}
Packet == [src : Address, dst : Address, ident : Ident, sum : Address \X Address]

TypeOK ==
    /\ v6 \in BOOLEAN /\ endpoint \in [Client -> {"none", "open", "closed"}]
    /\ sourceAddress \in [Client -> [Ident -> Client \cup {None}]]
    /\ inbox \in [Client -> SUBSET Packet] /\ net \subseteq Packet
    /\ asked \in [Client -> 0..MaxAsk] /\ got \in [Client -> Nat]
    /\ last \in Packet \cup {None}

Init ==
    /\ v6 \in BOOLEAN /\ endpoint = [c \in Client |-> "none"]
    /\ sourceAddress = [c \in Client |-> [i \in Ident |-> None]]
    /\ inbox = [c \in Client |-> {}] /\ net = {}
    /\ asked = [c \in Client |-> 0] /\ got = [c \in Client |-> 0] /\ last = None

Valid(p) == p.sum = <<p.src, p.dst>>
Summed(p) == [p EXCEPT !.sum = <<p.src, p.dst>>]

-----------------------------------------------------------------------------
(* DestinationWriter.WritePacket: the address, and both checksums that     *)
(* cover it.                                                               *)
SetDestination(p, a) == Summed([p EXCEPT !.dst = a])

(* RewritePacket, ContextDestinationWriter.WritePacket.                    *)
SetSource(p, a) == Summed([p EXCEPT !.src = a])

(* ConnectGVisor: one session, one endpoint, one rewriter.                 *)
Connect(c) ==
    /\ endpoint[c] # "open"
    /\ endpoint' = [endpoint EXCEPT ![c] = "open"]
    /\ sourceAddress' = [sourceAddress EXCEPT ![c] = [i \in Ident |-> None]]
    /\ inbox' = [inbox EXCEPT ![c] = {}]
    /\ UNCHANGED <<v6, net, asked, got, last>>

(* RewritePacket remembers whose identifier it is.                         *)
Remembered(c, i) == [sourceAddress EXCEPT ![c][i] = c]

(* A request of a client: DestinationWriter, then RewritePacket.           *)
WritePacket(c, i) ==
    /\ endpoint[c] = "open" /\ asked[c] < MaxAsk
    /\ net' = net \cup {SetSource(SetDestination(Summed([src |-> c, dst |-> Alias, ident |-> i, sum |-> <<c, c>>]), Real), Bind)}
    /\ sourceAddress' = Remembered(c, i)
    /\ asked' = [asked EXCEPT ![c] = @ + 1]
    /\ UNCHANGED <<v6, endpoint, inbox, got, last>>

(* The far end answers what is valid; every open endpoint gets the reply.  *)
Answer(p) ==
    LET reply == Summed([src |-> p.dst, dst |-> p.src, ident |-> p.ident, sum |-> p.sum])
    IN /\ p \in net /\ net' = net \ {p} /\ last' = p
       /\ inbox' = [c \in Client |-> IF endpoint[c] = "open" /\ Valid(p) THEN inbox[c] \cup {reply} ELSE inbox[c]]
       /\ UNCHANGED <<v6, endpoint, sourceAddress, asked, got>>

(* WriteBack forgets the identifier with its first reply.                  *)
Forgotten(c, i) == [sourceAddress EXCEPT ![c][i] = None]

(* loopRead: WriteBack, then ContextDestinationWriter.  A reply whose      *)
(* identifier is not known is dropped, and so is one of no session.        *)
WriteBack(c, p) ==
    LET source == sourceAddress[c][p.ident]
        session == source = c /\ p.src = Real
    IN /\ endpoint[c] = "open" /\ p \in inbox[c]
       /\ inbox' = [inbox EXCEPT ![c] = @ \ {p}]
       /\ sourceAddress' = IF source = None THEN sourceAddress ELSE Forgotten(c, p.ident)
       /\ IF session THEN /\ last' = SetSource(SetDestination(p, source), Alias)
                          /\ got' = [got EXCEPT ![c] = @ + 1]
                     ELSE UNCHANGED <<last, got>>
       /\ UNCHANGED <<v6, endpoint, net, asked>>

(* Close, or the end of loopRead: idle, or an error.                       *)
Close(c) ==
    /\ endpoint[c] = "open"
    /\ endpoint' = [endpoint EXCEPT ![c] = "closed"]
    /\ UNCHANGED <<v6, sourceAddress, inbox, net, asked, got, last>>

Next ==
    \/ \E c \in Client : Connect(c) \/ Close(c)
    \/ \E c \in Client, i \in Ident : WritePacket(c, i)
    \/ \E p \in net : Answer(p)
    \/ \E c \in Client : \E p \in inbox[c] : WriteBack(c, p)

Spec == Init /\ [][Next]_vars

-----------------------------------------------------------------------------
(* Whoever gets a packet, the far end or the client, finds its checksums   *)
(* valid although the addresses were replaced up to four times.            *)
ChecksumsValid == last # None => Valid(last)

(* A client sees the address it used, and its own: neither the real        *)
(* destination nor the stack's address leaks into what it gets.            *)
AddressesRestored == last # None => \/ last.src = Bind /\ last.dst = Real
                                    \/ last.src = Alias /\ last.dst \in Client

(* A client gets no more replies than it sent requests, although its       *)
(* endpoint holds the replies to all the others with the same identifier.  *)
NoMoreThanAsked == \A c \in Client : got[c] <= asked[c]

=============================================================================
