-------------------------- MODULE UnprivilegedPing --------------------------
(***************************************************************************)
(* UnprivilegedConn of ping/socket_linux_unprivileged.go: ICMP without     *)
(* privileges.  The kernel puts an identifier of its own choice on what a  *)
(* ping socket sends, so there is one socket for each identifier of the    *)
(* clients, with a goroutine (fetchResponse) that reads its replies, puts  *)
(* the client's identifier back and hands them over an unbuffered channel. *)
(*                                                                         *)
(* Writers, readers of the replies, the idle deadline and Close meet at    *)
(* the mapping, under mappingAccess; sockets are closed outside of it.     *)
(* The context may end with the one it was made from: then whoever is in   *)
(* Read returns, and the reader of the destination calls Close.            *)
(***************************************************************************)
EXTENDS Naturals, FiniteSets

CONSTANTS Ident,   \* identifiers of the clients
          Conn,    \* sockets there can be
          Writer,  \* goroutines in Write
          None

NoneAssumption == None \notin Conn

VARIABLES
    context,   \* ctx: "live", "cancelled" by its parent, "closed" by Close
    mapping,   \* [Ident -> Conn or None]
    conn,      \* [Conn -> [state, ident, inbox]]
    fetch,     \* [Conn -> where fetchResponse of the socket is]
    writer     \* [Writer -> [pc, ident, conn]]

vars == <<context, mapping, conn, fetch, writer>>

Idle == [pc |-> "idle", ident |-> None, conn |-> None]

TypeOK ==
    /\ context \in {"live", "cancelled", "closed"}
    /\ mapping \in [Ident -> Conn \cup {None}]
    /\ conn \in [Conn -> [state : {"unused", "open", "closed"}, ident : Ident \cup {None}, inbox : BOOLEAN]]
    /\ fetch \in [Conn -> {"none", "reading", "holding", "removing", "closing", "ended"}]
    /\ writer \in [Writer -> [pc : {"idle", "writing", "removing", "closing"},
                              ident : Ident \cup {None}, conn : Conn \cup {None}]]

Init ==
    /\ context = "live" /\ mapping = [i \in Ident |-> None]
    /\ conn = [c \in Conn |-> [state |-> "unused", ident |-> None, inbox |-> FALSE]]
    /\ fetch = [c \in Conn |-> "none"] /\ writer = [w \in Writer |-> Idle]

Free(c) == /\ conn[c].state # "open" /\ fetch[c] \in {"none", "ended"}
           /\ \A w \in Writer : writer[w].conn # c

-----------------------------------------------------------------------------
MayWrite == context = "live"

(* Write up to the unlock: the socket of the identifier, or a new one.     *)
Write(w, i) ==
    /\ writer[w].pc = "idle" /\ MayWrite
    /\ \/ /\ mapping[i] # None
          /\ writer' = [writer EXCEPT ![w] = [pc |-> "writing", ident |-> i, conn |-> mapping[i]]]
          /\ UNCHANGED <<mapping, conn, fetch>>
       \/ \E c \in Conn :
          /\ mapping[i] = None /\ Free(c)
          /\ conn' = [conn EXCEPT ![c] = [state |-> "open", ident |-> i, inbox |-> FALSE]]
          /\ fetch' = [fetch EXCEPT ![c] = "reading"]
          /\ mapping' = [mapping EXCEPT ![i] = c]
          /\ writer' = [writer EXCEPT ![w] = [pc |-> "writing", ident |-> i, conn |-> c]]
    /\ UNCHANGED <<context>>

(* conn.Write, which fails when the socket is closed, or may fail; the far *)
(* end may answer.                                                         *)
Send(w) ==
    LET c == writer[w].conn
    IN /\ writer[w].pc = "writing"
       /\ \/ /\ conn[c].state = "open"
             /\ \E answered \in BOOLEAN : conn' = [conn EXCEPT ![c].inbox = @ \/ answered]
             /\ writer' = [writer EXCEPT ![w] = Idle]
          \/ /\ writer' = [writer EXCEPT ![w].pc = "removing"]
             /\ UNCHANGED conn
       /\ UNCHANGED <<context, mapping, fetch>>

\* slip: whatever socket the identifier has is forgotten
WithoutAny(c, i) == [mapping EXCEPT ![i] = None]

(* removeConn deletes the entry only when it still is the socket's.        *)
Without(c, i) == IF mapping[i] = c THEN [mapping EXCEPT ![i] = None] ELSE mapping

WriterRemoves(w) ==
    /\ writer[w].pc = "removing"
    /\ mapping' = Without(writer[w].conn, writer[w].ident)
    /\ writer' = [writer EXCEPT ![w].pc = "closing"]
    /\ UNCHANGED <<context, conn, fetch>>

WriterCloses(w) ==
    /\ writer[w].pc = "closing"
    /\ conn' = [conn EXCEPT ![writer[w].conn].state = "closed"]
    /\ writer' = [writer EXCEPT ![w] = Idle]
    /\ UNCHANGED <<context, mapping, fetch>>

-----------------------------------------------------------------------------
(* fetchResponse takes a reply from its socket.                            *)
Fetch(c) ==
    /\ fetch[c] = "reading" /\ conn[c].state = "open" /\ conn[c].inbox
    /\ conn' = [conn EXCEPT ![c].inbox = FALSE]
    /\ fetch' = [fetch EXCEPT ![c] = "holding"]
    /\ UNCHANGED <<context, mapping, writer>>

(* The deadline passes, or the socket reports an error.                    *)
FetchFails(c) ==
    /\ fetch[c] = "reading"
    /\ fetch' = [fetch EXCEPT ![c] = "removing"]
    /\ UNCHANGED <<context, mapping, conn, writer>>

(* The socket was closed.                                                  *)
FetchEnds(c) ==
    /\ fetch[c] = "reading" /\ conn[c].state = "closed"
    /\ fetch' = [fetch EXCEPT ![c] = "removing"]
    /\ UNCHANGED <<context, mapping, conn, writer>>

(* Read or ReadMsg takes the reply from the channel.                       *)
Read(c) ==
    /\ fetch[c] = "holding"
    /\ fetch' = [fetch EXCEPT ![c] = "reading"]
    /\ UNCHANGED <<context, mapping, conn, writer>>

(* Nobody reads any more: the reply is dropped when the context is done.   *)
DropReply(c) ==
    /\ fetch[c] = "holding" /\ context # "live"
    /\ fetch' = [fetch EXCEPT ![c] = "removing"]
    /\ UNCHANGED <<context, mapping, conn, writer>>

FetchRemoves(c) ==
    /\ fetch[c] = "removing"
    /\ mapping' = Without(c, conn[c].ident)
    /\ fetch' = [fetch EXCEPT ![c] = "closing"]
    /\ UNCHANGED <<context, conn, writer>>

FetchCloses(c) ==
    /\ fetch[c] = "closing"
    /\ conn' = [conn EXCEPT ![c].state = "closed"]
    /\ fetch' = [fetch EXCEPT ![c] = "ended"]
    /\ UNCHANGED <<context, mapping, writer>>

-----------------------------------------------------------------------------
ClosedByClose == [c \in Conn |-> IF \E i \in Ident : mapping[i] = c
                                 THEN [conn[c] EXCEPT !.state = "closed"] ELSE conn[c]]

Close ==
    /\ context' = "closed"
    /\ conn' = ClosedByClose
    /\ mapping' = [i \in Ident |-> None]
    /\ UNCHANGED <<fetch, writer>>

(* The context of the destination ends.                                    *)
ParentCancels ==
    /\ context = "live" /\ context' = "cancelled"
    /\ UNCHANGED <<mapping, conn, fetch, writer>>

(* The reader that was in Read leaves and closes.                          *)
ReaderCloses == context = "cancelled" /\ Close

Finish(c) == FetchEnds(c) \/ DropReply(c) \/ FetchRemoves(c) \/ FetchCloses(c)

WriterStep(w) == Send(w) \/ WriterRemoves(w) \/ WriterCloses(w)

Next ==
    \/ \E w \in Writer : WriterStep(w) \/ \E i \in Ident : Write(w, i)
    \/ \E c \in Conn : Finish(c) \/ Fetch(c) \/ FetchFails(c) \/ Read(c)
    \/ Close \/ ParentCancels

(* Goroutines that can go on do.  That a reader takes a reply is not       *)
(* assumed, but it does leave when the context has ended.                  *)
Spec == /\ Init /\ [][Next]_vars
        /\ \A c \in Conn : WF_vars(Finish(c) \/ Fetch(c))
        /\ \A w \in Writer : WF_vars(WriterStep(w))
        /\ WF_vars(ReaderCloses)

-----------------------------------------------------------------------------
(* No socket is lost: one that is open is in the mapping, or somebody is   *)
(* on the way to close it.                                                 *)
OpenIsMapped ==
    \A c \in Conn : conn[c].state = "open" =>
        \/ mapping[conn[c].ident] = c
        \/ fetch[c] = "closing"
        \/ \E w \in Writer : writer[w].pc = "closing" /\ writer[w].conn = c

(* After Close no writer that was on its way opens a socket and leaves it  *)
(* behind: the mapping stays empty.                                        *)
ClosedStaysEmpty == context = "closed" => \A i \in Ident : mapping[i] = None

(* No socket is left behind by Write, the idle deadline or Close.          *)
NothingLeaks == OpenIsMapped /\ ClosedStaysEmpty

(* After Close, or the end of the context around it, every socket is       *)
(* closed and every goroutine of this connection ends, the one that holds  *)
(* a reply nobody reads too: in the long run this holds.                   *)
AllEnded ==
    context # "live" => \A c \in Conn : conn[c].state # "open" /\ fetch[c] \in {"none", "ended"}
=============================================================================
