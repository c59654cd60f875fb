----------------------------- MODULE SystemStack -----------------------------
(***************************************************************************)
(* The TCP path of the system stack (stack_system.go; stack_mixed.go embeds *)
(* it): the goroutine tunLoop rewrites packets with the NAT, the kernel     *)
(* turns them into connections to the stack's own listener, and the         *)
(* goroutine acceptLoop asks the NAT which flow each connection stands for. *)
(* The NAT is the atomic table that TCPNat is proved to implement.  One     *)
(* address family; the code of the other is the same with its own NAT.      *)
(*                                                                          *)
(* A packet is the flow or the port it names.  The kernel (external) keeps  *)
(* one connection per remote port: the first packet opens it, a later one   *)
(* completes the handshake, and it may send packets while it is open.       *)
(***************************************************************************)
EXTENDS NatTable, FiniteSets, Naturals, TLC

CONSTANTS
  Tun, Accept,   \* the goroutines tunLoop and acceptLoop
  Local,         \* flows that are dropped or looped back without the NAT
  MaxPackets     \* bound of the model: packets waiting in the tun

ASSUME StackAssumption ==
  /\ Threads = {Tun, Accept} /\ Tun # Accept
  /\ Local \subseteq Keys /\ NoKey \notin Keys /\ NoPort \notin Ports
  /\ MaxPackets \in Nat

VARIABLES
  tunIn,         \* packets tunLoop has not read yet
  cur,           \* the packet tunLoop is processing
  conn,          \* conn[p]: the kernel's connection with remote port p
  accepting      \* the remote port of the connection acceptLoop holds

allVars == <<table, call, tunIn, cur, conn, accepting>>

\* From an application, of its flow; or from the listener, to a port.  Of the
\* latter, flow is history: the flow that opened the connection it belongs to.
\* So is lost: the binding the packet or the connection rests on was evicted.
Out(f) == [kind |-> "out", flow |-> f, port |-> NoPort, lost |-> FALSE]
Back(p, f, l) == [kind |-> "back", flow |-> f, port |-> p, lost |-> l]
NoPacket == [kind |-> "none", flow |-> NoKey, port |-> NoPort, lost |-> FALSE]
Packets == [kind : {"out"}, flow : Keys, port : {NoPort}, lost : BOOLEAN]
             \cup [kind : {"back"}, flow : Keys, port : Ports, lost : BOOLEAN]

NoConn == [state |-> "none", flow |-> NoKey, lost |-> FALSE]
Conns == [state : {"syn", "ready", "open", "orphan"}, flow : Keys, lost : BOOLEAN]

StackTypeOK ==
  /\ table \in [Keys -> Ports \cup {NoPort}] /\ Injective
  /\ tunIn \subseteq Packets
  /\ cur \in Packets \cup {NoPacket}
  /\ conn \in [Ports -> Conns \cup {NoConn}]
  /\ accepting \in Ports \cup {NoPort}

StackInit ==
  /\ Init
  /\ tunIn = {} /\ cur = NoPacket
  /\ conn = [p \in Ports |-> NoConn]
  /\ accepting = NoPort
-----------------------------------------------------------------------------
(* The environment. *)
Arrives(pkt) ==
  /\ Cardinality(tunIn) < MaxPackets
  /\ tunIn' = tunIn \cup {pkt}
  /\ UNCHANGED <<table, call, cur, conn, accepting>>

AppSend(f) == Arrives(Out(f))

KernelSend(p) ==
  /\ conn[p] # NoConn
  /\ Arrives(Back(p, conn[p].flow, conn[p].lost))

\* The kernel receives a packet of flow f rewritten to remote port p.
KernelReceive(p, f, lost) ==
  conn' = [conn EXCEPT ![p] =
             CASE @ = NoConn -> [state |-> "syn", flow |-> f, lost |-> lost]
               [] @.state = "syn" -> [@ EXCEPT !.state = "ready"]
               [] OTHER -> @]
-----------------------------------------------------------------------------
(* tunLoop: read a packet and process it. *)
\* Dropped, or sent back to its sender with the addresses swapped.
TunLocal(pkt) ==
  /\ pkt.kind = "out" /\ pkt.flow \in Local
  /\ UNCHANGED <<call, table, cur>>

TunLookup(pkt) ==
  /\ pkt.kind = "out" /\ pkt.flow \notin Local
  /\ Call(Tun) /\ call'[Tun] = [phase |-> "lookup", key |-> pkt.flow]
  /\ cur' = pkt

TunLookupBack(pkt) ==
  /\ pkt.kind = "back"
  /\ Call(Tun) /\ call'[Tun] = [phase |-> "back", port |-> pkt.port]
  /\ cur' = pkt

TunRead(pkt) ==
  /\ cur = NoPacket
  /\ tunIn' = tunIn \ {pkt}
  /\ TunLocal(pkt) \/ TunLookup(pkt) \/ TunLookupBack(pkt)
  /\ UNCHANGED <<conn, accepting>>

\* Lookup returned: the packet is rewritten to the listener and written back,
\* or the flow is reset because no port is left.
TunForward ==
  /\ cur.kind = "out" /\ call[Tun].phase = "answered"
  /\ Return(Tun)
  /\ \/ /\ call[Tun].port # NoPort
        /\ KernelReceive(call[Tun].port, cur.flow, cur.lost)
     \/ /\ call[Tun].port = NoPort
        /\ UNCHANGED conn
  /\ cur' = NoPacket
  /\ UNCHANGED <<tunIn, accepting>>

\* LookupBack returned: the packet is rewritten to the flow of the session and
\* written back, or dropped when there is none.
TunReply ==
  /\ cur.kind = "back" /\ call[Tun].phase = "answered"
  /\ Return(Tun)
  /\ cur' = NoPacket
  /\ UNCHANGED <<tunIn, conn, accepting>>
-----------------------------------------------------------------------------
(* acceptLoop. *)
AcceptConn(p) ==
  /\ accepting = NoPort
  /\ conn[p].state = "ready"
  /\ Call(Accept) /\ call'[Accept] = [phase |-> "back", port |-> p]
  /\ accepting' = p
  /\ UNCHANGED <<tunIn, cur, conn>>

\* A connection without a session is left behind, open; another one goes to
\* the handler with the addresses of the session.
AcceptDone ==
  /\ call[Accept].phase = "answered"
  /\ Return(Accept)
  /\ conn' = [conn EXCEPT ![accepting].state =
                IF call[Accept].key = NoKey THEN "orphan" ELSE "open"]
  /\ accepting' = NoPort
  /\ UNCHANGED <<tunIn, cur>>

\* handler.NewConnection returns and the connection is closed; one that was
\* left behind is closed when the garbage collector finds it.
ConnCloses(p) ==
  /\ conn[p].state \in {"open", "orphan"}
  /\ conn' = [conn EXCEPT ![p] = NoConn]
  /\ UNCHANGED <<table, call, tunIn, cur, accepting>>
-----------------------------------------------------------------------------
(* The NAT between a call and its return, and its timeout loop. *)
NatAnswer ==
  /\ AnswerLookup(Tun) \/ AnswerBack(Tun) \/ AnswerBack(Accept)
  /\ UNCHANGED <<tunIn, cur, conn, accepting>>

\* The binding of flow f to port p goes away.
Unbinds(f, p) == f \in Keys /\ p \in Ports /\ table[f] = p /\ table'[f] # p

NatEvict ==
  /\ Evict
  /\ conn' = [p \in Ports |-> [conn[p] EXCEPT !.lost = @ \/ Unbinds(conn[p].flow, p)]]
  /\ tunIn' = {[pkt EXCEPT !.lost = @ \/ Unbinds(pkt.flow, pkt.port)] : pkt \in tunIn}
  /\ cur' = [cur EXCEPT !.lost = @ \/ Unbinds(cur.flow,
               IF cur.kind = "out" /\ call[Tun].phase = "answered"
               THEN call[Tun].port ELSE cur.port)]
  /\ UNCHANGED accepting

StackNext ==
  \/ \E f \in Keys : AppSend(f)
  \/ \E p \in Ports : KernelSend(p) \/ AcceptConn(p) \/ ConnCloses(p)
  \/ \E pkt \in tunIn : TunRead(pkt)
  \/ TunForward \/ TunReply \/ AcceptDone
  \/ NatAnswer \/ NatEvict

StackSpec == StackInit /\ [][StackNext]_allVars
-----------------------------------------------------------------------------
(* The handler is told the flow that opened the connection, although the    *)
(* two goroutines and the timeout loop share nothing but the port number,   *)
(* unless the binding was evicted before.                                   *)
HandlerSeesOpener ==
  [][\A p \in Ports : conn[p].state = "ready" /\ conn'[p].state = "open" =>
       call[Accept].key = conn[p].flow \/ conn[p].lost]_allVars

(* A packet the kernel sends on a connection reaches the application that   *)
(* opened it or nobody, also when it waited in the tun while the connection *)
(* was closed and the port used again, unless the binding was evicted.      *)
ReplyReachesOpener ==
  [][cur.kind = "back" /\ cur' = NoPacket /\ call[Tun].key # NoKey =>
       call[Tun].key = cur.flow \/ cur.lost]_allVars

(* acceptLoop finds no session, and abandons the connection, only when the  *)
(* binding was evicted since Lookup answered the packet that opened it.     *)
OrphansWereEvicted == \A p \in Ports : conn[p].state = "orphan" => conn[p].lost

\* Flows that use the NAT, and ports, are interchangeable.
FlowSymmetry == Permutations(Keys \ Local) \cup Permutations(Ports)
=============================================================================
