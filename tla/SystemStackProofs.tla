------------------------- MODULE SystemStackProofs -------------------------
(***************************************************************************)
(* What the system stack promises although tunLoop, acceptLoop and the     *)
(* kernel share nothing but a port number, for any flows, ports and number *)
(* of packets in the tun.                                                  *)
(*                                                                         *)
(* The argument: whatever names a port, a connection, a packet on its way  *)
(* back or an answer of the NAT, rests on a binding of the table.  The     *)
(* table changes such a binding only by evicting it, and then `lost' says  *)
(* so; as a port has one owner, an answer of LookupBack is the flow the    *)
(* binding was made for.                                                   *)
(***************************************************************************)
EXTENDS SystemStack, TLAPS

\* The binding of flow f to port p stands, or its loss is recorded.
Rests(f, p, lost) == lost \/ table[f] = p

\* tunLoop is in a call c exactly while it has a packet, and in that packet's.
\* What it was answered is what the packet rests on.
TunAt(c) ==
  \/ cur = NoPacket /\ c = Idle
  \/ /\ cur.kind = "out"
     /\ \/ c = [phase |-> "lookup", key |-> cur.flow]
        \/ \E p \in Ports \cup {NoPort} :
             /\ c = [phase |-> "answered", port |-> p]
             /\ p # NoPort => Rests(cur.flow, p, cur.lost)
  \/ /\ cur.kind = "back"
     /\ \/ c = [phase |-> "back", port |-> cur.port]
        \/ \E k \in Keys \cup {NoKey} :
             /\ c = [phase |-> "answered", key |-> k]
             /\ k = cur.flow \/ cur.lost
TunPlace == TunAt(call[Tun])

\* acceptLoop is in a call c exactly while it holds a connection.
AcceptAt(c) ==
  \/ accepting = NoPort /\ c = Idle
  \/ /\ accepting \in Ports /\ conn[accepting].state = "ready"
     /\ \/ c = [phase |-> "back", port |-> accepting]
        \/ \E k \in Keys \cup {NoKey} :
             /\ c = [phase |-> "answered", key |-> k]
             /\ k = conn[accepting].flow \/ conn[accepting].lost
AcceptPlace == AcceptAt(call[Accept])

PacketsRest == \A pkt \in tunIn : pkt.kind = "back" => Rests(pkt.flow, pkt.port, pkt.lost)
CurRests == cur.kind = "back" => Rests(cur.flow, cur.port, cur.lost)
ConnsRest == \A p \in Ports : conn[p] # NoConn => Rests(conn[p].flow, p, conn[p].lost)

CallType == call = [t \in Threads |-> call[t]]

StackInv ==
  /\ StackTypeOK /\ CallType
  /\ TunPlace /\ AcceptPlace
  /\ PacketsRest /\ CurRests /\ ConnsRest
  /\ OrphansWereEvicted
-----------------------------------------------------------------------------
(* LookupBack answers the flow that holds the port. *)
LEMMA OwnerOfBinding ==
  ASSUME Injective, NEW p \in Ports, NEW k \in Keys, table[k] = p
  PROVE  Owner(p) = k
<1>1. Bound(p)
  BY DEF Bound
<1>2. \A j \in Keys : table[j] = p => j = k
  BY StackAssumption DEF Injective
<1>3. (CHOOSE j \in Keys : table[j] = p) = k
  BY <1>2
<1> QED BY <1>1, <1>3 DEF Owner

LEMMA OwnerTyped ==
  ASSUME NEW p \in Ports
  PROVE  Owner(p) \in Keys \cup {NoKey}
  BY DEF Owner, Bound

(* What the typing says of the packet and the connections at hand. *)
LEMMA PacketTyped ==
  ASSUME NEW pkt \in Packets
  PROVE  /\ pkt.kind \in {"out", "back"} /\ pkt.flow \in Keys /\ pkt.lost \in BOOLEAN
         /\ pkt.kind = "out" => pkt = [kind |-> "out", flow |-> pkt.flow, port |-> NoPort, lost |-> pkt.lost]
         /\ pkt.kind = "back" => pkt.port \in Ports
         /\ pkt # NoPacket
  BY DEF Packets, NoPacket

LEMMA ConnTyped ==
  ASSUME StackTypeOK, NEW p \in Ports, conn[p] # NoConn
  PROVE  /\ conn[p] \in Conns
         /\ conn[p].state \in {"syn", "ready", "open", "orphan"}
         /\ conn[p].flow \in Keys /\ conn[p].lost \in BOOLEAN
  BY DEF StackTypeOK, Conns

LEMMA CallUpdate ==
  ASSUME CallType, NEW t \in Threads, NEW v, call' = [call EXCEPT ![t] = v]
  PROVE  CallType' /\ call'[t] = v /\ \A u \in Threads \ {t} : call'[u] = call[u]
  BY DEF CallType
-----------------------------------------------------------------------------
LEMMA InitStackInv == StackInit => StackInv
<1> SUFFICES ASSUME StackInit PROVE StackInv
  OBVIOUS
<1> USE StackAssumption DEF StackInit, Init
<1>1. StackTypeOK
  BY DEF StackTypeOK, Injective, NoPacket
<1>2. CallType /\ TunPlace /\ AcceptPlace
  BY DEF CallType, TunPlace, TunAt, AcceptPlace, AcceptAt, Idle
<1>3. PacketsRest /\ CurRests /\ ConnsRest
  BY DEF PacketsRest, CurRests, ConnsRest, NoPacket
<1>4. OrphansWereEvicted
  BY DEF OrphansWereEvicted, NoConn
<1> QED BY <1>1, <1>2, <1>3, <1>4 DEF StackInv

(* A packet enters the tun. *)
LEMMA ArrivesKeeps ==
  ASSUME StackInv, NEW pkt \in Packets, Arrives(pkt),
         pkt.kind = "back" => Rests(pkt.flow, pkt.port, pkt.lost)
  PROVE  StackInv'
<1> USE DEF StackInv, Arrives, Rests
<1>1. StackTypeOK'
  BY DEF StackTypeOK, Injective
<1>2. CallType' /\ TunPlace' /\ AcceptPlace'
  BY DEF CallType, TunPlace, TunAt, AcceptPlace, AcceptAt
<1>3. PacketsRest' /\ CurRests' /\ ConnsRest'
  BY DEF PacketsRest, CurRests, ConnsRest
<1>4. OrphansWereEvicted'
  BY DEF OrphansWereEvicted
<1> QED BY <1>1, <1>2, <1>3, <1>4

LEMMA AppSendKeeps ==
  ASSUME StackInv, NEW f \in Keys, AppSend(f)
  PROVE  StackInv'
<1>1. Out(f) \in Packets /\ Out(f).kind = "out"
  BY DEF Out, Packets
<1> QED BY <1>1, ArrivesKeeps DEF AppSend

LEMMA KernelSendKeeps ==
  ASSUME StackInv, NEW p \in Ports, KernelSend(p)
  PROVE  StackInv'
<1> DEFINE pkt == Back(p, conn[p].flow, conn[p].lost)
<1>1. conn[p] # NoConn /\ Arrives(pkt)
  BY DEF KernelSend
<1>2. pkt \in Packets
  BY <1>1, ConnTyped DEF StackInv, Back, Packets
<1>3. Rests(pkt.flow, pkt.port, pkt.lost)
  BY <1>1 DEF StackInv, ConnsRest, Back, Rests
<1> QED BY <1>1, <1>2, <1>3, ArrivesKeeps
-----------------------------------------------------------------------------
(* tunLoop reads a packet. *)
LEMMA TunReadKeeps ==
  ASSUME StackInv, NEW pkt \in tunIn, TunRead(pkt)
  PROVE  StackInv'
<1> USE StackAssumption DEF StackInv
<1>1. pkt \in Packets
  BY DEF StackTypeOK
<1>2. CASE TunLocal(pkt)
  <2>1. StackTypeOK'
    BY <1>2 DEF StackTypeOK, Injective, TunRead, TunLocal
  <2>2. CallType' /\ TunPlace' /\ AcceptPlace'
    BY <1>2 DEF CallType, TunPlace, TunAt, AcceptPlace, AcceptAt, TunRead, TunLocal, Rests
  <2>3. PacketsRest' /\ CurRests' /\ ConnsRest' /\ OrphansWereEvicted'
    BY <1>2 DEF PacketsRest, CurRests, ConnsRest, OrphansWereEvicted, TunRead, TunLocal, Rests
  <2> QED BY <2>1, <2>2, <2>3
<1>3. CASE TunLookup(pkt) \/ TunLookupBack(pkt)
  <2>1. PICK v : call' = [call EXCEPT ![Tun] = v]
    BY <1>3 DEF TunLookup, TunLookupBack, Call
  <2>2. CallType' /\ call'[Tun] = v /\ call'[Accept] = call[Accept]
    BY <2>1, CallUpdate
  <2>3. /\ tunIn' = tunIn \ {pkt} /\ cur' = pkt
        /\ UNCHANGED <<table, conn, accepting>>
    BY <1>3 DEF TunRead, TunLookup, TunLookupBack, Call
  <2>4. StackTypeOK'
    BY <1>1, <2>3 DEF StackTypeOK, Injective
  <2>5. TunPlace'
    BY <1>3, <2>3 DEF TunPlace, TunAt, TunLookup, TunLookupBack
  <2>6. AcceptPlace'
    BY <2>2, <2>3 DEF AcceptPlace, AcceptAt
  <2>7. PacketsRest' /\ CurRests' /\ ConnsRest' /\ OrphansWereEvicted'
    BY <2>3 DEF PacketsRest, CurRests, ConnsRest, OrphansWereEvicted, Rests
  <2> QED BY <2>2, <2>4, <2>5, <2>6, <2>7
<1> QED BY <1>2, <1>3 DEF TunRead

(* Lookup returned: the packet goes to the kernel, which opens the
   connection, completes its handshake, or has it already. *)
LEMMA TunForwardKeeps ==
  ASSUME StackInv, TunForward
  PROVE  StackInv'
<1> USE StackAssumption DEF StackInv
<1>1. CallType' /\ call'[Tun] = Idle /\ call'[Accept] = call[Accept]
  BY CallUpdate DEF TunForward, Return
<1>2. cur' = NoPacket /\ UNCHANGED <<table, tunIn, accepting>>
  BY DEF TunForward, Return
<1>3. cur \in Packets /\ cur.kind = "out" /\ cur.flow \in Keys /\ cur.lost \in BOOLEAN
  BY PacketTyped DEF TunForward, StackTypeOK, NoPacket
<1>4. PICK p \in Ports \cup {NoPort} :
         /\ call[Tun] = [phase |-> "answered", port |-> p]
         /\ p # NoPort => Rests(cur.flow, p, cur.lost)
  BY <1>3 DEF TunForward, TunPlace, TunAt, NoPacket
<1>5. TunPlace'
  BY <1>1, <1>2 DEF TunPlace, TunAt
<1>6. PacketsRest' /\ CurRests'
  BY <1>2 DEF PacketsRest, CurRests, Rests, NoPacket
<1>7. CASE p = NoPort
  <2>1. UNCHANGED conn
    BY <1>4, <1>7 DEF TunForward
  <2>2. StackTypeOK' /\ AcceptPlace' /\ ConnsRest' /\ OrphansWereEvicted'
    BY <1>1, <1>2, <2>1
       DEF StackTypeOK, Injective, AcceptPlace, AcceptAt, ConnsRest, Rests, OrphansWereEvicted
  <2> QED BY <1>1, <1>5, <1>6, <2>2
<1>8. CASE p # NoPort
  <2>1. p \in Ports /\ KernelReceive(p, cur.flow, cur.lost)
    BY <1>4, <1>8 DEF TunForward
  <2>2. \A q \in Ports \ {p} : conn'[q] = conn[q]
    BY <2>1 DEF KernelReceive, StackTypeOK
  <2>3. CASE conn[p] = NoConn
    <3>1. conn'[p] = [state |-> "syn", flow |-> cur.flow, lost |-> cur.lost]
      BY <2>1, <2>3 DEF KernelReceive, StackTypeOK, NoConn
    <3>2. conn' = [conn EXCEPT ![p] = conn'[p]] /\ conn'[p] \in Conns
      BY <1>3, <2>1, <3>1 DEF KernelReceive, StackTypeOK, Conns
    <3>3. StackTypeOK'
      BY <1>2, <3>2 DEF StackTypeOK, Injective
    <3>4. AcceptPlace'
      <4>1. conn[p].state # "ready"
        BY <2>3 DEF NoConn
      <4> QED BY <1>1, <1>2, <2>1, <2>2, <4>1 DEF AcceptPlace, AcceptAt
    <3>5. ConnsRest' /\ OrphansWereEvicted'
      BY <1>2, <1>4, <1>8, <2>2, <3>1 DEF ConnsRest, OrphansWereEvicted, Rests
    <3> QED BY <1>1, <1>5, <1>6, <3>3, <3>4, <3>5
  <2>4. CASE conn[p] # NoConn /\ conn[p].state = "syn"
    <3>1. conn'[p] = [conn[p] EXCEPT !.state = "ready"]
      BY <2>1, <2>4 DEF KernelReceive, StackTypeOK
    <3>2. conn[p] \in Conns
      BY <2>1, <2>4, ConnTyped
    <3>3. /\ conn'[p] \in Conns /\ conn'[p].state = "ready"
          /\ conn'[p].flow = conn[p].flow /\ conn'[p].lost = conn[p].lost
      BY <3>1, <3>2 DEF Conns
    <3>4. conn' = [conn EXCEPT ![p] = conn'[p]]
      BY <2>1, <3>1, <2>2 DEF KernelReceive, StackTypeOK
    <3>5. StackTypeOK'
      BY <1>2, <3>3, <3>4 DEF StackTypeOK, Injective
    <3>6. AcceptPlace'
      BY <1>1, <1>2, <2>2, <2>4 DEF AcceptPlace, AcceptAt
    <3>7. ConnsRest' /\ OrphansWereEvicted'
      BY <1>2, <2>1, <2>2, <2>4, <3>3 DEF ConnsRest, OrphansWereEvicted, Rests
    <3> QED BY <1>1, <1>5, <1>6, <3>5, <3>6, <3>7
  <2>5. CASE conn[p] # NoConn /\ conn[p].state # "syn"
    <3>1. conn' = conn
      BY <2>1, <2>5 DEF KernelReceive, StackTypeOK
    <3>2. StackTypeOK' /\ AcceptPlace' /\ ConnsRest' /\ OrphansWereEvicted'
      BY <1>1, <1>2, <3>1
         DEF StackTypeOK, Injective, AcceptPlace, AcceptAt, ConnsRest, Rests, OrphansWereEvicted
    <3> QED BY <1>1, <1>5, <1>6, <3>2
  <2> QED BY <2>3, <2>4, <2>5
<1> QED BY <1>7, <1>8

(* LookupBack returned to tunLoop. *)
LEMMA TunReplyKeeps ==
  ASSUME StackInv, TunReply
  PROVE  StackInv'
<1> USE StackAssumption DEF StackInv
<1>1. CallType' /\ call'[Tun] = Idle /\ call'[Accept] = call[Accept]
  BY CallUpdate DEF TunReply, Return
<1>2. cur' = NoPacket /\ UNCHANGED <<table, tunIn, conn, accepting>>
  BY DEF TunReply, Return
<1>3. StackTypeOK' /\ TunPlace' /\ AcceptPlace'
  BY <1>1, <1>2 DEF StackTypeOK, Injective, TunPlace, TunAt, AcceptPlace, AcceptAt
<1>4. PacketsRest' /\ CurRests' /\ ConnsRest' /\ OrphansWereEvicted'
  BY <1>2 DEF PacketsRest, CurRests, ConnsRest, Rests, OrphansWereEvicted, NoPacket
<1> QED BY <1>1, <1>3, <1>4
-----------------------------------------------------------------------------
(* acceptLoop takes a connection. *)
LEMMA AcceptConnKeeps ==
  ASSUME StackInv, NEW p \in Ports, AcceptConn(p)
  PROVE  StackInv'
<1> USE StackAssumption DEF StackInv
<1>1. PICK v : call' = [call EXCEPT ![Accept] = v]
  BY DEF AcceptConn, Call
<1>2. CallType' /\ call'[Tun] = call[Tun]
  BY <1>1, CallUpdate
<1>3. /\ accepting' = p /\ conn[p].state = "ready"
      /\ call'[Accept] = [phase |-> "back", port |-> p]
      /\ UNCHANGED <<table, tunIn, cur, conn>>
  BY DEF AcceptConn, Call
<1>4. StackTypeOK' /\ TunPlace' /\ AcceptPlace'
  BY <1>2, <1>3 DEF StackTypeOK, Injective, TunPlace, TunAt, AcceptPlace, AcceptAt, Rests
<1>5. PacketsRest' /\ CurRests' /\ ConnsRest' /\ OrphansWereEvicted'
  BY <1>3 DEF PacketsRest, CurRests, ConnsRest, Rests, OrphansWereEvicted
<1> QED BY <1>2, <1>4, <1>5

(* LookupBack returned to acceptLoop: what it holds, and what it was told. *)
LEMMA AcceptKnows ==
  ASSUME StackInv, AcceptDone
  PROVE  /\ accepting \in Ports /\ conn[accepting] \in Conns
         /\ conn[accepting].state = "ready"
         /\ call[Accept].key = conn[accepting].flow \/ conn[accepting].lost
<1>1. call[Accept].phase = "answered"
  BY DEF AcceptDone
<1>2. accepting \in Ports /\ conn[accepting].state = "ready"
  BY <1>1 DEF StackInv, AcceptPlace, AcceptAt, Idle
<1>3. conn[accepting] \in Conns
  BY <1>2, ConnTyped DEF StackInv, NoConn
<1>4. PICK k \in Keys \cup {NoKey} :
         /\ call[Accept] = [phase |-> "answered", key |-> k]
         /\ k = conn[accepting].flow \/ conn[accepting].lost
  BY <1>1 DEF StackInv, AcceptPlace, AcceptAt, Idle
<1>5. call[Accept].key = k
  BY <1>4
<1> QED BY <1>2, <1>3, <1>4, <1>5

LEMMA AcceptDoneKeeps ==
  ASSUME StackInv, AcceptDone
  PROVE  StackInv'
<1> USE StackAssumption DEF StackInv
<1>1. CallType' /\ call'[Accept] = Idle /\ call'[Tun] = call[Tun]
  BY CallUpdate DEF AcceptDone, Return
<1>2. accepting' = NoPort /\ UNCHANGED <<table, tunIn, cur>>
  BY DEF AcceptDone, Return
<1> DEFINE p == accepting
<1>3. /\ p \in Ports /\ conn[p] \in Conns
      /\ call[Accept].key = conn[p].flow \/ conn[p].lost
  BY AcceptKnows
<1>4. /\ \A q \in Ports \ {p} : conn'[q] = conn[q]
      /\ conn'[p] = [conn[p] EXCEPT !.state =
                       IF call[Accept].key = NoKey THEN "orphan" ELSE "open"]
      /\ conn' = [conn EXCEPT ![p] = conn'[p]]
  BY <1>3 DEF AcceptDone, StackTypeOK
<1>5. /\ conn'[p] \in Conns
      /\ conn'[p].flow = conn[p].flow /\ conn'[p].lost = conn[p].lost
      /\ conn'[p].state = "orphan" => call[Accept].key = NoKey
  BY <1>3, <1>4 DEF Conns
<1>6. conn[p].flow \in Keys /\ conn[p] # NoConn
  BY <1>3 DEF Conns, NoConn
<1>7. StackTypeOK'
  BY <1>2, <1>4, <1>5 DEF StackTypeOK, Injective
<1>8. TunPlace' /\ AcceptPlace'
  BY <1>1, <1>2 DEF TunPlace, TunAt, AcceptPlace, AcceptAt, Rests
<1>9. PacketsRest' /\ CurRests'
  BY <1>2 DEF PacketsRest, CurRests, Rests
<1>10. ConnsRest'
  <2> SUFFICES ASSUME NEW q \in Ports, conn'[q] # NoConn
               PROVE  Rests(conn[q].flow, q, conn[q].lost)'
    BY DEF ConnsRest
  <2>1. conn[q] # NoConn /\ conn'[q].flow = conn[q].flow /\ conn'[q].lost = conn[q].lost
    BY <1>4, <1>5, <1>6
  <2>2. Rests(conn[q].flow, q, conn[q].lost)
    BY <2>1 DEF ConnsRest
  <2> QED BY <1>2, <2>1, <2>2 DEF Rests
<1>11. OrphansWereEvicted'
  BY <1>3, <1>4, <1>5, <1>6 DEF OrphansWereEvicted
<1> QED BY <1>1, <1>7, <1>8, <1>9, <1>10, <1>11

(* A connection closes. *)
LEMMA ConnClosesKeeps ==
  ASSUME StackInv, NEW p \in Ports, ConnCloses(p)
  PROVE  StackInv'
<1> USE StackAssumption DEF StackInv
<1>1. /\ conn' = [conn EXCEPT ![p] = NoConn] /\ conn[p].state \in {"open", "orphan"}
      /\ UNCHANGED <<table, call, tunIn, cur, accepting>>
  BY DEF ConnCloses
<1>2. conn'[p] = NoConn /\ \A q \in Ports \ {p} : conn'[q] = conn[q]
  BY <1>1 DEF StackTypeOK
<1>3. StackTypeOK'
  BY <1>1 DEF StackTypeOK, Injective
<1>4. CallType' /\ TunPlace' /\ PacketsRest' /\ CurRests'
  BY <1>1 DEF CallType, TunPlace, TunAt, PacketsRest, CurRests, Rests
<1>5. AcceptPlace'
  BY <1>1, <1>2 DEF AcceptPlace, AcceptAt
<1>6. ConnsRest'
  BY <1>1, <1>2 DEF ConnsRest, Rests
<1>7. OrphansWereEvicted'
  BY <1>2 DEF OrphansWereEvicted, NoConn
<1> QED BY <1>3, <1>4, <1>5, <1>6, <1>7
-----------------------------------------------------------------------------
(* Which call a goroutine is in says which packet or connection it has. *)
LEMMA LookupOf ==
  ASSUME NEW c, TunAt(c), c.phase = "lookup"
  PROVE  cur.kind = "out" /\ c.key = cur.flow
  BY DEF TunAt, Idle

LEMMA LookupBackOf ==
  ASSUME NEW c, TunAt(c), c.phase = "back"
  PROVE  cur.kind = "back" /\ c.port = cur.port
  BY DEF TunAt, Idle

LEMMA LookupBackOfConn ==
  ASSUME NEW c, AcceptAt(c), c.phase = "back"
  PROVE  accepting \in Ports /\ conn[accepting].state = "ready" /\ c.port = accepting
  BY DEF AcceptAt, Idle

LEMMA CurTyped ==
  ASSUME StackTypeOK, cur.kind # "none"
  PROVE  cur \in Packets
  BY DEF StackTypeOK, NoPacket

(* A binding that stands outlives every answer of Lookup: only a flow
   without a port gets one, and it gets one that is free. *)
LEMMA LookupBinds ==
  ASSUME StackInv, AnswerLookup(Tun), NEW k \in Keys, call[Tun].key = k
  PROVE  /\ table' \in [Keys -> Ports \cup {NoPort}] /\ Injective'
         /\ \A f \in Keys, p \in Ports : table[f] = p => table'[f] = p
         /\ \E p \in Ports \cup {NoPort} :
              /\ call' = [call EXCEPT ![Tun] = [phase |-> "answered", port |-> p]]
              /\ p # NoPort => table'[k] = p
<1> USE StackAssumption DEF StackInv, StackTypeOK
<1>1. CASE /\ table[k] # NoPort
           /\ call' = [call EXCEPT ![Tun] = [phase |-> "answered", port |-> table[k]]]
           /\ UNCHANGED table
  BY <1>1 DEF Injective
<1>2. CASE /\ table[k] = NoPort
           /\ call' = [call EXCEPT ![Tun] = [phase |-> "answered", port |-> NoPort]]
           /\ UNCHANGED table
  BY <1>2 DEF Injective
<1>3. CASE /\ table[k] = NoPort
           /\ \E p \in Ports :
                /\ ~Bound(p)
                /\ table' = [table EXCEPT ![k] = p]
                /\ call' = [call EXCEPT ![Tun] = [phase |-> "answered", port |-> p]]
  <2>1. PICK p \in Ports : /\ ~Bound(p)
                           /\ table' = [table EXCEPT ![k] = p]
                           /\ call' = [call EXCEPT ![Tun] = [phase |-> "answered", port |-> p]]
    BY <1>3
  <2>2. table'[k] = p /\ \A j \in Keys \ {k} : table'[j] = table[j] /\ table[j] # p
    BY <2>1 DEF Bound
  <2>3. Injective'
    BY <2>2 DEF Injective
  <2> QED BY <1>3, <2>1, <2>2, <2>3
<1> QED BY <1>1, <1>2, <1>3 DEF AnswerLookup

LEMMA AnswerLookupKeeps ==
  ASSUME StackInv, AnswerLookup(Tun), UNCHANGED <<tunIn, cur, conn, accepting>>
  PROVE  StackInv'
<1> USE StackAssumption DEF StackInv
<1>1. /\ cur.kind = "out" /\ call[Tun].key = cur.flow
      /\ cur \in Packets /\ cur.flow \in Keys
  <2>1. call[Tun].phase = "lookup"
    BY DEF AnswerLookup
  <2> QED BY <2>1, LookupOf, CurTyped, PacketTyped DEF TunPlace
<1> DEFINE k == cur.flow
<1>2. /\ table' \in [Keys -> Ports \cup {NoPort}] /\ Injective'
      /\ \A f \in Keys, p \in Ports : table[f] = p => table'[f] = p
      /\ \E p \in Ports \cup {NoPort} :
           /\ call' = [call EXCEPT ![Tun] = [phase |-> "answered", port |-> p]]
           /\ p # NoPort => table'[k] = p
  BY <1>1, LookupBinds
<1>3. PICK p \in Ports \cup {NoPort} :
         /\ call' = [call EXCEPT ![Tun] = [phase |-> "answered", port |-> p]]
         /\ p # NoPort => table'[k] = p
  BY <1>2
<1>4. /\ CallType' /\ call'[Tun] = [phase |-> "answered", port |-> p]
      /\ call'[Accept] = call[Accept]
  BY <1>3, CallUpdate
<1>5. StackTypeOK'
  BY <1>2 DEF StackTypeOK
<1>6. TunPlace'
  BY <1>1, <1>3, <1>4 DEF TunPlace, TunAt, Rests
<1>7. AcceptPlace' /\ OrphansWereEvicted'
  BY <1>4 DEF AcceptPlace, AcceptAt, OrphansWereEvicted
<1>8. PacketsRest'
  <2> SUFFICES ASSUME NEW pkt \in tunIn, pkt.kind = "back"
               PROVE  pkt.lost \/ table'[pkt.flow] = pkt.port
    BY DEF PacketsRest, Rests
  <2>1. pkt.flow \in Keys /\ pkt.port \in Ports
    BY PacketTyped DEF StackTypeOK
  <2>2. pkt.lost \/ table[pkt.flow] = pkt.port
    BY DEF PacketsRest, Rests
  <2> QED BY <1>2, <2>1, <2>2
<1>9. CurRests'
  BY <1>1 DEF CurRests
<1>10. ConnsRest'
  <2> SUFFICES ASSUME NEW q \in Ports, conn[q] # NoConn
               PROVE  conn[q].lost \/ table'[conn[q].flow] = q
    BY DEF ConnsRest, Rests
  <2>1. conn[q].flow \in Keys
    BY ConnTyped
  <2>2. conn[q].lost \/ table[conn[q].flow] = q
    BY DEF ConnsRest, Rests
  <2> QED BY <1>2, <2>1, <2>2
<1> QED BY <1>4, <1>5, <1>6, <1>7, <1>8, <1>9, <1>10

(* What LookupBack answers to either goroutine is the flow that the packet or
   the connection belongs to, or its binding was lost. *)
LEMMA AnswerBackTunKeeps ==
  ASSUME StackInv, AnswerBack(Tun), UNCHANGED <<tunIn, cur, conn, accepting>>
  PROVE  StackInv'
<1> USE StackAssumption DEF StackInv
<1> DEFINE k == Owner(cur.port)
<1>1. /\ cur \in Packets /\ cur.kind = "back" /\ call[Tun].port = cur.port
  <2>1. call[Tun].phase = "back"
    BY DEF AnswerBack
  <2> QED BY <2>1, LookupBackOf, CurTyped DEF TunPlace
<1>2. cur.flow \in Keys /\ cur.port \in Ports
  BY <1>1, PacketTyped
<1>3. k \in Keys \cup {NoKey}
  BY <1>2, OwnerTyped
<1>4. k = cur.flow \/ cur.lost
  <2>1. cur.lost \/ table[cur.flow] = cur.port
    BY <1>1 DEF CurRests, Rests
  <2> QED BY <1>2, <2>1, OwnerOfBinding DEF StackTypeOK
<1>5. UNCHANGED table /\ call' = [call EXCEPT ![Tun] = [phase |-> "answered", key |-> k]]
  BY <1>1 DEF AnswerBack
<1>6. /\ CallType' /\ call'[Tun] = [phase |-> "answered", key |-> k]
      /\ call'[Accept] = call[Accept]
  BY <1>5, CallUpdate
<1>7. TunPlace'
  BY <1>1, <1>3, <1>4, <1>6 DEF TunPlace, TunAt
<1>8. StackTypeOK' /\ AcceptPlace' /\ OrphansWereEvicted'
  BY <1>5, <1>6 DEF StackTypeOK, Injective, AcceptPlace, AcceptAt, OrphansWereEvicted
<1>9. PacketsRest' /\ CurRests' /\ ConnsRest'
  BY <1>5 DEF PacketsRest, CurRests, ConnsRest, Rests
<1> QED BY <1>6, <1>7, <1>8, <1>9

LEMMA AnswerBackAcceptKeeps ==
  ASSUME StackInv, AnswerBack(Accept), UNCHANGED <<tunIn, cur, conn, accepting>>
  PROVE  StackInv'
<1> USE StackAssumption DEF StackInv
<1> DEFINE k == Owner(accepting)
<1>1. /\ accepting \in Ports /\ conn[accepting].state = "ready"
      /\ call[Accept].port = accepting
  <2>1. call[Accept].phase = "back"
    BY DEF AnswerBack
  <2> QED BY <2>1, LookupBackOfConn DEF AcceptPlace
<1>2. conn[accepting] # NoConn
  BY <1>1 DEF NoConn
<1>3. conn[accepting].flow \in Keys
  BY <1>1, <1>2, ConnTyped
<1>4. k \in Keys \cup {NoKey}
  BY <1>1, OwnerTyped
<1>5. k = conn[accepting].flow \/ conn[accepting].lost
  <2>1. conn[accepting].lost \/ table[conn[accepting].flow] = accepting
    BY <1>1, <1>2 DEF ConnsRest, Rests
  <2> QED BY <1>1, <1>3, <2>1, OwnerOfBinding DEF StackTypeOK
<1>6. UNCHANGED table /\ call' = [call EXCEPT ![Accept] = [phase |-> "answered", key |-> k]]
  BY <1>1 DEF AnswerBack
<1>7. /\ CallType' /\ call'[Accept] = [phase |-> "answered", key |-> k]
      /\ call'[Tun] = call[Tun]
  BY <1>6, CallUpdate
<1>8. AcceptPlace'
  BY <1>1, <1>4, <1>5, <1>7 DEF AcceptPlace, AcceptAt
<1>9. StackTypeOK' /\ TunPlace' /\ OrphansWereEvicted'
  BY <1>6, <1>7 DEF StackTypeOK, Injective, TunPlace, TunAt, OrphansWereEvicted, Rests
<1>10. PacketsRest' /\ CurRests' /\ ConnsRest'
  BY <1>6 DEF PacketsRest, CurRests, ConnsRest, Rests
<1> QED BY <1>7, <1>8, <1>9, <1>10
-----------------------------------------------------------------------------
(* The timeout loop: bindings go, and whatever rested on one knows it. *)
LEMMA EvictTable ==
  ASSUME StackTypeOK, NatEvict
  PROVE  /\ table' \in [Keys -> Ports \cup {NoPort}] /\ Injective'
         /\ UNCHANGED <<call, accepting>>
<1>1. PICK S \in SUBSET Keys :
         table' = [k \in Keys |-> IF k \in S THEN NoPort ELSE table[k]]
  BY DEF NatEvict, Evict
<1> QED BY <1>1 DEF NatEvict, Evict, StackTypeOK, Injective

LEMMA UnbindsSaysSo ==
  ASSUME NEW f \in Keys, NEW p \in Ports, NEW l, NEW m,
         Rests(f, p, l), m = (l \/ Unbinds(f, p))
  PROVE  m \/ table'[f] = p
  BY DEF Rests, Unbinds

LEMMA EvictConn ==
  ASSUME StackTypeOK, NatEvict, NEW p \in Ports
  PROVE  /\ conn[p] = NoConn => conn'[p] = NoConn
         /\ conn[p] # NoConn =>
              /\ conn'[p] \in Conns
              /\ conn'[p].state = conn[p].state /\ conn'[p].flow = conn[p].flow
              /\ conn'[p].lost = (conn[p].lost \/ Unbinds(conn[p].flow, p))
<1>1. conn'[p] = [conn[p] EXCEPT !.lost = conn[p].lost \/ Unbinds(conn[p].flow, p)]
  BY DEF NatEvict
<1>2. CASE conn[p] = NoConn
  <2>1. conn[p].lost = FALSE /\ ~Unbinds(conn[p].flow, p)
    BY <1>2, StackAssumption DEF NoConn, Unbinds
  <2>2. (conn[p].lost \/ Unbinds(conn[p].flow, p)) = FALSE
    BY <2>1
  <2>3. conn'[p] = [NoConn EXCEPT !.lost = FALSE]
    BY <1>1, <1>2, <2>2, Zenon
  <2>4. \A l : [[state |-> "none", flow |-> NoKey, lost |-> l] EXCEPT !.lost = l]
               = [state |-> "none", flow |-> NoKey, lost |-> l]
    OBVIOUS
  <2>5. [NoConn EXCEPT !.lost = FALSE] = NoConn
    BY <2>4, Zenon DEF NoConn
  <2> QED BY <1>2, <2>3, <2>5
<1>3. CASE conn[p] # NoConn
  <2>1. conn[p] \in Conns /\ conn[p].lost \in BOOLEAN
    BY <1>3, ConnTyped
  <2>2. (conn[p].lost \/ Unbinds(conn[p].flow, p)) \in BOOLEAN
    OBVIOUS
  <2> QED BY <1>1, <1>3, <2>1, <2>2 DEF Conns
<1> QED BY <1>2, <1>3

(* A packet, be it in the tun or in tunLoop's hands. *)
LEMMA EvictPacket ==
  ASSUME NEW pkt \in Packets, NEW m \in BOOLEAN
  PROVE  /\ [pkt EXCEPT !.lost = m] \in Packets
         /\ [pkt EXCEPT !.lost = m].kind = pkt.kind
         /\ [pkt EXCEPT !.lost = m].flow = pkt.flow
         /\ [pkt EXCEPT !.lost = m].port = pkt.port
         /\ [pkt EXCEPT !.lost = m].lost = m
  BY DEF Packets

LEMMA NatEvictKeeps ==
  ASSUME StackInv, NatEvict
  PROVE  StackInv'
<1> USE StackAssumption
<1>1. /\ table' \in [Keys -> Ports \cup {NoPort}] /\ Injective'
      /\ UNCHANGED <<call, accepting>>
  BY EvictTable DEF StackInv
<1>2. \A p \in Ports :
        /\ conn[p] = NoConn => conn'[p] = NoConn
        /\ conn[p] # NoConn =>
             /\ conn'[p] \in Conns
             /\ conn'[p].state = conn[p].state /\ conn'[p].flow = conn[p].flow
             /\ conn'[p].lost = (conn[p].lost \/ Unbinds(conn[p].flow, p))
  BY EvictConn DEF StackInv
<1>3. conn' \in [Ports -> Conns \cup {NoConn}]
  <2>1. conn' = [p \in Ports |-> conn'[p]]
    BY DEF NatEvict
  <2> QED BY <1>2, <2>1
<1>4. ASSUME NEW new \in tunIn'
      PROVE  \E pkt \in tunIn :
               /\ pkt \in Packets /\ new \in Packets
               /\ new.kind = pkt.kind /\ new.flow = pkt.flow /\ new.port = pkt.port
               /\ new.lost = (pkt.lost \/ Unbinds(pkt.flow, pkt.port))
  <2>1. PICK pkt \in tunIn : new = [pkt EXCEPT !.lost = pkt.lost \/ Unbinds(pkt.flow, pkt.port)]
    BY DEF NatEvict
  <2>2. pkt \in Packets
    BY DEF StackInv, StackTypeOK
  <2>3. (pkt.lost \/ Unbinds(pkt.flow, pkt.port)) \in BOOLEAN
    OBVIOUS
  <2> QED BY <2>1, <2>2, <2>3, EvictPacket
<1>5. PacketsRest' /\ tunIn' \subseteq Packets
  <2> SUFFICES ASSUME NEW new \in tunIn'
               PROVE  new \in Packets /\ (new.kind = "back" => new.lost \/ table'[new.flow] = new.port)
    BY DEF PacketsRest, Rests
  <2>1. PICK pkt \in tunIn :
           /\ pkt \in Packets /\ new \in Packets
           /\ new.kind = pkt.kind /\ new.flow = pkt.flow /\ new.port = pkt.port
           /\ new.lost = (pkt.lost \/ Unbinds(pkt.flow, pkt.port))
    BY <1>4
  <2>2. ASSUME pkt.kind = "back" PROVE new.lost \/ table'[pkt.flow] = pkt.port
    <3>1. pkt.flow \in Keys /\ pkt.port \in Ports
      BY <2>1, <2>2, PacketTyped
    <3>2. Rests(pkt.flow, pkt.port, pkt.lost)
      BY <2>2 DEF StackInv, PacketsRest
    <3> QED BY <2>1, <3>1, <3>2, UnbindsSaysSo
  <2> QED BY <2>1, <2>2
<1>6. ConnsRest'
  <2> SUFFICES ASSUME NEW p \in Ports, conn'[p] # NoConn
               PROVE  conn'[p].lost \/ table'[conn'[p].flow] = p
    BY DEF ConnsRest, Rests
  <2>1. conn[p] # NoConn /\ conn[p].flow \in Keys
    BY <1>2, ConnTyped DEF StackInv
  <2>2. Rests(conn[p].flow, p, conn[p].lost)
    BY <2>1 DEF StackInv, ConnsRest
  <2> QED BY <1>2, <2>1, <2>2, UnbindsSaysSo
<1>7. OrphansWereEvicted'
  <2> SUFFICES ASSUME NEW p \in Ports, conn'[p].state = "orphan"
               PROVE  conn'[p].lost
    BY DEF OrphansWereEvicted
  <2>1. conn'[p] # NoConn
    BY DEF NoConn
  <2>2. conn[p].state = "orphan" /\ conn'[p].lost = (conn[p].lost \/ Unbinds(conn[p].flow, p))
    BY <1>2, <2>1
  <2> QED BY <2>2 DEF StackInv, OrphansWereEvicted
<1>8. AcceptPlace'
  <2>1. ASSUME accepting \in Ports, conn[accepting].state = "ready"
        PROVE  /\ conn'[accepting].state = "ready"
               /\ conn'[accepting].flow = conn[accepting].flow
               /\ conn[accepting].lost => conn'[accepting].lost
    <3>1. conn[accepting] # NoConn
      BY <2>1 DEF NoConn
    <3> QED BY <1>2, <2>1, <3>1
  <2> QED BY <1>1, <2>1 DEF StackInv, AcceptPlace, AcceptAt
<1> DEFINE on == IF cur.kind = "out" /\ call[Tun].phase = "answered"
                 THEN call[Tun].port ELSE cur.port
           m == cur.lost \/ Unbinds(cur.flow, on)
<1>9. cur' = [cur EXCEPT !.lost = m] /\ m \in BOOLEAN
  BY DEF NatEvict
<1>10. CASE cur = NoPacket
  <2>1. cur.lost = FALSE /\ ~Unbinds(cur.flow, on)
    BY <1>10 DEF NoPacket, Unbinds
  <2>2. m = FALSE
    BY <2>1
  <2>3. cur' = NoPacket
    BY <1>9, <1>10, <2>2 DEF NoPacket
  <2>4. TunPlace' /\ CurRests'
    BY <1>1, <1>10, <2>3 DEF StackInv, TunPlace, TunAt, CurRests, NoPacket
  <2> QED BY <1>1, <1>3, <1>5, <1>6, <1>7, <1>8, <2>3, <2>4
          DEF StackInv, StackTypeOK, CallType
<1>11. CASE cur # NoPacket
  <2>1. cur \in Packets
    BY <1>11 DEF StackInv, StackTypeOK
  <2>2. /\ cur' \in Packets /\ cur'.kind = cur.kind /\ cur'.flow = cur.flow
        /\ cur'.port = cur.port /\ cur'.lost = m
    BY <1>9, <2>1, EvictPacket
  <2>3. cur.flow \in Keys /\ cur.kind \in {"out", "back"}
    BY <2>1, PacketTyped
  <2>4. CurRests'
    <3> SUFFICES ASSUME cur.kind = "back"
                 PROVE  cur'.lost \/ table'[cur.flow] = cur.port
      BY <2>2 DEF CurRests, Rests
    <3>1. cur.port \in Ports /\ on = cur.port
      BY <2>1, PacketTyped
    <3>2. Rests(cur.flow, cur.port, cur.lost)
      BY DEF StackInv, CurRests
    <3> QED BY <2>2, <2>3, <3>1, <3>2, UnbindsSaysSo
  <2>5. TunPlace'
    <3> DEFINE c == call[Tun]
    <3>1. c' = c
      BY <1>1
    <3>2. ASSUME NEW p \in Ports, c = [phase |-> "answered", port |-> p], cur.kind = "out",
                 Rests(cur.flow, p, cur.lost)
          PROVE  cur'.lost \/ table'[cur'.flow] = p
      <4>1. on = p
        BY <3>2
      <4> QED BY <2>2, <2>3, <3>2, <4>1, UnbindsSaysSo
    <3>3. cur.lost => cur'.lost
      BY <2>2
    <3> QED BY <1>11, <2>2, <3>1, <3>2, <3>3 DEF StackInv, TunPlace, TunAt, Rests
  <2> QED BY <1>1, <1>3, <1>5, <1>6, <1>7, <1>8, <2>2, <2>4, <2>5
          DEF StackInv, StackTypeOK, CallType
<1> QED BY <1>10, <1>11
-----------------------------------------------------------------------------
LEMMA StackStepKeeps ==
  ASSUME StackInv, [StackNext]_allVars
  PROVE  StackInv'
<1>1. CASE \E f \in Keys : AppSend(f)
  BY <1>1, AppSendKeeps
<1>2. CASE \E p \in Ports : KernelSend(p) \/ AcceptConn(p) \/ ConnCloses(p)
  BY <1>2, KernelSendKeeps, AcceptConnKeeps, ConnClosesKeeps
<1>3. CASE \E pkt \in tunIn : TunRead(pkt)
  BY <1>3, TunReadKeeps
<1>4. CASE TunForward \/ TunReply \/ AcceptDone
  BY <1>4, TunForwardKeeps, TunReplyKeeps, AcceptDoneKeeps
<1>5. CASE NatAnswer
  BY <1>5, AnswerLookupKeeps, AnswerBackTunKeeps, AnswerBackAcceptKeeps DEF NatAnswer
<1>6. CASE NatEvict
  BY <1>6, NatEvictKeeps
<1>7. CASE UNCHANGED allVars
  <2> USE <1>7 DEF allVars, StackInv
  <2>1. StackTypeOK' /\ CallType'
    BY DEF StackTypeOK, Injective, CallType
  <2>2. TunPlace' /\ AcceptPlace'
    BY DEF TunPlace, TunAt, AcceptPlace, AcceptAt, Rests
  <2>3. PacketsRest' /\ CurRests' /\ ConnsRest' /\ OrphansWereEvicted'
    BY DEF PacketsRest, CurRests, ConnsRest, Rests, OrphansWereEvicted
  <2> QED BY <2>1, <2>2, <2>3
<1> QED BY <1>1, <1>2, <1>3, <1>4, <1>5, <1>6, <1>7 DEF StackNext

(* The stack keeps its invariant: the two goroutines, the packets in flight
   and the kernel's connections rest on bindings of the NAT (processIPv4TCP,
   acceptLoop). *)
THEOREM StackInvariant == StackSpec => []StackInv
<1>1. StackInit => StackInv
  BY InitStackInv
<1>2. StackInv /\ [StackNext]_allVars => StackInv'
  BY StackStepKeeps
<1> QED BY <1>1, <1>2, PTL DEF StackSpec

(* acceptLoop abandons a connection only when the NAT evicted its binding,
   for any flows, ports and number of packets in the tun. *)
THEOREM OrphansTheorem == StackSpec => []OrphansWereEvicted
<1>1. StackInv => OrphansWereEvicted
  BY DEF StackInv
<1> QED BY <1>1, StackInvariant, PTL

(* The handler is told the flow that opened the connection, or its binding
   was evicted: acceptLoop's only step to "open" is after its LookupBack. *)
LEMMA HandlerStep ==
  ASSUME StackInv, [StackNext]_allVars, NEW p \in Ports,
         conn[p].state = "ready", conn'[p].state = "open"
  PROVE  call[Accept].key = conn[p].flow \/ conn[p].lost
<1> USE DEF StackInv
<1>1. conn' # conn /\ conn[p] # NoConn
  BY DEF NoConn
<1>2. ~ \E f \in Keys : AppSend(f)
  BY <1>1 DEF AppSend, Arrives
<1>3. ~ \E q \in Ports : KernelSend(q) \/ AcceptConn(q)
  BY <1>1 DEF KernelSend, Arrives, AcceptConn
<1>4. ~ \E q \in Ports : ConnCloses(q)
  <2> SUFFICES ASSUME NEW q \in Ports, ConnCloses(q) PROVE FALSE
    OBVIOUS
  <2>1. conn'[p] \in {conn[p], NoConn}
    BY DEF ConnCloses, StackTypeOK
  <2> QED BY <2>1 DEF NoConn
<1>5. ~ \E pkt \in tunIn : TunRead(pkt)
  BY <1>1 DEF TunRead
<1>6. ~ (TunReply \/ NatAnswer \/ UNCHANGED allVars)
  BY <1>1 DEF TunReply, NatAnswer, allVars
<1>7. ~ TunForward
  <2> SUFFICES ASSUME TunForward PROVE FALSE
    OBVIOUS
  <2>1. PICK q : KernelReceive(q, cur.flow, cur.lost)
    BY <1>1 DEF TunForward
  <2>2. conn'[p] = conn[p]
    BY <1>1, <2>1 DEF KernelReceive, StackTypeOK
  <2> QED BY <2>2
<1>8. ~ NatEvict
  BY <1>1, EvictConn
<1>9. AcceptDone
  BY <1>2, <1>3, <1>4, <1>5, <1>6, <1>7, <1>8 DEF StackNext
<1>10. /\ accepting \in Ports
       /\ call[Accept].key = conn[accepting].flow \/ conn[accepting].lost
  BY <1>9, AcceptKnows
<1>11. p = accepting
  BY <1>9, <1>10 DEF AcceptDone, StackTypeOK
<1> QED BY <1>10, <1>11

(* acceptLoop hands each connection over under the addresses of the flow that
   opened it, or of one whose binding was evicted. *)
THEOREM HandlerTheorem == StackSpec => HandlerSeesOpener
<1>1. StackInv /\ [StackNext]_allVars =>
        [\A p \in Ports : conn[p].state = "ready" /\ conn'[p].state = "open" =>
            call[Accept].key = conn[p].flow \/ conn[p].lost]_allVars
  BY HandlerStep
<1> QED BY <1>1, StackInvariant, PTL DEF StackSpec, HandlerSeesOpener

(* A packet from the kernel is given to the flow that opened its connection,
   or to nobody, or the binding was evicted (processIPv4TCP's LookupBack). *)
LEMMA AnswerOf ==
  ASSUME NEW c, TunAt(c), c.phase = "answered", cur.kind = "back"
  PROVE  c.key = cur.flow \/ cur.lost
<1>1. PICK k \in Keys \cup {NoKey} :
         /\ c = [phase |-> "answered", key |-> k]
         /\ k = cur.flow \/ cur.lost
  BY DEF TunAt, NoPacket
<1>2. c.key = k
  BY <1>1
<1> QED BY <1>1, <1>2

LEMMA ReplyStep ==
  ASSUME StackInv, [StackNext]_allVars, cur.kind = "back", cur' = NoPacket
  PROVE  call[Tun].key = cur.flow \/ cur.lost
<1> USE DEF StackInv
<1>1. cur' # cur /\ cur # NoPacket /\ cur \in Packets
  BY DEF NoPacket, StackTypeOK
<1>2. ~ \E f \in Keys : AppSend(f)
  BY <1>1 DEF AppSend, Arrives
<1>3. ~ \E q \in Ports : KernelSend(q) \/ AcceptConn(q) \/ ConnCloses(q)
  BY <1>1 DEF KernelSend, Arrives, AcceptConn, ConnCloses
<1>4. ~ \E pkt \in tunIn : TunRead(pkt)
  BY <1>1 DEF TunRead
<1>5. ~ (TunForward \/ AcceptDone \/ NatAnswer \/ UNCHANGED allVars)
  BY <1>1 DEF TunForward, AcceptDone, NatAnswer, allVars
<1>6. ~ NatEvict
  <2> SUFFICES ASSUME NatEvict PROVE FALSE
    OBVIOUS
  <2>1. PICK m \in BOOLEAN : cur' = [cur EXCEPT !.lost = m]
    BY DEF NatEvict
  <2>2. cur' \in Packets
    BY <1>1, <2>1, EvictPacket
  <2> QED BY <2>2, PacketTyped
<1>7. TunReply
  BY <1>2, <1>3, <1>4, <1>5, <1>6 DEF StackNext
<1> QED BY <1>7, AnswerOf DEF TunReply, TunPlace

(* tunLoop sends what the kernel answers to the flow that opened the
   connection, or nowhere, or the binding was evicted. *)
THEOREM ReplyTheorem == StackSpec => ReplyReachesOpener
<1>1. StackInv /\ [StackNext]_allVars =>
        [cur.kind = "back" /\ cur' = NoPacket /\ call[Tun].key # NoKey =>
            call[Tun].key = cur.flow \/ cur.lost]_allVars
  BY ReplyStep
<1> QED BY <1>1, StackInvariant, PTL DEF StackSpec, ReplyReachesOpener
=============================================================================
