------------------------------ MODULE Dispatch ------------------------------
(***************************************************************************)
(* What each stack does with a packet the device has read: processPacket of *)
(* the system and the mixed stack, the filter in front of gVisor's stack    *)
(* and the UDP forwarders behind it, Mipstack's (stack_system.go,           *)
(* stack_mixed.go, stack_gvisor_filter.go, stack_gvisor_udp.go,             *)
(* stack_mipstack_udp.go), and the datagrams the handler answers with.      *)
(*                                                                          *)
(* The read buffer holds one packet and is used again for the next one; the *)
(* writer made for a client outlives it.                                    *)
(***************************************************************************)
EXTENDS Integers, FiniteSets

CONSTANTS
  Clients4, Clients6,  \* the clients of either family, address and port
  None

Clients == Clients4 \cup Clients6

\* The families are told apart, and no client is a name the model uses.
ClientAssumption ==
  Clients4 \cap Clients6 = {} /\ None \notin Clients /\ "buffer" \notin Clients

Stacks == {"system", "mixed", "gvisor", "mipstack"}

\* A packet: its IP version, whether its header is valid, the kind of its
\* destination, its transport protocol and whether extension headers stand before
\* that (in an IPv6 fragment: behind the fragment header), and for UDP whether
\* there is payload.  tcp says what the NAT knows of a segment: a flow it has or can
\* open, one it has no port for, or a segment of the stack's own listener with a
\* session or without.
Packets ==
  {p \in [version : {4, 6, 0}, valid : BOOLEAN, client : Clients,
          dst : {"unicast", "broadcast", "multicast", "loopback"},
          proto : {"tcp", "udp", "icmp", "other"},
          tcp : {"flow", "full", "listener", "stranger"},
          fragment : {"none", "first", "later"}, ext : BOOLEAN, empty : BOOLEAN] :
     /\ p.version = 0 => ~p.valid
     /\ p.version = 6 <=> p.client \in Clients6
     /\ p.version = 6 => p.dst # "broadcast"
     /\ p.ext => p.version = 6 /\ p.valid /\ p.tcp = "flow"
     /\ ~p.valid => p.dst = "unicast" /\ p.proto = "udp" /\ p.fragment = "none"
     /\ p.tcp # "flow" => p.valid /\ p.proto = "tcp" /\ p.dst = "unicast" /\ p.fragment = "none"
     /\ p.empty => p.proto = "udp" /\ p.fragment = "none"}

VARIABLES
  stack, families,  \* the families the stack has an address of
  buffer,           \* the packet in the read buffer, or None
  fate,             \* what has become of it
  writers,          \* per client: the writer the handler keeps, or None
  sent              \* the last datagram written for the handler, or None

vars == <<stack, families, buffer, fate, writers, sent>>

Fates == {"new", "drop", "reflect", "back", "reset", "tcp", "udp", "icmp", "stack"}
Destinations == {"inet4", "inet6", "domain"}
Sources == {"inet4", "inet6", "mapped", "cut", "overlaid", "client"}

TypeOK ==
  /\ stack \in Stacks /\ families \subseteq {4, 6} /\ fate \in Fates
  /\ buffer = None \/ buffer \in Packets
  /\ \A c \in Clients : writers[c] = None \/ writers[c] \in Clients \cup {"buffer"}
  /\ sent = None \/ sent \in [for : Clients, to : Clients, from : Sources, answer : Destinations]

Init ==
  /\ stack \in Stacks /\ families \in (SUBSET {4, 6}) \ {{}}
  /\ buffer = None /\ fate = "new"
  /\ writers = [c \in Clients |-> None] /\ sent = None
-----------------------------------------------------------------------------
Unicast(p) == p.dst \in {"unicast", "loopback"}

\* header.IPv6.TransportProtocol: the first header behind the IPv6 header.
TransportProtocol6(p) == IF p.ext \/ p.fragment # "none" THEN "other" ELSE p.proto

\* processIPv4UDP and processIPv6UDP drop fragments and empty datagrams.
SystemUDP4(p) == IF p.fragment # "none" \/ p.empty THEN "drop" ELSE "udp"
SystemUDP6(p) == IF p.empty THEN "drop" ELSE "udp"

\* processIPv4TCP and processIPv6TCP: to the client of a session, back to where it
\* came from, to the listener, or a reset.
TCPFate(p) ==
  CASE p.tcp = "listener" -> "back"
    [] p.tcp = "stranger" -> "drop"
    [] p.tcp = "full" /\ p.dst # "loopback" -> "reset"
    [] OTHER -> IF p.dst = "loopback" THEN "back" ELSE "tcp"

SystemTCP4(p) == IF 4 \notin families \/ ~Unicast(p) THEN "drop" ELSE TCPFate(p)
SystemTCP6(p) == IF 6 \notin families \/ ~Unicast(p) THEN "drop" ELSE TCPFate(p)

SystemIPv4(p) ==
  IF ~Unicast(p) THEN "drop"
  ELSE CASE p.proto = "tcp" -> SystemTCP4(p)
         [] p.proto = "udp" -> SystemUDP4(p)
         [] p.proto = "icmp" -> "icmp"
         [] OTHER -> "reflect"

SystemIPv6(p) ==
  IF ~Unicast(p) THEN "drop"
  ELSE CASE TransportProtocol6(p) = "tcp" -> SystemTCP6(p)
         [] TransportProtocol6(p) = "udp" -> SystemUDP6(p)
         [] TransportProtocol6(p) = "icmp" -> "icmp"
         [] OTHER -> "reflect"

SystemPacket(p) ==
  IF ~p.valid THEN "drop" ELSE IF p.version = 4 THEN SystemIPv4(p) ELSE SystemIPv6(p)

\* The mixed stack reflects what the system stack drops, and injects UDP.
MixedIPv4(p) ==
  IF ~Unicast(p) THEN "reflect"
  ELSE CASE p.proto = "tcp" -> SystemTCP4(p)
         [] p.proto = "udp" -> "stack"
         [] p.proto = "icmp" -> "icmp"
         [] OTHER -> "reflect"

\* slip: UDP takes the way of unknown protocols
MixedIPv6Reflects(p) ==
  IF ~Unicast(p) THEN "reflect"
  ELSE CASE TransportProtocol6(p) = "tcp" -> SystemTCP6(p)
         [] TransportProtocol6(p) = "icmp" -> "icmp"
         [] OTHER -> "reflect"

MixedIPv6(p) ==
  IF ~Unicast(p) THEN "reflect"
  ELSE CASE TransportProtocol6(p) = "tcp" -> SystemTCP6(p)
         [] TransportProtocol6(p) = "udp" -> "stack"
         [] TransportProtocol6(p) = "icmp" -> "icmp"
         [] OTHER -> "reflect"

MixedPacket(p) ==
  IF ~p.valid THEN "drop" ELSE IF p.version = 4 THEN MixedIPv4(p) ELSE MixedIPv6(p)

\* gVisor sees what the filter lets through and validates it by itself.
DeliverNetworkPacket(p) ==
  IF p.version = 0 THEN "drop" ELSE IF ~Unicast(p) THEN "reflect" ELSE "stack"

\* Mipstack reflects after a full check; TCP to a loopback address goes back too,
\* as far as it is found: a later fragment names the header it begins with.
MipsTCP(p) == p.proto = "tcp" /\ ~(p.fragment = "later" /\ p.ext)

MipsPacket(p) ==
  IF p.version = 0 THEN "drop"
  ELSE IF ~Unicast(p) THEN IF p.valid THEN "reflect" ELSE "drop"
  ELSE IF p.dst = "loopback" /\ p.valid /\ MipsTCP(p) THEN "reflect" ELSE "stack"

Fate(s, p) ==
  CASE s = "system" -> SystemPacket(p)
    [] s = "mixed" -> MixedPacket(p)
    [] s = "gvisor" -> DeliverNetworkPacket(p)
    [] s = "mipstack" -> MipsPacket(p)

\* The library stacks check the packet and look behind its extension headers;
\* fragments wait there for the others.
StackTakes(p) == p.valid /\ p.fragment = "none"

\* gVisor's forwarder and Mipstack's pass on every datagram the stack hands them,
\* an empty one too.
HandlePacket(p) == StackTakes(p) /\ p.proto = "udp"
forwardUDP(p) == StackTakes(p) /\ p.proto = "udp"

HandsOverUDP(s, p) ==
  \/ Fate(s, p) = "udp"
  \/ Fate(s, p) = "stack" /\ IF s = "mipstack" THEN forwardUDP(p) ELSE HandlePacket(p)

HandsOverTCP(s, p) ==
  \/ Fate(s, p) = "tcp"
  \/ Fate(s, p) = "stack" /\ StackTakes(p) /\ p.proto = "tcp"
-----------------------------------------------------------------------------
(* The next packet overwrites the read buffer. *)
Read ==
  /\ fate # "new" \/ buffer = None
  /\ \E p \in Packets : buffer' = p
  /\ fate' = "new" /\ sent' = None
  /\ UNCHANGED <<stack, families, writers>>

\* What a writer knows of its client: the system's copies the header of the
\* packet, gVisor's takes the addresses, Mipstack's the flow.
\* slip: the header stays in the read buffer
WriterAlias(p) == "buffer"
Writer(p) == p.client

\* The handler makes one writer per client, at the first datagram.
WithWriter(p) ==
  IF writers[p.client] = None THEN [writers EXCEPT ![p.client] = Writer(p)] ELSE writers

Process ==
  /\ fate = "new" /\ buffer # None
  /\ fate' = Fate(stack, buffer)
  /\ writers' = IF HandsOverUDP(stack, buffer) THEN WithWriter(buffer) ELSE writers
  /\ UNCHANGED <<stack, families, buffer, sent>>

\* forwardUDP gives up when the request cannot be detached.
DetachFails ==
  /\ fate = "new" /\ buffer # None /\ stack = "mipstack" /\ HandsOverUDP(stack, buffer)
  /\ fate' = "drop"
  /\ UNCHANGED <<stack, families, buffer, writers, sent>>

\* The source address of an answer.  The system's writers copy the bytes of the
\* address into the field: four of sixteen, four over sixteen, or none.
SystemSource(c, d) ==
  CASE d = "domain" -> "client"
    [] c \in Clients4 /\ d = "inet6" -> "cut"
    [] c \in Clients6 /\ d = "inet4" -> "overlaid"
    [] OTHER -> d

\* UDPBackWriter maps IPv4 addresses for IPv6 clients and refuses the rest.
UDPBackSource(c, d) ==
  CASE d = "domain" -> None
    [] c \in Clients6 /\ d = "inet4" -> "mapped"
    [] c \in Clients4 /\ d = "inet6" -> None
    [] OTHER -> d

\* mipsUDPWriter leaves the family to the library, which refuses another one.
MipsSource(c, d) ==
  IF d = "domain" \/ (d = "inet4") # (c \in Clients4) THEN None ELSE d

Source(c, d) ==
  CASE stack = "system" -> SystemSource(c, d)
    [] stack \in {"mixed", "gvisor"} -> UDPBackSource(c, d)
    [] stack = "mipstack" -> MipsSource(c, d)

WritePacket(c, d) ==
  /\ writers[c] # None
  /\ sent' = IF Source(c, d) = None THEN None
             ELSE [for |-> c, answer |-> d, from |-> Source(c, d),
                   to |-> IF writers[c] = "buffer" THEN buffer.client ELSE writers[c]]
  /\ UNCHANGED <<stack, families, buffer, fate, writers>>

Next == Read \/ Process \/ DetachFails \/ \E c \in Clients, d \in Destinations : WritePacket(c, d)

Spec == Init /\ [][Next]_vars
-----------------------------------------------------------------------------
(* Neither a packet to a broadcast or multicast address nor a broken one nor *)
(* a fragment gets to the handler as a datagram, whichever stack is used.    *)
OnlyWholeUnicast ==
  buffer # None =>
    \A s \in Stacks : HandsOverUDP(s, buffer) =>
      buffer.valid /\ Unicast(buffer) /\ buffer.fragment = "none"

\* The stacks that look behind the first header of an IPv6 packet.
Walks(s) == s \in {"gvisor", "mipstack"}

(* The stacks can be exchanged: a whole packet to a unicast address reaches  *)
(* the handler through all of them or none, except that the system stack     *)
(* drops empty datagrams and needs, for TCP, an address of the packet's      *)
(* family and a free port, and that the system and the mixed stack, which    *)
(* look at the first header only, both reflect an IPv6 packet with extension *)
(* headers, which gVisor and Mipstack both take.                             *)
StacksAgree ==
  buffer # None /\ buffer.valid /\ buffer.fragment = "none" /\ buffer.dst # "loopback" =>
    \A s, t \in Stacks : (buffer.ext => Walks(s) = Walks(t)) =>
      /\ ~buffer.empty => (HandsOverUDP(s, buffer) <=> HandsOverUDP(t, buffer))
      /\ buffer.version \in families /\ buffer.tcp = "flow" => (HandsOverTCP(s, buffer) <=> HandsOverTCP(t, buffer))

(* An answer goes to the client it was written for, however many packets of  *)
(* other clients have been through the read buffer since.                    *)
AnswersReachTheirClient == sent # None => sent.to = sent.for

(* It comes from the address the handler names, in the client's family, or   *)
(* is refused; the system stack does so for addresses of the client's family *)
(* only, the others it writes as far as they fit.                            *)
AnswersNameTheirSource ==
  sent # None =>
    \/ sent.from = sent.answer /\ (sent.answer = "inet4" <=> sent.for \in Clients4)
    \/ sent.from = "mapped" /\ sent.answer = "inet4" /\ sent.for \in Clients6
    \/ stack = "system" /\ sent.from \in {"cut", "overlaid", "client"}

(* The two together.                                                         *)
AnswersGoHome == AnswersReachTheirClient /\ AnswersNameTheirSource
=============================================================================
