----------------------------- MODULE RuleProofs -----------------------------
(***************************************************************************)
(* Proofs about the components that decide which traffic goes to the tun:  *)
(* the life of auto-redirect with nftables and with iptables, the verdict  *)
(* of its chains, the addresses that are routed, the elements of           *)
(* nftables sets, the rules built from Android's packages, and the policy  *)
(* routing rules.                                                          *)
(* They are proofs about the specification of the run MCRules, for every   *)
(* value of its constants: a behaviour of it is one of a single component, *)
(* so each component has an invariant of its own here, and what the run    *)
(* checks of it follows.                                                   *)
(***************************************************************************)
EXTENDS MCRules, FiniteSets, SequenceTheorems, FiniteSetTheorems, WellFoundedInduction, NaturalsInduction, TLAPS

----------------------------------------
(* Arithmetic *)
LEMMA NatMin ==
  ASSUME NEW T, T \subseteq Nat, T # {}
  PROVE  \E m \in T : \A n \in T : m <= n
<1>1. IsWellFoundedOn(OpToRel(<, Nat), Nat)
  BY NatLessThanWellFounded
<1>2. PICK x \in T : \A y \in T : ~(<<y, x>> \in OpToRel(<, Nat))
  BY <1>1, WFMin
<1>3. \A y \in T : ~(y < x)
  BY <1>2 DEF OpToRel
<1> QED BY <1>3

LEMMA SetInduction ==
  ASSUME NEW S, 0 \in S, \A n \in Nat : n \in S => n + 1 \in S
  PROVE  \A n \in Nat : n \in S
<1> SUFFICES ASSUME Nat \ S # {} PROVE FALSE
  OBVIOUS
<1>1. PICK m \in Nat \ S : \A n \in Nat \ S : m <= n
  BY NatMin
<1>2. m # 0 /\ m - 1 \in Nat /\ m - 1 + 1 = m
  BY <1>1
<1>3. m - 1 \in S
  BY <1>1, <1>2
<1> QED BY <1>1, <1>2, <1>3

LEMMA ModSmall == ASSUME NEW m \in Nat, NEW x \in Nat, x < m PROVE x % m = x
  OBVIOUS

LEMMA Product == ASSUME NEW a \in Nat, NEW b \in Nat PROVE a * b \in Nat /\ (a + 1) * b = a * b + b
  OBVIOUS

LEMMA Above == ASSUME NEW a \in Nat, NEW b \in Nat, NEW r \in Nat, a < b PROVE b * r >= a * r + r
<1>1. PICK d \in Nat : b = a + 1 + d
  <2>1. b - a - 1 \in Nat /\ b = a + 1 + (b - a - 1)
    OBVIOUS
  <2> QED BY <2>1
<1>2. (a + 1 + d) * r = a * r + r + d * r
  OBVIOUS
<1>3. d * r \in Nat /\ a * r \in Nat
  BY Product
<1> QED BY <1>1, <1>2, <1>3

LEMMA Quotient ==
  ASSUME NEW a \in Nat, NEW s \in Nat \ {0}
  PROVE  a \div s \in Nat /\ (a \div s) * s <= a /\ a < (a \div s) * s + s
  OBVIOUS

LEMMA QuotientIs ==
  ASSUME NEW a \in Nat, NEW s \in Nat \ {0}, NEW q \in Nat, q * s <= a, a < q * s + s
  PROVE  a \div s = q
<1> DEFINE d == a \div s
<1>1. d \in Nat /\ d * s <= a /\ a < d * s + s /\ d * s \in Nat /\ q * s \in Nat
  BY Quotient, Product
<1> HIDE DEF d
<1>2. ~(d < q)
  <2> SUFFICES ASSUME d < q PROVE FALSE
    OBVIOUS
  <2>1. q * s >= d * s + s
    BY <1>1, Above
  <2> QED BY <1>1, <2>1
<1>3. ~(q < d)
  <2> SUFFICES ASSUME q < d PROVE FALSE
    OBVIOUS
  <2>1. d * s >= q * s + s
    BY <1>1, Above
  <2> QED BY <1>1, <2>1
<1>4. d = q
  BY <1>1, <1>2, <1>3
<1> QED BY <1>4 DEF d

----------------------------------------
(* AutoRedirect (redirect_linux.go, redirect_server.go, redirect_nftables.go). *)
(* The argument: only CreateSets adds the table, and it does so before the     *)
(* chains; a callback or an update that was in progress when Close took the    *)
(* table away finds none and adds none.  Where no clean-up met an error, the   *)
(* sets and chains are in a table of their own.                                *)

\* How far Start and Close have come, and what is there then
RedirectLife ==
  /\ phase \in {"off", "listening", "clean", "sets", "failed"} => ~Redirect!Busy("route")
  /\ phase = "clean" /\ ~residue => table = Redirect!NoTable
  /\ phase = "sets" => table.there /\ ~stale /\ (~residue => table.chains = 0 /\ table.route = wanted)
  /\ phase = "up" => table.there /\ (~residue => table.chains = 1)
  /\ phase \in {"closing", "closed"} => ~registered /\ (~residue => ~table.there /\ ~fw4)
  /\ phase = "off" => server = Redirect!NoServer
  /\ phase = "closed" => server.listener # "open"
  /\ server.loop = "ended" => server.shutdown
  /\ table.chains <= starts
  /\ phase \in {"listening", "clean", "sets"} => table.chains < starts

\* A route update in progress carries what the caller wants, or it has ended
\* and the table holds that.
RouteUpdates ==
  (phase = "up" /\ ~stale /\ ~residue /\ setup # {} /\ wanted # {}) =>
     /\ \A u \in update : u.kind = "route" => u.new = wanted
     /\ Redirect!Busy("route") \/ table.route = wanted

RedirectInv == Redirect!TypeOK /\ RedirectLife /\ RouteUpdates

\* What a table and a redirect server can be
TableType == [there : BOOLEAN, chains : 0..MaxStarts, local : SUBSET RedirectAddr, route : SUBSET RedirectAddr]
ServerType == [listener : {"none", "open", "closed"}, shutdown : BOOLEAN, loop : {"off", "accept", "ended"}]

LEMMA InitRedirect == ASSUME Redirect!StartAssumption, Redirect!Init PROVE RedirectInv
<1> USE DEF Redirect!StartAssumption
<1>1. Redirect!NoTable \in TableType /\ Redirect!NoServer \in ServerType
  BY DEF Redirect!NoTable, Redirect!NoServer, TableType, ServerType
<1>2. Redirect!TypeOK
  <2>1. table \in TableType /\ server \in ServerType
    BY <1>1 DEF Redirect!Init
  <2>2. addresses \subseteq RedirectAddr /\ wanted \subseteq RedirectAddr
    BY DEF Redirect!Init
  <2>3. fw4 \in BOOLEAN /\ registered \in BOOLEAN /\ stale \in BOOLEAN /\ residue \in BOOLEAN /\ host \in [customPort : BOOLEAN, hasFw4 : BOOLEAN]
    BY DEF Redirect!Init
  <2>4. phase = "off" /\ starts = 0 /\ update = {} /\ last = {} /\ setup = {}
    BY DEF Redirect!Init
  <2> QED BY <2>1, <2>2, <2>3, <2>4 DEF Redirect!TypeOK, TableType, ServerType
<1>3. RedirectLife /\ RouteUpdates
  BY DEF Redirect!Init, RedirectLife, RouteUpdates, Redirect!NoTable, Redirect!NoServer, Redirect!Busy
<1> QED BY <1>2, <1>3 DEF RedirectInv

LEMMA RedirectTyped ==
  ASSUME Redirect!StartAssumption, RedirectInv, Redirect!Next PROVE Redirect!TypeOK'
<1> USE DEF Redirect!StartAssumption, Redirect!NoTable, Redirect!NoServer
<1>0. Redirect!TypeOK
  BY DEF RedirectInv
<1>1. ASSUME NEW ok \in BOOLEAN, Redirect!StartServer(ok) PROVE Redirect!TypeOK'
  <2>1. server' \in ServerType
    <3>1. server \in ServerType
      BY <1>0 DEF Redirect!TypeOK, ServerType
    <3>2. [listener |-> "open", shutdown |-> FALSE, loop |-> "accept"] \in ServerType
      BY DEF ServerType
    <3> QED BY <1>1, <3>1, <3>2 DEF Redirect!StartServer
  <2> QED BY <1>0, <1>1, <2>1 DEF Redirect!TypeOK, Redirect!StartServer, ServerType
<1>2. CASE Redirect!CreateSets
  BY <1>0, <1>2 DEF Redirect!TypeOK, TableType, Redirect!CreateSets
<1>3. CASE Redirect!CreateChains
  BY <1>0, <1>3 DEF RedirectInv, RedirectLife, Redirect!CreateChains, Redirect!TypeOK
<1>4. ASSUME NEW w \in BOOLEAN, Redirect!SetupFails(w) PROVE Redirect!TypeOK'
  BY <1>0, <1>4 DEF Redirect!TypeOK, Redirect!SetupFails
<1>5. ASSUME NEW a \in SUBSET RedirectAddr, Redirect!NetworkChange(a) \/ Redirect!SetWanted(a)
      PROVE Redirect!TypeOK'
  BY <1>0, <1>5 DEF Redirect!TypeOK, Redirect!NetworkChange, Redirect!SetWanted
<1>6. CASE Redirect!CallbackBegins \/ Redirect!UpdateBegins
  <2>1. update' \subseteq [kind : {"local", "route"}, new : SUBSET RedirectAddr]
    BY <1>0, <1>6 DEF Redirect!TypeOK, Redirect!CallbackBegins, Redirect!UpdateBegins
  <2> QED BY <1>0, <1>6, <2>1 DEF Redirect!TypeOK, Redirect!CallbackBegins, Redirect!UpdateBegins
<1>7. CASE Redirect!CallbackFlushes
  BY <1>0, <1>7 DEF Redirect!TypeOK, Redirect!CallbackFlushes
<1>8. CASE Redirect!UpdateFlushes
  BY <1>0, <1>8 DEF Redirect!TypeOK, Redirect!UpdateFlushes
<1>9. CASE Redirect!CleanBefore \/ Redirect!CloseRules
  <2>1. Redirect!NoTable \in TableType /\ table \in TableType
    BY <1>0 DEF TableType, Redirect!TypeOK
  <2>2. PICK removed, flushed \in BOOLEAN : Redirect!CleanUp(removed, flushed)
    BY <1>9 DEF Redirect!CleanBefore, Redirect!CloseRules
  <2>3. table' \in TableType /\ setup' \subseteq RedirectAddr /\ fw4' \in BOOLEAN /\ registered' \in BOOLEAN /\ residue' \in BOOLEAN
    BY <1>0, <2>1, <2>2 DEF Redirect!CleanUp, Redirect!TypeOK
  <2> QED BY <1>0, <1>9, <2>3 DEF Redirect!TypeOK, Redirect!CleanBefore, Redirect!CloseRules, TableType
<1>11. CASE Redirect!CloseServer \/ Redirect!Exit
  <2>1. Redirect!NoServer \in ServerType
    BY DEF ServerType
  <2>2. server' \in ServerType
    BY <1>0, <1>11, <2>1 DEF Redirect!TypeOK, Redirect!CloseServer, Redirect!Exit, ServerType
  <2> QED BY <1>0, <1>11, <2>2 DEF Redirect!TypeOK, Redirect!CloseServer, Redirect!Exit, ServerType
<1>10. CASE Redirect!AcceptAny
  BY <1>0, <1>10 DEF Redirect!TypeOK, Redirect!AcceptAny, Redirect!Accept
<1> QED BY <1>1, <1>2, <1>3, <1>4, <1>5, <1>6, <1>7, <1>8, <1>9, <1>10, <1>11 DEF Redirect!Next

LEMMA RedirectKeeps ==
  ASSUME Redirect!StartAssumption, RedirectInv, Redirect!Next PROVE RedirectInv'
<1> USE DEF Redirect!StartAssumption, Redirect!NoTable, Redirect!NoServer, Redirect!Busy
<1>t. Redirect!TypeOK'
  BY RedirectTyped
<1>0. Redirect!TypeOK /\ RedirectLife /\ RouteUpdates
  BY DEF RedirectInv
<1> SUFFICES RedirectLife' /\ RouteUpdates'
  BY <1>t DEF RedirectInv
<1>1. ASSUME NEW ok \in BOOLEAN, Redirect!StartServer(ok) PROVE RedirectLife' /\ RouteUpdates'
  BY <1>0, <1>1 DEF RedirectLife, RouteUpdates, Redirect!StartServer, Redirect!TypeOK
<1>2. CASE Redirect!CreateSets
  BY <1>0, <1>2 DEF RedirectLife, RouteUpdates, Redirect!CreateSets, Redirect!TypeOK
<1>3. CASE Redirect!CreateChains
  BY <1>0, <1>3 DEF RedirectLife, RouteUpdates, Redirect!CreateChains, Redirect!TypeOK
<1>4. ASSUME NEW w \in BOOLEAN, Redirect!SetupFails(w) PROVE RedirectLife' /\ RouteUpdates'
  BY <1>0, <1>4 DEF RedirectLife, RouteUpdates, Redirect!SetupFails
<1>5. ASSUME NEW a \in SUBSET RedirectAddr, Redirect!NetworkChange(a) \/ Redirect!SetWanted(a)
      PROVE RedirectLife' /\ RouteUpdates'
  BY <1>0, <1>5 DEF RedirectLife, RouteUpdates, Redirect!NetworkChange, Redirect!SetWanted
<1>6. CASE Redirect!CallbackBegins
  BY <1>0, <1>6 DEF RedirectLife, RouteUpdates, Redirect!CallbackBegins
<1>7. CASE Redirect!CallbackFlushes
  <2>1. PICK u \in update : u.kind = "local" /\ update' = update \ {u}
    BY <1>7 DEF Redirect!CallbackFlushes
  <2>2. table'.there = table.there /\ table'.chains = table.chains /\ table'.route = table.route
    BY <1>0, <1>7 DEF Redirect!CallbackFlushes, Redirect!TypeOK
  <2>3. table = Redirect!NoTable => table' = table
    BY <1>7 DEF Redirect!CallbackFlushes
  <2>4. Redirect!Busy("route")' <=> Redirect!Busy("route")
    BY <2>1
  <2>5. UNCHANGED <<phase, starts, server, fw4, registered, wanted, setup, stale, residue>>
    BY <1>7 DEF Redirect!CallbackFlushes
  <2> HIDE DEF Redirect!Busy
  <2> QED BY <1>0, <2>1, <2>2, <2>3, <2>4, <2>5 DEF RedirectLife, RouteUpdates
<1>8. CASE Redirect!UpdateBegins
  <2>1. RedirectLife'
    BY <1>0, <1>8 DEF RedirectLife, Redirect!UpdateBegins
  <2>2. \A u \in update : u.kind # "route"
    BY <1>8 DEF Redirect!UpdateBegins
  <2>3. update' = update \cup {[kind |-> "route", new |-> wanted]} /\ UNCHANGED wanted
    BY <1>8 DEF Redirect!UpdateBegins
  <2>4. \A u \in update' : u.kind = "route" => u.new = wanted'
    BY <2>2, <2>3
  <2>5. \E u \in update' : u.kind = "route"
    <3>1. [kind |-> "route", new |-> wanted] \in update'
      BY <2>3
    <3>2. [kind |-> "route", new |-> wanted].kind = "route"
      OBVIOUS
    <3> QED BY <3>1, <3>2, Zenon
  <2> QED BY <2>1, <2>4, <2>5 DEF RouteUpdates
<1>9. CASE Redirect!UpdateFlushes
  BY <1>0, <1>9 DEF RedirectLife, RouteUpdates, Redirect!UpdateFlushes, Redirect!TypeOK
<1>10. CASE Redirect!CleanBefore \/ Redirect!CloseRules
  <2>1. PICK removed, flushed \in BOOLEAN : Redirect!CleanUp(removed, flushed)
    BY <1>10 DEF Redirect!CleanBefore, Redirect!CloseRules
  <2>2. /\ ~registered' /\ (~residue' => table' = Redirect!NoTable /\ ~fw4')
        /\ table'.chains <= table.chains /\ table'.chains \in Nat
    <3>1. table.chains \in Nat
      BY <1>0 DEF Redirect!TypeOK
    <3>2. table' = Redirect!NoTable \/ (table' = table /\ ~flushed)
      BY <2>1 DEF Redirect!CleanUp
    <3>3. ~registered' /\ (~residue' => table' = Redirect!NoTable /\ ~fw4')
      BY <2>1 DEF Redirect!CleanUp
    <3> QED BY <3>1, <3>2, <3>3
  <2> QED BY <1>0, <1>10, <2>2 DEF RedirectLife, RouteUpdates, Redirect!CleanBefore, Redirect!CloseRules, Redirect!TypeOK
<1>12. CASE Redirect!CloseServer
  BY <1>0, <1>12 DEF Redirect!CloseServer, Redirect!TypeOK, RedirectLife, RouteUpdates
<1>13. CASE Redirect!Exit
  BY <1>0, <1>13 DEF RedirectLife, RouteUpdates, Redirect!Exit
<1>11. CASE Redirect!AcceptAny
  BY <1>0, <1>11 DEF RedirectLife, RouteUpdates, Redirect!AcceptAny, Redirect!Accept, Redirect!TypeOK
<1> QED BY <1>1, <1>2, <1>3, <1>4, <1>5, <1>6, <1>7, <1>8, <1>9, <1>10, <1>11, <1>12, <1>13 DEF Redirect!Next

LEMMA RedirectShows ==
  ASSUME RedirectInv
  PROVE  /\ Redirect!TypeOK /\ Redirect!ClosedLeavesNothing /\ Redirect!ChainsOnce
         /\ Redirect!RouteSetFollows /\ Redirect!LoopEndsAfterClose
  BY DEF RedirectInv, RedirectLife, RouteUpdates, Redirect!ClosedLeavesNothing, Redirect!ChainsOnce,
         Redirect!RouteSetFollows, Redirect!LoopEndsAfterClose

LEMMA RedirectInvariant == Spec => [](part = "redirect" => RedirectInv)
<1>1. Init => (part = "redirect" => RedirectInv)
  BY InitRedirect, StartsAssumed DEF Init, Redirect!StartAssumption
<1>2. RedirectInv /\ [Redirect!Next]_(Redirect!vars) => RedirectInv'
  <2> SUFFICES ASSUME RedirectInv, UNCHANGED Redirect!vars PROVE RedirectInv'
    BY RedirectKeeps, StartsAssumed DEF Redirect!StartAssumption
  <2> QED BY DEF Redirect!vars, RedirectInv, RedirectLife, RouteUpdates, Redirect!TypeOK, Redirect!Busy
<1>3. (part = "redirect" => RedirectInv) /\ [Next]_vars => (part = "redirect" => RedirectInv)'
  <2> SUFFICES ASSUME part = "redirect" => RedirectInv, [Next]_vars, part' = "redirect" PROVE RedirectInv'
    OBVIOUS
  <2>1. part = "redirect" /\ [Redirect!Next]_(Redirect!vars)
    BY DEF Next, vars, Redirect!vars, host, residue, wanted, phase, starts, server, table, fw4, update, registered,
           last, addresses, setup, stale
  <2> QED BY <1>2, <2>1
<1> QED BY <1>1, <1>3, PTL DEF Spec

----------------------------------------
(* IPTablesSetup (redirect_iptables.go).  The argument: the commands that   *)
(* are left are the rest of a program in which every chain is created,      *)
(* filled and only then jumped to, or left, emptied and only then removed;  *)
(* so what is left tells how far each chain has come.                       *)
Command == [op : {"N", "A", "I", "D", "F", "X", "conflict"}, key : IPTables!Key]

\* The chains of this instance
Managed == IPTFamilies \X (IF android THEN {"output"} ELSE IPTables!Name)

Has(s, op, k) == \E j \in 1 .. Len(s) : s[j].op = op /\ s[j].key = k

\* The rest of a removal: the jump, the rules and the chain go in this order.
RemovalShape(s) ==
  \A i \in 1 .. Len(s) :
     /\ s[i].op \in {"D", "F", "X"}
     /\ s[i].op = "D" => i < Len(s) /\ s[i + 1].op = "F" /\ s[i + 1].key = s[i].key
     /\ s[i].op = "F" => i < Len(s) /\ s[i + 1].op = "X" /\ s[i + 1].key = s[i].key

Removal(s, K) ==
  /\ s \in Seq(Command) /\ RemovalShape(s)
  /\ \A i \in 1 .. Len(s) : s[i].key \in K
  /\ \A k \in K : Has(s, "D", k)

\* The rest of a setup, with the number of rules that are still to be added
\* to the chain a command is about.
SetupShape(s, r) ==
  \A i \in 1 .. Len(s) :
     /\ s[i].op \in {"N", "A", "I", "conflict"} /\ r[i] \in Nat
     /\ s[i].op = "N" => /\ i < Len(s) /\ s[i + 1].key = s[i].key
                         /\ \/ s[i + 1].op = "conflict"
                            \/ s[i + 1].op \in {"A", "I"} /\ r[i + 1] = IPTables!Rules(s[i].key[2])
     /\ s[i].op = "A" => /\ i < Len(s) /\ s[i + 1].key = s[i].key /\ s[i + 1].op \in {"A", "I"}
                         /\ r[i] > 0 /\ r[i + 1] = r[i] - 1
     /\ s[i].op = "I" => r[i] = 0
     /\ (s[i].op \in {"I", "conflict"} /\ i < Len(s)) => s[i + 1].op = "N"
     /\ s[i].op = "N" => \A j \in 1 .. Len(s) : s[j].key = s[i].key => i <= j

Program(s, K) ==
  /\ s \in Seq(Command) /\ \E r : SetupShape(s, r)
  /\ s # <<>> => s[1].op = "N"
  /\ \A i \in 1 .. Len(s) : s[i].key \in K
  /\ \A k \in K : Has(s, "N", k)

LEMMA ConcatHas ==
  ASSUME NEW s \in Seq(Command), NEW t \in Seq(Command), NEW op, NEW k, Has(s, op, k) \/ Has(t, op, k)
  PROVE  Has(s \o t, op, k)
<1>1. Len(s) \in Nat /\ Len(t) \in Nat
  BY LenProperties
<1>2. CASE Has(s, op, k)
  <2>1. PICK j \in 1 .. Len(s) : s[j].op = op /\ s[j].key = k
    BY <1>2 DEF Has
  <2>2. j \in 1 .. Len(s \o t) /\ (s \o t)[j] = s[j]
    BY <1>1, ConcatProperties
  <2> QED BY <2>1, <2>2 DEF Has
<1>3. CASE Has(t, op, k)
  <2>1. PICK j \in 1 .. Len(t) : t[j].op = op /\ t[j].key = k
    BY <1>3 DEF Has
  <2>2. j + Len(s) \in 1 .. Len(s \o t) /\ (s \o t)[j + Len(s)] = t[j]
    BY <1>1, ConcatProperties
  <2> QED BY <2>1, <2>2 DEF Has
<1> QED BY <1>2, <1>3

LEMMA ConcatRemoval ==
  ASSUME NEW s, NEW t, NEW K, NEW L, Removal(s, K), Removal(t, L)
  PROVE  Removal(s \o t, K \cup L)
<1>0. s \in Seq(Command) /\ t \in Seq(Command) /\ Len(s) \in Nat /\ Len(t) \in Nat
  BY LenProperties DEF Removal
<1>1. /\ s \o t \in Seq(Command) /\ Len(s \o t) = Len(s) + Len(t)
      /\ \A i \in 1 .. Len(s) + Len(t) : (s \o t)[i] = IF i <= Len(s) THEN s[i] ELSE t[i - Len(s)]
  BY <1>0, ConcatProperties
<1> DEFINE u == s \o t
<1>2. ASSUME NEW i \in 1 .. Len(u)
      PROVE /\ u[i].op \in {"D", "F", "X"} /\ u[i].key \in K \cup L
            /\ u[i].op = "D" => i < Len(u) /\ u[i + 1].op = "F" /\ u[i + 1].key = u[i].key
            /\ u[i].op = "F" => i < Len(u) /\ u[i + 1].op = "X" /\ u[i + 1].key = u[i].key
  <2>1. CASE i <= Len(s)
    BY <1>0, <1>1, <2>1 DEF Removal, RemovalShape
  <2>2. CASE i > Len(s)
    <3> DEFINE m == i - Len(s)
    <3>1. u[i] = t[m] /\ m \in 1 .. Len(t) /\ (m < Len(t) => u[i + 1] = t[m + 1])
      BY <1>0, <1>1, <2>2
    <3>2. m < Len(t) => i < Len(u)
      BY <1>0, <1>1
    <3> HIDE DEF m, u
    <3>3. /\ t[m].op \in {"D", "F", "X"} /\ t[m].key \in L
          /\ t[m].op = "D" => m < Len(t) /\ t[m + 1].op = "F" /\ t[m + 1].key = t[m].key
          /\ t[m].op = "F" => m < Len(t) /\ t[m + 1].op = "X" /\ t[m + 1].key = t[m].key
      BY <3>1 DEF Removal, RemovalShape
    <3> QED BY <3>1, <3>2, <3>3
  <2> QED BY <1>0, <1>1, <2>1, <2>2
<1>3. \A k \in K \cup L : Has(s \o t, "D", k)
  BY <1>0, ConcatHas DEF Removal
<1> QED BY <1>1, <1>2, <1>3 DEF Removal, RemovalShape

LEMMA ConcatProgram ==
  ASSUME NEW s, NEW t, NEW K, NEW L, Program(s, K), Program(t, L), K \cap L = {}
  PROVE  Program(s \o t, K \cup L)
<1>0. s \in Seq(Command) /\ t \in Seq(Command) /\ Len(s) \in Nat /\ Len(t) \in Nat
  BY LenProperties DEF Program
<1>1. /\ s \o t \in Seq(Command) /\ Len(s \o t) = Len(s) + Len(t)
      /\ \A i \in 1 .. Len(s) + Len(t) : (s \o t)[i] = IF i <= Len(s) THEN s[i] ELSE t[i - Len(s)]
  BY <1>0, ConcatProperties
<1>r. PICK r : SetupShape(s, r)
  BY DEF Program
<1>q. PICK q : SetupShape(t, q)
  BY DEF Program
<1> DEFINE u == s \o t
           w == [i \in 1 .. Len(s) + Len(t) |-> IF i <= Len(s) THEN r[i] ELSE q[i - Len(s)]]
<1>k. \A i \in 1 .. Len(u) : u[i].key \in (IF i <= Len(s) THEN K ELSE L)
  BY <1>0, <1>1 DEF Program
<1>2. SetupShape(u, w)
  <2> SUFFICES ASSUME NEW i \in 1 .. Len(u)
      PROVE /\ u[i].op \in {"N", "A", "I", "conflict"} /\ w[i] \in Nat
            /\ u[i].op = "N" => /\ i < Len(u) /\ u[i + 1].key = u[i].key
                                /\ \/ u[i + 1].op = "conflict"
                                   \/ u[i + 1].op \in {"A", "I"} /\ w[i + 1] = IPTables!Rules(u[i].key[2])
            /\ u[i].op = "A" => /\ i < Len(u) /\ u[i + 1].key = u[i].key /\ u[i + 1].op \in {"A", "I"}
                                /\ w[i] > 0 /\ w[i + 1] = w[i] - 1
            /\ u[i].op = "I" => w[i] = 0
            /\ (u[i].op \in {"I", "conflict"} /\ i < Len(u)) => u[i + 1].op = "N"
            /\ u[i].op = "N" => \A j \in 1 .. Len(u) : u[j].key = u[i].key => i <= j
    BY DEF SetupShape
  <2>1. CASE i <= Len(s)
    <3>1. u[i] = s[i] /\ w[i] = r[i] /\ i \in 1 .. Len(s)
      BY <1>0, <1>1, <2>1
    <3>2. i < Len(s) => u[i + 1] = s[i + 1] /\ w[i + 1] = r[i + 1] /\ i < Len(u)
      BY <1>0, <1>1, <2>1
    <3>3. i = Len(s) /\ i < Len(u) => u[i + 1].op = "N"
      <4> HAVE i = Len(s) /\ i < Len(u)
      <4>1. Len(t) # 0 /\ u[i + 1] = t[1]
        BY <1>0, <1>1
      <4> QED BY <1>0, <4>1 DEF Program
    <3>4. u[i].op = "N" => \A j \in 1 .. Len(u) : u[j].key = u[i].key => i <= j
      <4> SUFFICES ASSUME u[i].op = "N", NEW j \in 1 .. Len(u), u[j].key = u[i].key PROVE i <= j
        OBVIOUS
      <4>1. CASE j <= Len(s)
        <5>1. u[j] = s[j] /\ j \in 1 .. Len(s)
          BY <1>0, <1>1, <4>1
        <5> HIDE DEF u
        <5> QED BY <1>r, <3>1, <5>1 DEF SetupShape
      <4> QED BY <1>0, <1>1, <2>1, <4>1
    <3> HIDE DEF u, w
    <3> QED BY <1>0, <1>r, <3>1, <3>2, <3>3, <3>4 DEF SetupShape
  <2>2. CASE i > Len(s)
    <3> DEFINE m == i - Len(s)
    <3>1. u[i] = t[m] /\ w[i] = q[m] /\ m \in 1 .. Len(t)
      BY <1>0, <1>1, <2>2
    <3>2. m < Len(t) => u[i + 1] = t[m + 1] /\ w[i + 1] = q[m + 1]
      BY <1>0, <1>1, <2>2
    <3>3. m < Len(t) <=> i < Len(u)
      BY <1>0, <1>1
    <3>4. u[i].op = "N" => \A j \in 1 .. Len(u) : u[j].key = u[i].key => i <= j
      <4> SUFFICES ASSUME u[i].op = "N", NEW j \in 1 .. Len(u), u[j].key = u[i].key PROVE i <= j
        OBVIOUS
      <4>1. j > Len(s)
        BY <1>0, <1>1, <1>k, <2>2
      <4> DEFINE n == j - Len(s)
      <4>2. u[j] = t[n] /\ n \in 1 .. Len(t)
        BY <1>0, <1>1, <4>1
      <4>3. m <= n
        <5> HIDE DEF u, m, n
        <5> QED BY <1>q, <3>1, <4>2 DEF SetupShape
      <4> QED BY <1>0, <1>1, <4>3
    <3> HIDE DEF u, w, m
    <3> QED BY <1>0, <1>q, <3>1, <3>2, <3>3, <3>4 DEF SetupShape
  <2> QED BY <1>0, <1>1, <2>1, <2>2
<1>3. \A k \in K \cup L : Has(s \o t, "N", k)
  BY <1>0, ConcatHas DEF Program
<1>4. s \o t # <<>> => (s \o t)[1].op = "N"
  BY <1>0, <1>1 DEF Program
<1>5. \A i \in 1 .. Len(s \o t) : (s \o t)[i].key \in K \cup L
  BY <1>0, <1>k
<1> HIDE DEF u, w
<1>6. \E x : SetupShape(u, x)
  BY <1>2
<1> QED BY <1>1, <1>3, <1>4, <1>5, <1>6 DEF Program, u

LEMMA EmptyPrograms == Removal(<<>>, {}) /\ Program(<<>>, {})
  BY EmptySeq DEF SetupShape, Removal, RemovalShape, Program

LEMMA RemoveChainIs ==
  ASSUME NEW f \in {4, 6}, NEW c \in IPTables!Name
  PROVE  Removal(IPTables!RemoveChain(f, c), {<<f, c>>})
<1> DEFINE s == IPTables!RemoveChain(f, c)
           k == <<f, c>>
<1>0. k \in IPTables!Key
  BY DEF IPTables!Key
<1>1. /\ s \in Seq(Command) /\ Len(s) = 3
      /\ s[1].op = "D" /\ s[2].op = "F" /\ s[3].op = "X"
      /\ s[1].key = k /\ s[2].key = k /\ s[3].key = k
  BY <1>0 DEF IPTables!Cmd, Command, IPTables!RemoveChain
<1> HIDE DEF s, k
<1>2. RemovalShape(s) /\ \A i \in 1 .. Len(s) : s[i].key \in {k}
  BY <1>1 DEF RemovalShape
<1>3. Has(s, "D", k)
  BY <1>1 DEF Has
<1> QED BY <1>1, <1>2, <1>3 DEF Removal, s, k

LEMMA BuildIs ==
  ASSUME PreRules \in Nat, NEW f \in {4, 6}, NEW c \in IPTables!Name
  PROVE  Program(IPTables!Build(f, c), {<<f, c>>})
<1> DEFINE k == <<f, c>>
           n == IPTables!Rules(c)
           s1 == <<IPTables!Cmd("N", f, c)>>
           s2 == [i \in 1 .. n |-> IPTables!Cmd("A", f, c)]
           s3 == <<IPTables!Cmd("I", f, c)>>
           s == IPTables!Build(f, c)
           r == [i \in 1 .. n + 2 |-> IF i = 1 THEN n ELSE n + 2 - i]
<1>0. k \in IPTables!Key /\ n \in Nat /\ k[2] = c
  BY DEF IPTables!Key, IPTables!Rules, IPTables!Name
<1>1. \A op \in {"N", "A", "I"} : IPTables!Cmd(op, f, c) \in Command
                                  /\ IPTables!Cmd(op, f, c).op = op /\ IPTables!Cmd(op, f, c).key = k
  BY <1>0 DEF IPTables!Cmd, Command
<1> HIDE DEF n, k
<1>2. s1 \in Seq(Command) /\ Len(s1) = 1 /\ s3 \in Seq(Command) /\ Len(s3) = 1
      /\ s1[1] = IPTables!Cmd("N", f, c) /\ s3[1] = IPTables!Cmd("I", f, c)
  BY <1>1
<1>3. s2 \in Seq(Command) /\ Len(s2) = n
  BY <1>0, <1>1, IsASeq
<1>4. \A i \in 1 .. n : s2[i] = IPTables!Cmd("A", f, c)
  OBVIOUS
<1>5. s = s1 \o s2 \o s3
  BY DEF IPTables!Build, n
<1> HIDE DEF s1, s2, s3, s
<1> DEFINE h == s1 \o s2
<1>6. /\ h \in Seq(Command) /\ Len(h) = n + 1
      /\ \A i \in 1 .. n + 1 : h[i] = IF i <= 1 THEN s1[i] ELSE s2[i - 1]
  <2>1. Len(s1) + Len(s2) = n + 1
    BY <1>0, <1>2, <1>3
  <2>2. /\ h \in Seq(Command) /\ Len(h) = Len(s1) + Len(s2)
        /\ \A i \in 1 .. Len(s1) + Len(s2) : h[i] = IF i <= Len(s1) THEN s1[i] ELSE s2[i - Len(s1)]
    BY <1>2, <1>3, ConcatProperties
  <2> HIDE DEF h
  <2> QED BY <1>2, <2>1, <2>2
<1>7. /\ s \in Seq(Command) /\ Len(s) = n + 2
      /\ \A i \in 1 .. n + 2 : s[i] = IF i <= n + 1 THEN h[i] ELSE s3[i - (n + 1)]
  <2>1. s = h \o s3
    BY <1>5
  <2> HIDE DEF h
  <2>2. Len(h) + Len(s3) = n + 2
    BY <1>0, <1>2, <1>6
  <2> DEFINE z == h \o s3
  <2>3. /\ z \in Seq(Command) /\ Len(z) = Len(h) + Len(s3)
        /\ \A i \in 1 .. Len(h) + Len(s3) : z[i] = IF i <= Len(h) THEN h[i] ELSE s3[i - Len(h)]
    BY <1>2, <1>6, ConcatProperties
  <2>4. s = z
    BY <2>1
  <2> HIDE DEF z
  <2> QED BY <1>6, <2>2, <2>3, <2>4
<1> HIDE DEF h
<1>8. /\ s[1] = IPTables!Cmd("N", f, c) /\ s[n + 2] = IPTables!Cmd("I", f, c)
      /\ \A i \in 2 .. n + 1 : s[i] = IPTables!Cmd("A", f, c)
  <2>1. \A i \in 2 .. n + 1 : i - 1 \in 1 .. n /\ i \in 1 .. n + 1 /\ i \in 1 .. n + 2
    BY <1>0
  <2>2. n + 2 - (n + 1) = 1
    BY <1>0
  <2>3. s[1] = s1[1] /\ s[n + 2] = s3[1]
    BY <1>0, <1>6, <1>7, <2>2
  <2>4. ASSUME NEW i \in 2 .. n + 1 PROVE s[i] = s2[i - 1]
    BY <1>0, <1>6, <1>7, <2>1
  <2> QED BY <1>2, <1>4, <2>1, <2>3, <2>4
<1>9. /\ s[1].op = "N" /\ s[n + 2].op = "I"
      /\ \A i \in 2 .. n + 1 : s[i].op = "A"
      /\ \A i \in 1 .. n + 2 : s[i].key = k
  BY <1>0, <1>1, <1>8
<1>10. r \in [1 .. n + 2 -> Nat] /\ r[1] = n /\ \A i \in 2 .. n + 2 : r[i] = n + 2 - i
  BY <1>0
<1> HIDE DEF r
<1>11. SetupShape(s, r)
  <2>1. \A i \in 1 .. n + 2 : i = 1 \/ i = n + 2 \/ i \in 2 .. n + 1
    BY <1>0
  <2>2. IPTables!Rules(k[2]) = n
    BY <1>0 DEF n
  <2>3. 2 \in 2 .. n + 1 \/ 2 = n + 2
    BY <1>0
  <2>4. s[2].op \in {"A", "I"} /\ r[2] = n
    BY <1>0, <1>9, <1>10, <2>3
  <2> SUFFICES ASSUME NEW i \in 1 .. n + 2
      PROVE /\ s[i].op \in {"N", "A", "I", "conflict"} /\ r[i] \in Nat
            /\ s[i].op = "N" => /\ i < Len(s) /\ s[i + 1].key = s[i].key
                                /\ \/ s[i + 1].op = "conflict"
                                   \/ s[i + 1].op \in {"A", "I"} /\ r[i + 1] = IPTables!Rules(s[i].key[2])
            /\ s[i].op = "A" => /\ i < Len(s) /\ s[i + 1].key = s[i].key /\ s[i + 1].op \in {"A", "I"}
                                /\ r[i] > 0 /\ r[i + 1] = r[i] - 1
            /\ s[i].op = "I" => r[i] = 0
            /\ (s[i].op \in {"I", "conflict"} /\ i < Len(s)) => s[i + 1].op = "N"
            /\ s[i].op = "N" => \A j \in 1 .. Len(s) : s[j].key = s[i].key => i <= j
    BY <1>7 DEF SetupShape
  <2>5. CASE i = 1
    BY <1>0, <1>7, <1>9, <1>10, <2>2, <2>4, <2>5
  <2>6. CASE i = n + 2
    BY <1>0, <1>7, <1>9, <1>10, <2>6
  <2>7. CASE i \in 2 .. n + 1
    BY <1>0, <2>7, <1>7, <1>9, <1>10
  <2> QED BY <2>1, <2>5, <2>6, <2>7
<1>12. Has(s, "N", k)
  BY <1>0, <1>7, <1>9 DEF Has
<1> QED BY <1>7, <1>9, <1>11, <1>12 DEF Program, s, k

LEMMA ConflictIs ==
  ASSUME NEW f \in {4, 6}
  PROVE  Program(<<IPTables!Cmd("N", f, "prerouting"), IPTables!Cmd("conflict", f, "prerouting")>>,
                 {<<f, "prerouting">>})
<1> DEFINE k == <<f, "prerouting">>
           s == <<IPTables!Cmd("N", f, "prerouting"), IPTables!Cmd("conflict", f, "prerouting")>>
<1>0. k \in IPTables!Key
  BY DEF IPTables!Key, IPTables!Name
<1>1. \A op \in {"N", "conflict"} : IPTables!Cmd(op, f, "prerouting") \in Command
         /\ IPTables!Cmd(op, f, "prerouting").op = op /\ IPTables!Cmd(op, f, "prerouting").key = k
  BY <1>0 DEF IPTables!Cmd, Command
<1>2. /\ s \in Seq(Command) /\ Len(s) = 2 /\ s[1].op = "N" /\ s[2].op = "conflict"
      /\ s[1].key = k /\ s[2].key = k
  BY <1>1
<1> HIDE DEF s, k
<1>3. SetupShape(s, [i \in 1 .. 2 |-> 0])
  BY <1>2 DEF SetupShape
<1>4. Has(s, "N", k)
  BY <1>2 DEF Has
<1>5. \A i \in 1 .. Len(s) : s[i].key \in {k}
  BY <1>2
<1> QED BY <1>2, <1>3, <1>4, <1>5 DEF Program, s, k

\* The chains of one family
FamilyKeys(f) == {f} \X (IF android THEN {"output"} ELSE IPTables!Name)

LEMMA FamilyPrograms ==
  ASSUME PreRules \in Nat, NEW f \in {4, 6}
  PROVE  /\ Removal(IPTables!CleanupFamily(f), FamilyKeys(f))
         /\ Program(IPTables!SetupFamily(f), FamilyKeys(f))
<1>1. \A c \in IPTables!Name : /\ Removal(IPTables!RemoveChain(f, c), {<<f, c>>})
                               /\ Program(IPTables!Build(f, c), {<<f, c>>})
  BY RemoveChainIs, BuildIs
<1> DEFINE last2 == IF f \in conflict THEN <<IPTables!Cmd("N", f, "prerouting"), IPTables!Cmd("conflict", f, "prerouting")>>
                    ELSE IPTables!Build(f, "prerouting")
<1>2. Program(last2, {<<f, "prerouting">>})
  BY <1>1, ConflictIs DEF IPTables!Name
<1>3. /\ Removal(IPTables!RemoveChain(f, "output"), {<<f, "output">>})
      /\ Program(IPTables!Build(f, "output"), {<<f, "output">>})
      /\ Removal(IPTables!RemoveChain(f, "input"), {<<f, "input">>})
      /\ Program(IPTables!Build(f, "input"), {<<f, "input">>})
      /\ Removal(IPTables!RemoveChain(f, "forward"), {<<f, "forward">>})
      /\ Program(IPTables!Build(f, "forward"), {<<f, "forward">>})
      /\ Removal(IPTables!RemoveChain(f, "prerouting"), {<<f, "prerouting">>})
  BY <1>1 DEF IPTables!Name
<1>4. CASE android
  <2>1. FamilyKeys(f) = {<<f, "output">>} \cup {}
    BY <1>4 DEF FamilyKeys
  <2>2. Removal(IPTables!RemoveChain(f, "output") \o <<>>, {<<f, "output">>} \cup {})
    BY <1>3, EmptyPrograms, ConcatRemoval
  <2>3. Program(IPTables!Build(f, "output") \o <<>>, {<<f, "output">>} \cup {})
    BY <1>3, EmptyPrograms, ConcatProgram
  <2>4. /\ IPTables!CleanupFamily(f) = IPTables!RemoveChain(f, "output") \o <<>>
        /\ IPTables!SetupFamily(f) = IPTables!Build(f, "output") \o <<>>
    BY <1>4 DEF IPTables!CleanupFamily, IPTables!SetupFamily
  <2> QED BY <2>1, <2>2, <2>3, <2>4
<1>5. CASE ~android
  <2> DEFINE A == {<<f, "output">>}
             B == {<<f, "input">>}
             C == {<<f, "forward">>}
             E == {<<f, "prerouting">>}
  <2>1. FamilyKeys(f) = A \cup ((B \cup C) \cup E)
    BY <1>5 DEF FamilyKeys, IPTables!Name
  <2>2. B \cap C = {} /\ (B \cup C) \cap E = {} /\ A \cap ((B \cup C) \cup E) = {}
    OBVIOUS
  <2> DEFINE p1 == IPTables!Build(f, "input") \o IPTables!Build(f, "forward")
             q1 == IPTables!RemoveChain(f, "input") \o IPTables!RemoveChain(f, "forward")
  <2>3. IPTables!SetupFamily(f) = IPTables!Build(f, "output") \o (p1 \o last2)
    BY <1>5 DEF IPTables!SetupFamily
  <2>4. IPTables!CleanupFamily(f) = IPTables!RemoveChain(f, "output") \o (q1 \o IPTables!RemoveChain(f, "prerouting"))
    BY <1>5 DEF IPTables!CleanupFamily
  <2> HIDE DEF A, B, C, E, last2
  <2>5. Program(p1, B \cup C) /\ Removal(q1, B \cup C)
    BY <1>3, <2>2, ConcatProgram, ConcatRemoval DEF B, C
  <2> HIDE DEF p1, q1
  <2>6. Program(p1 \o last2, (B \cup C) \cup E)
    BY <1>2, <2>2, <2>5, ConcatProgram DEF E
  <2>7. Removal(q1 \o IPTables!RemoveChain(f, "prerouting"), (B \cup C) \cup E)
    BY <1>3, <2>5, ConcatRemoval DEF E
  <2>8. Program(IPTables!Build(f, "output") \o (p1 \o last2), A \cup ((B \cup C) \cup E))
    BY <1>3, <2>2, <2>6, ConcatProgram DEF A
  <2>9. Removal(IPTables!RemoveChain(f, "output") \o (q1 \o IPTables!RemoveChain(f, "prerouting")),
                A \cup ((B \cup C) \cup E))
    BY <1>3, <2>7, ConcatRemoval DEF A
  <2> QED BY <2>1, <2>3, <2>4, <2>8, <2>9
<1> QED BY <1>4, <1>5

LEMMA WholePrograms ==
  ASSUME PreRules \in Nat, IPTFamilies \subseteq {4, 6}
  PROVE  Removal(IPTables!Cleanup, Managed) /\ Program(IPTables!Setup, Managed)
<1> DEFINE K(f) == IF f \in IPTFamilies THEN FamilyKeys(f) ELSE {}
           C(f) == IF f \in IPTFamilies THEN IPTables!CleanupFamily(f) ELSE <<>>
           S(f) == IF f \in IPTFamilies THEN IPTables!SetupFamily(f) ELSE <<>>
<1>1. \A f \in {4, 6} : Removal(C(f), K(f)) /\ Program(S(f), K(f))
  <2> SUFFICES ASSUME NEW f \in {4, 6} PROVE Removal(C(f), K(f)) /\ Program(S(f), K(f))
    OBVIOUS
  <2>1. CASE f \in IPTFamilies
    <3>1. C(f) = IPTables!CleanupFamily(f) /\ S(f) = IPTables!SetupFamily(f) /\ K(f) = FamilyKeys(f)
      BY <2>1
    <3> HIDE DEF C, S, K
    <3> QED BY <3>1, FamilyPrograms
  <2>2. CASE f \notin IPTFamilies
    BY <2>2, EmptyPrograms
  <2> QED BY <2>1, <2>2
<1>2. K(4) \cap K(6) = {} /\ Managed = K(4) \cup K(6)
  <2>1. \A f : K(f) = {k \in IPTFamilies \X (IF android THEN {"output"} ELSE IPTables!Name) : k[1] = f}
    BY DEF FamilyKeys
  <2>2. \A k \in Managed : k[1] \in {4, 6}
    BY DEF Managed
  <2> HIDE DEF K
  <2> QED BY <2>1, <2>2 DEF Managed
<1>3. IPTables!Cleanup = C(4) \o C(6) /\ IPTables!Setup = S(4) \o S(6)
  BY DEF IPTables!Cleanup, IPTables!Setup
<1>4. Removal(C(4), K(4)) /\ Program(S(4), K(4)) /\ Removal(C(6), K(6)) /\ Program(S(6), K(6))
  BY <1>1
<1> HIDE DEF K, C, S
<1> QED BY <1>2, <1>3, <1>4, ConcatRemoval, ConcatProgram

\* How far chain k has come in a removal and in a setup
Leaving(s, k) ==
  \/ chain[k] = IPTables!Absent /\ jumps[k] = 0
  \/ Has(s, "D", k)
  \/ s # <<>> /\ s[1].key = k /\ jumps[k] = 0 /\ s[1].op = "F"
  \/ s # <<>> /\ s[1].key = k /\ jumps[k] = 0 /\ s[1].op = "X" /\ chain[k] \in {IPTables!Absent, 0}

Coming(s, r, k) ==
  IF s # <<>> /\ s[1].key = k /\ s[1].op # "N"
  THEN s[1].op = "conflict" \/ (jumps[k] = 0 /\ chain[k] = IPTables!Rules(k[2]) - r[1])
  ELSE Has(s, "N", k) \/ (chain[k] = IPTables!Rules(k[2]) /\ jumps[k] = 1)

Commands(s) == s \in Seq(Command) /\ \A i \in 1 .. Len(s) : s[i].key \in Managed

IPTRemoving ==
  /\ phase \in {"cleaning", "closing"} => Commands(todo) /\ RemovalShape(todo)
  /\ (phase = "closing" /\ ~dirty) => \A k \in Managed : Leaving(todo, k)
  /\ (phase = "closed" /\ ~dirty) => \A k \in Managed : chain[k] = IPTables!Absent /\ jumps[k] = 0

IPTSetting ==
  /\ phase = "setting" =>
       Commands(todo) /\ \E r : SetupShape(todo, r) /\ \A k \in Managed : Coming(todo, r, k)
  /\ phase = "up" => \A k \in Managed : chain[k] = IPTables!Rules(k[2]) /\ jumps[k] = 1

IPTOthers == \A k \in IPTables!Key \ Managed : chain[k] = IPTables!Absent /\ jumps[k] = 0

IPTInv == IPTables!TypeOK /\ IPTables!NoHalfChain /\ IPTOthers /\ IPTRemoving /\ IPTSetting

LEMMA InitIPT == ASSUME IPTables!FaultAssumption, IPTables!Init PROVE IPTInv
<1>1. /\ chain = [k \in IPTables!Key |-> IPTables!Absent] /\ jumps = [k \in IPTables!Key |-> 0]
      /\ phase = "off" /\ faults = 0 /\ dirty \in BOOLEAN /\ android \in BOOLEAN /\ conflict \subseteq {4, 6}
  BY DEF IPTables!Init
<1>2. IPTables!TypeOK
  BY <1>1 DEF IPTables!TypeOK, IPTables!FaultAssumption, IPTables!Absent
<1>3. IPTables!NoHalfChain /\ IPTOthers
  BY <1>1 DEF IPTables!NoHalfChain, IPTOthers
<1> QED BY <1>1, <1>2, <1>3 DEF IPTInv, IPTRemoving, IPTSetting

LEMMA RulesBound ==
  ASSUME IPTables!FaultAssumption, NEW k \in IPTables!Key
  PROVE  IPTables!Rules(k[2]) \in 0 .. PreRules + 2
  BY DEF IPTables!FaultAssumption, IPTables!Key, IPTables!Name, IPTables!Rules

LEMMA ManagedKeys == ASSUME IPTables!FaultAssumption PROVE Managed \subseteq IPTables!Key
  BY DEF Managed, IPTables!FaultAssumption, IPTables!Key, IPTables!Name

(* Start, Removed and Close put a whole program before the process. *)
LEMMA CallsKeep ==
  ASSUME IPTables!FaultAssumption, IPTInv,
         IPTables!Start \/ IPTables!Removed \/ IPTables!Close
  PROVE  IPTInv'
<1>0. /\ UNCHANGED <<android, chain, jumps, conflict, faults>> /\ dirty' \in BOOLEAN
      /\ phase' \in {"cleaning", "closing", "setting", "closed"}
  BY DEF IPTables!Start, IPTables!Removed, IPTables!Close, IPTInv, IPTables!TypeOK
<1>1. IPTables!TypeOK' /\ IPTables!NoHalfChain' /\ IPTOthers' /\ Managed' = Managed
  BY <1>0 DEF IPTInv, IPTables!TypeOK, IPTables!NoHalfChain, IPTOthers, Managed
<1>2. Removal(IPTables!Cleanup, Managed) /\ Program(IPTables!Setup, Managed)
  BY WholePrograms DEF IPTables!FaultAssumption
<1>3. CASE phase' = "cleaning" \/ phase' = "closing"
  <2>1. todo' = IPTables!Cleanup
    BY <1>3 DEF IPTables!Start, IPTables!Removed, IPTables!Close
  <2>2. Commands(todo)' /\ RemovalShape(todo') /\ \A k \in Managed : Has(todo', "D", k)
    BY <1>1, <1>2, <2>1 DEF Removal, Commands
  <2> QED BY <1>1, <1>3, <2>2 DEF IPTInv, IPTRemoving, IPTSetting, Leaving
<1>4. CASE phase' = "setting"
  <2>1. todo' = IPTables!Setup
    BY <1>4 DEF IPTables!Start, IPTables!Removed, IPTables!Close
  <2>2. Commands(todo)' /\ (\A k \in Managed : Has(todo', "N", k)) /\ (todo' # <<>> => todo'[1].op = "N")
    BY <1>1, <1>2, <2>1 DEF Program, Commands
  <2>3. PICK r : SetupShape(todo', r)
    BY <1>2, <2>1 DEF Program
  <2>4. \A k \in Managed : Coming(todo, r, k)'
    BY <2>2 DEF Coming
  <2> QED BY <1>1, <1>4, <2>2, <2>3, <2>4 DEF IPTInv, IPTRemoving, IPTSetting
<1>5. CASE phase' = "closed"
  <2>1. phase = "closing" /\ todo = <<>> /\ dirty' = dirty
    BY <1>5 DEF IPTables!Start, IPTables!Removed, IPTables!Close
  <2>2. \A k : ~Has(todo, "D", k)
    BY <2>1 DEF Has
  <2>3. ~dirty => \A k \in Managed : chain[k] = IPTables!Absent /\ jumps[k] = 0
    BY <2>1, <2>2 DEF IPTInv, IPTRemoving, Leaving
  <2>4. IPTRemoving'
    BY <1>0, <1>1, <1>5, <2>1, <2>3 DEF IPTRemoving, IPTables!Absent
  <2> QED BY <1>1, <1>5, <2>4 DEF IPTInv, IPTSetting
<1> QED BY <1>0, <1>3, <1>4, <1>5

LEMMA EndsKeep ==
  ASSUME IPTables!FaultAssumption, IPTInv, IPTables!Started \/ IPTables!Restart
  PROVE  IPTInv'
<1>0. /\ UNCHANGED <<android, chain, jumps, conflict, faults, dirty>> /\ phase' \in {"up", "off"}
  BY DEF IPTables!Started, IPTables!Restart
<1>1. IPTables!TypeOK' /\ IPTables!NoHalfChain' /\ IPTOthers' /\ Managed' = Managed
  BY <1>0 DEF IPTInv, IPTables!TypeOK, IPTables!NoHalfChain, IPTOthers, Managed
<1>2. ASSUME phase' = "up" PROVE \A k \in Managed : chain[k] = IPTables!Rules(k[2]) /\ jumps[k] = 1
  <2>1. phase = "setting" /\ todo = <<>>
    BY <1>2 DEF IPTables!Started, IPTables!Restart
  <2>2. PICK r : \A k \in Managed : Coming(todo, r, k)
    BY <2>1 DEF IPTInv, IPTSetting
  <2>3. \A k : ~Has(todo, "N", k)
    BY <2>1 DEF Has
  <2> QED BY <2>1, <2>2, <2>3 DEF Coming
<1>3. IPTRemoving' /\ IPTSetting'
  BY <1>0, <1>1, <1>2 DEF IPTRemoving, IPTSetting, IPTables!Rules
<1> QED BY <1>1, <1>3 DEF IPTInv

(* What a command does to its own chain, and that it leaves the others. *)
LEMMA OneCommand ==
  ASSUME IPTables!FaultAssumption, IPTables!TypeOK, NEW c \in Command, IPTables!Possible(c), IPTables!Effect(c)
  PROVE  /\ chain' = [chain EXCEPT ![c.key] = chain'[c.key]] /\ jumps' = [jumps EXCEPT ![c.key] = jumps'[c.key]]
         /\ \A k \in IPTables!Key \ {c.key} : chain'[k] = chain[k] /\ jumps'[k] = jumps[k]
         /\ c.op = "N" => chain[c.key] = IPTables!Absent /\ chain'[c.key] = 0 /\ jumps'[c.key] = jumps[c.key]
         /\ c.op = "A" => chain[c.key] # IPTables!Absent /\ chain'[c.key] = chain[c.key] + 1
                          /\ jumps'[c.key] = jumps[c.key]
         /\ c.op = "I" => chain'[c.key] = chain[c.key] /\ jumps'[c.key] = jumps[c.key] + 1
         /\ c.op = "D" => chain'[c.key] = chain[c.key] /\ jumps[c.key] = 1 /\ jumps'[c.key] = 0
         /\ c.op = "F" => chain'[c.key] = 0 /\ jumps'[c.key] = jumps[c.key]
         /\ c.op = "X" => chain'[c.key] = IPTables!Absent /\ jumps'[c.key] = 0 /\ jumps[c.key] = 0
         /\ c.op # "conflict"
<1>0. /\ c.key \in IPTables!Key /\ chain \in [IPTables!Key -> {IPTables!Absent} \cup 0 .. (PreRules + 2)]
      /\ jumps \in [IPTables!Key -> 0 .. 1]
      /\ c.op \in {"N", "A", "I", "D", "F", "X", "conflict"}
  BY DEF Command, IPTables!TypeOK
<1>1. /\ chain' = [chain EXCEPT ![c.key] = CASE c.op \in {"N", "F"} -> 0 [] c.op = "A" -> chain[c.key] + 1
                                             [] c.op = "X" -> IPTables!Absent [] OTHER -> chain[c.key]]
      /\ jumps' = [jumps EXCEPT ![c.key] = CASE c.op = "I" -> jumps[c.key] + 1 [] c.op = "D" -> jumps[c.key] - 1
                                             [] OTHER -> jumps[c.key]]
  BY <1>0 DEF IPTables!Effect
<1>2. /\ chain'[c.key] = (CASE c.op \in {"N", "F"} -> 0 [] c.op = "A" -> chain[c.key] + 1
                            [] c.op = "X" -> IPTables!Absent [] OTHER -> chain[c.key])
      /\ jumps'[c.key] = (CASE c.op = "I" -> jumps[c.key] + 1 [] c.op = "D" -> jumps[c.key] - 1
                            [] OTHER -> jumps[c.key])
  BY <1>0, <1>1
<1>3. jumps[c.key] \in 0 .. 1
  BY <1>0
<1>4. /\ chain' = [chain EXCEPT ![c.key] = chain'[c.key]] /\ jumps' = [jumps EXCEPT ![c.key] = jumps'[c.key]]
      /\ \A k \in IPTables!Key \ {c.key} : chain'[k] = chain[k] /\ jumps'[k] = jumps[k]
  BY <1>0, <1>1
<1>5. /\ c.op = "N" => chain[c.key] = IPTables!Absent
      /\ c.op = "A" => chain[c.key] # IPTables!Absent
      /\ c.op = "D" => jumps[c.key] > 0
      /\ c.op = "X" => jumps[c.key] = 0
      /\ c.op # "conflict"
  BY <1>0 DEF IPTables!Possible
<1>6. CASE c.op = "N"
  BY <1>0, <1>2, <1>3, <1>4, <1>5, <1>6
<1>7. CASE c.op = "A"
  BY <1>0, <1>2, <1>3, <1>4, <1>5, <1>7
<1>8. CASE c.op = "I"
  BY <1>0, <1>2, <1>3, <1>4, <1>5, <1>8
<1>9. CASE c.op = "D"
  BY <1>0, <1>2, <1>3, <1>4, <1>5, <1>9
<1>10. CASE c.op = "F"
  BY <1>0, <1>2, <1>3, <1>4, <1>5, <1>10
<1>11. CASE c.op = "X"
  BY <1>0, <1>2, <1>3, <1>4, <1>5, <1>11
<1> QED BY <1>0, <1>5, <1>6, <1>7, <1>8, <1>9, <1>10, <1>11

\* The parts of the invariant that a command on chain k may break
KeyOK(ch, j, k) ==
  /\ ch \in {IPTables!Absent} \cup 0 .. (PreRules + 2) /\ j \in 0 .. 1
  /\ j > 0 => ch \in {0, IPTables!Rules(k[2])}

LEMMA CommandKeeps ==
  ASSUME IPTables!FaultAssumption, IPTables!TypeOK, IPTables!NoHalfChain, IPTOthers, NEW k \in Managed,
         chain' = [chain EXCEPT ![k] = chain'[k]], jumps' = [jumps EXCEPT ![k] = jumps'[k]],
         KeyOK(chain'[k], jumps'[k], k), UNCHANGED android
  PROVE  /\ chain' \in [IPTables!Key -> {IPTables!Absent} \cup 0 .. (PreRules + 2)]
         /\ jumps' \in [IPTables!Key -> 0 .. 1]
         /\ IPTables!NoHalfChain' /\ IPTOthers' /\ Managed' = Managed
<1>0. k \in IPTables!Key
  BY ManagedKeys
<1>1. /\ chain' \in [IPTables!Key -> {IPTables!Absent} \cup 0 .. (PreRules + 2)]
      /\ jumps' \in [IPTables!Key -> 0 .. 1]
      /\ \A x \in IPTables!Key \ {k} : chain'[x] = chain[x] /\ jumps'[x] = jumps[x]
  BY <1>0 DEF IPTables!TypeOK, KeyOK
<1>2. Managed' = Managed
  BY DEF Managed
<1>3. IPTables!NoHalfChain'
  <2> SUFFICES ASSUME NEW x \in IPTables!Key, jumps'[x] > 0 PROVE chain'[x] \in {0, IPTables!Rules(x[2])}
    BY DEF IPTables!NoHalfChain, IPTables!Rules
  <2> QED BY <1>1 DEF IPTables!NoHalfChain, KeyOK
<1>4. IPTOthers'
  BY <1>0, <1>1, <1>2 DEF IPTOthers, IPTables!Absent
<1> QED BY <1>1, <1>2, <1>3, <1>4

LEMMA TailOf ==
  ASSUME NEW s \in Seq(Command), s # <<>>
  PROVE  /\ Head(s) = s[1] /\ s[1] \in Command /\ 1 \in 1 .. Len(s)
         /\ Tail(s) \in Seq(Command) /\ Len(Tail(s)) = Len(s) - 1 /\ Len(s) \in Nat
         /\ \A i \in 1 .. Len(s) - 1 : Tail(s)[i] = s[i + 1] /\ i + 1 \in 1 .. Len(s)
         /\ \A op, k : Has(s, op, k) => (s[1].op = op /\ s[1].key = k) \/ Has(Tail(s), op, k)
<1>0. Len(s) \in Nat /\ Len(s) # 0
  BY EmptySeq, LenProperties
<1>1. /\ Tail(s) \in Seq(Command) /\ Len(Tail(s)) = Len(s) - 1
      /\ \A i \in 1 .. Len(Tail(s)) : Tail(s)[i] = s[i + 1]
  BY HeadTailProperties
<1>2. Head(s) = s[1] /\ s[1] \in Command /\ 1 \in 1 .. Len(s)
  BY <1>0, ElementOfSeq
<1> DEFINE t == Tail(s)
<1> HIDE DEF t
<1>t. t \in Seq(Command) /\ Len(t) = Len(s) - 1 /\ \A i \in 1 .. Len(t) : t[i] = s[i + 1]
  BY <1>1 DEF t
<1>3. \A i \in 1 .. Len(s) - 1 : t[i] = s[i + 1] /\ i + 1 \in 1 .. Len(s)
  BY <1>0, <1>t
<1>4. ASSUME NEW op, NEW k, Has(s, op, k) PROVE (s[1].op = op /\ s[1].key = k) \/ Has(t, op, k)
  <2>1. PICK j \in 1 .. Len(s) : s[j].op = op /\ s[j].key = k
    BY <1>4 DEF Has
  <2>2. CASE j = 1
    BY <2>1, <2>2
  <2>3. CASE j # 1
    <3>1. j - 1 \in 1 .. Len(t) /\ j - 1 \in 1 .. Len(s) - 1 /\ (j - 1) + 1 = j
      BY <1>0, <1>t, <2>3
    <3>2. t[j - 1] = s[j]
      BY <1>3, <3>1
    <3> QED BY <2>1, <3>1, <3>2 DEF Has
  <2> QED BY <2>2, <2>3
<1> QED BY <1>0, <1>2, <1>t, <1>3, <1>4 DEF t

LEMMA RemovalRest ==
  ASSUME NEW s \in Seq(Command), s # <<>>, RemovalShape(s)
  PROVE  RemovalShape(Tail(s))
<1> DEFINE t == Tail(s)
<1>1. /\ Len(t) = Len(s) - 1 /\ Len(s) \in Nat
      /\ \A i \in 1 .. Len(s) - 1 : t[i] = s[i + 1] /\ i + 1 \in 1 .. Len(s)
  BY TailOf
<1> HIDE DEF t
<1>2. ASSUME NEW i \in 1 .. Len(t)
      PROVE /\ t[i].op \in {"D", "F", "X"}
            /\ t[i].op = "D" => i < Len(t) /\ t[i + 1].op = "F" /\ t[i + 1].key = t[i].key
            /\ t[i].op = "F" => i < Len(t) /\ t[i + 1].op = "X" /\ t[i + 1].key = t[i].key
  BY <1>1 DEF RemovalShape
<1> QED BY <1>2 DEF RemovalShape, t

LEMMA SetupRest ==
  ASSUME NEW s \in Seq(Command), s # <<>>, NEW r, SetupShape(s, r)
  PROVE  SetupShape(Tail(s), [i \in 1 .. Len(s) |-> r[i + 1]])
<1> DEFINE t == Tail(s)
           q == [i \in 1 .. Len(s) |-> r[i + 1]]
<1>1. /\ Len(t) = Len(s) - 1 /\ Len(s) \in Nat
      /\ \A i \in 1 .. Len(s) - 1 : t[i] = s[i + 1] /\ i + 1 \in 1 .. Len(s)
  BY TailOf
<1>q. \A i \in 1 .. Len(s) : q[i] = r[i + 1]
  OBVIOUS
<1> HIDE DEF t, q
<1> SUFFICES ASSUME NEW i \in 1 .. Len(t)
      PROVE /\ t[i].op \in {"N", "A", "I", "conflict"} /\ q[i] \in Nat
            /\ t[i].op = "N" => /\ i < Len(t) /\ t[i + 1].key = t[i].key
                                /\ \/ t[i + 1].op = "conflict"
                                   \/ t[i + 1].op \in {"A", "I"} /\ q[i + 1] = IPTables!Rules(t[i].key[2])
            /\ t[i].op = "A" => /\ i < Len(t) /\ t[i + 1].key = t[i].key /\ t[i + 1].op \in {"A", "I"}
                                /\ q[i] > 0 /\ q[i + 1] = q[i] - 1
            /\ t[i].op = "I" => q[i] = 0
            /\ (t[i].op \in {"I", "conflict"} /\ i < Len(t)) => t[i + 1].op = "N"
            /\ t[i].op = "N" => \A j \in 1 .. Len(t) : t[j].key = t[i].key => i <= j
  BY DEF SetupShape, t, q
<1>2. t[i] = s[i + 1] /\ i + 1 \in 1 .. Len(s) /\ q[i] = r[i + 1]
  BY <1>1, <1>q
<1>3. /\ i + 1 < Len(s) <=> i < Len(t)
      /\ i + 1 < Len(s) => t[i + 1] = s[(i + 1) + 1] /\ q[i + 1] = r[(i + 1) + 1]
  BY <1>1, <1>q
<1>4. t[i].op = "N" => \A j \in 1 .. Len(t) : t[j].key = t[i].key => i <= j
  <2> SUFFICES ASSUME t[i].op = "N", NEW j \in 1 .. Len(t), t[j].key = t[i].key PROVE i <= j
    OBVIOUS
  <2>1. t[j] = s[j + 1] /\ j + 1 \in 1 .. Len(s)
    BY <1>1
  <2>2. i + 1 <= j + 1
    BY <1>2, <2>1 DEF SetupShape
  <2> QED BY <1>1, <2>2
<1> QED BY <1>2, <1>3, <1>4 DEF SetupShape

LEMMA RemovalKeeps ==
  ASSUME IPTables!FaultAssumption, IPTInv, NEW ok \in BOOLEAN, ok \/ faults < MaxFaults, IPTables!RunRemoval(ok)
  PROVE  IPTInv'
<1>0. /\ phase \in {"cleaning", "closing"} /\ todo # <<>> /\ todo' = Tail(todo)
      /\ UNCHANGED <<android, conflict, phase>>
      /\ todo \in Seq(Command) /\ RemovalShape(todo) /\ \A i \in 1 .. Len(todo) : todo[i].key \in Managed
  BY DEF IPTables!RunRemoval, IPTInv, IPTRemoving, Commands
<1> DEFINE c == todo[1]
           k == c.key
<1>1. /\ Head(todo) = c /\ c \in Command /\ 1 \in 1 .. Len(todo)
      /\ todo' \in Seq(Command) /\ Len(todo') = Len(todo) - 1 /\ Len(todo) \in Nat
      /\ \A i \in 1 .. Len(todo) - 1 : todo'[i] = todo[i + 1] /\ i + 1 \in 1 .. Len(todo)
      /\ \A op, x : Has(todo, op, x) => (c.op = op /\ k = x) \/ Has(todo', op, x)
  BY <1>0, TailOf
<1>2. k \in Managed /\ k \in IPTables!Key /\ c.op \in {"D", "F", "X"}
  BY <1>0, <1>1, ManagedKeys DEF RemovalShape
<1>3. RemovalShape(todo') /\ \A i \in 1 .. Len(todo') : todo'[i].key \in Managed
  BY <1>0, <1>1, RemovalRest
<1>4. /\ c.op = "D" => todo' # <<>> /\ todo'[1].op = "F" /\ todo'[1].key = k
      /\ c.op = "F" => todo' # <<>> /\ todo'[1].op = "X" /\ todo'[1].key = k
  <2>1. c.op \in {"D", "F"} => 1 < Len(todo)
    BY <1>0, <1>1 DEF RemovalShape
  <2>2. 1 < Len(todo) => Len(todo') # 0 /\ todo'[1] = todo[1 + 1]
    BY <1>1
  <2>3. todo' = <<>> => Len(todo') = 0
    OBVIOUS
  <2> QED BY <1>0, <1>1, <2>1, <2>2, <2>3 DEF RemovalShape
<1>t. IPTables!TypeOK /\ IPTables!NoHalfChain /\ IPTOthers
  BY DEF IPTInv
<1>c. /\ chain[k] \in {IPTables!Absent} \cup 0 .. (PreRules + 2) /\ jumps[k] \in 0 .. 1
      /\ jumps[k] > 0 => chain[k] \in {0, IPTables!Rules(k[2])}
      /\ IPTables!Rules(k[2]) \in 0 .. PreRules + 2
      /\ PreRules \in Nat /\ IPTables!Absent = -1
  BY <1>2, <1>t, RulesBound DEF IPTables!TypeOK, IPTables!NoHalfChain, IPTables!FaultAssumption, IPTables!Absent
<1>f. faults' \in 0 .. MaxFaults /\ dirty' \in BOOLEAN /\ (dirty => dirty')
  <2>1. faults \in 0 .. MaxFaults /\ dirty \in BOOLEAN /\ MaxFaults \in Nat
    BY <1>t DEF IPTables!TypeOK, IPTables!FaultAssumption
  <2>2. CASE ok /\ IPTables!Possible(Head(todo))
    <3>1. UNCHANGED <<faults, dirty>>
      BY <2>2 DEF IPTables!RunRemoval
    <3> QED BY <2>1, <3>1
  <2>3. CASE ~(ok /\ IPTables!Possible(Head(todo)))
    <3>1. faults' = (IF ok THEN faults ELSE faults + 1) /\ dirty' = (dirty \/ ~ok)
      BY <2>3 DEF IPTables!RunRemoval
    <3>2. faults' \in 0 .. MaxFaults
      BY <2>1, <3>1
    <3> QED BY <2>1, <3>1, <3>2
  <2> QED BY <2>2, <2>3
<1> HIDE DEF c, k
\* The command's own chain, and the others
<1>5. /\ chain' = [chain EXCEPT ![k] = chain'[k]] /\ jumps' = [jumps EXCEPT ![k] = jumps'[k]]
      /\ \A x \in IPTables!Key \ {k} : chain'[x] = chain[x] /\ jumps'[x] = jumps[x]
      /\ KeyOK(chain'[k], jumps'[k], k)
      /\ ~dirty' => /\ c.op = "D" => jumps'[k] = 0
                    /\ c.op = "F" => jumps'[k] = jumps[k] /\ chain'[k] \in {IPTables!Absent, 0}
                    /\ (c.op = "X" /\ jumps[k] = 0 /\ chain[k] \in {IPTables!Absent, 0})
                            => chain'[k] = IPTables!Absent /\ jumps'[k] = 0
                    /\ chain[k] = IPTables!Absent /\ jumps[k] = 0 => chain'[k] = IPTables!Absent /\ jumps'[k] = 0
  <2>1. CASE ok /\ IPTables!Possible(c)
    <3>0. IPTables!Effect(c)
      BY <1>1, <2>1 DEF IPTables!RunRemoval
    <3>1. /\ chain' = [chain EXCEPT ![k] = chain'[k]] /\ jumps' = [jumps EXCEPT ![k] = jumps'[k]]
          /\ \A x \in IPTables!Key \ {k} : chain'[x] = chain[x] /\ jumps'[x] = jumps[x]
          /\ c.op = "D" => chain'[k] = chain[k] /\ jumps[k] = 1 /\ jumps'[k] = 0
          /\ c.op = "F" => chain'[k] = 0 /\ jumps'[k] = jumps[k]
          /\ c.op = "X" => chain'[k] = IPTables!Absent /\ jumps'[k] = 0 /\ jumps[k] = 0
      BY <1>1, <1>t, <2>1, <3>0, OneCommand DEF k
    <3>2. c.op = "F" => chain[k] # IPTables!Absent
      BY <2>1 DEF IPTables!Possible, k
    <3>3. CASE c.op = "D"
      BY <1>c, <3>1, <3>3 DEF KeyOK
    <3>4. CASE c.op = "F"
      BY <1>c, <3>1, <3>2, <3>4 DEF KeyOK
    <3>5. CASE c.op = "X"
      BY <1>c, <3>1, <3>5 DEF KeyOK
    <3> QED BY <1>2, <3>3, <3>4, <3>5
  <2>2. CASE ~(ok /\ IPTables!Possible(c))
    <3>1. UNCHANGED <<chain, jumps>> /\ (~dirty' => ok)
      BY <1>1, <2>2 DEF IPTables!RunRemoval
    <3>2. chain = [chain EXCEPT ![k] = chain[k]] /\ jumps = [jumps EXCEPT ![k] = jumps[k]]
      BY <1>t DEF IPTables!TypeOK
    <3>3. ok => /\ c.op = "D" => ~(jumps[k] > 0)
                /\ c.op = "F" => chain[k] = IPTables!Absent
                /\ c.op = "X" => ~(chain[k] = 0 /\ jumps[k] = 0)
      BY <2>2 DEF IPTables!Possible, k
    <3> QED BY <1>c, <3>1, <3>2, <3>3 DEF KeyOK
  <2> QED BY <2>1, <2>2
<1>6. /\ chain' \in [IPTables!Key -> {IPTables!Absent} \cup 0 .. (PreRules + 2)]
      /\ jumps' \in [IPTables!Key -> 0 .. 1]
      /\ IPTables!NoHalfChain' /\ IPTOthers' /\ Managed' = Managed
  BY <1>0, <1>2, <1>t, <1>5, CommandKeeps
<1>7. IPTables!TypeOK'
  BY <1>0, <1>6, <1>f, <1>t DEF IPTables!TypeOK, IPTables!Absent, IPTables!Key
<1>8. ASSUME phase = "closing", ~dirty', NEW x \in Managed PROVE Leaving(todo, x)'
  <2>0. Leaving(todo, x) /\ x \in IPTables!Key
    BY <1>f, <1>8, ManagedKeys DEF IPTInv, IPTRemoving
  <2>1. CASE x # k
    <3>1. chain'[x] = chain[x] /\ jumps'[x] = jumps[x]
      BY <1>5, <2>0, <2>1
    <3>2. c = todo[1] /\ todo[1].key = k
      BY DEF c, k
    <3> QED BY <1>1, <2>0, <2>1, <3>1, <3>2 DEF Leaving, IPTables!Absent
  <2>2. CASE x = k
    <3>1. CASE c.op = "D"
      BY <1>4, <1>5, <1>8, <2>2, <3>1 DEF Leaving, IPTables!Absent
    <3>2. CASE c.op = "F"
      <4>1. Has(todo, "D", k) => Has(todo', "D", k)
        BY <1>1, <3>2
      <4>2. c = todo[1] /\ todo[1].key = k
        BY DEF c, k
      <4>3. jumps[k] = 0 \/ Has(todo, "D", k)
        BY <2>0, <2>2 DEF Leaving
      <4>4. chain'[k] \in {IPTables!Absent, 0} /\ jumps'[k] = jumps[k]
        BY <1>5, <1>8, <3>2
      <4>5. IPTables!Absent' = IPTables!Absent
        BY DEF IPTables!Absent
      <4> QED BY <1>4, <2>2, <3>2, <4>1, <4>3, <4>4, <4>5 DEF Leaving
    <3>3. CASE c.op = "X"
      <4>1. Has(todo, "D", k) => Has(todo', "D", k)
        BY <1>1, <3>3
      <4>2. c = todo[1] /\ todo[1].key = k
        BY DEF c, k
      <4>3. IPTables!Absent' = IPTables!Absent
        BY DEF IPTables!Absent
      <4> QED BY <1>5, <1>8, <2>0, <2>2, <3>3, <4>1, <4>2, <4>3 DEF Leaving
    <3> QED BY <1>2, <3>1, <3>2, <3>3
  <2> QED BY <2>1, <2>2
<1>9. IPTRemoving' /\ IPTSetting'
  BY <1>0, <1>1, <1>3, <1>6, <1>8 DEF IPTRemoving, IPTSetting, Commands
<1> QED BY <1>6, <1>7, <1>9 DEF IPTInv

LEMMA SetupKeeps ==
  ASSUME IPTables!FaultAssumption, IPTInv, NEW ok \in BOOLEAN, ok \/ faults < MaxFaults, IPTables!RunSetup(ok)
  PROVE  IPTInv'
<1>0. /\ phase = "setting" /\ todo # <<>>
      /\ UNCHANGED <<android, conflict, dirty>> /\ faults' = (IF ok THEN faults ELSE faults + 1)
      /\ todo \in Seq(Command) /\ \A i \in 1 .. Len(todo) : todo[i].key \in Managed
  BY DEF IPTables!RunSetup, IPTInv, IPTSetting, Commands
<1>t. IPTables!TypeOK /\ IPTables!NoHalfChain /\ IPTOthers
  BY DEF IPTInv
<1>f. faults' \in 0 .. MaxFaults /\ dirty' \in BOOLEAN
  BY <1>t, <1>0 DEF IPTables!TypeOK, IPTables!FaultAssumption
<1>1. CASE ~(ok /\ IPTables!Possible(Head(todo)))
  <2>1. UNCHANGED <<chain, jumps, android, conflict>> /\ phase' = "failed"
    BY <1>0, <1>1 DEF IPTables!RunSetup
  <2>2. IPTables!TypeOK' /\ IPTables!NoHalfChain' /\ IPTOthers'
    BY <1>t, <1>f, <2>1 DEF IPTables!TypeOK, IPTables!NoHalfChain, IPTOthers, Managed
  <2> QED BY <2>1, <2>2 DEF IPTInv, IPTRemoving, IPTSetting
<1>2. CASE ok /\ IPTables!Possible(Head(todo))
  <2>0. IPTables!Effect(Head(todo)) /\ todo' = Tail(todo) /\ phase' = phase
    BY <1>2 DEF IPTables!RunSetup
  <2>r. PICK r : SetupShape(todo, r) /\ \A x \in Managed : Coming(todo, r, x)
    BY <1>0 DEF IPTInv, IPTSetting
  <2> DEFINE c == todo[1]
             k == c.key
  <2>1. /\ Head(todo) = c /\ c \in Command /\ 1 \in 1 .. Len(todo)
        /\ todo' \in Seq(Command) /\ Len(todo') = Len(todo) - 1 /\ Len(todo) \in Nat
        /\ \A i \in 1 .. Len(todo) - 1 : todo'[i] = todo[i + 1] /\ i + 1 \in 1 .. Len(todo)
        /\ \A op, x : Has(todo, op, x) => (c.op = op /\ k = x) \/ Has(todo', op, x)
    BY <1>0, <2>0, TailOf
  <2>2. PICK q : SetupShape(todo', q) /\ q[1] = r[1 + 1]
    <3>1. SetupShape(todo', [i \in 1 .. Len(todo) |-> r[i + 1]])
      BY <1>0, <2>0, <2>r, SetupRest
    <3>2. [i \in 1 .. Len(todo) |-> r[i + 1]][1] = r[1 + 1]
      BY <2>1
    <3> QED BY <3>1, <3>2
  <2>3. k \in Managed /\ k \in IPTables!Key /\ c.op \in {"N", "A", "I", "conflict"} /\ Coming(todo, r, k)
    BY <1>0, <2>1, <2>r, ManagedKeys DEF SetupShape
  <2>4. /\ c.op = "N" => todo' # <<>> /\ todo'[1].key = k
                        /\ (todo'[1].op = "conflict" \/ (todo'[1].op \in {"A", "I"} /\ q[1] = IPTables!Rules(k[2])))
        /\ c.op = "A" => todo' # <<>> /\ todo'[1].key = k /\ todo'[1].op \in {"A", "I"}
                        /\ r[1] \in Nat /\ r[1] > 0 /\ q[1] = r[1] - 1
        /\ c.op = "I" => r[1] = 0
        /\ (c.op \in {"I", "conflict"} /\ todo' # <<>>) => todo'[1].op = "N"
    <3>1. c.op \in {"N", "A"} => 1 < Len(todo)
      BY <2>1, <2>r DEF SetupShape
    <3>2. 1 < Len(todo) => Len(todo') # 0 /\ todo'[1] = todo[1 + 1]
      BY <2>1
    <3>3. todo' = <<>> <=> Len(todo') = 0
      BY <2>1, EmptySeq
    <3>4. Len(todo') # 0 => 1 < Len(todo)
      BY <2>1
    <3>5. /\ c.op = "N" => /\ todo[1 + 1].key = k
                            /\ \/ todo[1 + 1].op = "conflict"
                               \/ todo[1 + 1].op \in {"A", "I"} /\ r[1 + 1] = IPTables!Rules(k[2])
          /\ c.op = "A" => /\ todo[1 + 1].key = k /\ todo[1 + 1].op \in {"A", "I"}
                            /\ r[1] > 0 /\ r[1 + 1] = r[1] - 1
          /\ c.op = "I" => r[1] = 0
          /\ r[1] \in Nat
          /\ (c.op \in {"I", "conflict"} /\ 1 < Len(todo)) => todo[1 + 1].op = "N"
      BY <2>1, <2>r DEF SetupShape
    <3> HIDE DEF c, k
    <3> DEFINE next == todo[1 + 1]
    <3> HIDE DEF next
    <3>6. 1 < Len(todo) => todo' # <<>> /\ todo'[1] = next
      BY <3>2, <3>3 DEF next
    <3>7. todo' # <<>> => 1 < Len(todo)
      BY <3>3, <3>4
    <3>8. CASE c.op = "N"
      BY <3>1, <3>6, <3>8, <2>2, <3>5 DEF next
    <3>9. CASE c.op = "A"
      BY <2>2, <3>1, <3>5, <3>6, <3>9 DEF next
    <3>10. CASE c.op \notin {"N", "A"}
      BY <3>5, <3>6, <3>7, <3>10 DEF next
    <3> QED BY <3>8, <3>9, <3>10
  <2>5. todo[1] = c /\ todo[1].key = k
    OBVIOUS
  <2>n. \A j \in 1 .. Len(todo) : todo[j].op = "N" /\ todo[j].key = k => j <= 1
    BY <2>1, <2>r DEF SetupShape
  <2>c. /\ chain[k] \in {IPTables!Absent} \cup 0 .. (PreRules + 2) /\ jumps[k] \in 0 .. 1
        /\ jumps[k] > 0 => chain[k] \in {0, IPTables!Rules(k[2])}
        /\ IPTables!Rules(k[2]) \in 0 .. PreRules + 2
        /\ PreRules \in Nat /\ IPTables!Absent = -1
    BY <1>t, <2>3, RulesBound DEF IPTables!TypeOK, IPTables!NoHalfChain, IPTables!FaultAssumption, IPTables!Absent
  <2> HIDE DEF c, k
  <2>6. /\ chain' = [chain EXCEPT ![k] = chain'[k]] /\ jumps' = [jumps EXCEPT ![k] = jumps'[k]]
        /\ \A x \in IPTables!Key \ {k} : chain'[x] = chain[x] /\ jumps'[x] = jumps[x]
        /\ c.op = "N" => chain[k] = IPTables!Absent /\ chain'[k] = 0 /\ jumps'[k] = jumps[k]
        /\ c.op = "A" => chain[k] # IPTables!Absent /\ chain'[k] = chain[k] + 1 /\ jumps'[k] = jumps[k]
        /\ c.op = "I" => chain'[k] = chain[k] /\ jumps'[k] = jumps[k] + 1
        /\ c.op # "conflict"
    BY <1>2, <1>t, <2>0, <2>1, OneCommand DEF k
  <2>7. c.op \in {"A", "I"} => jumps[k] = 0 /\ chain[k] = IPTables!Rules(k[2]) - r[1]
    BY <1>0, <2>3, <2>5 DEF Coming
  <2>8. KeyOK(chain'[k], jumps'[k], k)
    <3>1. CASE c.op = "N"
      BY <2>6, <2>c, <3>1 DEF KeyOK
    <3>2. CASE c.op = "A"
      BY <2>4, <2>6, <2>7, <2>c, <3>2 DEF KeyOK
    <3>3. CASE c.op = "I"
      BY <2>4, <2>6, <2>7, <2>c, <3>3 DEF KeyOK
    <3> QED BY <2>3, <2>6, <3>1, <3>2, <3>3
  <2>9. /\ chain' \in [IPTables!Key -> {IPTables!Absent} \cup 0 .. (PreRules + 2)]
        /\ jumps' \in [IPTables!Key -> 0 .. 1]
        /\ IPTables!NoHalfChain' /\ IPTOthers' /\ Managed' = Managed
    BY <1>0, <1>t, <2>3, <2>6, <2>8, CommandKeeps
  <2>10. IPTables!TypeOK'
    BY <1>0, <1>f, <1>t, <2>0, <2>9 DEF IPTables!TypeOK, IPTables!Absent, IPTables!Key
  <2>11. ASSUME NEW x \in Managed PROVE Coming(todo, q, x)'
    <3>1. CASE x # k
      <4>1. chain'[x] = chain[x] /\ jumps'[x] = jumps[x]
        BY <2>6, <3>1, ManagedKeys
      <4>2. Coming(todo, r, x) /\ todo[1].key # x
        BY <2>5, <2>r, <3>1
      <4>3. todo' # <<>> /\ todo'[1].key = x => todo'[1].op = "N"
        BY <2>3, <2>4, <3>1
      <4>4. Has(todo, "N", x) => Has(todo', "N", x)
        BY <2>1, <3>1
      <4> QED BY <4>1, <4>2, <4>3, <4>4 DEF Coming, IPTables!Rules
    <3>2. CASE x = k /\ c.op = "N"
      BY <2>4, <2>6, <2>c, <3>2 DEF Coming, IPTables!Rules
    <3>3. CASE x = k /\ c.op = "A"
      <4>1. jumps'[k] = 0 /\ chain'[k] = IPTables!Rules(k[2]) - q[1]
        BY <2>4, <2>6, <2>7, <2>c, <3>3
      <4>2. todo' # <<>> /\ todo'[1].key = k /\ todo'[1].op # "N"
        BY <2>4, <3>3
      <4> QED BY <3>3, <4>1, <4>2 DEF Coming, IPTables!Rules
    <3>4. CASE x = k /\ c.op = "I"
      BY <2>4, <2>6, <2>7, <2>c, <3>4 DEF Coming, IPTables!Rules
    <3> QED BY <2>3, <2>6, <3>1, <3>2, <3>3, <3>4
  <2>12. Commands(todo)'
    BY <1>0, <2>1, <2>9 DEF Commands
  <2>13. IPTSetting'
    BY <1>0, <2>0, <2>2, <2>9, <2>11, <2>12 DEF IPTSetting
  <2> QED BY <1>0, <2>0, <2>9, <2>10, <2>13 DEF IPTInv, IPTRemoving
<1> QED BY <1>1, <1>2

LEMMA IPTKeeps == ASSUME IPTables!FaultAssumption, IPTInv, IPTables!Next PROVE IPTInv'
  BY CallsKeep, EndsKeep, RemovalKeeps, SetupKeeps DEF IPTables!Next

LEMMA IPTShows ==
  ASSUME IPTables!FaultAssumption, IPTInv
  PROVE  IPTables!TypeOK /\ IPTables!NoHalfChain /\ IPTables!ClosedLeavesNothing /\ IPTables!UpIsComplete
<1>1. IPTables!ClosedLeavesNothing
  BY DEF IPTInv, IPTOthers, IPTRemoving, IPTables!ClosedLeavesNothing
<1>2. ASSUME phase = "up", NEW f \in IPTFamilies, NEW c \in (IF android THEN {"output"} ELSE IPTables!Name)
      PROVE chain[<<f, c>>] = IPTables!Rules(c) /\ jumps[<<f, c>>] = 1
  <2>1. <<f, c>> \in Managed
    BY <1>2 DEF Managed
  <2> QED BY <1>2, <2>1 DEF IPTInv, IPTSetting
<1> QED BY <1>1, <1>2 DEF IPTInv, IPTables!UpIsComplete

LEMMA IPTInvariant == Spec => [](part = "iptables" => IPTInv)
<1>1. Init => (part = "iptables" => IPTInv)
  BY InitIPT, FaultsAssumed DEF Init
<1>2. IPTInv /\ [IPTables!Next]_(IPTables!vars) => IPTInv'
  <2> SUFFICES ASSUME IPTInv, UNCHANGED IPTables!vars PROVE IPTInv'
    BY IPTKeeps, FaultsAssumed
  <2>1. UNCHANGED <<android, chain, jumps, conflict, todo, phase, faults, dirty>>
    BY DEF IPTables!vars
  <2>2. Managed' = Managed
    BY <2>1 DEF Managed
  <2>3. IPTables!TypeOK' /\ IPTables!NoHalfChain' /\ IPTOthers'
    BY <2>1, <2>2 DEF IPTInv, IPTOthers, IPTables!TypeOK, IPTables!NoHalfChain
  <2>4. \A s, r, k : Commands(s)' = Commands(s) /\ Leaving(s, k)' = Leaving(s, k) /\ Coming(s, r, k)' = Coming(s, r, k)
    BY <2>1, <2>2 DEF Commands, Leaving, Coming
  <2>5. IPTRemoving' /\ IPTSetting'
    BY <2>1, <2>2, <2>4 DEF IPTInv, IPTRemoving, IPTSetting
  <2> QED BY <2>3, <2>5 DEF IPTInv
<1>3. (part = "iptables" => IPTInv) /\ [Next]_vars => (part = "iptables" => IPTInv)'
  <2> SUFFICES ASSUME part = "iptables" => IPTInv, [Next]_vars, part' = "iptables" PROVE IPTInv'
    OBVIOUS
  <2>1. part = "iptables" /\ [IPTables!Next]_(IPTables!vars)
    BY DEF Next, vars, IPTables!vars, chain, jumps, conflict, todo, phase, faults, dirty, android
  <2> QED BY <1>2, <2>1
<1> QED BY <1>1, <1>3, PTL DEF Spec

(* Close of auto-redirect, and what there is while it runs: for every number
   of rules, failing commands and processes, every set of families and every
   set of addresses, nothing is half there, and nothing is left but by an error
   that the last clean-up itself met and dropped. *)
THEOREM NothingLeftTheorem == Spec => []NothingIsLeft
<1>1. /\ part = "iptables" => IPTInv
      /\ part = "redirect" => RedirectInv
      => NothingIsLeft
  BY IPTShows, FaultsAssumed, RedirectShows DEF NothingIsLeft
<1> QED BY <1>1, IPTInvariant, RedirectInvariant, PTL

----------------------------------------
(* RedirectChain (redirect_nftables.go, redirect_nftables_rules.go,         *)
(* redirect_iptables.go).  The argument: a packet of a known flow meets no  *)
(* NAT chain, and what the other chains do with it follows from the flow's  *)
(* translation and its mark in conntrack, which the first packet left       *)
(* there; a reply does not change them where it would matter.               *)
\* A packet between two chains, with its flow's mark in conntrack
OnTheWay == [verdict : {"accept", "drop", "reject"}, nat : Chains!NAT, mark : Chains!Mark, ctmark : Chains!Mark]

Entry == [known : BOOLEAN, mark : Chains!Mark, nat : Chains!NAT]
NoEntry == [known |-> FALSE, mark |-> "none", nat |-> "none"]


\* What the rules make of a packet
Answers == {"return", "hijack", "continue", "drop"}

LEMMA ExcludeAnswers ==
  ASSUME NEW p, NEW f, NEW s, NEW type, NEW m PROVE Chains!ExcludeRules(p, f, s, type, m) \in Answers
  BY DEF Chains!ExcludeRules, Answers

LEMMA MarksFields ==
  ASSUME NEW k \in OnTheWay
  PROVE  /\ Chains!Marks(k) \in OnTheWay
         /\ Chains!Marks(k).verdict = k.verdict /\ Chains!Marks(k).nat = k.nat
         /\ Chains!Marks(k).mark = "input" /\ Chains!Marks(k).ctmark = "input"
<1> DEFINE j == [k EXCEPT !.mark = "input"]
<1>1. "input" \in Chains!Mark
  BY DEF Chains!Mark
<1>2. j \in OnTheWay /\ j.verdict = k.verdict /\ j.nat = k.nat /\ j.mark = "input"
  BY <1>1 DEF OnTheWay
<1>3. Chains!Marks(k) = [j EXCEPT !.ctmark = "input"]
  BY Zenon DEF Chains!Marks
<1> HIDE DEF j
<1> QED BY <1>1, <1>2, <1>3 DEF OnTheWay

LEMMA SetNAT ==
  ASSUME NEW k \in OnTheWay, NEW n \in Chains!NAT
  PROVE  LET j == [k EXCEPT !.nat = n]
         IN  j \in OnTheWay /\ j.verdict = k.verdict /\ j.nat = n /\ j.mark = k.mark /\ j.ctmark = k.ctmark
  BY DEF OnTheWay

LEMMA SetVerdict ==
  ASSUME NEW k \in OnTheWay, NEW v \in {"accept", "drop", "reject"}
  PROVE  LET j == [k EXCEPT !.verdict = v]
         IN  j \in OnTheWay /\ j.verdict = v /\ j.nat = k.nat /\ j.mark = k.mark /\ j.ctmark = k.ctmark
  BY DEF OnTheWay

LEMMA SetMark ==
  ASSUME NEW k \in OnTheWay, NEW m \in Chains!Mark
  PROVE  LET j == [k EXCEPT !.mark = m]
         IN  j \in OnTheWay /\ j.verdict = k.verdict /\ j.nat = k.nat /\ j.mark = m /\ j.ctmark = k.ctmark
  BY DEF OnTheWay

(* The NAT chain, field by field *)
LEMMA NATFields ==
  ASSUME NEW p, NEW f, NEW s, NEW k \in OnTheWay
  PROVE  LET n == Chains!NATChain(p, f, s, k)
             x == Chains!ExcludeRules(p, f, s, "nat", k.ctmark)
         IN  /\ n \in OnTheWay
             /\ n.verdict # k.verdict => n.verdict \in {"drop", "reject"}
             /\ (f.hook = "output" /\ ~p.mark) =>
                  n = IF f.oif = "tun" /\ Chains!Redirected(p, f) THEN [k EXCEPT !.nat = "redirect"] ELSE k
             /\ ~(f.hook = "output" /\ ~p.mark) =>
                  /\ x = "hijack" => n = [k EXCEPT !.nat = "hijack"]
                  /\ x = "drop" => n = [k EXCEPT !.verdict = "drop"]
                  /\ x = "return" => n = k
                  /\ (x = "continue" /\ Chains!Unreachable(p, f)) => n = [k EXCEPT !.verdict = "reject"]
                  /\ (x = "continue" /\ ~Chains!Unreachable(p, f) /\ Chains!Redirected(p, f))
                        => n = [k EXCEPT !.nat = "redirect"]
                  /\ (x = "continue" /\ ~Chains!Unreachable(p, f) /\ ~Chains!Redirected(p, f))
                        => n = IF f.hook = "prerouting" /\ p.mark THEN Chains!Marks(k) ELSE k
<1> DEFINE n == Chains!NATChain(p, f, s, k)
           x == Chains!ExcludeRules(p, f, s, "nat", k.ctmark)
<1>1. x \in Answers
  BY ExcludeAnswers
<1>2. n = IF f.hook = "output" /\ ~p.mark
       THEN IF f.oif = "tun" /\ Chains!Redirected(p, f) THEN [k EXCEPT !.nat = "redirect"] ELSE k
       ELSE CASE x = "hijack" -> [k EXCEPT !.nat = "hijack"]
              [] x = "drop" -> [k EXCEPT !.verdict = "drop"]
              [] x = "return" -> k
              [] x = "continue" ->
                 CASE Chains!Unreachable(p, f) -> [k EXCEPT !.verdict = "reject"]
                   [] ~Chains!Unreachable(p, f) /\ Chains!Redirected(p, f) -> [k EXCEPT !.nat = "redirect"]
                   [] OTHER -> IF f.hook = "prerouting" /\ p.mark THEN Chains!Marks(k) ELSE k
  BY DEF Chains!NATChain, Chains!Rejects
<1> HIDE DEF x, n
<1>3. /\ (f.hook = "output" /\ ~p.mark) =>
           n = IF f.oif = "tun" /\ Chains!Redirected(p, f) THEN [k EXCEPT !.nat = "redirect"] ELSE k
      /\ ~(f.hook = "output" /\ ~p.mark) =>
           /\ x = "hijack" => n = [k EXCEPT !.nat = "hijack"]
           /\ x = "drop" => n = [k EXCEPT !.verdict = "drop"]
           /\ x = "return" => n = k
           /\ (x = "continue" /\ Chains!Unreachable(p, f)) => n = [k EXCEPT !.verdict = "reject"]
           /\ (x = "continue" /\ ~Chains!Unreachable(p, f) /\ Chains!Redirected(p, f))
                 => n = [k EXCEPT !.nat = "redirect"]
           /\ (x = "continue" /\ ~Chains!Unreachable(p, f) /\ ~Chains!Redirected(p, f))
                 => n = IF f.hook = "prerouting" /\ p.mark THEN Chains!Marks(k) ELSE k
  BY <1>1, <1>2 DEF Answers
<1>4. n \in {k, Chains!Marks(k), [k EXCEPT !.nat = "hijack"], [k EXCEPT !.nat = "redirect"],
             [k EXCEPT !.verdict = "drop"], [k EXCEPT !.verdict = "reject"]}
  BY <1>1, <1>3 DEF Answers
<1>5. "hijack" \in Chains!NAT /\ "redirect" \in Chains!NAT
  BY DEF Chains!NAT
<1>6. n \in OnTheWay /\ (n.verdict # k.verdict => n.verdict \in {"drop", "reject"})
  BY <1>5, <1>4, MarksFields DEF OnTheWay
<1> QED BY <1>3, <1>6 DEF n, x

(* The chains after it *)
LEMMA RerouteFields ==
  ASSUME NEW p, NEW f, NEW k \in OnTheWay
  PROVE  LET n == Chains!LoopbackReroute(p, f, k)
             here == p.mark /\ f.proto = "tcp" /\ k.mark # "input" /\ k.nat = "none" /\ Chains!InLoopbackSet(p, f)
         IN  /\ n \in OnTheWay /\ n.verdict = k.verdict /\ n.nat = k.nat
             /\ n.mark = IF here THEN "input" ELSE k.mark
             /\ n.ctmark = IF here /\ f.hook = "output" THEN "input" ELSE k.ctmark
<1>1. "input" \in Chains!Mark
  BY DEF Chains!Mark
<1> DEFINE here == p.mark /\ f.proto = "tcp" /\ k.mark # "input" /\ k.nat = "none" /\ Chains!InLoopbackSet(p, f)
           n == Chains!LoopbackReroute(p, f, k)
<1>2. n = IF here THEN IF f.hook = "output" THEN Chains!Marks(k) ELSE [k EXCEPT !.mark = "input"] ELSE k
  BY DEF Chains!LoopbackReroute
<1> HIDE DEF here, n
<1>6. /\ n \in OnTheWay /\ n.verdict = k.verdict /\ n.nat = k.nat
      /\ n.mark = IF here THEN "input" ELSE k.mark
      /\ n.ctmark = IF here /\ f.hook = "output" THEN "input" ELSE k.ctmark
  BY <1>2, <1>1, MarksFields, SetMark
<1> QED BY <1>6 DEF here, n

LEMMA PreroutingFields ==
  ASSUME NEW p, NEW iif, NEW f, NEW k \in OnTheWay
  PROVE  LET n == Chains!PreroutingUDP(p, iif, f, k)
             here == p.mark /\ Chains!IsUDPOrICMP(f) /\ iif # "tun"
         IN  /\ n \in OnTheWay /\ n.verdict = k.verdict /\ n.nat = k.nat
             /\ n.mark = IF here THEN IF k.ctmark = "input" THEN "input" ELSE "output" ELSE k.mark
             /\ n.ctmark = IF here /\ k.ctmark # "input" THEN "output" ELSE k.ctmark
<1>1. "input" \in Chains!Mark /\ "output" \in Chains!Mark
  BY DEF Chains!Mark
<1> DEFINE here == p.mark /\ Chains!IsUDPOrICMP(f) /\ iif # "tun"
           n == Chains!PreroutingUDP(p, iif, f, k)
           j == [k EXCEPT !.mark = "output"]
           l == [k EXCEPT !.mark = "output", !.ctmark = "output"]
<1>2. j \in OnTheWay /\ j.verdict = k.verdict /\ j.nat = k.nat /\ j.mark = "output"
  BY <1>1, SetMark
<1>3. l = [j EXCEPT !.ctmark = "output"]
  BY Zenon
<1>4. n = IF ~here THEN k ELSE IF k.ctmark = "input" THEN [k EXCEPT !.mark = "input"] ELSE l
  BY Zenon DEF Chains!PreroutingUDP
<1> HIDE DEF here, n, j, l
<1>5. l \in OnTheWay /\ l.verdict = k.verdict /\ l.nat = k.nat /\ l.mark = "output" /\ l.ctmark = "output"
  BY <1>1, <1>2, <1>3 DEF OnTheWay
<1>9. /\ n \in OnTheWay /\ n.verdict = k.verdict /\ n.nat = k.nat
      /\ n.mark = IF here THEN IF k.ctmark = "input" THEN "input" ELSE "output" ELSE k.mark
      /\ n.ctmark = IF here /\ k.ctmark # "input" THEN "output" ELSE k.ctmark
  BY <1>4, <1>1, <1>5, SetMark
<1> QED BY <1>9 DEF here, n

LEMMA OutputFields ==
  ASSUME NEW p, NEW f, NEW s, NEW k \in OnTheWay
  PROVE  LET n == Chains!OutputUDP(p, f, s, k)
             now == IF k.nat = "hijack" THEN [f EXCEPT !.dst = "lan"] ELSE f
             x == Chains!ExcludeRules(p, now, s, "route", k.ctmark)
         IN  /\ n \in OnTheWay
             /\ (~p.mark \/ x \in {"return", "hijack"}) => n = k
             /\ (p.mark /\ x = "drop") => n = [k EXCEPT !.verdict = "drop"]
             /\ (p.mark /\ x = "continue") => n = IF Chains!Unreachable(p, f) THEN [k EXCEPT !.verdict = "reject"]
                                                  ELSE Chains!Marks(k)
<1> DEFINE n == Chains!OutputUDP(p, f, s, k)
           now == IF k.nat = "hijack" THEN [f EXCEPT !.dst = "lan"] ELSE f
           x == Chains!ExcludeRules(p, now, s, "route", k.ctmark)
<1>1. x \in Answers
  BY ExcludeAnswers
<1>2. n = CASE ~p.mark \/ x \in {"return", "hijack"} -> k
            [] p.mark /\ x = "drop" -> [k EXCEPT !.verdict = "drop"]
            [] OTHER -> IF Chains!Unreachable(p, f) THEN [k EXCEPT !.verdict = "reject"] ELSE Chains!Marks(k)
  BY DEF Chains!OutputUDP, Chains!Rejects
<1> HIDE DEF x, n
<1>3. /\ (~p.mark \/ x \in {"return", "hijack"}) => n = k
      /\ (p.mark /\ x = "drop") => n = [k EXCEPT !.verdict = "drop"]
      /\ (p.mark /\ x = "continue") => n = IF Chains!Unreachable(p, f) THEN [k EXCEPT !.verdict = "reject"]
                                           ELSE Chains!Marks(k)
  BY <1>2
<1>4. n \in OnTheWay
  BY <1>1, <1>3, MarksFields DEF OnTheWay, Answers
<1> QED BY <1>3, <1>4 DEF n, x

----------------------------------------
(* A packet through all chains of its hook, after the NAT chain *)
Enters(f, c) == [verdict |-> "accept", nat |-> c.nat, mark |-> IF f.own THEN "output" ELSE "none", ctmark |-> c.mark]

AfterNAT(p, f, s, c) == IF c.known THEN Enters(f, c) ELSE Chains!NATChain(p, f, s, Enters(f, c))

LEMMA EntersIs ==
  ASSUME NEW f, NEW c \in Entry
  PROVE  Enters(f, c) \in OnTheWay /\ Enters(f, c).mark # "input"
  BY DEF Entry, Chains!Mark, Enters, OnTheWay

LEMMA AfterNATIs ==
  ASSUME NEW p, NEW f, NEW s, NEW c \in Entry
  PROVE  /\ AfterNAT(p, f, s, c) \in OnTheWay
         /\ AfterNAT(p, f, s, c).verdict # "accept" => AfterNAT(p, f, s, c).verdict \in {"drop", "reject"}
  BY EntersIs, NATFields DEF AfterNAT, OnTheWay

LEMMA ThroughIs ==
  ASSUME NEW p, NEW f, NEW s, NEW c \in Entry, f.hook \in {"output", "prerouting"}
  PROVE  LET k == Chains!Through(p, f, s, c)
             skip == f.hook = "output" /\ Chains!SkipOutput(p)
             n == AfterNAT(p, f, s, c)
             l == Chains!LoopbackReroute(p, f, n)
         IN  /\ skip => k = Enters(f, c)
             /\ (~skip /\ n.verdict # "accept") => k = n
             /\ (~skip /\ n.verdict = "accept") =>
                   k = IF f.hook = "prerouting" THEN Chains!PreroutingUDP(p, f.iif, f, l) ELSE Chains!OutputUDP(p, f, s, l)
<1> DEFINE k == Chains!Through(p, f, s, c)
           skip == f.hook = "output" /\ Chains!SkipOutput(p)
           n == AfterNAT(p, f, s, c)
           l == Chains!LoopbackReroute(p, f, n)
           e == [verdict |-> "accept", nat |-> c.nat, ctmark |-> c.mark, mark |-> IF f.own THEN "output" ELSE "none"]
           nat == IF c.known \/ skip THEN e ELSE Chains!NATChain(p, f, s, e)
           route == IF nat.verdict # "accept" \/ skip THEN nat ELSE Chains!LoopbackReroute(p, f, nat)
<1>1. k = IF route.verdict # "accept" THEN route
          ELSE IF f.hook = "prerouting" THEN Chains!PreroutingUDP(p, f.iif, f, route)
          ELSE IF Chains!SkipOutput(p) THEN route ELSE Chains!OutputUDP(p, f, s, route)
  BY DEF Chains!Through
<1>2. e = Enters(f, c) /\ e.verdict = "accept"
  BY DEF Enters
<1> HIDE DEF k, e
<1>3. CASE skip
  <2>1. route = e
    BY <1>3
  <2> HIDE DEF route
  <2>2. k = e
    BY <1>1, <1>2, <1>3, <2>1
  <2> QED BY <1>2, <1>3, <2>2 DEF k
<1>4. CASE ~skip
  <2>1. nat = n
    BY <1>2, <1>4 DEF AfterNAT
  <2>2. n \in OnTheWay
    BY AfterNATIs
  <2> HIDE DEF nat, n
  <2>3. CASE n.verdict # "accept"
    <3>1. route = n
      BY <2>1, <2>3
    <3> HIDE DEF route
    <3>2. k = n
      BY <1>1, <2>3, <3>1
    <3> QED BY <1>4, <2>3, <3>2 DEF k, n
  <2>4. CASE n.verdict = "accept"
    <3>1. route = l /\ l.verdict = "accept"
      BY <1>4, <2>1, <2>2, <2>4, RerouteFields
    <3> HIDE DEF route, l
    <3>2. k = IF f.hook = "prerouting" THEN Chains!PreroutingUDP(p, f.iif, f, l)
              ELSE IF Chains!SkipOutput(p) THEN l ELSE Chains!OutputUDP(p, f, s, l)
      BY <1>1, <3>1
    <3>3. k = IF f.hook = "prerouting" THEN Chains!PreroutingUDP(p, f.iif, f, l) ELSE Chains!OutputUDP(p, f, s, l)
      <4>1. CASE f.hook = "prerouting"
        BY <3>2, <4>1
      <4>2. CASE f.hook # "prerouting"
        BY <1>4, <4>2, <3>2
      <4> QED BY <4>1, <4>2
    <3> QED BY <1>4, <2>4, <3>3 DEF k, n, l
  <2> QED BY <2>3, <2>4
<1> QED BY <1>3, <1>4

Cap(k) == Chains!Captured(Chains!Result(k))

LEMMA CapIs ==
  ASSUME NEW k PROVE Cap(k) <=> k.verdict = "accept" /\ (k.nat # "none" \/ k.mark = "input")
  BY DEF Cap, Chains!Captured, Chains!Result

\* The chains of the flow's own direction, hook by hook
LEMMA ThroughPrerouting ==
  ASSUME NEW p, NEW f, NEW s, NEW c \in Entry, f.hook = "prerouting", AfterNAT(p, f, s, c).verdict = "accept"
  PROVE  LET k == Chains!Through(p, f, s, c)
             n == AfterNAT(p, f, s, c)
             here == p.mark /\ Chains!IsUDPOrICMP(f) /\ f.iif # "tun"
             re == p.mark /\ f.proto = "tcp" /\ n.mark # "input" /\ n.nat = "none" /\ Chains!InLoopbackSet(p, f)
         IN  /\ k \in OnTheWay /\ k.verdict = "accept" /\ k.nat = n.nat
             /\ k.mark = IF here THEN IF n.ctmark = "input" THEN "input" ELSE "output"
                         ELSE IF re THEN "input" ELSE n.mark
             /\ k.ctmark = IF here /\ n.ctmark # "input" THEN "output" ELSE n.ctmark
<1> DEFINE k == Chains!Through(p, f, s, c)
           n == AfterNAT(p, f, s, c)
           l == Chains!LoopbackReroute(p, f, n)
           here == p.mark /\ Chains!IsUDPOrICMP(f) /\ f.iif # "tun"
           re == p.mark /\ f.proto = "tcp" /\ n.mark # "input" /\ n.nat = "none" /\ Chains!InLoopbackSet(p, f)
<1>1. n \in OnTheWay /\ n.verdict = "accept"
  BY AfterNATIs
<1>2. k = Chains!PreroutingUDP(p, f.iif, f, l)
  BY ThroughIs
<1> HIDE DEF k, n
<1>3. /\ l \in OnTheWay /\ l.verdict = "accept" /\ l.nat = n.nat
      /\ l.mark = (IF re THEN "input" ELSE n.mark) /\ l.ctmark = n.ctmark
  BY <1>1, RerouteFields
<1> HIDE DEF l, re
<1>4. /\ k \in OnTheWay /\ k.verdict = l.verdict /\ k.nat = l.nat
      /\ k.mark = (IF here THEN IF l.ctmark = "input" THEN "input" ELSE "output" ELSE l.mark)
      /\ k.ctmark = (IF here /\ l.ctmark # "input" THEN "output" ELSE l.ctmark)
  BY <1>2, <1>3, PreroutingFields
<1> HIDE DEF here
<1>5. /\ k \in OnTheWay /\ k.verdict = "accept" /\ k.nat = n.nat
      /\ k.mark = IF here THEN IF n.ctmark = "input" THEN "input" ELSE "output"
                   ELSE IF re THEN "input" ELSE n.mark
      /\ k.ctmark = IF here /\ n.ctmark # "input" THEN "output" ELSE n.ctmark
  BY <1>3, <1>4
<1> QED BY <1>5 DEF k, n, here, re

LEMMA ThroughOutput ==
  ASSUME NEW p, NEW f, NEW s, NEW c \in Entry, f.hook = "output", ~Chains!SkipOutput(p),
         AfterNAT(p, f, s, c).verdict = "accept"
  PROVE  LET k == Chains!Through(p, f, s, c)
             n == AfterNAT(p, f, s, c)
             l == Chains!LoopbackReroute(p, f, n)
             re == p.mark /\ f.proto = "tcp" /\ n.mark # "input" /\ n.nat = "none" /\ Chains!InLoopbackSet(p, f)
         IN  /\ k = Chains!OutputUDP(p, f, s, l)
             /\ l \in OnTheWay /\ l.verdict = "accept" /\ l.nat = n.nat
             /\ l.mark = (IF re THEN "input" ELSE n.mark) /\ l.ctmark = (IF re THEN "input" ELSE n.ctmark)
<1>1. AfterNAT(p, f, s, c) \in OnTheWay
  BY AfterNATIs
<1>2. Chains!Through(p, f, s, c) = Chains!OutputUDP(p, f, s, Chains!LoopbackReroute(p, f, AfterNAT(p, f, s, c)))
  BY ThroughIs
<1> DEFINE n == AfterNAT(p, f, s, c)
           l == Chains!LoopbackReroute(p, f, n)
           re == p.mark /\ f.proto = "tcp" /\ n.mark # "input" /\ n.nat = "none" /\ Chains!InLoopbackSet(p, f)
<1> HIDE DEF n
<1>3. /\ l \in OnTheWay /\ l.verdict = n.verdict /\ l.nat = n.nat
      /\ l.mark = (IF re THEN "input" ELSE n.mark) /\ l.ctmark = (IF re /\ f.hook = "output" THEN "input" ELSE n.ctmark)
  <2>1. n \in OnTheWay
    BY <1>1 DEF n
  <2> QED BY <2>1, RerouteFields
<1> HIDE DEF l, re
<1>4. /\ l \in OnTheWay /\ l.verdict = "accept" /\ l.nat = n.nat
      /\ l.mark = (IF re THEN "input" ELSE n.mark) /\ l.ctmark = (IF re THEN "input" ELSE n.ctmark)
  BY <1>3 DEF n
<1> QED BY <1>2, <1>4 DEF n, l, re

LEMMA ThroughType ==
  ASSUME NEW p, NEW f, NEW s, NEW c \in Entry, f.hook \in {"output", "prerouting"}
  PROVE  Chains!Through(p, f, s, c) \in OnTheWay
<1>1. CASE f.hook = "output" /\ Chains!SkipOutput(p)
  BY <1>1, ThroughIs, EntersIs
<1>2. CASE ~(f.hook = "output" /\ Chains!SkipOutput(p)) /\ AfterNAT(p, f, s, c).verdict # "accept"
  BY <1>2, ThroughIs, AfterNATIs
<1>3. CASE f.hook = "prerouting" /\ AfterNAT(p, f, s, c).verdict = "accept"
  BY <1>3, ThroughPrerouting
<1>4. CASE f.hook = "output" /\ ~Chains!SkipOutput(p) /\ AfterNAT(p, f, s, c).verdict = "accept"
  <2> DEFINE l == Chains!LoopbackReroute(p, f, AfterNAT(p, f, s, c))
  <2>1. l \in OnTheWay /\ Chains!Through(p, f, s, c) = Chains!OutputUDP(p, f, s, l)
    BY <1>4, ThroughOutput
  <2> HIDE DEF l
  <2>2. Chains!OutputUDP(p, f, s, l) \in OnTheWay
    BY <2>1, OutputFields
  <2> QED BY <2>1, <2>2
<1> QED BY <1>1, <1>2, <1>3, <1>4

----------------------------------------
(* What the rules answer, where it matters *)
LEMMA TCPOnRoute ==
  ASSUME NEW p, NEW g, NEW s, NEW m, p.mark, g.hook = "output", g.proto = "tcp"
  PROVE  Chains!ExcludeRules(p, g, s, "route", m) = "return"
  BY DEF Chains!ReturnOwn, Chains!IsUDPOrICMP, Chains!ExcludeRules

LEMMA OwnReturns ==
  ASSUME NEW p, NEW g, NEW s, NEW m, NEW type, p.mark, g.hook = "output", g.own
  PROVE  Chains!ExcludeRules(p, g, s, type, m) = "return"
<1>1. Chains!ReturnOwn(p, g, type, m)
  BY DEF Chains!ReturnOwn
<1> QED BY <1>1 DEF Chains!ExcludeRules

LEMMA TunReturns ==
  ASSUME NEW p, NEW g, NEW s, NEW m, NEW type, g.hook = "prerouting", g.iif = "tun"
  PROVE  Chains!ExcludeRules(p, g, s, type, m) = "return"
<1>1. Chains!ReturnInterface(p, g)
  BY DEF Chains!ReturnInterface
<1> QED BY <1>1 DEF Chains!ExcludeRules

LEMMA LocalOnRoute ==
  ASSUME NEW p, NEW g, NEW s, NEW m, g.family \in p.families, g.dst = "lan"
  PROVE  Chains!ExcludeRules(p, g, s, "route", m) = "return"
  BY DEF Chains!Hijacked, Chains!ReturnLocal, Chains!InDestinationSet, Chains!ExcludeRules

LEMMA UDPOnRoute ==
  ASSUME NEW p, NEW g, NEW s, NEW m, NEW m1, p.mark, g.hook = "output", Chains!IsUDPOrICMP(g)
  PROVE  LET x == Chains!ExcludeRules(p, g, s, "nat", m)
             y == Chains!ExcludeRules(p, g, s, "route", m1)
         IN  /\ x # "drop" /\ y \in {"return", "continue"}
             /\ m1 = "output" => y = "return"
             /\ x = "return" => y = "return"
             /\ (x = "continue" /\ m1 # "output") => y = "continue"
<1>1. ~Chains!IsMPTCP(g)
  BY DEF Chains!IsUDPOrICMP, Chains!IsMPTCP
<1>2. ~Chains!Hijacked(p, g, "route")
  BY DEF Chains!Hijacked
<1>3. /\ Chains!ReturnOwn(p, g, "nat", m) <=> g.own
      /\ Chains!ReturnOwn(p, g, "route", m1) <=> g.own \/ m1 = "output"
  BY DEF Chains!ReturnOwn
<1> HIDE DEF Chains!IsUDPOrICMP
<1> DEFINE A == Chains!ReturnDNAT(p, g) \/ Chains!ReturnInterface(p, g)
                \/ Chains!ReturnMAC(p, g) \/ Chains!ReturnUID(p, g) \/ Chains!ReturnRoute(p, g)
           B == Chains!ReturnLocal(p, g) \/ Chains!ReturnSets(p, g, s)
<1>4. Chains!ExcludeRules(p, g, s, "nat", m) =
        IF A \/ g.own THEN "return" ELSE IF Chains!Hijacked(p, g, "nat") THEN "hijack"
        ELSE IF B THEN "return" ELSE "continue"
  BY <1>1, <1>3 DEF Chains!ExcludeRules
<1>5. Chains!ExcludeRules(p, g, s, "route", m1) =
        IF A \/ g.own \/ m1 = "output" THEN "return" ELSE IF B THEN "return" ELSE "continue"
  BY <1>1, <1>2, <1>3 DEF Chains!ExcludeRules
<1> HIDE DEF A, B
<1> QED BY <1>4, <1>5

----------------------------------------
(* Whether the packets of a known flow are captured *)
PreCap(p, f, c) ==
  \/ c.nat # "none"
  \/ IF p.mark /\ Chains!IsUDPOrICMP(f) /\ f.iif # "tun" THEN c.mark = "input"
     ELSE p.mark /\ f.proto = "tcp" /\ Chains!InLoopbackSet(p, f)

OutCap(p, f, s, c) ==
  \/ c.nat # "none"
  \/ ~Chains!SkipOutput(p) /\ p.mark /\ f.proto = "tcp" /\ Chains!InLoopbackSet(p, f)
  \/ ~Chains!SkipOutput(p) /\ p.mark /\ Chains!IsUDPOrICMP(f)
     /\ Chains!ExcludeRules(p, f, s, "route", c.mark) = "continue"

\* What conntrack holds after packet k
EntryOf(k) == [known |-> TRUE, mark |-> k.ctmark, nat |-> k.nat]

LEMMA EntryOfIs == ASSUME NEW k \in OnTheWay PROVE EntryOf(k) \in Entry
  BY DEF OnTheWay, Entry, EntryOf

LEMMA LaterPrerouting ==
  ASSUME NEW p, NEW f, NEW s, NEW c \in Entry, f.hook = "prerouting", c.known
  PROVE  LET k == Chains!Through(p, f, s, c)
         IN  k.verdict = "accept" /\ (Cap(k) <=> PreCap(p, f, c)) /\ (PreCap(p, f, EntryOf(k)) <=> PreCap(p, f, c))
<1> DEFINE k == Chains!Through(p, f, s, c)
           e == Enters(f, c)
           here == p.mark /\ Chains!IsUDPOrICMP(f) /\ f.iif # "tun"
           loop == p.mark /\ f.proto = "tcp" /\ Chains!InLoopbackSet(p, f)
<1>1. AfterNAT(p, f, s, c) = e /\ e.verdict = "accept" /\ e.nat = c.nat /\ e.ctmark = c.mark /\ e.mark # "input"
  BY EntersIs DEF AfterNAT, Enters
<1>2. /\ k \in OnTheWay /\ k.verdict = "accept" /\ k.nat = e.nat
      /\ k.mark = (IF here THEN IF e.ctmark = "input" THEN "input" ELSE "output"
                   ELSE IF p.mark /\ f.proto = "tcp" /\ e.mark # "input" /\ e.nat = "none" /\ Chains!InLoopbackSet(p, f)
                        THEN "input" ELSE e.mark)
      /\ k.ctmark = (IF here /\ e.ctmark # "input" THEN "output" ELSE e.ctmark)
  <2> HIDE DEF e, here, k
  <2> QED BY <1>1, ThroughPrerouting DEF here, k
<1>3. Cap(k) <=> k.verdict = "accept" /\ (k.nat # "none" \/ k.mark = "input")
  BY CapIs
<1> HIDE DEF k, e
<1>4. Cap(k) <=> PreCap(p, f, c)
  BY <1>1, <1>2, <1>3 DEF PreCap
<1>5. PreCap(p, f, EntryOf(k)) <=> PreCap(p, f, c)
  BY <1>1, <1>2 DEF PreCap, EntryOf
<1> QED BY <1>2, <1>4, <1>5 DEF k

LEMMA FirstPrerouting ==
  ASSUME NEW p, NEW f, NEW s, f.hook = "prerouting", f.family \in p.families, f.proto \in {"tcp", "udp", "icmp"},
         Chains!Through(p, f, s, NoEntry).verdict = "accept"
  PROVE  LET k == Chains!Through(p, f, s, NoEntry)
         IN  Cap(k) <=> PreCap(p, f, EntryOf(k))
<1> DEFINE k == Chains!Through(p, f, s, NoEntry)
           e == Enters(f, NoEntry)
           n == AfterNAT(p, f, s, NoEntry)
           x == Chains!ExcludeRules(p, f, s, "nat", e.ctmark)
           here == p.mark /\ Chains!IsUDPOrICMP(f) /\ f.iif # "tun"
<1>0. NoEntry \in Entry /\ ~NoEntry.known
  BY DEF NoEntry, Entry, Chains!Mark, Chains!NAT
<1>1. e \in OnTheWay /\ e.nat = "none" /\ e.ctmark = "none" /\ e.mark # "input" /\ e.verdict = "accept"
  BY <1>0, EntersIs DEF Enters, NoEntry
<1>2. n = Chains!NATChain(p, f, s, e)
  BY <1>0 DEF AfterNAT
<1>3. x \in Answers
  BY ExcludeAnswers
<1>4. n.verdict = "accept" /\ n \in OnTheWay
  BY <1>0, AfterNATIs, ThroughIs
<1>5. /\ k \in OnTheWay /\ k.verdict = "accept" /\ k.nat = n.nat
      /\ k.mark = (IF here THEN IF n.ctmark = "input" THEN "input" ELSE "output"
                   ELSE IF p.mark /\ f.proto = "tcp" /\ n.mark # "input" /\ n.nat = "none" /\ Chains!InLoopbackSet(p, f)
                        THEN "input" ELSE n.mark)
      /\ k.ctmark = (IF here /\ n.ctmark # "input" THEN "output" ELSE n.ctmark)
  <2> HIDE DEF k, n, here
  <2> QED BY <1>0, <1>4, ThroughPrerouting DEF k, n, here
<1>6. f.iif = "tun" => x = "return"
  BY TunReturns
<1>7. Chains!IsUDPOrICMP(f) <=> f.proto # "tcp"
  BY DEF Chains!IsUDPOrICMP
<1>8. Chains!Redirected(p, f) <=> f.proto = "tcp" /\ ~Chains!InLoopbackSet(p, f)
  BY DEF Chains!Redirected
<1>9. ~Chains!Unreachable(p, f)
  BY DEF Chains!Unreachable
<1> HIDE DEF k, e, n, x
<1>10. \/ n = e /\ (x = "return" \/ ~p.mark)
       \/ n.nat # "none"
       \/ n.nat = "none" /\ n.mark = "input" /\ n.ctmark = "input" /\ p.mark /\ x = "continue" /\ ~Chains!Redirected(p, f)
  <2>0. "hijack" \in Chains!NAT /\ "redirect" \in Chains!NAT
    BY DEF Chains!NAT
  <2>1. /\ x = "hijack" => n = [e EXCEPT !.nat = "hijack"]
        /\ x = "drop" => n = [e EXCEPT !.verdict = "drop"]
        /\ x = "return" => n = e
        /\ (x = "continue" /\ Chains!Redirected(p, f)) => n = [e EXCEPT !.nat = "redirect"]
        /\ (x = "continue" /\ ~Chains!Redirected(p, f)) => n = IF p.mark THEN Chains!Marks(e) ELSE e
    BY <1>1, <1>2, <1>9, NATFields DEF x
  <2>2. CASE x = "hijack" \/ (x = "continue" /\ Chains!Redirected(p, f))
    BY <1>1, <2>0, <2>1, <2>2, SetNAT
  <2>3. CASE x = "drop"
    BY <1>1, <1>4, <2>1, <2>3, SetVerdict
  <2>4. CASE x = "return"
    BY <2>1, <2>4
  <2>5. CASE x = "continue" /\ ~Chains!Redirected(p, f)
    BY <1>1, <2>1, <2>5, MarksFields
  <2> QED BY <1>3, <2>2, <2>3, <2>4, <2>5 DEF Answers
<1>11. Cap(k) <=> k.verdict = "accept" /\ (k.nat # "none" \/ k.mark = "input")
  BY CapIs
<1>12. Cap(k) <=> PreCap(p, f, EntryOf(k))
  BY <1>1, <1>5, <1>6, <1>7, <1>8, <1>10, <1>11 DEF PreCap, EntryOf
<1> QED BY <1>12 DEF k

LEMMA LaterOutput ==
  ASSUME NEW p, NEW f \in Chains!FlowType, NEW s, NEW c \in Entry, f.hook = "output", c.known, f.family \in p.families
  PROVE  LET k == Chains!Through(p, f, s, c)
         IN  k.verdict = "accept" /\ (Cap(k) <=> OutCap(p, f, s, c))
             /\ (OutCap(p, f, s, EntryOf(k)) <=> OutCap(p, f, s, c))
<1> DEFINE k == Chains!Through(p, f, s, c)
           e == Enters(f, c)
           loop == p.mark /\ f.proto = "tcp" /\ Chains!InLoopbackSet(p, f)
<1>1. AfterNAT(p, f, s, c) = e /\ e.verdict = "accept" /\ e.nat = c.nat /\ e.ctmark = c.mark /\ e.mark # "input"
  BY EntersIs DEF AfterNAT, Enters
<1>3. Cap(k) <=> k.verdict = "accept" /\ (k.nat # "none" \/ k.mark = "input")
  BY CapIs
<1>4. f.proto \in {"tcp", "udp", "icmp"} /\ (Chains!IsUDPOrICMP(f) <=> f.proto # "tcp")
  BY DEF Chains!FlowType, Chains!IsUDPOrICMP
<1>5. CASE Chains!SkipOutput(p)
  <2>1. k = e
    BY <1>5, ThroughIs
  <2> HIDE DEF k, e
  <2>2. Cap(k) <=> OutCap(p, f, s, c)
    BY <1>1, <1>3, <1>5, <2>1 DEF OutCap
  <2>3. OutCap(p, f, s, EntryOf(k)) <=> OutCap(p, f, s, c)
    BY <1>1, <1>5, <2>1 DEF OutCap, EntryOf
  <2> QED BY <1>1, <2>1, <2>2, <2>3 DEF k
<1>6. CASE ~Chains!SkipOutput(p)
  <2> DEFINE l == Chains!LoopbackReroute(p, f, e)
             re == loop /\ e.nat = "none"
             now == IF l.nat = "hijack" THEN [f EXCEPT !.dst = "lan"] ELSE f
             y == Chains!ExcludeRules(p, now, s, "route", l.ctmark)
  <2>1. /\ k = Chains!OutputUDP(p, f, s, l)
        /\ l \in OnTheWay /\ l.verdict = "accept" /\ l.nat = e.nat
        /\ l.mark = (IF re THEN "input" ELSE e.mark) /\ l.ctmark = (IF re THEN "input" ELSE e.ctmark)
    <3> HIDE DEF k, e
    <3> QED BY <1>1, <1>6, ThroughOutput DEF k
  <2>2. ~Chains!Unreachable(p, f)
    BY DEF Chains!Unreachable
  <2>3. now.hook = "output" /\ now.proto = f.proto /\ now.family = f.family
    BY DEF Chains!FlowType
  <2>4. l.nat = "hijack" => now.dst = "lan"
    BY DEF Chains!FlowType
  <2> HIDE DEF k, e, l, re
  <2>5. /\ (~p.mark \/ y \in {"return", "hijack"}) => k = l
        /\ (p.mark /\ y = "continue") => k = Chains!Marks(l)
    BY <2>1, <2>2, OutputFields
  <2>6. CASE ~p.mark
    <3>1. k = l /\ ~re
      BY <2>5, <2>6 DEF re
    <3>2. Cap(k) <=> OutCap(p, f, s, c)
      BY <1>1, <1>3, <2>1, <2>6, <3>1 DEF OutCap
    <3>3. OutCap(p, f, s, EntryOf(k)) <=> OutCap(p, f, s, c)
      BY <1>1, <2>1, <2>6, <3>1 DEF OutCap, EntryOf
    <3> QED BY <2>1, <3>1, <3>2, <3>3 DEF k
  <2>7. CASE p.mark /\ f.proto = "tcp"
    <3>1. y = "return"
      BY <2>3, <2>7, TCPOnRoute
    <3> HIDE DEF y, now
    <3>2. k = l
      BY <2>5, <3>1
    <3>3. ~Chains!IsUDPOrICMP(f)
      BY <1>4, <2>7
    <3>4. Cap(k) <=> OutCap(p, f, s, c)
      BY <1>1, <1>3, <1>6, <2>1, <2>7, <3>2, <3>3 DEF OutCap, re
    <3>5. OutCap(p, f, s, EntryOf(k)) <=> OutCap(p, f, s, c)
      BY <1>1, <2>1, <2>7, <3>2, <3>3 DEF OutCap, EntryOf
    <3> QED BY <2>1, <3>2, <3>4, <3>5 DEF k
  <2>8. CASE p.mark /\ f.proto # "tcp"
    <3>1. Chains!IsUDPOrICMP(f) /\ ~re /\ l.ctmark = c.mark /\ l.nat = c.nat /\ l.mark # "input"
      BY <1>1, <1>4, <2>1, <2>8 DEF re
    <3>2. CASE c.nat = "hijack"
      <4>1. y = "return"
        BY <2>3, <2>4, <3>1, <3>2, LocalOnRoute
      <4>2. k = l
        <5> HIDE DEF y, now
        <5> QED BY <2>5, <4>1
      <4>3. OutCap(p, f, s, c) /\ OutCap(p, f, s, EntryOf(k)) /\ Cap(k)
        BY <1>3, <2>1, <3>1, <3>2, <4>2 DEF OutCap, EntryOf
      <4> QED BY <2>1, <4>2, <4>3 DEF k
    <3>3. CASE c.nat # "hijack"
      <4>1. now = f
        BY <3>1, <3>3
      <4>2. y = Chains!ExcludeRules(p, f, s, "route", c.mark) /\ y \in {"return", "continue"} /\ (y = "continue" => c.mark # "output")
        BY <2>8, <3>1, <4>1, UDPOnRoute
      <4> HIDE DEF y, now
      <4>3. CASE y = "return"
        <5>1. k = l
          BY <2>5, <4>3
        <5>2. Cap(k) <=> OutCap(p, f, s, c)
          BY <1>3, <1>4, <2>1, <2>8, <3>1, <4>2, <4>3, <5>1 DEF OutCap
        <5>3. OutCap(p, f, s, EntryOf(k)) <=> OutCap(p, f, s, c)
          BY <3>1, <5>1 DEF OutCap, EntryOf
        <5> QED BY <2>1, <5>1, <5>2, <5>3 DEF k
      <4>4. CASE y = "continue"
        <5>1. k = Chains!Marks(l)
          BY <2>5, <2>8, <4>4
        <5>2. k.verdict = "accept" /\ k.mark = "input" /\ k.ctmark = "input" /\ k.nat = c.nat
          BY <2>1, <3>1, <5>1, MarksFields
        <5>3. Chains!ExcludeRules(p, f, s, "route", "input") = "continue"
          <6>1. Chains!ExcludeRules(p, f, s, "route", c.mark) = "continue" /\ c.mark # "output"
            BY <4>2, <4>4
          <6> QED BY <2>8, <3>1, <6>1 DEF Chains!ExcludeRules, Chains!ReturnOwn, Chains!Hijacked
        <5>4. OutCap(p, f, s, c) /\ Cap(k)
          BY <1>3, <1>6, <2>8, <3>1, <4>2, <4>4, <5>2 DEF OutCap
        <5>5. OutCap(p, f, s, EntryOf(k))
          BY <1>6, <2>8, <3>1, <5>2, <5>3 DEF OutCap, EntryOf
        <5> QED BY <5>2, <5>4, <5>5 DEF k
      <4> QED BY <4>2, <4>3, <4>4
    <3> QED BY <3>2, <3>3
  <2> QED BY <2>6, <2>7, <2>8
<1> QED BY <1>5, <1>6

LEMMA NoEntryIs == NoEntry \in Entry /\ ~NoEntry.known /\ NoEntry.mark = "none" /\ NoEntry.nat = "none"
  BY DEF NoEntry, Entry, Chains!Mark, Chains!NAT

\* The first packet of a flow in the NAT chain of its hook
LEMMA FirstNAT ==
  ASSUME NEW p, NEW f, NEW s, f.family \in p.families, ~(f.hook = "output" /\ ~p.mark)
  PROVE  LET e == Enters(f, NoEntry)
             n == AfterNAT(p, f, s, NoEntry)
             x == Chains!ExcludeRules(p, f, s, "nat", "none")
         IN  /\ e \in OnTheWay /\ e.nat = "none" /\ e.ctmark = "none" /\ e.mark # "input" /\ e.verdict = "accept"
             /\ n \in OnTheWay /\ x \in Answers
             /\ x = "hijack" => n = [e EXCEPT !.nat = "hijack"]
             /\ x = "drop" => n.verdict = "drop"
             /\ x = "return" => n = e
             /\ (x = "continue" /\ Chains!Redirected(p, f)) => n = [e EXCEPT !.nat = "redirect"]
             /\ (x = "continue" /\ ~Chains!Redirected(p, f)) =>
                   n = IF f.hook = "prerouting" /\ p.mark THEN Chains!Marks(e) ELSE e
<1> DEFINE e == Enters(f, NoEntry)
           n == AfterNAT(p, f, s, NoEntry)
           x == Chains!ExcludeRules(p, f, s, "nat", "none")
<1>1. e \in OnTheWay /\ e.nat = "none" /\ e.ctmark = "none" /\ e.mark # "input" /\ e.verdict = "accept"
  BY NoEntryIs, EntersIs DEF Enters
<1>2. n = Chains!NATChain(p, f, s, e)
  BY NoEntryIs DEF AfterNAT
<1>3. n \in OnTheWay
  BY NoEntryIs, AfterNATIs
<1>4. x \in Answers
  BY ExcludeAnswers
<1>5. ~Chains!Unreachable(p, f)
  BY DEF Chains!Unreachable
<1> HIDE DEF e, n
<1>6. /\ x = "hijack" => n = [e EXCEPT !.nat = "hijack"]
      /\ x = "drop" => n = [e EXCEPT !.verdict = "drop"]
      /\ x = "return" => n = e
      /\ (x = "continue" /\ Chains!Redirected(p, f)) => n = [e EXCEPT !.nat = "redirect"]
      /\ (x = "continue" /\ ~Chains!Redirected(p, f)) =>
            n = IF f.hook = "prerouting" /\ p.mark THEN Chains!Marks(e) ELSE e
  BY <1>1, <1>2, <1>5, NATFields
<1>7. x = "drop" => n.verdict = "drop"
  BY <1>1, <1>6 DEF OnTheWay
<1> HIDE DEF x
<1> QED BY <1>1, <1>3, <1>4, <1>6, <1>7 DEF e, n, x

LEMMA FirstOutput ==
  ASSUME NEW p, NEW f \in Chains!FlowType, NEW s, f.hook = "output", f.family \in p.families,
         Chains!Through(p, f, s, NoEntry).verdict = "accept"
  PROVE  LET k == Chains!Through(p, f, s, NoEntry)
         IN  Cap(k) <=> OutCap(p, f, s, EntryOf(k))
<1> DEFINE k == Chains!Through(p, f, s, NoEntry)
           e == Enters(f, NoEntry)
           n == AfterNAT(p, f, s, NoEntry)
           x == Chains!ExcludeRules(p, f, s, "nat", "none")
           loop == p.mark /\ f.proto = "tcp" /\ Chains!InLoopbackSet(p, f)
<1>1. e \in OnTheWay /\ e.nat = "none" /\ e.ctmark = "none" /\ e.mark # "input" /\ e.verdict = "accept"
  BY NoEntryIs, EntersIs DEF Enters
<1>3. Cap(k) <=> k.verdict = "accept" /\ (k.nat # "none" \/ k.mark = "input")
  BY CapIs
<1>4. f.proto \in {"tcp", "udp", "icmp"} /\ (Chains!IsUDPOrICMP(f) <=> f.proto # "tcp")
  BY DEF Chains!FlowType, Chains!IsUDPOrICMP
<1>5. CASE Chains!SkipOutput(p)
  <2>1. k = e
    BY <1>5, NoEntryIs, ThroughIs
  <2> HIDE DEF k, e
  <2>2. Cap(k) <=> OutCap(p, f, s, EntryOf(k))
    BY <1>1, <1>3, <1>5, <2>1 DEF OutCap, EntryOf
  <2> QED BY <2>2 DEF k
<1>6. CASE ~Chains!SkipOutput(p)
  <2> DEFINE l == Chains!LoopbackReroute(p, f, n)
             re == p.mark /\ f.proto = "tcp" /\ n.mark # "input" /\ n.nat = "none" /\ Chains!InLoopbackSet(p, f)
             now == IF l.nat = "hijack" THEN [f EXCEPT !.dst = "lan"] ELSE f
             y == Chains!ExcludeRules(p, now, s, "route", l.ctmark)
  <2>0. n.verdict = "accept" /\ n \in OnTheWay
    BY <1>6, NoEntryIs, AfterNATIs, ThroughIs
  <2>1. /\ k = Chains!OutputUDP(p, f, s, l)
        /\ l \in OnTheWay /\ l.verdict = "accept" /\ l.nat = n.nat
        /\ l.mark = (IF re THEN "input" ELSE n.mark) /\ l.ctmark = (IF re THEN "input" ELSE n.ctmark)
    <3> HIDE DEF k
    <3>1. AfterNAT(p, f, s, NoEntry).verdict = "accept"
      BY <2>0
    <3> QED BY <1>6, NoEntryIs, <3>1, ThroughOutput DEF k
  <2>2. ~Chains!Unreachable(p, f)
    BY DEF Chains!Unreachable
  <2>3. now.hook = "output" /\ now.proto = f.proto /\ now.family = f.family
    BY DEF Chains!FlowType
  <2>4. l.nat = "hijack" => now.dst = "lan"
    BY DEF Chains!FlowType
  <2>11. l.nat # "hijack" => now = f
    OBVIOUS
  <2>5. /\ (~p.mark \/ y \in {"return", "hijack"}) => k = l
        /\ (p.mark /\ y = "continue") => k = Chains!Marks(l)
    <3> HIDE DEF l
    <3> QED BY <2>1, <2>2, OutputFields
  <2>6. CASE ~p.mark
    <3>1. n = IF f.oif = "tun" /\ Chains!Redirected(p, f) THEN [e EXCEPT !.nat = "redirect"] ELSE e
      BY <1>1, <2>6, NoEntryIs, NATFields DEF AfterNAT
    <3> HIDE DEF k, e, n, l, now
    <3>2. n.mark # "input"
      BY <1>1, <3>1 DEF OnTheWay
    <3>3. k = l /\ l.mark # "input"
      BY <2>1, <2>5, <2>6, <3>2
    <3>4. Cap(k) <=> OutCap(p, f, s, EntryOf(k))
      BY <1>3, <2>1, <2>6, <3>3 DEF OutCap, EntryOf
    <3> QED BY <3>4 DEF k
  <2>7. CASE p.mark
    <3>1. /\ x \in Answers /\ x # "drop"
          /\ x = "hijack" => n = [e EXCEPT !.nat = "hijack"]
          /\ x = "return" => n = e
          /\ (x = "continue" /\ Chains!Redirected(p, f)) => n = [e EXCEPT !.nat = "redirect"]
          /\ (x = "continue" /\ ~Chains!Redirected(p, f)) => n = e
      BY <2>0, <2>7, FirstNAT
    <3>2. "hijack" \in Chains!NAT /\ "redirect" \in Chains!NAT
      BY DEF Chains!NAT
    <3> HIDE DEF k, e, n, l, x
    <3>3. CASE x = "hijack"
      <4>1. l.nat = "hijack"
        BY <3>1, <3>3, <1>1, <2>1 DEF OnTheWay
      <4>2. y = "return"
        BY <2>3, <2>4, <4>1, LocalOnRoute
      <4> HIDE DEF y, now
      <4>3. Cap(k) <=> OutCap(p, f, s, EntryOf(k))
        BY <1>3, <2>1, <2>5, <4>1, <4>2 DEF OutCap, EntryOf
      <4> QED BY <4>3 DEF k
    <3>4. CASE f.proto = "tcp" /\ x # "hijack"
      <4>1. y = "return"
        <5>1. now.hook = "output" /\ now.proto = "tcp"
          BY <2>3, <3>4
        <5> HIDE DEF now
        <5> QED BY <2>7, <5>1, TCPOnRoute
      <4> HIDE DEF y, now
      <4>2. k = l
        BY <2>5, <4>1
      <4>3. n.mark # "input"
        BY <3>1, <3>4, <1>1 DEF Answers, OnTheWay
      <4>4. ~Chains!IsUDPOrICMP(f)
        BY <1>4, <3>4
      <4>5. Cap(k) <=> OutCap(p, f, s, EntryOf(k))
        BY <1>3, <1>6, <2>1, <2>7, <3>4, <4>2, <4>3, <4>4 DEF OutCap, EntryOf
      <4> QED BY <4>5 DEF k
    <3>5. CASE f.proto # "tcp" /\ x # "hijack"
      <4>1. Chains!IsUDPOrICMP(f) /\ ~re /\ ~Chains!Redirected(p, f)
        BY <1>4, <3>5 DEF Chains!Redirected
      <4>2. n = e /\ x \in {"return", "continue"}
        BY <3>1, <3>5, <4>1 DEF Answers
      <4>3. l.nat = "none" /\ l.ctmark = "none" /\ l.mark # "input"
        BY <1>1, <2>1, <4>1, <4>2
      <4>4. now = f /\ y = Chains!ExcludeRules(p, f, s, "route", "none")
        BY <2>11, <4>3
      <4>5. /\ x = "return" => y = "return" 
            /\ x = "continue" => y = "continue" /\ Chains!ExcludeRules(p, f, s, "route", "input") = "continue"
        <5> HIDE DEF y
        <5> QED BY <2>7, <4>1, <4>4, UDPOnRoute DEF x
      <4> HIDE DEF y, now
      <4>6. CASE x = "return"
        <5>1. k = l
          BY <2>5, <4>5, <4>6
        <5>2. Cap(k) <=> OutCap(p, f, s, EntryOf(k))
          BY <1>3, <1>4, <2>1, <3>5, <4>3, <4>4, <4>5, <4>6, <5>1 DEF OutCap, EntryOf
        <5> QED BY <5>2 DEF k
      <4>7. CASE x = "continue"
        <5>1. k = Chains!Marks(l)
          BY <2>5, <2>7, <4>5, <4>7
        <5>2. k.verdict = "accept" /\ k.mark = "input" /\ k.ctmark = "input"
          BY <2>1, <5>1, MarksFields
        <5>3. Cap(k) /\ OutCap(p, f, s, EntryOf(k))
          BY <1>3, <1>6, <2>7, <4>1, <4>5, <4>7, <5>2 DEF OutCap, EntryOf
        <5> QED BY <5>3 DEF k
      <4> QED BY <4>2, <4>6, <4>7
    <3> QED BY <3>3, <3>4, <3>5
  <2> QED BY <2>6, <2>7
<1> QED BY <1>5, <1>6

----------------------------------------
(* The traffic that stays where it is *)
LEMMA OwnStays ==
  ASSUME NEW p, NEW f \in Chains!FlowType, NEW s, NEW c \in Entry, p.mark, f.hook = "output", f.own, f.dst \notin p.loopback, c.nat = "none"
  PROVE  LET k == Chains!Through(p, f, s, c) IN k.nat = "none" /\ k.mark # "input"
<1> DEFINE k == Chains!Through(p, f, s, c)
           e == Enters(f, c)
           n == AfterNAT(p, f, s, c)
           l == Chains!LoopbackReroute(p, f, n)
           y == Chains!ExcludeRules(p, f, s, "route", l.ctmark)
<1>1. e \in OnTheWay /\ e.nat = "none" /\ e.mark # "input" /\ e.verdict = "accept"
  BY EntersIs DEF Enters
<1>2. n = e
  <2>1. CASE c.known
    BY <2>1 DEF AfterNAT
  <2>2. CASE ~c.known
    <3>1. Chains!ExcludeRules(p, f, s, "nat", e.ctmark) = "return"
      BY OwnReturns
    <3>2. n = Chains!NATChain(p, f, s, e)
      BY <2>2 DEF AfterNAT
    <3> HIDE DEF n, e
    <3> QED BY <1>1, <3>1, <3>2, NATFields
  <2> QED BY <2>1, <2>2
<1>3. CASE Chains!SkipOutput(p)
  <2>1. k = e
    BY <1>3, ThroughIs
  <2> HIDE DEF k, e
  <2> QED BY <1>1, <2>1 DEF k
<1>4. CASE ~Chains!SkipOutput(p)
  <2>0. ~Chains!InLoopbackSet(p, f)
    BY DEF Chains!InLoopbackSet
  <2> HIDE DEF n
  <2>1. k = Chains!OutputUDP(p, f, s, l) /\ l \in OnTheWay /\ l.nat = n.nat /\ l.mark = n.mark
    BY <1>1, <1>2, <1>4, <2>0, ThroughOutput DEF n
  <2>2. y = "return"
    BY OwnReturns
  <2> HIDE DEF k, e, l
  <2>3. l.nat # "hijack"
    BY <1>1, <1>2, <2>1
  <2>4. k = l
    <3> DEFINE now == IF l.nat = "hijack" THEN [f EXCEPT !.dst = "lan"] ELSE f
    <3>1. now = f
      BY <2>3
    <3> DEFINE z == Chains!ExcludeRules(p, now, s, "route", l.ctmark)
    <3>2. z = "return"
      BY <2>2, <3>1
    <3>3. z \in {"return", "hijack"} => Chains!OutputUDP(p, f, s, l) = l
      BY DEF Chains!OutputUDP
    <3> HIDE DEF z
    <3> QED BY <2>1, <3>2, <3>3
  <2> HIDE DEF y
  <2> QED BY <1>1, <1>2, <2>1, <2>4 DEF k
<1> QED BY <1>3, <1>4

LEMMA LocalStays ==
  ASSUME NEW p \in Chains!OptionsType, NEW f, NEW s, NEW c \in Entry, f.hook = "prerouting", f.family \in p.families,
         f.dst = "self", f.port # 53, c.nat = "none", c.mark # "input"
  PROVE  LET k == Chains!Through(p, f, s, c) IN k.nat = "none" /\ k.mark # "input" /\ k.ctmark # "input"
<1> DEFINE k == Chains!Through(p, f, s, c)
           e == Enters(f, c)
           n == AfterNAT(p, f, s, c)
<1>1. e \in OnTheWay /\ e.nat = "none" /\ e.mark # "input" /\ e.verdict = "accept" /\ e.ctmark # "input"
  BY EntersIs DEF Enters
<1>2. ~Chains!InLoopbackSet(p, f)
  BY DEF Chains!OptionsType, Chains!InLoopbackSet
<1>3. n = e
  <2>1. CASE c.known
    BY <2>1 DEF AfterNAT
  <2>2. CASE ~c.known
    <3>0. ~Chains!Hijacked(p, f, "nat") /\ Chains!ReturnLocal(p, f)
      BY DEF Chains!Hijacked, Chains!HijackedBy, Chains!ReturnLocal, Chains!InDestinationSet
    <3>1. Chains!ExcludeRules(p, f, s, "nat", e.ctmark) = "return"
      <4> HIDE DEF e
      <4> QED BY <3>0 DEF Chains!ExcludeRules
    <3>2. n = Chains!NATChain(p, f, s, e)
      BY <2>2 DEF AfterNAT
    <3> HIDE DEF n, e
    <3> QED BY <1>1, <3>1, <3>2, NATFields
  <2> QED BY <2>1, <2>2
<1> DEFINE here == p.mark /\ Chains!IsUDPOrICMP(f) /\ f.iif # "tun"
           re == p.mark /\ f.proto = "tcp" /\ n.mark # "input" /\ n.nat = "none" /\ Chains!InLoopbackSet(p, f)
<1>4. /\ k \in OnTheWay /\ k.nat = n.nat
      /\ k.mark = (IF here THEN IF n.ctmark = "input" THEN "input" ELSE "output"
                   ELSE IF re THEN "input" ELSE n.mark)
      /\ k.ctmark = (IF here /\ n.ctmark # "input" THEN "output" ELSE n.ctmark)
  <2> HIDE DEF n
  <2>1. AfterNAT(p, f, s, c).verdict = "accept"
    BY <1>1, <1>3 DEF n
  <2> HIDE DEF e, k, here
  <2> QED BY <2>1, ThroughPrerouting DEF n, k, here
<1> HIDE DEF k, n, e, here
<1> QED BY <1>1, <1>2, <1>3, <1>4 DEF k

LEMMA LocalIPT ==
  ASSUME NEW p, NEW f, f.hook = "prerouting", f.dst = "self", f.port # 53
  PROVE  Chains!IPTResult(p, f) = "none"
  BY DEF Chains!IPTHijacked, Chains!IPTPrerouting, Chains!IPTResult

----------------------------------------
(* Both back ends *)
LEMMA BoolIs == ASSUME NEW b \in BOOLEAN PROVE ((b # TRUE) <=> ~b) /\ ((b # FALSE) <=> b)
  OBVIOUS

LEMMA InSet ==
  ASSUME NEW f, NEW S
  PROVE  /\ Chains!InDestinationSet(f, S, TRUE) <=> f.dst \notin S
         /\ Chains!InDestinationSet(f, S, FALSE) <=> f.dst \in S
<1>1. (f.dst \in S) \in BOOLEAN
  OBVIOUS
<1> QED BY <1>1, BoolIs DEF Chains!InDestinationSet

LEMMA BothBackends ==
  ASSUME NEW p \in Chains!OptionsType, NEW f \in Chains!FlowType, NEW s, Chains!Comparable(p, f, s)
  PROVE  Chains!Through(p, f, s, NoEntry).nat = Chains!IPTResult(p, f)
<1> DEFINE k == Chains!Through(p, f, s, NoEntry)
           e == Enters(f, NoEntry)
           n == AfterNAT(p, f, s, NoEntry)
           x == Chains!ExcludeRules(p, f, s, "nat", "none")
           away == \/ (p.auto /\ f.dnat) \/ f.iif = "tun" \/ (p.includeIf # {} /\ f.iif \notin p.includeIf)
                   \/ f.iif \in p.excludeIf \/ (p.route # {} /\ f.dst \notin p.route) \/ f.dst \in p.excludeRoute
<1>1. /\ ~p.mark /\ f.hook = "prerouting" /\ f.family \in p.families /\ s = Chains!NoSets
      /\ p.includeMAC = {} /\ p.excludeMAC = {} /\ p.includeUID = {} /\ p.loopback = {}
      /\ ~f.mptcp /\ ~Chains!IPTConflict(p)
      /\ \/ f.proto = "tcp" /\ f.port # 53 /\ f.dst # "lan"
         \/ f.proto = "udp" /\ f.localSource /\ f.dst # "self"
  BY DEF Chains!Comparable
<1>2. Chains!ReturnDNAT(p, f) \/ Chains!ReturnOwn(p, f, "nat", "none") \/ Chains!ReturnInterface(p, f)
      \/ Chains!ReturnMAC(p, f) \/ Chains!ReturnUID(p, f) \/ Chains!ReturnRoute(p, f) <=> away
  <2>1. Chains!ReturnDNAT(p, f) <=> p.auto /\ f.dnat
    BY <1>1 DEF Chains!ReturnDNAT
  <2>2. ~Chains!ReturnOwn(p, f, "nat", "none") /\ ~Chains!ReturnUID(p, f)
    BY <1>1 DEF Chains!ReturnOwn, Chains!ReturnUID
  <2>3. Chains!ReturnInterface(p, f) <=>
          f.iif = "tun" \/ (p.includeIf # {} /\ f.iif \notin p.includeIf) \/ f.iif \in p.excludeIf
    BY <1>1 DEF Chains!ReturnInterface
  <2>4. ~Chains!ReturnMAC(p, f)
    BY <1>1 DEF Chains!ReturnMAC
  <2>5. Chains!ReturnRoute(p, f) <=> (p.route # {} /\ f.dst \notin p.route) \/ f.dst \in p.excludeRoute
    BY InSet DEF Chains!ReturnRoute
  <2> QED BY <2>1, <2>2, <2>3, <2>4, <2>5
<1>3. ~Chains!IsMPTCP(f) /\ ~Chains!ReturnSets(p, f, s) /\ (Chains!ReturnLocal(p, f) <=> f.dst \in {"lan", "self"})
  BY <1>1, InSet DEF Chains!IsMPTCP, Chains!ReturnSets, Chains!NoSets, Chains!ReturnLocal
<1>4. x = IF away THEN "return" ELSE IF Chains!Hijacked(p, f, "nat") THEN "hijack"
          ELSE IF f.dst \in {"lan", "self"} THEN "return" ELSE "continue"
  <2> HIDE DEF away
  <2> QED BY <1>2, <1>3 DEF Chains!ExcludeRules
<1>5. Chains!Redirected(p, f) <=> f.proto = "tcp"
  BY <1>1 DEF Chains!Redirected, Chains!InLoopbackSet
<1>6. ~away => Chains!Selected(p, f)
  BY <1>1 DEF Chains!Selected
<1>7. away => ~Chains!Selected(p, f) \/ (p.auto /\ f.dnat) \/ f.iif = "tun" \/ f.dst \in p.excludeRoute \/ f.iif \in p.excludeIf
  BY <1>1 DEF Chains!Selected, Chains!IPTConflict
<1>8. Chains!IPTResult(p, f) = Chains!IPTPrerouting(p, f)
  BY <1>1 DEF Chains!IPTResult
<1>9. f.proto = "tcp" => ~Chains!Hijacked(p, f, "nat") /\ ~Chains!IPTHijacked(p, f)
  BY <1>1 DEF Chains!Hijacked, Chains!HijackedBy, Chains!IPTHijacked
<1>10. (f.proto = "udp" /\ ~away) => (Chains!Hijacked(p, f, "nat") <=> Chains!IPTHijacked(p, f))
  <2> SUFFICES ASSUME f.proto = "udp", ~away, f.localSource PROVE Chains!Hijacked(p, f, "nat") <=> Chains!IPTHijacked(p, f)
    BY <1>1
  <2>1. \A r \in p.dnsRules : Chains!HijackedBy(r, f) <=> f.port = 53 /\ r.network # "tcp" /\ r.to \in {"any", f.dst}
    <3> SUFFICES ASSUME NEW r \in p.dnsRules
                 PROVE  Chains!HijackedBy(r, f) <=> f.port = 53 /\ r.network # "tcp" /\ r.to \in {"any", f.dst}
      OBVIOUS
    <3>1. r \in [network : {"tcp", "udp", "any"}, to : {"any", "dns"}]
      BY DEF Chains!OptionsType, Chains!Network
    <3>2. r.network \in {"tcp", "udp", "any"} /\ r.to \in {"any", "dns"}
      BY <3>1
    <3> QED BY <1>1, <3>2 DEF Chains!HijackedBy
  <2>2. Chains!HijackedBy(Chains!DefaultRule, f) <=> f.port = 53
    BY <1>1 DEF Chains!HijackedBy, Chains!DefaultRule
  <2>3. CASE p.defaultDNS
    <3>1. Chains!Hijacked(p, f, "nat") <=> p.hijack /\ f.port = 53
      BY <1>1, <2>2, <2>3 DEF Chains!Hijacked, Chains!HijackRules
    <3>2. Chains!IPTHijacked(p, f) <=> p.hijack /\ f.port = 53
      BY <1>6, <2>3 DEF Chains!IPTHijacked, Chains!IPTHijackRules
    <3> QED BY <3>1, <3>2
  <2>4. CASE ~p.defaultDNS
    <3>1. Chains!Hijacked(p, f, "nat") <=> p.hijack /\ \E r \in p.dnsRules : Chains!HijackedBy(r, f)
      BY <1>1, <2>4 DEF Chains!Hijacked, Chains!HijackRules
    <3>2. Chains!IPTHijacked(p, f) <=>
            p.hijack /\ f.port = 53 /\ \E r \in p.dnsRules : r.network # "tcp" /\ r.to \in {"any", f.dst}
      BY <1>6, <2>4 DEF Chains!IPTHijacked, Chains!IPTHijackRules
    <3> HIDE DEF away
    <3> QED BY <2>1, <3>1, <3>2
  <2> QED BY <2>3, <2>4
<1>11. Chains!IPTPrerouting(p, f) =
         IF away THEN "none" ELSE IF Chains!Hijacked(p, f, "nat") THEN "hijack"
         ELSE IF f.dst # "self" /\ f.proto = "tcp" THEN "redirect" ELSE "none"
  <2> DEFINE out == \/ p.auto /\ (f.dnat \/ f.dst = "self")
                    \/ f.iif = "tun" \/ f.dst \in p.excludeRoute \/ f.iif \in p.excludeIf
  <2>1. Chains!IPTPrerouting(p, f) = IF out THEN "none" ELSE IF Chains!IPTHijacked(p, f) THEN "hijack"
            ELSE IF f.dst # "self" /\ f.proto = "tcp" /\ Chains!Selected(p, f) THEN "redirect" ELSE "none"
    BY DEF Chains!IPTPrerouting
  <2>2. out => away \/ (f.dst = "self" /\ f.proto = "tcp")
    BY <1>1
  <2>3. (away /\ ~out) => ~Chains!Selected(p, f)
    BY <1>7
  <2>4. Chains!IPTHijacked(p, f) => Chains!Selected(p, f)
    BY DEF Chains!IPTHijacked
  <2>5. f.proto \in {"tcp", "udp"}
    BY <1>1
  <2> HIDE DEF away, out
  <2>6. CASE away
    BY <2>1, <2>3, <2>4, <2>6
  <2>7. CASE ~away /\ f.proto = "tcp"
    BY <1>6, <1>9, <2>1, <2>2, <2>7
  <2>8. CASE ~away /\ f.proto = "udp"
    BY <1>10, <2>1, <2>2, <2>8
  <2> QED BY <2>5, <2>6, <2>7, <2>8
<1>12. /\ e \in OnTheWay /\ e.nat = "none" /\ n \in OnTheWay
       /\ e.verdict = "accept"
       /\ x = "hijack" => n = [e EXCEPT !.nat = "hijack"]
       /\ x = "return" => n = e
       /\ (x = "continue" /\ Chains!Redirected(p, f)) => n = [e EXCEPT !.nat = "redirect"]
       /\ (x = "continue" /\ ~Chains!Redirected(p, f)) => n = e
  <2> HIDE DEF x, away, n, e
  <2> QED BY <1>1, FirstNAT DEF x, n, e
<1>13. k.nat = n.nat
  <2>1. n.verdict = "accept"
    <3> HIDE DEF n, e, x, away
    <3>1. [e EXCEPT !.nat = "hijack"].verdict = "accept" /\ [e EXCEPT !.nat = "redirect"].verdict = "accept"
      BY <1>12 DEF OnTheWay
    <3>2. x \in {"return", "hijack", "continue"}
      BY <1>4
    <3> QED BY <1>12, <3>1, <3>2
  <2> QED BY <1>1, <2>1, NoEntryIs, ThroughPrerouting
<1> HIDE DEF k, n, e, x, away
<1>14. [e EXCEPT !.nat = "hijack"].nat = "hijack" /\ [e EXCEPT !.nat = "redirect"].nat = "redirect"
  BY <1>12 DEF OnTheWay
<1>15. n.nat = IF x = "hijack" THEN "hijack" ELSE IF x = "continue" /\ f.proto = "tcp" THEN "redirect" ELSE "none"
  BY <1>4, <1>5, <1>12, <1>14
<1>16. n.nat = Chains!IPTPrerouting(p, f)
  BY <1>1, <1>4, <1>11, <1>15
<1> QED BY <1>8, <1>13, <1>16 DEF k

(* TCP and UDP *)
\* Whether the first packet of a flow that is neither DNS nor MPTCP is captured
LEMMA FirstCaptured ==
  ASSUME NEW p, NEW f, NEW s, f.hook \in {"output", "prerouting"}, f.proto \in {"tcp", "udp"},
         p.mark, f.family \in p.families, f.port # 53, ~f.mptcp
  PROVE  LET x == Chains!ExcludeRules(p, f, s, "nat", "none")
         IN  /\ x \in {"return", "continue"}
             /\ Cap(Chains!Through(p, f, s, NoEntry)) <=>
                   /\ ~(f.hook = "output" /\ Chains!SkipOutput(p))
                   /\ x = "continue" \/ (f.proto = "tcp" /\ Chains!InLoopbackSet(p, f))
<1> DEFINE k == Chains!Through(p, f, s, NoEntry)
           e == Enters(f, NoEntry)
           n == AfterNAT(p, f, s, NoEntry)
           x == Chains!ExcludeRules(p, f, s, "nat", "none")
           skip == f.hook = "output" /\ Chains!SkipOutput(p)
           loop == f.proto = "tcp" /\ Chains!InLoopbackSet(p, f)
           red == Chains!Redirected(p, f)
<1>1. x \in {"return", "continue"}
  BY DEF Chains!Hijacked, Chains!HijackedBy, Chains!IsMPTCP, Chains!ExcludeRules
<1>2. /\ e \in OnTheWay /\ e.nat = "none" /\ e.ctmark = "none" /\ e.mark # "input" /\ e.verdict = "accept"
      /\ n \in OnTheWay
      /\ x = "return" => n = e
      /\ (x = "continue" /\ red) => n = [e EXCEPT !.nat = "redirect"]
      /\ (x = "continue" /\ ~red) => n = IF f.hook = "prerouting" THEN Chains!Marks(e) ELSE e
  <2> HIDE DEF e, n, x, red
  <2> QED BY FirstNAT DEF e, n, x, red
<1>3. red <=> f.proto = "tcp" /\ ~Chains!InLoopbackSet(p, f)
  BY DEF Chains!Redirected
<1>4. Chains!IsUDPOrICMP(f) <=> f.proto # "tcp"
  BY DEF Chains!IsUDPOrICMP
<1>5. Cap(k) <=> k.verdict = "accept" /\ (k.nat # "none" \/ k.mark = "input")
  BY CapIs
<1>6. ~Chains!Unreachable(p, f)
  BY DEF Chains!Unreachable
<1>7. f.iif = "tun" /\ f.hook = "prerouting" => x = "return"
  BY TunReturns
<1> DEFINE fields(m) == n.verdict = "accept" /\ n.nat = m.nat /\ n.mark = m.mark /\ n.ctmark = m.ctmark
<1>8. /\ n.verdict = "accept"
      /\ x = "return" => n.nat = "none" /\ n.mark # "input" /\ n.ctmark = "none"
      /\ (x = "continue" /\ red) => n.nat = "redirect"
      /\ (x = "continue" /\ ~red /\ f.hook = "prerouting") => n.nat = "none" /\ n.mark = "input" /\ n.ctmark = "input"
      /\ (x = "continue" /\ ~red /\ f.hook = "output") => n.nat = "none" /\ n.mark # "input" /\ n.ctmark = "none"
  <2> HIDE DEF e, n, x, red
  <2>1. [e EXCEPT !.nat = "redirect"].nat = "redirect" /\ [e EXCEPT !.nat = "redirect"].verdict = "accept"
    BY <1>2 DEF OnTheWay
  <2>2. Chains!Marks(e).verdict = "accept" /\ Chains!Marks(e).nat = "none" /\ Chains!Marks(e).mark = "input"
        /\ Chains!Marks(e).ctmark = "input"
    BY <1>2, MarksFields
  <2> QED BY <1>1, <1>2, <2>1, <2>2
<1>9. CASE skip
  <2>1. k = e
    BY <1>9, NoEntryIs, ThroughIs
  <2>2. ~Cap(k)
    <3> HIDE DEF k, e
    <3> QED BY <1>2, <1>5, <2>1
  <2> HIDE DEF x, k
  <2> QED BY <1>1, <1>9, <2>2 DEF x, k
<1>10. CASE f.hook = "prerouting"
  <2> DEFINE here == p.mark /\ Chains!IsUDPOrICMP(f) /\ f.iif # "tun"
             re == p.mark /\ f.proto = "tcp" /\ n.mark # "input" /\ n.nat = "none" /\ Chains!InLoopbackSet(p, f)
  <2>1. /\ k \in OnTheWay /\ k.verdict = "accept" /\ k.nat = n.nat
        /\ k.mark = IF here THEN IF n.ctmark = "input" THEN "input" ELSE "output"
                    ELSE IF re THEN "input" ELSE n.mark
    <3> HIDE DEF k, here, re, n, e, x, red
    <3>1. AfterNAT(p, f, s, NoEntry).verdict = "accept"
      BY <1>8 DEF n
    <3> QED BY <1>10, <3>1, NoEntryIs, ThroughPrerouting DEF k, n, here, re
  <2> HIDE DEF k, n, x, e, red
  <2>2. Cap(k) <=> x = "continue" \/ loop
    <3>1. CASE x = "return"
      BY <1>4, <1>5, <1>8, <2>1, <3>1
    <3>2. CASE x = "continue" /\ red
      BY <1>5, <1>8, <2>1, <3>2
    <3>3. CASE x = "continue" /\ ~red
      <4>1. f.iif # "tun"
        BY <1>7, <1>10, <3>3
      <4> QED BY <1>4, <1>5, <1>8, <1>10, <2>1, <3>3, <4>1
    <3> QED BY <1>1, <3>1, <3>2, <3>3
  <2> QED BY <1>1, <1>10, <2>2 DEF x, k
<1>11. CASE f.hook = "output" /\ ~Chains!SkipOutput(p)
  <2> DEFINE l == Chains!LoopbackReroute(p, f, n)
             re == p.mark /\ f.proto = "tcp" /\ n.mark # "input" /\ n.nat = "none" /\ Chains!InLoopbackSet(p, f)
             y == Chains!ExcludeRules(p, f, s, "route", l.ctmark)
  <2>1. /\ k = Chains!OutputUDP(p, f, s, l)
        /\ l \in OnTheWay /\ l.verdict = "accept" /\ l.nat = n.nat
        /\ l.mark = (IF re THEN "input" ELSE n.mark) /\ l.ctmark = (IF re THEN "input" ELSE n.ctmark)
    <3> HIDE DEF k
    <3>1. AfterNAT(p, f, s, NoEntry).verdict = "accept"
      BY <1>8
    <3> QED BY <1>11, NoEntryIs, <3>1, ThroughOutput DEF k
  <2> HIDE DEF k, n, x, e, red, l
  <2>2. l.nat # "hijack"
    BY <1>1, <1>8, <1>11, <2>1
  <2>3. y \in {"return", "continue"} =>
          k = IF y = "return" THEN l ELSE Chains!Marks(l)
    BY <1>6, <2>1, <2>2 DEF Chains!OutputUDP
  <2>4. CASE f.proto = "tcp"
    <3>1. y = "return"
      BY <1>11, <2>4, TCPOnRoute
    <3>2. k = l
      <4> HIDE DEF y
      <4> QED BY <2>3, <3>1
    <3>3. Cap(k) <=> x = "continue" \/ loop
      BY <1>1, <1>3, <1>5, <1>8, <1>11, <2>1, <2>4, <3>2
    <3> QED BY <1>1, <1>11, <3>3 DEF x, k
  <2>5. CASE f.proto = "udp"
    <3>1. ~re /\ l.ctmark = "none" /\ l.nat = "none" /\ l.mark # "input" /\ ~loop
      BY <1>1, <1>3, <1>8, <1>11, <2>1, <2>5
    <3>2. y = x
      BY <1>1, <1>4, <1>11, <2>5, <3>1, UDPOnRoute DEF x
    <3> HIDE DEF y
    <3>3. k = IF x = "return" THEN l ELSE Chains!Marks(l)
      BY <1>1, <2>3, <3>2
    <3>4. Cap(k) <=> x = "continue"
      BY <1>1, <1>5, <2>1, <3>1, <3>3, MarksFields
    <3> QED BY <1>1, <1>11, <3>1, <3>4 DEF x, k
  <2> QED BY <2>4, <2>5
<1> QED BY <1>9, <1>10, <1>11

LEMMA TCPAndUDP ==
  ASSUME NEW p, NEW f \in Chains!FlowType, NEW s, p.mark, f.family \in p.families, f.port # 53, ~f.mptcp
  PROVE  LET As(proto) == Chains!Result(Chains!Through(p, [f EXCEPT !.proto = proto], s,
                                    [known |-> FALSE, mark |-> "none", nat |-> "none"]))
         IN \/ Chains!Captured(As("tcp")) = Chains!Captured(As("udp"))
            \/ f.dst \in p.loopback /\ Chains!Captured(As("tcp"))
<1> DEFINE t == [f EXCEPT !.proto = "tcp"]
           u == [f EXCEPT !.proto = "udp"]
           ct0 == Cap(Chains!Through(p, t, s, NoEntry))
           cu0 == Cap(Chains!Through(p, u, s, NoEntry))
           xt == Chains!ExcludeRules(p, t, s, "nat", "none")
           xu == Chains!ExcludeRules(p, u, s, "nat", "none")
<1>1. /\ t \in Chains!FlowType /\ t.proto = "tcp" /\ t.hook = f.hook /\ t.family = f.family /\ t.dst = f.dst
      /\ t.port = f.port /\ t.iif = f.iif /\ t.ether = f.ether /\ t.mac = f.mac /\ t.localSource = f.localSource
      /\ t.uid = f.uid /\ t.oif = f.oif /\ t.own = f.own /\ t.mptcp = f.mptcp /\ t.dnat = f.dnat
  BY DEF Chains!FlowType
<1>2. /\ u \in Chains!FlowType /\ u.proto = "udp" /\ u.hook = f.hook /\ u.family = f.family /\ u.dst = f.dst
      /\ u.port = f.port /\ u.iif = f.iif /\ u.ether = f.ether /\ u.mac = f.mac /\ u.localSource = f.localSource
      /\ u.uid = f.uid /\ u.oif = f.oif /\ u.own = f.own /\ u.mptcp = f.mptcp /\ u.dnat = f.dnat
  BY DEF Chains!FlowType
<1>3. f.hook \in {"output", "prerouting"}
  BY DEF Chains!FlowType
<1> HIDE DEF t, u
<1>4. xt = xu
  <2>1. (Chains!ReturnDNAT(p, t) <=> Chains!ReturnDNAT(p, u)) /\ (Chains!ReturnOwn(p, t, "nat", "none") <=> Chains!ReturnOwn(p, u, "nat", "none"))
    BY <1>1, <1>2 DEF Chains!ReturnDNAT, Chains!ReturnOwn
  <2>2. (Chains!ReturnInterface(p, t) <=> Chains!ReturnInterface(p, u)) /\ (Chains!ReturnMAC(p, t) <=> Chains!ReturnMAC(p, u))
    BY <1>1, <1>2 DEF Chains!ReturnInterface, Chains!ReturnMAC
  <2>3. (Chains!ReturnUID(p, t) <=> Chains!ReturnUID(p, u)) /\ (Chains!ReturnRoute(p, t) <=> Chains!ReturnRoute(p, u))
    BY <1>1, <1>2 DEF Chains!ReturnUID, Chains!ReturnRoute, Chains!InDestinationSet
  <2>4. (Chains!ReturnLocal(p, t) <=> Chains!ReturnLocal(p, u)) /\ (Chains!ReturnSets(p, t, s) <=> Chains!ReturnSets(p, u, s))
    BY <1>1, <1>2 DEF Chains!ReturnLocal, Chains!ReturnSets, Chains!InDestinationSet
  <2>5. ~Chains!Hijacked(p, t, "nat") /\ ~Chains!Hijacked(p, u, "nat") /\ ~Chains!IsMPTCP(t) /\ ~Chains!IsMPTCP(u)
    BY <1>1, <1>2 DEF Chains!Hijacked, Chains!HijackedBy, Chains!IsMPTCP
  <2> QED BY <2>1, <2>2, <2>3, <2>4, <2>5 DEF Chains!ExcludeRules
<1>5. xt \in {"return", "continue"} /\
      (ct0 <=> /\ ~(f.hook = "output" /\ Chains!SkipOutput(p))
               /\ xt = "continue" \/ Chains!InLoopbackSet(p, t))
  BY <1>1, <1>3, FirstCaptured
<1>6. cu0 <=> ~(f.hook = "output" /\ Chains!SkipOutput(p)) /\ xu = "continue"
  BY <1>2, <1>3, FirstCaptured
<1>7. Chains!InLoopbackSet(p, t) => f.dst \in p.loopback
  BY <1>1 DEF Chains!InLoopbackSet
<1> HIDE DEF ct0, cu0, xt, xu
<1>8. (ct0 <=> cu0) \/ (f.dst \in p.loopback /\ ct0)
  BY <1>4, <1>5, <1>6, <1>7
<1>9. ct0 \in BOOLEAN /\ cu0 \in BOOLEAN
  BY DEF ct0, cu0, Cap, Chains!Captured
<1>10. ct0 = cu0 \/ (f.dst \in p.loopback /\ ct0)
  BY <1>8, <1>9
<1> QED BY <1>10 DEF ct0, cu0, t, u, Cap, NoEntry

----------------------------------------
(* The invariant of a flow's life *)
Way(p, f, s, c) == IF f.hook = "prerouting" THEN PreCap(p, f, c) ELSE OutCap(p, f, s, c)

OwnFlow(p, f) == p.mark /\ f.hook = "output" /\ f.own /\ f.dst \notin p.loopback
LocalFlow(p, f) == f.hook = "prerouting" /\ f.family \in p.families /\ f.dst = "self" /\ f.port # 53

\* Conntrack has nothing about a flow without a packet, and the sets have no
\* members without their rules.
Tables ==
  /\ ~ct.known => ct = NoEntry
  /\ ~sets.routeRule => sets.route = {}
  /\ ~sets.excludeRule => sets.exclude = {}

\* What conntrack holds decides about every later packet as about the first.
PathKept ==
  (ct.known /\ flow.family \in o.families /\ (flow.hook = "prerouting" \/ ~updated)) =>
    /\ outcome.verdict = "accept"
    /\ Chains!Captured(outcome) <=> Way(o, flow, sets, ct)
    /\ Chains!Captured(first) <=> Way(o, flow, sets, ct)

\* Traffic of the program and traffic for the host leave no trace in conntrack.
StaysOut ==
  /\ OwnFlow(o, flow) => ct.nat = "none" /\ outcome.nat = "none" /\ outcome.mark # "input"
  /\ LocalFlow(o, flow) => /\ ct.nat = "none" /\ ct.mark # "input"
                           /\ outcome.nat = "none" /\ outcome.mark # "input"

ChainInv == Chains!TypeOK /\ Tables /\ PathKept /\ StaysOut /\ Chains!BackendsAgree

LEMMA InitChain ==
  ASSUME Chains!ChainAssumption, Chains!Init PROVE ChainInv
<1>1. o \in Chains!OptionsType /\ flow \in Chains!FlowType
  BY DEF Chains!ChainAssumption, Chains!Init
<1>2. PICK v \in RouteSets : sets = [routeRule |-> v[1] # {}, excludeRule |-> v[2] # {}, route |-> v[1], exclude |-> v[2]]
  BY DEF Chains!Init
<1>3. v[1] \in SUBSET Chains!Class /\ v[2] \in SUBSET Chains!Class
  BY DEF Chains!ChainAssumption
<1>4. sets \in [routeRule : BOOLEAN, excludeRule : BOOLEAN, route : SUBSET Chains!Class, exclude : SUBSET Chains!Class]
  BY <1>2, <1>3
<1>5. (~sets.routeRule => sets.route = {}) /\ (~sets.excludeRule => sets.exclude = {})
  BY <1>2
<1>6. ct = NoEntry /\ ~ct.known /\ ct.nat = "none" /\ ct.mark = "none" /\ ct \in Entry
  BY NoEntryIs DEF Chains!Init, NoEntry
<1>7. outcome = Chains!Nothing /\ first = Chains!Nothing /\ updated = FALSE
  BY DEF Chains!Init
<1>8. Chains!Nothing \in Chains!Outcome /\ Chains!Nothing.nat = "none" /\ Chains!Nothing.mark = "none"
  BY DEF Chains!Nothing, Chains!Outcome, Chains!NAT, Chains!Mark
<1>9. Chains!TypeOK
  BY <1>1, <1>4, <1>6, <1>7, <1>8 DEF Chains!TypeOK, Entry
<1> QED BY <1>5, <1>6, <1>7, <1>8, <1>9 DEF ChainInv, Tables, PathKept, StaysOut, Chains!BackendsAgree

LEMMA ResultIs ==
  ASSUME NEW k \in OnTheWay
  PROVE  /\ Chains!Result(k) \in Chains!Outcome
         /\ Chains!Result(k).verdict = k.verdict /\ Chains!Result(k).nat = k.nat /\ Chains!Result(k).mark = k.mark
  BY DEF Chains!Result, OnTheWay, Chains!Outcome

LEMMA FirstWay ==
  ASSUME NEW p, NEW f \in Chains!FlowType, NEW s, f.family \in p.families,
         Chains!Through(p, f, s, NoEntry).verdict = "accept"
  PROVE  LET k == Chains!Through(p, f, s, NoEntry) IN Cap(k) <=> Way(p, f, s, EntryOf(k))
  BY FirstPrerouting, FirstOutput DEF Chains!FlowType, Way

LEMMA LaterWay ==
  ASSUME NEW p, NEW f \in Chains!FlowType, NEW s, NEW c \in Entry, c.known, f.family \in p.families
  PROVE  LET k == Chains!Through(p, f, s, c)
         IN  k.verdict = "accept" /\ (Cap(k) <=> Way(p, f, s, c)) /\ (Way(p, f, s, EntryOf(k)) <=> Way(p, f, s, c))
  BY LaterPrerouting, LaterOutput DEF Chains!FlowType, Way

LEMMA PacketKeeps ==
  ASSUME ChainInv, Chains!Packet PROVE ChainInv'
<1> DEFINE k == Chains!Through(o, flow, sets, ct)
<1>1. /\ outcome' = Chains!Result(k)
      /\ ct' = IF k.verdict = "accept" THEN EntryOf(k) ELSE ct
      /\ first' = IF ct.known THEN first ELSE Chains!Result(k)
      /\ updated' = (updated /\ ct.known)
      /\ o' = o /\ flow' = flow /\ sets' = sets
  BY DEF Chains!Packet, EntryOf
<1>2. o \in Chains!OptionsType /\ flow \in Chains!FlowType /\ ct \in Entry /\ first \in Chains!Outcome /\ updated \in BOOLEAN
      /\ sets \in [routeRule : BOOLEAN, excludeRule : BOOLEAN, route : SUBSET Chains!Class, exclude : SUBSET Chains!Class]
  BY DEF ChainInv, Chains!TypeOK, Entry
<1>3. k \in OnTheWay
  BY <1>2, ThroughType DEF Chains!FlowType
<1>4. Cap(k) <=> Chains!Captured(Chains!Result(k))
  BY DEF Cap
<1>5. /\ OwnFlow(o, flow) /\ ct.nat = "none" => k.nat = "none" /\ k.mark # "input"
      /\ LocalFlow(o, flow) /\ ct.nat = "none" /\ ct.mark # "input"
            => k.nat = "none" /\ k.mark # "input" /\ k.ctmark # "input"
  BY <1>2, OwnStays, LocalStays DEF OwnFlow, LocalFlow
<1>6. (flow.family \in o.families /\ ct.known) =>
        k.verdict = "accept" /\ (Cap(k) <=> Way(o, flow, sets, ct)) /\ (Way(o, flow, sets, EntryOf(k)) <=> Way(o, flow, sets, ct))
  BY <1>2, LaterWay
<1>7. (flow.family \in o.families /\ ~ct.known /\ k.verdict = "accept") => (Cap(k) <=> Way(o, flow, sets, EntryOf(k)))
  <2> SUFFICES ASSUME flow.family \in o.families, ~ct.known, k.verdict = "accept"
               PROVE  Cap(k) <=> Way(o, flow, sets, EntryOf(k))
    OBVIOUS
  <2>1. ct = NoEntry
    BY DEF ChainInv, Tables
  <2> QED BY <1>2, <2>1, FirstWay
<1>8. (~ct.known /\ Chains!Comparable(o, flow, sets)) => k.nat = Chains!IPTResult(o, flow)
  <2> SUFFICES ASSUME ~ct.known, Chains!Comparable(o, flow, sets) PROVE k.nat = Chains!IPTResult(o, flow)
    OBVIOUS
  <2>1. ct = NoEntry
    BY DEF ChainInv, Tables
  <2> QED BY <1>2, <2>1, BothBackends
<1> HIDE DEF k
<1>9. EntryOf(k) \in Entry /\ EntryOf(k).known /\ EntryOf(k).nat = k.nat /\ EntryOf(k).mark = k.ctmark
  BY <1>3, EntryOfIs DEF EntryOf
<1>10. ct' \in Entry
  BY <1>1, <1>2, <1>9
<1>11. Chains!TypeOK'
  <2>1. outcome' \in Chains!Outcome /\ first' \in Chains!Outcome
    BY <1>1, <1>2, <1>3, ResultIs
  <2>2. updated' \in BOOLEAN
    BY <1>1
  <2> QED BY <1>1, <1>2, <1>10, <2>1, <2>2 DEF Chains!TypeOK, Entry
<1>12. Tables'
  BY <1>1, <1>9 DEF ChainInv, Tables
<1>13. PathKept'
  <2> SUFFICES ASSUME ct'.known, flow.family \in o.families, flow.hook = "prerouting" \/ ~updated'
               PROVE  /\ outcome'.verdict = "accept"
                      /\ Chains!Captured(outcome') <=> Way(o, flow, sets, ct')
                      /\ Chains!Captured(first') <=> Way(o, flow, sets, ct')
    BY <1>1 DEF PathKept
  <2>1. CASE ct.known
    <3>1. k.verdict = "accept" /\ ct' = EntryOf(k) /\ first' = first
      BY <1>1, <1>6, <2>1
    <3>2. flow.hook = "prerouting" \/ ~updated
      BY <1>1, <1>2, <2>1
    <3>3. Chains!Captured(first) <=> Way(o, flow, sets, ct)
      BY <2>1, <3>2 DEF ChainInv, PathKept
    <3> QED BY <1>1, <1>3, <1>4, <1>6, <2>1, <3>1, <3>3, ResultIs
  <2>2. CASE ~ct.known
    BY <1>1, <2>2, <1>3, <1>4, <1>7, ResultIs
  <2> QED BY <2>1, <2>2
<1>14. StaysOut'
  <2>1. CASE OwnFlow(o, flow)
    <3>1. ct.nat = "none"
      BY <2>1 DEF ChainInv, StaysOut
    <3>2. k.nat = "none" /\ k.mark # "input" /\ ~LocalFlow(o, flow)
      BY <1>5, <2>1, <3>1 DEF OwnFlow, LocalFlow
    <3> QED BY <1>1, <1>3, <1>9, <3>1, <3>2, ResultIs DEF StaysOut
  <2>2. CASE LocalFlow(o, flow)
    <3>1. ct.nat = "none" /\ ct.mark # "input"
      BY <2>2 DEF ChainInv, StaysOut
    <3>2. k.nat = "none" /\ k.mark # "input" /\ k.ctmark # "input"
      BY <1>5, <2>2, <3>1
    <3>3. ct'.nat = "none" /\ ct'.mark # "input" /\ outcome'.nat = "none" /\ outcome'.mark # "input"
      BY <1>1, <1>3, <1>9, <3>1, <3>2, ResultIs
    <3> QED BY <1>1, <3>3 DEF StaysOut
  <2>3. CASE ~OwnFlow(o, flow) /\ ~LocalFlow(o, flow)
    BY <1>1, <2>3 DEF StaysOut
  <2> QED BY <2>1, <2>2, <2>3
<1>15. Chains!BackendsAgree'
  <2> SUFFICES ASSUME Chains!Comparable(o, flow, sets), ct'.known PROVE first'.nat = Chains!IPTResult(o, flow)
    BY <1>1 DEF Chains!BackendsAgree
  <2>1. CASE ct.known
    BY <1>1, <2>1 DEF ChainInv, Chains!BackendsAgree
  <2>2. CASE ~ct.known
    BY <1>1, <1>3, <1>8, <2>2, ResultIs
  <2> QED BY <2>1, <2>2
<1> QED BY <1>11, <1>12, <1>13, <1>14, <1>15 DEF ChainInv

LEMMA ReplyKeeps ==
  ASSUME ChainInv, Chains!Reply PROVE ChainInv'
<1> DEFINE q == [verdict |-> "accept", nat |-> ct.nat, mark |-> "none", ctmark |-> ct.mark]
           iif == IF Chains!Captured(outcome) THEN "tun" ELSE "lan1"
           k == Chains!PreroutingUDP(o, iif, flow, q)
           here == o.mark /\ Chains!IsUDPOrICMP(flow) /\ iif # "tun"
<1>1. /\ ct.known /\ ct' = [ct EXCEPT !.mark = k.ctmark]
      /\ o' = o /\ flow' = flow /\ sets' = sets /\ outcome' = outcome /\ first' = first /\ updated' = updated
  BY DEF Chains!Reply
<1>2. o \in Chains!OptionsType /\ flow \in Chains!FlowType /\ ct \in Entry /\ ct.nat \in Chains!NAT /\ ct.mark \in Chains!Mark
  BY DEF ChainInv, Chains!TypeOK, Entry
<1>3. q \in OnTheWay /\ q.ctmark = ct.mark
  <2>1. "none" \in Chains!Mark
    BY DEF Chains!Mark
  <2> QED BY <1>2, <2>1 DEF OnTheWay
<1> HIDE DEF q
<1>4. k \in OnTheWay /\ k.ctmark = (IF here /\ ct.mark # "input" THEN "output" ELSE ct.mark)
  <2> HIDE DEF iif
  <2> QED BY <1>3, PreroutingFields
<1>5. k.ctmark \in Chains!Mark
  BY <1>4 DEF OnTheWay
<1> HIDE DEF k
<1>6. ct' \in Entry /\ ct'.known /\ ct'.nat = ct.nat /\ ct'.mark = k.ctmark
  BY <1>1, <1>2, <1>5 DEF Entry
<1>7. Chains!TypeOK'
  BY <1>1, <1>6 DEF ChainInv, Chains!TypeOK, Entry
<1>8. Tables'
  BY <1>1, <1>6 DEF ChainInv, Tables
<1>9. (~Way(o, flow, sets, ct) /\ ~Chains!Captured(outcome)) => ~Way(o, flow, sets, ct')
  <2> SUFFICES ASSUME ~Way(o, flow, sets, ct), ~Chains!Captured(outcome) PROVE ~Way(o, flow, sets, ct')
    OBVIOUS
  <2>1. ct'.mark = IF o.mark /\ Chains!IsUDPOrICMP(flow) /\ ct.mark # "input" THEN "output" ELSE ct.mark
    BY <1>4, <1>6
  <2>2. CASE flow.hook = "prerouting"
    BY <1>6, <2>1, <2>2 DEF Way, PreCap
  <2>3. CASE flow.hook # "prerouting"
    <3>1. flow.hook = "output"
      BY <1>2, <2>3 DEF Chains!FlowType
    <3>2. (o.mark /\ Chains!IsUDPOrICMP(flow)) => Chains!ExcludeRules(o, flow, sets, "route", "output") = "return"
      BY <3>1, UDPOnRoute
    <3> QED BY <1>6, <2>1, <2>3, <3>2 DEF Way, OutCap
  <2> QED BY <2>2, <2>3
<1>10. Chains!Captured(outcome) => ct' = ct
  <2> SUFFICES ASSUME Chains!Captured(outcome) PROVE ct' = ct
    OBVIOUS
  <2>1. k.ctmark = ct.mark
    BY <1>4
  <2> QED BY <1>1, <1>2, <2>1 DEF Entry
<1>11. PathKept'
  <2> SUFFICES ASSUME flow.family \in o.families, flow.hook = "prerouting" \/ ~updated
               PROVE  /\ outcome.verdict = "accept"
                      /\ Chains!Captured(outcome) <=> Way(o, flow, sets, ct')
                      /\ Chains!Captured(first) <=> Way(o, flow, sets, ct')
    BY <1>1 DEF PathKept
  <2>1. /\ outcome.verdict = "accept"
        /\ Chains!Captured(outcome) <=> Way(o, flow, sets, ct)
        /\ Chains!Captured(first) <=> Way(o, flow, sets, ct)
    BY <1>1 DEF ChainInv, PathKept
  <2>2. CASE Chains!Captured(outcome)
    BY <1>10, <2>1, <2>2
  <2>3. CASE ~Chains!Captured(outcome)
    BY <1>9, <2>1, <2>3
  <2> QED BY <2>2, <2>3
<1>12. StaysOut'
  <2>1. ct.mark # "input" => ct'.mark # "input"
    BY <1>4, <1>6
  <2> HIDE DEF here
  <2> QED BY <1>1, <1>6, <2>1 DEF ChainInv, StaysOut
<1>13. Chains!BackendsAgree'
  BY <1>1 DEF ChainInv, Chains!BackendsAgree
<1> QED BY <1>7, <1>8, <1>11, <1>12, <1>13 DEF ChainInv

LEMMA UpdateKeeps ==
  ASSUME Chains!ChainAssumption, ChainInv, NEW v \in RouteSets, Chains!UpdateRouteAddressSet(v[1], v[2])
  PROVE  ChainInv'
<1> DEFINE S == [routeRule : BOOLEAN, excludeRule : BOOLEAN, route : SUBSET Chains!Class, exclude : SUBSET Chains!Class]
<1>1. /\ (v[1] # {}) = sets.routeRule /\ (v[2] # {}) = sets.excludeRule
      /\ sets' = [sets EXCEPT !.route = v[1], !.exclude = v[2]]
      /\ updated' = TRUE
      /\ o' = o /\ flow' = flow /\ ct' = ct /\ outcome' = outcome /\ first' = first
  BY DEF Chains!UpdateRouteAddressSet
<1>2. sets \in S
  BY DEF ChainInv, Chains!TypeOK
<1>3. v[1] \in SUBSET Chains!Class /\ v[2] \in SUBSET Chains!Class
  BY DEF Chains!ChainAssumption
<1>4. sets' \in S /\ sets'.routeRule = sets.routeRule /\ sets'.excludeRule = sets.excludeRule
      /\ sets'.route = v[1] /\ sets'.exclude = v[2]
  BY <1>1, <1>2, <1>3
<1>5. Chains!TypeOK'
  BY <1>1, <1>4 DEF ChainInv, Chains!TypeOK
<1>6. Tables'
  BY <1>1, <1>4 DEF ChainInv, Tables
<1>7. PathKept'
  <2> SUFFICES ASSUME ct.known, flow.family \in o.families, flow.hook = "prerouting"
               PROVE  /\ outcome.verdict = "accept"
                      /\ Chains!Captured(outcome) <=> Way(o, flow, sets', ct)
                      /\ Chains!Captured(first) <=> Way(o, flow, sets', ct)
    BY <1>1 DEF PathKept
  <2>1. Way(o, flow, sets', ct) <=> Way(o, flow, sets, ct)
    BY DEF Way
  <2> QED BY <2>1 DEF ChainInv, PathKept
<1>8. StaysOut'
  BY <1>1 DEF ChainInv, StaysOut
<1>9. Chains!BackendsAgree'
  <2> SUFFICES ASSUME Chains!Comparable(o, flow, sets'), ct.known PROVE first.nat = Chains!IPTResult(o, flow)
    BY <1>1 DEF Chains!BackendsAgree
  <2>1. sets' = Chains!NoSets
    BY DEF Chains!Comparable
  <2>2. ~sets.routeRule /\ ~sets.excludeRule
    BY <1>4, <2>1 DEF Chains!NoSets
  <2>3. sets.route = {} /\ sets.exclude = {}
    BY <2>2 DEF ChainInv, Tables
  <2>4. sets = Chains!NoSets
    BY <1>2, <2>2, <2>3 DEF Chains!NoSets
  <2> QED BY <2>1, <2>4 DEF ChainInv, Chains!BackendsAgree
<1> QED BY <1>5, <1>6, <1>7, <1>8, <1>9 DEF ChainInv

LEMMA ChainKeeps ==
  ASSUME Chains!ChainAssumption, ChainInv, Chains!Next PROVE ChainInv'
  BY PacketKeeps, ReplyKeeps, UpdateKeeps DEF Chains!Next

LEMMA ChainShows ==
  ASSUME ChainInv
  PROVE  /\ Chains!TypeOK /\ Chains!OwnTrafficEscapes /\ Chains!FlowKeepsPath
         /\ Chains!TCPLikeUDP /\ Chains!LocalReachable /\ Chains!BackendsAgree
<1>1. Chains!TypeOK /\ Chains!BackendsAgree
  BY DEF ChainInv
<1>2. Chains!OwnTrafficEscapes
  BY DEF ChainInv, StaysOut, OwnFlow, Chains!OwnTrafficEscapes, Chains!Captured
<1>3. Chains!FlowKeepsPath
  BY DEF Chains!Captured, ChainInv, PathKept, Chains!FlowKeepsPath
<1>4. Chains!LocalReachable
  BY LocalIPT DEF ChainInv, StaysOut, LocalFlow, Chains!LocalReachable, Chains!Captured
<1>5. Chains!TCPLikeUDP
  BY TCPAndUDP DEF ChainInv, Chains!TypeOK, Chains!TCPLikeUDP
<1> QED BY <1>1, <1>2, <1>3, <1>4, <1>5

LEMMA ChainInvariant == Spec => [](part = "chain" => ChainInv)
<1>1. Init => (part = "chain" => ChainInv)
  BY InitChain, ChainsAssumed DEF Init
<1>2. ChainInv /\ [Chains!Next]_(Chains!vars) => ChainInv'
  <2> SUFFICES ASSUME ChainInv, UNCHANGED Chains!vars PROVE ChainInv'
    BY ChainKeeps, ChainsAssumed
  <2>1. UNCHANGED <<o, flow, sets, ct, outcome, first, updated>>
    BY DEF Chains!vars
  <2> QED BY <2>1 DEF ChainInv, Tables, PathKept, StaysOut, Chains!TypeOK, Chains!BackendsAgree
<1>3. (part = "chain" => ChainInv) /\ [Next]_vars => (part = "chain" => ChainInv)'
  <2> SUFFICES ASSUME part = "chain" => ChainInv, [Next]_vars, part' = "chain" PROVE ChainInv'
    OBVIOUS
  <2>1. part = "chain" /\ [Chains!Next]_(Chains!vars)
    BY DEF Next, vars, Chains!vars, o, flow, sets, ct, outcome, first, updated
  <2> QED BY <1>2, <2>1
<1> QED BY <1>1, <1>3, PTL DEF Spec

(* The chains of both back ends, for every configuration, every flow and every
   replacement of the route address sets: own traffic escapes, a flow keeps to
   its path, TCP and UDP fare alike, local services stay reachable and
   nftables and iptables agree. *)
THEOREM FlowsTheorem == Spec => []FlowsGoTheirWay
<1>1. (part = "chain" => ChainInv) => FlowsGoTheirWay
  BY ChainShows DEF FlowsGoTheirWay
<1> QED BY <1>1, ChainInvariant, PTL

----------------------------------------
(* RouteRanges (tun_rules.go, tun.go, stack.go).  The argument: two ranges  *)
(* of a family are disjoint or one contains the other, because an address   *)
(* is below a prefix if its quotient by the prefix's size is the prefix's;  *)
(* so the largest prefixes inside a set cover it, and the sub ranges are    *)
(* the powers of two.                                                       *)
Pow(k) == 2^k
Top == W4 + W6

LEMMA PowerIs ==
  ASSUME Ranges!RangeAssumption
  PROVE  /\ Top \in Nat /\ Pow(0) = 1
         /\ \A k \in 0..Top : Pow(k) \in Nat /\ Pow(k + 1) = 2 * Pow(k)
<1>1. /\ W4 \in Nat /\ W6 \in Nat
      /\ 2^0 = 1 /\ \A k \in 0..(W4 + W6) : 2^k \in Nat /\ 2^(k + 1) = 2 * 2^k
  BY DEF Ranges!RangeAssumption
<1>2. Pow(0) = 1
  BY <1>1 DEF Pow
<1>3. ASSUME NEW k \in 0..Top PROVE Pow(k) \in Nat /\ Pow(k + 1) = 2 * Pow(k)
  BY <1>1, <1>3, Zenon DEF Pow, Top
<1> QED BY <1>1, <1>2, <1>3 DEF Top

LEMMA PowerOfSum ==
  ASSUME Ranges!RangeAssumption, NEW j \in Nat, NEW k \in Nat, j + k <= Top
  PROVE  Pow(j + k) = Pow(j) * Pow(k)
<1> DEFINE S == {n \in Nat : j + n <= Top => Pow(j + n) = Pow(j) * Pow(n)}
<1>1. 0 \in S
  BY PowerIs
<1>2. ASSUME NEW n \in Nat, n \in S, j + (n + 1) <= Top PROVE Pow(j + (n + 1)) = Pow(j) * Pow(n + 1)
  BY <1>2, PowerIs
<1>3. \A n \in Nat : n \in S => n + 1 \in S
  BY <1>2
<1> HIDE DEF S
<1>4. k \in S
  BY <1>1, <1>3, SetInduction
<1> QED BY <1>4 DEF S

LEMMA PowerPositive ==
  ASSUME Ranges!RangeAssumption, NEW k \in 0..Top
  PROVE  Pow(k) \in Nat /\ Pow(k) >= 1
<1> DEFINE S == {n \in Nat : n <= Top => Pow(n) >= 1}
<1>1. 0 \in S
  BY PowerIs
<1>2. ASSUME NEW n \in Nat, n \in S, n + 1 <= Top PROVE Pow(n + 1) >= 1
  BY <1>2, PowerIs
<1>3. \A n \in Nat : n \in S => n + 1 \in S
  BY <1>2
<1> HIDE DEF S
<1>4. k \in S
  BY <1>1, <1>3, SetInduction, PowerIs
<1> QED BY <1>4, PowerIs DEF S

LEMMA PowerGrows ==
  ASSUME Ranges!RangeAssumption, NEW j \in 0..Top, NEW k \in 0..Top, j < k
  PROVE  Pow(j) < Pow(k)
<1>1. k - j - 1 \in Nat /\ k - j - 1 \in 0..Top /\ k - 1 \in 0..Top /\ j + (k - j - 1) = k - 1 /\ k - 1 + 1 = k /\ k - 1 <= Top
  BY PowerIs
<1>2. Pow(k - 1) = Pow(j) * Pow(k - j - 1)
  BY <1>1, PowerOfSum, PowerIs
<1>3. Pow(k) = 2 * Pow(k - 1)
  BY <1>1, PowerIs
<1>4. Pow(j) \in Nat /\ Pow(j) >= 1 /\ Pow(k - j - 1) \in Nat /\ Pow(k - j - 1) >= 1
  BY <1>1, PowerPositive
<1>5. ASSUME NEW a \in Nat, NEW b \in Nat, b >= 1 PROVE a * b >= a
  <2>1. b * a >= 0 * a + a
    BY <1>5, Above
  <2> QED BY <2>1
<1>6. Pow(k - 1) >= Pow(j) /\ Pow(k - 1) \in Nat
  BY <1>1, <1>2, <1>4, <1>5, PowerIs
<1> QED BY <1>3, <1>4, <1>6

----------------------------------------
(* Prefixes of a family *)
LEMMA WidthIs ==
  ASSUME Ranges!RangeAssumption, NEW f \in {4, 6}
  PROVE  /\ Ranges!Width(f) \in Nat /\ Ranges!Width(f) \in 0..Top /\ Ranges!Width(f) <= Top
         /\ TopBits \in Nat /\ TopBits <= Ranges!Width(f)
         /\ Ranges!Addresses(f) = 0..(Pow(Ranges!Width(f)) - 1)
  BY DEF Ranges!RangeAssumption, Ranges!Addresses, Pow, Ranges!Width, Top

LEMMA SizeIs ==
  ASSUME Ranges!RangeAssumption, NEW f \in {4, 6}, NEW p \in Ranges!Prefixes(f)
  PROVE  /\ p.addr \in Ranges!Addresses(f) /\ p.addr \in Nat /\ p.bits \in Nat /\ p.bits <= Ranges!Width(f)
         /\ Ranges!Size(f, p) = Pow(Ranges!Width(f) - p.bits) /\ Ranges!Size(f, p) \in Nat \ {0}
         /\ Pow(p.bits) \in Nat /\ Pow(p.bits) * Ranges!Size(f, p) = Pow(Ranges!Width(f))
<1> DEFINE w == Ranges!Width(f)
<1>1. w \in Nat /\ w \in 0..Top /\ Ranges!Addresses(f) = 0..(Pow(w) - 1) /\ Top \in Nat /\ Pow(w) \in Nat
  BY WidthIs, PowerIs
<1> HIDE DEF w
<1>2. p.addr \in Ranges!Addresses(f) /\ p.bits \in 0..w
  BY DEF Ranges!Prefixes, w
<1>3. Ranges!Size(f, p) = Pow(w - p.bits)
  BY DEF Ranges!Size, Pow, w
<1>4. w - p.bits \in Nat /\ w - p.bits \in 0..Top /\ p.bits \in Nat /\ p.bits \in 0..Top /\ p.bits + (w - p.bits) = w /\ w <= Top
  BY <1>1, <1>2
<1>5. Pow(p.bits) * Pow(w - p.bits) = Pow(w)
  BY <1>4, PowerOfSum
<1>6. Pow(w - p.bits) \in Nat /\ Pow(w - p.bits) >= 1 /\ Pow(p.bits) \in Nat
  BY <1>4, PowerPositive
<1> QED BY <1>1, <1>2, <1>3, <1>4, <1>5, <1>6 DEF w

LEMMA RangeIs ==
  ASSUME Ranges!RangeAssumption, NEW f \in {4, 6}, NEW p \in Ranges!Prefixes(f)
  PROVE  LET s == Ranges!Size(f, p)
             low == (p.addr \div s) * s
         IN  /\ Ranges!Masked(f, p).addr = low /\ Ranges!Masked(f, p).bits = p.bits
             /\ low \in Nat /\ low + s <= Pow(Ranges!Width(f))
             /\ Ranges!Range(f, p) = low..(low + s - 1)
             /\ low <= p.addr /\ p.addr < low + s
<1> DEFINE s == Ranges!Size(f, p)
           q == p.addr \div s
           u == Pow(p.bits)
<1>1. s \in Nat \ {0} /\ u \in Nat /\ u * s = Pow(Ranges!Width(f)) /\ p.addr \in Nat /\ p.addr < u * s
  <2>1. p.addr \in 0..(Pow(Ranges!Width(f)) - 1) /\ Pow(Ranges!Width(f)) \in Nat
    BY SizeIs, WidthIs, PowerIs
  <2> QED BY <2>1, SizeIs
<1> HIDE DEF s, u
<1>2. q \in Nat /\ q * s <= p.addr /\ p.addr < q * s + s
  BY <1>1, Quotient
<1>3. /\ Ranges!Masked(f, p).addr = q * s /\ Ranges!Masked(f, p).bits = p.bits
      /\ Ranges!Range(f, p) = (q * s)..(q * s + s - 1)
  BY DEF Ranges!Prefixes, Ranges!Masked, q, s, Ranges!Range
<1> HIDE DEF q
<1>4. q * s \in Nat
  BY <1>1, <1>2, Product
<1>5. q < u
  <2> SUFFICES ASSUME ~(q < u) PROVE FALSE
    OBVIOUS
  <2>1. CASE q = u
    BY <2>1, <1>1, <1>2
  <2>2. CASE u < q
    BY <2>2, <1>1, <1>2, <1>4, Above, Product
  <2> QED BY <2>1, <2>2, <1>1, <1>2
<1>6. q * s + s <= u * s
  BY <1>1, <1>2, <1>5, Above
<1> QED BY <1>1, <1>2, <1>3, <1>4, <1>6 DEF q, s

LEMMA RangeOf ==
  ASSUME Ranges!RangeAssumption, NEW f \in {4, 6}, NEW p \in Ranges!Prefixes(f)
  PROVE  Ranges!Range(f, p) \subseteq Ranges!Addresses(f) /\ p.addr \in Ranges!Range(f, p)
<1> DEFINE s == Ranges!Size(f, p)
           low == (p.addr \div s) * s
           top == Pow(Ranges!Width(f))
<1>1. /\ s \in Nat /\ top \in Nat /\ Ranges!Addresses(f) = 0..(top - 1) /\ p.addr \in Nat
      /\ low \in Nat /\ low + s <= top /\ Ranges!Range(f, p) = low..(low + s - 1)
      /\ low <= p.addr /\ p.addr < low + s
  BY SizeIs, WidthIs, PowerIs, RangeIs
<1> HIDE DEF s, low, top
<1> QED BY <1>1

LEMMA MaskedIs ==
  ASSUME Ranges!RangeAssumption, NEW f \in {4, 6}, NEW p \in Ranges!Prefixes(f)
  PROVE  Ranges!Masked(f, p) \in Ranges!Prefixes(f) /\ Ranges!Range(f, Ranges!Masked(f, p)) = Ranges!Range(f, p)
<1> DEFINE s == Ranges!Size(f, p)
           q == p.addr \div s
           m == Ranges!Masked(f, p)
<1>0. p \in [addr : Ranges!Addresses(f), bits : 0..Ranges!Width(f)]
  BY DEF Ranges!Prefixes
<1>1. m = [p EXCEPT !.addr = q * s] /\ m.addr = q * s /\ m.bits = p.bits
  BY RangeIs DEF Ranges!Masked
<1>2. s \in Nat \ {0} /\ p.addr \in Nat
  BY SizeIs
<1>3. q \in Nat /\ q * s \in Nat
  BY <1>2, Quotient, Product
<1>4. q * s \in Ranges!Addresses(f)
  <2>1. /\ Pow(Ranges!Width(f)) \in Nat /\ Ranges!Addresses(f) = 0..(Pow(Ranges!Width(f)) - 1)
        /\ q * s + s <= Pow(Ranges!Width(f))
    BY SizeIs, WidthIs, PowerIs, RangeIs
  <2> HIDE DEF q, s
  <2> QED BY <2>1, <1>2, <1>3
<1>5. m \in Ranges!Prefixes(f)
  <2> HIDE DEF q, s, m
  <2> QED BY <1>0, <1>1, <1>4 DEF Ranges!Prefixes
<1>6. Ranges!Size(f, m) = s
  BY <1>1 DEF Ranges!Size
<1>7. (q * s) \div s = q
  <2> HIDE DEF q, s
  <2> QED BY <1>2, <1>3, QuotientIs
<1>8. Ranges!Range(f, m) = (((q * s) \div s) * s)..(((q * s) \div s) * s + s - 1)
  BY <1>1, <1>5, <1>6, RangeIs
<1>9. Ranges!Range(f, p) = (q * s)..(q * s + s - 1)
  BY RangeIs
<1> QED BY <1>5, <1>7, <1>8, <1>9

(* The largest prefixes inside a set of addresses cover it: below an address *)
(* there is a prefix inside, the address itself; the shortest one that is    *)
(* inside is in no other.                                                    *)
LEMMA HostPrefix ==
  ASSUME Ranges!RangeAssumption, NEW f \in {4, 6}, NEW a \in Ranges!Addresses(f)
  PROVE  LET p == [addr |-> a, bits |-> Ranges!Width(f)]
         IN  /\ p \in Ranges!Prefixes(f) /\ p = Ranges!Masked(f, p)
             /\ Ranges!Range(f, p) = {a}
<1> DEFINE p == [addr |-> a, bits |-> Ranges!Width(f)]
<1>1. /\ Ranges!Width(f) \in Nat /\ Ranges!Addresses(f) = 0..(Pow(Ranges!Width(f)) - 1)
      /\ Pow(Ranges!Width(f)) \in Nat
  BY WidthIs, PowerIs
<1>2. p \in Ranges!Prefixes(f) /\ p.addr = a /\ p.bits = Ranges!Width(f)
  BY <1>1 DEF Ranges!Prefixes
<1>3. Ranges!Size(f, p) = 1 /\ a \in Nat
  BY <1>1, <1>2, SizeIs, PowerIs
<1>4. (a \div 1) * 1 = a
  BY <1>3
<1> HIDE DEF p
<1>5. Ranges!Masked(f, p).addr = a /\ Ranges!Masked(f, p).bits = p.bits /\ Ranges!Range(f, p) = a..(a + 1 - 1)
  BY <1>2, <1>3, <1>4, RangeIs
<1>6. Ranges!Masked(f, p) \in Ranges!Prefixes(f)
  BY <1>2, MaskedIs
<1>7. Ranges!Masked(f, p) = p
  BY <1>2, <1>5, <1>6 DEF Ranges!Prefixes
<1>8. a..(a + 1 - 1) = {a}
  BY <1>3
<1> QED BY <1>2, <1>5, <1>7, <1>8 DEF p

LEMMA ShorterIsWider ==
  ASSUME Ranges!RangeAssumption, NEW f \in {4, 6}, NEW p \in Ranges!Prefixes(f), NEW q \in Ranges!Prefixes(f),
         p = Ranges!Masked(f, p), q = Ranges!Masked(f, q), p.bits <= q.bits,
         Ranges!Range(f, p) \subseteq Ranges!Range(f, q)
  PROVE  p = q
<1> DEFINE w == Ranges!Width(f)
           s == Ranges!Size(f, p)
           t == Ranges!Size(f, q)
<1>1. /\ s \in Nat \ {0} /\ t \in Nat \ {0} /\ p.addr \in Nat /\ q.addr \in Nat
      /\ Ranges!Range(f, p) = (p.addr)..(p.addr + s - 1) /\ Ranges!Range(f, q) = (q.addr)..(q.addr + t - 1)
  <2>1. \A r \in Ranges!Prefixes(f) : Ranges!Masked(f, r).addr = (r.addr \div Ranges!Size(f, r)) * Ranges!Size(f, r)
    BY RangeIs
  <2>2. p.addr = (p.addr \div s) * s /\ q.addr = (q.addr \div t) * t
    BY <2>1
  <2>3. /\ Ranges!Range(f, p) = ((p.addr \div s) * s)..((p.addr \div s) * s + s - 1)
        /\ Ranges!Range(f, q) = ((q.addr \div t) * t)..((q.addr \div t) * t + t - 1)
    BY RangeIs
  <2>4. \A x, y, z : x = y => x..(x + z - 1) = y..(y + z - 1)
    OBVIOUS
  <2>5. Ranges!Range(f, p) = (p.addr)..(p.addr + s - 1) /\ Ranges!Range(f, q) = (q.addr)..(q.addr + t - 1)
    BY <2>2, <2>3, <2>4, Zenon
  <2> QED BY <2>5, SizeIs
<1>2. /\ s = Pow(w - p.bits) /\ t = Pow(w - q.bits) /\ w \in Nat /\ w <= Top /\ Top \in Nat
      /\ p.bits \in Nat /\ q.bits \in Nat /\ p.bits <= w /\ q.bits <= w
  <2>1. w \in Nat /\ w \in 0..Top /\ Top \in Nat
    BY WidthIs, PowerIs
  <2>2. s = Pow(w - p.bits) /\ t = Pow(w - q.bits) /\ p.bits \in Nat /\ q.bits \in Nat /\ p.bits <= w /\ q.bits <= w
    BY SizeIs
  <2> HIDE DEF s, t, w
  <2> QED BY <2>1, <2>2
<1> HIDE DEF s, t, w
<1>3. p.addr \in Ranges!Range(f, p) /\ p.addr + s - 1 \in Ranges!Range(f, p)
  BY <1>1
<1>4. p.addr >= q.addr /\ p.addr + s <= q.addr + t
  BY <1>1, <1>3
<1>5. p.bits = q.bits
  <2> SUFFICES ASSUME p.bits < q.bits PROVE FALSE
    BY <1>2
  <2>1. w - q.bits \in 0..Top /\ w - p.bits \in 0..Top /\ w - q.bits < w - p.bits
    BY <1>2
  <2>2. t < s
    BY <1>2, <2>1, PowerGrows
  <2> QED BY <1>1, <1>4, <2>2
<1>6. s = t
  BY <1>2, <1>5
<1>7. p.addr = q.addr
  BY <1>1, <1>4, <1>6
<1> QED BY <1>5, <1>7 DEF Ranges!Prefixes

LEMMA PrefixesCover ==
  ASSUME Ranges!RangeAssumption, NEW f \in {4, 6}, NEW A, A \subseteq Ranges!Addresses(f)
  PROVE  /\ Ranges!PrefixesOf(f, A) \subseteq Ranges!Prefixes(f)
         /\ Ranges!Covered(f, Ranges!PrefixesOf(f, A)) = A
<1> DEFINE inside == {p \in Ranges!Prefixes(f) : p = Ranges!Masked(f, p) /\ Ranges!Range(f, p) \subseteq A}
<1>1. Ranges!PrefixesOf(f, A) = {p \in inside : \A q \in inside : Ranges!Range(f, p) \subseteq Ranges!Range(f, q) => p = q}
  BY DEF Ranges!PrefixesOf
<1>2. \A p \in inside : p \in Ranges!Prefixes(f) /\ p = Ranges!Masked(f, p) /\ Ranges!Range(f, p) \subseteq A
  OBVIOUS
<1>3. ASSUME NEW a \in A PROVE \E p \in Ranges!PrefixesOf(f, A) : a \in Ranges!Range(f, p)
  <2> DEFINE B == {b \in Nat : \E p \in inside : p.bits = b /\ a \in Ranges!Range(f, p)}
             lone == [addr |-> a, bits |-> Ranges!Width(f)]
  <2>1. lone \in inside /\ a \in Ranges!Range(f, lone) /\ lone.bits \in Nat
    <3>1. a \in Ranges!Addresses(f)
      OBVIOUS
    <3>2. lone \in Ranges!Prefixes(f) /\ lone = Ranges!Masked(f, lone) /\ Ranges!Range(f, lone) = {a}
      BY <3>1, HostPrefix
    <3> HIDE DEF lone
    <3>3. lone \in inside
      BY <3>2
    <3> QED BY <3>2, <3>3, SizeIs
  <2> HIDE DEF lone
  <2>2. B \subseteq Nat /\ lone.bits \in B
    BY <2>1
  <2>3. PICK b \in B : \A c \in B : b <= c
    <3> HIDE DEF B
    <3> QED BY <2>2, NatMin
  <2>4. PICK p \in inside : p.bits = b /\ a \in Ranges!Range(f, p)
    BY <2>3
  <2>5. ASSUME NEW q \in inside, Ranges!Range(f, p) \subseteq Ranges!Range(f, q) PROVE p = q
    <3>1. a \in Ranges!Range(f, q) /\ q.bits \in Nat /\ p.bits \in Nat
      BY <1>2, <2>4, <2>5, SizeIs
    <3>2. p.bits <= q.bits
      BY <2>3, <2>4, <2>5, <3>1
    <3> HIDE DEF inside
    <3> QED BY <1>2, <2>5, <2>4, <3>2, ShorterIsWider
  <2>6. p \in Ranges!PrefixesOf(f, A)
    <3> HIDE DEF inside
    <3> QED BY <1>1, <2>4, <2>5
  <2> QED BY <2>4, <2>6
<1>4. \A p \in Ranges!PrefixesOf(f, A) : p \in Ranges!Prefixes(f) /\ Ranges!Range(f, p) \subseteq A
  BY <1>1, <1>2
<1> HIDE DEF inside
<1>5. Ranges!Covered(f, Ranges!PrefixesOf(f, A)) = A
  BY <1>3, <1>4, Zenon DEF Ranges!Covered
<1> QED BY <1>4, <1>5

----------------------------------------
(* The sub ranges: all but the first of 2^TopBits parts *)
LEMMA SubRangeIs ==
  ASSUME Ranges!RangeAssumption, NEW f \in {4, 6}, NEW k \in 0..(TopBits - 1)
  PROVE  LET p == [addr |-> 2^k * 2^(Ranges!Width(f) - TopBits), bits |-> TopBits - k]
             n == Pow(Ranges!Width(f) - TopBits + k)
         IN  /\ p \in Ranges!Prefixes(f) /\ n \in Nat
             /\ Ranges!Range(f, p) = n..(n + n - 1)
<1> DEFINE w == Ranges!Width(f)
           j == w - TopBits
           n == Pow(j + k)
           p == [addr |-> 2^k * 2^(w - TopBits), bits |-> TopBits - k]
<1>1. w \in Nat /\ w <= Top /\ TopBits \in Nat /\ TopBits <= w /\ Top \in Nat /\ Ranges!Addresses(f) = 0..(Pow(w) - 1)
  BY WidthIs, PowerIs
<1>2. p = [addr |-> Pow(k) * Pow(j), bits |-> TopBits - k]
  <2>1. 2^k * 2^(w - TopBits) = Pow(k) * Pow(w - TopBits)
    BY Zenon DEF Pow
  <2>2. \A x, y, b : x = y => [addr |-> x, bits |-> b] = [addr |-> y, bits |-> b]
    OBVIOUS
  <2> QED BY <2>1, <2>2, Zenon
<1> HIDE DEF w, p
<1>3. /\ j \in Nat /\ k \in Nat /\ j + k \in 0..Top /\ j + k <= Top /\ k + j = j + k /\ j \in 0..Top /\ k \in 0..Top
      /\ TopBits - k \in 0..w /\ w - (TopBits - k) = j + k /\ w \in 0..Top
      /\ j + k < w
  BY <1>1
<1> HIDE DEF j
<1>4. Pow(k) * Pow(j) = n
  BY <1>3, PowerOfSum
<1>5. n \in Nat /\ n >= 1 /\ n < Pow(w) /\ Pow(w) \in Nat
  BY <1>3, PowerPositive, PowerGrows
<1> HIDE DEF n
<1>6. p = [addr |-> n, bits |-> TopBits - k] /\ n \in Ranges!Addresses(f)
  BY <1>1, <1>2, <1>4, <1>5
<1>7. p \in Ranges!Prefixes(f) /\ p.addr = n /\ p.bits = TopBits - k
  BY <1>3, <1>6 DEF Ranges!Prefixes, w
<1>8. Ranges!Size(f, p) = n
  BY <1>7, <1>3, SizeIs DEF w, n
<1>9. n \div n = 1 /\ 1 * n = n
  BY <1>5
<1>10. Ranges!Range(f, p) = ((n \div n) * n)..((n \div n) * n + n - 1)
  BY <1>7, <1>8, RangeIs
<1>11. Ranges!Range(f, p) = n..(n + n - 1)
  BY <1>9, <1>10
<1> QED BY <1>5, <1>7, <1>11 DEF w, j, n, p

LEMMA SubRangesCover ==
  ASSUME Ranges!RangeAssumption, NEW f \in {4, 6}
  PROVE  /\ Ranges!SubRanges(f) \subseteq Ranges!Prefixes(f)
         /\ \A a \in Ranges!Addresses(f) :
              a \in Ranges!Covered(f, Ranges!SubRanges(f)) <=> ~(a < 2^(Ranges!Width(f) - TopBits))
<1> DEFINE w == Ranges!Width(f)
           j == w - TopBits
           sub(k) == [addr |-> 2^k * 2^(w - TopBits), bits |-> TopBits - k]
<1>1. w \in Nat /\ w <= Top /\ TopBits \in Nat /\ TopBits <= w /\ Top \in Nat /\ Ranges!Addresses(f) = 0..(Pow(w) - 1)
  BY WidthIs, PowerIs
<1>2. \A k \in 0..(TopBits - 1) : /\ sub(k) \in Ranges!Prefixes(f) /\ Pow(j + k) \in Nat
                                  /\ Ranges!Range(f, sub(k)) = Pow(j + k)..(Pow(j + k) + Pow(j + k) - 1)
  BY SubRangeIs
<1>3. Ranges!SubRanges(f) = {sub(k) : k \in 0..(TopBits - 1)}
  BY DEF Ranges!SubRanges
<1>4. 2^(Ranges!Width(f) - TopBits) = Pow(j)
  BY DEF Pow
<1> HIDE DEF sub, w
<1>5. /\ j \in Nat /\ j \in 0..Top /\ j + TopBits = w
      /\ \A k \in 0..TopBits : j + k \in 0..Top
  BY <1>1
<1>6. Pow(j) \in Nat /\ Pow(w) \in Nat /\ \A k \in 0..TopBits : Pow(j + k) \in Nat /\ Pow(j + k + 1) = 2 * Pow(j + k)
  <2>1. w \in 0..Top
    BY <1>1
  <2> QED BY <1>5, <2>1, PowerIs
<1> HIDE DEF j
<1>7. ASSUME NEW a \in Ranges!Addresses(f), NEW k \in 0..(TopBits - 1), a \in Ranges!Range(f, sub(k)) PROVE ~(a < Pow(j))
  <2>1. CASE k = 0
    <3>1. j + 0 = j
      BY <1>5
    <3> QED BY <1>2, <1>7, <2>1, <3>1, <1>6
  <2>2. CASE k > 0
    <3>1. j < j + k /\ j + k \in 0..Top /\ j \in 0..Top
      BY <1>1, <1>5, <2>2
    <3>2. Pow(j) < Pow(j + k)
      BY <3>1, PowerGrows
    <3>3. a >= Pow(j + k) /\ a \in Nat /\ Pow(j + k) \in Nat
      BY <1>2, <1>7
    <3> QED BY <3>2, <3>3, <1>6
  <2> QED BY <2>1, <2>2, <1>1
<1>8. ASSUME NEW a \in Ranges!Addresses(f), ~(a < Pow(j)) PROVE \E k \in 0..(TopBits - 1) : a \in Ranges!Range(f, sub(k))
  <2> DEFINE T == {k \in 0..TopBits : a < Pow(j + k)}
  <2>1. a \in Nat /\ a < Pow(w)
    BY <1>1, <1>6
  <2>2. T \subseteq Nat /\ TopBits \in T
    BY <1>1, <1>5, <2>1
  <2>3. PICK m \in T : \A n \in T : m <= n
    <3> HIDE DEF T
    <3> QED BY <2>2, NatMin
  <2>4. m # 0
    <3>1. j + 0 = j
      BY <1>5
    <3> QED BY <2>3, <1>8, <3>1
  <2>5. m \in Nat /\ m <= TopBits /\ a < Pow(j + m)
    BY <2>3, <1>1
  <2>6. m - 1 \in 0..TopBits /\ m - 1 \in 0..(TopBits - 1) /\ j + (m - 1) + 1 = j + m
    BY <2>4, <2>5, <1>1, <1>5
  <2>7. ~(a < Pow(j + (m - 1)))
    BY <2>3, <2>5, <2>6
  <2>8. Pow(j + (m - 1)) \in Nat /\ Pow(j + m) = 2 * Pow(j + (m - 1))
    BY <1>6, <2>6
  <2>9. a \in Pow(j + (m - 1))..(Pow(j + (m - 1)) + Pow(j + (m - 1)) - 1)
    BY <2>1, <2>5, <2>7, <2>8
  <2> QED BY <1>2, <2>6, <2>9
<1>9. ASSUME NEW a \in Ranges!Addresses(f) PROVE a \in Ranges!Covered(f, Ranges!SubRanges(f)) <=> ~(a < Pow(j))
  <2>1. a \in Ranges!Covered(f, Ranges!SubRanges(f)) <=> \E k \in 0..(TopBits - 1) : a \in Ranges!Range(f, sub(k))
    BY <1>3, Zenon DEF Ranges!Covered
  <2> QED BY <2>1, <1>7, <1>8
<1>10. Ranges!SubRanges(f) \subseteq Ranges!Prefixes(f)
  BY <1>2, <1>3
<1> QED BY <1>4, <1>9, <1>10, Zenon

----------------------------------------
(* BuildAutoRouteRanges *)
LEMMA OptionsAre ==
  ASSUME Ranges!RangeAssumption, NEW p \in RangeOptionSet, NEW f \in {4, 6}
  PROVE  /\ p.autoRoute \in BOOLEAN /\ p.extension \in BOOLEAN
         /\ p.address[f] \in Seq(Ranges!Prefixes(f))
         /\ \A i \in DOMAIN p.address[f] : p.address[f][i] \in Ranges!Prefixes(f)
         /\ p.address[f] # <<>> => 1 \in DOMAIN p.address[f]
         /\ p.route[f] \subseteq Ranges!Prefixes(f) /\ p.exclude[f] \subseteq Ranges!Prefixes(f)
         /\ p.gateway[f] \in Ranges!Addresses(f) \union {None}
<1>1. /\ p.autoRoute \in BOOLEAN /\ p.extension \in BOOLEAN
      /\ p.address[f] \in Seq(Ranges!Prefixes(f))
      /\ p.route[f] \subseteq Ranges!Prefixes(f) /\ p.exclude[f] \subseteq Ranges!Prefixes(f)
      /\ p.gateway[f] \in Ranges!Addresses(f) \union {None}
  BY DEF Ranges!RangeAssumption, Ranges!IsOptions, Ranges!Families
<1>2. ASSUME NEW M, NEW s \in Seq(M) PROVE (\A i \in DOMAIN s : s[i] \in M) /\ (s # <<>> => 1 \in DOMAIN s)
  OBVIOUS
<1> QED BY <1>1, <1>2

LEMMA CoveredIs ==
  ASSUME Ranges!RangeAssumption, NEW f \in {4, 6}, NEW S, S \subseteq Ranges!Prefixes(f)
  PROVE  /\ Ranges!Covered(f, S) \subseteq Ranges!Addresses(f)
         /\ \A a : a \in Ranges!Covered(f, S) <=> \E p \in S : a \in Ranges!Range(f, p)
<1>1. \A a : a \in Ranges!Covered(f, S) <=> \E p \in S : a \in Ranges!Range(f, p)
  BY Zenon DEF Ranges!Covered
<1> QED BY <1>1, RangeOf

LEMMA DefaultCovers ==
  ASSUME Ranges!RangeAssumption, NEW f \in {4, 6}
  PROVE  /\ [addr |-> 0, bits |-> 0] \in Ranges!Prefixes(f)
         /\ \A a \in Ranges!Addresses(f) : a \in Ranges!Range(f, [addr |-> 0, bits |-> 0])
<1> DEFINE p == [addr |-> 0, bits |-> 0]
           w == Ranges!Width(f)
<1>1. w \in Nat /\ w \in 0..Top /\ Ranges!Addresses(f) = 0..(Pow(w) - 1)
  BY WidthIs
<1>2. Pow(w) \in Nat /\ Pow(w) >= 1
  BY <1>1, PowerPositive
<1> HIDE DEF w
<1>3. p \in Ranges!Prefixes(f) /\ p.addr = 0 /\ p.bits = 0
  BY <1>1, <1>2 DEF Ranges!Prefixes, w
<1>4. w - 0 = w /\ 0 \div Pow(w) = 0 /\ 0 * Pow(w) = 0
  BY <1>1, <1>2
<1> HIDE DEF p
<1>5. Ranges!Size(f, p) = Pow(w)
  BY <1>3, <1>4, SizeIs DEF w
<1>6. Ranges!Range(f, p) = ((0 \div Pow(w)) * Pow(w))..((0 \div Pow(w)) * Pow(w) + Pow(w) - 1)
  BY <1>3, <1>5, RangeIs
<1>7. Ranges!Range(f, p) = 0..(0 + Pow(w) - 1)
  BY <1>4, <1>6
<1> QED BY <1>1, <1>2, <1>3, <1>7 DEF p

\* What Wanted covers, in the words of the property
LEMMA WantedIs ==
  ASSUME Ranges!RangeAssumption, NEW f \in {4, 6}, NEW p \in RangeOptionSet
  PROVE  /\ Ranges!Wanted(f, p) \subseteq Ranges!Prefixes(f)
         /\ \A a \in Ranges!Addresses(f) : a \in Ranges!Covered(f, Ranges!Wanted(f, p)) <=>
              IF p.route[f] # {}
              THEN \/ a \in Ranges!Covered(f, p.route[f])
                   \/ /\ p.goos = "darwin"
                      /\ \E i \in DOMAIN p.address[f] : a \in Ranges!Range(f, p.address[f][i]) /\ p.address[f][i].bits < W4
              ELSE ~(p.goos = "darwin" /\ ~p.extension /\ a < 2^(Ranges!Width(f) - TopBits))
<1> DEFINE own == Ranges!OwnNetworks(f, p)
           lower(a) == a < 2^(Ranges!Width(f) - TopBits)
<1>1. CASE p.route[f] # {}
  <2>1. Ranges!Wanted(f, p) = p.route[f] \union own
    BY <1>1 DEF Ranges!Wanted
  <2>2. \A q : q \in own <=> /\ p.goos = "darwin"
                             /\ \E i \in DOMAIN p.address[f] : p.address[f][i].bits < W4 /\ q = Ranges!Masked(f, p.address[f][i])
    BY DEF Ranges!OwnNetworks
  <2> HIDE DEF own
  <2>3. own \subseteq Ranges!Prefixes(f)
    BY <2>2, OptionsAre, MaskedIs
  <2>4. Ranges!Wanted(f, p) \subseteq Ranges!Prefixes(f)
    BY <2>1, <2>3, OptionsAre
  <2>5. \A a : (\E q \in own : a \in Ranges!Range(f, q)) <=>
              /\ p.goos = "darwin"
              /\ \E i \in DOMAIN p.address[f] : a \in Ranges!Range(f, p.address[f][i]) /\ p.address[f][i].bits < W4
    BY <2>2, OptionsAre, MaskedIs
  <2>6. \A a : a \in Ranges!Covered(f, Ranges!Wanted(f, p)) <=>
              a \in Ranges!Covered(f, p.route[f]) \/ \E q \in own : a \in Ranges!Range(f, q)
    BY <2>1, Zenon DEF Ranges!Covered
  <2> QED BY <1>1, <2>4, <2>5, <2>6
<1>2. CASE p.route[f] = {} /\ p.goos = "darwin" /\ ~p.extension
  <2>1. Ranges!Wanted(f, p) = Ranges!SubRanges(f)
    BY <1>2 DEF Ranges!Wanted
  <2>2. \A a \in Ranges!Addresses(f) : a \in Ranges!Covered(f, Ranges!SubRanges(f)) <=> ~lower(a)
    BY SubRangesCover, Zenon
  <2> HIDE DEF lower
  <2>3. /\ Ranges!Wanted(f, p) \subseteq Ranges!Prefixes(f)
        /\ \A a \in Ranges!Addresses(f) : a \in Ranges!Covered(f, Ranges!Wanted(f, p)) <=>
              ~(p.goos = "darwin" /\ ~p.extension /\ lower(a))
    BY <1>2, <2>1, <2>2, SubRangesCover
  <2> QED BY <1>2, <2>3, Zenon DEF lower
<1>3. CASE p.route[f] = {} /\ ~(p.goos = "darwin" /\ ~p.extension)
  <2>1. Ranges!Wanted(f, p) = {[addr |-> 0, bits |-> 0]}
    BY <1>3 DEF Ranges!Wanted
  <2>2. Ranges!Wanted(f, p) \subseteq Ranges!Prefixes(f)
    BY <2>1, DefaultCovers
  <2>3. \A a \in Ranges!Addresses(f) : a \in Ranges!Covered(f, Ranges!Wanted(f, p))
    BY <2>1, <2>2, DefaultCovers, CoveredIs
  <2> HIDE DEF lower
  <2>4. \A a \in Ranges!Addresses(f) : a \in Ranges!Covered(f, Ranges!Wanted(f, p)) <=>
              ~(p.goos = "darwin" /\ ~p.extension /\ lower(a))
    BY <1>3, <2>3
  <2> QED BY <1>3, <2>2, <2>4, Zenon DEF lower
<1> QED BY <1>1, <1>2, <1>3

LEMMA FamilyRangesAre ==
  ASSUME Ranges!RangeAssumption, NEW f \in {4, 6}, NEW p \in RangeOptionSet, p.autoRoute
  PROVE  /\ Ranges!FamilyRanges(f, p) \subseteq Ranges!Prefixes(f)
         /\ \A a : a \in Ranges!Covered(f, Ranges!FamilyRanges(f, p)) <=>
              /\ p.address[f] # <<>>
              /\ a \in Ranges!Covered(f, Ranges!Wanted(f, p)) /\ a \notin Ranges!Covered(f, p.exclude[f])
<1> DEFINE W == Ranges!Covered(f, Ranges!Wanted(f, p))
           X == Ranges!Covered(f, p.exclude[f])
<1>1. CASE p.address[f] = <<>>
  BY <1>1, CoveredIs DEF Ranges!FamilyRanges
<1>2. CASE p.address[f] # <<>> /\ p.exclude[f] = {}
  BY <1>2, CoveredIs, WantedIs DEF Ranges!FamilyRanges
<1>3. CASE p.address[f] # <<>> /\ p.exclude[f] # {}
  <2>1. Ranges!FamilyRanges(f, p) = Ranges!PrefixesOf(f, W \ X)
    BY <1>3 DEF Ranges!FamilyRanges
  <2>2. Ranges!Wanted(f, p) \subseteq Ranges!Prefixes(f)
    BY WantedIs
  <2>3. W \subseteq Ranges!Addresses(f)
    BY <2>2, CoveredIs
  <2> HIDE DEF W, X
  <2>4. W \ X \subseteq Ranges!Addresses(f)
    BY <2>3
  <2>5. /\ Ranges!PrefixesOf(f, W \ X) \subseteq Ranges!Prefixes(f)
        /\ Ranges!Covered(f, Ranges!PrefixesOf(f, W \ X)) = W \ X
    BY <2>4, PrefixesCover
  <2>6. /\ Ranges!FamilyRanges(f, p) \subseteq Ranges!Prefixes(f)
        /\ \A a : a \in Ranges!Covered(f, Ranges!FamilyRanges(f, p)) <=> p.address[f] # <<>> /\ a \in W /\ a \notin X
    BY <1>3, <2>1, <2>5
  <2> QED BY <2>6 DEF W, X
<1> QED BY <1>1, <1>2, <1>3

\* The family is not routed without auto route, or it is as with it
LEMMA FamilyRangesTyped ==
  ASSUME Ranges!RangeAssumption, NEW f \in {4, 6}, NEW p \in RangeOptionSet
  PROVE  Ranges!FamilyRanges(f, p) \subseteq Ranges!Prefixes(f)
<1> DEFINE W == Ranges!Covered(f, Ranges!Wanted(f, p)) \ Ranges!Covered(f, p.exclude[f])
<1>1. Ranges!FamilyRanges(f, p) \in {{}, Ranges!Wanted(f, p), Ranges!PrefixesOf(f, W)}
  BY DEF Ranges!FamilyRanges
<1>2. Ranges!Wanted(f, p) \subseteq Ranges!Prefixes(f) /\ W \subseteq Ranges!Addresses(f)
  BY WantedIs, CoveredIs
<1> HIDE DEF W
<1>3. Ranges!PrefixesOf(f, W) \subseteq Ranges!Prefixes(f)
  BY <1>2, PrefixesCover
<1> QED BY <1>1, <1>2, <1>3

----------------------------------------
(* The gateways and the servers *)
LEMMA NextIs ==
  ASSUME Ranges!RangeAssumption, NEW f \in {4, 6}, NEW p \in Ranges!Prefixes(f), Ranges!HasNextAddress(f, p)
  PROVE  LET n == Ranges!Next1(f, p.addr)
         IN  n \in Ranges!Addresses(f) /\ n \in Ranges!Range(f, p) /\ n # p.addr
  BY SizeIs DEF Ranges!HasNextAddress, Ranges!Next1

LEMMA ZeroIs == ASSUME Ranges!RangeAssumption, NEW f \in {4, 6} PROVE 0 \in Ranges!Addresses(f)
  BY WidthIs, PowerPositive

LEMMA GatewayIs ==
  ASSUME Ranges!RangeAssumption, NEW f \in {4, 6}, NEW p \in RangeOptionSet
  PROVE  LET g == Ranges!GatewayAddr(f, p)
         IN  /\ g \in Ranges!Addresses(f)
             /\ p.gateway[f] = None =>
                  \/ g = 0
                  \/ /\ g \in Ranges!Range(f, Ranges!First(f, p))
                     /\ g = Ranges!First(f, p).addr => p.goos = "darwin" \/ ~Ranges!HasNextAddress(f, Ranges!First(f, p))
<1> DEFINE g == Ranges!GatewayAddr(f, p)
           d == Ranges!First(f, p)
<1>1. CASE p.gateway[f] # None
  BY <1>1, OptionsAre DEF Ranges!GatewayAddr
<1>2. CASE p.gateway[f] = None /\ (p.address[f] = <<>> \/ p.goos = "android")
  BY <1>2, ZeroIs DEF Ranges!GatewayAddr
<1>3. CASE p.gateway[f] = None /\ p.address[f] # <<>> /\ p.goos # "android"
  <2>1. d \in Ranges!Prefixes(f)
    BY <1>3, OptionsAre DEF Ranges!First
  <2>2. d.addr \in Ranges!Addresses(f) /\ d.addr \in Ranges!Range(f, d)
    BY <2>1, SizeIs, RangeOf
  <2>3. CASE p.goos = "darwin"
    BY <1>3, <2>2, <2>3 DEF Ranges!GatewayAddr
  <2>4. CASE p.goos # "darwin" /\ Ranges!HasNextAddress(f, d)
    BY <1>3, <2>4, <2>1, NextIs DEF Ranges!GatewayAddr
  <2>5. CASE p.goos # "darwin" /\ ~Ranges!HasNextAddress(f, d)
    <3>1. g = 0 \/ g = d.addr
      BY <1>3, <2>5 DEF Ranges!GatewayAddr
    <3> QED BY <3>1, <2>2, <2>5, ZeroIs
  <2> QED BY <2>3, <2>4, <2>5
<1> QED BY <1>1, <1>2, <1>3

\* The servers of one family: chosen beside the device, or configured, or none
LEMMA DNSIs ==
  ASSUME Ranges!RangeAssumption, NEW f \in {4, 6}, NEW p \in RangeOptionSet
  PROVE  LET d == Ranges!DNSAddress(f, p)
         IN  /\ d = None \/ d \in Ranges!FamilyServers
             /\ d = None => /\ p.servers = {} /\ p.address[f] # <<>>
                            /\ \A g \in {4, 6} : ~Ranges!Offers(g, p)
             /\ p.servers # {} => \A s : s \in d <=> p.address[f] # <<>> /\ s \in p.servers /\ s.family = f
             /\ (p.servers = {} /\ d # None) =>
                  \A s \in d : /\ s.family = f /\ s.addr \in Ranges!Addresses(f)
                               /\ s.addr \in Ranges!Range(f, Ranges!First(f, p))
                               /\ s.addr # Ranges!First(f, p).addr
             /\ (p.servers = {} /\ d # None /\ Ranges!Offers(f, p)) => d # {}
<1> DEFINE d == Ranges!DNSAddress(f, p)
           x == Ranges!First(f, p)
           y == [family |-> f, addr |-> Ranges!Next1(f, x.addr)]
<1>0. None \notin Ranges!FamilyServers
  BY DEF Ranges!RangeAssumption
<1>1. CASE p.address[f] = <<>>
  BY <1>1, <1>0 DEF Ranges!DNSAddress, Ranges!FamilyServers, Ranges!Offers
<1>2. CASE p.address[f] # <<>> /\ p.servers # {}
  <2>1. d = {s \in p.servers : s.family = f}
    BY <1>2 DEF Ranges!DNSAddress
  <2>2. d \in Ranges!FamilyServers
    <3>1. d \in {{s \in q.servers : s.family = g} : q \in RangeOptionSet, g \in {4, 6}}
      <4> SUFFICES \E q \in RangeOptionSet, g \in {4, 6} : d = {s \in q.servers : s.family = g}
        OBVIOUS
      <4> QED BY <2>1
    <3> HIDE DEF d
    <3> QED BY <3>1 DEF Ranges!FamilyServers, Ranges!Families
  <2> QED BY <1>0, <1>2, <2>1, <2>2
<1>3. CASE p.address[f] # <<>> /\ p.servers = {} /\ Ranges!HasNextAddress(f, x)
  <2>1. d = {y}
    BY <1>3 DEF Ranges!DNSAddress
  <2>2. x \in Ranges!Prefixes(f)
    BY <1>3, OptionsAre DEF Ranges!First
  <2>3. y.family = f /\ y.addr \in Ranges!Addresses(f) /\ y.addr \in Ranges!Range(f, x) /\ y.addr # x.addr
    BY <1>3, <2>2, NextIs
  <2>4. y \in Ranges!Server
    <3>1. y \in [family : {f}, addr : Ranges!Addresses(f)] /\ f \in Ranges!Families
      BY <2>3 DEF Ranges!Families
    <3> HIDE DEF y
    <3> QED BY <3>1, Zenon DEF Ranges!Server
  <2> HIDE DEF y
  <2>5. d \in Ranges!FamilyServers
    BY <2>4, <2>1 DEF Ranges!FamilyServers
  <2>6. d # None /\ d # {}
    BY <1>0, <2>5, <2>1
  <2> QED BY <1>3, <2>1, <2>3, <2>5, <2>6
<1>4. CASE p.address[f] # <<>> /\ p.servers = {} /\ ~Ranges!HasNextAddress(f, x)
  <2>1. ~Ranges!Offers(f, p)
    BY <1>4 DEF Ranges!Offers
  <2>2. CASE \E g \in Ranges!Families \ {f} : Ranges!Offers(g, p)
    BY <1>4, <2>2, <1>0, <2>1 DEF Ranges!DNSAddress, Ranges!FamilyServers
  <2>3. CASE ~\E g \in Ranges!Families \ {f} : Ranges!Offers(g, p)
    BY <1>4, <2>3, <2>1 DEF Ranges!DNSAddress, Ranges!Families
  <2> QED BY <2>2, <2>3
<1> QED BY <1>1, <1>2, <1>3, <1>4

----------------------------------------
(* The name *)
LEMMA NextIndexIs ==
  ASSUME Ranges!RangeAssumption, NEW taken \in SUBSET (0..(MaxIndex + 1))
  PROVE  LET n == Ranges!NextIndex(taken)
         IN  n \in 0..(MaxIndex + 1) /\ (n # MaxIndex + 1 => n \notin taken)
<1> DEFINE parsed == taken \intersect 0..MaxIndex
           Above1(n) == (\A i \in parsed : i < n) /\ (n = 0 \/ n - 1 \in parsed)
           T == {n \in 0..(MaxIndex + 1) : \A i \in parsed : i < n}
<1>1. MaxIndex \in Nat
  BY DEF Ranges!RangeAssumption
<1>2. T \subseteq Nat /\ MaxIndex + 1 \in T
  BY <1>1
<1>3. PICK m \in T : \A n \in T : m <= n
  <2> HIDE DEF T
  <2> QED BY <1>2, NatMin
<1>4. m = 0 \/ m - 1 \in parsed
  <2> SUFFICES ASSUME m # 0 PROVE m - 1 \in parsed
    OBVIOUS
  <2>1. m \in Nat /\ m - 1 \in 0..(MaxIndex + 1) /\ ~(m <= m - 1)
    BY <1>1, <1>3
  <2>2. m - 1 \notin T
    BY <1>3, <2>1
  <2>3. PICK i \in parsed : ~(i < m - 1)
    BY <2>1, <2>2
  <2>4. i < m /\ i \in Nat
    BY <1>3
  <2>5. i = m - 1
    BY <2>1, <2>3, <2>4
  <2> QED BY <2>5
<1>5. \E n \in 0..(MaxIndex + 1) : Above1(n)
  BY <1>3, <1>4
<1>6. Ranges!NextIndex(taken) = CHOOSE n \in 0..(MaxIndex + 1) : Above1(n)
  BY DEF Ranges!NextIndex
<1> DEFINE x == Ranges!NextIndex(taken)
<1>7. x \in 0..(MaxIndex + 1) /\ Above1(x)
  BY <1>5, <1>6
<1> HIDE DEF x
<1>8. x # MaxIndex + 1 => x \notin taken
  BY <1>1, <1>7
<1> QED BY <1>7, <1>8 DEF x

----------------------------------------
\* A result is not there yet or what the function returned.
RangesInv ==
  /\ options \in RangeOptionSet
  /\ routes = None \/ routes = [f \in {4, 6} |-> Ranges!FamilyRanges(f, options)]
  /\ gateways = None \/ gateways = [f \in {4, 6} |-> Ranges!GatewayAddr(f, options)]
  /\ \/ servers = None
     \/ servers = Failed /\ \E f \in {4, 6} : Ranges!DNSAddress(f, options) = None
     \/ /\ servers = Ranges!DNSAddress(4, options) \union Ranges!DNSAddress(6, options)
        /\ \A f \in {4, 6} : Ranges!DNSAddress(f, options) # None
  /\ \/ name = None
     \/ \E taken \in SUBSET (0..(MaxIndex + 1)) :
          name = [taken |-> taken, index |-> Ranges!NextIndex(taken)] \/ name = [taken |-> taken, index |-> None]

LEMMA RangesKeep == ASSUME RangesInv, Ranges!Next PROVE RangesInv'
<1>1. CASE Ranges!BuildAutoRouteRanges
  BY <1>1 DEF RangesInv, Ranges!BuildAutoRouteRanges, Ranges!Families
<1>2. CASE Ranges!GatewayAddrs
  BY <1>2 DEF RangesInv, Ranges!GatewayAddrs, Ranges!Families
<1>3. CASE Ranges!DNSServerAddress
  BY <1>3 DEF RangesInv, Ranges!DNSServerAddress, Ranges!Families
<1>4. CASE Ranges!CalculateInterfaceName
  BY <1>4 DEF RangesInv, Ranges!CalculateInterfaceName
<1> QED BY <1>1, <1>2, <1>3, <1>4 DEF Ranges!Next

LEMMA RoutedHolds == ASSUME Ranges!RangeAssumption, RangesInv PROVE Ranges!RoutedAsAsked
<1> SUFFICES ASSUME routes # None, options.autoRoute, NEW f \in {4, 6}, NEW a \in Ranges!Addresses(f)
             PROVE  (a \in Ranges!Covered(f, routes[f])) <=> (Ranges!Asks(f, a) /\ ~Ranges!LeftOut(f, a))
  BY DEF Ranges!RoutedAsAsked, Ranges!Families
<1> DEFINE lower == a < 2^(Ranges!Width(f) - TopBits)
<1>1. options \in RangeOptionSet /\ routes[f] = Ranges!FamilyRanges(f, options)
  BY DEF RangesInv
<1>2. (a \in Ranges!Covered(f, routes[f])) <=>
         /\ options.address[f] # <<>>
         /\ a \in Ranges!Covered(f, Ranges!Wanted(f, options)) /\ a \notin Ranges!Covered(f, options.exclude[f])
  BY <1>1, FamilyRangesAre
<1>3. (a \in Ranges!Covered(f, Ranges!Wanted(f, options))) <=>
         IF options.route[f] # {}
         THEN \/ a \in Ranges!Covered(f, options.route[f])
              \/ /\ options.goos = "darwin"
                 /\ \E i \in DOMAIN options.address[f] :
                       a \in Ranges!Range(f, options.address[f][i]) /\ options.address[f][i].bits < W4
         ELSE ~(options.goos = "darwin" /\ ~options.extension /\ lower)
  BY <1>1, WantedIs, Zenon
<1>4. Ranges!LeftOut(f, a) <=>
         \/ options.route[f] = {} /\ options.goos = "darwin" /\ ~options.extension /\ lower
         \/ options.route[f] # {} /\ a \notin Ranges!Covered(f, options.route[f]) /\ \A i \in DOMAIN options.address[f] :
                 a \in Ranges!Range(f, options.address[f][i]) => options.address[f][i].bits >= W4
  BY Zenon DEF Ranges!LeftOut
<1> HIDE DEF lower
<1>5. \A i \in DOMAIN options.address[f] : (options.address[f][i].bits >= W4) <=> ~(options.address[f][i].bits < W4)
  <2>1. \A i \in DOMAIN options.address[f] : options.address[f][i].bits \in Nat
    BY <1>1, OptionsAre, SizeIs
  <2>2. W4 \in Nat
    BY DEF Ranges!RangeAssumption
  <2> QED BY <2>1, <2>2
<1>6. Ranges!Asks(f, a) <=>
         /\ options.address[f] # <<>> /\ a \notin Ranges!Covered(f, options.exclude[f])
         /\ \/ options.route[f] = {}
            \/ a \in Ranges!Covered(f, options.route[f])
            \/ options.goos = "darwin" /\ \E i \in DOMAIN options.address[f] : a \in Ranges!Range(f, options.address[f][i])
  BY DEF Ranges!Asks
<1>7. CASE options.route[f] = {}
  BY <1>2, <1>3, <1>4, <1>6, <1>7
<1>8. CASE options.route[f] # {}
  BY <1>2, <1>3, <1>4, <1>5, <1>6, <1>8
<1> QED BY <1>7, <1>8

LEMMA GatewayHolds == ASSUME Ranges!RangeAssumption, RangesInv PROVE Ranges!GatewayIsNeighbour
<1> SUFFICES ASSUME gateways # None, NEW f \in {4, 6}, options.gateway[f] = None
             PROVE  \/ gateways[f] = 0
                    \/ /\ gateways[f] \in Ranges!Range(f, Ranges!First(f, options))
                       /\ gateways[f] = Ranges!First(f, options).addr =>
                            options.goos = "darwin" \/ ~Ranges!HasNextAddress(f, Ranges!First(f, options))
  BY DEF Ranges!GatewayIsNeighbour, Ranges!Families
<1>1. options \in RangeOptionSet /\ gateways[f] = Ranges!GatewayAddr(f, options)
  BY DEF RangesInv
<1> QED BY <1>1, GatewayIs

LEMMA ServersHold == ASSUME Ranges!RangeAssumption, RangesInv PROVE Ranges!ServerOrError
<1> DEFINE D(f) == Ranges!DNSAddress(f, options)
<1>0. options \in RangeOptionSet
  BY DEF RangesInv
<1>1. ASSUME NEW f \in {4, 6}
      PROVE  /\ D(f) = None \/ D(f) \in Ranges!FamilyServers
             /\ D(f) = None => options.servers = {} /\ \A g \in {4, 6} : ~Ranges!Offers(g, options)
             /\ options.servers # {} => \A s : s \in D(f) <=> options.address[f] # <<>> /\ s \in options.servers /\ s.family = f
             /\ (options.servers = {} /\ D(f) # None) =>
                  \A s \in D(f) : /\ s.family = f
                                  /\ s.addr \in Ranges!Range(f, Ranges!First(f, options))
                                  /\ s.addr # Ranges!First(f, options).addr
             /\ (options.servers = {} /\ D(f) # None /\ Ranges!Offers(f, options)) => D(f) # {}
  BY <1>0, DNSIs
<1>2. ASSUME NEW f \in {4, 6}, D(f) = {}, options.servers = {}, options.address[f] # <<>>
      PROVE \E g \in {4, 6} : Ranges!Offers(g, options)
  <2>0. D(f) # None
    <3>1. {None, Failed} \intersect {a \union b : a \in Ranges!FamilyServers, b \in Ranges!FamilyServers} = {}
      BY DEF Ranges!RangeAssumption
    <3>2. {} \in Ranges!FamilyServers /\ {} = {} \union {}
      BY DEF Ranges!FamilyServers
    <3>3. {} \in {a \union b : a \in Ranges!FamilyServers, b \in Ranges!FamilyServers}
      BY <3>2
    <3> QED BY <1>2, <3>1, <3>3
  <2>1. CASE Ranges!HasNextAddress(f, Ranges!First(f, options))
    BY <1>2, <2>1 DEF Ranges!Offers
  <2>2. CASE ~Ranges!HasNextAddress(f, Ranges!First(f, options))
    BY <1>2, <2>2, <2>0 DEF Ranges!DNSAddress, Ranges!Families
  <2> QED BY <2>1, <2>2
<1>3. \A s \in options.servers : s.family \in {4, 6}
  BY <1>0 DEF Ranges!RangeAssumption, Ranges!IsOptions, Ranges!Server, Ranges!Families
<1> HIDE DEF D
<1>4. servers = None \/ (servers = Failed /\ \E f \in {4, 6} : D(f) = None)
      \/ (servers = D(4) \union D(6) /\ \A f \in {4, 6} : D(f) # None)
  BY DEF RangesInv, D
<1>5. ASSUME servers = D(4) \union D(6), \A f \in {4, 6} : D(f) # None PROVE servers # Failed
  <2>1. {None, Failed} \intersect {a \union b : a \in Ranges!FamilyServers, b \in Ranges!FamilyServers} = {}
    BY DEF Ranges!RangeAssumption
  <2>2. D(4) \in Ranges!FamilyServers /\ D(6) \in Ranges!FamilyServers
    BY <1>1, <1>5
  <2>3. servers \in {a \union b : a \in Ranges!FamilyServers, b \in Ranges!FamilyServers}
    BY <1>5, <2>2
  <2> QED BY <2>1, <2>3
<1>6. None # Failed
  BY DEF Ranges!RangeAssumption
<1>7. servers = Failed => options.servers = {} /\ ~\E f \in Ranges!Families : Ranges!Offers(f, options)
  BY <1>1, <1>4, <1>5, <1>6 DEF Ranges!Families
<1>8. ASSUME servers # None, servers # Failed, ~Ranges!AllDropped
      PROVE  /\ (\E f \in Ranges!Families : options.address[f] # <<>>) => servers # {}
             /\ options.servers = {} => \A s \in servers :
                  /\ s.addr \in Ranges!Range(s.family, Ranges!First(s.family, options))
                  /\ s.addr # Ranges!First(s.family, options).addr
  <2>1. servers = D(4) \union D(6) /\ \A f \in {4, 6} : D(f) # None
    BY <1>4, <1>8
  <2>2. CASE options.servers = {}
    <3>1. ASSUME NEW f \in {4, 6}, options.address[f] # <<>>, servers = {} PROVE FALSE
      <4>1. D(f) = {} /\ \A g \in {4, 6} : D(g) = {}
        BY <2>1, <3>1
      <4>2. PICK g \in {4, 6} : Ranges!Offers(g, options)
        BY <1>2, <2>2, <3>1, <4>1 DEF D
      <4> QED BY <1>1, <2>1, <2>2, <4>1, <4>2
    <3>2. \A s \in servers : /\ s.addr \in Ranges!Range(s.family, Ranges!First(s.family, options))
                             /\ s.addr # Ranges!First(s.family, options).addr
      BY <1>1, <2>1, <2>2
    <3> QED BY <3>1, <3>2 DEF Ranges!Families
  <2>3. CASE options.servers # {}
    <3>1. PICK s \in options.servers : options.address[s.family] # <<>>
      BY <1>8, <2>3 DEF Ranges!AllDropped
    <3>2. s.family \in {4, 6}
      BY <1>3
    <3>3. s \in D(s.family)
      BY <1>1, <2>3, <3>1, <3>2
    <3>4. s \in servers
      BY <2>1, <3>2, <3>3
    <3> QED BY <2>3, <3>4
  <2> QED BY <2>2, <2>3
<1> QED BY <1>7, <1>8 DEF Ranges!ServerOrError

LEMMA RangesShow ==
  ASSUME Ranges!RangeAssumption, RangesInv
  PROVE  /\ Ranges!TypeOK /\ Ranges!RoutedAsAsked /\ Ranges!GatewayIsNeighbour
         /\ Ranges!ServerOrError /\ Ranges!NameIsFree
<1>0. options \in RangeOptionSet
  BY DEF RangesInv
<1>1. routes # None => \A f \in {4, 6} : routes[f] \subseteq Ranges!Prefixes(f)
  BY <1>0, FamilyRangesTyped DEF RangesInv
<1>2. gateways # None => \A f \in {4, 6} : gateways[f] \in Ranges!Addresses(f)
  BY <1>0, GatewayIs DEF RangesInv
<1>3. \A s \in Ranges!Server : s.family \in {4, 6} /\ s.addr \in Ranges!Addresses(s.family)
  BY DEF Ranges!Server, Ranges!Families
<1>4. options.servers \subseteq Ranges!Server
  BY <1>0 DEF Ranges!RangeAssumption, Ranges!IsOptions
<1>5. ASSUME NEW f \in {4, 6}, NEW s \in Ranges!DNSAddress(f, options), Ranges!DNSAddress(f, options) # None
      PROVE  s.family \in {4, 6} /\ s.addr \in Ranges!Addresses(s.family)
  <2>1. CASE options.servers = {}
    BY <1>0, <1>5, <2>1, DNSIs
  <2>2. CASE options.servers # {}
    <3>1. s \in options.servers
      BY <1>0, <1>5, <2>2, DNSIs
    <3> QED BY <3>1, <1>3, <1>4
  <2> QED BY <2>1, <2>2
<1>6. servers \in {None, Failed} \/ \A s \in servers : s.family \in {4, 6} /\ s.addr \in Ranges!Addresses(s.family)
  BY <1>5 DEF RangesInv
<1>7. ASSUME name # None
      PROVE  /\ name.index \in {None} \union 0..(MaxIndex + 1)
             /\ name.index \notin {None, MaxIndex + 1} => name.index \notin name.taken
  <2>1. PICK t \in SUBSET (0..(MaxIndex + 1)) :
           name = [taken |-> t, index |-> Ranges!NextIndex(t)] \/ name = [taken |-> t, index |-> None]
    BY <1>7 DEF RangesInv
  <2>2. Ranges!NextIndex(t) \in 0..(MaxIndex + 1) /\ (Ranges!NextIndex(t) # MaxIndex + 1 => Ranges!NextIndex(t) \notin t)
    BY NextIndexIs
  <2> QED BY <2>1, <2>2
<1>8. Ranges!TypeOK
  BY <1>1, <1>2, <1>6, <1>7 DEF Ranges!TypeOK, Ranges!Families
<1>9. Ranges!NameIsFree
  BY <1>7 DEF Ranges!NameIsFree
<1> QED BY <1>8, <1>9, RoutedHolds, GatewayHolds, ServersHold

LEMMA InitRanges == ASSUME Ranges!Init PROVE RangesInv
  BY DEF Ranges!Init, Ranges!Fresh, RangesInv

LEMMA RangesInvariant == Spec => [](part = "ranges" => RangesInv)
<1>1. Init => (part = "ranges" => RangesInv)
  BY InitRanges DEF Init
<1>2. RangesInv /\ [Ranges!Next]_(Ranges!vars) => RangesInv'
  <2> SUFFICES ASSUME RangesInv, UNCHANGED Ranges!vars PROVE RangesInv'
    BY RangesKeep
  <2>1. UNCHANGED <<options, routes, gateways, servers, name>>
    BY DEF Ranges!vars
  <2> QED BY <2>1 DEF RangesInv
<1>3. (part = "ranges" => RangesInv) /\ [Next]_vars => (part = "ranges" => RangesInv)'
  <2> SUFFICES ASSUME part = "ranges" => RangesInv, [Next]_vars, part' = "ranges" PROVE RangesInv'
    OBVIOUS
  <2>1. part = "ranges" /\ [Ranges!Next]_(Ranges!vars)
    BY DEF Next, vars, Ranges!vars, options, routes, gateways, servers, name
  <2> QED BY <1>2, <2>1
<1> QED BY <1>1, <1>3, PTL DEF Spec

(* BuildAutoRouteRanges, the gateways, the DNS servers and the name of the
   device, for families of every width and every set of options: an address is
   routed exactly if the options ask for it, gateway and servers are neighbours
   in the device's network, and the name is free. *)
THEOREM RangesTheorem == Spec => []RangesAsAsked
<1>1. (part = "ranges" => RangesInv) => RangesAsAsked
  BY RangesShow, RangesAssumed DEF RangesAsAsked
<1> QED BY <1>1, RangesInvariant, PTL

----------------------------------------
(* NftSet (redirect_nftables_exprs.go, redirect_nftables_rules.go).  The    *)
(* argument: the elements up to an address are as many starts as markers,   *)
(* or one start more, and one more exactly if the address is wanted.  So a  *)
(* message with an even number of elements never ends with a start.         *)

(* FiniteSets is the same for the instance as for this module. *)
LEMMA SetsCount == \A S : Sets!Cardinality(S) = Cardinality(S)
  BY DEF Sets!Cardinality, Cardinality, Sets!IsFiniteSet, IsFiniteSet

LEMMA StartIs == ASSUME NEW a PROVE Sets!Start(a).key = a /\ Sets!Start(a).end = FALSE
  BY DEF Sets!Start

LEMMA EndIs == ASSUME NEW a PROVE Sets!End(a).key = a /\ Sets!End(a).end = TRUE
  BY DEF Sets!End

LEMMA ElementOf ==
  ASSUME NEW a \in Sets!Addr PROVE Sets!Start(a) \in Sets!Element /\ Sets!End(a) \in Sets!Element
  BY DEF Sets!Start, Sets!End, Sets!Element

LEMMA ElementsAre ==
  ASSUME Sets!BatchAssumption, NEW S \in SUBSET Sets!Addr
  PROVE  /\ Sets!Elements(S) \subseteq Sets!Element
         /\ \A e \in Sets!Elements(S) : /\ e.key \in Sets!Addr /\ e.key \in Nat
                                        /\ (e = Sets!Start(e.key) /\ e.key \in S /\ e.key - 1 \notin S)
                                           \/ (e = Sets!End(e.key) /\ e.key \notin S /\ e.key - 1 \in S)
         /\ \A k \in Sets!Addr : Sets!Start(k) \in Sets!Elements(S) <=> k \in S /\ k - 1 \notin S
         /\ \A k \in Sets!Addr : Sets!End(k) \in Sets!Elements(S) <=> k \notin S /\ k - 1 \in S
<1>0. MaxAddr \in Nat
  BY DEF Sets!BatchAssumption
<1> DEFINE E == Sets!Elements(S)
<1>1. \A e : e \in E <=> \/ \E b \in S : b - 1 \notin S /\ e = Sets!Start(b)
                         \/ \E b \in S : b + 1 \notin S /\ b + 1 <= MaxAddr /\ e = Sets!End(b + 1)
  BY DEF Sets!Elements
<1> HIDE DEF E
<1>2. ASSUME NEW b \in S PROVE b \in Sets!Addr /\ b \in Nat /\ b <= MaxAddr
  BY <1>0 DEF Sets!Addr
<1>3. ASSUME NEW e \in E
      PROVE  /\ e \in Sets!Element /\ e.key \in Sets!Addr /\ e.key \in Nat
             /\ (e = Sets!Start(e.key) /\ e.key \in S /\ e.key - 1 \notin S)
                \/ (e = Sets!End(e.key) /\ e.key \notin S /\ e.key - 1 \in S)
  <2>1. CASE \E b \in S : b - 1 \notin S /\ e = Sets!Start(b)
    <3>1. PICK b \in S : b - 1 \notin S /\ e = Sets!Start(b)
      BY <2>1
    <3>2. e.key = b
      BY <3>1, StartIs
    <3> QED BY <3>1, <3>2, <1>2, ElementOf
  <2>2. CASE \E b \in S : b + 1 \notin S /\ b + 1 <= MaxAddr /\ e = Sets!End(b + 1)
    <3>1. PICK b \in S : b + 1 \notin S /\ b + 1 <= MaxAddr /\ e = Sets!End(b + 1)
      BY <2>2
    <3>2. e.key = b + 1 /\ b \in Nat
      BY <3>1, EndIs, <1>2
    <3>3. b + 1 \in Sets!Addr /\ (b + 1) - 1 = b /\ b + 1 \in Nat
      BY <3>1, <3>2, <1>0 DEF Sets!Addr
    <3> QED BY <3>1, <3>2, <3>3, ElementOf
  <2> QED BY <1>1, <2>1, <2>2
<1>4. ASSUME NEW k \in Sets!Addr PROVE Sets!Start(k) \in E <=> k \in S /\ k - 1 \notin S
  <2>1. k \in S /\ k - 1 \notin S => Sets!Start(k) \in E
    BY <1>1
  <2>2. Sets!Start(k) \in E => k \in S /\ k - 1 \notin S
    <3>1. Sets!Start(k).key = k /\ Sets!Start(k) # Sets!End(k)
      BY StartIs, EndIs
    <3> QED BY <3>1, <1>3
  <2> QED BY <2>1, <2>2
<1>5. ASSUME NEW k \in Sets!Addr PROVE Sets!End(k) \in E <=> k \notin S /\ k - 1 \in S
  <2>1. ASSUME k \notin S, k - 1 \in S PROVE Sets!End(k) \in E
    BY <1>0, <1>2, <2>1, <1>1 DEF Sets!Addr
  <2>2. Sets!End(k) \in E => k \notin S /\ k - 1 \in S
    <3>1. Sets!End(k).key = k /\ Sets!Start(k) # Sets!End(k)
      BY StartIs, EndIs
    <3> QED BY <3>1, <1>3
  <2> QED BY <2>1, <2>2
<1> QED BY <1>3, <1>4, <1>5 DEF E

\* Two elements of a set of addresses have different keys.
LEMMA OneAKey ==
  ASSUME Sets!BatchAssumption, NEW S \in SUBSET Sets!Addr,
         NEW d \in Sets!Elements(S), NEW e \in Sets!Elements(S), d.key = e.key
  PROVE  d = e
  BY ElementsAre

\* The elements up to an address
UpTo(S, k) == {e \in Sets!Elements(S) : e.key <= k}

LEMMA Parity ==
  ASSUME NEW n \in Nat PROVE (n % 2 = 1 => (n + 1) % 2 = 0) /\ (n % 2 = 0 => (n + 1) % 2 = 1)
  OBVIOUS

\* One more element for every change from one address to the next
LEMMA OneMore ==
  ASSUME Sets!BatchAssumption, NEW S \in SUBSET Sets!Addr, NEW k \in Nat, k + 1 <= MaxAddr
  PROVE  UpTo(S, k + 1) = IF (k \in S) = (k + 1 \in S) THEN UpTo(S, k)
                          ELSE IF k + 1 \in S THEN UpTo(S, k) \cup {Sets!Start(k + 1)}
                          ELSE UpTo(S, k) \cup {Sets!End(k + 1)}
<1>1. k + 1 \in Sets!Addr /\ (k + 1) - 1 = k /\ MaxAddr \in Nat
  BY DEF Sets!BatchAssumption, Sets!Addr
<1>2. \A e \in Sets!Elements(S) : e.key \in Nat
  BY ElementsAre
<1>3. \A e \in Sets!Elements(S) : e.key <= k + 1 <=> (e.key <= k \/ e.key = k + 1)
  BY <1>2
<1>4. \A e : e \in Sets!Elements(S) /\ e.key = k + 1 <=>
              \/ e = Sets!Start(k + 1) /\ k + 1 \in S /\ k \notin S
              \/ e = Sets!End(k + 1) /\ k + 1 \notin S /\ k \in S
  <2>1. Sets!Start(k + 1).key = k + 1 /\ Sets!End(k + 1).key = k + 1
    BY StartIs, EndIs
  <2> QED BY <1>1, <2>1, ElementsAre
<1>5. \A e : e \in UpTo(S, k + 1) <=> e \in UpTo(S, k) \/ (e \in Sets!Elements(S) /\ e.key = k + 1)
  BY <1>3 DEF UpTo
<1> DEFINE C == UpTo(S, k)
           D == UpTo(S, k + 1)
<1>6. \A e : e \in D <=> e \in C \/ (e = Sets!Start(k + 1) /\ k + 1 \in S /\ k \notin S)
                               \/ (e = Sets!End(k + 1) /\ k + 1 \notin S /\ k \in S)
  BY <1>4, <1>5
<1> HIDE DEF C, D
<1>7. CASE (k \in S) = (k + 1 \in S)
  BY <1>6, <1>7 DEF C, D
<1>8. CASE k \notin S /\ k + 1 \in S
  BY <1>6, <1>8 DEF C, D
<1>9. CASE k \in S /\ k + 1 \notin S
  BY <1>6, <1>9 DEF C, D
<1> QED BY <1>7, <1>8, <1>9

LEMMA Toggles ==
  ASSUME Sets!BatchAssumption, NEW S \in SUBSET Sets!Addr, NEW k \in Sets!Addr
  PROVE  /\ IsFiniteSet(UpTo(S, k)) /\ Cardinality(UpTo(S, k)) \in Nat
         /\ Cardinality(UpTo(S, k)) % 2 = IF k \in S THEN 1 ELSE 0
<1>0. MaxAddr \in Nat
  BY DEF Sets!BatchAssumption
<1> DEFINE Good(n) == /\ IsFiniteSet(UpTo(S, n)) /\ Cardinality(UpTo(S, n)) \in Nat
                      /\ Cardinality(UpTo(S, n)) % 2 = IF n \in S THEN 1 ELSE 0
           G == {n \in Nat : n <= MaxAddr => Good(n)}
<1>1. Good(0)
  <2>0. 0 \in Sets!Addr /\ 0 - 1 \notin S
    BY <1>0 DEF Sets!Addr
  <2>1. \A e : e \in UpTo(S, 0) <=> e = Sets!Start(0) /\ 0 \in S
    <3>1. ASSUME NEW e \in UpTo(S, 0) PROVE e = Sets!Start(0) /\ 0 \in S
      BY <2>0, ElementsAre DEF UpTo
    <3>2. ASSUME 0 \in S PROVE Sets!Start(0) \in UpTo(S, 0)
      <4>1. Sets!Start(0).key = 0
        BY StartIs, Zenon
      <4>3. 0 <= 0
        OBVIOUS
      <4>2. Sets!Start(0) \in Sets!Elements(S)
        BY <2>0, <3>2, ElementsAre, Zenon
      <4> QED BY <4>1, <4>2, <4>3 DEF UpTo
    <3> QED BY <3>1, <3>2
  <2>2. CASE 0 \in S
    <3>1. UpTo(S, 0) = {Sets!Start(0)}
      BY <2>1, <2>2
    <3>2. 1 % 2 = 1
      OBVIOUS
    <3>3. IsFiniteSet(UpTo(S, 0)) /\ Cardinality(UpTo(S, 0)) = 1
      BY <3>1, FS_Singleton, Zenon
    <3> QED BY <2>2, <3>2, <3>3
  <2>3. CASE 0 \notin S
    BY <2>1, <2>3, FS_EmptySet
  <2> QED BY <2>2, <2>3
<1>2. ASSUME NEW n \in Nat, n + 1 <= MaxAddr, Good(n) PROVE Good(n + 1)
  <2>1. CASE (n \in S) = (n + 1 \in S)
    BY <1>2, <2>1, OneMore
  <2>2. CASE n \notin S /\ n + 1 \in S
    <3>1. UpTo(S, n + 1) = UpTo(S, n) \cup {Sets!Start(n + 1)}
      BY <1>2, <2>2, OneMore
    <3>2. Sets!Start(n + 1) \notin UpTo(S, n)
      <4>1. Sets!Start(n + 1).key = n + 1
        BY StartIs, Zenon
      <4>2. ~(n + 1 <= n)
        OBVIOUS
      <4> QED BY <4>1, <4>2 DEF UpTo
    <3>3. IsFiniteSet(UpTo(S, n + 1)) /\ Cardinality(UpTo(S, n + 1)) = Cardinality(UpTo(S, n)) + 1
      BY <1>2, <3>1, <3>2, FS_AddElement
    <3> QED BY <1>2, <2>2, <3>3, Parity
  <2>3. CASE n \in S /\ n + 1 \notin S
    <3>1. UpTo(S, n + 1) = UpTo(S, n) \cup {Sets!End(n + 1)}
      BY <1>2, <2>3, OneMore
    <3>2. Sets!End(n + 1) \notin UpTo(S, n)
      <4>1. Sets!End(n + 1).key = n + 1
        BY EndIs, Zenon
      <4>2. ~(n + 1 <= n)
        OBVIOUS
      <4> QED BY <4>1, <4>2 DEF UpTo
    <3>3. IsFiniteSet(UpTo(S, n + 1)) /\ Cardinality(UpTo(S, n + 1)) = Cardinality(UpTo(S, n)) + 1
      BY <1>2, <3>1, <3>2, FS_AddElement
    <3> QED BY <1>2, <2>3, <3>3, Parity
  <2> QED BY <2>1, <2>2, <2>3
<1>3. 0 \in G
  BY <1>1
<1>4. \A n \in Nat : n \in G => n + 1 \in G
  <2> SUFFICES ASSUME NEW n \in Nat, n \in G, n + 1 <= MaxAddr PROVE Good(n + 1)
    OBVIOUS
  <2>1. n <= MaxAddr
    BY <1>0
  <2>2. Good(n)
    BY <2>1
  <2> QED BY <1>2, <2>2
<1>5. k \in Nat /\ k <= MaxAddr
  BY <1>0 DEF Sets!Addr
<1>6. k \in G
  <2> HIDE DEF G
  <2> QED BY <1>3, <1>4, <1>5, SetInduction
<1> QED BY <1>5, <1>6

----------------------------------------
(* What the elements match *)
\* A marker lies between a start and an address above it that is not wanted,
\* and no element before that marker.
LEMMA MarkerBetween ==
  ASSUME Sets!BatchAssumption, NEW S \in SUBSET Sets!Addr, NEW b \in S, NEW a \in Sets!Addr, b <= a, a \notin S
  PROVE  \E m \in Sets!Addr : /\ b < m /\ m <= a /\ Sets!End(m) \in Sets!Elements(S)
                              /\ \A e \in Sets!Elements(S) : e.key < m => e.key <= b
<1>0. MaxAddr \in Nat /\ b \in Nat /\ a \in Nat /\ a <= MaxAddr
  BY DEF Sets!BatchAssumption, Sets!Addr
<1> DEFINE T == {n \in Nat : b < n /\ n <= a /\ n \notin S}
<1>1. T \subseteq Nat /\ a \in T
  <2>1. a # b
    OBVIOUS
  <2> QED BY <1>0, <2>1
<1>2. PICK m \in T : \A n \in T : m <= n
  <2> HIDE DEF T
  <2> QED BY <1>1, NatMin
<1>3. m \in Nat /\ b < m /\ m <= a /\ m \notin S
  BY <1>2
<1>4. ASSUME NEW n \in Nat, b <= n, n < m PROVE n \in S
  <2>1. CASE n = b
    BY <2>1
  <2>2. CASE n # b
    BY <1>0, <1>3, <1>4, <2>2, <1>2
  <2> QED BY <2>1, <2>2
<1>5. m \in Sets!Addr
  BY <1>0, <1>3 DEF Sets!Addr
<1>6. m - 1 \in Nat /\ b <= m - 1 /\ m - 1 < m
  BY <1>0, <1>3
<1>7. Sets!End(m) \in Sets!Elements(S)
  BY <1>3, <1>4, <1>5, <1>6, ElementsAre
<1>8. ASSUME NEW e \in Sets!Elements(S), e.key < m, ~(e.key <= b) PROVE FALSE
  BY <1>0, <1>3, <1>8, <1>4, ElementsAre
<1> QED BY <1>3, <1>5, <1>7, <1>8

LEMMA StartElement ==
  ASSUME Sets!BatchAssumption, NEW S \in SUBSET Sets!Addr, NEW e \in Sets!Elements(S)
  PROVE  /\ ~e.end => e.key \in S /\ e = Sets!Start(e.key)
         /\ e.end => e.key \notin S /\ e.key - 1 \in S
<1>1. (e = Sets!Start(e.key) /\ e.key \in S) \/ (e = Sets!End(e.key) /\ e.key \notin S /\ e.key - 1 \in S)
  BY ElementsAre
<1>2. Sets!Start(e.key).end = FALSE /\ Sets!End(e.key).end = TRUE
  BY StartIs, EndIs, Zenon
<1>3. CASE e = Sets!Start(e.key) /\ e.key \in S
  <2>1. e.end = FALSE
    BY <1>2, <1>3, Zenon
  <2> QED BY <1>3, <2>1
<1>4. CASE e = Sets!End(e.key) /\ e.key \notin S /\ e.key - 1 \in S
  <2>1. e.end = TRUE
    BY <1>2, <1>4, Zenon
  <2> QED BY <1>4, <2>1
<1> QED BY <1>1, <1>3, <1>4

\* Elements below all others, as many starts as markers: they match nothing
\* that is not wanted.
LEMMA EvenIsNotTooWide ==
  ASSUME Sets!BatchAssumption, NEW S \in SUBSET Sets!Addr, NEW K \in SUBSET Sets!Elements(S),
         \A d \in K, e \in Sets!Elements(S) \ K : d.key < e.key,
         Cardinality(K) % 2 = 0 \/ K = Sets!Elements(S), NEW a \in Sets!Addr, Sets!Matches(K, a)
  PROVE  a \in S
<1> SUFFICES ASSUME a \notin S PROVE FALSE
  OBVIOUS
<1>1. PICK s \in K : ~s.end /\ s.key <= a /\ ~\E m \in K : m.end /\ s.key < m.key /\ m.key <= a
  BY DEF Sets!Matches
<1>2. s.key \in S /\ s.key \in Sets!Addr /\ s.key \in Nat
  BY <1>1, StartElement, ElementsAre
<1>3. PICK m \in Sets!Addr : /\ s.key < m /\ m <= a /\ Sets!End(m) \in Sets!Elements(S)
                             /\ \A e \in Sets!Elements(S) : e.key < m => e.key <= s.key
  BY <1>1, <1>2, MarkerBetween
<1>4. Sets!End(m).key = m /\ Sets!End(m).end = TRUE
  BY EndIs, Zenon
<1>5. Sets!End(m) \notin K
  BY <1>1, <1>3, <1>4
<1>6. K = UpTo(S, s.key)
  <2>1. ASSUME NEW e \in K PROVE e \in UpTo(S, s.key)
    <3>1. e.key < m
      BY <1>3, <1>4, <1>5
    <3> QED BY <1>3, <3>1 DEF UpTo
  <2>2. ASSUME NEW e \in UpTo(S, s.key) PROVE e \in K
    BY <1>2, ElementsAre DEF UpTo
  <2> QED BY <2>1, <2>2
<1>7. Cardinality(K) % 2 = 1
  BY <1>2, <1>6, Toggles
<1> QED BY <1>3, <1>5, <1>7

LEMMA AllIsExact ==
  ASSUME Sets!BatchAssumption, NEW S \in SUBSET Sets!Addr, NEW a \in Sets!Addr
  PROVE  Sets!Matches(Sets!Elements(S), a) <=> a \in S
<1> DEFINE E == Sets!Elements(S)
<1>1. Sets!Matches(E, a) => a \in S
  BY EvenIsNotTooWide
<1>2. ASSUME a \in S PROVE Sets!Matches(E, a)
  <2>0. a \in Nat /\ MaxAddr \in Nat /\ a <= MaxAddr /\ \A b \in S : b \in Nat
    BY DEF Sets!BatchAssumption, Sets!Addr
  <2> DEFINE T == {b \in Nat : b <= a /\ \A n \in b..a : n \in S}
  <2>1. T \subseteq Nat /\ a \in T
    BY <1>2, <2>0
  <2>2. PICK b \in T : \A n \in T : b <= n
    <3> HIDE DEF T
    <3> QED BY <2>1, NatMin
  <2>3. b \in Nat /\ b <= a /\ (\A n \in b..a : n \in S) /\ b \in S
    BY <2>0, <2>2
  <2>4. b - 1 \notin S
    <3> SUFFICES ASSUME b - 1 \in S PROVE FALSE
      OBVIOUS
    <3>1. b - 1 \in Nat /\ b - 1 <= a /\ ~(b <= b - 1)
      BY <2>0, <2>3
    <3>2. \A n \in (b - 1)..a : n = b - 1 \/ n \in b..a
      BY <2>0, <2>3
    <3>3. b - 1 \in T
      BY <2>3, <3>1, <3>2
    <3> QED BY <2>2, <3>1, <3>3
  <2>5. b \in Sets!Addr
    BY <2>3
  <2>6. Sets!Start(b) \in E
    BY <2>3, <2>4, <2>5, ElementsAre
  <2>7. Sets!Start(b).key = b /\ Sets!Start(b).end = FALSE
    BY StartIs, Zenon
  <2>8. ASSUME NEW m \in E, m.end, b < m.key, m.key <= a PROVE FALSE
    BY <2>8, <2>0, <2>3, StartElement, ElementsAre
  <2> HIDE DEF E
  <2> DEFINE s == Sets!Start(b)
  <2>9. s \in E /\ ~s.end /\ s.key <= a /\ ~\E m \in E : m.end /\ s.key < m.key /\ m.key <= a
    BY <2>3, <2>6, <2>7, <2>8
  <2> HIDE DEF s
  <2> QED BY <2>9 DEF Sets!Matches
<1> QED BY <1>1, <1>2

\* Of elements with different keys none is rejected.
----------------------------------------
(* The set of user ids *)
LEMMA Times == ASSUME NEW x \in Nat, NEW y \in Nat, NEW z \in Nat, x <= y PROVE x * z <= y * z /\ x * z \in Nat
<1>1. PICK d \in Nat : y = x + d
  <2>1. y - x \in Nat /\ y = x + (y - x)
    OBVIOUS
  <2> QED BY <2>1
<1>2. (x + d) * z = x * z + d * z /\ d * z \in Nat /\ x * z \in Nat
  OBVIOUS
<1> QED BY <1>1, <1>2

LEMMA Exchanged ==
  ASSUME NEW d \in Nat \ {0}, NEW u \in 0..(d * d - 1)
  PROVE  (u % d) * d + u \div d \in 0..(d * d - 1)
<1> DEFINE a == u % d
           b == u \div d
<1>1. a \in Nat /\ b \in Nat /\ a <= d - 1 /\ u = d * b + a /\ d * d \in Nat /\ u \in Nat /\ u < d * d
  OBVIOUS
<1> HIDE DEF a, b
<1>2. b <= d - 1
  <2> SUFFICES ASSUME d <= b PROVE FALSE
    BY <1>1
  <2>1. d * d <= b * d
    BY <1>1, Times
  <2>2. b * d = d * b /\ d * b \in Nat
    BY <1>1
  <2> QED BY <1>1, <2>1, <2>2
<1>3. a * d <= (d - 1) * d /\ a * d \in Nat
  BY <1>1, Times
<1>4. (d - 1) * d = d * d - d
  OBVIOUS
<1>5. a * d + b \in 0..(d * d - 1)
  BY <1>1, <1>2, <1>3, <1>4
<1> QED BY <1>5 DEF a, b

LEMMA KeyIs ==
  ASSUME Sets!BatchAssumption, NEW u \in Sets!UID
  PROVE  Sets!Key(u) \in Sets!Addr /\ Sets!Key(u) \in Nat /\ (~little => Sets!Key(u) = u)
<1>1. Digit \in Nat \ {0} /\ MaxAddr \in Nat /\ Digit * Digit <= MaxAddr + 1 /\ Digit * Digit \in Nat
  BY DEF Sets!BatchAssumption
<1>2. u \in 0..(Digit * Digit - 1)
  BY DEF Sets!UID
<1>3. CASE little
  <2>1. Sets!Key(u) \in 0..(Digit * Digit - 1)
    BY <1>1, <1>2, <1>3, Exchanged DEF Sets!Key
  <2> QED BY <1>1, <1>3, <2>1 DEF Sets!Addr
<1>4. CASE ~little
  BY <1>1, <1>2, <1>4 DEF Sets!Key, Sets!Addr
<1> QED BY <1>3, <1>4

LEMMA UIDMarker ==
  ASSUME Sets!BatchAssumption, NEW r \in Sets!UIDRanges
  PROVE  /\ r[1] \in Sets!UID /\ r[2] \in Sets!UID /\ Sets!After(r) \in Sets!UID
         /\ r[1] \in Nat /\ r[2] \in Nat /\ r[1] <= r[2] /\ r[2] < Digit * Digit
         /\ Sets!After(r) = IF r[2] = Digit * Digit - 1 THEN 0 ELSE r[2] + 1
  BY DEF Sets!BatchAssumption, Sets!UIDRanges, Sets!UID, Sets!After

\* What the elements of ranges match, by the keys of their ends
LEMMA UIDsCover ==
  ASSUME Sets!BatchAssumption, NEW R \in SUBSET Sets!UIDRanges, NEW k \in Nat
  PROVE  Sets!Matches(Sets!UIDElements(R), k) <=>
           \E q \in R : /\ Sets!Key(q[1]) <= k
                        /\ ~\E p \in R : Sets!Key(q[1]) < Sets!Key(Sets!After(p)) /\ Sets!Key(Sets!After(p)) <= k
<1> DEFINE K == Sets!UIDElements(R)
           F(q) == Sets!Key(q[1])
           M(q) == Sets!Key(Sets!After(q))
<1>1. \A e : e \in K <=> \E q \in R : e = Sets!Start(F(q)) \/ e = Sets!End(M(q))
  BY DEF Sets!UIDElements
<1> HIDE DEF K, F, M
<1>5. \A b : /\ Sets!Start(b).key = b /\ Sets!Start(b).end = FALSE
             /\ Sets!End(b).key = b /\ Sets!End(b).end = TRUE
  BY StartIs, EndIs, Zenon
<1>6. Sets!Matches(K, k) <=> \E q \in R : F(q) <= k /\ ~\E p \in R : F(q) < M(p) /\ M(p) <= k
  <2>1. ASSUME NEW x \in K, ~x.end PROVE \E q \in R : x = Sets!Start(F(q))
    BY <1>1, <1>5, <2>1
  <2>2. ASSUME NEW x \in K, x.end PROVE \E q \in R : x = Sets!End(M(q))
    BY <1>1, <1>5, <2>2
  <2>3. \A q \in R : Sets!Start(F(q)) \in K /\ Sets!End(M(q)) \in K
    BY <1>1
  <2>4. ASSUME Sets!Matches(K, k)
        PROVE  \E q \in R : F(q) <= k /\ ~\E p \in R : F(q) < M(p) /\ M(p) <= k
    <3>1. PICK x \in K : ~x.end /\ x.key <= k /\ ~\E m \in K : m.end /\ x.key < m.key /\ m.key <= k
      BY <2>4 DEF Sets!Matches
    <3>2. PICK q \in R : x = Sets!Start(F(q))
      BY <2>1, <3>1
    <3>3. x.key = F(q)
      BY <1>5, <3>2, Zenon
    <3>4. ASSUME NEW p \in R, F(q) < M(p), M(p) <= k PROVE FALSE
      <4>1. Sets!End(M(p)) \in K /\ Sets!End(M(p)).key = M(p) /\ Sets!End(M(p)).end = TRUE
        BY <1>5, <2>3, Zenon
      <4> QED BY <3>1, <3>3, <3>4, <4>1
    <3> QED BY <3>1, <3>3, <3>4
  <2>5. ASSUME NEW q \in R, F(q) <= k, ~\E p \in R : F(q) < M(p) /\ M(p) <= k PROVE Sets!Matches(K, k)
    <3> DEFINE x == Sets!Start(F(q))
    <3>1. x \in K /\ x.key = F(q) /\ x.end = FALSE
      BY <1>5, <2>3, Zenon
    <3> HIDE DEF x
    <3>2. ASSUME NEW m \in K, m.end, x.key < m.key, m.key <= k PROVE FALSE
      <4>1. PICK p \in R : m = Sets!End(M(p))
        BY <2>2, <3>2
      <4>2. m.key = M(p)
        BY <1>5, <4>1, Zenon
      <4> QED BY <2>5, <3>1, <3>2, <4>2
    <3> QED BY <2>5, <3>1, <3>2 DEF Sets!Matches
  <2> QED BY <2>4, <2>5
<1> QED BY <1>6 DEF K, F, M

LEMMA UIDsMatch ==
  ASSUME Sets!BatchAssumption, NEW R \in SUBSET Sets!UIDRanges
  PROVE  LET K == Sets!UIDElements(R)
         IN  /\ \A r \in R : /\ Sets!Matches(K, Sets!Key(r[1]))
                             /\ Sets!Matches(K, Sets!Key(Sets!After(r))) =>
                                  \E s \in R : Sets!Key(s[1]) = Sets!Key(Sets!After(r))
             /\ ~little => \A u \in Sets!UID :
                             /\ Sets!Matches(K, Sets!Key(u)) => u \in Sets!UIDsOf(R)
                             /\ Sets!Disjoint(R) /\ u \in Sets!UIDsOf(R) => Sets!Matches(K, Sets!Key(u))
<1> DEFINE K == Sets!UIDElements(R)
           F(q) == Sets!Key(q[1])
           M(q) == Sets!Key(Sets!After(q))
<1>1. \A q \in R : /\ F(q) \in Nat /\ M(q) \in Nat
                   /\ q[1] \in Nat /\ q[2] \in Nat /\ q[1] <= q[2] /\ q[2] < Digit * Digit
                   /\ ~little => F(q) = q[1] /\ M(q) = IF q[2] = Digit * Digit - 1 THEN 0 ELSE q[2] + 1
  BY UIDMarker, KeyIs
<1>2. \A k \in Nat : Sets!Matches(K, k) <=> \E q \in R : F(q) <= k /\ ~\E p \in R : F(q) < M(p) /\ M(p) <= k
  BY UIDsCover
<1> HIDE DEF F, M, K
<1>3. ASSUME NEW r \in R PROVE Sets!Matches(K, F(r)) /\ (Sets!Matches(K, M(r)) => \E s \in R : F(s) = M(r))
  <2>1. Sets!Matches(K, F(r))
    BY <1>1, <1>2
  <2>2. ASSUME Sets!Matches(K, M(r)) PROVE \E s \in R : F(s) = M(r)
    <3>1. PICK q \in R : F(q) <= M(r) /\ ~(F(q) < M(r) /\ M(r) <= M(r))
      BY <1>1, <1>2, <2>2
    <3>2. F(q) \in Nat /\ M(r) \in Nat
      BY <1>1
    <3> QED BY <3>1, <3>2
  <2> QED BY <2>1, <2>2
<1>4. ASSUME ~little, NEW u \in Sets!UID
      PROVE  /\ Sets!Matches(K, Sets!Key(u)) => u \in Sets!UIDsOf(R)
             /\ Sets!Disjoint(R) /\ u \in Sets!UIDsOf(R) => Sets!Matches(K, Sets!Key(u))
  <2>1. Sets!Key(u) = u /\ u \in Nat /\ u <= Digit * Digit - 1 /\ Digit * Digit \in Nat
    BY <1>4, KeyIs DEF Sets!UID, Sets!BatchAssumption
  <2>2. u \in Sets!UIDsOf(R) <=> \E q \in R : q[1] <= u /\ u <= q[2]
    BY <1>1, <2>1 DEF Sets!UIDsOf
  <2>3. ASSUME NEW q \in R, q[1] <= u, ~(u <= q[2]) PROVE q[1] < M(q) /\ M(q) <= u
    BY <1>1, <1>4, <2>1, <2>3
  <2>4. ASSUME Sets!Disjoint(R), NEW q \in R, q[1] <= u, u <= q[2], NEW p \in R, q[1] < M(p), M(p) <= u PROVE FALSE
    BY <2>4, <1>1, <1>4, <2>1 DEF Sets!Disjoint
  <2> QED BY <1>1, <1>2, <1>4, <2>1, <2>2, <2>3, <2>4
<1> QED BY <1>3, <1>4 DEF K, F, M

----------------------------------------
(* The invariant of a set that is filled *)
\* The batches of an address set: what is there is below what is to come, and
\* even in number while there is something to come.
Filling ==
  /\ queue.add = {}
  /\ \/ queue.flush /\ pending = Sets!Elements(wanted)
     \/ /\ ~queue.flush /\ kernel \subseteq Sets!Elements(wanted) /\ pending = Sets!Elements(wanted) \ kernel
        /\ \A d \in kernel, e \in pending : d.key < e.key
        /\ pending # {} => Cardinality(kernel) % 2 = 0

\* The stand-in for an empty set, which the kernel will reject
StandIn == queue.add = {} /\ pending = Sets!Default /\ (queue.flush \/ kernel = {})

\* A set of user ids waits for its one message
UIDsWait ==
  /\ kernel = {} /\ pending = {} /\ ~queue.flush
  /\ wanted = Sets!UIDsOf(uids) /\ queue.add = Sets!UIDElements(uids)

\* A set of user ids that is complete
UIDsSent ==
  phase = "done" /\ uids # {} => wanted = Sets!UIDsOf(uids) /\ kernel = Sets!UIDElements(uids)

SetsInv ==
  /\ Sets!TypeOK /\ Sets!CompleteIsExact /\ UIDsSent
  /\ phase \in {"idle", "done"} => queue = Sets!NoQueue
  /\ phase = "idle" => kernel = {} /\ pending = {}
  /\ phase = "adding" => IF uids = {} THEN Filling \/ StandIn ELSE UIDsWait

LEMMA QueueIs ==
  /\ Sets!NoQueue \in [flush : BOOLEAN, add : SUBSET Sets!Element]
  /\ Sets!NoQueue.add = {} /\ Sets!NoQueue.flush = FALSE
  BY DEF Sets!NoQueue

LEMMA InitSets == ASSUME Sets!Init PROVE SetsInv
  BY QueueIs DEF Sets!Init, SetsInv, Sets!TypeOK, Sets!CompleteIsExact, UIDsSent

\* Commit and what the flags say of the kernel's set
LEMMA ElementsFinite ==
  ASSUME Sets!BatchAssumption, NEW S \in SUBSET Sets!Addr
  PROVE  IsFiniteSet(Sets!Elements(S))
<1>1. MaxAddr \in Nat /\ MaxAddr \in Sets!Addr
  BY DEF Sets!BatchAssumption, Sets!Addr
<1>2. \A e \in Sets!Elements(S) : e.key <= MaxAddr
  BY <1>1, ElementsAre DEF Sets!Addr
<1>3. Sets!Elements(S) = UpTo(S, MaxAddr)
  BY <1>2 DEF UpTo
<1> QED BY <1>1, <1>3, Toggles

LEMMA CreateKeeps ==
  ASSUME Sets!BatchAssumption, SetsInv, NEW S \in SUBSET Sets!Addr, NEW appendDefault \in BOOLEAN, NEW u \in BOOLEAN,
         Sets!CreateIPSet(S, appendDefault, u)
  PROVE  SetsInv'
<1>1. /\ phase \in {"idle", "done"} /\ (phase = "done") = u
      /\ wanted' = S /\ pending' = Sets!IPElements(S, appendDefault)
      /\ queue' = [queue EXCEPT !.flush = u] /\ phase' = "adding" /\ kernel' = kernel /\ little' = little /\ uids' = {}
  BY DEF Sets!CreateIPSet
<1>2. queue = Sets!NoQueue /\ Sets!TypeOK
  BY <1>1 DEF SetsInv
<1>3. queue' = [flush |-> u, add |-> {}]
  BY <1>1, <1>2 DEF Sets!NoQueue
<1>4. queue'.add = {} /\ queue'.flush = u /\ queue' \in [flush : BOOLEAN, add : SUBSET Sets!Element]
  BY <1>3
<1>5. Sets!IPElements(S, appendDefault) \subseteq Sets!Element
  BY ElementOf, ElementsAre DEF Sets!BatchAssumption, Sets!Addr, Sets!Default, Sets!IPElements
<1>6. Sets!TypeOK'
  BY <1>1, <1>2, <1>4, <1>5 DEF Sets!TypeOK
<1>7. u \/ kernel = {}
  BY <1>1 DEF SetsInv
<1>8. Filling' \/ StandIn'
  <2>1. CASE appendDefault /\ S = {}
    BY <1>1, <2>1, <1>4, <1>7 DEF Sets!IPElements, StandIn
  <2>2. CASE ~(appendDefault /\ S = {})
    <3>1. pending' = Sets!Elements(S)
      BY <1>1, <2>2 DEF Sets!IPElements
    <3>2. CASE u
      BY <1>1, <1>4, <3>1, <3>2 DEF Filling
    <3>3. CASE ~u
      <4>1. kernel' = {}
        BY <1>1, <1>7, <3>3
      <4>2. Cardinality(kernel') % 2 = 0
        BY <4>1, FS_EmptySet
      <4> QED BY <1>1, <1>4, <3>1, <3>3, <4>1, <4>2 DEF Filling
    <3> QED BY <3>2, <3>3
  <2> QED BY <2>1, <2>2
<1> QED BY <1>1, <1>6, <1>8 DEF SetsInv, Sets!CompleteIsExact, UIDsSent

LEMMA CreateUIDsKeeps ==
  ASSUME Sets!BatchAssumption, SetsInv, NEW r \in Sets!UIDRanges, NEW s \in Sets!UIDRanges, Sets!CreateUIDSet({r, s})
  PROVE  SetsInv'
<1> DEFINE K == Sets!UIDElements({r, s})
           U == Sets!UIDsOf({r, s})
<1>1. /\ phase = "idle" /\ wanted' = U /\ queue' = [flush |-> FALSE, add |-> K]
      /\ phase' = "adding" /\ pending' = pending /\ kernel' = kernel /\ little' = little /\ uids' = {r, s}
  BY DEF Sets!CreateUIDSet
<1>2. kernel = {} /\ pending = {} /\ Sets!TypeOK
  BY <1>1 DEF SetsInv
<1>3. K \subseteq Sets!Element
  BY UIDMarker, KeyIs, ElementOf DEF Sets!UIDElements
<1>4. U \subseteq Sets!Addr
  <2>1. \A q \in {r, s} : q[1]..q[2] \subseteq Sets!Addr
    <3> TAKE q \in {r, s}
    <3>1. MaxAddr \in Nat /\ Digit * Digit \in Nat /\ Digit * Digit <= MaxAddr + 1
      BY DEF Sets!BatchAssumption
    <3>2. q[1] \in Nat /\ q[2] \in Nat /\ q[2] < Digit * Digit
      BY UIDMarker
    <3>3. \A x \in q[1]..q[2] : x \in 0..MaxAddr
      BY <3>1, <3>2
    <3> QED BY <3>3 DEF Sets!Addr
  <2>2. \A a \in U : \E q \in {r, s} : a \in q[1]..q[2]
    BY DEF Sets!UIDsOf
  <2> QED BY <2>1, <2>2
<1> HIDE DEF K, U
<1>5. queue'.flush = FALSE /\ queue'.add = K /\ queue' \in [flush : BOOLEAN, add : SUBSET Sets!Element]
  BY <1>1, <1>3
<1>6. Sets!TypeOK'
  BY <1>1, <1>2, <1>4, <1>5 DEF Sets!TypeOK
<1>7. UIDsWait'
  <2>1. Sets!UIDElements(uids)' = K
    BY <1>1 DEF K, Sets!UIDElements, Sets!Key
  <2>2. Sets!UIDsOf(uids)' = U
    BY <1>1 DEF U, Sets!UIDsOf
  <2> QED BY <1>1, <1>2, <1>5, <2>1, <2>2 DEF UIDsWait
<1> QED BY <1>1, <1>6, <1>7 DEF SetsInv, Sets!CompleteIsExact, UIDsSent

\* One message: it is a batch of the lowest, and even in number if others are left
LEMMA BatchKeeps == ASSUME Sets!BatchAssumption, SetsInv, Sets!AddBatch PROVE SetsInv'
<1>1. PICK b \in Sets!ToAdd(BatchSize) :
        /\ phase = "adding" /\ pending # {} /\ wanted' = wanted /\ queue' = Sets!NoQueue /\ little' = little /\ uids' = uids
        /\ kernel' = IF ~Sets!Rejected(queue.add \cup b) THEN (IF queue.flush THEN {} ELSE kernel) \cup (queue.add \cup b) ELSE kernel
        /\ pending' = IF ~Sets!Rejected(queue.add \cup b) THEN pending \ b ELSE {}
        /\ phase' = IF ~Sets!Rejected(queue.add \cup b) THEN "adding" ELSE "failed"
  BY DEF Sets!AddBatch, Sets!SendBatch
<1>2. /\ b \subseteq pending
      /\ Cardinality(b) = IF Cardinality(pending) > BatchSize THEN BatchSize ELSE Cardinality(pending)
      /\ \A d \in b, e \in pending \ b : d.key <= e.key
  BY SetsCount DEF Sets!ToAdd
<1>3. /\ wanted \in SUBSET Sets!Addr /\ pending \subseteq Sets!Element /\ kernel \subseteq Sets!Element
      /\ queue \in [flush : BOOLEAN, add : SUBSET Sets!Element] /\ little \in BOOLEAN /\ uids \subseteq Sets!UIDRanges
  BY DEF SetsInv, Sets!TypeOK
<1>4. Sets!TypeOK'
  BY <1>1, <1>2, <1>3, QueueIs DEF Sets!TypeOK
<1>5. uids = {} /\ queue.add = {} /\ queue.add \cup b = b
  BY <1>1 DEF SetsInv, Filling, StandIn, UIDsWait
<1>6. CASE Sets!Rejected(b)
  BY <1>1, <1>4, <1>5, <1>6 DEF SetsInv, Sets!CompleteIsExact, UIDsSent
<1>7. CASE ~Sets!Rejected(b)
  <2> DEFINE E == Sets!Elements(wanted)
             old == IF queue.flush THEN {} ELSE kernel
  <2>1. kernel' = old \cup b /\ pending' = pending \ b /\ phase' = "adding"
    BY <1>1, <1>5, <1>7
  <2>2. Filling
    <3>1. ASSUME StandIn PROVE FALSE
      <4>1. pending = {Sets!Start(0), Sets!End(0)}
        BY <3>1 DEF StandIn, Sets!Default
      <4>2. /\ Sets!Start(0).key = 0 /\ Sets!Start(0).end = FALSE
            /\ Sets!End(0).key = 0 /\ Sets!End(0).end = TRUE
        BY StartIs, EndIs, Zenon
      <4>3. Cardinality(pending) = 2 /\ IsFiniteSet(pending)
        <5>1. {Sets!Start(0), Sets!End(0)} = {Sets!Start(0)} \cup {Sets!End(0)} /\ Sets!End(0) \notin {Sets!Start(0)}
          BY <4>2
        <5>2. IsFiniteSet({Sets!Start(0)}) /\ Cardinality({Sets!Start(0)}) = 1
          BY FS_Singleton, Zenon
        <5> QED BY <4>1, <5>1, <5>2, FS_AddElement
      <4>4. BatchSize \in Nat /\ ~(2 > BatchSize)
        <5>1. BatchSize \in Nat \ {0} /\ BatchSize % 2 = 0
          BY DEF Sets!BatchAssumption
        <5>2. BatchSize # 1
          BY <5>1
        <5> QED BY <5>1, <5>2
      <4>5. Cardinality(b) = Cardinality(pending)
        BY <1>2, <4>3, <4>4
      <4>6. b = pending
        BY <1>2, <4>3, <4>5, FS_Subset
      <4>7. Sets!Rejected(b)
        BY <4>1, <4>2, <4>6 DEF Sets!Rejected
      <4> QED BY <1>7, <4>7
    <3> QED BY <1>1, <1>5, <3>1 DEF SetsInv
  <2>3. /\ old \subseteq E /\ pending = E \ old
        /\ \A d \in old, e \in pending : d.key < e.key
        /\ Cardinality(old) % 2 = 0 /\ IsFiniteSet(E)
    <3>1. IsFiniteSet(E)
      BY <1>3, ElementsFinite
    <3>2. CASE queue.flush
      BY <3>2, <2>2, <3>1, FS_EmptySet DEF Filling
    <3>3. CASE ~queue.flush
      BY <1>1, <2>2, <3>1, <3>3 DEF Filling
    <3> QED BY <3>2, <3>3
  <2> HIDE DEF E, old
  <2>4. /\ kernel' \subseteq E /\ pending' = E \ kernel'
    BY <1>2, <2>1, <2>3
  <2>5. ASSUME NEW d \in kernel', NEW e \in pending' PROVE d.key < e.key
    <3>1. d \in old \/ d \in b
      BY <2>1
    <3>2. e \in pending \ b /\ e \in E /\ d \in E
      BY <2>1, <2>3, <2>4
    <3>3. CASE d \in old
      BY <2>3, <3>2, <3>3
    <3>4. CASE d \in b
      <4>1. d.key <= e.key
        BY <1>2, <3>2, <3>4
      <4>2. d.key \in Nat /\ e.key \in Nat
        BY <1>3, <3>2, ElementsAre DEF E
      <4>3. d.key # e.key
        BY <1>3, <3>2, <3>4, OneAKey DEF E
      <4> QED BY <4>1, <4>2, <4>3
    <3> QED BY <3>1, <3>3, <3>4
  <2>6. ASSUME pending' # {} PROVE Cardinality(kernel') % 2 = 0
    <3>1. IsFiniteSet(old) /\ IsFiniteSet(b) /\ IsFiniteSet(pending)
      BY <1>2, <2>3, FS_Subset
    <3>2. Cardinality(b) = BatchSize
      <4>1. CASE Cardinality(pending) > BatchSize
        BY <1>2, <4>1
      <4>2. CASE ~(Cardinality(pending) > BatchSize)
        BY <1>2, <4>2, <3>1, <2>1, <2>6, FS_Subset
      <4> QED BY <4>1, <4>2
    <3>3. old \cap b = {}
      BY <1>2, <2>3
    <3>4. Cardinality(old \cup b) = Cardinality(old) + Cardinality(b) - Cardinality(old \cap b)
      BY <3>1, FS_Union
    <3>5. Cardinality({}) = 0 /\ Cardinality(old) \in Nat
      BY <3>1, FS_EmptySet, FS_CardinalityType
    <3>6. BatchSize \in Nat /\ BatchSize % 2 = 0
      BY DEF Sets!BatchAssumption
    <3>7. \A m, n \in Nat : m % 2 = 0 /\ n % 2 = 0 => (m + n) % 2 = 0
      OBVIOUS
    <3>8. Cardinality(kernel') = Cardinality(old) + BatchSize
      <4>1. Cardinality(kernel') = Cardinality(old \cup b)
        BY <2>1, Zenon
      <4>2. Cardinality(old \cap b) = 0
        BY <3>3, <3>5, Zenon
      <4> QED BY <3>2, <3>4, <3>5, <3>6, <4>1, <4>2
    <3> QED BY <2>3, <3>5, <3>6, <3>7, <3>8
  <2>7. wanted' = wanted /\ queue'.add = {} /\ queue'.flush = FALSE
    BY <1>1, QueueIs
  <2>8. Filling'
    BY <2>4, <2>5, <2>6, <2>7 DEF Filling, E
  <2> QED BY <1>1, <1>4, <1>5, <2>1, <2>8 DEF SetsInv, Sets!CompleteIsExact, UIDsSent
<1> QED BY <1>6, <1>7

LEMMA LastKeeps == ASSUME Sets!BatchAssumption, SetsInv, NEW ok \in BOOLEAN, Sets!LastFlush(ok) PROVE SetsInv'
<1>1. /\ phase = "adding" /\ pending = {} /\ phase' = (IF ok THEN "done" ELSE "failed") /\ wanted' = wanted
      /\ pending' = pending /\ queue' = Sets!NoQueue /\ little' = little /\ uids' = uids
      /\ kernel' = IF ok THEN (IF queue.flush THEN {} ELSE kernel) \cup queue.add ELSE kernel
  BY DEF Sets!LastFlush, Sets!Commit
<1>2. /\ wanted \in SUBSET Sets!Addr /\ pending \subseteq Sets!Element /\ kernel \subseteq Sets!Element
      /\ queue \in [flush : BOOLEAN, add : SUBSET Sets!Element] /\ little \in BOOLEAN /\ uids \in SUBSET Sets!UIDRanges
  BY DEF SetsInv, Sets!TypeOK
<1>3. Sets!TypeOK'
  BY <1>1, <1>2, QueueIs DEF Sets!TypeOK
<1>4. CASE ~ok
  BY <1>1, <1>3, <1>4, QueueIs DEF SetsInv, Sets!CompleteIsExact, UIDsSent
<1>5. CASE ok /\ uids = {}
  <2>1. Filling
    BY <1>1, <1>5 DEF SetsInv, StandIn, Sets!Default
  <2>2. kernel' = Sets!Elements(wanted)
    <3>1. queue.add = {}
      BY <2>1 DEF Filling
    <3>2. CASE queue.flush
      BY <1>1, <2>1, <3>2, <1>5, <3>1 DEF Filling
    <3>3. CASE ~queue.flush
      BY <1>1, <2>1, <3>3, <1>5, <3>1 DEF Filling
    <3> QED BY <3>2, <3>3
  <2>3. \A a \in Sets!Addr : (Sets!Matches(kernel', a) <=> a \in wanted')
    <3>1. \A a \in Sets!Addr : (Sets!Matches(Sets!Elements(wanted), a) <=> a \in wanted)
      BY <1>2, AllIsExact
    <3> QED BY <1>1, <2>2, <3>1, Zenon
  <2>4. Sets!CompleteIsExact'
    BY <2>3 DEF Sets!CompleteIsExact, Sets!Matches
  <2> QED BY <1>1, <1>3, <1>5, <2>4 DEF SetsInv, UIDsSent
<1>6. CASE ok /\ uids # {}
  <2>1. wanted = Sets!UIDsOf(uids) /\ kernel' = Sets!UIDElements(uids)
    BY <1>1, <1>6 DEF SetsInv, UIDsWait
  <2>4. UIDsSent'
    BY <1>1, <2>1 DEF UIDsSent, Sets!UIDElements, Sets!Key
  <2> QED BY <1>1, <1>3, <1>6, <2>4 DEF SetsInv, Sets!CompleteIsExact
<1> QED BY <1>4, <1>5, <1>6

LEMMA OthersKeep == ASSUME Sets!BatchAssumption, SetsInv, Sets!FlushFails \/ Sets!DelTable PROVE SetsInv'
<1>0. /\ wanted \in SUBSET Sets!Addr /\ pending \subseteq Sets!Element /\ kernel \subseteq Sets!Element
      /\ little \in BOOLEAN /\ uids \subseteq Sets!UIDRanges
  BY DEF SetsInv, Sets!TypeOK
<1>1. CASE Sets!FlushFails
  BY <1>0, <1>1, QueueIs DEF Sets!FlushFails, Sets!Commit, SetsInv, Sets!TypeOK, Sets!CompleteIsExact, UIDsSent
<1>2. CASE Sets!DelTable
  BY <1>0, <1>2, QueueIs DEF Sets!DelTable, SetsInv, Sets!TypeOK, Sets!CompleteIsExact, UIDsSent
<1> QED BY <1>1, <1>2

LEMMA SetsKeep == ASSUME Sets!BatchAssumption, SetsInv, Sets!Next PROVE SetsInv'
  BY CreateKeeps, CreateUIDsKeeps, BatchKeeps, LastKeeps, OthersKeep DEF Sets!Next

LEMMA SetsShow ==
  ASSUME Sets!BatchAssumption, SetsInv PROVE Sets!TypeOK /\ Sets!CompleteIsExact /\ Sets!NeverTooWide /\ Sets!UIDsMatched
<1>1. ASSUME phase = "adding", ~queue.flush, NEW a \in Sets!Addr, Sets!Matches(kernel, a) PROVE a \in wanted
  <2>1. kernel # {}
    BY <1>1 DEF Sets!Matches
  <2>2. Filling
    BY <1>1, <2>1 DEF SetsInv, StandIn, UIDsWait
  <2>3. /\ kernel \in SUBSET Sets!Elements(wanted) /\ pending = Sets!Elements(wanted) \ kernel
        /\ \A d \in kernel, e \in pending : d.key < e.key
        /\ pending # {} => Cardinality(kernel) % 2 = 0
    BY <1>1, <2>2 DEF Filling
  <2>4. wanted \in SUBSET Sets!Addr
    BY DEF SetsInv, Sets!TypeOK
  <2>5. Cardinality(kernel) % 2 = 0 \/ kernel = Sets!Elements(wanted)
    BY <2>3
  <2> QED BY <1>1, <2>3, <2>4, <2>5, EvenIsNotTooWide
<1>2. Sets!UIDsMatched
  BY UIDsMatch DEF SetsInv, Sets!TypeOK, UIDsSent, Sets!UIDsMatched
<1> QED BY <1>1, <1>2 DEF SetsInv, Sets!NeverTooWide

LEMMA SetsInvariant == Spec => [](part = "nft" => SetsInv)
<1>1. Init => (part = "nft" => SetsInv)
  BY InitSets DEF Init
<1>2. SetsInv /\ [Sets!Next]_(Sets!vars) => SetsInv'
  <2> SUFFICES ASSUME SetsInv, UNCHANGED Sets!vars PROVE SetsInv'
    BY SetsKeep, BatchAssumed
  <2>1. UNCHANGED <<wanted, pending, queue, kernel, phase, little, uids>>
    BY DEF Sets!vars
  <2>2. Filling' = Filling /\ StandIn' = StandIn /\ UIDsWait' = UIDsWait
    BY <2>1 DEF Filling, StandIn, UIDsWait, Sets!UIDElements, Sets!Key
  <2>3. Sets!TypeOK' = Sets!TypeOK /\ Sets!CompleteIsExact' = Sets!CompleteIsExact
    BY <2>1 DEF Sets!TypeOK, Sets!CompleteIsExact, Sets!Matches
  <2>4. UIDsSent' = UIDsSent
    BY <2>1 DEF UIDsSent, Sets!UIDElements, Sets!Key
  <2> QED BY <2>1, <2>2, <2>3, <2>4 DEF SetsInv
<1>3. (part = "nft" => SetsInv) /\ [Next]_vars => (part = "nft" => SetsInv)'
  <2> SUFFICES ASSUME part = "nft" => SetsInv, [Next]_vars, part' = "nft" PROVE SetsInv'
    OBVIOUS
  <2>1. part = "nft" /\ [Sets!Next]_(Sets!vars)
    BY DEF Next, vars, Sets!vars, wanted, pending, queue, kernel, phase, little, uids
  <2> QED BY <1>2, <2>1
<1> QED BY <1>1, <1>3, PTL DEF Spec

(* nftablesCreateIPSet, the updates of a set and the anonymous sets of user
   ids, for every largest address, every even batch size, every set and every
   order of creations, updates, failures and removals: a complete set of
   addresses matches what it was asked for, and no half filled one matches
   more; a set of user ids matches nothing else on a big-endian host, whatever
   the ranges, and all of them where they are disjoint. *)
THEOREM SetsTheorem == Spec => []SetsMatchExactly
<1>1. (part = "nft" => SetsInv) => SetsMatchExactly
  BY SetsShow, BatchAssumed DEF SetsMatchExactly
<1> QED BY <1>1, SetsInvariant, PTL

----------------------------------------
(* Packages *)
Versions == {f \in Files : Apps!Good(f)}

(* The uids *)
LEMMA UidIs ==
  ASSUME Apps!AppAssumption, NEW i \in Apps!Ids, NEW u \in Apps!Users
  PROVE  /\ Apps!UidOf(i, u) = i + u * UserRange
         /\ Apps!UidOf(i, u) \in Nat /\ Apps!UidOf(i, u) \in 0..Apps!userEnd /\ Apps!UidOf(i, u) \in Apps!Uids
         /\ Apps!UidOf(i, u) \in Apps!UserUids(u)
<1> DEFINE m == 2^UidBits
           a == u * UserRange
           b == (u + 1) * UserRange
<1>1. /\ UserRange \in Nat /\ m \in Nat /\ u \in Nat /\ b - 1 <= m - 2 /\ i \in Nat /\ i <= UserRange - 1
  BY DEF Apps!AppAssumption, Apps!Ids, Apps!Users
<1>2. a \in Nat /\ b = a + UserRange
  BY <1>1, Product
<1>3. Apps!UidOf(i, u) = (i + a) % m /\ Apps!userEnd = m - 2 /\ Apps!Uids = 0..(m - 1) /\ Apps!UserUids(u) = a..(b - 1)
  BY DEF Apps!UidOf, Apps!userEnd, Apps!Uids, Apps!UserUids
<1> HIDE DEF m, a, b
<1>4. i + a \in Nat /\ i + a < m
  BY <1>1, <1>2
<1>5. (i + a) % m = i + a
  BY <1>1, <1>4, ModSmall
<1>6. Apps!UidOf(i, u) = i + a
  BY <1>3, <1>5
<1>7. i + a \in 0..(m - 2) /\ i + a \in 0..(m - 1) /\ i + a \in a..(b - 1)
  BY <1>1, <1>2
<1> QED BY <1>3, <1>4, <1>6, <1>7 DEF a

LEMMA OneUid ==
  ASSUME Apps!AppAssumption, NEW i \in Apps!Ids, NEW j \in Apps!Ids, NEW u \in Apps!Users, NEW w \in Apps!Users,
         Apps!UidOf(i, u) = Apps!UidOf(j, w)
  PROVE  i = j /\ u = w
<1>1. i + u * UserRange = j + w * UserRange
  BY UidIs
<1>2. UserRange \in Nat /\ u \in Nat /\ w \in Nat /\ i \in Nat /\ j \in Nat /\ i < UserRange /\ j < UserRange
  BY DEF Apps!AppAssumption, Apps!Ids, Apps!Users
<1>3. u * UserRange \in Nat /\ w * UserRange \in Nat
  BY <1>2, Product
<1>4. ~(u < w)
  BY <1>1, <1>2, <1>3, Above
<1>5. ~(w < u)
  BY <1>1, <1>2, <1>3, Above
<1>6. u = w
  BY <1>2, <1>4, <1>5
<1> QED BY <1>1, <1>2, <1>3, <1>6

----------------------------------------
(* The tables *)
Places == {"idle", "decode", "shared", "byId", "sharedById"}
Up == manager \in {"watching", "deaf", "closed"}
FromOne(f) == /\ idByPackage = f.id /\ sharedByPackage = f.shared
              /\ packageById = Apps!PackagesById(f) /\ sharedById = Apps!SharedById(f)

\* Between updates the tables are of one file, while they are replaced of the
\* one that is read as far as the update has come.
TableInv ==
  /\ manager \in {"new", "watching", "deaf", "failed", "closed"}
  /\ file \in Files /\ update \in [at : Places, of : Files]
  /\ update.at \notin {"idle", "decode"} => update.of \in Versions /\ idByPackage = update.of.id
  /\ update.at \in {"byId", "sharedById"} => sharedByPackage = update.of.shared
  /\ update.at = "sharedById" => packageById = Apps!PackagesById(update.of)
  /\ update.at \in {"idle", "decode"} =>
       \/ idByPackage = Apps!Empty /\ sharedByPackage = Apps!Empty /\ packageById = Apps!Empty /\ sharedById = Apps!Empty
       \/ \E f \in Versions : FromOne(f)
  /\ idByPackage = Apps!Empty \/ \E f \in Versions : idByPackage = f.id
  /\ sharedByPackage = Apps!Empty \/ \E f \in Versions : sharedByPackage = f.shared
  /\ packageById = Apps!Empty \/ \E f \in Versions : packageById = Apps!PackagesById(f)
  /\ Up => /\ \E f \in Versions : idByPackage = f.id
           /\ \E f \in Versions : sharedByPackage = f.shared

LEMMA InitTables ==
  ASSUME Apps!Init PROVE TableInv
  BY DEF Apps!Init, TableInv, Places, Up

SameTables == idByPackage' = idByPackage /\ sharedByPackage' = sharedByPackage /\ packageById' = packageById /\ sharedById' = sharedById

LEMMA ChangeKeepsTables ==
  ASSUME TableInv, Apps!Change PROVE TableInv'
  BY DEF Apps!Change, Apps!tables, SameTables, TableInv, FromOne, Up

LEMMA ReadKeepsTables ==
  ASSUME TableInv, NEW then, Apps!ReadFile(then), Apps!Idle,
         then = manager \/ then = "failed"
  PROVE  TableInv'
<1>1. SameTables /\ file' = file
  BY DEF Apps!ReadFile, Apps!tables, SameTables
<1>2. CASE update' = [at |-> "decode", of |-> file] /\ manager' = manager
  <2>1. update' \in [at : Places, of : Files] /\ update'.at = "decode"
    BY <1>2 DEF TableInv, Places
  <2> QED BY <1>1, <1>2, <2>1 DEF TableInv, SameTables, FromOne, Up, Apps!Idle
<1>3. CASE update' = update /\ manager' = then
  BY <1>1, <1>3 DEF TableInv, SameTables, FromOne, Up
<1> QED BY <1>2, <1>3 DEF Apps!ReadFile

LEMMA DecodeKeepsTables ==
  ASSUME TableInv, Apps!decodePackages PROVE TableInv'
<1>0. update \in [at : Places, of : Files] /\ file' = file
  BY DEF TableInv, Apps!decodePackages, Apps!DecodeFails, Apps!SetIdByPackage, Apps!SetSharedByPackage,
     Apps!SetPackageById, Apps!SetSharedById, Apps!world
<1>1. CASE Apps!DecodeFails
  <2>1. SameTables /\ update.at = "decode" /\ update' = [update EXCEPT !.at = "idle"]
        /\ manager' = (IF manager = "new" THEN "failed" ELSE manager)
    BY <1>1 DEF Apps!DecodeFails, Apps!tables, SameTables
  <2>2. update' \in [at : Places, of : Files] /\ update'.at = "idle" /\ update'.of = update.of
    BY <1>0, <2>1 DEF Places
  <2> QED BY <1>0, <2>1, <2>2 DEF TableInv, SameTables, FromOne, Up
<1>2. CASE Apps!SetIdByPackage
  <2>1. /\ update.at = "decode" /\ Apps!Good(update.of) /\ idByPackage' = update.of.id
        /\ update' = [update EXCEPT !.at = "shared"]
        /\ manager' = manager /\ sharedByPackage' = sharedByPackage /\ packageById' = packageById /\ sharedById' = sharedById
    BY <1>2 DEF Apps!SetIdByPackage, Apps!watch
  <2>2. update' \in [at : Places, of : Files] /\ update'.at = "shared" /\ update'.of = update.of /\ update.of \in Versions
    BY <1>0, <2>1 DEF Places, Versions
  <2> QED BY <1>0, <2>1, <2>2 DEF TableInv, FromOne, Up
<1>3. CASE Apps!SetSharedByPackage
  <2>1. /\ update.at = "shared" /\ sharedByPackage' = update.of.shared
        /\ update' = [update EXCEPT !.at = "byId"]
        /\ manager' = manager /\ idByPackage' = idByPackage /\ packageById' = packageById /\ sharedById' = sharedById
    BY <1>3 DEF Apps!SetSharedByPackage, Apps!watch
  <2>2. update' \in [at : Places, of : Files] /\ update'.at = "byId" /\ update'.of = update.of
    BY <1>0, <2>1 DEF Places
  <2> QED BY <1>0, <2>1, <2>2 DEF TableInv, FromOne, Up
<1>4. CASE Apps!SetPackageById
  <2>1. /\ update.at = "byId" /\ packageById' = Apps!PackagesById(update.of)
        /\ update' = [update EXCEPT !.at = "sharedById"]
        /\ manager' = manager /\ idByPackage' = idByPackage /\ sharedByPackage' = sharedByPackage /\ sharedById' = sharedById
    BY <1>4 DEF Apps!SetPackageById, Apps!watch
  <2>2. update' \in [at : Places, of : Files] /\ update'.at = "sharedById" /\ update'.of = update.of
    BY <1>0, <2>1 DEF Places
  <2> QED BY <1>0, <2>1, <2>2 DEF TableInv, FromOne, Up
<1>5. CASE Apps!SetSharedById
  <2>1. /\ update.at = "sharedById" /\ sharedById' = Apps!SharedById(update.of)
        /\ update' = [update EXCEPT !.at = "idle"]
        /\ manager' = manager /\ idByPackage' = idByPackage /\ sharedByPackage' = sharedByPackage /\ packageById' = packageById
    BY <1>5 DEF Apps!SetSharedById, Apps!watch
  <2>2. update' \in [at : Places, of : Files] /\ update'.at = "idle" /\ update'.of = update.of
    BY <1>0, <2>1 DEF Places
  <2>3. update.of \in Versions /\ FromOne(update.of)'
    BY <2>1, <2>2 DEF TableInv, FromOne
  <2>4. \E f \in Versions : FromOne(f)'
    BY <2>2, <2>3
  <2> QED BY <1>0, <2>1, <2>2, <2>4 DEF TableInv, FromOne, Up
<1> QED BY <1>1, <1>2, <1>3, <1>4, <1>5 DEF Apps!decodePackages

LEMMA TablesKeep ==
  ASSUME TableInv, Apps!Next PROVE TableInv'
<1>1. CASE Apps!Change
  BY <1>1, ChangeKeepsTables
<1>2. CASE Apps!Start \/ Apps!packagesUpdated
  BY <1>2, ReadKeepsTables DEF Apps!Start, Apps!packagesUpdated
<1>3. CASE Apps!StartWatcher
  <2>1. /\ manager' \in {"watching", "deaf"} /\ SameTables /\ file' = file /\ update' = update
        /\ update.at = "idle" /\ idByPackage # Apps!Empty
    BY <1>3 DEF Apps!StartWatcher, Apps!tables, SameTables, Apps!world, Apps!Idle
  <2>2. PICK f \in Versions : FromOne(f)
    BY <2>1 DEF TableInv
  <2> QED BY <2>1, <2>2 DEF TableInv, SameTables, FromOne, Up
<1>4. CASE Apps!decodePackages
  BY <1>4, DecodeKeepsTables
<1>5. CASE Apps!Close
  <2>1. manager' = "closed" /\ Up /\ SameTables /\ file' = file /\ update' = update
    BY <1>5 DEF Apps!Close, Apps!tables, SameTables, Apps!world, Up
  <2> QED BY <2>1 DEF TableInv, SameTables, FromOne, Up
<1>6. CASE Apps!BuildAndroidRules
  <2>1. manager' = manager /\ SameTables /\ file' = file /\ update' = update
    BY <1>6 DEF Apps!BuildAndroidRules, Apps!BuildUsers, Apps!BuildShared, Apps!BuildPackage, Apps!BuildExclude,
       Apps!BuildDone, Apps!tables, SameTables, Apps!world, Apps!watch
  <2> QED BY <2>1 DEF TableInv, SameTables, FromOne, Up
<1> QED BY <1>1, <1>2, <1>3, <1>4, <1>5, <1>6 DEF Apps!Next, Apps!Manager

LEMMA UpStays ==
  ASSUME TableInv, Apps!Next, Up PROVE Up'
<1>1. CASE Apps!Start \/ Apps!StartWatcher
  BY <1>1 DEF Apps!Start, Apps!StartWatcher, Up
<1>2. CASE Apps!packagesUpdated
  BY <1>2 DEF Apps!packagesUpdated, Apps!ReadFile, Up
<1>3. CASE Apps!decodePackages
  BY <1>3 DEF Apps!decodePackages, Apps!DecodeFails, Apps!SetIdByPackage, Apps!SetSharedByPackage,
     Apps!SetPackageById, Apps!SetSharedById, Apps!watch, Up
<1>4. CASE Apps!Change \/ Apps!Close
  BY <1>4 DEF Apps!Change, Apps!Close, Up
<1>5. CASE Apps!BuildAndroidRules
  BY <1>5 DEF Apps!BuildAndroidRules, Apps!BuildUsers, Apps!BuildShared, Apps!BuildPackage, Apps!BuildExclude,
       Apps!BuildDone, Apps!watch, Up
<1> QED BY <1>1, <1>2, <1>3, <1>4, <1>5 DEF Apps!Next, Apps!Manager

----------------------------------------
(* The rules *)
AnyVersion == CHOOSE f \in Files : Apps!Good(f)
Shared(i) == Apps!SharedOf(AnyVersion, i)
Named(i) == Apps!NamesOf(AnyVersion, i)

LEMMA StableIs ==
  ASSUME Apps!AppAssumption, NEW i, Apps!Stable(i), NEW f \in Versions
  PROVE  /\ Shared(i) = Apps!SharedOf(f, i) /\ Named(i) = Apps!NamesOf(f, i)
<1>1. AnyVersion \in Versions
  BY DEF Apps!AppAssumption, AnyVersion, Versions
<1>2. AnyVersion \in {h \in Files : Apps!Good(h)} /\ f \in {h \in Files : Apps!Good(h)}
  BY <1>1 DEF Versions
<1>3. Apps!PackagesOf(AnyVersion, i) = Apps!PackagesOf(f, i) /\ Apps!SharedOf(AnyVersion, i) = Apps!SharedOf(f, i)
  BY <1>2 DEF Apps!Stable
<1> QED BY <1>3 DEF Shared, Named, Apps!NamesOf

LEMMA VersionIs ==
  ASSUME Apps!AppAssumption, NEW f \in Versions
  PROVE  /\ \A n \in DOMAIN f.id : f.id[n] \in Apps!Ids
         /\ \A n \in DOMAIN f.shared : f.shared[n] \in Apps!Ids
         /\ \A n \in DOMAIN f.id \cap DOMAIN f.shared : f.id[n] = f.shared[n]
  BY DEF Apps!AppAssumption, Versions

\* The uids stand for the names looked up so far: all of the list but those
\* left and the one looked up as a shared user only.
Obeyed(i, uid, list, left, n, ids) ==
  /\ uid \in ids => \E m \in list \ left : m \in Named(i)
  /\ \A m \in list \ left : (m # n /\ m \in Named(i)) => uid \in ids
  /\ (n # None /\ n \in Shared(i)) => uid \in ids

LEMMA SharedLookup ==
  ASSUME Apps!AppAssumption, NEW users \in SUBSET Apps!Users, NEW i \in Apps!Ids, NEW u \in users, Apps!Stable(i),
         NEW list, NEW left, NEW ids, Obeyed(i, Apps!UidOf(i, u), list, left, None, ids),
         NEW f \in Versions, NEW n \in left, n \in list, None \notin list,
         NEW k, k = n \/ (k = None /\ n \in DOMAIN f.shared),
         NEW more, more = IF n \in DOMAIN f.shared THEN {Apps!UidOf(f.shared[n], w) : w \in users} ELSE {}
  PROVE  Obeyed(i, Apps!UidOf(i, u), list, left \ {n}, k, ids \cup more)
<1> DEFINE uid == Apps!UidOf(i, u)
<1>1. Shared(i) = Apps!SharedOf(f, i) /\ Named(i) = Apps!NamesOf(f, i)
  BY StableIs
<1>2. n \in DOMAIN f.shared => f.shared[n] \in Apps!Ids /\ (n \in DOMAIN f.id => f.id[n] = f.shared[n])
  BY VersionIs
<1>3. uid \in more => n \in Named(i)
  <2> SUFFICES ASSUME uid \in more PROVE n \in Apps!NamesOf(f, i)
    BY <1>1
  <2>1. n \in DOMAIN f.shared
    OBVIOUS
  <2>2. PICK w \in users : uid = Apps!UidOf(f.shared[n], w)
    BY <2>1
  <2>3. f.shared[n] = i
    BY <1>2, <2>1, <2>2, OneUid
  <2> QED BY <2>1, <2>3 DEF Apps!NamesOf, Apps!SharedOf
<1>4. (n \in DOMAIN f.shared /\ n \in Named(i)) => uid \in more
  <2> SUFFICES ASSUME n \in DOMAIN f.shared, n \in Apps!NamesOf(f, i) PROVE uid \in more
    BY <1>1
  <2>1. f.shared[n] = i
    BY <1>2 DEF Apps!NamesOf, Apps!SharedOf, Apps!PackagesOf
  <2> QED BY <2>1
<1>5. n \in Shared(i) => n \in DOMAIN f.shared /\ n \in Named(i)
  BY <1>1 DEF Apps!SharedOf, Apps!NamesOf
<1> HIDE DEF uid
<1>6. uid \in ids \cup more => \E m \in list \ (left \ {n}) : m \in Named(i)
  <2>1. CASE uid \in more
    BY <1>3, <2>1
  <2>2. CASE uid \in ids
    <3>1. PICK m \in list \ left : m \in Named(i)
      BY <2>2 DEF Obeyed, uid
    <3> QED BY <3>1
  <2> QED BY <2>1, <2>2
<1>7. ASSUME NEW m \in list \ (left \ {n}), m # k, m \in Named(i) PROVE uid \in ids \cup more
  <2>1. CASE m = n
    BY <1>4, <1>7, <2>1
  <2>2. CASE m # n
    BY <2>2, <1>7 DEF Obeyed, uid
  <2> QED BY <2>1, <2>2
<1>8. (k # None /\ k \in Shared(i)) => uid \in ids \cup more
  BY <1>4, <1>5
<1> QED BY <1>6, <1>7, <1>8 DEF Obeyed, uid

LEMMA PackageLookup ==
  ASSUME Apps!AppAssumption, NEW users \in SUBSET Apps!Users, NEW i \in Apps!Ids, NEW u \in users, Apps!Stable(i),
         NEW list, NEW left, NEW n, NEW ids, Obeyed(i, Apps!UidOf(i, u), list, left, n, ids),
         NEW f \in Versions, n \in list \ left, n # None,
         NEW more, more = IF n \in DOMAIN f.id THEN {Apps!UidOf(f.id[n], w) : w \in users} ELSE {}
  PROVE  Obeyed(i, Apps!UidOf(i, u), list, left, None, ids \cup more)
<1> DEFINE uid == Apps!UidOf(i, u)
<1>1. Shared(i) = Apps!SharedOf(f, i) /\ Named(i) = Apps!NamesOf(f, i)
  BY StableIs
<1>2. n \in DOMAIN f.id => f.id[n] \in Apps!Ids
  BY VersionIs
<1>3. uid \in more => n \in Named(i)
  <2> SUFFICES ASSUME uid \in more PROVE n \in Apps!NamesOf(f, i)
    BY <1>1
  <2>1. n \in DOMAIN f.id
    OBVIOUS
  <2>2. PICK w \in users : uid = Apps!UidOf(f.id[n], w)
    BY <2>1
  <2>3. f.id[n] = i
    BY <1>2, <2>1, <2>2, OneUid
  <2> QED BY <2>1, <2>3 DEF Apps!NamesOf, Apps!PackagesOf
<1>4. n \in Named(i) => uid \in more \/ n \in Shared(i)
  <2> SUFFICES ASSUME n \in Apps!NamesOf(f, i), n \notin Apps!SharedOf(f, i) PROVE uid \in more
    BY <1>1
  <2>1. n \in DOMAIN f.id /\ f.id[n] = i
    BY DEF Apps!NamesOf, Apps!PackagesOf
  <2> QED BY <2>1
<1> HIDE DEF uid
<1>6. uid \in ids \cup more => \E m \in list \ left : m \in Named(i)
  BY <1>3 DEF Obeyed, uid
<1>7. ASSUME NEW m \in list \ left, m \in Named(i) PROVE uid \in ids \cup more
  BY <1>4, <1>7 DEF Obeyed, uid
<1> QED BY <1>6, <1>7 DEF Obeyed, uid

AppNames == UNION {p.include \cup p.exclude : p \in AppOptionSet}
RulesType ==
  [at : {"include", "exclude", "done"}, options : AppOptionSet, users : SUBSET Apps!Users,
   name : AppNames \cup {None}, left : SUBSET AppNames, include : SUBSET Apps!Uids, exclude : SUBSET (0..Apps!userEnd)]

\* What is left of each list, and the name that is looked up, while the rules are at r
LeftToInclude(r) == IF r.at = "include" THEN r.left ELSE {}
NowIncluded(r) == IF r.at = "include" THEN r.name ELSE None
LeftToExclude(r) == IF r.at = "include" THEN r.options.exclude ELSE r.left
NowExcluded(r) == IF r.at = "include" THEN None ELSE r.name
List(r) == IF r.at = "include" THEN r.options.include ELSE r.options.exclude
OfUsers(p) == UNION {Apps!UserUids(u) : u \in p.users}

UsersAsAsked(r) ==
  /\ r.options.users # {} => r.users = r.options.users /\ Apps!Revert(OfUsers(r.options)) \subseteq r.exclude
  /\ \A x \in r.include : \E j \in Apps!Ids, w \in r.users : x = Apps!UidOf(j, w)
  /\ r.options.include = {} => r.include = {}
ListsInOrder(r) ==
  /\ r.at # "done" => r.left \subseteq List(r) /\ (r.name = None \/ r.name \in List(r) \ r.left)
  /\ r.at = "done" => r.left = {} /\ r.name = None
NamesObeyed(r) ==
  \A i \in Apps!Ids, u \in r.users : Apps!Stable(i) =>
    /\ Obeyed(i, Apps!UidOf(i, u), r.options.include, LeftToInclude(r), NowIncluded(r), r.include)
    /\ Obeyed(i, Apps!UidOf(i, u), r.options.exclude, LeftToExclude(r), NowExcluded(r), r.exclude)

RulesOK(r) == r \in RulesType /\ UsersAsAsked(r) /\ ListsInOrder(r) /\ NamesObeyed(r)
AppInv == TableInv /\ (rules.at # "none" => Up /\ RulesOK(rules))

LEMMA OptionIs ==
  ASSUME Apps!AppAssumption, NEW p \in AppOptionSet
  PROVE  /\ p.users \subseteq Apps!Users /\ None \notin p.include /\ None \notin p.exclude
         /\ p.include \subseteq AppNames /\ p.exclude \subseteq AppNames
  BY DEF Apps!AppAssumption, AppNames

LEMMA InitApps == ASSUME Apps!Init PROVE AppInv
<1>1. rules.at = "none"
  BY DEF Apps!Init
<1> QED BY <1>1, InitTables DEF AppInv

LEMMA BuildUsersKeeps ==
  ASSUME Apps!AppAssumption, AppInv, Apps!BuildUsers PROVE Up /\ RulesOK(rules')
<1>1. PICK p \in AppOptionSet, d \in Dirs :
        rules' = [at |-> "include", options |-> p, users |-> IF p.users # {} THEN p.users ELSE IF d # {} THEN d ELSE {0},
                  name |-> None, left |-> p.include, include |-> {},
                  exclude |-> IF p.users = {} THEN {} ELSE Apps!Revert(OfUsers(p))]
  BY DEF Apps!BuildUsers, OfUsers
<1> DEFINE users == IF p.users # {} THEN p.users ELSE IF d # {} THEN d ELSE {0}
           out == IF p.users = {} THEN {} ELSE Apps!Revert(OfUsers(p))
<1>2. Up
  BY DEF Apps!BuildUsers, Up
<1>3. users \subseteq Apps!Users
  BY OptionIs DEF Apps!AppAssumption, Apps!Users
<1>4. out \subseteq 0..Apps!userEnd
  BY DEF Apps!Revert
<1>9. p.users # {} => users = p.users /\ out = Apps!Revert(OfUsers(p))
  OBVIOUS
<1>10. p.users = {} => out = {}
  OBVIOUS
<1> HIDE DEF users, out
<1>5. /\ rules'.at = "include" /\ rules'.options = p /\ rules'.users = users /\ rules'.name = None
      /\ rules'.left = p.include /\ rules'.include = {} /\ rules'.exclude = out
  BY <1>1 DEF users, out
<1>6. rules' \in RulesType
  <2>1. rules' = [at |-> "include", options |-> p, users |-> users, name |-> None, left |-> p.include, include |-> {},
                  exclude |-> out]
    BY <1>1 DEF users, out
  <2> QED BY <1>3, <1>4, <2>1, OptionIs DEF RulesType
<1>7. UsersAsAsked(rules') /\ ListsInOrder(rules')
  BY <1>5, <1>9 DEF UsersAsAsked, ListsInOrder, List
<1>8. NamesObeyed(rules')
  <2> SUFFICES ASSUME NEW i \in Apps!Ids, NEW u \in users
               PROVE  /\ Obeyed(i, Apps!UidOf(i, u), p.include, p.include, None, {})
                      /\ Obeyed(i, Apps!UidOf(i, u), p.exclude, p.exclude, None, out)
    BY <1>5 DEF NamesObeyed, LeftToInclude, NowIncluded, LeftToExclude, NowExcluded
  <2>1. Apps!UidOf(i, u) \notin out
    <3>1. CASE p.users = {}
      BY <1>10, <3>1
    <3>2. CASE p.users # {}
      BY <1>9, <3>2, <1>3, UidIs DEF Apps!Revert, OfUsers
    <3> QED BY <3>1, <3>2
  <2> QED BY <2>1 DEF Obeyed
<1> QED BY <1>2, <1>6, <1>7, <1>8 DEF RulesOK

\* A lookup that adds the uids of one id to the list at hand
LEMMA UidsAre ==
  ASSUME Apps!AppAssumption, NEW id \in Apps!Ids, NEW users \in SUBSET Apps!Users
  PROVE  LET more == {Apps!UidOf(id, w) : w \in users}
         IN  more \subseteq Apps!Uids /\ more \subseteq 0..Apps!userEnd
  BY UidIs

LEMMA LookupKeeps ==
  ASSUME Apps!AppAssumption, RulesOK(rules), rules.at \in {"include", "exclude"},
         NEW more, more = {} \/ \E id \in Apps!Ids : more = {Apps!UidOf(id, w) : w \in rules.users},
         NEW left \in SUBSET List(rules), NEW n \in {None} \cup (List(rules) \ left),
         rules' = [rules EXCEPT !.left = left,
                     !.include = IF rules.at = "include" THEN rules.include \cup more ELSE rules.include,
                     !.exclude = IF rules.at = "exclude" THEN rules.exclude \cup more ELSE rules.exclude,
                     !.name = n],
         more # {} => List(rules) # {},
         \A i \in Apps!Ids, u \in rules.users : Apps!Stable(i) =>
           Obeyed(i, Apps!UidOf(i, u), List(rules), left, n,
                  (IF rules.at = "include" THEN rules.include ELSE rules.exclude) \cup more)
  PROVE  RulesOK(rules')
<1>1. rules \in RulesType /\ rules.options \in AppOptionSet /\ rules.users \in SUBSET Apps!Users
  BY DEF RulesOK, RulesType
<1>2. more \subseteq Apps!Uids /\ more \subseteq 0..Apps!userEnd
  BY <1>1, UidsAre
<1>3. List(rules) \subseteq AppNames
  BY <1>1, OptionIs DEF List
<1> DEFINE inc == IF rules.at = "include" THEN rules.include \cup more ELSE rules.include
           exc == IF rules.at = "exclude" THEN rules.exclude \cup more ELSE rules.exclude
<1>4. inc \in SUBSET Apps!Uids /\ exc \in SUBSET (0..Apps!userEnd)
  BY <1>1, <1>2 DEF RulesType
<1>5. left \in SUBSET AppNames /\ n \in AppNames \cup {None}
  BY <1>3
<1>6. rules' = [rules EXCEPT !.left = left, !.include = inc, !.exclude = exc, !.name = n]
  OBVIOUS
<1>7. CASE rules.at = "include"
  <2>1. inc = rules.include \cup more /\ exc = rules.exclude
    BY <1>7
  <2> HIDE DEF inc, exc
  <2>2. /\ rules' \in RulesType /\ rules'.at = rules.at /\ rules'.options = rules.options /\ rules'.users = rules.users
        /\ rules'.left = left /\ rules'.name = n /\ rules'.include = inc /\ rules'.exclude = exc
    BY <1>1, <1>4, <1>5, <1>6 DEF RulesType
  <2>3. List(rules) = rules.options.include /\ List(rules') = rules.options.include
    BY <1>7, <2>2 DEF List
  <2>4. ListsInOrder(rules')
    BY <1>7, <2>2, <2>3 DEF ListsInOrder
  <2>5. UsersAsAsked(rules')
    BY <2>1, <2>3, <2>2 DEF RulesOK, UsersAsAsked
  <2>6. NamesObeyed(rules')
    <3> SUFFICES ASSUME NEW i \in Apps!Ids, NEW u \in rules.users, Apps!Stable(i)
                 PROVE  /\ Obeyed(i, Apps!UidOf(i, u), rules.options.include, left, n, inc)
                        /\ Obeyed(i, Apps!UidOf(i, u), rules.options.exclude, rules.options.exclude, None, exc)
      BY <1>7, <2>2 DEF NamesObeyed, LeftToInclude, NowIncluded, LeftToExclude, NowExcluded
    <3>1. Obeyed(i, Apps!UidOf(i, u), List(rules), left, n, rules.include \cup more)
      BY <1>7
    <3>2. Obeyed(i, Apps!UidOf(i, u), rules.options.exclude, rules.options.exclude, None, rules.exclude)
      BY <1>7 DEF RulesOK, NamesObeyed, LeftToExclude, NowExcluded
    <3> QED BY <2>1, <2>3, <3>1, <3>2
  <2> QED BY <2>2, <2>4, <2>5, <2>6 DEF RulesOK
<1>8. CASE rules.at = "exclude"
  <2>1. inc = rules.include /\ exc = rules.exclude \cup more
    BY <1>8
  <2> HIDE DEF inc, exc
  <2>2. /\ rules' \in RulesType /\ rules'.at = rules.at /\ rules'.options = rules.options /\ rules'.users = rules.users
        /\ rules'.left = left /\ rules'.name = n /\ rules'.include = inc /\ rules'.exclude = exc
    BY <1>1, <1>4, <1>5, <1>6 DEF RulesType
  <2>3. List(rules) = rules.options.exclude /\ List(rules') = rules.options.exclude
    BY <1>8, <2>2 DEF List
  <2>4. ListsInOrder(rules')
    BY <1>8, <2>2, <2>3 DEF ListsInOrder
  <2>5. UsersAsAsked(rules')
    BY <2>1, <2>2 DEF RulesOK, UsersAsAsked
  <2>6. NamesObeyed(rules')
    <3> SUFFICES ASSUME NEW i \in Apps!Ids, NEW u \in rules.users, Apps!Stable(i)
                 PROVE  /\ Obeyed(i, Apps!UidOf(i, u), rules.options.include, {}, None, inc)
                        /\ Obeyed(i, Apps!UidOf(i, u), rules.options.exclude, left, n, exc)
      BY <1>8, <2>2 DEF NamesObeyed, LeftToInclude, NowIncluded, LeftToExclude, NowExcluded
    <3>1. Obeyed(i, Apps!UidOf(i, u), List(rules), left, n, rules.exclude \cup more)
      BY <1>8
    <3>2. Obeyed(i, Apps!UidOf(i, u), rules.options.include, {}, None, rules.include)
      BY <1>8 DEF RulesOK, NamesObeyed, LeftToInclude, NowIncluded
    <3> QED BY <2>1, <2>3, <3>1, <3>2
  <2> QED BY <2>2, <2>4, <2>5, <2>6 DEF RulesOK
<1> QED BY <1>7, <1>8

\* What the lists hold before the next lookup
LEMMA AtHand ==
  ASSUME RulesOK(rules), rules.at \in {"include", "exclude"}, NEW i \in Apps!Ids, NEW u \in rules.users, Apps!Stable(i)
  PROVE  Obeyed(i, Apps!UidOf(i, u), List(rules), rules.left, rules.name,
                IF rules.at = "include" THEN rules.include ELSE rules.exclude)
<1>1. CASE rules.at = "include"
  BY <1>1 DEF RulesOK, NamesObeyed, LeftToInclude, NowIncluded, List
<1>2. CASE rules.at = "exclude"
  BY <1>2 DEF RulesOK, NamesObeyed, LeftToExclude, NowExcluded, List
<1> QED BY <1>1, <1>2

LEMMA BuildSharedKeeps ==
  ASSUME Apps!AppAssumption, TableInv, Up, RulesOK(rules), Apps!BuildShared PROVE RulesOK(rules')
<1>1. PICK f \in Versions : sharedByPackage = f.shared
  BY DEF TableInv
<1>2. PICK n \in rules.left :
        LET found == Apps!Has(sharedByPackage, n)
            ids == IF found THEN Apps!UidsOf(sharedByPackage[n]) ELSE {}
        IN  rules' = [rules EXCEPT
                 !.left = @ \ {n},
                 !.include = IF rules.at = "include" THEN @ \union ids ELSE @,
                 !.exclude = IF rules.at = "exclude" THEN @ \union ids ELSE @,
                 !.name = IF found /\ rules.at = "include" THEN None ELSE n]
  BY DEF Apps!BuildShared
<1> DEFINE more == IF n \in DOMAIN f.shared THEN {Apps!UidOf(f.shared[n], w) : w \in rules.users} ELSE {}
           k == IF n \in DOMAIN f.shared /\ rules.at = "include" THEN None ELSE n
           left == rules.left \ {n}
<1>3. rules \in RulesType /\ rules.options \in AppOptionSet /\ rules.users \in SUBSET Apps!Users
  BY DEF RulesOK, RulesType
<1>4. rules.at \in {"include", "exclude"} /\ rules.name = None
  BY DEF Apps!BuildShared
<1>5. rules' = [rules EXCEPT !.left = left,
                     !.include = IF rules.at = "include" THEN rules.include \cup more ELSE rules.include,
                     !.exclude = IF rules.at = "exclude" THEN rules.exclude \cup more ELSE rules.exclude,
                     !.name = k]
  BY <1>1, <1>2, <1>3 DEF Apps!Has, Apps!UidsOf, RulesType
<1>6. rules.left \subseteq List(rules) /\ n \in List(rules) /\ None \notin List(rules)
  BY <1>4, <1>3, OptionIs DEF RulesOK, ListsInOrder, List
<1>7. more = {} \/ \E id \in Apps!Ids : more = {Apps!UidOf(id, w) : w \in rules.users}
  BY VersionIs
<1>8. left \in SUBSET List(rules) /\ k \in {None} \cup (List(rules) \ left)
  BY <1>6
<1>9. k = n \/ (k = None /\ n \in DOMAIN f.shared)
  OBVIOUS
<1>10. more = IF n \in DOMAIN f.shared THEN {Apps!UidOf(f.shared[n], w) : w \in rules.users} ELSE {}
  OBVIOUS
<1> HIDE DEF more, k
<1>11. ASSUME NEW i \in Apps!Ids, NEW u \in rules.users, Apps!Stable(i)
       PROVE  Obeyed(i, Apps!UidOf(i, u), List(rules), left, k,
                  (IF rules.at = "include" THEN rules.include ELSE rules.exclude) \cup more)
  <2> DEFINE ids == IF rules.at = "include" THEN rules.include ELSE rules.exclude
  <2>1. Obeyed(i, Apps!UidOf(i, u), List(rules), rules.left, None, ids)
    BY <1>4, <1>11, AtHand
  <2> HIDE DEF ids
  <2>2. Obeyed(i, Apps!UidOf(i, u), List(rules), rules.left \ {n}, k, ids \cup more)
    BY <1>3, <1>6, <1>9, <1>10, <1>11, <2>1, SharedLookup
  <2> QED BY <2>2 DEF ids
<1> HIDE DEF left
<1> QED BY <1>4, <1>5, <1>6, <1>7, <1>8, <1>11, LookupKeeps

LEMMA BuildPackageKeeps ==
  ASSUME Apps!AppAssumption, TableInv, Up, RulesOK(rules), Apps!BuildPackage PROVE RulesOK(rules')
<1>1. PICK f \in Versions : idByPackage = f.id
  BY DEF TableInv
<1> DEFINE n == rules.name
           more == IF n \in DOMAIN f.id THEN {Apps!UidOf(f.id[n], w) : w \in rules.users} ELSE {}
<1>3. rules \in RulesType /\ rules.options \in AppOptionSet /\ rules.users \in SUBSET Apps!Users
  BY DEF RulesOK, RulesType
<1>4. rules.at \in {"include", "exclude"} /\ n # None
  BY DEF Apps!BuildPackage
<1>5. rules' = [rules EXCEPT !.left = rules.left,
                     !.include = IF rules.at = "include" THEN rules.include \cup more ELSE rules.include,
                     !.exclude = IF rules.at = "exclude" THEN rules.exclude \cup more ELSE rules.exclude,
                     !.name = None]
  BY <1>1, <1>3 DEF Apps!BuildPackage, Apps!Has, Apps!UidsOf, RulesType
<1>6. rules.left \in SUBSET List(rules) /\ n \in List(rules) \ rules.left
  BY <1>4 DEF RulesOK, ListsInOrder
<1>7. more = {} \/ \E id \in Apps!Ids : more = {Apps!UidOf(id, w) : w \in rules.users}
  BY VersionIs
<1>10. more = IF n \in DOMAIN f.id THEN {Apps!UidOf(f.id[n], w) : w \in rules.users} ELSE {}
  OBVIOUS
<1> HIDE DEF more
<1>11. ASSUME NEW i \in Apps!Ids, NEW u \in rules.users, Apps!Stable(i)
       PROVE  Obeyed(i, Apps!UidOf(i, u), List(rules), rules.left, None,
                  (IF rules.at = "include" THEN rules.include ELSE rules.exclude) \cup more)
  <2> DEFINE ids == IF rules.at = "include" THEN rules.include ELSE rules.exclude
  <2>1. Obeyed(i, Apps!UidOf(i, u), List(rules), rules.left, n, ids)
    BY <1>4, <1>11, AtHand
  <2> HIDE DEF ids
  <2>2. Obeyed(i, Apps!UidOf(i, u), List(rules), rules.left, None, ids \cup more)
    BY <1>3, <1>4, <1>6, <1>10, <1>11, <2>1, PackageLookup
  <2> QED BY <2>2 DEF ids
<1> QED BY <1>4, <1>5, <1>6, <1>7, <1>11, LookupKeeps

LEMMA TurnsKeep ==
  ASSUME Apps!AppAssumption, RulesOK(rules), Apps!BuildExclude \/ Apps!BuildDone PROVE RulesOK(rules')
<1>1. rules \in RulesType /\ rules.options \in AppOptionSet
  BY DEF RulesOK, RulesType
<1>2. rules.options.exclude \subseteq AppNames /\ {} \subseteq AppNames
  BY <1>1, OptionIs
<1>3. CASE Apps!BuildExclude
  <2>1. /\ rules.at = "include" /\ rules.left = {} /\ rules.name = None
        /\ rules' = [rules EXCEPT !.at = "exclude", !.left = rules.options.exclude]
    BY <1>3 DEF Apps!BuildExclude
  <2>2. /\ rules' \in RulesType /\ rules'.at = "exclude" /\ rules'.options = rules.options /\ rules'.users = rules.users
        /\ rules'.left = rules.options.exclude /\ rules'.name = None
        /\ rules'.include = rules.include /\ rules'.exclude = rules.exclude
    BY <1>1, <1>2, <2>1 DEF RulesType
  <2>3. UsersAsAsked(rules') /\ ListsInOrder(rules')
    BY <2>1, <2>2 DEF RulesOK, UsersAsAsked, ListsInOrder, List
  <2>4. NamesObeyed(rules')
    BY <2>1, <2>2 DEF RulesOK, NamesObeyed, LeftToInclude, NowIncluded, LeftToExclude, NowExcluded
  <2> QED BY <2>2, <2>3, <2>4 DEF RulesOK
<1>4. CASE Apps!BuildDone
  <2>1. /\ rules.at = "exclude" /\ rules.left = {} /\ rules.name = None
        /\ rules' = [rules EXCEPT !.at = "done"]
    BY <1>4 DEF Apps!BuildDone
  <2>2. /\ rules' \in RulesType /\ rules'.at = "done" /\ rules'.options = rules.options /\ rules'.users = rules.users
        /\ rules'.left = {} /\ rules'.name = None
        /\ rules'.include = rules.include /\ rules'.exclude = rules.exclude
    BY <1>1, <1>2, <2>1 DEF RulesType
  <2>3. UsersAsAsked(rules') /\ ListsInOrder(rules')
    BY <2>1, <2>2 DEF RulesOK, UsersAsAsked, ListsInOrder, List
  <2>4. NamesObeyed(rules')
    BY <2>1, <2>2 DEF RulesOK, NamesObeyed, LeftToInclude, NowIncluded, LeftToExclude, NowExcluded
  <2> QED BY <2>2, <2>3, <2>4 DEF RulesOK
<1> QED BY <1>3, <1>4

LEMMA AppsKeep ==
  ASSUME Apps!AppAssumption, AppInv, Apps!Next PROVE AppInv'
<1>1. TableInv'
  BY TablesKeep DEF AppInv
<1>2. CASE Apps!BuildUsers
  BY <1>2, <1>1, BuildUsersKeeps, UpStays DEF AppInv
<1>3. CASE Apps!BuildShared \/ Apps!BuildPackage \/ Apps!BuildExclude \/ Apps!BuildDone
  <2>1. rules.at # "none"
    BY <1>3 DEF Apps!BuildShared, Apps!BuildPackage, Apps!BuildExclude, Apps!BuildDone
  <2>2. Up /\ RulesOK(rules) /\ TableInv
    BY <2>1 DEF AppInv
  <2>3. RulesOK(rules')
    BY <1>3, <2>2, BuildSharedKeeps, BuildPackageKeeps, TurnsKeep
  <2>4. Up'
    BY <2>2, UpStays
  <2> QED BY <1>1, <2>3, <2>4 DEF AppInv
<1>4. CASE Apps!Change \/ Apps!Manager \/ Apps!Close
  <2>1. rules' = rules
    BY <1>4 DEF Apps!Change, Apps!Manager, Apps!Close, Apps!Start, Apps!StartWatcher, Apps!packagesUpdated, Apps!ReadFile,
       Apps!decodePackages, Apps!DecodeFails, Apps!SetIdByPackage, Apps!SetSharedByPackage,
       Apps!SetPackageById, Apps!SetSharedById
  <2>2. rules.at # "none" => Up'
    BY UpStays DEF AppInv
  <2> QED BY <1>1, <2>1, <2>2 DEF AppInv
<1> QED BY <1>2, <1>3, <1>4 DEF Apps!Next, Apps!BuildAndroidRules

LEMMA TablesTyped ==
  ASSUME Apps!AppAssumption, TableInv
  PROVE  /\ \A t \in {idByPackage, sharedByPackage} : \A n \in DOMAIN t : n \in Apps!Names /\ t[n] \in Apps!Ids
         /\ \A i \in DOMAIN packageById : packageById[i] \in (SUBSET Apps!Names) \ {{}}
<1>1. \A f \in Versions : \A n \in DOMAIN f.id \cup DOMAIN f.shared : n \in Apps!Names
  BY DEF Versions, Apps!Names
<1>2. DOMAIN Apps!Empty = {}
  BY DEF Apps!Empty
<1>3. ASSUME NEW n \in DOMAIN idByPackage PROVE n \in Apps!Names /\ idByPackage[n] \in Apps!Ids
  <2>1. PICK f \in Versions : idByPackage = f.id
    BY <1>2 DEF TableInv
  <2> QED BY <1>1, <2>1, VersionIs
<1>4. ASSUME NEW n \in DOMAIN sharedByPackage PROVE n \in Apps!Names /\ sharedByPackage[n] \in Apps!Ids
  <2>1. PICK f \in Versions : sharedByPackage = f.shared
    BY <1>2 DEF TableInv
  <2> QED BY <1>1, <2>1, VersionIs
<1>5. ASSUME NEW i \in DOMAIN packageById PROVE packageById[i] \in (SUBSET Apps!Names) \ {{}}
  <2>1. PICK f \in Versions : packageById = Apps!PackagesById(f)
    BY <1>2 DEF TableInv
  <2>2. PICK n \in DOMAIN f.id : i = f.id[n]
    BY <2>1 DEF Apps!PackagesById
  <2>3. packageById[i] = {m \in DOMAIN f.id : f.id[m] = i}
    BY <2>1, <2>2 DEF Apps!PackagesById
  <2> QED BY <1>1, <2>2, <2>3
<1> QED BY <1>3, <1>4, <1>5

LEMMA AppsTyped ==
  ASSUME Apps!AppAssumption, AppInv PROVE Apps!TypeOK
<1>1. TableInv
  BY DEF AppInv
<1>2. manager \in {"new", "watching", "deaf", "failed", "closed"}
  BY <1>1 DEF TableInv
<1>3. update.at \in {"idle", "decode", "shared", "byId", "sharedById"} /\ update.of \in Files
  BY <1>1 DEF TableInv, Places
<1>4. ASSUME rules.at # "none" PROVE rules.include \subseteq Apps!Uids /\ rules.exclude \subseteq 0..Apps!userEnd
  BY <1>4 DEF AppInv, RulesOK, RulesType
<1>5. ASSUME rules.at # "none", rules.options.users # {}
      PROVE  rules.include \subseteq UNION {Apps!UserUids(u) : u \in rules.options.users}
  <2>1. rules.users = rules.options.users /\ rules.users \subseteq Apps!Users
        /\ \A x \in rules.include : \E j \in Apps!Ids, w \in rules.users : x = Apps!UidOf(j, w)
    BY <1>5 DEF AppInv, RulesOK, RulesType, UsersAsAsked
  <2> SUFFICES ASSUME NEW x \in rules.include PROVE \E w \in rules.options.users : x \in Apps!UserUids(w)
    OBVIOUS
  <2>2. PICK j \in Apps!Ids, w \in rules.users : x = Apps!UidOf(j, w)
    BY <2>1
  <2>3. x \in Apps!UserUids(w)
    BY <2>1, <2>2, UidIs
  <2> QED BY <2>1, <2>3
<1> QED BY <1>1, <1>2, <1>3, <1>4, <1>5, TablesTyped DEF Apps!TypeOK

LEMMA AppsShow ==
  ASSUME Apps!AppAssumption, AppInv
  PROVE  Apps!TypeOK /\ Apps!TablesAgree /\ Apps!StableAppsObeyed /\ Apps!OtherUsersStayOut
<1>1. Apps!TypeOK
  BY AppsTyped
<1>2. Apps!TablesAgree
  <2> SUFFICES ASSUME update.at = "idle"
               PROVE  \/ Apps!tables = <<Apps!Empty, Apps!Empty, Apps!Empty, Apps!Empty>>
                      \/ \E f \in Files : Apps!Good(f) /\ Apps!tables = Apps!TablesOf(f)
    BY DEF Apps!TablesAgree, Apps!Idle
  <2>1. CASE idByPackage = Apps!Empty /\ sharedByPackage = Apps!Empty /\ packageById = Apps!Empty /\ sharedById = Apps!Empty
    BY <2>1 DEF Apps!tables
  <2>2. CASE \E f \in Versions : FromOne(f)
    BY <2>2 DEF Apps!tables, Apps!TablesOf, FromOne, Versions
  <2> QED BY <2>1, <2>2 DEF AppInv, TableInv
<1>3. ASSUME rules.at = "done" PROVE RulesOK(rules) /\ rules.users \subseteq Apps!Users
  BY <1>3 DEF AppInv, RulesOK, RulesType
<1>4. Apps!StableAppsObeyed
  <2> SUFFICES ASSUME rules.at = "done", rules.options.include # {} => rules.include # {},
                      NEW i \in Apps!Ids, Apps!Stable(i), NEW u \in rules.users
               PROVE  Apps!UidOf(i, u) \notin Apps!ExcludedRanges(rules.include, rules.exclude) <=> Apps!Tunnelled(i, u)
    BY DEF Apps!StableAppsObeyed
  <2> DEFINE uid == Apps!UidOf(i, u)
  <2>1. rules.left = {} /\ rules.name = None
    BY <1>3 DEF RulesOK, ListsInOrder
  <2>2. /\ Obeyed(i, uid, rules.options.include, {}, None, rules.include)
        /\ Obeyed(i, uid, rules.options.exclude, {}, None, rules.exclude)
    BY <1>3, <2>1 DEF RulesOK, NamesObeyed, LeftToInclude, NowIncluded, LeftToExclude, NowExcluded
  <2>3. None \notin rules.options.include /\ None \notin rules.options.exclude
    BY <1>3, OptionIs DEF RulesOK, RulesType
  <2>4. uid \in 0..Apps!userEnd
    BY <1>3, UidIs
  <2> HIDE DEF uid
  <2>5. uid \in rules.include <=> Named(i) \cap rules.options.include # {}
    BY <2>2, <2>3 DEF Obeyed
  <2>6. uid \in rules.exclude <=> Named(i) \cap rules.options.exclude # {}
    BY <2>2, <2>3 DEF Obeyed
  <2>7. rules.options.users = {} \/ u \in rules.options.users
    BY <1>3 DEF RulesOK, UsersAsAsked
  <2>8. Apps!Tunnelled(i, u) <=> /\ rules.options.include = {} \/ Named(i) \cap rules.options.include # {}
                                 /\ Named(i) \cap rules.options.exclude = {}
    BY <2>7 DEF Apps!Tunnelled, Named, AnyVersion
  <2>9. rules.include # {} <=> rules.options.include # {}
    BY <1>3 DEF RulesOK, UsersAsAsked
  <2>10. CASE rules.include # {}
    <3>1. Apps!ExcludedRanges(rules.include, rules.exclude) = (0..Apps!userEnd) \ (rules.include \ rules.exclude)
      BY <2>10 DEF Apps!ExcludedRanges, Apps!Revert
    <3> QED BY <2>4, <2>5, <2>6, <2>8, <2>9, <2>10, <3>1 DEF uid
  <2>11. CASE rules.include = {}
    BY <2>11, <2>6, <2>8, <2>9 DEF Apps!ExcludedRanges, uid
  <2> QED BY <2>10, <2>11
<1>5. Apps!OtherUsersStayOut
  <2> SUFFICES ASSUME rules.at = "done", rules.options.users # {}, NEW uid \in 0..Apps!userEnd,
                      uid \notin Apps!ExcludedRanges(rules.include, rules.exclude)
               PROVE  \E u \in rules.options.users : uid \in Apps!UserUids(u)
    BY DEF Apps!OtherUsersStayOut
  <2>1. CASE rules.include # {}
    <3>1. uid \in rules.include
      BY <2>1 DEF Apps!ExcludedRanges, Apps!Revert
    <3> QED BY <1>1, <3>1 DEF Apps!TypeOK
  <2>2. CASE rules.include = {}
    <3>1. uid \notin rules.exclude
      BY <2>2 DEF Apps!ExcludedRanges
    <3>2. Apps!Revert(OfUsers(rules.options)) \subseteq rules.exclude
      BY <1>3 DEF RulesOK, UsersAsAsked
    <3>3. uid \in OfUsers(rules.options)
      BY <3>1, <3>2 DEF Apps!Revert
    <3> QED BY <3>3 DEF OfUsers
  <2> QED BY <2>1, <2>2
<1> QED BY <1>1, <1>2, <1>4, <1>5

LEMMA AppsInvariant == Spec => [](part = "packages" => AppInv)
<1>1. Init => (part = "packages" => AppInv)
  BY InitApps DEF Init
<1>2. AppInv /\ [Apps!Next]_(Apps!vars) => AppInv'
  <2> SUFFICES ASSUME AppInv, UNCHANGED Apps!vars PROVE AppInv'
    BY AppsKeep, AppsAssumed
  <2>1. UNCHANGED <<file, changes, failures, manager, reported, missed, update, idByPackage, sharedByPackage,
                    packageById, sharedById, rules>>
    BY DEF Apps!vars, Apps!world, Apps!watch, Apps!tables
  <2> QED BY <2>1 DEF AppInv, TableInv, FromOne, Up
<1>3. (part = "packages" => AppInv) /\ [Next]_vars => (part = "packages" => AppInv)'
  <2> SUFFICES ASSUME part = "packages" => AppInv, [Next]_vars, part' = "packages" PROVE AppInv'
    OBVIOUS
  <2>1. part = "packages" /\ [Apps!Next]_(Apps!vars)
    BY DEF Next, vars, Apps!vars, Apps!world, Apps!watch, Apps!tables, file, changes, failures, manager, reported,
           missed, update, idByPackage, sharedByPackage, packageById, sharedById, rules
  <2> QED BY <1>2, <2>1
<1> QED BY <1>1, <1>3, PTL DEF Spec

(* BuildAndroidRules and ExcludedRanges, for every set of files, options and
   users and every order of changes, reads and lookups: the stable names of
   the options are obeyed in every user, and no other user is routed. *)
THEOREM AppsTheorem == Spec => []AppsObeyed
<1>1. (part = "packages" => AppInv) => AppsObeyed
  BY AppsShow, AppsAssumed DEF AppsObeyed
<1> QED BY <1>1, AppsInvariant, PTL

----------------------------------------
(* PolicyRules (tun_linux.go, route_dnat_linux.go).  The argument: the list  *)
(* is sorted, so what it decides can be followed from one priority to a      *)
(* later one: the rules between two priorities let a packet pass, send it    *)
(* on or end its way (Stretch), whatever the order of those of a priority.   *)

\* What the walk does at place i, of the values g it has further on
WalkStep(s, p, m, g, i) ==
  IF i > Len(s) THEN "unreachable"
  ELSE IF Policy!Jumps(s, i, p, m) THEN g[Policy!Min(Policy!Targets(s, i))]
  ELSE IF Policy!Ends(s, i, p, m) THEN Policy!Finds(s[i], p)
  ELSE g[i + 1]

IsWalk(s, p, m, g) == g = [i \in 1 .. Len(s) + 1 |-> WalkStep(s, p, m, g, i)]

LEMMA FirstTarget ==
  ASSUME NEW S, NEW s \in Seq(S), NEW i \in 1 .. Len(s), Policy!Targets(s, i) # {}
  PROVE  LET t == Policy!Min(Policy!Targets(s, i))
         IN  /\ t \in i + 1 .. Len(s) /\ s[t].pref = s[i].to
             /\ \A j \in i + 1 .. Len(s) : s[j].pref = s[i].to => t <= j
<1> DEFINE T == Policy!Targets(s, i)
           t == Policy!Min(T)
<1>1. T \subseteq Nat /\ T = {j \in i + 1 .. Len(s) : s[j].pref = s[i].to}
  BY DEF Policy!Targets
<1>2. PICK m \in T : \A n \in T : m <= n
  BY <1>1, NatMin
<1>3. t = CHOOSE x \in T : \A y \in T : x <= y
  BY DEF Policy!Min
<1> HIDE DEF T
<1>4. t \in T /\ \A y \in T : t <= y
  <2>1. \E x : x \in T /\ \A y \in T : x <= y
    BY <1>2
  <2> QED BY <1>3, <2>1, Zenon
<1> HIDE DEF t
<1>5. t \in i + 1 .. Len(s) /\ s[t].pref = s[i].to /\ \A j \in i + 1 .. Len(s) : s[j].pref = s[i].to => t <= j
  BY <1>1, <1>4
<1> QED BY <1>5 DEF t, T

\* There is a function the definition of Verdict speaks of: it is built from the end.
LEMMA WalkExists ==
  ASSUME NEW S, NEW s \in Seq(S), NEW p, NEW m
  PROVE  \E g : IsWalk(s, p, m, g)
<1> DEFINE L == Len(s)
           Part(n, g) == g = [i \in L + 1 - n .. L + 1 |-> WalkStep(s, p, m, g, i)]
           N == {n \in Nat : n <= L => \E g : Part(n, g)}
<1>0. L \in Nat
  OBVIOUS
<1>1. 0 \in N
  <2> DEFINE g == [i \in L + 1 .. L + 1 |-> "unreachable"]
  <2>1. \A i \in L + 1 .. L + 1 : WalkStep(s, p, m, g, i) = "unreachable"
    BY <1>0 DEF WalkStep
  <2> HIDE DEF g
  <2>2. g = [i \in L + 1 .. L + 1 |-> WalkStep(s, p, m, g, i)]
    BY <2>1 DEF g
  <2>3. L + 1 - 0 = L + 1
    BY <1>0
  <2> QED BY <2>2, <2>3
<1>2. ASSUME NEW n \in Nat, n \in N, n + 1 <= L PROVE \E g : Part(n + 1, g)
  <2> DEFINE a == L + 1 - (n + 1)
  <2>1. a \in 1 .. L /\ a + 1 = L + 1 - n /\ a + 1 \in Nat /\ a \in Nat
    BY <1>0, <1>2
  <2>2. PICK g : g = [i \in a + 1 .. L + 1 |-> WalkStep(s, p, m, g, i)]
    <3>1. \E g : Part(n, g)
      BY <1>0, <1>2
    <3> QED BY <2>1, <3>1
  <2> DEFINE h == [i \in a .. L + 1 |-> IF i = a THEN WalkStep(s, p, m, g, a) ELSE g[i]]
  <2> HIDE DEF a, L
  <2>3. \A i \in a + 1 .. L + 1 : h[i] = g[i]
    BY <2>1
  <2>4. ASSUME NEW i \in a .. L + 1 PROVE WalkStep(s, p, m, h, i) = WalkStep(s, p, m, g, i)
    <3>1. CASE i > Len(s)
      BY <3>1 DEF WalkStep
    <3>2. CASE ~(i > Len(s))
      <4>1. i \in 1 .. Len(s) /\ i + 1 \in a + 1 .. L + 1
        BY <1>0, <2>1, <3>2 DEF L
      <4>2. h[i + 1] = g[i + 1]
        BY <2>3, <4>1
      <4>3. CASE Policy!Jumps(s, i, p, m)
        <5> DEFINE t == Policy!Min(Policy!Targets(s, i))
        <5>1. t \in i + 1 .. Len(s)
          BY <4>1, <4>3, FirstTarget DEF Policy!Jumps
        <5> HIDE DEF t
        <5>2. t \in a + 1 .. L + 1
          BY <1>0, <2>1, <4>1, <5>1 DEF L
        <5>3. h[t] = g[t]
          BY <2>3, <5>2
        <5> QED BY <3>2, <4>3, <5>3 DEF WalkStep, t
      <4>4. CASE ~Policy!Jumps(s, i, p, m)
        BY <3>2, <4>2, <4>4 DEF WalkStep
      <4> QED BY <4>3, <4>4
    <3> QED BY <3>1, <3>2
  <2>5. ASSUME NEW i \in a .. L + 1 PROVE h[i] = WalkStep(s, p, m, h, i)
    <3>1. CASE i = a
      BY <2>4, <3>1
    <3>2. CASE i # a
      BY <1>0, <2>1, <3>2, <2>2, <2>3, <2>4
    <3> QED BY <3>1, <3>2
  <2>6. h = [i \in a .. L + 1 |-> h[i]]
    OBVIOUS
  <2> HIDE DEF h
  <2>7. h = [i \in a .. L + 1 |-> WalkStep(s, p, m, h, i)]
    BY <2>5, <2>6
  <2> QED BY <2>7 DEF a
<1>3. ASSUME NEW n \in Nat, n \in N PROVE n + 1 \in N
  <2>1. n + 1 \in Nat /\ (n + 1 <= L => n < L)
    BY <1>0
  <2> QED BY <1>2, <1>3, <2>1
<1> HIDE DEF N
<1>4. L \in N
  BY <1>0, <1>1, <1>3, SetInduction
<1>5. PICK g : Part(L, g)
  BY <1>0, <1>4 DEF N
<1>6. L + 1 - L = 1
  BY <1>0
<1> QED BY <1>5, <1>6 DEF IsWalk

LEMMA VerdictIs ==
  ASSUME NEW S, NEW s \in Seq(S), NEW p, NEW m
  PROVE  \E g : IsWalk(s, p, m, g) /\ Policy!Verdict(s, p, m) = g[1]
<1> DEFINE w == CHOOSE g : g = [i \in 1 .. Len(s) + 1 |-> WalkStep(s, p, m, g, i)]
<1>1. Policy!Verdict(s, p, m) = w[1]
  BY Zenon DEF Policy!Verdict, WalkStep
<1>2. \E g : g = [i \in 1 .. Len(s) + 1 |-> WalkStep(s, p, m, g, i)]
  BY WalkExists DEF IsWalk
<1>3. w = [i \in 1 .. Len(s) + 1 |-> WalkStep(s, p, m, w, i)]
  BY <1>2, Zenon
<1> QED BY <1>1, <1>3 DEF IsWalk

\* s is in order of priority
Ordered(s) == \A i, j \in 1 .. Len(s) : i <= j => s[i].pref <= s[j].pref
InList(s) == {s[i] : i \in 1 .. Len(s)}

\* Place a is the first of priority q or more, and from there the verdict is in W
IsPlace(s, q, a) ==
  /\ a \in 1 .. Len(s) + 1
  /\ \A i \in 1 .. Len(s) : i < a => s[i].pref < q
  /\ \A i \in 1 .. Len(s) : a <= i => q <= s[i].pref
Leads(s, g, q, W) == \A a : IsPlace(s, q, a) => g[a] \in W

\* What a rule does with a packet: nothing, end its way in W, or send it to where it ends in W
Passes(r, p, m) == Policy!Fires(r, p, m) => r.action # "goto" /\ Policy!Finds(r, p) = "nothing"
EndsIn(r, p, W) == r.action # "goto" /\ Policy!Finds(r, p) # "nothing" /\ Policy!Finds(r, p) \in W
SendsTo(s, g, r, W) ==
  r.action = "goto" /\ r.pref < r.to /\ (\E x \in InList(s) : x.pref = r.to) /\ Leads(s, g, r.to, W)

LEMMA PlaceExists ==
  ASSUME NEW S, NEW s \in Seq(S), \A r \in S : r.pref \in Nat, Ordered(s), NEW q \in Nat
  PROVE  \E a : IsPlace(s, q, a)
<1> DEFINE T == {a \in 1 .. Len(s) + 1 : \A i \in 1 .. Len(s) : a <= i => q <= s[i].pref}
<1>0. Len(s) \in Nat /\ \A i \in 1 .. Len(s) : s[i] \in S /\ s[i].pref \in Nat
  OBVIOUS
<1>1. Len(s) + 1 \in T /\ T \subseteq Nat
  BY <1>0
<1>2. PICK a \in T : \A n \in T : a <= n
  BY <1>1, NatMin
<1>3. ASSUME NEW i \in 1 .. Len(s), i < a, ~(s[i].pref < q) PROVE FALSE
  <2>1. \A j \in 1 .. Len(s) : i <= j => q <= s[j].pref
    BY <1>0, <1>3 DEF Ordered
  <2>2. i \in T
    BY <1>0, <2>1
  <2> QED BY <1>0, <1>2, <1>3, <2>2
<1> QED BY <1>2, <1>3 DEF IsPlace

LEMMA WalkAt ==
  ASSUME NEW S, NEW s \in Seq(S), NEW p, NEW m, NEW g, IsWalk(s, p, m, g), NEW i \in 1 .. Len(s)
  PROVE  /\ Passes(s[i], p, m) => g[i] = g[i + 1]
         /\ Policy!Ends(s, i, p, m) /\ s[i].action # "goto" => g[i] = Policy!Finds(s[i], p)
         /\ Policy!Jumps(s, i, p, m) => g[i] = g[Policy!Min(Policy!Targets(s, i))]
         /\ g[Len(s) + 1] = "unreachable"
<1>0. Len(s) \in Nat /\ i \in 1 .. Len(s) + 1 /\ Len(s) + 1 \in 1 .. Len(s) + 1 /\ ~(i > Len(s)) /\ Len(s) + 1 > Len(s)
  OBVIOUS
<1>1. g[i] = WalkStep(s, p, m, g, i) /\ g[Len(s) + 1] = WalkStep(s, p, m, g, Len(s) + 1)
  BY <1>0 DEF IsWalk
<1>2. ASSUME Passes(s[i], p, m) PROVE ~Policy!Jumps(s, i, p, m) /\ ~Policy!Ends(s, i, p, m)
  BY <1>2 DEF Passes, Policy!Jumps, Policy!Ends
<1>3. s[i].action # "goto" => ~Policy!Jumps(s, i, p, m)
  BY DEF Policy!Jumps
<1> QED BY <1>0, <1>1, <1>2, <1>3 DEF WalkStep

LEMMA JumpLeads ==
  ASSUME NEW S, NEW s \in Seq(S), \A r \in S : r.pref \in Nat /\ r.to \in Nat, Ordered(s), NEW p, NEW m, NEW g, IsWalk(s, p, m, g),
         NEW W, NEW i \in 1 .. Len(s), Policy!Fires(s[i], p, m), SendsTo(s, g, s[i], W)
  PROVE  g[i] \in W
<1> DEFINE t == Policy!Min(Policy!Targets(s, i))
<1>0. Len(s) \in Nat /\ \A k \in 1 .. Len(s) : s[k].pref \in Nat /\ s[k].to \in Nat
  OBVIOUS
<1>1. PICK j \in 1 .. Len(s) : s[j].pref = s[i].to
  BY DEF SendsTo, InList
<1>2. s[i].action = "goto" /\ s[i].pref < s[i].to
  BY DEF SendsTo
<1>3. i < j
  BY <1>0, <1>1, <1>2 DEF Ordered
<1>4. j \in Policy!Targets(s, i)
  BY <1>0, <1>1, <1>3 DEF Policy!Targets
<1>5. Policy!Jumps(s, i, p, m)
  BY <1>2, <1>4 DEF Policy!Jumps
<1>6. t \in i + 1 .. Len(s) /\ s[t].pref = s[i].to /\ \A k \in i + 1 .. Len(s) : s[k].pref = s[i].to => t <= k
  BY <1>4, FirstTarget
<1>7. g[i] = g[t]
  BY <1>5, WalkAt
<1> HIDE DEF t
<1>8. t \in 1 .. Len(s) /\ i < t
  BY <1>0, <1>6
<1>9. ASSUME NEW k \in 1 .. Len(s), k < t PROVE s[k].pref < s[i].to
  <2>1. CASE k <= i
    BY <1>0, <1>2, <2>1 DEF Ordered
  <2>2. CASE ~(k <= i)
    BY <1>0, <1>8, <1>9, <2>2, <1>6 DEF Ordered
  <2> QED BY <2>1, <2>2
<1>10. \A k \in 1 .. Len(s) : t <= k => s[i].to <= s[k].pref
  BY <1>6, <1>8 DEF Ordered
<1>11. IsPlace(s, s[i].to, t)
  BY <1>0, <1>8, <1>9, <1>10 DEF IsPlace
<1> QED BY <1>7, <1>11 DEF SendsTo, Leads

LEMMA Stretch ==
  ASSUME NEW S, NEW s \in Seq(S), \A r \in S : r.pref \in Nat /\ r.to \in Nat, Ordered(s), NEW p, NEW m, NEW g, IsWalk(s, p, m, g),
         NEW W, NEW q \in Nat, NEW e \in Nat, q <= e,
         \A r \in InList(s) : q <= r.pref /\ r.pref < e /\ ~Passes(r, p, m) => EndsIn(r, p, W) \/ SendsTo(s, g, r, W),
         Leads(s, g, e, W) \/ \E r \in InList(s) : q <= r.pref /\ r.pref < e /\ ~Passes(r, p, m)
  PROVE  Leads(s, g, q, W)
<1> SUFFICES ASSUME NEW a, IsPlace(s, q, a) PROVE g[a] \in W
  BY DEF Leads
<1>0. Len(s) \in Nat /\ \A k \in 1 .. Len(s) : s[k].pref \in Nat /\ s[k].to \in Nat
  OBVIOUS
<1>1. PICK b : IsPlace(s, e, b)
  BY PlaceExists
<1>2. a \in 1 .. Len(s) + 1 /\ b \in 1 .. Len(s) + 1
  BY <1>1 DEF IsPlace
<1>3. a <= b
  <2> SUFFICES ASSUME b < a PROVE FALSE
    BY <1>0, <1>2
  <2>1. b \in 1 .. Len(s)
    BY <1>0, <1>2
  <2>2. s[b].pref < q /\ e <= s[b].pref
    BY <1>1, <1>2, <2>1 DEF IsPlace
  <2> QED BY <1>0, <2>1, <2>2
<1>4. \A k \in 1 .. Len(s) : (a <= k /\ k < b) <=> (q <= s[k].pref /\ s[k].pref < e)
  BY <1>0, <1>1, <1>2 DEF IsPlace
<1> DEFINE Held(i) == (g[b] \in W \/ \E j \in 1 .. Len(s) : i <= j /\ j < b /\ ~Passes(s[j], p, m)) => g[i] \in W
           N == {n \in Nat : n <= b - a => Held(b - n)}
<1>5. 0 \in N
  BY <1>0, <1>2
<1>6. ASSUME NEW n \in Nat, n \in N, n + 1 <= b - a PROVE Held(b - (n + 1))
  <2> DEFINE i == b - (n + 1)
  <2>1. i + 1 = b - n /\ i \in 1 .. Len(s) /\ a <= i /\ i < b
    BY <1>0, <1>2, <1>3, <1>6
  <2>2. Held(b - n)
    BY <1>0, <1>2, <1>6
  <2> HIDE DEF i
  <2> SUFFICES ASSUME g[b] \in W \/ \E j \in 1 .. Len(s) : i <= j /\ j < b /\ ~Passes(s[j], p, m) PROVE g[i] \in W
    BY DEF i
  <2>3. CASE Passes(s[i], p, m)
    BY <2>1, <2>3, <1>0, <2>2, WalkAt
  <2>4. CASE ~Passes(s[i], p, m)
    <3>1. s[i] \in InList(s) /\ q <= s[i].pref /\ s[i].pref < e
      BY <1>4, <2>1 DEF InList
    <3>2. EndsIn(s[i], p, W) \/ SendsTo(s, g, s[i], W)
      BY <2>4, <3>1
    <3>3. Policy!Fires(s[i], p, m)
      BY <2>4 DEF Passes
    <3>4. CASE EndsIn(s[i], p, W)
      BY <3>3, <3>4, <2>1, WalkAt DEF EndsIn, Policy!Ends
    <3>5. CASE SendsTo(s, g, s[i], W)
      BY <2>1, <3>3, <3>5, JumpLeads
    <3> QED BY <3>2, <3>4, <3>5
  <2> QED BY <2>3, <2>4
<1>7. \A n \in Nat : n \in N => n + 1 \in N
  BY <1>0, <1>2, <1>6
<1>8. b - a \in Nat /\ b - (b - a) = a
  BY <1>0, <1>2, <1>3
<1> HIDE DEF N
<1>9. b - a \in N
  BY <1>5, <1>7, <1>8, SetInduction
<1>10. Held(a)
  <2>1. Held(b - (b - a))
    BY <1>8, <1>9 DEF N
  <2> QED BY <1>8, <2>1
<1>11. g[b] \in W \/ \E j \in 1 .. Len(s) : a <= j /\ j < b /\ ~Passes(s[j], p, m)
  <2>1. CASE Leads(s, g, e, W)
    BY <1>1, <2>1 DEF Leads
  <2>2. CASE \E r \in InList(s) : q <= r.pref /\ r.pref < e /\ ~Passes(r, p, m)
    <3>1. PICK j \in 1 .. Len(s) : q <= s[j].pref /\ s[j].pref < e /\ ~Passes(s[j], p, m)
      BY <2>2 DEF InList
    <3>2. a <= j /\ j < b
      BY <1>4, <3>1
    <3> QED BY <3>1, <3>2
  <2> QED BY <2>1, <2>2
<1> QED BY <1>10, <1>11

\* Behind the last rule nothing is left, and the walk starts at priority 0.
LEMMA EndLeads ==
  ASSUME NEW S, NEW s \in Seq(S), \A r \in S : r.pref \in Nat, NEW p, NEW m, NEW g, IsWalk(s, p, m, g),
         NEW e \in Nat, \A r \in InList(s) : r.pref < e
  PROVE  Leads(s, g, e, {"unreachable"})
<1> SUFFICES ASSUME NEW a, IsPlace(s, e, a) PROVE g[a] = "unreachable"
  BY DEF Leads
<1>1. Len(s) \in Nat /\ \A i \in 1 .. Len(s) : s[i] \in S /\ s[i].pref < e
  BY DEF InList
<1>2. a = Len(s) + 1
  BY <1>1 DEF IsPlace
<1>3. Len(s) + 1 \in 1 .. Len(s) + 1 /\ Len(s) + 1 > Len(s)
  BY <1>1
<1>4. g[Len(s) + 1] = WalkStep(s, p, m, g, Len(s) + 1)
  BY <1>3 DEF IsWalk
<1> QED BY <1>2, <1>3, <1>4 DEF WalkStep

LEMMA StartLeads ==
  ASSUME NEW S, NEW s \in Seq(S), \A r \in S : r.pref \in Nat, NEW p, NEW m, NEW g, NEW W, Leads(s, g, 0, W)
  PROVE  g[1] \in W
  BY DEF IsPlace, Leads

----------------------------------------
(* The rules that rules() makes *)
RuleMarks == [value : SUBSET (MarkBits \cup BypassField \cup VPNMark), mask : SUBSET (MarkBits \cup BypassField \cup VPNMark)]
RuleNames == {"ipvs", "sport", "dport", "uid", "listed", "tun", "unspecified", "low", "high"}
RuleType ==
  [pref : Nat, family : {4, 6}, by : {"all", "mark", "dst", "exclude", "iif", "notlo", "notdns", "oif", "losrc"},
   is : {{}} \cup RuleNames \cup RuleMarks,
   action : {"goto", "tun", "nop", "main", "unreachable", "system"}, to : Nat]

LEMMA InListOne ==
  ASSUME NEW S, NEW a \in S
  PROVE  <<a>> \in Seq(S) /\ InList(<<a>>) = {a}
<1>1. Len(<<a>>) = 1 /\ 1 .. 1 = {1}
  OBVIOUS
<1> QED BY <1>1 DEF InList

LEMMA InListThree ==
  ASSUME NEW S, NEW a \in S, NEW b \in S, NEW c \in S
  PROVE  <<a, b, c>> \in Seq(S) /\ InList(<<a, b, c>>) = {a, b, c}
  BY DEF InList

LEMMA InListFour ==
  ASSUME NEW S, NEW a \in S, NEW b \in S, NEW c \in S, NEW d \in S
  PROVE  <<a, b, c, d>> \in Seq(S) /\ InList(<<a, b, c, d>>) = {a, b, c, d}
  BY DEF InList

LEMMA InListFive ==
  ASSUME NEW S, NEW a \in S, NEW b \in S, NEW c \in S, NEW d \in S, NEW e \in S
  PROVE  <<a, b, c, d, e>> \in Seq(S) /\ InList(<<a, b, c, d, e>>) = {a, b, c, d, e}
  BY DEF InList

LEMMA InListConcat ==
  ASSUME NEW S, NEW s \in Seq(S), NEW t \in Seq(S)
  PROVE  s \o t \in Seq(S) /\ InList(s \o t) = InList(s) \cup InList(t)
<1> DEFINE u == s \o t
<1>1. u \in Seq(S) /\ Len(u) = Len(s) + Len(t) /\ Len(s) \in Nat /\ Len(t) \in Nat
      /\ \A i \in 1 .. Len(s) + Len(t) : u[i] = IF i <= Len(s) THEN s[i] ELSE t[i - Len(s)]
  OBVIOUS
<1> HIDE DEF u
<1>2. ASSUME NEW x \in InList(u) PROVE x \in InList(s) \cup InList(t)
  <2>1. PICK i \in 1 .. Len(s) + Len(t) : x = u[i]
    BY <1>1, <1>2 DEF InList
  <2>2. CASE i <= Len(s)
    BY <1>1, <2>1, <2>2 DEF InList
  <2>3. CASE ~(i <= Len(s))
    BY <1>1, <2>1, <2>3 DEF InList
  <2> QED BY <2>2, <2>3
<1>3. ASSUME NEW x \in InList(s) PROVE x \in InList(u)
  <2>1. PICK i \in 1 .. Len(s) : x = s[i]
    BY <1>3 DEF InList
  <2>2. i \in 1 .. Len(u) /\ u[i] = x
    BY <1>1, <2>1
  <2> QED BY <2>2 DEF InList
<1>4. ASSUME NEW x \in InList(t) PROVE x \in InList(u)
  <2>1. PICK i \in 1 .. Len(t) : x = t[i]
    BY <1>4 DEF InList
  <2> DEFINE j == i + Len(s)
  <2>2. j \in 1 .. Len(s) + Len(t) /\ ~(j <= Len(s)) /\ j - Len(s) = i
    BY <1>1
  <2> HIDE DEF j
  <2>3. j \in 1 .. Len(u) /\ u[j] = x
    BY <1>1, <2>1, <2>2
  <2> QED BY <2>3 DEF InList
<1> QED BY <1>1, <1>2, <1>3, <1>4 DEF u

LEMMA InListWhen ==
  ASSUME NEW S, NEW b \in BOOLEAN, NEW s \in Seq(S)
  PROVE  Policy!When(b, s) \in Seq(S) /\ InList(Policy!When(b, s)) = {x \in InList(s) : b}
  BY DEF InList, Policy!When

LEMMA WhenOne ==
  ASSUME NEW S, NEW b \in BOOLEAN, NEW r \in S
  PROVE  Policy!When(b, <<r>>) \in Seq(S) /\ InList(Policy!When(b, <<r>>)) = {x \in {r} : b}
<1>1. <<r>> \in Seq(S) /\ InList(<<r>>) = {r}
  BY InListOne
<1> QED BY <1>1, InListWhen

LEMMA InListConcat3 ==
  ASSUME NEW S, NEW s \in Seq(S), NEW t \in Seq(S), NEW u \in Seq(S)
  PROVE  s \o t \o u \in Seq(S) /\ InList(s \o t \o u) = InList(s) \cup InList(t) \cup InList(u)
<1> DEFINE v == s \o t
<1>1. v \in Seq(S) /\ InList(v) = InList(s) \cup InList(t)
  BY InListConcat
<1> HIDE DEF v
<1>2. v \o u \in Seq(S) /\ InList(v \o u) = InList(v) \cup InList(u)
  BY <1>1, InListConcat
<1> QED BY <1>1, <1>2 DEF v

LEMMA InListTyped ==
  ASSUME NEW S, NEW s \in Seq(S), NEW r \in InList(s)
  PROVE  r \in S
  BY DEF InList

LEMMA RuleIs ==
  ASSUME NEW a, NEW f, NEW b, NEW i, NEW x, NEW t
  PROVE  LET r == Policy!Rule(a, f, b, i, x, t)
         IN  r.pref = a /\ r.family = f /\ r.by = b /\ r.is = i /\ r.action = x /\ r.to = t
  BY DEF Policy!Rule

LEMMA RuleTyped ==
  ASSUME NEW a \in Nat, NEW f \in {4, 6}, NEW t \in Nat,
         NEW b \in {"all", "mark", "dst", "exclude", "iif", "notlo", "notdns", "oif", "losrc"},
         NEW i \in {{}} \cup RuleNames \cup RuleMarks,
         NEW x \in {"goto", "tun", "nop", "main", "unreachable", "system"}
  PROVE  Policy!Rule(a, f, b, i, x, t) \in RuleType
  BY DEF Policy!Rule, RuleType

LEMMA PolicyOptionsAre ==
  ASSUME NEW c \in Policy!OptionsType
  PROVE  /\ c.autoRoute \in BOOLEAN /\ c.families \in SUBSET {4, 6} /\ c.markMode \in BOOLEAN /\ c.dnat \in BOOLEAN
         /\ c.ipvs \in BOOLEAN /\ c.exclude \in SUBSET {"sport", "dport", "uid"}
         /\ c.interface \in {"any", "include", "exclude"} /\ c.android \in BOOLEAN
         /\ c.vpn \in {"off", "follow", "override"} /\ c.strict \in BOOLEAN
         /\ c.input \in SUBSET MarkBits /\ c.output \in SUBSET MarkBits
  BY DEF Policy!OptionsType

LEMMA RuleFields ==
  ASSUME NEW r \in RuleType
  PROVE  r.pref \in Nat /\ r.family \in {4, 6} /\ r.to \in Nat
  BY DEF RuleType

\* The priorities of the parts of a list: they end before the nop.
LEMMA Budget ==
  ASSUME Policy!PolicyAssumption, NEW c \in Policy!OptionsType
  PROVE  LET a1 == Policy!AfterBypass(c)
             a2 == Policy!AfterExclude(c)
             a3 == Policy!AfterInterface(c)
             a4 == Policy!AfterAndroid(c)
         IN  /\ a1 \in Nat /\ a2 \in Nat /\ a3 \in Nat /\ a4 \in Nat
             /\ RuleStart <= a1 /\ (c.ipvs => RuleStart + Policy!Inc(c.dnat) < a1) /\ (c.dnat => RuleStart < a1)
             /\ a1 <= a2 /\ (c.exclude # {} => a1 < a2)
             /\ a2 <= a3 /\ (c.interface = "include" => a3 = a2 + 3) /\ (c.interface = "exclude" => a3 = a2 + 1)
             /\ a3 <= a4 /\ (c.android /\ c.vpn # "off" => a3 < a4)
             /\ (c.android => a4 < RuleStart + 8) /\ (~c.android => a4 < RuleStart + 7)
<1>0. RuleStart \in Nat
  BY DEF Policy!PolicyAssumption
<1>1. c.interface \in {"any", "include", "exclude"}
  BY PolicyOptionsAre
<1> DEFINE n3 == CASE c.interface = "include" -> 3 [] c.interface = "exclude" -> 1 [] OTHER -> 0
           n1 == Policy!Inc(c.dnat)
           n2 == Policy!Inc(c.ipvs)
           n4 == Policy!Inc(c.exclude # {})
           n5 == Policy!Inc(c.android /\ c.vpn # "off")
<1>2. n1 \in {0, 1} /\ n2 \in {0, 1} /\ n4 \in {0, 1} /\ n5 \in {0, 1} /\ (c.dnat => n1 = 1) /\ (c.ipvs => n2 = 1)
      /\ (c.exclude # {} => n4 = 1) /\ (c.android /\ c.vpn # "off" => n5 = 1) /\ (~c.android => n5 = 0)
  BY DEF Policy!Inc
<1>3. n3 \in {0, 1, 3} /\ (c.interface = "include" => n3 = 3) /\ (c.interface = "exclude" => n3 = 1)
  BY <1>1
<1>4. Policy!AfterBypass(c) = RuleStart + n1 + n2
  BY DEF Policy!AfterBypass
<1>5. Policy!AfterExclude(c) = RuleStart + n1 + n2 + n4
  BY DEF Policy!AfterBypass, Policy!AfterExclude
<1>6. Policy!AfterInterface(c) = RuleStart + n1 + n2 + n4 + n3
  BY <1>5 DEF Policy!AfterInterface
<1>7. Policy!AfterAndroid(c) = RuleStart + n1 + n2 + n4 + n3 + n5
  BY <1>6 DEF Policy!AfterAndroid
<1> HIDE DEF n1, n2, n3, n4, n5
<1>8. Policy!Inc(c.dnat) = n1
  BY DEF n1
<1> QED BY <1>0, <1>2, <1>3, <1>4, <1>5, <1>6, <1>7, <1>8

LEMMA MasksAre ==
  ASSUME Policy!PolicyAssumption, NEW c \in Policy!OptionsType
  PROVE  /\ Policy!BypassMask(c) \subseteq MarkBits \cup BypassField
         /\ Policy!BypassMark(c) \subseteq MarkBits
         /\ [value |-> Policy!BypassMark(c), mask |-> Policy!BypassMask(c)] \in RuleMarks
         /\ [value |-> c.output, mask |-> MarkBits] \in RuleMarks
         /\ [value |-> c.input, mask |-> MarkBits] \in RuleMarks
         /\ [value |-> IF c.vpn = "override" THEN VPNMark ELSE {}, mask |-> VPNMark] \in RuleMarks
  BY PolicyOptionsAre DEF Policy!Xor, Policy!LowestBit, Policy!BypassMask, Policy!BypassMark, RuleMarks

\* The rules of a list, part by part
DNATRule(c, f) ==
  Policy!Goto(RuleStart, f, "mark", [value |-> Policy!BypassMark(c), mask |-> Policy!BypassMask(c)], RuleStart + 10)
IPVSRule(c, f) == Policy!Goto(RuleStart + Policy!Inc(c.dnat), f, "dst", "ipvs", RuleStart + 10)
ExcludeRule(c, f, x) == Policy!Goto(Policy!AfterBypass(c), f, "exclude", x, RuleStart + 10)
ListedRule(c, f) == Policy!Goto(Policy!AfterExclude(c), f, "iif", "listed", Policy!AfterExclude(c) + 2)
UnlistedRule(c, f) == Policy!Goto(Policy!AfterExclude(c) + 1, f, "all", {}, RuleStart + 10)
LandingRule(c, f) == Policy!Nop(Policy!AfterExclude(c) + 2, f)
NotListedRule(c, f) == Policy!Goto(Policy!AfterExclude(c), f, "iif", "listed", RuleStart + 10)
VPNRule(c, f) ==
  Policy!Goto(Policy!AfterInterface(c), f, "mark",
              [value |-> IF c.vpn = "override" THEN VPNMark ELSE {}, mask |-> VPNMark], RuleStart + 10)

LEMMA NamedRules ==
  ASSUME Policy!PolicyAssumption, NEW c \in Policy!OptionsType, NEW f \in {4, 6}
  PROVE  /\ DNATRule(c, f) \in RuleType /\ IPVSRule(c, f) \in RuleType
         /\ \A x \in {"sport", "dport", "uid"} : ExcludeRule(c, f, x) \in RuleType
         /\ ListedRule(c, f) \in RuleType /\ UnlistedRule(c, f) \in RuleType /\ LandingRule(c, f) \in RuleType
         /\ NotListedRule(c, f) \in RuleType /\ VPNRule(c, f) \in RuleType
<1>0. RuleStart \in Nat /\ RuleStart + 10 \in Nat
  BY DEF Policy!PolicyAssumption
<1>1. /\ Policy!AfterBypass(c) \in Nat /\ Policy!AfterExclude(c) \in Nat /\ Policy!AfterInterface(c) \in Nat
      /\ Policy!AfterExclude(c) + 1 \in Nat /\ Policy!AfterExclude(c) + 2 \in Nat
  BY Budget
<1>2. RuleStart + Policy!Inc(c.dnat) \in Nat
  BY <1>0 DEF Policy!Inc
<1>3. \A x \in RuleNames : x \in {{}} \cup RuleNames \cup RuleMarks
  OBVIOUS
<1>4. "ipvs" \in RuleNames /\ "sport" \in RuleNames /\ "dport" \in RuleNames /\ "uid" \in RuleNames /\ "listed" \in RuleNames
  BY DEF RuleNames
<1>5. DNATRule(c, f) \in RuleType
  BY <1>0, MasksAre, RuleTyped DEF DNATRule, Policy!Goto
<1>6. IPVSRule(c, f) \in RuleType
  BY <1>0, <1>2, <1>3, <1>4, RuleTyped DEF IPVSRule, Policy!Goto
<1>7. \A x \in {"sport", "dport", "uid"} : ExcludeRule(c, f, x) \in RuleType
  BY <1>0, <1>1, <1>3, <1>4, RuleTyped DEF ExcludeRule, Policy!Goto
<1>8. ListedRule(c, f) \in RuleType /\ NotListedRule(c, f) \in RuleType
  BY <1>0, <1>1, <1>3, <1>4, RuleTyped DEF ListedRule, NotListedRule, Policy!Goto
<1>9. UnlistedRule(c, f) \in RuleType /\ LandingRule(c, f) \in RuleType
  BY <1>0, <1>1, RuleTyped DEF UnlistedRule, LandingRule, Policy!Goto, Policy!Nop
<1>10. VPNRule(c, f) \in RuleType
  BY <1>0, <1>1, MasksAre, RuleTyped DEF VPNRule, Policy!Goto
<1> QED BY <1>5, <1>6, <1>7, <1>8, <1>9, <1>10

\* What comes before the lookups
Guards(c, f) ==
  {x \in {DNATRule(c, f)} : c.dnat} \cup {x \in {IPVSRule(c, f)} : c.ipvs}
  \cup {ExcludeRule(c, f, x) : x \in c.exclude}
  \cup {x \in {ListedRule(c, f), UnlistedRule(c, f), LandingRule(c, f)} : c.interface = "include"}
  \cup {x \in {NotListedRule(c, f)} : c.interface = "exclude"}
  \cup {x \in {VPNRule(c, f)} : c.android /\ c.vpn # "off"}

LEMMA GuardsAre ==
  ASSUME Policy!PolicyAssumption, NEW c \in Policy!OptionsType, NEW f \in {4, 6}
  PROVE  LET s == Policy!BypassRules(c, f) \o Policy!ExcludeRules(c, f) \o Policy!InterfaceRules(c, f) \o Policy!AndroidRules(c, f)
         IN  s \in Seq(RuleType) /\ InList(s) = Guards(c, f)
<1> DEFINE s1 == Policy!When(c.dnat, <<DNATRule(c, f)>>)
           s2 == Policy!When(c.ipvs, <<IPVSRule(c, f)>>)
           x1 == Policy!When("sport" \in c.exclude, <<ExcludeRule(c, f, "sport")>>)
           x2 == Policy!When("dport" \in c.exclude, <<ExcludeRule(c, f, "dport")>>)
           x3 == Policy!When("uid" \in c.exclude, <<ExcludeRule(c, f, "uid")>>)
           i1 == Policy!When(c.interface = "include", <<ListedRule(c, f), UnlistedRule(c, f), LandingRule(c, f)>>)
           i2 == Policy!When(c.interface = "exclude", <<NotListedRule(c, f)>>)
           a1 == Policy!When(c.android /\ c.vpn # "off", <<VPNRule(c, f)>>)
<1>0. c.exclude \in SUBSET {"sport", "dport", "uid"} /\ c.dnat \in BOOLEAN /\ c.ipvs \in BOOLEAN
  BY PolicyOptionsAre
<1>1. s1 \in Seq(RuleType) /\ InList(s1) = {x \in {DNATRule(c, f)} : c.dnat}
  BY <1>0, WhenOne, NamedRules
<1>2. s2 \in Seq(RuleType) /\ InList(s2) = {x \in {IPVSRule(c, f)} : c.ipvs}
  BY <1>0, WhenOne, NamedRules
<1>3. ASSUME NEW x \in {"sport", "dport", "uid"}
      PROVE  LET w == Policy!When(x \in c.exclude, <<ExcludeRule(c, f, x)>>)
             IN  w \in Seq(RuleType) /\ InList(w) = {y \in {ExcludeRule(c, f, x)} : x \in c.exclude}
  <2>1. ExcludeRule(c, f, x) \in RuleType /\ (x \in c.exclude) \in BOOLEAN
    BY NamedRules
  <2> QED BY <2>1, WhenOne
<1>4. i1 \in Seq(RuleType)
      /\ InList(i1) = {x \in {ListedRule(c, f), UnlistedRule(c, f), LandingRule(c, f)} : c.interface = "include"}
  <2> DEFINE t == <<ListedRule(c, f), UnlistedRule(c, f), LandingRule(c, f)>>
             b == c.interface = "include"
  <2>1. b \in BOOLEAN
    OBVIOUS
  <2>2. t \in Seq(RuleType) /\ InList(t) = {ListedRule(c, f), UnlistedRule(c, f), LandingRule(c, f)}
    BY NamedRules, InListThree
  <2> HIDE DEF t, b
  <2>3. Policy!When(b, t) \in Seq(RuleType) /\ InList(Policy!When(b, t)) = {x \in InList(t) : b}
    BY <2>1, <2>2, InListWhen
  <2> QED BY <2>2, <2>3 DEF t, b
<1>5. i2 \in Seq(RuleType) /\ InList(i2) = {x \in {NotListedRule(c, f)} : c.interface = "exclude"}
  <2> DEFINE b == c.interface = "exclude"
  <2>1. b \in BOOLEAN
    OBVIOUS
  <2> HIDE DEF b
  <2>2. Policy!When(b, <<NotListedRule(c, f)>>) \in Seq(RuleType)
        /\ InList(Policy!When(b, <<NotListedRule(c, f)>>)) = {x \in {NotListedRule(c, f)} : b}
    BY <2>1, WhenOne, NamedRules
  <2> QED BY <2>2 DEF b
<1>6. a1 \in Seq(RuleType) /\ InList(a1) = {x \in {VPNRule(c, f)} : c.android /\ c.vpn # "off"}
  <2> DEFINE b == c.android /\ c.vpn # "off"
  <2>1. b \in BOOLEAN
    OBVIOUS
  <2> HIDE DEF b
  <2>2. Policy!When(b, <<VPNRule(c, f)>>) \in Seq(RuleType)
        /\ InList(Policy!When(b, <<VPNRule(c, f)>>)) = {x \in {VPNRule(c, f)} : b}
    BY <2>1, WhenOne, NamedRules
  <2> QED BY <2>2 DEF b
<1>7. Policy!BypassRules(c, f) = s1 \o s2
  BY DEF Policy!BypassRules, DNATRule, IPVSRule, Policy!NopPriority
<1>8. Policy!ExcludeRules(c, f) = x1 \o x2 \o x3
  BY DEF Policy!ExcludeRules, ExcludeRule, Policy!NopPriority
<1>9. Policy!InterfaceRules(c, f) = i1 \o i2
  BY DEF Policy!InterfaceRules, ListedRule, UnlistedRule, LandingRule, NotListedRule, Policy!NopPriority
<1>10. Policy!AndroidRules(c, f) = a1
  BY DEF Policy!AndroidRules, VPNRule, Policy!NopPriority
<1>11. /\ x1 \in Seq(RuleType) /\ InList(x1) = {y \in {ExcludeRule(c, f, "sport")} : "sport" \in c.exclude}
       /\ x2 \in Seq(RuleType) /\ InList(x2) = {y \in {ExcludeRule(c, f, "dport")} : "dport" \in c.exclude}
       /\ x3 \in Seq(RuleType) /\ InList(x3) = {y \in {ExcludeRule(c, f, "uid")} : "uid" \in c.exclude}
  BY <1>3
<1> HIDE DEF s1, s2, x1, x2, x3, i1, i2, a1
<1>12. s1 \o s2 \in Seq(RuleType) /\ InList(s1 \o s2) = InList(s1) \cup InList(s2)
  BY <1>1, <1>2, InListConcat
<1>14. x1 \o x2 \o x3 \in Seq(RuleType) /\ InList(x1 \o x2 \o x3) = InList(x1) \cup InList(x2) \cup InList(x3)
  BY <1>11, InListConcat3
<1>15. i1 \o i2 \in Seq(RuleType) /\ InList(i1 \o i2) = InList(i1) \cup InList(i2)
  BY <1>4, <1>5, InListConcat
<1> DEFINE t1 == s1 \o s2
           t2 == x1 \o x2 \o x3
           t3 == i1 \o i2
<1>16. /\ t1 \in Seq(RuleType) /\ InList(t1) = InList(s1) \cup InList(s2)
       /\ t2 \in Seq(RuleType) /\ InList(t2) = InList(x1) \cup InList(x2) \cup InList(x3)
       /\ t3 \in Seq(RuleType) /\ InList(t3) = InList(i1) \cup InList(i2)
  BY <1>12, <1>14, <1>15
<1>17. /\ Policy!BypassRules(c, f) = t1 /\ Policy!ExcludeRules(c, f) = t2 /\ Policy!InterfaceRules(c, f) = t3
       /\ Policy!AndroidRules(c, f) = a1
  BY <1>7, <1>8, <1>9, <1>10
<1> HIDE DEF t1, t2, t3
<1> DEFINE t4 == t1 \o t2 \o t3
<1>19. t4 \in Seq(RuleType) /\ InList(t4) = InList(t1) \cup InList(t2) \cup InList(t3)
  BY <1>16, InListConcat3
<1> HIDE DEF t4
<1>20. t4 \o a1 \in Seq(RuleType) /\ InList(t4 \o a1) = InList(t4) \cup InList(a1)
  BY <1>6, <1>19, InListConcat
<1>21. InList(x1) \cup InList(x2) \cup InList(x3) = {ExcludeRule(c, f, x) : x \in c.exclude}
  BY <1>0, <1>11
<1>22. InList(t1) \cup InList(t2) \cup InList(t3) \cup InList(a1) = Guards(c, f)
  BY <1>1, <1>2, <1>4, <1>5, <1>6, <1>16, <1>21 DEF Guards
<1> QED BY <1>17, <1>19, <1>20, <1>22 DEF t4

\* The lookups of a family, behind its guards
Lookups4(c) ==
  LET q == Policy!AfterAndroid(c)
      p == q + Policy!Inc(~c.android)
  IN  {x \in {Policy!Lookup(q, 4, "dst", "tun")} : ~c.android}
      \cup {x \in {Policy!Rule(p, 4, "notdns", {}, "main", 0)} : ~c.android}
      \cup {Policy!Goto(p, 4, "iif", "tun", RuleStart + 10), Policy!Lookup(p + 1, 4, "notlo", {}),
            Policy!Lookup(p + 1, 4, "losrc", "unspecified"), Policy!Lookup(p + 1, 4, "losrc", "tun")}

Lookups6(c) ==
  LET p == Policy!AfterAndroid(c)
  IN  {x \in {Policy!Rule(p, 6, "notdns", {}, "main", 0)} : ~c.android}
      \cup {Policy!Lookup(p, 6, "losrc", "tun"), Policy!Goto(p + 1, 6, "iif", "tun", RuleStart + 10),
            Policy!Goto(p + 1, 6, "losrc", "low", RuleStart + 10), Policy!Goto(p + 1, 6, "losrc", "high", RuleStart + 10),
            Policy!Lookup(p + 2, 6, "all", {})}

LEMMA NamesAre ==
  /\ \A x \in RuleNames : x \in {{}} \cup RuleNames \cup RuleMarks
  /\ {} \in {{}} \cup RuleNames \cup RuleMarks
  /\ "tun" \in RuleNames /\ "unspecified" \in RuleNames /\ "low" \in RuleNames /\ "high" \in RuleNames
  BY DEF RuleNames

LEMMA Lookups4Are ==
  ASSUME Policy!PolicyAssumption, NEW c \in Policy!OptionsType
  PROVE  Policy!Inet4Rules(c) \in Seq(RuleType) /\ InList(Policy!Inet4Rules(c)) = Lookups4(c)
<1> DEFINE q == Policy!AfterAndroid(c)
           p == q + Policy!Inc(~c.android)
           r1 == Policy!Lookup(q, 4, "dst", "tun")
           r2 == Policy!Rule(p, 4, "notdns", {}, "main", 0)
           r3 == Policy!Goto(p, 4, "iif", "tun", RuleStart + 10)
           r4 == Policy!Lookup(p + 1, 4, "notlo", {})
           r5 == Policy!Lookup(p + 1, 4, "losrc", "unspecified")
           r6 == Policy!Lookup(p + 1, 4, "losrc", "tun")
           b == ~c.android
<1>0. RuleStart + 10 \in Nat /\ q \in Nat /\ p \in Nat /\ p + 1 \in Nat /\ 0 \in Nat
  BY Budget DEF Policy!PolicyAssumption, Policy!Inc
<1>1. b \in BOOLEAN
  OBVIOUS
<1>2. r1 \in RuleType
  BY <1>0, NamesAre, RuleTyped DEF Policy!Lookup
<1>3. r2 \in RuleType
  BY <1>0, NamesAre, RuleTyped
<1>4. r3 \in RuleType
  BY <1>0, NamesAre, RuleTyped DEF Policy!Goto
<1>5. r4 \in RuleType
  BY <1>0, NamesAre, RuleTyped DEF Policy!Lookup
<1>6. r5 \in RuleType /\ r6 \in RuleType
  BY <1>0, NamesAre, RuleTyped DEF Policy!Lookup
<1>7. Policy!Inet4Rules(c) = Policy!When(b, <<r1>>) \o Policy!When(b, <<r2>>) \o <<r3, r4, r5, r6>>
  BY DEF Policy!Inet4Rules, Policy!MainRules, Policy!NopPriority
<1>8. Lookups4(c) = {x \in {r1} : b} \cup {x \in {r2} : b} \cup {r3, r4, r5, r6}
  BY DEF Lookups4
<1> HIDE DEF b, r1, r2, r3, r4, r5, r6
<1>9. Policy!When(b, <<r1>>) \in Seq(RuleType) /\ InList(Policy!When(b, <<r1>>)) = {x \in {r1} : b}
  BY <1>1, <1>2, WhenOne
<1>10. Policy!When(b, <<r2>>) \in Seq(RuleType) /\ InList(Policy!When(b, <<r2>>)) = {x \in {r2} : b}
  BY <1>1, <1>3, WhenOne
<1>11. <<r3, r4, r5, r6>> \in Seq(RuleType) /\ InList(<<r3, r4, r5, r6>>) = {r3, r4, r5, r6}
  BY <1>4, <1>5, <1>6, InListFour
<1> DEFINE s == Policy!When(b, <<r1>>)
           t == Policy!When(b, <<r2>>)
           u == <<r3, r4, r5, r6>>
<1> HIDE DEF s, t, u
<1>12. s \o t \o u \in Seq(RuleType) /\ InList(s \o t \o u) = InList(s) \cup InList(t) \cup InList(u)
  <2>1. s \in Seq(RuleType) /\ t \in Seq(RuleType) /\ u \in Seq(RuleType)
    BY <1>9, <1>10, <1>11 DEF s, t, u
  <2> QED BY <2>1, InListConcat3
<1> QED BY <1>7, <1>8, <1>9, <1>10, <1>11, <1>12 DEF s, t, u

LEMMA Lookups6Are ==
  ASSUME Policy!PolicyAssumption, NEW c \in Policy!OptionsType
  PROVE  Policy!Inet6Rules(c) \in Seq(RuleType) /\ InList(Policy!Inet6Rules(c)) = Lookups6(c)
<1> DEFINE p == Policy!AfterAndroid(c)
           r1 == Policy!Rule(p, 6, "notdns", {}, "main", 0)
           r2 == Policy!Lookup(p, 6, "losrc", "tun")
           r3 == Policy!Goto(p + 1, 6, "iif", "tun", RuleStart + 10)
           r4 == Policy!Goto(p + 1, 6, "losrc", "low", RuleStart + 10)
           r5 == Policy!Goto(p + 1, 6, "losrc", "high", RuleStart + 10)
           r6 == Policy!Lookup(p + 2, 6, "all", {})
           b == ~c.android
<1>0. RuleStart + 10 \in Nat /\ p \in Nat /\ p + 1 \in Nat /\ p + 2 \in Nat /\ 0 \in Nat
  <2>1. p \in Nat /\ RuleStart \in Nat
    BY Budget DEF Policy!PolicyAssumption
  <2> QED BY <2>1
<1>1. b \in BOOLEAN
  OBVIOUS
<1>2. r1 \in RuleType
  BY <1>0, NamesAre, RuleTyped
<1>3. r2 \in RuleType /\ r6 \in RuleType
  BY <1>0, NamesAre, RuleTyped DEF Policy!Lookup
<1>4. r3 \in RuleType
  BY <1>0, NamesAre, RuleTyped DEF Policy!Goto
<1>5. r4 \in RuleType /\ r5 \in RuleType
  BY <1>0, NamesAre, RuleTyped DEF Policy!Goto
<1>7. Policy!Inet6Rules(c) = Policy!When(b, <<r1>>) \o <<r2, r3, r4, r5, r6>>
  BY DEF Policy!Inet6Rules, Policy!MainRules, Policy!NopPriority
<1>8. Lookups6(c) = {x \in {r1} : b} \cup {r2, r3, r4, r5, r6}
  BY DEF Lookups6
<1> HIDE DEF b, r1, r2, r3, r4, r5, r6
<1>9. Policy!When(b, <<r1>>) \in Seq(RuleType) /\ InList(Policy!When(b, <<r1>>)) = {x \in {r1} : b}
  BY <1>1, <1>2, WhenOne
<1>11. <<r2, r3, r4, r5, r6>> \in Seq(RuleType) /\ InList(<<r2, r3, r4, r5, r6>>) = {r2, r3, r4, r5, r6}
  BY <1>3, <1>4, <1>5, InListFive
<1> DEFINE s == Policy!When(b, <<r1>>)
           u == <<r2, r3, r4, r5, r6>>
<1> HIDE DEF s, u
<1>12. s \o u \in Seq(RuleType) /\ InList(s \o u) = InList(s) \cup InList(u)
  <2>1. s \in Seq(RuleType) /\ u \in Seq(RuleType)
    BY <1>9, <1>11 DEF s, u
  <2> QED BY <2>1, InListConcat
<1> QED BY <1>7, <1>8, <1>9, <1>11, <1>12 DEF s, u

\* Every list that rules() makes for a family
MarkSet(c, f) ==
  {Policy!Goto(RuleStart, f, "mark",
               IF c.dnat THEN [value |-> Policy!BypassMark(c), mask |-> Policy!BypassMask(c)]
                         ELSE [value |-> c.output, mask |-> MarkBits], RuleStart + 2),
   Policy!Lookup(RuleStart + 1, f, "mark", [value |-> c.input, mask |-> MarkBits]),
   Policy!Nop(RuleStart + 2, f),
   Policy!Lookup(FallbackPref, f, "all", {})}

FamilySet(c, f) ==
  CASE c.markMode /\ f \in c.families -> MarkSet(c, f)
    [] c.markMode /\ f \notin c.families -> {}
    [] ~c.markMode /\ f \notin c.families -> {x \in {Policy!Rule(RuleStart, f, "all", {}, "unreachable", 0)} : c.strict}
    [] OTHER -> Guards(c, f) \cup (IF f = 4 THEN Lookups4(c) ELSE Lookups6(c)) \cup {Policy!Nop(RuleStart + 10, f)}

LEMMA FamilyIs ==
  ASSUME Policy!PolicyAssumption, NEW c \in Policy!OptionsType, NEW f \in {4, 6}
  PROVE  Policy!FamilyRules(c, f) \in Seq(RuleType) /\ InList(Policy!FamilyRules(c, f)) = FamilySet(c, f)
<1>0. RuleStart \in Nat /\ RuleStart + 1 \in Nat /\ RuleStart + 2 \in Nat /\ RuleStart + 10 \in Nat /\ 0 \in Nat /\ FallbackPref \in Nat
  BY DEF Policy!PolicyAssumption
<1>1. CASE c.markMode /\ f \in c.families
  <2> DEFINE is == IF c.dnat THEN [value |-> Policy!BypassMark(c), mask |-> Policy!BypassMask(c)]
                             ELSE [value |-> c.output, mask |-> MarkBits]
             in == [value |-> c.input, mask |-> MarkBits]
             r1 == Policy!Goto(RuleStart, f, "mark", is, RuleStart + 2)
             r2 == Policy!Lookup(RuleStart + 1, f, "mark", in)
             r3 == Policy!Nop(RuleStart + 2, f)
             r4 == Policy!Lookup(FallbackPref, f, "all", {})
  <2>1. is \in RuleMarks /\ in \in RuleMarks
    BY MasksAre
  <2>2. Policy!FamilyRules(c, f) = <<r1, r2, r3, r4>>
    BY <1>1 DEF Policy!FamilyRules, Policy!MarkModeRules
  <2>3. FamilySet(c, f) = {r1, r2, r3, r4}
    BY <1>1 DEF FamilySet, MarkSet
  <2> HIDE DEF is, in
  <2>4. r1 \in RuleType
    BY <1>0, <2>1, RuleTyped DEF Policy!Goto
  <2>5. r2 \in RuleType
    BY <1>0, <2>1, RuleTyped DEF Policy!Lookup
  <2>6. r3 \in RuleType
    BY <1>0, NamesAre, RuleTyped DEF Policy!Nop
  <2>7. r4 \in RuleType
    BY <1>0, NamesAre, RuleTyped DEF Policy!Lookup
  <2> HIDE DEF r1, r2, r3, r4
  <2> QED BY <2>2, <2>3, <2>4, <2>5, <2>6, <2>7, InListFour
<1>2. CASE c.markMode /\ f \notin c.families
  BY <1>2 DEF Policy!FamilyRules, FamilySet, InList
<1>3. CASE ~c.markMode /\ f \notin c.families
  <2> DEFINE r == Policy!Rule(RuleStart, f, "all", {}, "unreachable", 0)
  <2>1. Policy!FamilyRules(c, f) = Policy!When(c.strict, <<r>>) /\ FamilySet(c, f) = {x \in {r} : c.strict}
    BY <1>3 DEF Policy!FamilyRules, FamilySet, Policy!StrictRules
  <2>2. r \in RuleType
    BY <1>0, NamesAre, RuleTyped
  <2>3. c.strict \in BOOLEAN
    BY PolicyOptionsAre
  <2> HIDE DEF r
  <2> QED BY <2>1, <2>2, <2>3, WhenOne
<1>4. CASE ~c.markMode /\ f \in c.families
  <2> DEFINE s == Policy!BypassRules(c, f) \o Policy!ExcludeRules(c, f) \o Policy!InterfaceRules(c, f) \o Policy!AndroidRules(c, f)
             t == IF f = 4 THEN Policy!Inet4Rules(c) ELSE Policy!Inet6Rules(c)
             r == Policy!Nop(RuleStart + 10, f)
  <2>1. Policy!FamilyRules(c, f) = s \o t \o <<r>>
    BY <1>4 DEF Policy!FamilyRules, Policy!NopRules, Policy!NopPriority
  <2>2. FamilySet(c, f) = Guards(c, f) \cup (IF f = 4 THEN Lookups4(c) ELSE Lookups6(c)) \cup {r}
    BY <1>4 DEF FamilySet
  <2>3. s \in Seq(RuleType) /\ InList(s) = Guards(c, f)
    BY GuardsAre
  <2>4. t \in Seq(RuleType) /\ InList(t) = IF f = 4 THEN Lookups4(c) ELSE Lookups6(c)
    BY Lookups4Are, Lookups6Are
  <2>5. r \in RuleType
    BY <1>0, NamesAre, RuleTyped DEF Policy!Nop
  <2> HIDE DEF s, t, r
  <2> DEFINE u == <<r>>
  <2>6. u \in Seq(RuleType) /\ InList(u) = {r}
    BY <2>5, InListOne
  <2> HIDE DEF u
  <2>7. s \o t \o u \in Seq(RuleType) /\ InList(s \o t \o u) = InList(s) \cup InList(t) \cup InList(u)
    BY <2>3, <2>4, <2>6, InListConcat3
  <2>8. Policy!FamilyRules(c, f) = s \o t \o u
    BY <2>1 DEF u
  <2> QED BY <2>2, <2>3, <2>4, <2>6, <2>7, <2>8
<1> QED BY <1>1, <1>2, <1>3, <1>4

----------------------------------------
(* A packet on its way through the rules of its family *)
LEMMA FiresIs ==
  ASSUME NEW r, NEW p, NEW m
  PROVE  /\ r.by = "all" => (Policy!Fires(r, p, m) <=> r.family = p.family)
         /\ r.by = "mark" => (Policy!Fires(r, p, m) <=> r.family = p.family /\ m \cap r.is.mask = r.is.value)
         /\ r.by = "dst" => (Policy!Fires(r, p, m) <=> r.family = p.family /\ p.dst = r.is)
         /\ r.by = "exclude" => (Policy!Fires(r, p, m) <=> r.family = p.family /\ r.is \in p.excluded)
         /\ r.by = "iif" => (Policy!Fires(r, p, m) <=> r.family = p.family /\ p.iif = r.is)
         /\ r.by = "notlo" => (Policy!Fires(r, p, m) <=> r.family = p.family /\ p.iif # "lo")
         /\ r.by = "notdns" => (Policy!Fires(r, p, m) <=> r.family = p.family /\ ~p.dns)
         /\ r.by = "losrc" => (Policy!Fires(r, p, m) <=> r.family = p.family /\ p.iif = "lo" /\ p.src = r.is)
         /\ r.family # p.family => ~Policy!Fires(r, p, m)
  BY DEF Policy!Fires, Policy!Matches

LEMMA FindsIs ==
  ASSUME NEW r, NEW p
  PROVE  /\ r.action = "tun" => Policy!Finds(r, p) = IF p.dst # "outside" THEN "tun" ELSE "nothing"
         /\ r.action = "main" => Policy!Finds(r, p) = IF p.dst = "specific" THEN "main" ELSE "nothing"
         /\ r.action = "system" => Policy!Finds(r, p) = IF p.dst # "nowhere" THEN "main" ELSE "nothing"
         /\ r.action = "unreachable" => Policy!Finds(r, p) = "unreachable"
         /\ r.action = "nop" => Policy!Finds(r, p) = "nothing"
  BY DEF Policy!Finds, Policy!InMain

\* The rules of the kernel for a family, and what table main answers
SystemNop(f)  == Policy!Rule(0, f, "all", {}, "nop", 0)
SystemMain(f) == Policy!Rule(MainPref, f, "all", {}, "system", 0)
ByMain(p) == IF p.dst # "nowhere" THEN "main" ELSE "unreachable"

\* s holds, of family f, the rules F and those of the kernel
Holds(s, f, F) ==
  /\ s \in Seq(RuleType) /\ Ordered(s)
  /\ \A r \in InList(s) : r.family = f => r \in F \cup {SystemNop(f), SystemMain(f)}
  /\ F \cup {SystemNop(f), SystemMain(f)} \subseteq InList(s)

LEMMA FamilyStretch ==
  ASSUME NEW s, NEW f, NEW F, Holds(s, f, F), NEW p, NEW m, NEW g, IsWalk(s, p, m, g), p.family = f,
         NEW W, NEW q \in Nat, NEW e \in Nat, q <= e,
         \A r \in F \cup {SystemNop(f), SystemMain(f)} :
             q <= r.pref /\ r.pref < e /\ ~Passes(r, p, m) => EndsIn(r, p, W) \/ SendsTo(s, g, r, W),
         Leads(s, g, e, W)
         \/ \E r \in F \cup {SystemNop(f), SystemMain(f)} : q <= r.pref /\ r.pref < e /\ ~Passes(r, p, m)
  PROVE  Leads(s, g, q, W)
<1>0. s \in Seq(RuleType) /\ Ordered(s)
  BY DEF Holds
<1>1. \A r \in RuleType : r.pref \in Nat /\ r.to \in Nat
  BY DEF RuleType
<1>2. \A r \in InList(s) : q <= r.pref /\ r.pref < e /\ ~Passes(r, p, m) => EndsIn(r, p, W) \/ SendsTo(s, g, r, W)
  BY FiresIs DEF Passes, Holds
<1>3. Leads(s, g, e, W) \/ \E r \in InList(s) : q <= r.pref /\ r.pref < e /\ ~Passes(r, p, m)
  BY DEF Holds
<1> QED BY <1>0, <1>1, <1>2, <1>3, Stretch

LEMMA SystemIs ==
  ASSUME NEW f
  PROVE  /\ SystemNop(f).pref = 0 /\ SystemNop(f).family = f /\ SystemNop(f).by = "all" /\ SystemNop(f).action = "nop"
         /\ SystemMain(f).pref = MainPref /\ SystemMain(f).family = f /\ SystemMain(f).by = "all"
         /\ SystemMain(f).action = "system"
  BY RuleIs DEF SystemNop, SystemMain

\* Behind the rules of the tun the kernel decides by table main.
LEMMA MainLeads ==
  ASSUME Policy!PolicyAssumption, NEW s, NEW f, NEW F, Holds(s, f, F), NEW p, NEW m, NEW g, IsWalk(s, p, m, g), p.family = f,
         NEW q \in Nat, q <= MainPref, \A r \in F : r.pref < q \/ r.action = "nop",
         \A r \in InList(s) : r.pref <= MainPref
  PROVE  Leads(s, g, q, {ByMain(p)})
<1>0. MainPref \in Nat /\ MainPref + 1 \in Nat /\ q <= MainPref + 1 /\ MainPref < MainPref + 1
  BY DEF Policy!PolicyAssumption
<1>1. \A r \in F : q <= r.pref => Passes(r, p, m)
  <2>1. \A r \in F : r.pref \in Nat
    BY InListTyped, RuleFields DEF Holds
  <2> QED BY <2>1, FindsIs DEF Passes
<1>2. Passes(SystemNop(f), p, m)
  BY SystemIs, FindsIs DEF Passes
<1>3. CASE p.dst # "nowhere"
  <2>1. ~Passes(SystemMain(f), p, m) /\ EndsIn(SystemMain(f), p, {ByMain(p)})
    <3>1. Policy!Fires(SystemMain(f), p, m) /\ Policy!Finds(SystemMain(f), p) = "main" /\ ByMain(p) = "main"
      BY <1>3, SystemIs, FiresIs, FindsIs DEF ByMain
    <3> QED BY <3>1, SystemIs DEF Passes, EndsIn
  <2> QED BY <1>0, <1>1, <1>2, <2>1, SystemIs, FamilyStretch
<1>4. CASE p.dst = "nowhere"
  <2>1. Passes(SystemMain(f), p, m) /\ ByMain(p) = "unreachable"
    BY <1>4, SystemIs, FindsIs DEF Passes, ByMain
  <2>2. s \in Seq(RuleType) /\ \A r \in RuleType : r.pref \in Nat
    BY DEF Holds, RuleType
  <2>3. \A r \in InList(s) : r.pref < MainPref + 1
    BY <2>2, <1>0 DEF InList
  <2>4. Leads(s, g, MainPref + 1, {"unreachable"})
    BY <1>0, <2>2, <2>3, EndLeads
  <2> QED BY <1>0, <1>1, <1>2, <2>1, <2>4, FamilyStretch
<1> QED BY <1>3, <1>4

\* A guard is a nop or jumps to the nop behind the lookups, but for the one that jumps over its neighbour.
LEMMA GuardsLie ==
  ASSUME Policy!PolicyAssumption, NEW c \in Policy!OptionsType, NEW f \in {4, 6}, NEW r \in Guards(c, f)
  PROVE  /\ r.family = f /\ r.pref \in Nat /\ RuleStart <= r.pref /\ r.pref < Policy!AfterAndroid(c)
         /\ r.action = "nop" \/ (r.action = "goto" /\ r.to = RuleStart + 10) \/ (c.interface = "include" /\ r = ListedRule(c, f))
<1>0. RuleStart \in Nat /\ Policy!Inc(c.dnat) \in {0, 1}
  BY DEF Policy!PolicyAssumption, Policy!Inc
<1> DEFINE a1 == Policy!AfterBypass(c)
           a2 == Policy!AfterExclude(c)
           a3 == Policy!AfterInterface(c)
           a4 == Policy!AfterAndroid(c)
<1>1. /\ a1 \in Nat /\ a2 \in Nat /\ a3 \in Nat /\ a4 \in Nat
      /\ RuleStart <= a1 /\ (c.ipvs => RuleStart + Policy!Inc(c.dnat) < a1) /\ (c.dnat => RuleStart < a1)
      /\ a1 <= a2 /\ (c.exclude # {} => a1 < a2)
      /\ a2 <= a3 /\ (c.interface = "include" => a3 = a2 + 3) /\ (c.interface = "exclude" => a3 = a2 + 1)
      /\ a3 <= a4 /\ (c.android /\ c.vpn # "off" => a3 < a4)
  BY Budget
<1> HIDE DEF a1, a2, a3, a4
<1>2. CASE c.dnat /\ r = DNATRule(c, f)
  <2>1. r.family = f /\ r.pref = RuleStart /\ r.action = "goto" /\ r.to = RuleStart + 10
    BY <1>2, RuleIs DEF DNATRule, Policy!Goto
  <2>2. RuleStart < a4
    BY <1>0, <1>1, <1>2
  <2> QED BY <1>0, <2>1, <2>2 DEF a4
<1>3. CASE c.ipvs /\ r = IPVSRule(c, f)
  <2>1. r.family = f /\ r.pref = RuleStart + Policy!Inc(c.dnat) /\ r.action = "goto" /\ r.to = RuleStart + 10
    BY <1>3, RuleIs DEF IPVSRule, Policy!Goto
  <2>2. RuleStart + Policy!Inc(c.dnat) < a4 /\ RuleStart + Policy!Inc(c.dnat) \in Nat /\ RuleStart <= RuleStart + Policy!Inc(c.dnat)
    BY <1>0, <1>1, <1>3
  <2> QED BY <1>0, <2>1, <2>2 DEF a4
<1>4. ASSUME NEW x \in c.exclude, r = ExcludeRule(c, f, x)
      PROVE  r.family = f /\ r.pref = a1 /\ r.action = "goto" /\ r.to = RuleStart + 10 /\ a1 < a4
  BY <1>4, <1>1, RuleIs DEF ExcludeRule, Policy!Goto, a1
<1>5. CASE c.interface = "include" /\ r = ListedRule(c, f)
  <2>1. r.family = f /\ r.pref = a2
    BY <1>5, RuleIs DEF ListedRule, Policy!Goto, a2
  <2>2. a2 \in Nat /\ RuleStart <= a2 /\ a2 < a4
    BY <1>0, <1>1, <1>5
  <2> QED BY <1>5, <2>1, <2>2 DEF a4
<1>6. CASE c.interface = "include" /\ r = UnlistedRule(c, f)
  <2>1. r.family = f /\ r.pref = a2 + 1 /\ r.action = "goto" /\ r.to = RuleStart + 10
    BY <1>6, RuleIs DEF UnlistedRule, Policy!Goto, a2
  <2>2. a2 + 1 \in Nat /\ RuleStart <= a2 + 1 /\ a2 + 1 < a4
    BY <1>0, <1>1, <1>6
  <2> QED BY <2>1, <2>2 DEF a4
<1>7. CASE c.interface = "include" /\ r = LandingRule(c, f)
  <2>1. r.family = f /\ r.pref = a2 + 2 /\ r.action = "nop"
    BY <1>7, RuleIs DEF LandingRule, Policy!Nop, a2
  <2>2. a2 + 2 \in Nat /\ RuleStart <= a2 + 2 /\ a2 + 2 < a4
    BY <1>0, <1>1, <1>7
  <2> QED BY <2>1, <2>2 DEF a4
<1>8. CASE c.interface = "exclude" /\ r = NotListedRule(c, f)
  <2>1. r.family = f /\ r.pref = a2 /\ r.action = "goto" /\ r.to = RuleStart + 10
    BY <1>8, RuleIs DEF NotListedRule, Policy!Goto, a2
  <2>2. a2 \in Nat /\ RuleStart <= a2 /\ a2 < a4
    BY <1>0, <1>1, <1>8
  <2> QED BY <2>1, <2>2 DEF a4
<1>9. CASE c.android /\ c.vpn # "off" /\ r = VPNRule(c, f)
  <2>1. r.family = f /\ r.pref = a3 /\ r.action = "goto" /\ r.to = RuleStart + 10
    BY <1>9, RuleIs DEF VPNRule, Policy!Goto, a3
  <2>2. a3 \in Nat /\ RuleStart <= a3 /\ a3 < a4
    BY <1>0, <1>1, <1>9
  <2> QED BY <2>1, <2>2 DEF a4
<1>10. CASE \E x \in c.exclude : r = ExcludeRule(c, f, x)
  BY <1>0, <1>1, <1>4, <1>10 DEF a4
<1> QED BY <1>2, <1>3, <1>5, <1>6, <1>7, <1>8, <1>9, <1>10 DEF Guards

\* The mark of a packet after the prerouting chain: the bypass mark, or the one it had.
LEMMA MarkIs ==
  ASSUME Policy!PolicyAssumption, NEW c \in Policy!OptionsType, NEW p \in Policy!PacketType
  PROVE  /\ ~c.markMode /\ c.dnat /\ p.dnat /\ p.iif # "lo" =>
                 Policy!MarkDNAT(c, p) \cap Policy!BypassMask(c) = Policy!BypassMark(c)
         /\ ~(c.dnat /\ p.dnat /\ p.iif # "lo") => Policy!MarkDNAT(c, p) = p.mark
         /\ c.markMode /\ p.mark = c.input => Policy!MarkDNAT(c, p) = p.mark
         /\ p.mark = c.output => Policy!MarkDNAT(c, p) = p.mark
  BY DEF Policy!BypassMark, Policy!Xor, Policy!MarkDNAT

\* What is kept away fires a guard that jumps over the lookups, and nothing jumps over that guard.
LEMMA KeptFires ==
  ASSUME Policy!PolicyAssumption, NEW c \in Policy!OptionsType, NEW f \in {4, 6}, NEW p \in Policy!PacketType,
         p.family = f, ~c.markMode, Policy!KeptAway(c, p)
  PROVE  \E r \in Guards(c, f) :
           /\ r.action = "goto" /\ r.to = RuleStart + 10 /\ Policy!Fires(r, p, Policy!MarkDNAT(c, p))
           /\ c.interface = "include" /\ p.iif = "listed" =>
                 r.pref < Policy!AfterExclude(c) \/ Policy!AfterExclude(c) + 2 <= r.pref
<1>0. RuleStart \in Nat /\ Policy!Inc(c.dnat) \in {0, 1}
  BY DEF Policy!PolicyAssumption, Policy!Inc
<1> DEFINE a1 == Policy!AfterBypass(c)
           a2 == Policy!AfterExclude(c)
           a3 == Policy!AfterInterface(c)
           m == Policy!MarkDNAT(c, p)
<1>1. /\ a1 \in Nat /\ a2 \in Nat /\ a3 \in Nat
      /\ RuleStart <= a1 /\ (c.ipvs => RuleStart + Policy!Inc(c.dnat) < a1) /\ (c.dnat => RuleStart < a1)
      /\ a1 <= a2 /\ (c.exclude # {} => a1 < a2)
      /\ a2 <= a3 /\ (c.interface = "include" => a3 = a2 + 3)
  BY Budget
<1> HIDE DEF a1, a2, a3, m
<1>2. CASE c.dnat /\ (Policy!BypassMark(c) = m \cap Policy!BypassMask(c) \/ (p.dnat /\ p.iif # "lo"))
  <2> DEFINE r == DNATRule(c, f)
  <2>1. r.family = f /\ r.pref = RuleStart /\ r.action = "goto" /\ r.to = RuleStart + 10 /\ r.by = "mark"
        /\ r.is.mask = Policy!BypassMask(c) /\ r.is.value = Policy!BypassMark(c)
    BY RuleIs DEF DNATRule, Policy!Goto
  <2>2. r \in Guards(c, f)
    BY <1>2 DEF Guards
  <2>3. m \cap Policy!BypassMask(c) = Policy!BypassMark(c)
    BY <1>2, MarkIs DEF m
  <2> HIDE DEF r
  <2>4. Policy!Fires(r, p, m)
    BY <2>1, <2>3, FiresIs
  <2>5. r.pref < a2
    BY <1>0, <1>1, <1>2, <2>1
  <2> QED BY <2>1, <2>2, <2>4, <2>5 DEF a2, m
<1>3. CASE c.ipvs /\ p.dst = "ipvs"
  <2> DEFINE r == IPVSRule(c, f)
  <2>1. r.family = f /\ r.pref = RuleStart + Policy!Inc(c.dnat) /\ r.action = "goto" /\ r.to = RuleStart + 10
        /\ r.by = "dst" /\ r.is = "ipvs"
    BY RuleIs DEF IPVSRule, Policy!Goto
  <2>2. r \in Guards(c, f)
    BY <1>3 DEF Guards
  <2> HIDE DEF r
  <2>3. Policy!Fires(r, p, m)
    BY <1>3, <2>1, FiresIs
  <2>4. r.pref < a2
    BY <1>0, <1>1, <1>3, <2>1
  <2> QED BY <2>1, <2>2, <2>3, <2>4 DEF a2, m
<1>4. CASE p.excluded \cap c.exclude # {}
  <2>0. PICK x \in c.exclude : x \in p.excluded
    BY <1>4
  <2> DEFINE r == ExcludeRule(c, f, x)
  <2>1. r.family = f /\ r.pref = a1 /\ r.action = "goto" /\ r.to = RuleStart + 10
        /\ r.by = "exclude" /\ r.is = x
    BY RuleIs DEF ExcludeRule, Policy!Goto, a1
  <2>2. r \in Guards(c, f)
    BY <2>0 DEF Guards
  <2> HIDE DEF r
  <2>3. Policy!Fires(r, p, m)
    BY <2>0, <2>1, FiresIs
  <2>4. r.pref < a2
    BY <1>1, <2>0, <2>1
  <2> QED BY <2>1, <2>2, <2>3, <2>4 DEF a2, m
<1>5. CASE c.interface = "include" /\ p.iif # "listed"
  <2> DEFINE r == UnlistedRule(c, f)
  <2>1. r.family = f /\ r.action = "goto" /\ r.to = RuleStart + 10 /\ r.by = "all"
    BY RuleIs DEF UnlistedRule, Policy!Goto
  <2>2. r \in Guards(c, f)
    BY <1>5 DEF Guards
  <2> HIDE DEF r
  <2>3. Policy!Fires(r, p, m)
    BY <2>1, FiresIs
  <2> QED BY <1>5, <2>1, <2>2, <2>3 DEF m
<1>6. CASE c.interface = "exclude" /\ p.iif = "listed"
  <2> DEFINE r == NotListedRule(c, f)
  <2>1. r.family = f /\ r.action = "goto" /\ r.to = RuleStart + 10 /\ r.by = "iif" /\ r.is = "listed"
    BY RuleIs DEF NotListedRule, Policy!Goto
  <2>2. r \in Guards(c, f)
    BY <1>6 DEF Guards
  <2> HIDE DEF r
  <2>3. Policy!Fires(r, p, m)
    BY <1>6, <2>1, FiresIs
  <2> QED BY <1>6, <2>1, <2>2, <2>3 DEF m
<1>7. CASE /\ ~(c.dnat /\ p.dnat /\ p.iif # "lo") /\ c.android
           /\ \/ c.vpn = "override" /\ p.mark \cap VPNMark = VPNMark
              \/ c.vpn = "follow" /\ p.mark \cap VPNMark = {}
  <2> DEFINE r == VPNRule(c, f)
  <2>1. r.family = f /\ r.pref = a3 /\ r.action = "goto" /\ r.to = RuleStart + 10 /\ r.by = "mark"
        /\ r.is.mask = VPNMark /\ r.is.value = IF c.vpn = "override" THEN VPNMark ELSE {}
    <3> DEFINE v == IF c.vpn = "override" THEN VPNMark ELSE {}
    <3>1. r = Policy!Rule(a3, f, "mark", [value |-> v, mask |-> VPNMark], "goto", RuleStart + 10)
      BY DEF VPNRule, Policy!Goto, a3
    <3> HIDE DEF v, r
    <3>2. r.family = f /\ r.pref = a3 /\ r.action = "goto" /\ r.to = RuleStart + 10 /\ r.by = "mark"
          /\ r.is = [value |-> v, mask |-> VPNMark]
      BY <3>1, RuleIs
    <3> QED BY <3>2 DEF v
  <2>2. r \in Guards(c, f)
    BY <1>7 DEF Guards
  <2>3. m = p.mark
    BY <1>7, MarkIs DEF m
  <2> HIDE DEF r
  <2>4. Policy!Fires(r, p, m)
    BY <1>7, <2>1, <2>3, FiresIs
  <2>5. c.interface = "include" => a2 + 2 <= r.pref
    BY <1>1, <2>1
  <2> QED BY <2>1, <2>2, <2>4, <2>5 DEF a2, m
<1> QED BY <1>2, <1>3, <1>4, <1>5, <1>6, <1>7 DEF Policy!KeptAway, m

\* What nothing keeps away passes the guards, but for the two of the listed interfaces.
LEMMA OthersPass ==
  ASSUME Policy!PolicyAssumption, NEW c \in Policy!OptionsType, NEW f \in {4, 6}, NEW p \in Policy!PacketType,
         p.family = f, ~c.markMode, ~Policy!KeptAway(c, p), NEW r \in Guards(c, f)
  PROVE  \/ Passes(r, p, Policy!MarkDNAT(c, p))
         \/ c.interface = "include" /\ p.iif = "listed" /\ (r = ListedRule(c, f) \/ r = UnlistedRule(c, f))
<1> DEFINE m == Policy!MarkDNAT(c, p)
<1>0. /\ ~(c.dnat /\ (Policy!BypassMark(c) = m \cap Policy!BypassMask(c) \/ (p.dnat /\ p.iif # "lo")))
      /\ ~(c.ipvs /\ p.dst = "ipvs") /\ p.excluded \cap c.exclude = {}
      /\ ~(c.interface = "include" /\ p.iif # "listed") /\ ~(c.interface = "exclude" /\ p.iif = "listed")
      /\ ~(c.android /\ c.vpn = "override" /\ p.mark \cap VPNMark = VPNMark)
      /\ ~(c.android /\ c.vpn = "follow" /\ p.mark \cap VPNMark = {})
  BY DEF Policy!KeptAway
<1>1. m = p.mark
  BY <1>0, MarkIs
<1> HIDE DEF m
<1>2. CASE c.dnat /\ r = DNATRule(c, f)
  <2>1. r.by = "mark" /\ r.is.mask = Policy!BypassMask(c) /\ r.is.value = Policy!BypassMark(c)
    BY <1>2, RuleIs DEF DNATRule, Policy!Goto
  <2> QED BY <1>0, <1>2, <2>1, FiresIs DEF Passes, m
<1>3. CASE c.ipvs /\ r = IPVSRule(c, f)
  <2>1. r.by = "dst" /\ r.is = "ipvs"
    BY <1>3, RuleIs DEF IPVSRule, Policy!Goto
  <2> QED BY <1>0, <1>3, <2>1, FiresIs DEF Passes, m
<1>4. CASE \E x \in c.exclude : r = ExcludeRule(c, f, x)
  <2>0. PICK x \in c.exclude : r = ExcludeRule(c, f, x)
    BY <1>4
  <2>1. r.by = "exclude" /\ r.is = x
    BY <2>0, RuleIs DEF ExcludeRule, Policy!Goto
  <2> QED BY <1>0, <2>1, FiresIs DEF Passes, m
<1>5. CASE c.interface = "include" /\ (r = ListedRule(c, f) \/ r = UnlistedRule(c, f))
  BY <1>0, <1>5
<1>6. CASE c.interface = "include" /\ r = LandingRule(c, f)
  <2>1. r.action = "nop"
    BY <1>6, RuleIs DEF LandingRule, Policy!Nop
  <2> QED BY <2>1, FindsIs DEF Passes, m
<1>7. CASE c.interface = "exclude" /\ r = NotListedRule(c, f)
  <2>1. r.by = "iif" /\ r.is = "listed"
    BY <1>7, RuleIs DEF NotListedRule, Policy!Goto
  <2> QED BY <1>0, <1>7, <2>1, FiresIs DEF Passes, m
<1>8. CASE c.android /\ c.vpn # "off" /\ r = VPNRule(c, f)
  <2>1. r.by = "mark" /\ r.is.mask = VPNMark /\ r.is.value = IF c.vpn = "override" THEN VPNMark ELSE {}
    BY <1>8, RuleIs DEF VPNRule, Policy!Goto
  <2>2. c.vpn \in {"off", "follow", "override"}
    BY PolicyOptionsAre
  <2> QED BY <1>0, <1>1, <1>8, <2>1, <2>2, FiresIs DEF Passes, m
<1> QED BY <1>2, <1>3, <1>4, <1>5, <1>6, <1>7, <1>8 DEF Guards

\* What the lookups of a family make of a packet nothing keeps away
ByLookups(c, p) ==
  IF ~c.android /\ ~p.dns /\ p.dst = "specific" THEN "main" ELSE IF p.dst # "outside" THEN "tun" ELSE ByMain(p)

LookupsOf(c, f) == IF f = 4 THEN Lookups4(c) ELSE Lookups6(c)

\* The rules that may end the way of a packet that is not from the device itself, and the one that keeps the tun's from it
LEMMA LookupsLie ==
  ASSUME Policy!PolicyAssumption, NEW c \in Policy!OptionsType, NEW f \in {4, 6}, NEW r \in LookupsOf(c, f)
  PROVE  /\ r.family = f /\ r.pref \in Nat /\ Policy!AfterAndroid(c) <= r.pref /\ r.pref < RuleStart + 10
         /\ \/ r.action = "tun" /\ r.by = "dst" /\ r.is = "tun" /\ r.pref = Policy!AfterAndroid(c) /\ ~c.android /\ f = 4
            \/ /\ r.action = "main" /\ r.by = "notdns" /\ ~c.android
               /\ r.pref = IF f = 4 THEN Policy!AfterAndroid(c) + 1 ELSE Policy!AfterAndroid(c)
            \/ /\ r.action = "goto" /\ r.by = "iif" /\ r.is = "tun" /\ r.to = RuleStart + 10
               /\ r.pref = IF f = 4 THEN Policy!AfterAndroid(c) + Policy!Inc(~c.android) ELSE Policy!AfterAndroid(c) + 1
            \/ r.action = "goto" /\ r.by = "losrc" /\ r.to = RuleStart + 10
            \/ r.action = "tun" /\ r.by = "losrc"
            \/ /\ r.action = "tun" /\ r.by \in {"notlo", "all"}
               /\ r.pref = IF f = 4 THEN Policy!AfterAndroid(c) + Policy!Inc(~c.android) + 1 ELSE Policy!AfterAndroid(c) + 2
<1> DEFINE q == Policy!AfterAndroid(c)
           n == Policy!Inc(~c.android)
           p == q + n
<1>0. /\ RuleStart \in Nat /\ q \in Nat /\ n \in {0, 1} /\ (c.android => n = 0) /\ (~c.android => n = 1)
      /\ (c.android => q < RuleStart + 8) /\ (~c.android => q < RuleStart + 7) /\ c.android \in BOOLEAN
  BY Budget, PolicyOptionsAre DEF Policy!PolicyAssumption, Policy!Inc
<1>1. CASE f = 4
  <2>0. r \in {x \in {Policy!Lookup(q, 4, "dst", "tun")} : ~c.android}
              \cup {x \in {Policy!Rule(p, 4, "notdns", {}, "main", 0)} : ~c.android}
              \cup {Policy!Goto(p, 4, "iif", "tun", RuleStart + 10), Policy!Lookup(p + 1, 4, "notlo", {}),
                    Policy!Lookup(p + 1, 4, "losrc", "unspecified"), Policy!Lookup(p + 1, 4, "losrc", "tun")}
    BY <1>1 DEF LookupsOf, Lookups4
  <2> HIDE DEF q, n
  <2>1. CASE ~c.android /\ r = Policy!Lookup(q, 4, "dst", "tun")
    BY <2>1, <1>0, <1>1, RuleIs DEF Policy!Lookup, q
  <2>2. CASE ~c.android /\ r = Policy!Rule(p, 4, "notdns", {}, "main", 0)
    BY <2>2, <1>0, <1>1, RuleIs DEF q
  <2>3. CASE r = Policy!Goto(p, 4, "iif", "tun", RuleStart + 10)
    <3>1. r.family = 4 /\ r.pref = p /\ r.by = "iif" /\ r.action = "goto" /\ r.is = "tun" /\ r.to = RuleStart + 10
      BY <2>3, RuleIs DEF Policy!Goto
    <3>2. p \in Nat /\ q <= p /\ p < RuleStart + 10
      BY <1>0
    <3> QED BY <1>1, <3>1, <3>2 DEF q, n
  <2>4. CASE r = Policy!Lookup(p + 1, 4, "notlo", {})
    <3>1. r.family = 4 /\ r.pref = p + 1 /\ r.by = "notlo" /\ r.action = "tun"
      BY <2>4, RuleIs DEF Policy!Lookup
    <3>2. p + 1 \in Nat /\ q <= p + 1 /\ p + 1 < RuleStart + 10
      BY <1>0
    <3> QED BY <1>1, <3>1, <3>2 DEF q, n
  <2>5. CASE r = Policy!Lookup(p + 1, 4, "losrc", "unspecified") \/ r = Policy!Lookup(p + 1, 4, "losrc", "tun")
    BY <2>5, <1>0, <1>1, RuleIs DEF Policy!Lookup, q
  <2> QED BY <2>0, <2>1, <2>2, <2>3, <2>4, <2>5
<1>2. CASE f = 6
  <2>0. r \in {x \in {Policy!Rule(q, 6, "notdns", {}, "main", 0)} : ~c.android}
              \cup {Policy!Lookup(q, 6, "losrc", "tun"), Policy!Goto(q + 1, 6, "iif", "tun", RuleStart + 10),
                    Policy!Goto(q + 1, 6, "losrc", "low", RuleStart + 10), Policy!Goto(q + 1, 6, "losrc", "high", RuleStart + 10),
                    Policy!Lookup(q + 2, 6, "all", {})}
    BY <1>2 DEF LookupsOf, Lookups6
  <2> HIDE DEF q, n
  <2>a. f # 4
    BY <1>2
  <2>1. CASE ~c.android /\ r = Policy!Rule(q, 6, "notdns", {}, "main", 0)
    BY <2>1, <1>0, <1>2, <2>a, RuleIs DEF q
  <2>2. CASE r = Policy!Lookup(q, 6, "losrc", "tun")
    BY <2>2, <1>0, <1>2, RuleIs DEF Policy!Lookup, q
  <2>3. CASE r = Policy!Goto(q + 1, 6, "iif", "tun", RuleStart + 10)
    <3>1. r.family = 6 /\ r.pref = q + 1 /\ r.by = "iif" /\ r.action = "goto" /\ r.is = "tun" /\ r.to = RuleStart + 10
      BY <2>3, RuleIs DEF Policy!Goto
    <3>2. q + 1 \in Nat /\ q <= q + 1 /\ q + 1 < RuleStart + 10
      BY <1>0
    <3> QED BY <1>2, <2>a, <3>1, <3>2 DEF q
  <2>4. CASE \/ r = Policy!Goto(q + 1, 6, "losrc", "low", RuleStart + 10)
             \/ r = Policy!Goto(q + 1, 6, "losrc", "high", RuleStart + 10)
    BY <2>4, <1>0, <1>2, RuleIs DEF Policy!Goto, q
  <2>5. CASE r = Policy!Lookup(q + 2, 6, "all", {})
    <3>1. r.family = 6 /\ r.pref = q + 2 /\ r.by = "all" /\ r.action = "tun"
      BY <2>5, RuleIs DEF Policy!Lookup
    <3>2. q + 2 \in Nat /\ q <= q + 2 /\ q + 2 < RuleStart + 10
      BY <1>0
    <3> QED BY <1>2, <2>a, <3>1, <3>2 DEF q
  <2> QED BY <2>0, <2>1, <2>2, <2>3, <2>4, <2>5
<1> QED BY <1>1, <1>2

\* s is the list for family f when the rules, not the firewall, decide
PlainRules(c, f) == Guards(c, f) \cup LookupsOf(c, f) \cup {Policy!Nop(RuleStart + 10, f)}
PlainList(s, c, f) ==
  ~c.markMode /\ Holds(s, f, PlainRules(c, f)) /\ \A r \in InList(s) : r.pref <= MainPref

LEMMA NopIs ==
  ASSUME NEW f, NEW a
  PROVE  Policy!Nop(a, f).pref = a /\ Policy!Nop(a, f).family = f /\ Policy!Nop(a, f).action = "nop"
  BY RuleIs DEF Policy!Nop

LEMMA NopLeads ==
  ASSUME Policy!PolicyAssumption, NEW c \in Policy!OptionsType, NEW f \in {4, 6}, NEW s, PlainList(s, c, f),
         NEW p, NEW m, NEW g, IsWalk(s, p, m, g), p.family = f
  PROVE  /\ Leads(s, g, RuleStart + 10, {ByMain(p)})
         /\ \A r \in InList(s) : r.action = "goto" /\ r.to = RuleStart + 10 /\ r.pref < RuleStart + 10 =>
                                     SendsTo(s, g, r, {ByMain(p)})
<1>0. RuleStart + 10 \in Nat /\ RuleStart + 10 <= MainPref /\ RuleStart \in Nat
  BY DEF Policy!PolicyAssumption
<1>1. \A r \in PlainRules(c, f) : r.pref < RuleStart + 10 \/ r.action = "nop"
  <2>1. \A r \in Guards(c, f) : r.pref < RuleStart + 10
    <3>1. Policy!AfterAndroid(c) \in Nat /\ Policy!AfterAndroid(c) < RuleStart + 10
      BY <1>0, Budget
    <3>2. \A r \in Guards(c, f) : r.pref \in Nat /\ r.pref < Policy!AfterAndroid(c)
      BY GuardsLie
    <3> QED BY <1>0, <3>1, <3>2
  <2>2. \A r \in LookupsOf(c, f) : r.pref < RuleStart + 10
    BY LookupsLie
  <2> QED BY <2>1, <2>2, NopIs DEF PlainRules
<1>2. Leads(s, g, RuleStart + 10, {ByMain(p)})
  BY <1>0, <1>1, MainLeads DEF PlainList
<1>3. \E r \in InList(s) : r.pref = RuleStart + 10
  BY NopIs DEF PlainList, Holds, PlainRules
<1> QED BY <1>2, <1>3 DEF SendsTo

\* The rules before the lookups, as a part of the list
LEMMA BeforeLookups ==
  ASSUME Policy!PolicyAssumption, NEW c \in Policy!OptionsType, NEW f \in {4, 6}, NEW s, PlainList(s, c, f),
         NEW p, NEW m, NEW r \in PlainRules(c, f) \cup {SystemNop(f), SystemMain(f)}, r.pref < Policy!AfterAndroid(c)
  PROVE  r \in Guards(c, f) \/ Passes(r, p, m)
<1>0. /\ RuleStart + 10 \in Nat /\ RuleStart + 10 <= MainPref /\ RuleStart \in Nat /\ MainPref \in Nat
      /\ Policy!AfterAndroid(c) \in Nat /\ Policy!AfterAndroid(c) < RuleStart + 10
  BY Budget DEF Policy!PolicyAssumption
<1>1. CASE r \in LookupsOf(c, f)
  BY <1>1, <1>0, LookupsLie
<1>2. CASE r = Policy!Nop(RuleStart + 10, f)
  <2>1. r.action = "nop"
    BY <1>2, NopIs
  <2> QED BY <2>1, FindsIs DEF Passes
<1>3. CASE r = SystemNop(f)
  BY <1>3, SystemIs, FindsIs DEF Passes
<1>4. CASE r = SystemMain(f)
  BY <1>0, <1>4, SystemIs
<1> QED BY <1>1, <1>2, <1>3, <1>4 DEF PlainRules

\* What an option keeps away is left to table main.
LEMMA KeptLeads ==
  ASSUME Policy!PolicyAssumption, NEW c \in Policy!OptionsType, NEW f \in {4, 6}, NEW s, PlainList(s, c, f),
         NEW p \in Policy!PacketType, NEW g, IsWalk(s, p, Policy!MarkDNAT(c, p), g), p.family = f, Policy!KeptAway(c, p)
  PROVE  Leads(s, g, 0, {ByMain(p)})
<1> DEFINE m == Policy!MarkDNAT(c, p)
           W == {ByMain(p)}
           a2 == Policy!AfterExclude(c)
           a4 == Policy!AfterAndroid(c)
           L == PlainRules(c, f) \cup {SystemNop(f), SystemMain(f)}
<1>0. ~c.markMode /\ Holds(s, f, PlainRules(c, f)) /\ Guards(c, f) \subseteq L /\ L \subseteq InList(s)
  BY DEF PlainList, Holds, PlainRules
<1>1. PICK x \in Guards(c, f) :
        /\ x.action = "goto" /\ x.to = RuleStart + 10 /\ Policy!Fires(x, p, m)
        /\ c.interface = "include" /\ p.iif = "listed" => x.pref < a2 \/ a2 + 2 <= x.pref
  BY <1>0, KeptFires
<1>2. /\ a2 \in Nat /\ a4 \in Nat /\ RuleStart \in Nat /\ a4 < RuleStart + 10
      /\ (c.interface = "include" => a2 + 3 <= a4)
  BY Budget DEF Policy!PolicyAssumption
<1>3. x.pref \in Nat /\ x.pref < a4 /\ ~Passes(x, p, m)
  BY <1>1, GuardsLie DEF Passes
<1> HIDE DEF a2, a4, m, L
<1> DEFINE e == x.pref + 1
<1>4. e \in Nat /\ e <= a4 /\ x.pref < e /\ \A n \in Nat : n < e <=> n <= x.pref
  BY <1>2, <1>3
<1> HIDE DEF e
<1>5. ASSUME NEW r \in L, r.pref < e, ~Passes(r, p, m)
      PROVE  SendsTo(s, g, r, W) \/ (c.interface = "include" /\ r = ListedRule(c, f) /\ p.iif = "listed")
  <2>0. r \in InList(s)
    BY <1>0, <1>5
  <2>1. r.pref \in Nat
    <3>1. s \in Seq(RuleType)
      BY <1>0 DEF Holds
    <3> QED BY <2>0, <3>1, InListTyped, RuleFields
  <2>2. r.pref < a4
    BY <1>2, <1>4, <1>5, <2>1
  <2>3. r \in Guards(c, f)
    BY <1>5, <2>2, BeforeLookups DEF L, a4
  <2>4. r.action # "nop"
    BY <1>5, FindsIs DEF Passes
  <2>5. CASE r.action = "goto" /\ r.to = RuleStart + 10
    <3>1. r.pref < RuleStart + 10
      BY <1>2, <2>1, <2>2
    <3> QED BY <2>0, <2>5, <3>1, NopLeads
  <2>6. CASE c.interface = "include" /\ r = ListedRule(c, f)
    <3>1. r.by = "iif" /\ r.is = "listed"
      BY <2>6, RuleIs DEF ListedRule, Policy!Goto
    <3>2. p.iif = "listed"
      BY <1>5, <3>1, FiresIs DEF Passes
    <3> QED BY <2>6, <3>2
  <2> QED BY <2>3, <2>4, <2>5, <2>6, GuardsLie
<1>6. x \in L /\ ListedRule(c, f).pref = a2 /\ ListedRule(c, f).action = "goto" /\ ListedRule(c, f).to = a2 + 2
  BY <1>0, RuleIs DEF ListedRule, Policy!Goto, a2
<1>7. \A r \in L : 0 <= r.pref
  BY <1>0, InListTyped, RuleFields DEF Holds
<1>8. CASE ~(c.interface = "include" /\ p.iif = "listed" /\ a2 + 2 <= x.pref)
  <2>1. ASSUME NEW r \in L, r.pref < e, ~Passes(r, p, m) PROVE SendsTo(s, g, r, W)
    <3> SUFFICES ASSUME c.interface = "include", r = ListedRule(c, f), p.iif = "listed" PROVE FALSE
      BY <1>5, <2>1
    <3>1. x.pref < a2 /\ a2 < e
      BY <1>1, <1>6, <1>8, <2>1
    <3> QED BY <1>2, <1>3, <1>4, <3>1
  <2>2. x \in L /\ 0 <= x.pref /\ x.pref < e /\ ~Passes(x, p, m)
    BY <1>3, <1>4, <1>6, <1>7
  <2>3. 0 \in Nat /\ 0 <= e
    BY <1>4
  <2> HIDE DEF W
  <2> QED BY <1>0, <1>4, <2>1, <2>2, <2>3, FamilyStretch DEF L, m, W
<1>9. CASE c.interface = "include" /\ p.iif = "listed" /\ a2 + 2 <= x.pref
  <2>0. a2 + 2 \in Nat /\ a2 + 2 <= e /\ 0 \in Nat /\ 0 <= e /\ a2 < a2 + 2
    BY <1>2, <1>3, <1>4, <1>9
  <2>1. ASSUME NEW r \in L, a2 + 2 <= r.pref, r.pref < e, ~Passes(r, p, m) PROVE SendsTo(s, g, r, W)
    <3>1. r # ListedRule(c, f)
      BY <1>2, <1>6, <2>1
    <3> QED BY <1>5, <2>1, <3>1
  <2>2. x \in L /\ a2 + 2 <= x.pref /\ 0 <= x.pref /\ x.pref < e /\ ~Passes(x, p, m)
    BY <1>3, <1>4, <1>6, <1>7, <1>9
  <2> HIDE DEF W
  <2>3. Leads(s, g, a2 + 2, W)
    BY <1>0, <1>4, <2>0, <2>1, <2>2, FamilyStretch DEF L, m
  <2>4. LandingRule(c, f) \in InList(s) /\ LandingRule(c, f).pref = a2 + 2
    BY <1>9, <1>0, NopIs DEF Guards, LandingRule, a2
  <2>5. SendsTo(s, g, ListedRule(c, f), W)
    BY <1>6, <2>0, <2>3, <2>4 DEF SendsTo
  <2>6. \A r \in L : r.pref < e /\ ~Passes(r, p, m) => SendsTo(s, g, r, W)
    BY <1>5, <2>5
  <2> QED BY <1>0, <1>4, <2>0, <2>2, <2>6, FamilyStretch DEF L, m, W
<1> QED BY <1>8, <1>9

\* What nothing keeps away comes to the lookups.
LEMMA OthersLead ==
  ASSUME Policy!PolicyAssumption, NEW c \in Policy!OptionsType, NEW f \in {4, 6}, NEW s, PlainList(s, c, f),
         NEW p \in Policy!PacketType, NEW g, IsWalk(s, p, Policy!MarkDNAT(c, p), g), p.family = f, ~Policy!KeptAway(c, p),
         NEW W, Leads(s, g, Policy!AfterAndroid(c), W)
  PROVE  Leads(s, g, 0, W)
<1> DEFINE m == Policy!MarkDNAT(c, p)
           a2 == Policy!AfterExclude(c)
           a4 == Policy!AfterAndroid(c)
           L == PlainRules(c, f) \cup {SystemNop(f), SystemMain(f)}
<1>0. ~c.markMode /\ Holds(s, f, PlainRules(c, f)) /\ Guards(c, f) \subseteq L /\ L \subseteq InList(s)
  BY DEF PlainList, Holds, PlainRules
<1>1. /\ a2 \in Nat /\ a4 \in Nat /\ (c.interface = "include" => a2 + 3 <= a4)
  BY Budget
<1>2. \A r \in L : r.pref \in Nat /\ 0 <= r.pref
  BY <1>0, InListTyped, RuleFields DEF Holds
<1>3. ASSUME NEW r \in L, r.pref < a4, ~Passes(r, p, m)
      PROVE  c.interface = "include" /\ p.iif = "listed" /\ (r = ListedRule(c, f) \/ r = UnlistedRule(c, f))
  <2>1. r \in Guards(c, f)
    BY <1>3, BeforeLookups
  <2> QED BY <1>0, <1>3, <2>1, OthersPass
<1>4. Leads(s, g, a4, W) /\ IsWalk(s, p, m, g)
  OBVIOUS
<1>5. /\ ListedRule(c, f).pref = a2 /\ ListedRule(c, f).action = "goto" /\ ListedRule(c, f).to = a2 + 2
      /\ ListedRule(c, f).by = "iif" /\ ListedRule(c, f).is = "listed" /\ ListedRule(c, f).family = f
      /\ UnlistedRule(c, f).pref = a2 + 1
  BY RuleIs DEF ListedRule, UnlistedRule, Policy!Goto
<1> HIDE DEF L, m, a2, a4
<1>6. CASE c.interface # "include" \/ p.iif # "listed"
  <2>1. \A r \in L : r.pref < a4 => Passes(r, p, m)
    BY <1>3, <1>6
  <2>2. 0 \in Nat /\ 0 <= a4
    BY <1>1
  <2> QED BY <1>0, <1>1, <1>4, <2>1, <2>2, FamilyStretch DEF L
<1>7. CASE c.interface = "include" /\ p.iif = "listed"
  <2>0. a2 + 2 \in Nat /\ a2 + 2 <= a4 /\ a2 + 1 \in Nat /\ 0 \in Nat /\ 0 <= a2 + 1 /\ a2 < a2 + 1 /\ a2 < a2 + 2
        /\ a2 + 1 <= a4 /\ ~(a2 + 2 <= a2) /\ ~(a2 + 2 <= a2 + 1) /\ ~(a2 + 1 < a2 + 1)
    BY <1>1, <1>7
  <2>1. \A r \in L : a2 + 2 <= r.pref /\ r.pref < a4 => Passes(r, p, m)
    BY <1>3, <1>5, <2>0
  <2>2. Leads(s, g, a2 + 2, W)
    BY <1>0, <1>1, <1>4, <2>0, <2>1, FamilyStretch DEF L
  <2>3. LandingRule(c, f) \in InList(s) /\ LandingRule(c, f).pref = a2 + 2
    BY <1>7, <1>0, NopIs DEF Guards, LandingRule, a2
  <2>4. SendsTo(s, g, ListedRule(c, f), W)
    BY <1>5, <2>0, <2>2, <2>3 DEF SendsTo
  <2>5. ASSUME NEW r \in L, r.pref < a2 + 1, ~Passes(r, p, m) PROVE SendsTo(s, g, r, W)
    <3>1. r.pref < a4
      BY <1>1, <1>2, <2>0, <2>5
    <3>2. r # UnlistedRule(c, f)
      BY <1>5, <2>0, <2>5
    <3> QED BY <1>3, <2>4, <2>5, <3>1, <3>2
  <2>6. ListedRule(c, f) \in L /\ ~Passes(ListedRule(c, f), p, m) /\ ListedRule(c, f).pref < a2 + 1 /\ 0 <= ListedRule(c, f).pref
    <3>1. ListedRule(c, f) \in Guards(c, f)
      BY <1>7 DEF Guards
    <3>2. Policy!Fires(ListedRule(c, f), p, m)
      BY <1>5, <1>7, FiresIs
    <3>3. ListedRule(c, f) \in L
      BY <1>0, <3>1
    <3> QED BY <1>2, <1>5, <2>0, <3>2, <3>3 DEF Passes
  <2> QED BY <1>0, <1>4, <2>0, <2>5, <2>6, FamilyStretch DEF L
<1> QED BY <1>6, <1>7

\* The rules that are there: main, the one against the loop, and the last lookup
LEMMA LookupsThere ==
  ASSUME NEW c \in Policy!OptionsType, NEW f \in {4, 6}
  PROVE  /\ ~c.android => \E r \in LookupsOf(c, f) : r.action = "main" /\ r.by = "notdns"
         /\ \E r \in LookupsOf(c, f) : r.action = "goto" /\ r.by = "iif" /\ r.is = "tun"
         /\ \E r \in LookupsOf(c, f) : r.action = "tun" /\ r.by \in {"notlo", "all"}
<1> DEFINE q == Policy!AfterAndroid(c)
           p == q + Policy!Inc(~c.android)
<1>1. CASE f = 4
  <2>1. Policy!Goto(p, 4, "iif", "tun", RuleStart + 10) \in LookupsOf(c, f) /\ Policy!Lookup(p + 1, 4, "notlo", {}) \in LookupsOf(c, f)
        /\ (~c.android => Policy!Rule(p, 4, "notdns", {}, "main", 0) \in LookupsOf(c, f))
    BY <1>1 DEF LookupsOf, Lookups4
  <2>2. Policy!Goto(p, 4, "iif", "tun", RuleStart + 10).action = "goto" /\ Policy!Goto(p, 4, "iif", "tun", RuleStart + 10).by = "iif"
        /\ Policy!Goto(p, 4, "iif", "tun", RuleStart + 10).is = "tun"
    BY RuleIs DEF Policy!Goto
  <2>3. Policy!Lookup(p + 1, 4, "notlo", {}).action = "tun" /\ Policy!Lookup(p + 1, 4, "notlo", {}).by = "notlo"
    BY RuleIs DEF Policy!Lookup
  <2>4. Policy!Rule(p, 4, "notdns", {}, "main", 0).action = "main" /\ Policy!Rule(p, 4, "notdns", {}, "main", 0).by = "notdns"
    BY RuleIs
  <2> HIDE DEF p
  <2> QED BY <2>1, <2>2, <2>3, <2>4
<1>2. CASE f = 6
  <2>1. Policy!Goto(q + 1, 6, "iif", "tun", RuleStart + 10) \in LookupsOf(c, f) /\ Policy!Lookup(q + 2, 6, "all", {}) \in LookupsOf(c, f)
        /\ (~c.android => Policy!Rule(q, 6, "notdns", {}, "main", 0) \in LookupsOf(c, f))
    BY <1>2 DEF LookupsOf, Lookups6
  <2>2. Policy!Goto(q + 1, 6, "iif", "tun", RuleStart + 10).action = "goto" /\ Policy!Goto(q + 1, 6, "iif", "tun", RuleStart + 10).by = "iif"
        /\ Policy!Goto(q + 1, 6, "iif", "tun", RuleStart + 10).is = "tun"
    BY RuleIs DEF Policy!Goto
  <2>3. Policy!Lookup(q + 2, 6, "all", {}).action = "tun" /\ Policy!Lookup(q + 2, 6, "all", {}).by = "all"
    BY RuleIs DEF Policy!Lookup
  <2>4. Policy!Rule(q, 6, "notdns", {}, "main", 0).action = "main" /\ Policy!Rule(q, 6, "notdns", {}, "main", 0).by = "notdns"
    BY RuleIs
  <2> HIDE DEF q
  <2> QED BY <2>1, <2>2, <2>3, <2>4
<1> QED BY <1>1, <1>2

\* From the lookups on: the rules between them and the nop
LEMMA AmongLookups ==
  ASSUME Policy!PolicyAssumption, NEW c \in Policy!OptionsType, NEW f \in {4, 6},
         NEW r \in PlainRules(c, f) \cup {SystemNop(f), SystemMain(f)}, Policy!AfterAndroid(c) <= r.pref, r.pref < RuleStart + 10
  PROVE  r \in LookupsOf(c, f)
<1>0. /\ RuleStart \in Nat /\ RuleStart > 0 /\ RuleStart + 10 <= MainPref /\ MainPref \in Nat
      /\ Policy!AfterAndroid(c) \in Nat /\ RuleStart <= Policy!AfterAndroid(c)
  BY Budget DEF Policy!PolicyAssumption
<1>1. CASE r \in Guards(c, f)
  BY <1>1, <1>0, GuardsLie
<1>2. CASE r = Policy!Nop(RuleStart + 10, f)
  <2>1. r.pref = RuleStart + 10
    BY <1>2, NopIs
  <2> QED BY <1>0, <2>1
<1>3. CASE r = SystemNop(f)
  <2>1. r.pref = 0
    BY <1>3, SystemIs
  <2> QED BY <1>0, <2>1
<1>4. CASE r = SystemMain(f)
  <2>1. r.pref = MainPref
    BY <1>4, SystemIs
  <2> QED BY <1>0, <2>1
<1> QED BY <1>1, <1>2, <1>3, <1>4 DEF PlainRules

LEMMA LookupPlaces ==
  ASSUME Policy!PolicyAssumption, NEW c \in Policy!OptionsType
  PROVE  /\ Policy!AfterAndroid(c) \in Nat /\ Policy!Inc(~c.android) \in {0, 1} /\ (~c.android => Policy!Inc(~c.android) = 1)
         /\ RuleStart \in Nat /\ RuleStart + 10 \in Nat /\ Policy!AfterAndroid(c) + 2 < RuleStart + 10
  BY Budget DEF Policy!Inc, Policy!PolicyAssumption

\* A forwarded packet
LEMMA ForwardLeads ==
  ASSUME Policy!PolicyAssumption, NEW c \in Policy!OptionsType, NEW f \in {4, 6}, NEW s, PlainList(s, c, f),
         NEW p \in Policy!PacketType, NEW m, NEW g, IsWalk(s, p, m, g), p.family = f, p.iif \notin {"lo", "tun"}
  PROVE  Leads(s, g, Policy!AfterAndroid(c), {ByLookups(c, p)})
<1> DEFINE a4 == Policy!AfterAndroid(c)
           n == Policy!Inc(~c.android)
           L == PlainRules(c, f) \cup {SystemNop(f), SystemMain(f)}
           V == ByLookups(c, p)
<1>0. /\ a4 \in Nat /\ n \in {0, 1} /\ (~c.android => n = 1) /\ RuleStart \in Nat /\ RuleStart + 10 \in Nat
      /\ a4 + 2 < RuleStart + 10
  BY LookupPlaces
<1>1. Holds(s, f, PlainRules(c, f)) /\ LookupsOf(c, f) \subseteq L
  BY DEF PlainList, PlainRules
<1>2. ASSUME NEW r \in LookupsOf(c, f), ~Passes(r, p, m)
      PROVE  /\ Policy!Fires(r, p, m) /\ r.family = f /\ r.pref \in Nat
             /\ \/ r.action = "tun" /\ p.dst = "tun" /\ ~c.android
                \/ r.action = "main" /\ ~c.android /\ ~p.dns /\ p.dst = "specific"
                \/ r.action = "tun" /\ r.pref = IF f = 4 THEN a4 + n + 1 ELSE a4 + 2
  BY <1>2, FiresIs, FindsIs, LookupsLie DEF Passes
<1> HIDE DEF a4, n, L, V
<1>3. ASSUME NEW e \in Nat, a4 <= e, \A r \in L : a4 <= r.pref /\ r.pref < e /\ ~Passes(r, p, m) => EndsIn(r, p, {V}),
             Leads(s, g, e, {V}) \/ \E r \in L : a4 <= r.pref /\ r.pref < e /\ ~Passes(r, p, m)
      PROVE  Leads(s, g, Policy!AfterAndroid(c), {ByLookups(c, p)})
  <2>1. Leads(s, g, a4, {V})
    BY <1>0, <1>1, <1>3, FamilyStretch DEF L
  <2> QED BY <2>1 DEF a4, V
<1>4. CASE ~c.android /\ ~p.dns /\ p.dst = "specific"
  <2>0. V = "main"
    BY <1>4 DEF V, ByLookups
  <2>1. PICK x \in LookupsOf(c, f) : x.action = "main" /\ x.by = "notdns"
    BY <1>4, LookupsThere
  <2>2. x.family = f /\ x.pref = IF f = 4 THEN a4 + 1 ELSE a4
    BY <2>1, LookupsLie DEF a4
  <2>3. Policy!Fires(x, p, m) /\ Policy!Finds(x, p) = "main"
    BY <1>4, <2>1, <2>2, FiresIs, FindsIs
  <2> DEFINE e == x.pref + 1
  <2>4. x.pref \in Nat /\ e \in Nat /\ a4 <= x.pref /\ x.pref < e /\ a4 <= e /\ e <= RuleStart + 10
        /\ ~((IF f = 4 THEN a4 + n + 1 ELSE a4 + 2) < e)
    BY <1>0, <1>4, <2>2
  <2> HIDE DEF e
  <2>5. ASSUME NEW r \in L, a4 <= r.pref, r.pref < e, ~Passes(r, p, m) PROVE EndsIn(r, p, {V})
    <3>0. r.pref \in Nat
      BY <1>1, InListTyped, RuleFields DEF Holds, L
    <3>1. r \in LookupsOf(c, f)
      <4>1. r.pref < RuleStart + 10
        BY <1>0, <2>4, <2>5, <3>0
      <4> QED BY <2>5, <4>1, AmongLookups DEF L, a4
    <3>2. r.action = "main"
      BY <1>2, <1>4, <2>4, <2>5, <3>1
    <3>3. Policy!Finds(r, p) = "main"
      BY <1>4, <3>2, FindsIs
    <3> QED BY <2>0, <3>2, <3>3 DEF EndsIn
  <2>6. x \in L /\ ~Passes(x, p, m)
    BY <1>1, <2>1, <2>3 DEF Passes
  <2> QED BY <1>3, <2>4, <2>5, <2>6
<1>5. CASE ~(~c.android /\ ~p.dns /\ p.dst = "specific")
  <2>1. ASSUME NEW r \in L, a4 <= r.pref, r.pref < RuleStart + 10, ~Passes(r, p, m)
        PROVE  r \in LookupsOf(c, f) /\ r.action = "tun" /\ p.dst # "outside"
    <3>1. r \in LookupsOf(c, f)
      BY <2>1, AmongLookups DEF L, a4
    <3>2. r.action = "tun"
      BY <1>2, <1>5, <2>1, <3>1
    <3>3. Policy!Finds(r, p) # "nothing"
      BY <2>1, <3>2 DEF Passes
    <3> QED BY <3>1, <3>2, <3>3, FindsIs
  <2>2. a4 <= RuleStart + 10
    BY <1>0
  <2>3. CASE p.dst # "outside"
    <3>0. V = "tun"
      BY <1>5, <2>3 DEF V, ByLookups
    <3>1. \A r \in L : a4 <= r.pref /\ r.pref < RuleStart + 10 /\ ~Passes(r, p, m) => EndsIn(r, p, {V})
      BY <2>1, <3>0, FindsIs DEF EndsIn
    <3>2. PICK x \in LookupsOf(c, f) : x.action = "tun" /\ x.by \in {"notlo", "all"}
      BY LookupsThere
    <3>3. x.family = f /\ a4 <= x.pref /\ x.pref < RuleStart + 10
      BY <3>2, LookupsLie DEF a4
    <3>4. Policy!Fires(x, p, m) /\ Policy!Finds(x, p) = "tun"
      BY <2>3, <3>2, <3>3, FiresIs, FindsIs
    <3>5. x \in L /\ ~Passes(x, p, m)
      BY <1>1, <3>2, <3>4 DEF Passes
    <3> QED BY <1>0, <1>3, <2>2, <3>1, <3>3, <3>5
  <2>4. CASE p.dst = "outside"
    <3>0. V = ByMain(p)
      BY <1>5, <2>4 DEF V, ByLookups
    <3>1. \A r \in L : a4 <= r.pref /\ r.pref < RuleStart + 10 => Passes(r, p, m)
      BY <2>1, <2>4
    <3>2. Leads(s, g, RuleStart + 10, {V})
      BY <3>0, NopLeads
    <3> QED BY <1>0, <1>3, <2>2, <3>1, <3>2
  <2> QED BY <2>3, <2>4
<1> QED BY <1>4, <1>5

\* A packet of the stack, that comes in from the tun
LEMMA TunLeads ==
  ASSUME Policy!PolicyAssumption, NEW c \in Policy!OptionsType, NEW f \in {4, 6}, NEW s, PlainList(s, c, f),
         NEW p \in Policy!PacketType, NEW m, NEW g, IsWalk(s, p, m, g), p.family = f, p.iif = "tun", p.dst # "tun"
  PROVE  Leads(s, g, Policy!AfterAndroid(c), {ByMain(p)})
<1> DEFINE a4 == Policy!AfterAndroid(c)
           n == Policy!Inc(~c.android)
           L == PlainRules(c, f) \cup {SystemNop(f), SystemMain(f)}
           W == {ByMain(p)}
<1>0. /\ a4 \in Nat /\ n \in {0, 1} /\ RuleStart \in Nat /\ RuleStart + 10 \in Nat /\ a4 + 2 < RuleStart + 10
  BY LookupPlaces
<1>1. Holds(s, f, PlainRules(c, f)) /\ LookupsOf(c, f) \subseteq L /\ L \subseteq InList(s)
  BY DEF PlainList, PlainRules, Holds
<1>2. PICK x \in LookupsOf(c, f) : x.action = "goto" /\ x.by = "iif" /\ x.is = "tun"
  BY LookupsThere
<1>3. x.family = f /\ x.pref = IF f = 4 THEN a4 + n ELSE a4 + 1
  BY <1>2, LookupsLie
<1>4. Policy!Fires(x, p, m)
  BY <1>2, <1>3, FiresIs
<1> DEFINE e == x.pref + 1
<1> HIDE DEF a4, n, L
<1>5. x.pref \in Nat /\ e \in Nat /\ a4 <= x.pref /\ x.pref < e /\ a4 <= e /\ e <= RuleStart + 10
      /\ ~((IF f = 4 THEN a4 + n + 1 ELSE a4 + 2) < e)
  BY <1>0, <1>3
<1> HIDE DEF e, W
<1>6. ASSUME NEW r \in L, a4 <= r.pref, r.pref < e, ~Passes(r, p, m) PROVE EndsIn(r, p, W) \/ SendsTo(s, g, r, W)
  <2>0. r.pref \in Nat
    BY <1>1, InListTyped, RuleFields DEF Holds
  <2>1. r.pref < RuleStart + 10
    BY <1>0, <1>5, <1>6, <2>0
  <2>2. r \in LookupsOf(c, f)
    BY <1>6, <2>1, AmongLookups DEF L, a4
  <2>3. Policy!Fires(r, p, m) /\ (r.action = "goto" \/ Policy!Finds(r, p) # "nothing")
    BY <1>6 DEF Passes
  <2>4. r.by # "losrc" /\ ~(r.by = "dst" /\ r.is = "tun")
    BY <2>3, FiresIs
  <2>5. r.action = "main" \/ (r.action = "goto" /\ r.to = RuleStart + 10)
    BY <1>5, <1>6, <2>2, <2>4, LookupsLie DEF a4, n
  <2>6. CASE r.action = "main"
    BY <2>3, <2>6, FindsIs DEF ByMain, EndsIn, W
  <2>7. CASE r.action = "goto" /\ r.to = RuleStart + 10
    BY <1>1, <1>6, <2>1, <2>7, NopLeads DEF W
  <2> QED BY <2>5, <2>6, <2>7
<1>7. x \in L /\ ~Passes(x, p, m)
  BY <1>1, <1>2, <1>4 DEF Passes
<1>8. Leads(s, g, a4, W)
  BY <1>0, <1>1, <1>5, <1>6, <1>7, FamilyStretch DEF L
<1> QED BY <1>8 DEF a4, W

\* What the list makes of a packet when the rules decide
LEMMA PlainVerdict ==
  ASSUME Policy!PolicyAssumption, NEW c \in Policy!OptionsType, NEW f \in {4, 6}, NEW s, PlainList(s, c, f),
         NEW p \in Policy!PacketType, p.family = f
  PROVE  LET v == Policy!Verdict(s, p, Policy!MarkDNAT(c, p))
         IN  /\ Policy!KeptAway(c, p) => v = ByMain(p)
             /\ ~Policy!KeptAway(c, p) /\ p.iif \notin {"lo", "tun"} => v = ByLookups(c, p)
             /\ ~Policy!KeptAway(c, p) /\ p.iif = "tun" /\ p.dst # "tun" => v = ByMain(p)
<1> DEFINE m == Policy!MarkDNAT(c, p)
           v == Policy!Verdict(s, p, m)
<1>1. s \in Seq(RuleType) /\ \A r \in RuleType : r.pref \in Nat
  BY RuleFields DEF PlainList, Holds
<1>2. PICK g : IsWalk(s, p, m, g) /\ v = g[1]
  BY <1>1, VerdictIs
<1>3. \A W : Leads(s, g, 0, W) => v \in W
  BY <1>1, <1>2, StartLeads
<1>4. Policy!KeptAway(c, p) => v = ByMain(p)
  BY <1>2, <1>3, KeptLeads
<1>5. ASSUME ~Policy!KeptAway(c, p), p.iif \notin {"lo", "tun"} PROVE v = ByLookups(c, p)
  BY <1>2, <1>5, <1>3, ForwardLeads, OthersLead
<1>6. ASSUME ~Policy!KeptAway(c, p), p.iif = "tun", p.dst # "tun" PROVE v = ByMain(p)
  BY <1>2, <1>6, <1>3, TunLeads, OthersLead
<1> QED BY <1>4, <1>5, <1>6

\* What the mark makes of a packet under auto-redirect
BypassFires(c, m) == IF c.dnat THEN m \cap Policy!BypassMask(c) = Policy!BypassMark(c) ELSE m \cap MarkBits = c.output
ByMark(c, p, m) ==
  IF ~BypassFires(c, m) /\ m \cap MarkBits = c.input /\ p.dst # "outside" THEN "tun"
  ELSE IF p.dst # "nowhere" THEN "main" ELSE "tun"

LEMMA MarkVerdict ==
  ASSUME Policy!PolicyAssumption, NEW c \in Policy!OptionsType, NEW f \in {4, 6}, NEW s, Holds(s, f, MarkSet(c, f)),
         NEW p \in Policy!PacketType, p.family = f, NEW m
  PROVE  Policy!Verdict(s, p, m) = ByMark(c, p, m)
<1> DEFINE is == IF c.dnat THEN [value |-> Policy!BypassMark(c), mask |-> Policy!BypassMask(c)]
                           ELSE [value |-> c.output, mask |-> MarkBits]
           r1 == Policy!Goto(RuleStart, f, "mark", is, RuleStart + 2)
           r2 == Policy!Lookup(RuleStart + 1, f, "mark", [value |-> c.input, mask |-> MarkBits])
           r3 == Policy!Nop(RuleStart + 2, f)
           r4 == Policy!Lookup(FallbackPref, f, "all", {})
           L == MarkSet(c, f) \cup {SystemNop(f), SystemMain(f)}
           V == ByMark(c, p, m)
           W == {IF p.dst # "nowhere" THEN "main" ELSE "tun"}
<1>0. /\ RuleStart \in Nat /\ RuleStart > 0 /\ MainPref \in Nat /\ FallbackPref \in Nat
      /\ RuleStart + 10 < MainPref /\ MainPref < FallbackPref
  BY DEF Policy!PolicyAssumption
<1>1. L = {r1, r2, r3, r4, SystemNop(f), SystemMain(f)}
  BY DEF MarkSet
<1>2. r1.pref = RuleStart /\ r1.family = f /\ r1.by = "mark" /\ r1.is = is /\ r1.action = "goto" /\ r1.to = RuleStart + 2
  <2> HIDE DEF is
  <2> QED BY RuleIs DEF Policy!Goto
<1>3. r2.pref = RuleStart + 1 /\ r2.family = f /\ r2.by = "mark" /\ r2.action = "tun"
      /\ r2.is.value = c.input /\ r2.is.mask = MarkBits
  BY RuleIs DEF Policy!Lookup
<1>4. r3.pref = RuleStart + 2 /\ r3.action = "nop"
  BY NopIs
<1>5. r4.pref = FallbackPref /\ r4.family = f /\ r4.by = "all" /\ r4.action = "tun"
  BY RuleIs DEF Policy!Lookup
<1>6. SystemNop(f).pref = 0 /\ SystemNop(f).action = "nop"
      /\ SystemMain(f).pref = MainPref /\ SystemMain(f).family = f /\ SystemMain(f).by = "all" /\ SystemMain(f).action = "system"
  BY SystemIs
<1>7. is.value = (IF c.dnat THEN Policy!BypassMark(c) ELSE c.output) /\ is.mask = (IF c.dnat THEN Policy!BypassMask(c) ELSE MarkBits)
  OBVIOUS
<1>8. Policy!Fires(r1, p, m) <=> BypassFires(c, m)
  <2> HIDE DEF is, r1
  <2> QED BY <1>2, <1>7, FiresIs DEF BypassFires
<1> HIDE DEF is, r1, r2, r3, r4
<1>9. Policy!Fires(r2, p, m) <=> m \cap MarkBits = c.input
  BY <1>3, FiresIs
<1>10. Policy!Fires(r4, p, m) /\ Policy!Fires(SystemMain(f), p, m)
  BY <1>5, <1>6, FiresIs
<1>11. Passes(r3, p, m) /\ Passes(SystemNop(f), p, m)
  BY <1>4, <1>6, FindsIs DEF Passes
<1>12. s \in Seq(RuleType) /\ Ordered(s) /\ L \subseteq InList(s) /\ \A r \in RuleType : r.pref \in Nat
  BY RuleFields DEF Holds
<1>13. PICK g : IsWalk(s, p, m, g) /\ Policy!Verdict(s, p, m) = g[1]
  BY <1>12, VerdictIs
<1>14. RuleStart + 2 \in Nat /\ MainPref + 1 \in Nat /\ FallbackPref + 1 \in Nat /\ 0 \in Nat /\ RuleStart + 1 \in Nat
  BY <1>0
<1> HIDE DEF L, W, V
<1>15. ASSUME NEW q \in Nat, NEW e \in Nat, q <= e, NEW U,
              \A r \in L : q <= r.pref /\ r.pref < e /\ ~Passes(r, p, m) => EndsIn(r, p, U) \/ SendsTo(s, g, r, U),
              Leads(s, g, e, U) \/ \E r \in L : q <= r.pref /\ r.pref < e /\ ~Passes(r, p, m)
       PROVE  Leads(s, g, q, U)
  BY <1>13, <1>15, FamilyStretch DEF L
<1>16. Leads(s, g, RuleStart + 2, W)
  <2>1. CASE p.dst # "nowhere"
    <3>1. ~Passes(SystemMain(f), p, m) /\ EndsIn(SystemMain(f), p, W)
      <4>1. Policy!Finds(SystemMain(f), p) = "main" /\ W = {"main"}
        BY <1>6, <2>1, FindsIs DEF W
      <4> QED BY <1>6, <1>10, <4>1 DEF Passes, EndsIn
    <3>2. \A r \in L : RuleStart + 2 <= r.pref /\ r.pref < MainPref + 1 /\ ~Passes(r, p, m) => EndsIn(r, p, W)
      <4>1. ~(RuleStart + 2 <= r1.pref) /\ ~(RuleStart + 2 <= r2.pref) /\ ~(r4.pref < MainPref + 1)
        BY <1>0, <1>2, <1>3, <1>5
      <4> QED BY <1>1, <1>11, <3>1, <4>1
    <3>3. SystemMain(f) \in L /\ RuleStart + 2 <= SystemMain(f).pref /\ SystemMain(f).pref < MainPref + 1 /\ RuleStart + 2 <= MainPref + 1
      BY <1>0, <1>1, <1>6
    <3> QED BY <1>14, <1>15, <3>1, <3>2, <3>3
  <2>2. CASE p.dst = "nowhere"
    <3>1. ~Passes(r4, p, m) /\ EndsIn(r4, p, W) /\ Passes(SystemMain(f), p, m)
      <4>1. Policy!Finds(r4, p) = "tun" /\ W = {"tun"} /\ Policy!Finds(SystemMain(f), p) = "nothing"
        BY <1>5, <1>6, <2>2, FindsIs DEF W
      <4> QED BY <1>5, <1>6, <1>10, <4>1 DEF Passes, EndsIn
    <3>2. \A r \in L : RuleStart + 2 <= r.pref /\ r.pref < FallbackPref + 1 /\ ~Passes(r, p, m) => EndsIn(r, p, W)
      BY <1>0, <1>2, <1>3, <1>1, <1>11, <3>1
    <3>3. r4 \in L /\ RuleStart + 2 <= r4.pref /\ r4.pref < FallbackPref + 1 /\ RuleStart + 2 <= FallbackPref + 1
      BY <1>0, <1>1, <1>5
    <3> QED BY <1>14, <1>15, <3>1, <3>2, <3>3
  <2> QED BY <2>1, <2>2
<1>17. r1 \in L /\ r2 \in L /\ r3 \in L
  BY <1>1
<1>18. Leads(s, g, 0, {V})
  <2>1. CASE BypassFires(c, m)
    <3>0. {V} = W
      BY <2>1 DEF V, W, ByMark
    <3>1. SendsTo(s, g, r1, W)
      <4>1. r1.pref < r1.to /\ r3.pref = r1.to /\ r3 \in InList(s)
        BY <1>0, <1>2, <1>4, <1>12, <1>17
      <4> QED BY <1>2, <1>16, <4>1 DEF SendsTo
    <3>2. ~Passes(r1, p, m)
      BY <1>2, <1>8, <2>1 DEF Passes
    <3>3. 0 <= r1.pref /\ r1.pref < RuleStart + 1 /\ ~(r2.pref < RuleStart + 1) /\ ~(r4.pref < RuleStart + 1)
          /\ ~(SystemMain(f).pref < RuleStart + 1) /\ 0 <= RuleStart + 1
      BY <1>0, <1>2, <1>3, <1>5, <1>6
    <3>4. \A r \in L : r.pref < RuleStart + 1 /\ ~Passes(r, p, m) => SendsTo(s, g, r, W)
      BY <1>1, <1>11, <3>1, <3>3
    <3> QED BY <1>14, <1>15, <1>17, <3>0, <3>2, <3>3, <3>4
  <2>2. CASE ~BypassFires(c, m)
    <3>1. Passes(r1, p, m)
      BY <1>8, <2>2 DEF Passes
    <3>2. 0 <= r2.pref /\ r2.pref < RuleStart + 2 /\ ~(r4.pref < RuleStart + 2) /\ ~(SystemMain(f).pref < RuleStart + 2) /\ 0 <= RuleStart + 2
      BY <1>0, <1>3, <1>5, <1>6
    <3>3. CASE m \cap MarkBits = c.input /\ p.dst # "outside"
      <4>1. V = "tun" /\ Policy!Finds(r2, p) = "tun"
        BY <1>3, <2>2, <3>3, FindsIs DEF V, ByMark
      <4>2. ~Passes(r2, p, m) /\ EndsIn(r2, p, {V})
        BY <1>3, <1>9, <3>3, <4>1 DEF Passes, EndsIn
      <4>3. \A r \in L : r.pref < RuleStart + 2 /\ ~Passes(r, p, m) => EndsIn(r, p, {V})
        BY <1>1, <1>11, <3>1, <3>2, <4>2
      <4> QED BY <1>14, <1>15, <1>17, <3>2, <4>2, <4>3
    <3>4. CASE ~(m \cap MarkBits = c.input /\ p.dst # "outside")
      <4>1. {V} = W
        BY <3>4 DEF V, W, ByMark
      <4>2. Passes(r2, p, m)
        BY <1>3, <1>9, <3>4, FindsIs DEF Passes
      <4>3. \A r \in L : r.pref < RuleStart + 2 => Passes(r, p, m)
        BY <1>1, <1>11, <3>1, <3>2, <4>2
      <4> QED BY <1>14, <1>15, <1>16, <3>2, <4>1, <4>3
    <3> QED BY <3>3, <3>4
  <2> QED BY <2>1, <2>2
<1>19. g[1] \in {V}
  BY <1>12, <1>18, StartLeads
<1> QED BY <1>13, <1>19 DEF V

\* The bypass mark, under its mask, is never the input mark, and always the output mark.
LEMMA MarksDiffer ==
  ASSUME Policy!PolicyAssumption, NEW c \in Policy!OptionsType, c.markMode, c.input # c.output
  PROVE  ~BypassFires(c, c.input) /\ BypassFires(c, c.output) /\ c.input \cap MarkBits = c.input
<1>0. c.input \subseteq MarkBits /\ c.output \subseteq MarkBits /\ MarkBits \subseteq Nat
  BY PolicyOptionsAre DEF Policy!PolicyAssumption
<1> DEFINE d == Policy!Xor(c.input, c.output)
           mask == IF c.output \cap BypassField = {} THEN c.output ELSE BypassField
<1>1. d # {} /\ d \subseteq Nat
  BY <1>0 DEF Policy!Xor
<1>2. Policy!LowestBit(d) # {} /\ Policy!LowestBit(d) \subseteq d
  <2>1. PICK x \in d : \A y \in d : x <= y
    BY <1>1, NatMin
  <2> QED BY <2>1 DEF Policy!LowestBit
<1>3. Policy!BypassMask(c) = IF d \cap mask = {} THEN mask \cup Policy!LowestBit(d) ELSE mask
  BY DEF Policy!BypassMask
<1> HIDE DEF mask
<1>4. d \cap Policy!BypassMask(c) # {}
  BY <1>2, <1>3
<1>5. c.input \cap Policy!BypassMask(c) # c.output \cap Policy!BypassMask(c)
  BY <1>4 DEF Policy!Xor
<1> QED BY <1>0, <1>5 DEF BypassFires, Policy!BypassMark

\* A family without an address
LEMMA OtherVerdict ==
  ASSUME Policy!PolicyAssumption, NEW c \in Policy!OptionsType, NEW f \in {4, 6}, NEW s, NEW b \in BOOLEAN,
         Holds(s, f, {x \in {Policy!Rule(RuleStart, f, "all", {}, "unreachable", 0)} : b}),
         \A r \in InList(s) : r.pref <= MainPref, NEW p, p.family = f, NEW m
  PROVE  /\ b => Policy!Verdict(s, p, m) = "unreachable"
         /\ Policy!Verdict(s, p, m) # "tun"
<1> DEFINE x == Policy!Rule(RuleStart, f, "all", {}, "unreachable", 0)
           F == {y \in {x} : b}
           L == F \cup {SystemNop(f), SystemMain(f)}
<1>0. s \in Seq(RuleType) /\ Holds(s, f, F) /\ \A r \in RuleType : r.pref \in Nat
  BY RuleFields DEF Holds
<1>1. PICK g : IsWalk(s, p, m, g) /\ Policy!Verdict(s, p, m) = g[1]
  BY <1>0, VerdictIs
<1>2. RuleStart \in Nat /\ RuleStart + 1 \in Nat /\ 0 \in Nat /\ 0 <= RuleStart + 1 /\ MainPref \in Nat /\ ~(MainPref < RuleStart + 1)
      /\ RuleStart < RuleStart + 1 /\ 0 <= RuleStart /\ 0 <= MainPref
  BY DEF Policy!PolicyAssumption
<1>3. x.pref = RuleStart /\ x.family = f /\ x.by = "all" /\ x.action = "unreachable"
  BY RuleIs
<1> HIDE DEF x
<1>4. CASE b
  <2>1. ~Passes(x, p, m) /\ EndsIn(x, p, {"unreachable"})
    BY <1>3, FiresIs, FindsIs DEF Passes, EndsIn
  <2>2. Passes(SystemNop(f), p, m)
    BY SystemIs, FindsIs DEF Passes
  <2>3. \A r \in L : r.pref < RuleStart + 1 /\ ~Passes(r, p, m) => EndsIn(r, p, {"unreachable"})
    BY <1>2, <2>1, <2>2, SystemIs
  <2>4. x \in L /\ 0 <= x.pref /\ x.pref < RuleStart + 1
    BY <1>2, <1>3, <1>4
  <2>5. Leads(s, g, 0, {"unreachable"})
    BY <1>0, <1>1, <1>2, <2>1, <2>3, <2>4, FamilyStretch
  <2>6. g[1] \in {"unreachable"}
    BY <1>0, <2>5, StartLeads
  <2> QED BY <1>1, <2>6
<1>5. CASE ~b
  <2>1. \A r \in F : r.pref < 0 \/ r.action = "nop"
    BY <1>5
  <2>2. Leads(s, g, 0, {ByMain(p)})
    BY <1>0, <1>1, <1>2, <2>1, MainLeads
  <2>3. g[1] \in {ByMain(p)}
    BY <1>0, <2>2, StartLeads
  <2> QED BY <1>1, <1>5, <2>3 DEF ByMain
<1> QED BY <1>4, <1>5

SystemSet == {SystemNop(4), SystemNop(6), SystemMain(4), SystemMain(6)}
Made(c) == IF c.families = {} THEN {} ELSE FamilySet(c, 4) \cup FamilySet(c, 6)
Installed(s, c) == s \in Seq(RuleType) /\ Ordered(s) /\ InList(s) = SystemSet \cup Made(c)

LEMMA FamilyLies ==
  ASSUME Policy!PolicyAssumption, NEW c \in Policy!OptionsType, NEW f \in {4, 6}, NEW r \in FamilySet(c, f)
  PROVE  /\ r \in RuleType /\ r.family = f
         /\ r.pref \in RuleStart .. RuleStart + 10 \/ (c.markMode /\ r.pref = FallbackPref)
<1>0. RuleStart \in Nat
  BY DEF Policy!PolicyAssumption
<1>1. r \in RuleType
  BY FamilyIs, InListTyped
<1>2. CASE c.markMode /\ f \in c.families
  <2>0. r \in MarkSet(c, f)
    BY <1>2 DEF FamilySet
  <2>1. r.family = f /\ r.pref \in {RuleStart, RuleStart + 1, RuleStart + 2, FallbackPref}
    BY <2>0, RuleIs DEF MarkSet, Policy!Goto, Policy!Lookup, Policy!Nop
  <2> QED BY <1>0, <1>1, <1>2, <2>1
<1>3. CASE c.markMode /\ f \notin c.families
  BY <1>3 DEF FamilySet
<1>4. CASE ~c.markMode /\ f \notin c.families
  BY <1>4, <1>0, <1>1, RuleIs DEF FamilySet
<1>5. CASE ~c.markMode /\ f \in c.families
  <2>0. r \in Guards(c, f) \cup LookupsOf(c, f) \cup {Policy!Nop(RuleStart + 10, f)}
    BY <1>5 DEF FamilySet, LookupsOf
  <2>1. /\ Policy!AfterAndroid(c) \in Nat /\ Policy!AfterAndroid(c) + 2 < RuleStart + 10 /\ RuleStart <= Policy!AfterAndroid(c)
    BY <1>0, Budget, LookupPlaces
  <2>2. CASE r \in Guards(c, f)
    BY <2>2, <1>0, <1>1, <2>1, GuardsLie
  <2>3. CASE r \in LookupsOf(c, f)
    BY <2>3, <1>0, <1>1, <2>1, LookupsLie
  <2>4. CASE r = Policy!Nop(RuleStart + 10, f)
    BY <2>4, <1>0, <1>1, NopIs
  <2> QED BY <2>0, <2>2, <2>3, <2>4
<1> QED BY <1>2, <1>3, <1>4, <1>5

LEMMA InstalledHolds ==
  ASSUME Policy!PolicyAssumption, NEW c \in Policy!OptionsType, NEW f \in {4, 6}, NEW s, Installed(s, c)
  PROVE  /\ Holds(s, f, IF c.families = {} THEN {} ELSE FamilySet(c, f))
         /\ ~c.markMode => \A r \in InList(s) : r.pref <= MainPref
<1>0. s \in Seq(RuleType) /\ Ordered(s) /\ InList(s) = SystemSet \cup Made(c)
  BY DEF Installed
<1>1. \A h \in {4, 6} : \A r \in FamilySet(c, h) :
         r.family = h /\ (r.pref \in RuleStart .. RuleStart + 10 \/ (c.markMode /\ r.pref = FallbackPref))
  BY FamilyLies
<1>2. \A h \in {4, 6} : SystemNop(h).family = h /\ SystemMain(h).family = h /\ SystemNop(h).pref = 0 /\ SystemMain(h).pref = MainPref
  BY SystemIs
<1>3. \A r \in InList(s) : r.family = f =>
         r \in (IF c.families = {} THEN {} ELSE FamilySet(c, f)) \cup {SystemNop(f), SystemMain(f)}
  BY <1>0, <1>1, <1>2 DEF SystemSet, Made
<1>4. (IF c.families = {} THEN {} ELSE FamilySet(c, f)) \cup {SystemNop(f), SystemMain(f)} \subseteq InList(s)
  BY <1>0 DEF SystemSet, Made
<1>5. ASSUME ~c.markMode, NEW r \in InList(s) PROVE r.pref <= MainPref
  <2>0. RuleStart \in Nat /\ MainPref \in Nat /\ RuleStart + 10 < MainPref
    BY DEF Policy!PolicyAssumption
  <2>1. CASE r \in SystemSet
    BY <1>2, <2>0, <2>1 DEF SystemSet
  <2>2. CASE r \in Made(c)
    BY <1>1, <1>5, <2>2, <2>0 DEF Made
  <2> QED BY <1>0, <1>5, <2>1, <2>2
<1> QED BY <1>0, <1>3, <1>4, <1>5 DEF Holds

\* With the rules of the configuration in the kernel, the packets go as they should.
LEMMA RulesDecide ==
  ASSUME Policy!PolicyAssumption, NEW c \in Policy!OptionsType, NEW s, Installed(s, c), NEW p \in Policy!PacketType, ~c.markMode
  PROVE  LET v == Policy!Verdict(s, p, Policy!MarkDNAT(c, p))
         IN  /\ p.family \in c.families /\ Policy!KeptAway(c, p) => v = ByMain(p)
             /\ p.family \in c.families /\ ~Policy!KeptAway(c, p) /\ p.iif \notin {"lo", "tun"} => v = ByLookups(c, p)
             /\ p.family \in c.families /\ ~Policy!KeptAway(c, p) /\ p.iif = "tun" /\ p.dst # "tun" => v = ByMain(p)
             /\ p.family \notin c.families => v # "tun"
             /\ p.family \notin c.families /\ c.families # {} /\ c.strict => v = "unreachable"
<1> DEFINE f == p.family
           v == Policy!Verdict(s, p, Policy!MarkDNAT(c, p))
<1>0. f \in {4, 6} /\ c.strict \in BOOLEAN
  BY PolicyOptionsAre DEF Policy!PacketType
<1>1. /\ Holds(s, f, IF c.families = {} THEN {} ELSE FamilySet(c, f))
      /\ \A r \in InList(s) : r.pref <= MainPref
  BY <1>0, InstalledHolds
<1>2. CASE f \in c.families
  <2>1. FamilySet(c, f) = PlainRules(c, f)
    BY <1>2 DEF FamilySet, PlainRules, LookupsOf
  <2>2. PlainList(s, c, f)
    BY <1>1, <1>2, <2>1 DEF PlainList
  <2> QED BY <1>0, <1>2, <2>2, PlainVerdict
<1>3. CASE f \notin c.families
  <2> DEFINE x == Policy!Rule(RuleStart, f, "all", {}, "unreachable", 0)
             b == c.strict /\ c.families # {}
  <2>1. (IF c.families = {} THEN {} ELSE FamilySet(c, f)) = {y \in {x} : b}
    BY <1>3 DEF FamilySet
  <2>2. b \in BOOLEAN
    OBVIOUS
  <2>3. Holds(s, f, {y \in {x} : b})
    BY <1>1, <2>1
  <2> HIDE DEF b
  <2>4. (b => v = "unreachable") /\ v # "tun"
    BY <1>0, <1>1, <2>2, <2>3, OtherVerdict
  <2> QED BY <1>3, <2>4 DEF b
<1> QED BY <1>2, <1>3

LEMMA FirewallDecides ==
  ASSUME Policy!PolicyAssumption, NEW c \in Policy!OptionsType, NEW s, Installed(s, c), NEW p \in Policy!PacketType, c.markMode,
         p.family \in c.families
  PROVE  Policy!Verdict(s, p, Policy!MarkDNAT(c, p)) = ByMark(c, p, Policy!MarkDNAT(c, p))
<1>0. p.family \in {4, 6}
  BY DEF Policy!PacketType
<1>1. FamilySet(c, p.family) = MarkSet(c, p.family) /\ c.families # {}
  BY DEF FamilySet
<1>2. Holds(s, p.family, MarkSet(c, p.family))
  BY <1>0, <1>1, InstalledHolds
<1> QED BY <1>0, <1>2, MarkVerdict

\* Nothing that decides looks at the family.
LEMMA FamilyBlind ==
  ASSUME NEW c, NEW p \in Policy!PacketType
  PROVE  LET p6 == [p EXCEPT !.family = 6]
         IN  /\ p6 \in Policy!PacketType /\ p6.family = 6 /\ p6.iif = p.iif /\ p6.dst = p.dst
             /\ Policy!MarkDNAT(c, p6) = Policy!MarkDNAT(c, p)
             /\ Policy!KeptAway(c, p6) <=> Policy!KeptAway(c, p)
             /\ ByMain(p6) = ByMain(p) /\ ByLookups(c, p6) = ByLookups(c, p)
             /\ \A m : ByMark(c, p6, m) = ByMark(c, p, m)
<1> DEFINE p6 == [p EXCEPT !.family = 6]
<1>1. /\ p6 \in Policy!PacketType /\ p6.family = 6 /\ p6.iif = p.iif /\ p6.dst = p.dst /\ p6.excluded = p.excluded
      /\ p6.mark = p.mark /\ p6.dns = p.dns /\ p6.dnat = p.dnat
  BY DEF Policy!PacketType
<1> HIDE DEF p6
<1>2. Policy!MarkDNAT(c, p6) = Policy!MarkDNAT(c, p)
  BY <1>1 DEF Policy!MarkDNAT
<1>3. Policy!KeptAway(c, p6) <=> Policy!KeptAway(c, p)
  BY <1>1, <1>2 DEF Policy!KeptAway
<1>4. ByMain(p6) = ByMain(p)
  BY <1>1 DEF ByMain
<1>5. ByLookups(c, p6) = ByLookups(c, p) /\ \A m : ByMark(c, p6, m) = ByMark(c, p, m)
  BY <1>1, <1>4 DEF ByLookups, ByMark
<1> QED BY <1>1, <1>2, <1>3, <1>4, <1>5 DEF p6

LEMMA ReadyShows ==
  ASSUME Policy!PolicyAssumption, options \in Policy!OptionsType, options.input # options.output,
         Policy!Ready => Installed(kernel, options)
  PROVE  /\ Policy!KeptAwayNeverTunnelled /\ Policy!OthersTunnelled /\ Policy!NoLoop
         /\ Policy!MarkDecides /\ Policy!FamiliesAgree /\ Policy!StrictUnreachable
<1>0. RulePackets \subseteq Policy!PacketType
  BY DEF Policy!PolicyAssumption
<1> DEFINE c == options
           s == kernel
<1>1. \A p : Policy!Routed(p) = Policy!Verdict(s, p, Policy!MarkDNAT(c, p))
  BY DEF Policy!Routed
<1>a. c \in Policy!OptionsType /\ c.input # c.output
  OBVIOUS
<1> HIDE DEF c, s
<1>2. ASSUME Policy!Ready, ~c.markMode, NEW p \in Policy!PacketType
      PROVE  /\ Policy!KeptAway(c, p) => Policy!Routed(p) # "tun"
             /\ p.iif = "tun" /\ p.dst # "tun" => Policy!Routed(p) # "tun"
             /\ p.family \notin c.families /\ c.families # {} /\ c.strict => Policy!Routed(p) = "unreachable"
             /\ p.family \in c.families /\ ~Policy!KeptAway(c, p) /\ p.iif \notin {"lo", "tun"} => Policy!Routed(p) = ByLookups(c, p)
             /\ p.family \in c.families /\ Policy!KeptAway(c, p) => Policy!Routed(p) = ByMain(p)
             /\ p.family \in c.families /\ ~Policy!KeptAway(c, p) /\ p.iif = "tun" /\ p.dst # "tun" => Policy!Routed(p) = ByMain(p)
  <2>1. Installed(s, c)
    BY <1>2 DEF c, s
  <2>2. ByMain(p) # "tun"
    BY DEF ByMain
  <2> QED BY <1>1, <1>a, <1>2, <2>1, <2>2, RulesDecide
<1>3. Policy!KeptAwayNeverTunnelled
  BY <1>0, <1>2 DEF Policy!KeptAwayNeverTunnelled, c
<1>4. Policy!NoLoop
  BY <1>0, <1>2 DEF Policy!NoLoop, c
<1>5. Policy!StrictUnreachable
  BY <1>0, <1>2 DEF Policy!StrictUnreachable, c
<1>6. Policy!OthersTunnelled
  <2> SUFFICES ASSUME Policy!Ready, ~c.markMode, NEW p \in RulePackets, p.family \in c.families, p.iif \notin {"lo", "tun"},
                      ~Policy!KeptAway(c, p), p.dst # "outside", p.dst = "specific" => p.dns \/ c.android
               PROVE  Policy!Routed(p) = "tun"
    BY DEF Policy!OthersTunnelled, c
  <2>1. ByLookups(c, p) = "tun"
    BY DEF ByLookups
  <2> QED BY <1>0, <1>2, <2>1
<1>7. ASSUME Policy!Ready, c.markMode, NEW p \in Policy!PacketType, p.family \in c.families
      PROVE  Policy!Routed(p) = ByMark(c, p, Policy!MarkDNAT(c, p))
  <2>1. Installed(s, c)
    BY <1>7 DEF c, s
  <2> QED BY <1>1, <1>a, <1>7, <2>1, FirewallDecides
<1>8. Policy!MarkDecides
  <2> SUFFICES ASSUME Policy!Ready, c.markMode, NEW p \in RulePackets, p.family \in c.families
               PROVE  /\ p.mark = c.input /\ p.dst # "outside" => Policy!Routed(p) = "tun"
                      /\ p.mark = c.output /\ Policy!Routed(p) = "tun" => p.dst = "nowhere"
    BY DEF Policy!MarkDecides, c
  <2>1. p \in Policy!PacketType
    BY <1>0
  <2>2. p.mark = c.input => Policy!MarkDNAT(c, p) = c.input
    BY <1>a, <2>1, MarkIs
  <2>3. p.mark = c.output => Policy!MarkDNAT(c, p) = c.output
    BY <1>a, <2>1, MarkIs
  <2>4. ~BypassFires(c, c.input) /\ BypassFires(c, c.output) /\ c.input \cap MarkBits = c.input
    BY <1>a, MarksDiffer
  <2>5. ASSUME p.mark = c.input, p.dst # "outside" PROVE Policy!Routed(p) = "tun"
    BY <2>4, <2>5, <1>7, <2>1, <2>2 DEF ByMark
  <2>6. ASSUME p.mark = c.output, Policy!Routed(p) = "tun" PROVE p.dst = "nowhere"
    BY <2>4, <1>7, <2>1, <2>3, <2>6 DEF ByMark
  <2> QED BY <2>5, <2>6
<1>9. Policy!FamiliesAgree
  <2> SUFFICES ASSUME Policy!Ready, c.families = {4, 6}, NEW p \in RulePackets, p.family = 4, p.iif # "lo", p.dst # "tun"
               PROVE  Policy!Routed(p) = Policy!Routed([p EXCEPT !.family = 6])
    BY DEF Policy!FamiliesAgree, c
  <2> DEFINE p6 == [p EXCEPT !.family = 6]
  <2>1. p \in Policy!PacketType
    BY <1>0
  <2>2. /\ p6 \in Policy!PacketType /\ p6.family = 6 /\ p6.iif = p.iif /\ p6.dst = p.dst
        /\ Policy!MarkDNAT(c, p6) = Policy!MarkDNAT(c, p) /\ (Policy!KeptAway(c, p6) <=> Policy!KeptAway(c, p))
        /\ ByMain(p6) = ByMain(p) /\ ByLookups(c, p6) = ByLookups(c, p) /\ \A m : ByMark(c, p6, m) = ByMark(c, p, m)
    BY <2>1, FamilyBlind
  <2> HIDE DEF p6
  <2>3. p.family \in c.families /\ p6.family \in c.families
    BY <2>2
  <2>4. ASSUME c.markMode PROVE Policy!Routed(p) = Policy!Routed(p6)
    BY <1>7, <2>1, <2>2, <2>3, <2>4
  <2>5. ASSUME ~c.markMode PROVE Policy!Routed(p) = Policy!Routed(p6)
    <3>1. CASE Policy!KeptAway(c, p) \/ p.iif = "tun"
      BY <1>2, <2>1, <2>2, <2>3, <2>5, <3>1
    <3>2. CASE ~Policy!KeptAway(c, p) /\ p.iif # "tun"
      BY <1>2, <2>1, <2>2, <2>3, <2>5, <3>2
    <3> QED BY <3>1, <3>2
  <2> QED BY <2>4, <2>5 DEF p6
<1> QED BY <1>3, <1>4, <1>5, <1>6, <1>8, <1>9

----------------------------------------
(* A rule that is added, a rule that is removed *)
LEMMA Pieces ==
  ASSUME NEW S, NEW s \in Seq(S), NEW i \in 1 .. Len(s) + 1
  PROVE  /\ SubSeq(s, 1, i - 1) \in Seq(S) /\ Len(SubSeq(s, 1, i - 1)) = i - 1
         /\ \A j \in 1 .. i - 1 : SubSeq(s, 1, i - 1)[j] = s[j]
         /\ SubSeq(s, i, Len(s)) \in Seq(S) /\ Len(SubSeq(s, i, Len(s))) = Len(s) - i + 1
         /\ \A j \in 1 .. Len(s) - i + 1 : SubSeq(s, i, Len(s))[j] = s[i + j - 1]
  BY SubSeqProperties

Inserted(u, s, i, x, S) ==
  /\ u \in Seq(S) /\ Len(u) = Len(s) + 1
  /\ \A j \in 1 .. Len(s) + 1 : u[j] = IF j < i THEN s[j] ELSE IF j = i THEN x ELSE s[j - 1]

LEMMA InsertIs ==
  ASSUME NEW S, NEW s \in Seq(S), NEW i \in 1 .. Len(s) + 1, NEW x \in S
  PROVE  Inserted(Policy!InsertAt(s, i, x), s, i, x, S)
<1> DEFINE a == SubSeq(s, 1, i - 1)
           b == SubSeq(s, i, Len(s))
           d == a \o <<x>>
           u == d \o b
<1>0. Len(s) \in Nat /\ i \in Nat /\ i - 1 \in Nat
  OBVIOUS
<1>1. /\ a \in Seq(S) /\ Len(a) = i - 1 /\ \A j \in 1 .. i - 1 : a[j] = s[j]
      /\ b \in Seq(S) /\ Len(b) = Len(s) - i + 1 /\ \A j \in 1 .. Len(s) - i + 1 : b[j] = s[i + j - 1]
  BY Pieces
<1> HIDE DEF a, b
<1>2. /\ d \in Seq(S) /\ Len(d) = i
      /\ \A j \in 1 .. i : d[j] = IF j < i THEN s[j] ELSE x
  BY <1>0, <1>1
<1> HIDE DEF d
<1>3. u \in Seq(S) /\ Len(u) = Len(s) + 1
  BY <1>1, <1>2, <1>0
<1>4. ASSUME NEW j \in 1 .. Len(s) + 1 PROVE u[j] = IF j < i THEN s[j] ELSE IF j = i THEN x ELSE s[j - 1]
  <2>1. CASE j <= i
    BY <1>0, <1>1, <1>2, <2>1
  <2>2. CASE ~(j <= i)
    <3>1. j - i \in 1 .. Len(s) - i + 1 /\ i + (j - i) - 1 = j - 1
      BY <1>0, <2>2
    <3>2. u[j] = b[j - i]
      BY <1>0, <1>1, <1>2, <2>2
    <3> QED BY <1>0, <1>1, <2>2, <3>1, <3>2
  <2> QED BY <1>0, <2>1, <2>2
<1>5. u = Policy!InsertAt(s, i, x)
  BY DEF Policy!InsertAt, a, b, d
<1> HIDE DEF u
<1>6. Inserted(u, s, i, x, S)
  BY <1>3, <1>4 DEF Inserted
<1> QED BY <1>5, <1>6

LEMMA RemoveIs ==
  ASSUME NEW S, NEW s \in Seq(S), NEW i \in 1 .. Len(s)
  PROVE  LET u == Policy!RemoveAt(s, i)
         IN  /\ u \in Seq(S) /\ Len(u) = Len(s) - 1
             /\ \A j \in 1 .. Len(s) - 1 : u[j] = IF j < i THEN s[j] ELSE s[j + 1]
<1> DEFINE a == SubSeq(s, 1, i - 1)
           b == SubSeq(s, i + 1, Len(s))
           u == a \o b
<1>0. Len(s) \in Nat /\ i \in 1 .. Len(s) + 1 /\ i + 1 \in 1 .. Len(s) + 1
  OBVIOUS
<1>1. a \in Seq(S) /\ Len(a) = i - 1 /\ \A j \in 1 .. i - 1 : a[j] = s[j]
  BY <1>0, Pieces
<1>2. b \in Seq(S) /\ Len(b) = Len(s) - (i + 1) + 1 /\ \A j \in 1 .. Len(s) - (i + 1) + 1 : b[j] = s[(i + 1) + j - 1]
  BY <1>0, Pieces
<1> HIDE DEF a, b
<1>3. u \in Seq(S) /\ Len(u) = Len(s) - 1
  <2>0. a \in Seq(S) /\ b \in Seq(S)
    BY <1>1, <1>2
  <2>1. u \in Seq(S) /\ Len(u) = Len(a) + Len(b)
    BY <2>0
  <2> HIDE DEF u
  <2>2. Len(a) + Len(b) = Len(s) - 1
    BY <1>0, <1>1, <1>2
  <2> QED BY <2>1, <2>2
<1>4. ASSUME NEW j \in 1 .. Len(s) - 1 PROVE u[j] = IF j < i THEN s[j] ELSE s[j + 1]
  <2>1. CASE j < i
    BY <1>0, <1>1, <1>2, <2>1
  <2>2. CASE ~(j < i)
    <3> DEFINE k == j - (i - 1)
    <3>1. k \in 1 .. Len(s) - (i + 1) + 1 /\ (i + 1) + k - 1 = j + 1
      BY <1>0, <2>2
    <3>2. u[j] = b[k]
      BY <1>0, <1>1, <1>2, <2>2
    <3> HIDE DEF k
    <3>3. b[k] = s[j + 1]
      BY <1>2, <3>1
    <3> QED BY <2>2, <3>2, <3>3
  <2> QED BY <2>1, <2>2
<1>5. u = Policy!RemoveAt(s, i)
  BY DEF Policy!RemoveAt, a, b
<1> QED BY <1>3, <1>4, <1>5

\* A rule that is put behind those of its priority keeps the order, and adds itself only.
LEMMA InsertKeeps ==
  ASSUME NEW S, NEW s \in Seq(S), \A r \in S : r.pref \in Nat, Ordered(s), NEW i \in 1 .. Len(s) + 1, NEW x \in S,
         \A j \in 1 .. i - 1 : s[j].pref <= x.pref, \A j \in i .. Len(s) : x.pref < s[j].pref
  PROVE  LET u == Policy!InsertAt(s, i, x)
         IN  /\ u \in Seq(S) /\ Len(u) = Len(s) + 1 /\ Ordered(u) /\ InList(u) = InList(s) \cup {x}
             /\ x \notin InList(s) => \A n \in 1 .. Len(s) + 1 : u[n] = x => n = i
<1> DEFINE u == Policy!InsertAt(s, i, x)
<1>0. Len(s) \in Nat /\ \A j \in 1 .. Len(s) : s[j] \in S /\ s[j].pref \in Nat
  OBVIOUS
<1>a. Inserted(u, s, i, x, S)
  BY InsertIs
<1> HIDE DEF u
<1>1. /\ u \in Seq(S) /\ Len(u) = Len(s) + 1
      /\ \A j \in 1 .. Len(s) + 1 : u[j] = IF j < i THEN s[j] ELSE IF j = i THEN x ELSE s[j - 1]
  BY <1>a DEF Inserted
<1>2. ASSUME NEW j \in 1 .. Len(u), NEW k \in 1 .. Len(u), j <= k PROVE u[j].pref <= u[k].pref
  <2>1. x.pref \in Nat
    OBVIOUS
  <2>2. CASE k < i
    <3>1. j \in 1 .. Len(s) /\ k \in 1 .. Len(s) /\ u[j] = s[j] /\ u[k] = s[k]
      BY <1>0, <1>1, <1>2, <2>2
    <3> QED BY <1>2, <3>1 DEF Ordered
  <2>3. CASE k = i
    <3>1. u[k] = x /\ (j = i => u[j] = x) /\ (j # i => u[j] = s[j] /\ j \in 1 .. i - 1)
      BY <1>0, <1>1, <1>2, <2>3
    <3> QED BY <2>1, <3>1
  <2>4. CASE i < k
    <3>1. u[k] = s[k - 1] /\ k - 1 \in i .. Len(s) /\ k - 1 \in 1 .. Len(s)
      BY <1>0, <1>1, <2>4
    <3>2. CASE j < i
      <4>1. u[j] = s[j] /\ j \in 1 .. Len(s) /\ j <= k - 1
        BY <1>0, <1>1, <2>4, <3>2
      <4> QED BY <3>1, <4>1 DEF Ordered
    <3>3. CASE j = i
      <4>1. u[j] = x /\ x.pref < s[k - 1].pref
        BY <1>1, <3>1, <3>3
      <4> QED BY <1>0, <2>1, <3>1, <4>1
    <3>4. CASE i < j
      <4>1. u[j] = s[j - 1] /\ j - 1 \in 1 .. Len(s) /\ j - 1 <= k - 1
        BY <1>0, <1>1, <1>2, <3>4
      <4> QED BY <3>1, <4>1 DEF Ordered
    <3> QED BY <1>0, <1>1, <3>2, <3>3, <3>4
  <2> QED BY <1>0, <1>1, <2>2, <2>3, <2>4
<1>3. ASSUME NEW r \in InList(u) PROVE r \in InList(s) \cup {x}
  <2>1. PICK j \in 1 .. Len(s) + 1 : r = u[j]
    BY <1>1, <1>3 DEF InList
  <2>2. CASE j < i
    <3>1. j \in 1 .. Len(s) /\ r = s[j]
      BY <1>0, <1>1, <2>1, <2>2
    <3> QED BY <3>1 DEF InList
  <2>3. CASE j = i
    BY <1>1, <2>1, <2>3
  <2>4. CASE i < j
    BY <1>0, <1>1, <2>1, <2>4 DEF InList
  <2> QED BY <1>0, <2>2, <2>3, <2>4
<1>4. x \in InList(u)
  <2>1. i \in 1 .. Len(u) /\ u[i] = x
    BY <1>0, <1>1
  <2> QED BY <2>1 DEF InList
<1>5. ASSUME NEW r \in InList(s) PROVE r \in InList(u)
  <2>1. PICK j \in 1 .. Len(s) : r = s[j]
    BY <1>5 DEF InList
  <2>2. CASE j < i
    <3>1. j \in 1 .. Len(u) /\ u[j] = r
      BY <1>0, <1>1, <2>1, <2>2
    <3> QED BY <3>1 DEF InList
  <2>3. CASE i <= j
    <3> DEFINE k == j + 1
    <3>1. k \in 1 .. Len(s) + 1 /\ i < k /\ k - 1 = j
      BY <1>0, <2>3
    <3> HIDE DEF k
    <3>2. k \in 1 .. Len(u) /\ u[k] = r
      BY <1>0, <1>1, <2>1, <3>1
    <3> QED BY <3>2 DEF InList
  <2> QED BY <1>0, <2>2, <2>3
<1>6. Ordered(u)
  BY <1>2 DEF Ordered
<1>7. x \notin InList(s) => \A n \in 1 .. Len(s) : s[n] # x
  BY DEF InList
<1>8. ASSUME x \notin InList(s), NEW n \in 1 .. Len(s) + 1, u[n] = x PROVE n = i
  <2>1. CASE n < i
    BY <1>0, <1>1, <2>1, <1>7, <1>8
  <2>2. CASE n > i
    <3>1. n - 1 \in 1 .. Len(s) /\ u[n] = s[n - 1]
      BY <1>0, <1>1, <2>2
    <3> QED BY <1>7, <1>8, <3>1
  <2> QED BY <1>0, <2>1, <2>2
<1> QED BY <1>1, <1>3, <1>4, <1>5, <1>6, <1>8 DEF u

LEMMA RemoveKeeps ==
  ASSUME NEW S, NEW s \in Seq(S), \A r \in S : r.pref \in Nat, Ordered(s), NEW i \in 1 .. Len(s)
  PROVE  LET u == Policy!RemoveAt(s, i)
         IN  /\ u \in Seq(S) /\ Len(u) = Len(s) - 1 /\ Ordered(u) /\ InList(u) \subseteq InList(s)
             /\ \A r \in InList(s) : r # s[i] => r \in InList(u)
<1> DEFINE u == Policy!RemoveAt(s, i)
<1>0. Len(s) \in Nat /\ \A j \in 1 .. Len(s) : s[j] \in S /\ s[j].pref \in Nat
  OBVIOUS
<1>1. /\ u \in Seq(S) /\ Len(u) = Len(s) - 1
      /\ \A j \in 1 .. Len(s) - 1 : u[j] = IF j < i THEN s[j] ELSE s[j + 1]
  BY RemoveIs
<1> HIDE DEF u
<1>2. ASSUME NEW j \in 1 .. Len(u) PROVE \E k \in {j, j + 1} : k \in 1 .. Len(s) /\ u[j] = s[k] /\ (k = j <=> j < i)
  BY <1>0, <1>1
<1>3. ASSUME NEW j \in 1 .. Len(u), NEW k \in 1 .. Len(u), j <= k PROVE u[j].pref <= u[k].pref
  <2>1. PICK a \in {j, j + 1} : a \in 1 .. Len(s) /\ u[j] = s[a] /\ (a = j <=> j < i)
    BY <1>2
  <2>2. PICK b \in {k, k + 1} : b \in 1 .. Len(s) /\ u[k] = s[b] /\ (b = k <=> k < i)
    BY <1>2
  <2>3. a <= b
    BY <1>0, <1>1, <1>3, <2>1, <2>2
  <2> QED BY <2>1, <2>2, <2>3 DEF Ordered
<1>4. InList(u) \subseteq InList(s)
  BY <1>2 DEF InList
<1>5. ASSUME NEW r \in InList(s), r # s[i] PROVE r \in InList(u)
  <2>1. PICK j \in 1 .. Len(s) : r = s[j]
    BY <1>5 DEF InList
  <2>2. CASE j < i
    <3>1. j \in 1 .. Len(u) /\ u[j] = r
      BY <1>0, <1>1, <2>1, <2>2
    <3> QED BY <3>1 DEF InList
  <2>3. CASE i < j
    <3> DEFINE k == j - 1
    <3>1. k \in 1 .. Len(s) - 1 /\ ~(k < i) /\ k + 1 = j
      BY <1>0, <2>3
    <3> HIDE DEF k
    <3>2. k \in 1 .. Len(u) /\ u[k] = r
      BY <1>0, <1>1, <2>1, <3>1
    <3> QED BY <3>2 DEF InList
  <2>4. j # i
    BY <1>5, <2>1
  <2> QED BY <1>0, <2>2, <2>3, <2>4
<1>6. Ordered(u)
  BY <1>3 DEF Ordered
<1> QED BY <1>1, <1>4, <1>5, <1>6 DEF u

----------------------------------------
(* The invariant of installing and removing.  unsetRules goes through the    *)
(* list it asked for while the kernel's own gets shorter: what is still to be *)
(* looked at stays the end of the kernel's list, so that the first rule of a  *)
(* priority is always the one it looks at (Clearing).                         *)
\* The one rule of a configuration without AutoRoute.
OifRule == Policy!Lookup(MainPref - 1, 6, "oif", "tun")
Ranged(c, r) == r.pref \in RuleStart .. RuleStart + 10 \/ (c.markMode /\ r.pref = FallbackPref)

\* What is still to be looked at ends the kernel's list, and before it nothing is to be removed.
Clearing(c, t, k) ==
  /\ Len(t) <= Len(k)
  /\ \A i \in 1 .. Len(t) : t[i] = k[Len(k) - Len(t) + i]
  /\ \A i \in 1 .. Len(k) - Len(t) : ~Ranged(c, k[i])

PolicyType ==
  /\ options \in Policy!OptionsType /\ options.input # options.output
  /\ phase \in {"new", "adding", "up", "removing", "resetting", "reset", "readding", "broken", "left", "down"}
  /\ unlisted \in BOOLEAN
  /\ kernel \in Seq(RuleType) /\ todo \in Seq(RuleType)
  /\ Ordered(kernel) /\ SystemSet \subseteq InList(kernel)
AutoInv ==
  /\ ruleIndex6 = {} /\ ~unlisted /\ \A r \in InList(kernel) : r \in SystemSet \/ Ranged(options, r)
  /\ phase \in {"new", "reset", "down"} => InList(kernel) \subseteq SystemSet
  /\ phase \in {"adding", "readding"} => InList(kernel) \cup InList(todo) = SystemSet \cup Made(options)
  /\ phase = "up" => InList(kernel) = SystemSet \cup Made(options)
  /\ phase \in {"removing", "resetting"} => Clearing(options, todo, kernel)
OifInv ==
  /\ phase \in {"new", "adding", "up", "removing", "left", "down"} /\ ruleIndex6 \subseteq {MainPref - 1}
  /\ InList(kernel) \subseteq SystemSet \cup {OifRule} /\ InList(todo) \subseteq {OifRule} /\ Len(todo) <= 1
  /\ todo # << >> => OifRule \notin InList(kernel)
  /\ \A i, j \in 1 .. Len(kernel) : kernel[i] = OifRule /\ kernel[j] = OifRule => i = j
  /\ phase = "new" => OifRule \notin InList(kernel) /\ ruleIndex6 = {} /\ ~unlisted
  /\ ~unlisted /\ OifRule \in InList(kernel) \cup InList(todo) => ruleIndex6 = {MainPref - 1}
  /\ phase \in {"removing", "left", "down"} => todo = << >>
  /\ phase = "down" /\ ruleIndex6 # {} => OifRule \notin InList(kernel)
PolicyInv == PolicyType /\ (options.autoRoute => AutoInv) /\ (~options.autoRoute => OifInv)

LEMMA PrefsAre ==
  ASSUME Policy!PolicyAssumption
  PROVE  /\ RuleStart \in Nat /\ MainPref \in Nat /\ FallbackPref \in Nat
         /\ RuleStart > 0 /\ RuleStart + 10 < MainPref /\ MainPref < FallbackPref
  BY DEF Policy!PolicyAssumption

LEMMA SystemOut ==
  ASSUME Policy!PolicyAssumption, NEW r \in SystemSet
  PROVE  r \in RuleType /\ r.pref \in {0, MainPref} /\ r # OifRule /\ \A c : ~Ranged(c, r)
<1>0. /\ RuleStart \in Nat /\ MainPref \in Nat /\ FallbackPref \in Nat
      /\ RuleStart > 0 /\ RuleStart + 10 < MainPref /\ MainPref < FallbackPref
  BY PrefsAre
<1>1. PICK f \in {4, 6} : r = SystemNop(f) \/ r = SystemMain(f)
  BY DEF SystemSet
<1>2. SystemNop(f) \in RuleType
  BY RuleTyped DEF SystemNop
<1>3. SystemMain(f) \in RuleType
  BY <1>0, RuleTyped DEF SystemMain
<1>4. r.pref \in {0, MainPref}
  BY <1>1, SystemIs
<1>5. OifRule.pref = MainPref - 1
  BY RuleIs DEF OifRule, Policy!Lookup
<1>6. r # OifRule
  BY <1>0, <1>4, <1>5
<1> QED BY <1>0, <1>1, <1>2, <1>3, <1>4, <1>6 DEF Ranged

LEMMA SystemRulesAre ==
  ASSUME Policy!PolicyAssumption
  PROVE  Policy!SystemRules \in Seq(RuleType) /\ Ordered(Policy!SystemRules) /\ InList(Policy!SystemRules) = SystemSet
<1> DEFINE s == <<SystemNop(4), SystemNop(6), SystemMain(4), SystemMain(6)>>
<1>0. MainPref \in Nat
  BY PrefsAre
<1>1. s = Policy!SystemRules
  BY DEF Policy!SystemRules, SystemNop, SystemMain
<1>2. SystemNop(4) \in RuleType /\ SystemNop(6) \in RuleType /\ SystemMain(4) \in RuleType /\ SystemMain(6) \in RuleType
  BY SystemOut DEF SystemSet
<1>3. s \in Seq(RuleType) /\ InList(s) = SystemSet
  BY <1>2, InListFour DEF SystemSet
<1>4. SystemNop(4).pref = 0 /\ SystemNop(6).pref = 0 /\ SystemMain(4).pref = MainPref /\ SystemMain(6).pref = MainPref
  BY SystemIs
<1>5. Len(s) = 4 /\ s[1].pref = 0 /\ s[2].pref = 0 /\ s[3].pref = MainPref /\ s[4].pref = MainPref
  BY <1>4
<1> HIDE DEF s
<1>6. Ordered(s)
  BY <1>0, <1>5 DEF Ordered
<1> QED BY <1>1, <1>3, <1>6

LEMMA MadeIn ==
  ASSUME Policy!PolicyAssumption, NEW c \in Policy!OptionsType, NEW r \in Made(c)
  PROVE  r \in RuleType /\ Ranged(c, r)
<1>1. PICK f \in {4, 6} : r \in FamilySet(c, f)
  BY DEF Made
<1> QED BY <1>1, FamilyLies DEF Ranged

LEMMA RulesOfIs ==
  ASSUME Policy!PolicyAssumption, NEW c \in Policy!OptionsType, c.autoRoute, NEW n
  PROVE  Policy!RulesOf(c, n) \in Seq(RuleType) /\ InList(Policy!RulesOf(c, n)) = Made(c)
<1> DEFINE a == Policy!FamilyRules(c, 4)
           d == Policy!FamilyRules(c, 6)
           u == a \o d
           b == c.families # {}
<1>1. a \in Seq(RuleType) /\ InList(a) = FamilySet(c, 4)
  BY FamilyIs
<1>2. d \in Seq(RuleType) /\ InList(d) = FamilySet(c, 6)
  BY FamilyIs
<1>3. Policy!RulesOf(c, n) = Policy!When(b, u)
  BY DEF Policy!RulesOf
<1> HIDE DEF a, d
<1>4. u \in Seq(RuleType) /\ InList(u) = FamilySet(c, 4) \cup FamilySet(c, 6)
  BY <1>1, <1>2, InListConcat
<1>5. b \in BOOLEAN /\ Made(c) = {x \in FamilySet(c, 4) \cup FamilySet(c, 6) : b}
  BY DEF Made
<1> HIDE DEF b, u
<1>6. Policy!When(b, u) \in Seq(RuleType) /\ InList(Policy!When(b, u)) = {x \in InList(u) : b}
  BY <1>4, <1>5, InListWhen
<1> QED BY <1>3, <1>4, <1>5, <1>6

LEMMA OifRulesAre ==
  ASSUME Policy!PolicyAssumption, NEW c \in Policy!OptionsType
  PROVE  LET t == Policy!OifRules(c, MainPref - 1)
         IN  /\ t \in Seq(RuleType) /\ InList(t) \subseteq {OifRule} /\ Len(t) <= 1
             /\ 6 \notin c.families => InList(t) = {}
<1> DEFINE b == 6 \in c.families
<1>0. MainPref - 1 \in Nat
  BY PrefsAre
<1>1. OifRule \in RuleType
  BY <1>0, RuleTyped DEF OifRule, Policy!Lookup, RuleNames
<1>2. b \in BOOLEAN /\ Policy!OifRules(c, MainPref - 1) = Policy!When(b, <<OifRule>>)
  BY DEF Policy!OifRules, OifRule
<1> HIDE DEF b
<1>3. Policy!When(b, <<OifRule>>) \in Seq(RuleType) /\ InList(Policy!When(b, <<OifRule>>)) = {x \in {OifRule} : b}
  BY <1>1, <1>2, WhenOne
<1>4. Len(Policy!When(b, <<OifRule>>)) <= 1
  BY <1>2 DEF Policy!When
<1> QED BY <1>2, <1>3, <1>4 DEF b

LEMMA RuleIndexIs ==
  ASSUME Policy!PolicyAssumption, kernel \in Seq(RuleType), InList(kernel) = SystemSet
  PROVE  Policy!NextIndex6 = MainPref - 1
<1> DEFINE J == {j \in DOMAIN kernel : kernel[j].family = 6 /\ kernel[j].pref > 0}
           prefs == {kernel[i].pref : i \in J}
<1>0. MainPref \in Nat /\ MainPref > 0 /\ DOMAIN kernel = 1 .. Len(kernel)
  BY PrefsAre
<1>1. SystemMain(6) \in InList(kernel) /\ SystemMain(6).family = 6 /\ SystemMain(6).pref = MainPref
  BY SystemIs DEF SystemSet
<1>2. PICK k \in 1 .. Len(kernel) : kernel[k] = SystemMain(6)
  BY <1>1 DEF InList
<1>3. k \in J
  BY <1>0, <1>1, <1>2
<1>4. MainPref \in prefs
  BY <1>1, <1>2, <1>3
<1>5. ASSUME NEW i \in J PROVE kernel[i].pref = MainPref
  BY <1>0, SystemOut DEF InList
<1>6. prefs = {MainPref}
  BY <1>4, <1>5
<1> HIDE DEF J, prefs
<1>7. (CHOOSE m \in prefs : \A n \in prefs : m <= n) = MainPref
  BY <1>0, <1>6
<1> QED BY <1>7 DEF Policy!NextIndex6, prefs, J

LEMMA HeadTail ==
  ASSUME NEW S, NEW s \in Seq(S), s # << >>
  PROVE  /\ Head(s) \in S /\ Head(s) = s[1] /\ Tail(s) \in Seq(S) /\ Len(s) \in Nat /\ Len(s) > 0 /\ Len(Tail(s)) = Len(s) - 1
         /\ \A i \in 1 .. Len(s) - 1 : Tail(s)[i] = s[i + 1]
         /\ InList(s) = {Head(s)} \cup InList(Tail(s))
<1>1. /\ Head(s) \in S /\ Head(s) = s[1] /\ Tail(s) \in Seq(S) /\ Len(s) \in Nat /\ Len(s) > 0 /\ Len(Tail(s)) = Len(s) - 1
      /\ \A i \in 1 .. Len(s) - 1 : Tail(s)[i] = s[i + 1]
  OBVIOUS
<1> DEFINE t == Tail(s)
           h == Head(s)
<1>2. /\ h = s[1] /\ Len(s) \in Nat /\ Len(s) > 0 /\ Len(t) = Len(s) - 1 /\ \A i \in 1 .. Len(s) - 1 : t[i] = s[i + 1]
  BY <1>1
<1> HIDE DEF t, h
<1>3. ASSUME NEW x \in InList(s) PROVE x \in {h} \cup InList(t)
  <2>1. PICK i \in 1 .. Len(s) : x = s[i]
    BY <1>3 DEF InList
  <2>2. CASE i = 1
    BY <1>2, <2>1, <2>2
  <2>3. CASE i # 1
    <3> DEFINE j == i - 1
    <3>1. j \in 1 .. Len(s) - 1 /\ j + 1 = i
      BY <1>2, <2>3
    <3> HIDE DEF j
    <3>2. j \in 1 .. Len(t) /\ t[j] = x
      BY <1>2, <2>1, <3>1
    <3> QED BY <3>2 DEF InList
  <2> QED BY <2>2, <2>3
<1>4. h \in InList(s)
  <2>1. 1 \in 1 .. Len(s)
    BY <1>2
  <2> QED BY <1>2, <2>1 DEF InList
<1>5. ASSUME NEW x \in InList(t) PROVE x \in InList(s)
  <2>1. PICK i \in 1 .. Len(t) : x = t[i]
    BY <1>5 DEF InList
  <2>2. i + 1 \in 1 .. Len(s) /\ x = s[i + 1]
    BY <1>2, <2>1
  <2> QED BY <2>2 DEF InList
<1> QED BY <1>1, <1>3, <1>4, <1>5 DEF t, h

LEMMA PolicyInit == ASSUME Policy!PolicyAssumption, Policy!Init PROVE PolicyInv
<1>1. options \in Policy!OptionsType /\ options.input # options.output
  BY DEF Policy!Init, Policy!PolicyAssumption
<1>2. phase = "new" /\ todo = << >> /\ kernel = Policy!SystemRules /\ ruleIndex6 = {} /\ unlisted = FALSE
  BY DEF Policy!Init
<1>3. kernel \in Seq(RuleType) /\ Ordered(kernel) /\ InList(kernel) = SystemSet
  BY <1>2, SystemRulesAre
<1>4. todo \in Seq(RuleType) /\ Len(todo) = 0 /\ InList(todo) = {}
  BY <1>2 DEF InList
<1>5. OifRule \notin SystemSet
  BY SystemOut
<1>6. PolicyType
  BY <1>1, <1>2, <1>3, <1>4 DEF PolicyType
<1>7. AutoInv
  BY <1>2, <1>3 DEF AutoInv
<1>8. OifInv
  BY <1>3, <1>5, <1>2, <1>4 DEF InList, OifInv
<1> QED BY <1>6, <1>7, <1>8 DEF PolicyInv

LEMMA ConfigureKeeps == ASSUME Policy!PolicyAssumption, PolicyInv, Policy!Configure PROVE PolicyInv'
<1>0. /\ phase \in {"new", "reset"} /\ phase' = IF phase = "new" THEN "adding" ELSE "readding"
      /\ options' = options /\ kernel' = kernel /\ unlisted' = unlisted
      /\ todo' = Policy!RulesOf(options, Policy!NextIndex6)
      /\ ruleIndex6' = ruleIndex6 \cup (IF ~options.autoRoute /\ 6 \in options.families THEN {Policy!NextIndex6} ELSE {})
  BY DEF Policy!Configure
<1>1. PolicyType
  BY DEF PolicyInv
<1>2. options \in Policy!OptionsType /\ kernel \in Seq(RuleType)
  BY <1>1 DEF PolicyType
<1>3. ASSUME options.autoRoute PROVE PolicyInv'
  <2>1. AutoInv
    BY <1>3 DEF PolicyInv
  <2>2. todo' \in Seq(RuleType) /\ InList(todo') = Made(options)
    BY <1>0, <1>2, <1>3, RulesOfIs
  <2>3. PolicyType'
    BY <1>0, <1>1, <2>2 DEF PolicyType
  <2>4. InList(kernel) = SystemSet /\ ruleIndex6' = {}
    BY <1>0, <1>1, <1>3, <2>1 DEF AutoInv, PolicyType
  <2>5. AutoInv'
    BY <1>0, <2>1, <2>2, <2>4 DEF AutoInv
  <2> QED BY <1>0, <1>3, <2>3, <2>5 DEF PolicyInv
<1>4. ASSUME ~options.autoRoute PROVE PolicyInv'
  <2>1. OifInv
    BY <1>4 DEF PolicyInv
  <2>2. InList(kernel) = SystemSet
    BY <1>0, <1>1, <2>1 DEF OifInv, PolicyType
  <2>3. Policy!NextIndex6 = MainPref - 1
    BY <1>2, <2>2, RuleIndexIs
  <2>4. todo' = Policy!OifRules(options, MainPref - 1)
    BY <1>0, <1>4, <2>3 DEF Policy!RulesOf
  <2>5. /\ todo' \in Seq(RuleType) /\ InList(todo') \subseteq {OifRule} /\ Len(todo') <= 1
        /\ 6 \notin options.families => InList(todo') = {}
    BY <1>2, <2>4, OifRulesAre
  <2>6. PolicyType'
    BY <1>0, <1>1, <2>5 DEF PolicyType
  <2>7. OifRule \notin InList(kernel) /\ ruleIndex6 = {} /\ \A i, j \in 1 .. Len(kernel) : kernel[i] = OifRule /\ kernel[j] = OifRule => i = j
    BY <1>0, <2>1 DEF OifInv
  <2>8. ruleIndex6' = IF 6 \in options.families THEN {MainPref - 1} ELSE {}
    BY <1>0, <1>4, <2>3, <2>7
  <2>9. OifInv'
    BY <1>0, <2>1, <2>2, <2>5, <2>7, <2>8 DEF OifInv
  <2> QED BY <1>0, <1>4, <2>6, <2>9 DEF PolicyInv
<1> QED BY <1>3, <1>4

LEMMA ConfigureUnlistedKeeps == ASSUME Policy!PolicyAssumption, PolicyInv, Policy!ConfigureUnlisted PROVE PolicyInv'
  BY RuleIndexIs, OifRulesAre DEF Policy!ConfigureUnlisted, PolicyInv, PolicyType, OifInv

LEMMA RuleInserted ==
  ASSUME NEW s \in Seq(RuleType), Ordered(s), NEW i \in 1 .. Len(s) + 1, NEW x \in RuleType,
         \A j \in 1 .. i - 1 : s[j].pref <= x.pref, \A j \in i .. Len(s) : x.pref < s[j].pref,
         NEW u, u = Policy!InsertAt(s, i, x)
  PROVE  /\ u \in Seq(RuleType) /\ Len(u) = Len(s) + 1 /\ Ordered(u) /\ InList(u) = InList(s) \cup {x}
         /\ x \notin InList(s) => \A n \in 1 .. Len(s) + 1 : u[n] = x => n = i
<1> DEFINE T == RuleType
<1>1. \A r \in T : r.pref \in Nat
  BY RuleFields
<1>2. s \in Seq(T) /\ x \in T
  OBVIOUS
<1> HIDE DEF T
<1> DEFINE k == Policy!InsertAt(s, i, x)
<1>3. /\ k \in Seq(T) /\ Len(k) = Len(s) + 1 /\ Ordered(k) /\ InList(k) = InList(s) \cup {x}
      /\ x \notin InList(s) => \A n \in 1 .. Len(s) + 1 : k[n] = x => n = i
  BY <1>1, <1>2, InsertKeeps
<1> HIDE DEF k
<1>4. u = k
  BY DEF k
<1> QED BY <1>3, <1>4 DEF T

LEMMA AddRuleKeeps == ASSUME Policy!PolicyAssumption, PolicyInv, Policy!AddRule PROVE PolicyInv'
<1>0. /\ phase \in {"adding", "readding"} /\ phase' = phase /\ options' = options /\ unlisted' = unlisted /\ ruleIndex6' = ruleIndex6
      /\ todo # << >> /\ todo' = Tail(todo)
  BY DEF Policy!AddRule
<1>1. PolicyType
  BY DEF PolicyInv
<1>2. kernel \in Seq(RuleType) /\ todo \in Seq(RuleType) /\ Ordered(kernel) /\ Len(kernel) \in Nat
  BY <1>1 DEF PolicyType
<1>3. PICK i \in 1 .. Len(kernel) + 1 : Policy!Behind(Head(todo), i) /\ kernel' = Policy!InsertAt(kernel, i, Head(todo))
  BY DEF Policy!AddRule
<1>4. /\ Head(todo) \in RuleType /\ Tail(todo) \in Seq(RuleType) /\ Len(todo) \in Nat /\ Len(Tail(todo)) = Len(todo) - 1
      /\ InList(todo) = {Head(todo)} \cup InList(Tail(todo)) /\ Len(todo) > 0
  BY <1>0, <1>2, HeadTail
<1> DEFINE h == Head(todo)
<1> HIDE DEF h
<1>5. /\ kernel' \in Seq(RuleType) /\ Len(kernel') = Len(kernel) + 1 /\ Ordered(kernel') /\ InList(kernel') = InList(kernel) \cup {h}
      /\ h \notin InList(kernel) => \A n \in 1 .. Len(kernel) + 1 : kernel'[n] = h => n = i
  <2>1. \A j \in 1 .. i - 1 : kernel[j].pref <= h.pref
    BY <1>3 DEF Policy!Behind, h
  <2>2. \A j \in i .. Len(kernel) : h.pref < kernel[j].pref
    BY <1>3 DEF Policy!Behind, h
  <2>3. h \in RuleType
    BY <1>4 DEF h
  <2>4. kernel' = Policy!InsertAt(kernel, i, h)
    BY <1>3 DEF h
  <2> QED BY <1>2, <2>1, <2>2, <2>3, <2>4, RuleInserted
<1>6. PolicyType'
  BY <1>0, <1>1, <1>4, <1>5 DEF PolicyType
<1>7. ASSUME options.autoRoute PROVE AutoInv'
  <2>1. AutoInv
    BY <1>7 DEF PolicyInv
  <2>2. InList(kernel') \cup InList(todo') = SystemSet \cup Made(options)
    BY <1>0, <1>4, <1>5, <2>1 DEF AutoInv, h
  <2>3. options \in Policy!OptionsType
    BY <1>1 DEF PolicyType
  <2>4. \A r \in InList(kernel') : r \in SystemSet \/ Ranged(options, r)
    BY <2>2, <2>3, MadeIn
  <2> QED BY <1>0, <2>1, <2>2, <2>4 DEF AutoInv
<1>8. ASSUME ~options.autoRoute PROVE OifInv'
  <2>1. OifInv
    BY <1>8 DEF PolicyInv
  <2>2. h = OifRule /\ OifRule \notin InList(kernel)
    BY <1>0, <1>4, <2>1 DEF OifInv, h
  <2>3. Len(todo') = 0
    BY <1>0, <1>4, <2>1 DEF OifInv
  <2>4. todo' = << >> /\ InList(todo') = {}
    BY <1>0, <1>4, <2>3 DEF InList
  <2>5. \A j \in 1 .. Len(kernel') : kernel'[j] = OifRule => j = i
    BY <1>5, <2>2
  <2>6. \A j, n \in 1 .. Len(kernel') : kernel'[j] = OifRule /\ kernel'[n] = OifRule => j = n
    BY <2>5
  <2>7. OifRule \in InList(todo)
    BY <1>4, <2>2 DEF h
  <2> QED BY <1>0, <1>5, <2>1, <2>2, <2>3, <2>4, <2>6, <2>7 DEF OifInv
<1> QED BY <1>0, <1>6, <1>7, <1>8 DEF PolicyInv

LEMMA AddedKeeps == ASSUME Policy!PolicyAssumption, PolicyInv, Policy!Added PROVE PolicyInv'
<1>0. /\ phase \in {"adding", "readding"} /\ phase' = "up" /\ UNCHANGED <<options, todo, kernel, ruleIndex6, unlisted>> /\ todo = << >>
  BY DEF Policy!Added
<1>1. PolicyType'
  BY <1>0 DEF PolicyInv, PolicyType
<1>2. ASSUME options.autoRoute PROVE AutoInv'
  BY <1>2, <1>0 DEF PolicyInv, InList, AutoInv
<1>3. ASSUME ~options.autoRoute PROVE OifInv'
  BY <1>0, <1>3 DEF PolicyInv, OifInv
<1> QED BY <1>0, <1>1, <1>2, <1>3 DEF PolicyInv

LEMMA AddStopsKeeps == ASSUME Policy!PolicyAssumption, PolicyInv, Policy!AddStops PROVE PolicyInv'
  BY DEF Policy!AddStops, PolicyInv, PolicyType, OifInv, AutoInv

LEMMA ClearingStarts ==
  ASSUME NEW S, NEW k \in Seq(S), NEW c
  PROVE  Clearing(c, k, k)
  BY DEF Clearing

LEMMA UnsetKeeps == ASSUME Policy!PolicyAssumption, PolicyInv, Policy!Unset PROVE PolicyInv'
<1>0. /\ phase \in {"adding", "up", "broken", "left"} /\ phase' = "removing" /\ UNCHANGED <<options, kernel, ruleIndex6, unlisted>>
      /\ todo' = IF options.autoRoute THEN kernel ELSE << >>
  BY DEF Policy!Unset, Policy!Listed
<1>1. PolicyType
  BY DEF PolicyInv
<1>2. PolicyType'
  BY <1>0, <1>1 DEF PolicyType
<1>3. ASSUME options.autoRoute PROVE AutoInv'
  <2>1. AutoInv
    BY <1>3 DEF PolicyInv
  <2>2. Clearing(options, kernel, kernel)
    BY <1>1, ClearingStarts DEF PolicyType
  <2> QED BY <1>0, <1>3, <2>1, <2>2 DEF AutoInv
<1>4. ASSUME ~options.autoRoute PROVE OifInv'
  BY <1>4, <1>0 DEF PolicyInv, InList, OifInv
<1> QED BY <1>0, <1>2, <1>3, <1>4 DEF PolicyInv

LEMMA UnsetForUpdateKeeps == ASSUME Policy!PolicyAssumption, PolicyInv, Policy!UnsetForUpdate PROVE PolicyInv'
<1>0. /\ phase' = "resetting" /\ UNCHANGED <<kernel, ruleIndex6, unlisted>>
      /\ todo' = kernel /\ options.autoRoute
  BY DEF Policy!UnsetForUpdate, Policy!Listed
<1>1. PolicyType /\ AutoInv
  BY <1>0 DEF PolicyInv
<1>2. PICK vpn \in {"off", "follow", "override"} : options' = [options EXCEPT !.vpn = vpn]
  BY DEF Policy!UnsetForUpdate
<1>3. options \in Policy!OptionsType /\ options.input # options.output
  BY <1>1 DEF PolicyType
<1>4. /\ options' \in Policy!OptionsType /\ options'.input = options.input /\ options'.output = options.output
      /\ options'.autoRoute = options.autoRoute /\ options'.markMode = options.markMode
  BY <1>2, <1>3 DEF Policy!OptionsType
<1>5. PolicyType'
  BY <1>0, <1>1, <1>3, <1>4 DEF PolicyType
<1>6. Clearing(options', kernel, kernel)
  BY <1>1, ClearingStarts DEF PolicyType
<1>9. \A r \in InList(kernel) : r \in SystemSet \/ Ranged(options', r)
  BY <1>1, <1>4 DEF AutoInv, Ranged
<1>10. AutoInv'
  BY <1>0, <1>1, <1>6, <1>9 DEF AutoInv
<1> QED BY <1>0, <1>4, <1>5, <1>10 DEF PolicyInv

\* The first of the kernel's rules of this family and priority
LEMMA FirstSame ==
  ASSUME NEW f, NEW q, Policy!RuleDel(f, q)
  PROVE  \E i \in 1 .. Len(kernel) :
           /\ kernel[i].pref = q /\ kernel[i].family = f /\ kernel' = Policy!RemoveAt(kernel, i)
           /\ \A j \in 1 .. Len(kernel) : kernel[j].pref = q /\ kernel[j].family = f => i <= j
  BY DEF Policy!RuleDel, Policy!Same

LEMMA OifSame ==
  ASSUME Policy!PolicyAssumption, InList(kernel) \subseteq SystemSet \cup {OifRule}, NEW i \in 1 .. Len(kernel)
  PROVE  kernel[i] = OifRule <=> kernel[i].pref = MainPref - 1 /\ kernel[i].family = 6
<1>0. /\ RuleStart \in Nat /\ MainPref \in Nat /\ RuleStart > 0 /\ RuleStart + 10 < MainPref
  BY PrefsAre
<1>1. OifRule.pref = MainPref - 1 /\ OifRule.family = 6
  BY RuleIs DEF OifRule, Policy!Lookup
<1>2. kernel[i] \in SystemSet \/ kernel[i] = OifRule
  BY DEF InList
<1>3. kernel[i] \in SystemSet => kernel[i].pref # MainPref - 1
  BY <1>0, SystemOut
<1> QED BY <1>1, <1>2, <1>3

LEMMA DeleteIndexedKeeps == ASSUME Policy!PolicyAssumption, PolicyInv, Policy!DeleteIndexed PROVE PolicyInv'
<1>0. phase \in {"removing", "resetting"} /\ UNCHANGED <<options, phase, todo, unlisted>>
  BY DEF Policy!DeleteIndexed
<1>1. PICK index \in ruleIndex6 : Policy!RuleDel(6, index) /\ ruleIndex6' = ruleIndex6 \ {index}
  BY DEF Policy!DeleteIndexed
<1>2. PolicyType
  BY DEF PolicyInv
<1>3. ~options.autoRoute
  BY <1>1 DEF PolicyInv, AutoInv
<1>4. OifInv
  BY <1>3 DEF PolicyInv
<1>5. index = MainPref - 1 /\ ruleIndex6' = {} /\ InList(kernel) \subseteq SystemSet \cup {OifRule} /\ todo = << >>
      /\ \A i, j \in 1 .. Len(kernel) : kernel[i] = OifRule /\ kernel[j] = OifRule => i = j
  BY <1>0, <1>1, <1>4 DEF OifInv
<1>6. \A i \in 1 .. Len(kernel) : kernel[i] = OifRule <=> kernel[i].pref = MainPref - 1 /\ kernel[i].family = 6
  BY <1>5, OifSame
<1>7. kernel \in Seq(RuleType) /\ Ordered(kernel) /\ Len(kernel) \in Nat /\ SystemSet \subseteq InList(kernel)
  BY <1>2 DEF PolicyType
<1>8. /\ kernel' \in Seq(RuleType) /\ Ordered(kernel') /\ InList(kernel') = SystemSet
  <2>0. OifRule \notin SystemSet
    BY SystemOut
  <2>2. ASSUME NEW i \in 1 .. Len(kernel), kernel[i].pref = index, kernel[i].family = 6, kernel' = Policy!RemoveAt(kernel, i)
        PROVE  /\ kernel' \in Seq(RuleType) /\ Ordered(kernel') /\ InList(kernel') = SystemSet
    <3> DEFINE u == Policy!RemoveAt(kernel, i)
    <3>0. \A r \in RuleType : r.pref \in Nat
      BY RuleFields
    <3>1. /\ u \in Seq(RuleType) /\ Len(u) = Len(kernel) - 1 /\ Ordered(u) /\ InList(u) \subseteq InList(kernel)
          /\ \A r \in InList(kernel) : r # kernel[i] => r \in InList(u)
      BY <1>7, <3>0, RemoveKeeps
    <3>2. \A j \in 1 .. Len(kernel) - 1 : u[j] = IF j < i THEN kernel[j] ELSE kernel[j + 1]
      BY <1>7, RemoveIs
    <3>3. kernel' = u
      BY <2>2
    <3> HIDE DEF u
    <3>4. kernel[i] = OifRule
      BY <1>5, <1>6, <2>2
    <3>5. ASSUME NEW j \in 1 .. Len(u), u[j] = OifRule PROVE FALSE
      <4>1. CASE j < i
        <5>1. j \in 1 .. Len(kernel) /\ u[j] = kernel[j]
          BY <1>7, <3>1, <3>2, <4>1
        <5> QED BY <1>5, <3>4, <3>5, <4>1, <5>1
      <4>2. CASE ~(j < i)
        <5>1. j + 1 \in 1 .. Len(kernel) /\ u[j] = kernel[j + 1] /\ j + 1 # i
          BY <1>7, <3>1, <3>2, <4>2
        <5> QED BY <1>5, <3>4, <3>5, <5>1
      <4> QED BY <4>1, <4>2
    <3>6. OifRule \notin InList(u)
      BY <3>5 DEF InList
    <3>7. InList(u) = SystemSet
      <4>1. InList(u) \subseteq SystemSet
        BY <1>5, <3>1, <3>6
      <4>2. SystemSet \subseteq InList(u)
        BY <1>7, <2>0, <3>1, <3>4
      <4> QED BY <4>1, <4>2
    <3> QED BY <3>1, <3>3, <3>7
  <2> QED BY <1>1, <2>2, FirstSame
<1>9. PolicyType'
  BY <1>0, <1>2, <1>8 DEF PolicyType
<1>10. OifRule \notin InList(kernel') /\ InList(todo) = {} /\ \A i \in 1 .. Len(kernel') : kernel'[i] # OifRule
  BY <1>8, <1>5, SystemOut DEF InList
<1>11. OifInv'
  BY <1>0, <1>4, <1>5, <1>8, <1>10 DEF OifInv
<1> QED BY <1>0, <1>3, <1>9, <1>11 DEF PolicyInv

LEMMA UnsetFailsKeeps == ASSUME Policy!PolicyAssumption, PolicyInv, Policy!UnsetFails PROVE PolicyInv'
<1>0. phase = "removing" /\ phase' = "down" /\ UNCHANGED <<options, todo, kernel, ruleIndex6, unlisted>>
  BY DEF Policy!UnsetFails
<1>1. PICK index \in ruleIndex6 : Policy!Same(6, index) = {}
  BY DEF Policy!UnsetFails
<1>2. ~options.autoRoute /\ PolicyType
  BY <1>1 DEF PolicyInv, AutoInv
<1>3. OifInv
  BY <1>2 DEF PolicyInv
<1>4. index = MainPref - 1 /\ InList(kernel) \subseteq SystemSet \cup {OifRule}
  BY <1>1, <1>3 DEF OifInv
<1>5. \A i \in 1 .. Len(kernel) : ~(kernel[i].pref = index /\ kernel[i].family = 6)
  BY <1>1 DEF Policy!Same
<1>6. \A i \in 1 .. Len(kernel) : kernel[i] # OifRule
  BY <1>4, <1>5, OifSame
<1>7. OifRule \notin InList(kernel)
  BY <1>6 DEF InList
<1>8. PolicyType'
  BY <1>0, <1>2 DEF PolicyType
<1>9. OifInv'
  BY <1>0, <1>3, <1>7 DEF OifInv
<1> QED BY <1>0, <1>2, <1>8, <1>9 DEF PolicyInv

LEMMA ClearingSteps ==
  ASSUME NEW c, NEW S, NEW k \in Seq(S), NEW t \in Seq(S), t # << >>, Clearing(c, t, k)
  PROVE  LET h == Len(k) - Len(t) + 1
         IN  /\ h \in 1 .. Len(k) /\ Head(t) = k[h]
             /\ ~Ranged(c, Head(t)) => Clearing(c, Tail(t), k)
             /\ Clearing(c, Tail(t), Policy!RemoveAt(k, h))
<1> DEFINE h == Len(k) - Len(t) + 1
           u == Policy!RemoveAt(k, h)
           w == Tail(t)
<1>0. Len(k) \in Nat
  OBVIOUS
<1>1. /\ Head(t) = t[1] /\ w \in Seq(S) /\ Len(t) \in Nat /\ Len(t) > 0 /\ Len(w) = Len(t) - 1
      /\ \A i \in 1 .. Len(t) - 1 : w[i] = t[i + 1]
  BY HeadTail
<1> HIDE DEF w
<1>2. /\ Len(t) <= Len(k) /\ \A i \in 1 .. Len(t) : t[i] = k[Len(k) - Len(t) + i]
      /\ \A i \in 1 .. Len(k) - Len(t) : ~Ranged(c, k[i])
  BY DEF Clearing
<1>3. h \in 1 .. Len(k) /\ Head(t) = k[h]
  BY <1>0, <1>1, <1>2
<1>4. ASSUME ~Ranged(c, Head(t)) PROVE Clearing(c, w, k)
  <2>1. Len(w) <= Len(k)
    BY <1>0, <1>1, <1>2
  <2>2. ASSUME NEW i \in 1 .. Len(w) PROVE w[i] = k[Len(k) - Len(w) + i]
    BY <1>0, <1>1, <1>2
  <2>3. ASSUME NEW i \in 1 .. Len(k) - Len(w) PROVE ~Ranged(c, k[i])
    <3>0. Len(k) - Len(w) = h /\ Len(k) - Len(t) = h - 1 /\ h \in Nat
      BY <1>0, <1>1, <1>2
    <3> HIDE DEF h
    <3>1. i \in 1 .. Len(k) - Len(t) \/ i = h
      BY <3>0
    <3> QED BY <1>2, <1>3, <1>4, <3>1
  <2> QED BY <2>1, <2>2, <2>3 DEF Clearing
<1>5. Clearing(c, w, u)
  <2>0. h \in 1 .. Len(k) /\ h = Len(k) - Len(t) + 1
    BY <1>3
  <2> HIDE DEF h
  <2>1. u \in Seq(S) /\ Len(u) = Len(k) - 1 /\ \A j \in 1 .. Len(k) - 1 : u[j] = IF j < h THEN k[j] ELSE k[j + 1]
    BY <2>0, RemoveIs
  <2> HIDE DEF u
  <2>2. Len(w) <= Len(u)
    BY <1>0, <1>1, <1>2, <2>1
  <2>3. ASSUME NEW i \in 1 .. Len(w) PROVE w[i] = u[Len(u) - Len(w) + i]
    <3> DEFINE j == Len(u) - Len(w) + i
    <3>1. i \in 1 .. Len(t) - 1 /\ i + 1 \in 1 .. Len(t) /\ j \in 1 .. Len(k) - 1 /\ ~(j < h) /\ j + 1 = Len(k) - Len(t) + (i + 1)
      BY <1>0, <1>1, <1>2, <2>0, <2>1
    <3> HIDE DEF j
    <3>2. u[j] = k[j + 1]
      BY <2>1, <3>1
    <3>3. w[i] = t[i + 1] /\ t[i + 1] = k[Len(k) - Len(t) + (i + 1)]
      BY <1>1, <1>2, <3>1
    <3>4. w[i] = u[j]
      BY <3>1, <3>2, <3>3
    <3> QED BY <3>4 DEF j
  <2>4. ASSUME NEW i \in 1 .. Len(u) - Len(w) PROVE ~Ranged(c, u[i])
    BY <1>0, <1>1, <1>2, <2>0, <2>1
  <2> QED BY <2>2, <2>3, <2>4 DEF Clearing
<1> QED BY <1>3, <1>4, <1>5 DEF w

LEMMA DeleteListedKeeps == ASSUME Policy!PolicyAssumption, PolicyInv, Policy!DeleteListed PROVE PolicyInv'
<1>0. /\ phase \in {"removing", "resetting"} /\ UNCHANGED <<options, phase, ruleIndex6, unlisted>>
      /\ todo # << >> /\ todo' = Tail(todo)
  BY DEF Policy!DeleteListed
<1>1. PolicyType
  BY DEF PolicyInv
<1>2. options.autoRoute
  BY <1>0 DEF PolicyInv, OifInv
<1>3. AutoInv
  BY <1>2 DEF PolicyInv
<1>4. kernel \in Seq(RuleType) /\ todo \in Seq(RuleType) /\ Ordered(kernel) /\ Len(kernel) \in Nat /\ SystemSet \subseteq InList(kernel)
  BY <1>1 DEF PolicyType
<1>5. Clearing(options, todo, kernel) /\ \A r \in InList(kernel) : r \in SystemSet \/ Ranged(options, r)
  BY <1>0, <1>3 DEF AutoInv
<1>6. Tail(todo) \in Seq(RuleType) /\ Len(todo) \in Nat
  BY <1>0, <1>4, HeadTail
<1> DEFINE h == Len(kernel) - Len(todo) + 1
<1>7. /\ h \in 1 .. Len(kernel) /\ Head(todo) = kernel[h]
      /\ ~Ranged(options, Head(todo)) => Clearing(options, Tail(todo), kernel)
      /\ Clearing(options, Tail(todo), Policy!RemoveAt(kernel, h))
  BY <1>0, <1>4, <1>5, ClearingSteps
<1>8. \A i \in 1 .. Len(kernel) : i < h => ~Ranged(options, kernel[i])
  BY <1>4, <1>5, <1>6 DEF Clearing
<1>9. Policy!InRange(Head(todo)) <=> Ranged(options, Head(todo))
  BY DEF Policy!InRange, Ranged
<1> HIDE DEF h
<1>10. ASSUME ~Ranged(options, Head(todo)) PROVE PolicyInv'
  <2>1. kernel' = kernel
    BY <1>9, <1>10 DEF Policy!DeleteListed
  <2>2. PolicyType'
    BY <1>0, <1>1, <1>6, <2>1 DEF PolicyType
  <2>3. AutoInv'
    BY <1>0, <1>3, <1>5, <1>7, <1>10, <2>1 DEF AutoInv
  <2> QED BY <1>0, <1>2, <2>2, <2>3 DEF PolicyInv
<1>11. ASSUME Ranged(options, Head(todo)) PROVE PolicyInv'
  <2>1. Policy!RuleDel(Head(todo).family, Head(todo).pref)
    BY <1>9, <1>11 DEF Policy!DeleteListed
  <2>2. kernel' = Policy!RemoveAt(kernel, h)
    <3>1. PICK i \in 1 .. Len(kernel) :
            /\ kernel[i].pref = kernel[h].pref /\ kernel[i].family = kernel[h].family /\ kernel' = Policy!RemoveAt(kernel, i)
            /\ \A j \in 1 .. Len(kernel) : kernel[j].pref = kernel[h].pref /\ kernel[j].family = kernel[h].family => i <= j
      BY <1>7, <2>1, FirstSame
    <3>2. i <= h
      BY <1>7, <3>1
    <3>3. Ranged(options, kernel[i])
      BY <1>7, <1>11, <3>1 DEF Ranged
    <3>4. i = h
      BY <1>4, <1>7, <1>8, <3>2, <3>3
    <3> QED BY <3>1, <3>4
  <2> DEFINE u == Policy!RemoveAt(kernel, h)
  <2>3. /\ u \in Seq(RuleType) /\ Ordered(u) /\ InList(u) \subseteq InList(kernel)
        /\ \A r \in InList(kernel) : r # kernel[h] => r \in InList(u)
    BY <1>4, <1>7, RuleFields, RemoveKeeps
  <2>4. kernel' = u /\ Clearing(options, Tail(todo), u)
    BY <1>7, <2>2
  <2> HIDE DEF u
  <2>5. kernel[h] \notin SystemSet
    BY <1>7, <1>11, SystemOut
  <2>6. SystemSet \subseteq InList(u)
    BY <1>4, <2>3, <2>5
  <2>7. PolicyType'
    BY <1>0, <1>1, <1>6, <2>3, <2>4, <2>6 DEF PolicyType
  <2>8. Clearing(options, todo', kernel') /\ \A r \in InList(kernel') : r \in SystemSet \/ Ranged(options, r)
    BY <1>0, <1>5, <2>3, <2>4
  <2>9. AutoInv'
    BY <1>0, <1>3, <2>8 DEF AutoInv
  <2> QED BY <1>0, <1>2, <2>7, <2>9 DEF PolicyInv
<1> QED BY <1>10, <1>11

LEMMA UnsettedKeeps == ASSUME Policy!PolicyAssumption, PolicyInv, Policy!Unsetted PROVE PolicyInv'
<1>0. /\ phase \in {"removing", "resetting"} /\ UNCHANGED <<options, todo, kernel, ruleIndex6, unlisted>>
      /\ todo = << >> /\ ruleIndex6 = {} /\ phase' = IF phase = "removing" THEN "down" ELSE "reset"
  BY DEF Policy!Unsetted
<1>1. PolicyType
  BY DEF PolicyInv
<1>2. PolicyType'
  BY <1>0, <1>1 DEF PolicyType
<1>3. ASSUME options.autoRoute PROVE AutoInv'
  <2>1. AutoInv
    BY <1>3 DEF PolicyInv
  <2>2. Clearing(options, todo, kernel) /\ \A r \in InList(kernel) : r \in SystemSet \/ Ranged(options, r)
    BY <1>0, <2>1 DEF AutoInv
  <2>3. Len(kernel) - Len(todo) = Len(kernel)
    BY <1>0, <1>1 DEF PolicyType
  <2>4. \A i \in 1 .. Len(kernel) : ~Ranged(options, kernel[i])
    BY <2>2, <2>3 DEF Clearing
  <2>5. InList(kernel) \subseteq SystemSet
    BY <2>2, <2>4 DEF InList
  <2> QED BY <1>0, <2>1, <2>5 DEF AutoInv
<1>4. ASSUME ~options.autoRoute PROVE OifInv'
  <2>1. OifInv
    BY <1>4 DEF PolicyInv
  <2> QED BY <1>0, <2>1 DEF OifInv
<1> QED BY <1>0, <1>2, <1>3, <1>4 DEF PolicyInv

LEMMA UnsetStopsKeeps == ASSUME Policy!PolicyAssumption, PolicyInv, Policy!UnsetStops PROVE PolicyInv'
<1>0. /\ phase \in {"removing", "resetting"} /\ phase' = (IF phase = "removing" THEN "left" ELSE "broken")
      /\ todo' = << >> /\ UNCHANGED <<options, kernel, ruleIndex6, unlisted>>
  BY DEF Policy!UnsetStops
<1>1. PolicyType'
  BY <1>0 DEF PolicyInv, PolicyType
<1>2. ASSUME options.autoRoute PROVE AutoInv'
  BY <1>0, <1>2 DEF PolicyInv, AutoInv
<1>3. ASSUME ~options.autoRoute PROVE OifInv'
  BY <1>0, <1>3 DEF PolicyInv, OifInv
<1> QED BY <1>0, <1>1, <1>2, <1>3 DEF PolicyInv

LEMMA PolicyKeeps == ASSUME Policy!PolicyAssumption, PolicyInv, Policy!Next PROVE PolicyInv'
  BY ConfigureKeeps, ConfigureUnlistedKeeps, AddRuleKeeps, AddedKeeps, AddStopsKeeps, UnsetKeeps, UnsetForUpdateKeeps,
     DeleteIndexedKeeps, UnsetFailsKeeps, DeleteListedKeeps, UnsetStopsKeeps, UnsettedKeeps DEF Policy!Next

LEMMA PolicyShows ==
  ASSUME Policy!PolicyAssumption, PolicyInv
  PROVE  /\ Policy!TypeOK /\ Policy!KeptAwayNeverTunnelled /\ Policy!OthersTunnelled /\ Policy!NoLoop
         /\ Policy!MarkDecides /\ Policy!FamiliesAgree /\ Policy!StrictUnreachable /\ Policy!SystemKept
         /\ Policy!UnsetRemovesAll
<1>1. PolicyType
  BY DEF PolicyInv
<1>2. kernel \in Seq(RuleType) /\ todo \in Seq(RuleType) /\ Len(kernel) \in Nat
      /\ DOMAIN kernel = 1 .. Len(kernel) /\ DOMAIN todo = 1 .. Len(todo)
  BY <1>1 DEF PolicyType
<1>3. Policy!TypeOK
  <2>1. \A i \in DOMAIN todo : todo[i].pref \in Nat /\ todo[i].family \in {4, 6}
    BY <1>2, RuleFields
  <2>2. \A i \in 1 .. Len(kernel) - 1 : kernel[i].pref <= kernel[i + 1].pref
    BY <1>2, <1>1 DEF PolicyType, Ordered
  <2> QED BY <1>1, <2>1, <2>2 DEF PolicyType, Policy!TypeOK
<1>4. Policy!Range(Policy!SystemRules) = SystemSet /\ Policy!Range(kernel) = InList(kernel)
  <2>1. Policy!SystemRules \in Seq(RuleType) /\ InList(Policy!SystemRules) = SystemSet
    BY SystemRulesAre
  <2>2. \A s \in Seq(RuleType) : DOMAIN s = 1 .. Len(s)
    OBVIOUS
  <2> QED BY <1>2, <2>1, <2>2 DEF InList, Policy!Range
<1>5. Policy!SystemKept
  BY <1>1, <1>4 DEF Policy!SystemKept, PolicyType
<1>6. Policy!UnsetRemovesAll
  <2> SUFFICES ASSUME phase = "down", ~unlisted, NEW i \in DOMAIN kernel PROVE kernel[i] \in SystemSet
    BY <1>4 DEF Policy!UnsetRemovesAll, Policy!Ours
  <2>1. options.autoRoute => InList(kernel) \subseteq SystemSet
    BY DEF PolicyInv, AutoInv
  <2>2. ~options.autoRoute => InList(kernel) \subseteq SystemSet
    BY DEF PolicyInv, OifInv
  <2> QED BY <1>2, <2>1, <2>2 DEF InList
<1>7. Policy!Ready => Installed(kernel, options)
  BY <1>1 DEF PolicyInv, PolicyType, AutoInv, Policy!Ready, Installed
<1>8. options \in Policy!OptionsType /\ options.input # options.output
  BY <1>1 DEF PolicyType
<1> QED BY <1>3, <1>5, <1>6, <1>7, <1>8, ReadyShows

LEMMA PolicyInvariant == Spec => [](part = "policy" => PolicyInv)
<1>1. Init => (part = "policy" => PolicyInv)
  BY PolicyInit, RulesAssumed DEF Init
<1>2. PolicyInv /\ [Policy!Next]_(Policy!vars) => PolicyInv'
  <2> SUFFICES ASSUME PolicyInv, UNCHANGED Policy!vars PROVE PolicyInv'
    BY PolicyKeeps, RulesAssumed
  <2>1. UNCHANGED <<options, phase, todo, kernel, ruleIndex6, unlisted>>
    BY DEF Policy!vars
  <2> QED BY <2>1 DEF PolicyInv, PolicyType, AutoInv, OifInv
<1>3. (part = "policy" => PolicyInv) /\ [Next]_vars => (part = "policy" => PolicyInv)'
  <2> SUFFICES ASSUME part = "policy" => PolicyInv, [Next]_vars, part' = "policy" PROVE PolicyInv'
    OBVIOUS
  <2>1. part = "policy" /\ [Policy!Next]_(Policy!vars)
    BY DEF Next, vars, Policy!vars, options, phase, todo, kernel, ruleIndex6, unlisted
  <2> QED BY <1>2, <2>1
<1> QED BY <1>1, <1>3, PTL DEF Spec

(* rules, setRules, unsetRules and resetRules, for every set of configurations
   and packets, every mark and every place of the rules between the kernel's:
   with all rules installed a packet goes where the options and its mark say,
   the same in both families; unsetRules, when no call of it fails, removes
   every rule that was made, also what earlier calls left when RuleList or
   RuleDel failed in them, and never one of the system's. *)
THEOREM PolicyTheorem == Spec => []PolicyDecides
<1>1. (part = "policy" => PolicyInv) => PolicyDecides
  BY PolicyShows, RulesAssumed DEF PolicyDecides
<1> QED BY <1>1, PolicyInvariant, PTL
=============================================================================
