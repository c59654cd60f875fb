----------------------------- MODULE WinSession -----------------------------
(***************************************************************************)
(* Packets and Close of the Windows device (tun_windows.go).  Readers and  *)
(* writers count themselves in t.running before they look at t.close; a    *)
(* reader that finds the ring empty waits for the session's event, and     *)
(* Close sets the flag and the event, waits for the count and ends the     *)
(* session.  The session, its ring and its event, which one wait resets,   *)
(* are Wintun's.                                                           *)
(***************************************************************************)
EXTENDS Integers, FiniteSets

CONSTANTS Readers,     \* goroutines that call Read, ReadFunc or ReadPacket
          Writers,     \* goroutines that call Write
          Closers,     \* goroutines that call Close
          MaxPackets,  \* packets that arrive
          MaxWrites    \* calls of Write

VARIABLES running,   \* the wait group's counter
          close,     \* the flag
          readWait,  \* the event is set
          session,   \* "open", "ended", or "gone" when the adapter was removed
          ring,      \* packets to read
          arrived, writes,
          at,        \* where each goroutine is
          misused    \* the session was used after its end

vars == <<running, close, readWait, session, ring, arrived, writes, at, misused>>

Users == Readers \union Writers

\* The goroutines are finitely many, and Close is called by others.
SessionAssumption ==
    /\ IsFiniteSet(Users) /\ Users \intersect Closers = {}
    /\ MaxPackets \in Nat /\ MaxWrites \in Nat

Go(p, where) == at' = [at EXCEPT ![p] = where]
Uses == misused' = (misused \/ session = "ended")

---------------------------------------------------------------------------
(* Wintun and Windows (external)                                           *)
PacketArrives ==
    /\ session = "open" /\ arrived < MaxPackets
    /\ arrived' = arrived + 1
    /\ ring' = ring + 1
    /\ readWait' = TRUE
    /\ UNCHANGED <<running, close, session, writes, at, misused>>

\* The adapter is removed: ReceivePacket answers ERROR_HANDLE_EOF
AdapterRemoved ==
    /\ session = "open"
    /\ session' = "gone"
    /\ readWait' = TRUE
    /\ UNCHANGED <<running, close, ring, arrived, writes, at, misused>>

---------------------------------------------------------------------------
(* Read, ReadFunc and ReadPacket                                           *)
\* slip: the flag is read before the call is counted
ReadEnterLate(r) ==
    \/ /\ at[r] = "idle" /\ ~close
       /\ Go(r, "count")
       /\ UNCHANGED <<running, close, readWait, session, ring, arrived, writes, misused>>
    \/ /\ at[r] = "count"
       /\ running' = running + 1
       /\ Go(r, "receive")
       /\ UNCHANGED <<close, readWait, session, ring, arrived, writes, misused>>

ReadEnter(r) ==
    /\ at[r] = "idle"
    /\ running' = running + 1
    /\ Go(r, "check")
    /\ UNCHANGED <<close, readWait, session, ring, arrived, writes, misused>>

\* The flag ends the call with os.ErrClosed, and the caller's loop
ReadCheck(r) ==
    /\ at[r] = "check"
    /\ IF close
       THEN running' = running - 1 /\ Go(r, "ended")
       ELSE UNCHANGED running /\ Go(r, "receive")
    /\ UNCHANGED <<close, readWait, session, ring, arrived, writes, misused>>

\* ERROR_NO_MORE_ITEMS: wait, or spin when traffic is fast
ReceiveEmpty(r) ==
    /\ at[r] = "receive" /\ session # "gone" /\ ring = 0
    /\ Uses
    /\ \/ Go(r, "wait")
       \/ Go(r, "check")
    /\ UNCHANGED <<running, close, readWait, session, ring, arrived, writes>>

\* A packet; it is released when it was copied, or by ReadPacket's caller
ReceivePacket(r) ==
    /\ at[r] = "receive" /\ session # "gone" /\ ring > 0
    /\ Uses
    /\ ring' = ring - 1
    /\ Go(r, "hold")
    /\ UNCHANGED <<running, close, readWait, session, arrived, writes>>

\* ERROR_HANDLE_EOF is os.ErrClosed, too
ReceiveEOF(r) ==
    /\ at[r] = "receive" /\ session = "gone"
    /\ running' = running - 1
    /\ Go(r, "ended")
    /\ UNCHANGED <<close, readWait, session, ring, arrived, writes, misused>>

\* The wait resets the event
WaitForEvent(r) ==
    /\ at[r] = "wait" /\ readWait
    /\ readWait' = FALSE
    /\ Go(r, "check")
    /\ UNCHANGED <<running, close, session, ring, arrived, writes, misused>>

\* ReleaseReceivePacket, then running.Done
Release(r) ==
    /\ at[r] = "hold"
    /\ Uses
    /\ running' = running - 1
    /\ Go(r, "idle")
    /\ UNCHANGED <<close, readWait, session, ring, arrived, writes>>

Reader(r) ==
    \/ ReadEnter(r) \/ ReadCheck(r) \/ ReceiveEmpty(r) \/ ReceivePacket(r)
    \/ ReceiveEOF(r) \/ WaitForEvent(r) \/ Release(r)

---------------------------------------------------------------------------
(* Write                                                                   *)
WriteEnter(w) ==
    /\ at[w] = "idle" /\ writes < MaxWrites
    /\ writes' = writes + 1
    /\ running' = running + 1
    /\ Go(w, "check")
    /\ UNCHANGED <<close, readWait, session, ring, arrived, misused>>

WriteCheck(w) ==
    /\ at[w] = "check"
    /\ IF close
       THEN running' = running - 1 /\ Go(w, "idle")
       ELSE UNCHANGED running /\ Go(w, "send")
    /\ UNCHANGED <<close, readWait, session, ring, arrived, writes, misused>>

\* AllocateSendPacket, which may find the ring full or the adapter gone, and
\* SendPacket: the call returns either way
WriteSend(w) ==
    /\ at[w] = "send"
    /\ Uses
    /\ running' = running - 1
    /\ Go(w, "idle")
    /\ UNCHANGED <<close, readWait, session, ring, arrived, writes>>

Writer(w) == WriteCheck(w) \/ WriteSend(w)

---------------------------------------------------------------------------
(* Close: the first caller does the work, the others wait for it           *)
CloseStore(c) ==
    /\ at[c] = "idle" /\ \A d \in Closers : at[d] = "idle"
    /\ close' = TRUE
    /\ Go(c, "wake")
    /\ UNCHANGED <<running, readWait, session, ring, arrived, writes, misused>>

CloseWake(c) ==
    /\ at[c] = "wake"
    /\ readWait' = TRUE
    /\ Go(c, "drain")
    /\ UNCHANGED <<running, close, session, ring, arrived, writes, misused>>

CloseEnd(c) ==
    /\ at[c] = "drain" /\ running = 0
    /\ session' = "ended"
    /\ Go(c, "closed")
    /\ UNCHANGED <<running, close, readWait, ring, arrived, writes, misused>>

CloseOnce(c) ==
    /\ at[c] = "idle" /\ \E d \in Closers \ {c} : at[d] # "idle"
    /\ Go(c, "once")
    /\ UNCHANGED <<running, close, readWait, session, ring, arrived, writes, misused>>

CloseOnceDone(c) ==
    /\ at[c] = "once" /\ \E d \in Closers : at[d] = "closed"
    /\ Go(c, "closed")
    /\ UNCHANGED <<running, close, readWait, session, ring, arrived, writes, misused>>

Closer(c) == CloseWake(c) \/ CloseEnd(c) \/ CloseOnceDone(c)

---------------------------------------------------------------------------
Init ==
    /\ running = 0 /\ close = FALSE /\ readWait = FALSE /\ session = "open"
    /\ ring = 0 /\ arrived = 0 /\ writes = 0 /\ misused = FALSE
    /\ at = [p \in Users \union Closers |-> "idle"]

Next ==
    \/ PacketArrives \/ AdapterRemoved
    \/ \E r \in Readers : Reader(r)
    \/ \E w \in Writers : WriteEnter(w) \/ Writer(w)
    \/ \E c \in Closers : CloseStore(c) \/ CloseOnce(c) \/ Closer(c)

\* Goroutines in a call run, and the loops read on; nobody has to write or close
Spec ==
    /\ Init /\ [][Next]_vars
    /\ \A r \in Readers : WF_vars(Reader(r))
    /\ \A w \in Writers : WF_vars(Writer(w))
    /\ \A c \in Closers : WF_vars(Closer(c))

---------------------------------------------------------------------------
(* The counter of t.running is the number of goroutines between their Add  *)
(* and their Done.                                                         *)
TypeOK ==
    /\ ring \in 0..MaxPackets /\ close \in BOOLEAN /\ readWait \in BOOLEAN
    /\ running = Cardinality({p \in Users : at[p] \in {"check", "receive", "wait", "hold", "send"}})

(* Close against Read, ReadPacket and Write: no goroutine touches the      *)
(* session, or returns a packet to it, after session.End.                  *)
NoUseAfterClose == ~misused

(* Close returns to every caller, with readers asleep, packets still held  *)
(* and writers on their way; a packet that arrives while the reader finds  *)
(* the ring empty is read: no wake-up is lost.  Packets and writes being   *)
(* bounded, this holds for good in the end.                                *)
SessionSettled ==
    /\ \A c \in Closers : at[c] \in {"idle", "closed"}
    /\ ring = 0 \/ close \/ session # "open"
=============================================================================
