----------------------------- MODULE TCPForward -----------------------------
(***************************************************************************)
(* From a client's SYN to a connection somebody owns: Forward of gVisor's   *)
(* TCPForwarder, forwardTCP of Mipstack and acceptLoop of the system stack. *)
(*                                                                          *)
(* Goroutines: one per request of gVisor's forwarder, in CreateEndpoint     *)
(* until the handshake is over, and with it one that waits for the end of   *)
(* the stack's context; the accept loop; one per connection for the         *)
(* handler.  CreateEndpoint starts the handshake, enters the waiter queue   *)
(* and waits to be notified; a notification reaches those in the queue and  *)
(* nobody else.                                                             *)
(***************************************************************************)
EXTENDS Integers, FiniteSets

CONSTANTS
  Conns,
  MaxInFlight  \* of gVisor's forwarder, 1024

ForwardAssumption == IsFiniteSet(Conns) /\ MaxInFlight \in Nat

VARIABLES
  stack,
  done,       \* the context is cancelled
  pc,         \* of each connection
  watcher,    \* the goroutine that waits for the context
  notified,   \* what became of wq.Notify when the context ended
  inFlight,   \* requests the forwarder counts
  completed   \* calls of Complete, per connection

vars == <<stack, done, pc, watcher, notified, inFlight, completed>>

Stacks == {"system", "gvisor", "mipstack"}
\* "starting" is Forward before CreateEndpoint is in the waiter queue, "handshake" after.
Handshaking == {"starting", "handshake"}
States == {"new", "starting", "handshake", "ignored", "refused", "lost", "handler", "failed", "owned", "closed", "orphan"}

TypeOK ==
  /\ stack \in Stacks /\ done \in BOOLEAN /\ pc \in [Conns -> States]
  /\ watcher \in [Conns -> {"none", "waiting", "ended"}] /\ notified \in [Conns -> {"no", "heard", "missed"}]
  /\ inFlight \in 0 .. MaxInFlight /\ completed \in [Conns -> 0 .. 1]

Init ==
  /\ stack \in Stacks /\ done = FALSE
  /\ pc = [c \in Conns |-> "new"] /\ watcher = [c \in Conns |-> "none"]
  /\ notified = [c \in Conns |-> "no"] /\ inFlight = 0 /\ completed = [c \in Conns |-> 0]

GoTo(c, from, to) == pc[c] = from /\ pc' = [pc EXCEPT ![c] = to]

Cancel ==
  /\ ~done /\ done' = TRUE
  /\ UNCHANGED <<stack, pc, watcher, notified, inFlight, completed>>
-----------------------------------------------------------------------------
(* gVisor: the forwarder takes a SYN while it has fewer than MaxInFlight     *)
(* requests and runs Forward, which first starts the watcher.                *)
Forward(c) ==
  /\ stack = "gvisor"
  /\ IF inFlight < MaxInFlight
     THEN /\ GoTo(c, "new", "starting") /\ inFlight' = inFlight + 1
          /\ watcher' = [watcher EXCEPT ![c] = "waiting"]
     ELSE GoTo(c, "new", "ignored") /\ UNCHANGED <<inFlight, watcher>>
  /\ UNCHANGED <<stack, done, notified, completed>>

\* CreateEndpoint has sent its answer to the SYN and waits.
Registers(c) ==
  /\ GoTo(c, "starting", "handshake")
  /\ UNCHANGED <<stack, done, watcher, notified, inFlight, completed>>

\* <-parentDone: wq.Notify(wq.Events())
\* slip: the goroutine ends without waking anyone
WatcherWakesNot(c) ==
  /\ watcher[c] = "waiting" /\ done
  /\ watcher' = [watcher EXCEPT ![c] = "ended"]
  /\ UNCHANGED <<stack, done, pc, notified, inFlight, completed>>

WatcherWakes(c) ==
  /\ watcher[c] = "waiting" /\ done
  /\ watcher' = [watcher EXCEPT ![c] = "ended"]
  /\ notified' = [notified EXCEPT ![c] = IF pc[c] = "handshake" THEN "heard" ELSE "missed"]
  /\ UNCHANGED <<stack, done, pc, inFlight, completed>>

\* <-handshakeCtx.Done(), which Forward cancels after CreateEndpoint
WatcherEnds(c) ==
  /\ watcher[c] = "waiting" /\ pc[c] \notin Handshaking
  /\ watcher' = [watcher EXCEPT ![c] = "ended"]
  /\ UNCHANGED <<stack, done, pc, notified, inFlight, completed>>

Complete(c) ==
  /\ completed' = [completed EXCEPT ![c] = @ + 1] /\ inFlight' = inFlight - 1

\* The handshake cannot be started, the client resets or it is given up.
CreateFails(c) ==
  /\ GoTo(c, "starting", "refused") \/ GoTo(c, "handshake", "refused")
  /\ Complete(c)
  /\ UNCHANGED <<stack, done, watcher, notified>>

\* The endpoint is there, or gone again before its addresses are asked for.
CreateWorks(c) ==
  /\ GoTo(c, "handshake", "handler") \/ GoTo(c, "handshake", "lost")
  /\ Complete(c)
  /\ UNCHANGED <<stack, done, watcher, notified>>

\* CreateEndpoint returns when the client answers, or when notified.
Handshake(c) == Registers(c) \/ CreateFails(c) \/ CreateWorks(c)
-----------------------------------------------------------------------------
(* Mipstack *)
forwardTCP(c) ==
  /\ stack = "mipstack"
  /\ (GoTo(c, "new", "handler") /\ ~done) \/ GoTo(c, "new", "refused")
  /\ UNCHANGED <<stack, done, watcher, notified, inFlight, completed>>

\* The system's accept loop: without a session the connection is left alone.
acceptLoop(c) ==
  /\ stack = "system"
  /\ GoTo(c, "new", "handler") \/ GoTo(c, "new", "orphan")
  /\ UNCHANGED <<stack, done, watcher, notified, inFlight, completed>>
-----------------------------------------------------------------------------
(* The handler keeps a connection or returns an error. *)
HandlerReturns(c) ==
  /\ GoTo(c, "handler", "owned") \/ GoTo(c, "handler", "failed")
  /\ UNCHANGED <<stack, done, watcher, notified, inFlight, completed>>

\* After an error the stacks abort the connection; the system's closes it in any
\* case, since its handler returns when it is done with it.
Ends(c) == pc[c] = "failed" \/ (stack = "system" /\ pc[c] = "owned")

Closes(c) ==
  /\ Ends(c) /\ pc' = [pc EXCEPT ![c] = "closed"]
  /\ UNCHANGED <<stack, done, watcher, notified, inFlight, completed>>

\* tcpConn.Close of a connection without addresses
LostCloses(c) ==
  /\ GoTo(c, "lost", "closed")
  /\ UNCHANGED <<stack, done, watcher, notified, inFlight, completed>>

Conn(c) ==
  \/ Forward(c) \/ forwardTCP(c) \/ acceptLoop(c) \/ Handshake(c)
  \/ WatcherWakes(c) \/ WatcherEnds(c) \/ HandlerReturns(c) \/ Closes(c) \/ LostCloses(c)

Next == Cancel \/ \E c \in Conns : Conn(c)

\* The connection's own goroutine goes on where it waits for nobody.
GoesOn(c) == Registers(c) \/ Closes(c) \/ LostCloses(c)

NotifiedFails(c) == notified[c] = "heard" /\ CreateFails(c)

\* Goroutines that can run do, and CreateEndpoint returns once it has been notified
\* while it waits.  A client need not finish its handshake and a handler need not
\* return.
Fairness ==
  \A c \in Conns :
    /\ WF_vars(WatcherWakes(c) \/ WatcherEnds(c)) /\ WF_vars(GoesOn(c))
    /\ WF_vars(NotifiedFails(c))

Spec == Init /\ [][Next]_vars /\ Fairness
-----------------------------------------------------------------------------
(* The forwarder counts exactly the requests whose handshake is under way:   *)
(* no path of Forward leaves one uncompleted, until no client is served any  *)
(* more, or completes one twice.                                             *)
NothingLeaks ==
  /\ inFlight = Cardinality({c \in Conns : pc[c] \in Handshaking})
  /\ \A c \in Conns : stack = "gvisor" =>
       (completed[c] = 1 <=> pc[c] \notin Handshaking \cup {"new", "ignored"})

(* A connection the handler does not want is closed, and so is every one of  *)
(* the system's listener that was handed over; cancelling the context ends   *)
(* every handshake, although nothing but the waiter queue can interrupt      *)
(* CreateEndpoint, and no watcher waits on.  The one exception is a request  *)
(* whose watcher notified the queue before CreateEndpoint was in it: the     *)
(* watcher is gone and the handshake waits for its client.  The connections  *)
(* being finite, this holds for good in the end.                             *)
ConnsSettled ==
  \A c \in Conns :
    /\ pc[c] # "failed" /\ ~(stack = "system" /\ pc[c] = "owned")
    /\ pc[c] # "starting"
    /\ done /\ notified[c] # "missed" => pc[c] # "handshake"
    /\ done \/ pc[c] # "handshake" => watcher[c] # "waiting"
=============================================================================
