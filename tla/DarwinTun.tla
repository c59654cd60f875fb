------------------------------ MODULE DarwinTun ------------------------------
(***************************************************************************)
(* The utun device of macOS (tun_darwin.go with rawfile_darwin and         *)
(* stopfd_darwin): New, BatchRead's wait for packets or for the stop pipe, *)
(* writers that share the control socket, and Close.                       *)
(*                                                                         *)
(* The kernel is external: an event of a descriptor that is closed before  *)
(* the waiting thread collected it is gone, and sendmsg_x drops a batch    *)
(* when another writer holds the socket's buffer, yet reports it as sent   *)
(* (the comment at writeAccess).                                           *)
(***************************************************************************)
EXTENDS Integers

CONSTANTS Writers,      \* goroutines that write to the socket
          BatchLen,     \* packets of a call of BatchWrite
          MaxPackets,   \* packets that arrive
          MaxCalls,     \* calls of the writers
          none

VARIABLES device,     \* "new", "open", "failed", "closed"
          msgX,       \* EXP_SendMsgX: batches are written with sendmsg_x
          tunFd,      \* the control socket is open
          dns,        \* the DNS servers are registered
          stopFd,     \* [open, signal] of the pipe
          queue, arrived,
          reader,     \* "off", "recv", "poll", "sleep", "ended"
          stranded,   \* the reader's events went with their descriptors
          writeAccess,
          sbLock,     \* writer inside the socket's send buffer
          writer,     \* [at, kind, left] of each writer
          calls,
          dropped,    \* batches dropped by the kernel
          closer      \* "no", "stop", "file", "pipe", "done"

life == <<device, msgX, tunFd, dns>>
reads == <<stopFd, queue, arrived, reader, stranded>>
writes == <<writeAccess, sbLock, writer, calls, dropped>>
vars == <<life, reads, writes, closer>>

\* A batch has a packet, and none is nobody.
DeviceAssumption ==
    /\ BatchLen \in Nat \ {0} /\ MaxPackets \in Nat /\ MaxCalls \in Nat
    /\ none \notin Writers

Go(w, where) == writer' = [writer EXCEPT ![w].at = where]

---------------------------------------------------------------------------
(* New: the socket, create and configure, any of which fails (a descriptor *)
(* handed in stays its owner's), then DNS                                  *)
NewFails ==
    /\ device = "new"
    /\ device' = "failed" /\ tunFd' = FALSE
    /\ UNCHANGED <<msgX, dns, reads, writes, closer>>

\* configureDNS fails, and New closes what it has
NewDNSFails ==
    /\ device = "new"
    /\ device' = "failed" /\ tunFd' = FALSE
    /\ stopFd' = [open |-> FALSE, signal |-> TRUE]
    /\ UNCHANGED <<msgX, dns, queue, arrived, reader, stranded, writes, closer>>

\* The servers are registered unless DNS is disabled
New ==
    /\ device = "new"
    /\ device' = "open" /\ tunFd' = TRUE
    /\ dns' \in BOOLEAN
    /\ stopFd' = [open |-> TRUE, signal |-> FALSE]
    /\ reader' = "recv"
    /\ UNCHANGED <<msgX, queue, arrived, stranded, writes, closer>>

---------------------------------------------------------------------------
(* BatchRead, called again and again by the stack's loop                   *)
PacketArrives ==
    /\ tunFd /\ arrived < MaxPackets /\ device = "open"
    /\ arrived' = arrived + 1
    /\ queue' = queue + 1
    /\ UNCHANGED <<life, stopFd, reader, stranded, writes, closer>>

\* recvmsg_x takes what is there; EWOULDBLOCK goes to the poll, EBADF ends
RecvMMsg ==
    /\ reader = "recv"
    /\ queue' = IF tunFd THEN 0 ELSE queue
    /\ reader' = IF ~tunFd THEN "ended" ELSE IF queue > 0 THEN "recv" ELSE "poll"
    /\ UNCHANGED <<life, stopFd, arrived, stranded, writes, closer>>

\* BlockingPollUntilStopped registers both descriptors; a closed one is EBADF
Register ==
    /\ reader = "poll"
    /\ reader' = IF tunFd /\ stopFd.open THEN "sleep" ELSE "ended"
    /\ UNCHANGED <<life, stopFd, queue, arrived, stranded, writes, closer>>

\* The wait returns with the pipe's event, or the socket's
Wake ==
    /\ reader = "sleep"
    /\ \/ stopFd.open /\ stopFd.signal /\ reader' = "ended"
       \/ tunFd /\ queue > 0 /\ ~stopFd.signal /\ reader' = "recv"
    /\ UNCHANGED <<life, stopFd, queue, arrived, stranded, writes, closer>>

BatchRead == RecvMMsg \/ Register \/ Wake

---------------------------------------------------------------------------
(* BatchWrite, the single packets of Write and WritePacket, and the batches *)
(* of gVisor's endpoint                                                    *)
Packets(kind) == IF kind = "single" THEN 1 ELSE BatchLen

\* slip: the endpoint has a mutex of its own
LocksOwn(kind) == kind # "endpoint"

\* sendBatch of gVisor's endpoint takes the device's lock for sendmsg_x only
Locks(kind) == kind # "endpoint" \/ msgX

Enter(w) ==
    /\ writer[w].at = "idle" /\ device = "open" /\ calls < MaxCalls
    /\ calls' = calls + 1
    /\ \E kind \in {"batch", "single", "endpoint"} :
         writer' = [writer EXCEPT ![w] = [at |-> IF Locks(kind) THEN "lock" ELSE "send", kind |-> kind, left |-> Packets(kind)]]
    /\ UNCHANGED <<life, reads, writeAccess, sbLock, dropped, closer>>

Lock(w) ==
    /\ writer[w].at = "lock" /\ writeAccess = none
    /\ writeAccess' = w
    /\ Go(w, "send")
    /\ UNCHANGED <<life, reads, sbLock, calls, dropped, closer>>

UsesMsgX(w) == msgX /\ writer[w].kind # "single"

\* A call into the kernel: writev waits for the buffer, sendmsg_x does not
SendBegin(w) ==
    /\ writer[w].at = "send" /\ writer[w].left > 0 /\ tunFd
    /\ IF sbLock = none
       THEN sbLock' = w /\ Go(w, "kernel") /\ UNCHANGED dropped
       ELSE /\ UsesMsgX(w)
            /\ dropped' = dropped + 1
            /\ writer' = [writer EXCEPT ![w].left = 0]
            /\ UNCHANGED sbLock
    /\ UNCHANGED <<life, reads, writeAccess, calls, closer>>

\* writev writes one packet, sendmsg_x one or more; an error ends the call
SendEnd(w) ==
    /\ writer[w].at = "kernel"
    /\ sbLock' = none
    /\ \E sent \in (IF UsesMsgX(w) THEN 1..writer[w].left ELSE {1}) \union {writer[w].left} :
         writer' = [writer EXCEPT ![w].at = "send", ![w].left = @ - sent]
    /\ UNCHANGED <<life, reads, writeAccess, calls, dropped, closer>>

SendClosed(w) ==
    /\ writer[w].at = "send" /\ writer[w].left > 0 /\ ~tunFd
    /\ writer' = [writer EXCEPT ![w].left = 0]
    /\ UNCHANGED <<life, reads, writeAccess, sbLock, calls, dropped, closer>>

Unlock(w) ==
    /\ writer[w].at = "send" /\ writer[w].left = 0
    /\ writeAccess' = IF writeAccess = w THEN none ELSE writeAccess
    /\ Go(w, "idle")
    /\ UNCHANGED <<life, reads, sbLock, calls, dropped, closer>>

Writer(w) == Lock(w) \/ SendBegin(w) \/ SendEnd(w) \/ SendClosed(w) \/ Unlock(w)

---------------------------------------------------------------------------
(* Close: DNS, the signal, the socket, the pipe                            *)
CloseDNS ==
    /\ closer = "no" /\ device = "open"
    /\ dns' = FALSE
    /\ device' = "closed"
    /\ closer' = "stop"
    /\ UNCHANGED <<msgX, tunFd, reads, writes>>

CloseStop ==
    /\ closer = "stop"
    /\ stopFd' = [stopFd EXCEPT !.signal = TRUE]
    /\ closer' = "file"
    /\ UNCHANGED <<life, queue, arrived, reader, stranded, writes>>

CloseFile ==
    /\ closer = "file"
    /\ tunFd' = FALSE
    /\ closer' = "pipe"
    /\ UNCHANGED <<device, msgX, dns, reads, writes>>

\* Closing the pipe takes its event away from a reader that has not run yet
ClosePipe ==
    /\ closer = "pipe"
    /\ stopFd' = [stopFd EXCEPT !.open = FALSE]
    /\ stranded' = (reader = "sleep" /\ stopFd.signal)
    /\ closer' = "done"
    /\ UNCHANGED <<life, queue, arrived, reader, writes>>

Close == CloseDNS \/ CloseStop \/ CloseFile \/ ClosePipe
Closes == CloseStop \/ CloseFile \/ ClosePipe

---------------------------------------------------------------------------
Init ==
    /\ device = "new" /\ msgX \in BOOLEAN /\ tunFd = FALSE /\ dns = FALSE
    /\ stopFd = [open |-> FALSE, signal |-> FALSE] /\ queue = 0 /\ arrived = 0
    /\ reader = "off" /\ stranded = FALSE
    /\ writeAccess = none /\ sbLock = none /\ calls = 0 /\ dropped = 0
    /\ writer = [w \in Writers |-> [at |-> "idle", kind |-> "single", left |-> 0]]
    /\ closer = "no"

Next ==
    \/ NewFails \/ NewDNSFails \/ New
    \/ PacketArrives \/ BatchRead
    \/ \E w \in Writers : Enter(w) \/ Writer(w)
    \/ Close

\* Goroutines in a call run to its end; nobody has to call Close
Spec ==
    /\ Init /\ [][Next]_vars
    /\ WF_vars(BatchRead) /\ WF_vars(Closes)
    /\ \A w \in Writers : WF_vars(Writer(w))

---------------------------------------------------------------------------
(* The state has its type; only an open device has a reader, and what a    *)
(* failed New opened is closed.                                            *)
TypeOK ==
    /\ device \in {"new", "open", "failed", "closed"}
    /\ queue \in 0..MaxPackets /\ dropped \in 0..MaxCalls
    /\ \A w \in Writers : writer[w].left \in 0..BatchLen
    /\ device = "failed" => ~tunFd /\ ~stopFd.open /\ ~dns

(* BatchWrite, Write, WritePacket and the endpoint's sendBatch: no batch is *)
(* dropped by the kernel while it is reported as sent, because nobody is    *)
(* inside the socket when a batch is.                                       *)
NoBatchDropped == dropped = 0

(* Close: the reader ends, whether it reads, registers or sleeps when the  *)
(* descriptors are closed, unless it slept and had not collected the       *)
(* pipe's event when the pipe was closed.  Every call of BatchWrite and    *)
(* Write returns, also across Close, and packets that are queued are read, *)
(* unless the device is closed.  All being bounded, this holds in the end. *)
DeviceSettled ==
    /\ closer # "no" => reader = "ended" \/ stranded
    /\ \A w \in Writers : writer[w].at = "idle"
    /\ queue = 0 \/ device # "open"
=============================================================================
