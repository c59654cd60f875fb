------------------------------- MODULE NftSet -------------------------------
(***************************************************************************)
(* How a set of addresses (or of user ids) becomes the interval elements   *)
(* of an nftables set, and the netlink messages that carry them:           *)
(* nftablesCreateIPSet in redirect_nftables_exprs.go, and the anonymous    *)
(* uid sets of nftablesCreateExcludeRules in redirect_nftables_rules.go.   *)
(*                                                                         *)
(* An interval set holds start elements and end markers; an address        *)
(* matches from a start up to the next marker (External: Matches).  The    *)
(* elements are sent BatchSize at a time and every batch is committed on   *)
(* its own, so the packets that pass between two commits see a set that is *)
(* only partly filled.                                                     *)
(*                                                                         *)
(* Addresses are written with their high byte first.  User ids are written *)
(* in the host's byte order, while the kernel compares keys byte by byte:  *)
(* an id is two digits here, which a little-endian host exchanges.         *)
(***************************************************************************)
EXTENDS Integers, FiniteSets

CONSTANTS MaxAddr,      \* the largest address of the family
          BatchSize,    \* elements in one netlink message: 1000 in the code
          Digit         \* the values of one digit of a user id

BatchAssumption ==
    /\ MaxAddr \in Nat /\ BatchSize \in Nat \ {0} /\ BatchSize % 2 = 0
    /\ Digit \in Nat \ {0} /\ Digit * Digit <= MaxAddr + 1

VARIABLES wanted,  \* the addresses, or user ids, the set is to hold
          pending, \* the elements not sent yet, a list in the order of their keys
          queue,   \* what the netlink connection holds until Flush
          kernel,  \* the elements of the kernel's set
          phase,   \* "idle", "adding", "done" or "failed"
          little,  \* the host is little-endian
          uids     \* the ranges of user ids the set is made from, if it is

vars == <<wanted, pending, queue, kernel, phase, little, uids>>

Addr == 0..MaxAddr
UID == 0..(Digit * Digit - 1)
UIDRanges == {r \in UID \X UID : r[1] <= r[2]}
Element == [key : Addr, end : BOOLEAN]

(* The queue holds the elements added and whether the set is flushed       *)
(* first (FlushSet of an update).                                          *)
NoQueue == [flush |-> FALSE, add |-> {}]

TypeOK == /\ wanted \subseteq Addr
          /\ pending \subseteq Element
          /\ queue \in [flush : BOOLEAN, add : SUBSET Element]
          /\ kernel \subseteq Element
          /\ phase \in {"idle", "adding", "done", "failed"}
          /\ little \in BOOLEAN /\ uids \subseteq UIDRanges

-----------------------------------------------------------------------------
(* The start of every maximal range, and the address after its last one    *)
(* where the family has such an address.                                   *)
Start(a) == [key |-> a, end |-> FALSE]
End(a) == [key |-> a, end |-> TRUE]

Elements(S) ==
    {Start(a) : a \in {b \in S : b - 1 \notin S}} \cup
    {End(a + 1) : a \in {b \in S : b + 1 \notin S /\ b + 1 <= MaxAddr}}

Default == {Start(0), End(0)}

(* ipSet.Ranges are in order, each giving its start and then its marker;   *)
(* with appendDefault an empty set gets a stand-in range.                  *)
IPElements(S, appendDefault) ==
    IF appendDefault /\ S = {} THEN Default ELSE Elements(S)

(* toAdd: the first elements of the list, at most as many as size.         *)
ToAdd(size) ==
    {b \in SUBSET pending :
        /\ Cardinality(b) = IF Cardinality(pending) > size THEN size ELSE Cardinality(pending)
        /\ \A d \in b, e \in pending \ b : d.key <= e.key}

(* NativeEndian.PutUint32: the number whose high byte first is the key.    *)
Key(u) == IF little THEN (u % Digit) * Digit + u \div Digit ELSE u

(* A uid range has a marker at End + 1, a uint32: the marker of a range    *)
(* that ends with the largest id wraps to 0.  The ranges are sent as they  *)
(* are in the options, also when they meet or overlap.                     *)
After(r) == IF r[2] = Digit * Digit - 1 THEN 0 ELSE r[2] + 1

UIDElements(ranges) ==
    {Start(Key(r[1])) : r \in ranges} \cup {End(Key(After(r))) : r \in ranges}

UIDsOf(ranges) == UNION {r[1]..r[2] : r \in ranges}

(* External, the kernel: an address is in an interval set when a start is  *)
(* at or below it and no marker lies between; and a message with a marker  *)
(* of the same key as a start is rejected as a whole (the comment in       *)
(* nftablesCreateIPSet).                                                   *)
Matches(K, a) ==
    \E s \in {e \in K : ~e.end} :
        /\ s.key <= a
        /\ ~\E m \in K : m.end /\ s.key < m.key /\ m.key <= a

Rejected(add) == \E m, n \in add : m.key = n.key /\ m.end # n.end

(* A range of every id, whose marker is at its own start, is rejected.     *)
(* Whether a start and the marker of the range before it are, the code     *)
(* does not say: both can happen.                                          *)
Refused(ranges) == \E r \in ranges : After(r) = r[1]

-----------------------------------------------------------------------------
Init == /\ wanted = {} /\ pending = {} /\ queue = NoQueue
        /\ kernel = {} /\ phase = "idle" /\ little \in BOOLEAN /\ uids = {}

(* A new set, or one already there that FlushSet empties when the next     *)
(* message is committed.                                                   *)
CreateIPSet(S, appendDefault, update) ==
    /\ phase \in {"idle", "done"} /\ (phase = "done") = update
    /\ wanted' = S
    /\ pending' = IPElements(S, appendDefault)
    /\ queue' = [queue EXCEPT !.flush = update]
    /\ phase' = "adding" /\ uids' = {}
    /\ UNCHANGED <<kernel, little>>

Commit(ok) ==
    /\ kernel' = IF ok THEN (IF queue.flush THEN {} ELSE kernel) \cup queue.add ELSE kernel
    /\ queue' = NoQueue

(* One turn of the loop: a batch, a Flush, and the elements that remain.   *)
SendBatch(size) ==
    /\ phase = "adding" /\ pending # {}
    /\ \E batch \in ToAdd(size) :
         LET add == queue.add \cup batch
             ok == ~Rejected(add)
         IN /\ kernel' = IF ok THEN (IF queue.flush THEN {} ELSE kernel) \cup add ELSE kernel
            /\ queue' = NoQueue
            /\ pending' = IF ok THEN pending \ batch ELSE {}
            /\ phase' = IF ok THEN "adding" ELSE "failed"
            /\ UNCHANGED <<wanted, little, uids>>

\* slip: a message that holds an odd number of elements
AddBatchOdd == SendBatch(BatchSize - 1)

AddBatch == SendBatch(BatchSize)

(* Flush fails for a reason of its own; the error is returned.             *)
FlushFails ==
    /\ phase = "adding" /\ pending # {}
    /\ Commit(FALSE)
    /\ pending' = {} /\ phase' = "failed"
    /\ UNCHANGED <<wanted, little, uids>>

(* The last Flush, of setupNFTables or of the update; it may fail as well. *)
LastFlush(ok) ==
    /\ phase = "adding" /\ pending = {}
    /\ ok => ~Refused(uids)
    /\ Commit(ok)
    /\ phase' = IF ok THEN "done" ELSE "failed"
    /\ UNCHANGED <<wanted, pending, little, uids>>

(* The set of user ids is anonymous: its elements go with the rule that    *)
(* names it, in the one message of setupNFTables.                          *)
CreateUIDSet(ranges) ==
    /\ phase = "idle"
    /\ wanted' = UIDsOf(ranges) /\ uids' = ranges
    /\ queue' = [flush |-> FALSE, add |-> UIDElements(ranges)]
    /\ phase' = "adding"
    /\ UNCHANGED <<pending, kernel, little>>

(* cleanupNFTables and a new start, after a failure too.                   *)
DelTable ==
    /\ phase \in {"done", "failed"}
    /\ wanted' = {} /\ pending' = {} /\ queue' = NoQueue
    /\ kernel' = {} /\ phase' = "idle" /\ uids' = {}
    /\ UNCHANGED little

Next ==
    \/ \E S \in SUBSET Addr, appendDefault, update \in BOOLEAN : CreateIPSet(S, appendDefault, update)
    \/ \E r, s \in UIDRanges : CreateUIDSet({r, s})
    \/ \E ok \in BOOLEAN : LastFlush(ok)
    \/ AddBatch \/ FlushFails \/ DelTable

Spec == Init /\ [][Next]_vars

-----------------------------------------------------------------------------
(* Once a set of addresses is complete it matches exactly those asked for: *)
(* the markers are one past the range, a range up to the last address of   *)
(* the family needs none, and no batch loses an element.                   *)
CompleteIsExact ==
    phase = "done" /\ uids = {} => \A a \in Addr : Matches(kernel, a) <=> a \in wanted

(* Between two batches the set never matches an address that was not asked *)
(* for: a batch never ends between a start and its marker, because a       *)
(* message holds an even number of elements and only the last range may go *)
(* without a marker.  An excluded set that matched too much would let      *)
(* traffic past the tunnel while it is filled.                             *)
NeverTooWide ==
    (phase = "adding" /\ ~queue.flush) =>
        \A a \in Addr : Matches(kernel, a) => a \in wanted

Disjoint(ranges) == \A r, s \in ranges : r = s \/ r[2] < s[1] \/ s[2] < r[1]

(* What a complete set of user ids matches.  On every host the first id of *)
(* each range, and the id after one only if a range starts there.  Where   *)
(* the bytes are in the order in which the kernel compares them, nothing   *)
(* but the ids asked for, and all of them when no two ranges overlap: the  *)
(* marker of a range inside another ends that one too.  On little-endian   *)
(* hosts the ids in between are decided by their exchanged bytes, and are  *)
(* not those asked for in general.                                         *)
UIDsMatched ==
    phase = "done" /\ uids # {} =>
        /\ \A r \in uids : /\ Matches(kernel, Key(r[1]))
                           /\ Matches(kernel, Key(After(r))) => \E s \in uids : Key(s[1]) = Key(After(r))
        /\ ~little => \A u \in UID : /\ Matches(kernel, Key(u)) => u \in wanted
                                     /\ Disjoint(uids) /\ u \in wanted => Matches(kernel, Key(u))
=============================================================================
