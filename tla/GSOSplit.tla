------------------------------ MODULE GSOSplit ------------------------------
(***************************************************************************)
(* GSOSplit (tun_offload.go): one packet of a TSO/USO read is cut into      *)
(* segments, one per output buffer, as handleVirtioRead (tun_linux.go)      *)
(* calls it.  Bytes are their positions in the packet: a segment is the     *)
(* half-open range of payload it carries and the header fields that differ  *)
(* from segment to segment.  One step is one pass of the loop.              *)
(*                                                                          *)
(* Checksums are left out; so is the IP identification, which is the index  *)
(* added to a uint16.                                                       *)
(***************************************************************************)
EXTENDS Integers, Sequences

CONSTANTS
  Word,          \* 65536 in the code: the range of a uint16, and gsoMaxSize
  Bufs,          \* the numbers of output buffers a caller passes
  MinHdr         \* the smallest HdrLen handleVirtioRead computes

SplitAssumption == Word \in Nat /\ Bufs \subseteq Nat \ {0} /\ MinHdr \in Nat

VARIABLES
  len,           \* len(in)
  hdr, gso,      \* options.HdrLen, options.GSOSize
  none,          \* options.GSOType = GSONone
  valid,         \* the packet passes the checks of its headers and lengths
  bufs,          \* len(outBufs)
  at, out,       \* nextSegmentDataAt, the buffers written so far (i is Len(out))
  n, state       \* the count returned; where it is

inputs == <<len, hdr, gso, none, valid, bufs>>
vars == <<inputs, at, out, n, state>>

U16(x) == x % Word

\* seq: what is added to the first sequence number; last: FIN and PSH kept.
Segment == [from : 0 .. Word, to : 0 .. Word, seq : 0 .. Word - 1, last : BOOLEAN,
            total : 0 .. 2 * Word]

TypeOK ==
  /\ len \in 1 .. Word
  /\ hdr \in MinHdr .. Word - 1 /\ gso \in 0 .. Word - 1
  /\ none \in BOOLEAN /\ valid \in BOOLEAN /\ bufs \in Bufs
  /\ out \in Seq(Segment) /\ Len(out) <= bufs
  /\ n \in -1 .. bufs /\ state \in {"start", "loop", "ok", "tooMany", "error"}

\* The kernel gives every GSO packet a segment size.
Init ==
  /\ len \in 1 .. Word
  /\ hdr \in MinHdr .. Word - 1 /\ gso \in 0 .. Word - 1
  /\ none \in BOOLEAN /\ valid \in BOOLEAN /\ bufs \in Bufs
  /\ none \/ gso > 0
  /\ at = 0 /\ out = <<>> /\ n = 0 /\ state = "start"

\* The lengths do not fit, the IP version is not that of the GSO type, the
\* checksum lies outside the packet: no output.
Refuse ==
  /\ state = "start" /\ (len < hdr \/ ~valid)
  /\ state' = "error"
  /\ UNCHANGED <<inputs, at, out, n>>

\* Not a GSO packet, or less payload than one segment: one copy.
Single == none \/ len - hdr < gso
Whole == [from |-> hdr, to |-> len, seq |-> 0, last |-> TRUE, total |-> len]
CopyWhole ==
  /\ state = "start" /\ len >= hdr /\ valid /\ Single
  /\ out' = <<Whole>> /\ n' = 1 /\ state' = "ok"
  /\ UNCHANGED <<inputs, at>>

Enter ==
  /\ state = "start" /\ len >= hdr /\ valid /\ ~Single
  /\ at' = hdr /\ state' = "loop"
  /\ UNCHANGED <<inputs, out, n>>

SegmentEnd == IF at + gso > len THEN len ELSE at + gso

\* slip: the sequence offset counts the header
SeqOffsetFromStart == U16(at)
SeqOffset == U16(gso * U16(Len(out)))

IsLast == SegmentEnd = len

Cut ==
  /\ state = "loop" /\ at < len /\ Len(out) < bufs
  /\ out' = Append(out, [from |-> at, to |-> SegmentEnd, seq |-> SeqOffset,
                         last |-> IsLast, total |-> hdr + SegmentEnd - at])
  /\ at' = at + gso
  /\ UNCHANGED <<inputs, n, state>>

TooMany ==
  /\ state = "loop" /\ at < len /\ Len(out) = bufs
  /\ n' = Len(out) - 1 /\ state' = "tooMany"
  /\ UNCHANGED <<inputs, at, out>>

Finish ==
  /\ state = "loop" /\ at >= len
  /\ n' = Len(out) /\ state' = "ok"
  /\ UNCHANGED <<inputs, at, out>>

Next == Refuse \/ CopyWhole \/ Enter \/ Cut \/ TooMany \/ Finish

Spec == Init /\ [][Next]_vars
-----------------------------------------------------------------------------
(* The segments tile the payload: the first starts behind the header, each  *)
(* starts where the one before it ended, and when all is well the last one  *)
(* ends with the packet.  Nothing is lost, doubled or read past the end.    *)
SegmentsTile ==
  /\ \A i \in 1 .. Len(out) :
       /\ out[i].from = IF i = 1 THEN hdr ELSE out[i - 1].to
       /\ out[i].from <= out[i].to /\ out[i].to <= len
  /\ state = "ok" => out[Len(out)].to = len

(* Every segment's sequence number is that of its first byte, although the  *)
(* offset is a product of two uint16 values.                                *)
SequenceMatchesData == \A i \in 1 .. Len(out) : out[i].seq = out[i].from - hdr

(* FIN and PSH survive on the segment that ends the packet and on no other. *)
FlagsOnLast ==
  \A i \in 1 .. Len(out) :
    /\ out[i].last => i = Len(out) /\ out[i].to = len
    /\ state = "ok" /\ i = Len(out) => out[i].last

(* Segmentation is exact.                                                   *)
SplitIsExact == SegmentsTile /\ SequenceMatchesData /\ FlagsOnLast

(* "It returns the number of buffers populated, and/or an error."           *)
CountsPopulated == state \in {"ok", "tooMany", "error"} => n = Len(out)
=============================================================================
