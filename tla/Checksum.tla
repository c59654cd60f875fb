------------------------------ MODULE Checksum ------------------------------
(***************************************************************************)
(* The Internet checksum of internal/gtcpip/checksum and tschecksum.  The  *)
(* code sums words of two, four or eight bytes in the byte order of the    *)
(* machine, in unrolled blocks, with a carry or with room to spare, and    *)
(* folds and swaps at the end; what it must give is the one's complement   *)
(* sum of the big-endian 16-bit words (RFC 1071).                          *)
(*                                                                         *)
(* Everything depends on the base only through its powers, so a "byte" is  *)
(* a digit of base B (256 in the code).                                    *)
(***************************************************************************)
EXTENDS Naturals, Sequences

CONSTANTS B,       \* the base
          Data,    \* byte sequences to sum
          Initial, \* partial sums to start from
          Align    \* addresses modulo 8

U16 == B * B
U32 == U16 * U16
U64 == U32 * U32

VARIABLES data, initial,
          big,     \* cpu.IsBigEndian
          align,   \* the address of the bytes not yet summed, modulo 8
          done,    \* how many bytes are summed
          odd,     \* as calculateChecksum returns it
          sum, by  \* the sum so far and the function it is from

vars == <<data, initial, big, align, done, odd, sum, by>>

Functions == {"none", "checksumGeneric64", "checksumGeneric32", "checksumGeneric32Alternate",
              "checksumGeneric64Alternate", "calculateChecksum", "pseudoHeader", "pseudoHeader64", "pseudoHeader32"}

TypeOK ==
    /\ data \in Data /\ initial \in Initial /\ big \in BOOLEAN /\ align \in 0..7
    /\ done \in 0..Len(data) /\ odd \in BOOLEAN /\ sum \in 0..(U16 - 1) /\ by \in Functions

Init ==
    /\ data \in Data /\ initial \in Initial /\ big \in BOOLEAN /\ align \in Align
    /\ done = 0 /\ odd = FALSE /\ sum = initial /\ by = "none"

-----------------------------------------------------------------------------
(* f applied to the members of s from the left, starting with z.           *)
Over(f(_, _), z, s) == LET r[i \in 0..Len(s)] == IF i = 0 THEN z ELSE f(r[i - 1], s[i]) IN r[Len(s)]

Val(s, be) == LET Digit(v, i) == v * B + (IF be THEN s[i] ELSE s[Len(s) + 1 - i]) IN Over(Digit, 0, [i \in 1..Len(s) |-> i])

ReverseBytes16(v) == (v % B) * B + v \div B
ReverseBytes32(v) == ReverseBytes16(v % U16) * U16 + ReverseBytes16(v \div U16)

(* The blocks <<offset, size>> n bytes are taken in: as many of size top   *)
(* as there are, then at most one of each smaller power of two.            *)
Blocks(n, top) ==
    [i \in 1..(n \div top) |-> <<(i - 1) * top, top>>]
        \o SelectSeq([i \in 1..7 |-> LET s == 2^(7 - i) IN <<(n \div (2 * s)) * 2 * s, s>>],
                     LAMBDA c : c[2] < top /\ (n \div c[2]) % 2 = 1)

(* The words of k bytes of a block; a smaller block is one word.           *)
Words(c, k) == IF c[2] < k THEN <<c>> ELSE [i \in 1..(c[2] \div k) |-> <<c[1] + (i - 1) * k, k>>]

Flat(ss) == Over(LAMBDA a, b : a \o b, << >>, ss)

WordsOf(n, top, k) == Flat([i \in 1..Len(Blocks(n, top)) |-> Words(Blocks(n, top)[i], k)])

(* A single last byte is the high half of a big-endian word.               *)
Load(b, w, be) == IF w[2] = 1 THEN (IF be THEN b[w[1] + 1] * B ELSE b[w[1] + 1])
                  ELSE Val(SubSeq(b, w[1] + 1, w[1] + w[2]), be)

(* bits.Add32 and bits.Add64: <<sum, carry>>.                              *)
Add(st, v, m) == LET s == st[1] + v + st[2] IN <<s % m, s \div m>>

Native(v, be) == IF be THEN v ELSE ReverseBytes16(v)

-----------------------------------------------------------------------------
ipChecksumFold32(unfolded, carry) ==
    LET s1 == unfolded \div U16 + (unfolded % U16) + carry
        s2 == s1 \div U16 + (s1 % U16)
    IN (s2 \div U16 + (s2 % U16)) % U16

ipChecksumFold64(unfolded, carry) ==
    LET s0 == Add(<<unfolded \div U32, carry>>, unfolded % U32, U32)
        s1 == s0[1] \div U16 + (s0[1] % U16) + s0[2]
    IN (s1 \div U16 + (s1 % U16)) % U16

checksumGeneric64(b, from, be) ==
    LET st == Over(LAMBDA a, w : Add(a, Load(b, w, be), U64), <<Native(from, be), 0>>, WordsOf(Len(b), 128, 8))
    IN Native(ipChecksumFold64(st[1], st[2]), be)

checksumGeneric32(b, from, be) ==
    LET st == Over(LAMBDA a, w : Add(a, Load(b, w, be), U32), <<Native(from, be), 0>>, WordsOf(Len(b), 64, 4))
    IN Native(ipChecksumFold32(st[1], st[2]), be)

(* No carry: the accumulator has room for U16 words.                       *)
checksumGeneric32Alternate(b, from, be) ==
    Native(ipChecksumFold32(Over(LAMBDA a, w : (a + Load(b, w, be)) % U32, Native(from, be), WordsOf(Len(b), 64, 2)), 0), be)

checksumGeneric64Alternate(b, from, be) ==
    Native(ipChecksumFold64(Over(LAMBDA a, w : (a + Load(b, w, be)) % U64, Native(from, be), WordsOf(Len(b), 64, 4)), 0), be)

-----------------------------------------------------------------------------
reduce(acc) ==
    LET a1 == acc \div U32 + (acc % U32)
        a2 == (a1 \div U32 + a1) % U32
        a3 == a2 \div U16 + (a2 % U16)
    IN (a3 \div U16 + a3) % U16

(* The bytes from offset o at address a that bring the address to 8.       *)
Alignment(o, a) ==
    LET one == a % 2
        two == ((a + one) \div 2) % 2
        four == ((a + one + 2 * two) \div 4) % 2
    IN SelectSeq(<<<<o + one, 2 * two>>, <<o + one + 2 * two, 4 * four>>>>, LAMBDA w : w[2] > 0)

AlignedBytes(a) == (8 - a) % 8

(* Short buffers: big-endian words, the machine's order not used.          *)
SumShort(b, acc) == reduce(Over(LAMBDA a, w : a + Load(b, w, TRUE), acc, WordsOf(Len(b), 4, 2)))

(* The rest: the accumulator is swapped to the machine's order, once more  *)
(* for an odd address, the words are summed in blocks whose carry is added *)
(* at the end of each, and the swaps are undone.                           *)
SumAligned(b, acc, a, be) ==
    LET bytes == AlignedBytes(a)
        swapped == IF be THEN acc ELSE ReverseBytes32(acc)
        first == IF a % 2 = 1 THEN ReverseBytes32(swapped) + (IF be THEN b[1] ELSE b[1] * B) ELSE swapped
        start == Over(LAMBDA x, w : x + Load(b, w, be), first, Alignment(0, a))
        blocks == Blocks(Len(b) - bytes, 64)
        Block(x, c) == LET st == Over(LAMBDA y, w : Add(y, Load(b, <<w[1] + bytes, w[2]>>, be), U64), <<x, 0>>, Words(c, 8))
                       IN (st[1] + st[2]) % U64
        out == Native(reduce(Over(Block, start, blocks)), be)
    IN IF a % 2 = 1 THEN ReverseBytes16(out) ELSE out

\* slip: an odd number of bytes before is not heeded
calculateChecksumEven(b, o, from, a, be) == IF Len(b) < 8 THEN SumShort(b, from) ELSE SumAligned(b, from, a, be)

(* o: an odd number of bytes is in from already, and the first byte is the *)
(* low half of their last word.                                            *)
calculateChecksum(b, o, from, a, be) ==
    LET acc == IF o THEN from + b[1] ELSE from
        rest == IF o THEN Tail(b) ELSE b
    IN IF Len(rest) < 8 THEN SumShort(rest, acc) ELSE SumAligned(rest, acc, IF o THEN (a + 1) % 8 ELSE a, be)

-----------------------------------------------------------------------------
(* The pseudo header of two addresses, a protocol and a length; the first  *)
(* by way of Checksum, the others by words of an address.                  *)
PseudoHeaderChecksum(src, dst, proto, len, be) ==
    LET Sum(b, x) == calculateChecksum(b, FALSE, x, 0, be)
    IN Sum(<<0, proto>>, Sum(<<len \div B, len % B>>, Sum(dst, Sum(src, 0))))

PseudoSum(proto, len, be) == IF be THEN len + proto ELSE ReverseBytes16(len) + proto * B

addrPartialChecksum64(addr, st, be) == Over(LAMBDA a, w : Add(a, Load(addr, w, be), U64), st, WordsOf(Len(addr), 8, 8))
addrPartialChecksum32(addr, st, be) == Over(LAMBDA a, w : Add(a, Load(addr, w, be), U32), st, WordsOf(Len(addr), 4, 4))

pseudoHeaderChecksum64(src, dst, proto, len, be) ==
    LET st == addrPartialChecksum64(dst, addrPartialChecksum64(src, <<PseudoSum(proto, len, be), 0>>, be), be)
    IN Native(ipChecksumFold64(st[1], st[2]), be)

pseudoHeaderChecksum32(src, dst, proto, len, be) ==
    LET st == addrPartialChecksum32(dst, addrPartialChecksum32(src, <<PseudoSum(proto, len, be), 0>>, be), be)
    IN Native(ipChecksumFold32(st[1], st[2]), be)

-----------------------------------------------------------------------------
Whole(f, v) ==
    /\ by = "none" /\ by' = f /\ sum' = v /\ done' = Len(data)
    /\ UNCHANGED <<data, initial, big, align, odd>>

Sum64 == Whole("checksumGeneric64", checksumGeneric64(data, initial, big))
Sum32 == Whole("checksumGeneric32", checksumGeneric32(data, initial, big))
Sum32Alternate == Whole("checksumGeneric32Alternate", checksumGeneric32Alternate(data, initial, big))
Sum64Alternate == Whole("checksumGeneric64Alternate", checksumGeneric64Alternate(data, initial, big))

(* A caller of calculateChecksum has the bytes in pieces.                  *)
SumPiece(n) ==
    LET b == SubSeq(data, done + 1, done + n)
    IN /\ by \in {"none", "calculateChecksum"} /\ by' = "calculateChecksum"
       /\ n \in 1..(Len(data) - done)
       /\ sum' = calculateChecksum(b, odd, sum, align, big)
       /\ odd' = ((Len(b) - (IF odd THEN 1 ELSE 0)) % 2 = 1)
       /\ done' = done + n /\ align' = (align + n) % 8
       /\ UNCHANGED <<data, initial, big>>

(* The data as two addresses; the partial sum serves as length.            *)
Source == SubSeq(data, 1, Len(data) \div 2)
Destination == SubSeq(data, Len(data) \div 2 + 1, Len(data))

SumPseudo(f) ==
    /\ Len(data) \in {8, 32}
    /\ \/ f = "pseudoHeader" /\ Whole(f, PseudoHeaderChecksum(Source, Destination, B - 1, initial, big))
       \/ f = "pseudoHeader64" /\ Whole(f, pseudoHeaderChecksum64(Source, Destination, B - 1, initial, big))
       \/ f = "pseudoHeader32" /\ Whole(f, pseudoHeaderChecksum32(Source, Destination, B - 1, initial, big))

Next ==
    \/ Sum64 \/ Sum32 \/ Sum32Alternate \/ Sum64Alternate
    \/ \E n \in 1..Len(data) : (n = Len(data) - done \/ (done = 0 /\ n < 20)) /\ SumPiece(n)
    \/ \E f \in {"pseudoHeader", "pseudoHeader64", "pseudoHeader32"} : SumPseudo(f)

Spec == Init /\ [][Next]_vars

-----------------------------------------------------------------------------
(* The one's complement sum: zero only for nothing but zeros.              *)
Ones(n) == IF n = 0 THEN 0 ELSE ((n - 1) % (U16 - 1)) + 1

Reference(b, from) == Ones(from + Over(LAMBDA a, i : a + (IF i % 2 = 1 THEN b[i] * B ELSE b[i]), 0, [i \in 1..Len(b) |-> i]))

(* Whatever the words, the blocks, the byte order and the carries, the     *)
(* result is the one's complement sum: what a receiver computes.           *)
SumExact == by \in {"checksumGeneric64", "checksumGeneric32"} => sum = Reference(data, initial)

(* Without carries it is so only while the accumulator has room: up to U16 *)
(* words of two bytes, and as many of four for the wide one.               *)
AlternateExact ==
    /\ by = "checksumGeneric32Alternate" /\ Len(data) < 2 * U16 => sum = Reference(data, initial)
    /\ by = "checksumGeneric64Alternate" /\ Len(data) < 4 * U32 => sum = Reference(data, initial)

(* Bytes summed in pieces of any length, at any address, give the sum of   *)
(* them all: an odd piece and an odd address swap the halves of the words, *)
(* and both swaps are undone.                                              *)
PiecesCompose == by = "calculateChecksum" => sum = Reference(SubSeq(data, 1, done), initial) /\ odd = (done % 2 = 1)

(* The three pseudo header sums agree, for addresses of both families.     *)
PseudoHeadersAgree ==
    by \in {"pseudoHeader", "pseudoHeader64", "pseudoHeader32"} => sum = Reference(data, Ones(initial + B - 1))
=============================================================================
