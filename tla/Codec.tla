------------------------------- MODULE Codec -------------------------------
(***************************************************************************)
(* The integer encodings of ByteArray (byte_array.cc).  Bytes and integers *)
(* are narrow: a varint byte carries ByteBits - 1 bits of an integer of    *)
(* Width bits, 7 of 32 or 64 in the code.                                  *)
(***************************************************************************)
EXTENDS Naturals, Integers, Sequences, FiniteSetsExt

CONSTANTS
    ByteBits,   \* bits of a byte; 8 in the code
    Width       \* bits of the integers that are written as varints

ASSUME CodecAssumption == ByteBits \in Nat /\ ByteBits > 1 /\ Width \in Nat \ {0}

Byte == 0 .. 2 ^ ByteBits - 1

\* Integers of n bytes, in two's complement, lowest byte first.
fixed(n, v) ==
    [i \in 1 .. n |-> ((v % 2 ^ (n * ByteBits)) \div 2 ^ ((i - 1) * ByteBits)) % 2 ^ ByteBits]

lowestFirst(s, b) ==
    LET sum[i \in 0 .. Len(s)] == IF i = 0 THEN 0 ELSE sum[i - 1] + s[i] * b ^ (i - 1) IN sum[Len(s)]

asSigned(w, v) == IF v >= 2 ^ (w - 1) THEN v - 2 ^ w ELSE v

\* EncodeZigzag, DecodeZigzag: small absolute values become small numbers.
EncodeZigzag(v) ==
    LET d == (2 * v) % 2 ^ Width IN IF v < 0 THEN 2 ^ Width - 1 - d ELSE d
DecodeZigzag(u) == IF u % 2 = 1 THEN -(u \div 2) - 1 ELSE u \div 2

\* The bit that says that more bytes follow, and the bytes a reader takes at most.
More == 2 ^ (ByteBits - 1)
Groups == (Width + ByteBits - 2) \div (ByteBits - 1)

\* What a power is, for the exponents that the encodings meet (the provers know no law
\* of powers).
PowerLaw(b, max) == b ^ 0 = 1 /\ \A k \in 0 .. max : b ^ (k + 1) = b * b ^ k

ASSUME PowerAssumption ==
    PowerLaw(2, 2 * ByteBits + Width) /\ PowerLaw(More, Groups) /\ PowerLaw(2 ^ ByteBits, 1)

\* writeUint32, writeUint64
writeUint(u) ==
    LET enc[v \in 0 .. 2 ^ Width - 1] ==
            IF v < More THEN <<v>> ELSE <<More + (v % More)>> \o enc[v \div More] IN
    enc[u]

\* readUint32, readUint64: the value and the bytes it took.
readUint(s) ==
    LET last == {i \in 1 .. Groups : i <= Len(s) /\ s[i] < More}
        n == IF last = {} THEN Groups ELSE Min(last) IN
    [val |-> lowestFirst([i \in 1 .. n |-> s[i] % More], More) % 2 ^ Width, len |-> n]
=============================================================================
