----------------------------- MODULE Serializer -----------------------------
(***************************************************************************)
(* Serializer over a ByteArray (serializer.h), used as client and server   *)
(* use it: values are written one after the other, the position is reset,  *)
(* and the other side reads the same types back, possibly handing what is  *)
(* left to a Serializer of its own first (handleMethodCall gives the       *)
(* arguments to proxy() so).  Every container is its size and its elements *)
(* in the order of its iterator.                                           *)
(***************************************************************************)
EXTENDS ByteArray

CONSTANTS
    Items,       \* the values that are written (bound)
    MaxItems,    \* how many of them (bound)
    RawWrites,   \* the bytes of plain writes (bound)
    MaxRaw       \* bytes of an array that is used without encodings (bound)

ASSUME SerializerAssumption ==
    MaxItems \in Nat /\ MaxRaw \in Nat /\ RawWrites \subseteq Seq(Byte)

VARIABLES
    mode,      \* "put", "get", or "raw" for an array used without encodings;
               \* "over" after a read beyond the end, or "crashed" in it
    written, got

serializerVars == <<arrayVars, mode, written, got>>

-----------------------------------------------------------------------------
\* The types of Serializer::read and write.  A float is its bit pattern.
bytesOf == [bool |-> 1, u8 |-> 1, i8 |-> 1, u16 |-> 2, i16 |-> 2, float |-> 2]
Unset == "unset"

\* v is a value of type t.
Fits(t, v) ==
    CASE t \in {"i8", "i16"} ->
           LET half == 2 ^ (bytesOf[t] * ByteBits - 1) IN v \in -half .. half - 1
      [] t \in DOMAIN bytesOf \ {"i8", "i16"} -> v \in 0 .. 2 ^ (bytesOf[t] * ByteBits) - 1
      [] t = "u32" -> v \in 0 .. 2 ^ Width - 1
      [] t = "i32" -> v \in -(2 ^ (Width - 1)) .. 2 ^ (Width - 1) - 1
      [] t = "string" -> v \in Seq(Byte) /\ Len(v) < 2 ^ Width
      [] t = "stringF" -> v \in Seq(Byte) /\ Len(v) < 2 ^ ByteBits
      [] OTHER -> TRUE

\* An item is a container of rows or a single row, and a row has a value of each type.
ASSUME ItemsAssumption ==
    \A item \in Items :
        /\ item.container \in BOOLEAN /\ item.of \in Seq(STRING)
        /\ DOMAIN item.rows = 1 .. Len(item.rows)
        /\ Len(item.rows) \in IF item.container THEN 0 .. 2 ^ Width - 1 ELSE {1}
        /\ \A r \in DOMAIN item.rows : \A f \in DOMAIN item.of :
              Fits(item.of[f], item.rows[r][f])

\* A text is its length, as a varint or of fixed size, and its bytes.
writeText(len, v) == len \o v
readText(n, len, s) == [val |-> SubSeq(s, n + 1, n + len), len |-> n + len]

write(t, v) ==
    CASE t \in DOMAIN bytesOf -> fixed(bytesOf[t], v)
      [] t = "u32" -> writeUint(v)
      [] t = "i32" -> writeUint(EncodeZigzag(v))
      [] t = "string" -> writeText(writeUint(Len(v)), v)
      [] t = "stringF" -> writeText(fixed(1, Len(v)), v)
      [] OTHER -> <<>>   \* any other type, such as the enumeration RPCState

read(t, s) ==
    CASE t \in {"i8", "i16"} ->
           LET n == bytesOf[t] IN
           [val |-> asSigned(n * ByteBits, lowestFirst(SubSeq(s, 1, n), 2 ^ ByteBits)), len |-> n]
      [] t \in DOMAIN bytesOf \ {"i8", "i16"} ->
           [val |-> lowestFirst(SubSeq(s, 1, bytesOf[t]), 2 ^ ByteBits), len |-> bytesOf[t]]
      [] t = "u32" -> readUint(s)
      [] t = "i32" -> [val |-> DecodeZigzag(readUint(s).val), len |-> readUint(s).len]
      [] t = "string" -> readText(readUint(s).len, readUint(s).val, s)
      [] t = "stringF" -> readText(1, s[1], s)
      [] OTHER -> [val |-> Unset, len |-> 0]

\* Values of the types ts, one after the other: pairs, tuples, a Result.
writeRow(ts, row) == FlattenSeq([i \in DOMAIN ts |-> write(ts[i], row[i])])

readRow(ts, s) ==
    LET upTo[i \in 0 .. Len(ts)] ==
            IF i = 0 THEN [val |-> <<>>, len |-> 0]
            ELSE LET p == upTo[i - 1]
                     f == read(ts[i], SubSeq(s, p.len + 1, Len(s))) IN
                 [val |-> Append(p.val, f.val), len |-> p.len + f.len] IN
    upTo[Len(ts)]

\* A container is its size and its rows, anything else a single row.
serialize(item) ==
    (IF item.container THEN writeUint(Len(item.rows)) ELSE <<>>)
        \o FlattenSeq([i \in DOMAIN item.rows |-> writeRow(item.of, item.rows[i])])

deserialize(container, ts, s) ==
    LET head == IF container THEN readUint(s) ELSE [val |-> 1, len |-> 0]
        upTo[i \in 0 .. head.val] ==
            IF i = 0 THEN [val |-> <<>>, len |-> head.len]
            ELSE LET p == upTo[i - 1]
                     r == readRow(ts, SubSeq(s, p.len + 1, Len(s))) IN
                 [val |-> Append(p.val, r.val), len |-> p.len + r.len] IN
    upTo[head.val]

-----------------------------------------------------------------------------
SerializerInit == ArrayInit /\ mode \in {"put", "raw"} /\ written = <<>> /\ got = <<>>

\* s << v
Put ==
    /\ mode = "put" /\ Len(written) < MaxItems
    /\ \E item \in Items : Write(serialize(item)) /\ written' = Append(written, item)
    /\ UNCHANGED <<mode, got>>

\* s.reset()
Reset ==
    /\ mode = "put" /\ written # <<>>
    /\ SetPosition(0) /\ mode' = "get" /\ UNCHANGED <<written, got>>

\* s >> v
Get ==
    /\ mode = "get" /\ Len(got) < Len(written)
    /\ LET item == written[Len(got) + 1]
           d == deserialize(item.container, item.of, fetch(readable)) IN
       Read(d.len) /\ got' = Append(got, d.val)
    /\ UNCHANGED <<mode, written>>

\* operator<< of a Result writes val_ only if code_ is 0, and code_ itself, an
\* enumeration, has no encoding: a failing Result is its message.
FailedResult(item) ==
    ~item.container /\ item.of = <<"RPCState", "string">> /\ item.rows[1][1] # 0

\* operator>> of a Result reads val_ in any case: of a failing one, a varint of bytes
\* that nobody wrote, until one looks like its last or the blocks end.
GetUnwritten ==
    /\ mode = "get" /\ written # <<>> /\ Len(got) = Len(written)
    /\ FailedResult(written[Len(written)])
    /\ \/ mode' = "over" /\ \E n \in 1 .. Groups : Read(n)
       \/ mode' = "crashed" /\ position + Groups > capacity /\ UNCHANGED arrayVars
    /\ UNCHANGED <<written, got>>

\* Mutant: everything that was written, not what is left of it.
ForwardAll ==
    /\ mode = "get" /\ readable > 0
    /\ Fresh([i \in 1 .. size |-> mem[(i - 1) \div Base + 1][(i - 1) % Base]])
    /\ UNCHANGED <<mode, written, got>>

\* Serializer(s.toString()): what is left to read, in a Serializer of its own.
Forward ==
    /\ mode = "get" /\ readable > 0
    /\ Fresh(fetch(readable))
    /\ UNCHANGED <<mode, written, got>>

\* s.clear()
Restart ==
    /\ mode = "get" /\ Len(got) = Len(written)
    /\ Clear /\ mode' = "put" /\ written' = <<>> /\ got' = <<>>

\* The array without encodings: written, received into, read, sent, moved in.
Raw ==
    /\ mode = "raw" /\ UNCHANGED <<mode, written, got>>
    /\ \/ \E w \in RawWrites \cup {<<>>} :
            /\ position + Len(w) <= MaxRaw
            /\ Write(w) \/ \E len \in Len(w) .. MaxRaw - position : ReceiveInto(w, len)
       \/ \E n \in 1 .. readable : Read(n) \/ SendFrom(n)
       \/ \E v \in 0 .. MaxRaw : SetPosition(v)
       \/ Clear

SerializerNext == Put \/ Reset \/ Get \/ GetUnwritten \/ Forward \/ Restart \/ Raw

SerializerSpec == SerializerInit /\ [][SerializerNext]_serializerVars

-----------------------------------------------------------------------------
\* The bytes that were written, in the order of the blocks.
flat == [i \in 1 .. size |-> mem[(i - 1) \div Base + 1][(i - 1) % Base]]
Abstract == INSTANCE ByteString WITH data <- flat, pos <- position

(* curr_ is the block of position_ and capacity_ the size of all blocks after
   any sequence of operations, also when position_ is at the very end of a
   block, where curr_ must be the next one or nullptr: every loop of the class
   trusts it.  Only reading the value of a failing Result moves position_ beyond
   what was written, and curr_ follows it (byte_array.cc:50-75,92-94,441-448).                            *)
CurrInStep ==
    /\ mem \in Seq([0 .. Base - 1 -> Byte \cup {Junk}])
    /\ capacity = Base * Len(mem) /\ size <= capacity
    /\ position \in 0 .. IF mode = "over" THEN capacity ELSE size
    /\ curr = position \div Base + 1

(* What is read is what was written, value by value, across block boundaries,
   for the smallest and largest integers, empty strings and containers, and
   after the rest was handed on; a field of a type without an encoding, such
   as the code of a Result, does not arrive, and the value of a failing Result
   was never written (serializer.h:89-154, rpc.h:82-93).    *)
RoundTrip ==
    \A i \in DOMAIN got :
        /\ Len(got[i]) = Len(written[i].rows)
        /\ \A r \in DOMAIN got[i] : \A f \in DOMAIN written[i].of :
             write(written[i].of[f], written[i].rows[r][f]) # <<>>
                 => got[i][r][f] = written[i].rows[r][f]

(* A list of blocks behaves as one string of bytes: whatever the sequence of
   writes, overwrites, reads, moves of the position, partial receives and
   sends, they never touch a byte elsewhere nor lose one, and a read beyond the
   end changes none (byte_array.cc:77-148,
   416-449,491-616; socket_stream.cc:18-46).                                 *)
ImplementsByteString == Abstract!Spec
=============================================================================
