------------------------------ MODULE ByteArray ------------------------------
(***************************************************************************)
(* ByteArray: a string of bytes on a list of blocks (byte_array.h,         *)
(* byte_array.cc), and the two ways SocketStream uses one                  *)
(* (socket_stream.cc).                                                     *)
(*                                                                         *)
(* curr is the block of curr_, Len(mem) + 1 for nullptr.  The loops of     *)
(* read, write, getReadBuffers and getWriteBuffers go from block to block  *)
(* starting at curr_: the bytes they touch are those from curr_ on,        *)
(* counted from the offset of position_ in its block.                      *)
(***************************************************************************)
EXTENDS Codec, SequencesExt

CONSTANTS
    Base,       \* base_size_
    MaxNodes    \* blocks a ByteArray may grow to (bound)

ASSUME ByteArrayAssumption == Base \in Nat \ {0} /\ MaxNodes \in Nat \ {0}

Junk == -1   \* the contents of fresh memory

VARIABLES mem, curr, position, capacity, size,
          io      \* the bytes the last operation transferred

arrayVars == <<mem, curr, position, capacity, size, io>>

blank == [j \in 0 .. Base - 1 |-> Junk]
blanks(n) == [i \in 1 .. n |-> blank]

ArrayInit ==
    mem = <<blank>> /\ curr = 1 /\ position = 0 /\ capacity = Base /\ size = 0 /\ io = <<>>

readable == size - position
offset == position % Base      \* of the position in its block
larger(a, b) == IF a > b THEN a ELSE b
blocksFor(n) == (n + Base - 1) \div Base

-----------------------------------------------------------------------------
\* addCapacity(n): the blocks it appends; curr_ is set only when there was no
\* room at all.
extra(n) == IF n <= capacity - position THEN 0 ELSE blocksFor(n - (capacity - position))
currFor(n) == IF capacity = position /\ extra(n) > 0 THEN Len(mem) + 1 ELSE curr
room(n) == Len(mem) + extra(n) <= MaxNodes

\* The blocks m with the bytes w stored from block c on, at the given offset.
stored(m, c, o, w) ==
    [k \in 1 .. Len(m) |-> [j \in 0 .. Base - 1 |->
        LET i == (k - c) * Base + j - o + 1 IN
        IF i \in DOMAIN w THEN w[i] ELSE m[k][j]]]

\* Mutant: curr_ stays on a block that was filled to its last byte.
WriteStays(w) ==
    LET n == Len(w) IN
    /\ w # <<>> /\ room(n)
    /\ mem' = stored(mem \o blanks(extra(n)), currFor(n), offset, w)
    /\ curr' = currFor(n) + (offset + n - 1) \div Base
    /\ capacity' = capacity + extra(n) * Base
    /\ position' = position + n /\ size' = larger(size, position + n)
    /\ io' = w

\* write(buf, size)
Write(w) ==
    LET n == Len(w) IN
    /\ w # <<>> /\ room(n)
    /\ mem' = stored(mem \o blanks(extra(n)), currFor(n), offset, w)
    /\ curr' = currFor(n) + (offset + n) \div Base
    /\ capacity' = capacity + extra(n) * Base
    /\ position' = position + n /\ size' = larger(size, position + n)
    /\ io' = w

\* The n bytes from curr_ on; what toString() returns for n = readable.
fetch(n) ==
    [i \in 1 .. n |-> LET o == offset + i - 1 IN mem[curr + o \div Base][o % Base]]

\* read(buf, size).  Nothing in it checks that as much was written: beyond the end
\* it goes on with what the blocks hold, and after the last block curr_ is nullptr.
Read(n) ==
    /\ n > 0 /\ position + n <= capacity
    /\ io' = fetch(n)
    /\ curr' = curr + (offset + n) \div Base
    /\ position' = position + n
    /\ UNCHANGED <<mem, capacity, size>>

\* setPosition(v): the block is searched from the head.
seek(v) ==
    /\ position' = v /\ size' = larger(size, v)
    /\ curr' = IF v = 0 THEN 1
               ELSE LET k == blocksFor(v) IN IF v = k * Base THEN k + 1 ELSE k

\* Beyond capacity_ it throws and nothing changes.
SetPosition(v) ==
    /\ v \in 0 .. capacity /\ seek(v)
    /\ io' = <<>> /\ UNCHANGED <<mem, capacity>>

\* clear(): back to the first block, whose bytes stay as they are.
Clear ==
    /\ mem' = <<mem[1]>> /\ curr' = 1 /\ position' = 0 /\ size' = 0 /\ capacity' = Base
    /\ io' = <<>>

\* A fresh ByteArray, written with w and set to its start.
Fresh(w) ==
    LET k == larger(1, blocksFor(Len(w))) IN
    /\ k <= MaxNodes
    /\ mem' = stored(blanks(k), 1, 0, w) /\ capacity' = k * Base
    /\ curr' = 1 /\ position' = 0 /\ size' = Len(w) /\ io' = w

-----------------------------------------------------------------------------
\* Mutant: the position moves over all the room, filled or not.
ReceiveWhole(w, len) ==
    /\ len > 0 /\ Len(w) <= len /\ room(len)
    /\ mem' = stored(mem \o blanks(extra(len)), currFor(len), offset, w)
    /\ capacity' = capacity + extra(len) * Base
    /\ seek(position + len)
    /\ io' = w

\* SocketStream::read(ba, len): room for len bytes, of which the socket fills the
\* first with w, and setPosition() after them.  When recv fails or the stream has
\* ended, w is empty: the room was made all the same.
ReceiveInto(w, len) ==
    /\ len > 0 /\ Len(w) <= len /\ room(len)
    /\ mem' = stored(mem \o blanks(extra(len)), currFor(len), offset, w)
    /\ capacity' = capacity + extra(len) * Base
    /\ IF w = <<>> THEN curr' = currFor(len) /\ UNCHANGED <<position, size>>
       ELSE seek(position + Len(w))
    /\ io' = w

\* SocketStream::write(ba, len): the socket takes the first n of the readable bytes.
SendFrom(n) ==
    /\ n \in 1 .. readable
    /\ io' = fetch(n)
    /\ seek(position + n)
    /\ UNCHANGED <<mem, capacity>>
=============================================================================
