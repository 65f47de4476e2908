----------------------------- MODULE ByteString -----------------------------
(***************************************************************************)
(* What a ByteArray promises: a string of bytes with one position for      *)
(* reading and writing.  A write overwrites from the position on and       *)
(* extends the string, a read delivers the bytes from the position on,     *)
(* and moving the position beyond the end extends the string with bytes    *)
(* of unspecified value.  io is what the last step transferred.            *)
(***************************************************************************)
EXTENDS Naturals, Sequences

VARIABLES data, pos, io

Init == data = <<>> /\ pos = 0 /\ io = <<>>

Write ==
    /\ io' # <<>>
    /\ data' = SubSeq(data, 1, pos) \o io' \o SubSeq(data, pos + Len(io') + 1, Len(data))
    /\ pos' = pos + Len(io')

Read ==
    /\ io' # <<>> /\ pos + Len(io') <= Len(data)
    /\ io' = SubSeq(data, pos + 1, pos + Len(io'))
    /\ pos' = pos + Len(io') /\ UNCHANGED data

\* Nothing stops a read at the end of the string; what it delivers from there on
\* is unspecified.
ReadBeyond ==
    /\ pos <= Len(data) /\ pos + Len(io') > Len(data)
    /\ SubSeq(io', 1, Len(data) - pos) = SubSeq(data, pos + 1, Len(data))
    /\ pos' = pos + Len(io') /\ UNCHANGED data

Seek ==
    /\ io' = <<>>
    /\ Len(data') >= Len(data) /\ SubSeq(data', 1, Len(data)) = data
    /\ pos' = Len(data') \/ (UNCHANGED data /\ pos' <= Len(data))

\* A string of given bytes, read from its start; the empty one after clear().
Assign == data' = io' /\ pos' = 0

Next == Write \/ Read \/ ReadBeyond \/ Seek \/ Assign

Spec == Init /\ [][Next]_<<data, pos, io>>
=============================================================================
