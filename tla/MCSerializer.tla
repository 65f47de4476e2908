---------------------------- MODULE MCSerializer ----------------------------
(* The values of the run of module Serializer, with bytes of 3 bits and      *)
(* integers of 5: a varint has 1 to 3 bytes.                                 *)
EXTENDS Serializer

One(t, v) == [container |-> FALSE, of |-> <<t>>, rows |-> <<<<v>>>>]

MCItems ==
    {One("bool", 1), One("u8", 7), One("i8", -4), One("u16", 56), One("i16", -32), One("i16", 31),
     One("float", 41)}
    \cup {One("u32", v) : v \in {0, 3, 4, 15, 16, 31}}
    \cup {One("i32", v) : v \in {-16, -2, -1, 0, 15}}
    \cup {One("string", v) : v \in {<<>>, <<5>>, <<1, 7, 2, 3>>}}
    \cup {One("stringF", v) : v \in {<<>>, <<6, 1>>}}
    \cup {[container |-> FALSE, of |-> <<"RPCState", "string", "i32">>, rows |-> <<<<0, <<4>>, -9>>>>]}
    \cup {[container |-> FALSE, of |-> <<"RPCState", "string">>, rows |-> <<<<1, m>>>>] : m \in {<<>>, <<4>>}}
    \cup {[container |-> TRUE, of |-> <<"i32">>, rows |-> r] : r \in {<<>>, <<<<-1>>, <<15>>>>}}
    \cup {[container |-> TRUE, of |-> <<"string", "u8">>, rows |-> <<<<<<2>>, 3>>, <<<<>>, 0>>>>]}

MCRawWrites == {<<1>>, <<2, 1>>, <<1, 2, 2>>}
=============================================================================
