-------------------------- MODULE MCConnectionPool --------------------------
(* The instance of the runs of module ConnectionPool: a server with two      *)
(* services that may go down and one with a single service that stays.       *)
EXTENDS ConnectionPool

CONSTANTS s1, s2, a1, a2

MCOffers == [a \in {a1, a2} |-> IF a = a1 THEN <<s1, s2>> ELSE <<s1>>]
=============================================================================
