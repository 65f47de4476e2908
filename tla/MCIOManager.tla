---------------------------- MODULE MCIOManager ----------------------------
(* The instances of IOManager that TLC checks. *)
EXTENDS IOManager

CONSTANTS s1, s2

MCFds == {s1, s2}

\* One socket and what can happen to it: without the pipe, without a hang-up, without
\* close.
Lone(missing) == [fds |-> {s1}, timed |-> {"READ"}, calls |-> 2, fired |-> 1,
                  others |-> Others \ {missing}]

\* Several rounds of a call with a timeout, whose callbacks may run late.
Rounds == [fds |-> {s1}, timed |-> {"READ"}, calls |-> 3, fired |-> 2,
           others |-> {"Notify"}]

\* Two sockets reported together.
Batch == [fds |-> {s1, s2}, timed |-> {}, calls |-> 2, fired |-> 0, others |-> {"HUP"}]

MCScopes == {Lone("Notify"), Lone("HUP"), Lone("close"), Rounds, Batch}

\* One call and everything that can happen, for the reference configurations.
MCSmallScopes == {[fds |-> {s1}, timed |-> {}, calls |-> 1, fired |-> 0, others |-> Others]}
=============================================================================
