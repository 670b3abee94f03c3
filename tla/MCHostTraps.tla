---------------------------- MODULE MCHostTraps -----------------------------
(* An instance of HostTraps for TLC.                                       *)
EXTENDS HostTraps, TLC

Listable == [i \in Intf |-> IF i = "port" THEN {1, 2} ELSE {1}]

\* Which free element malloc returns makes a difference of names only.
Names == Permutations(Node)

=============================================================================
