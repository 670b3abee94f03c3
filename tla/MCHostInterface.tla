-------------------------- MODULE MCHostInterface ---------------------------
(* An instance of HostInterface for TLC.                                   *)
EXTENDS HostInterface

CONSTANTS swp1, swp2, swp3

=============================================================================
