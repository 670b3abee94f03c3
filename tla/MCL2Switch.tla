----------------------------- MODULE MCL2Switch -----------------------------
(* L2Switch on a small instance: see the README for the bounds.            *)
EXTENDS L2Switch

=============================================================================
