-------------------------------- MODULE MCLag --------------------------------
(* Instances of Lag for TLC.  Ports are interchangeable.                   *)
EXTENDS Lag, TLC

PortSymmetry == Permutations(Port)

=============================================================================
