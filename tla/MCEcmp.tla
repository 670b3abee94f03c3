------------------------------- MODULE MCEcmp -------------------------------
(* Instances of EcmpForwarding for TLC.                                    *)
EXTENDS EcmpForwarding

CONSTANTS ip1, ip2, ip3, noIp

NoRoutes == [p \in Prefix |-> p]
NoStack == {InvalidId}

=============================================================================
