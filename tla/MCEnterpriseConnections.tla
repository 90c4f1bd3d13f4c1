----------------------- MODULE MCEnterpriseConnections -----------------------
(* Instances of EnterpriseConnections for TLC. *)
EXTENDS EnterpriseConnections
=============================================================================
