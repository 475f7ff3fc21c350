------------------------------- MODULE MCLive -------------------------------
(***************************************************************************)
(* The same values for the port under fairness.                             *)
(***************************************************************************)
EXTENDS MCPort, PortLiveness

=============================================================================
