----------------------------- MODULE MCHistory ------------------------------
(***************************************************************************)
(* The same values for the port with its observer.                          *)
(***************************************************************************)
EXTENDS MCPort, PortHistory

=============================================================================
