---------------------------- MODULE MCController ----------------------------
(***************************************************************************)
(* Values for MasterController: an IO-Link port and a DQ port, which may    *)
(* change their modes; the host starts shortly before the clock wraps.      *)
(***************************************************************************)
EXTENDS MasterController

MCModeOf == <<"IOLINK", "DQ">>

=============================================================================
