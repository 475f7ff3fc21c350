------------------------------- MODULE MCPort -------------------------------
(***************************************************************************)
(* Values for the constants of MasterPort.  On a port that scans, every     *)
(* device talks at the slowest rate, the last of the scan, so that the scan *)
(* always goes all the way; on a port with a fixed rate it talks at that    *)
(* rate.  d2 is a device the configuration does not ask for.                *)
(***************************************************************************)
EXTENDS MasterPort

CONSTANTS d1, d2

AllDevices == DevIds \cup {"absent"}

\* A port with a fixed rate is configured for the rate of its device.
MCDevRate ==
    [d \in DevIds |-> IF AutoBaudrate THEN LastRate ELSE ConfigRate]

=============================================================================
