---------------------------- MODULE EstablishCom ----------------------------
(***************************************************************************)
(* What the port promises of establishing communication, without timers,   *)
(* frames or PHY calls: Figure 36 and Table 44 as the comments of          *)
(* iolink_master_establish_attempt_failed and of iolink_master_config_t    *)
(* restate them.  After every wake-up request (WURQ) each rate of the scan *)
(* is tested once, fastest first; a fruitless scan is repeated n_WU times  *)
(* before the sequence is given up and the PHY pauses.                     *)
(***************************************************************************)
EXTENDS Naturals

CONSTANTS
    nWU,          \* wake-up retries of one sequence
    Rates,        \* the rates of the scan, as indices, fastest first
    Restartable   \* the application may initialise the port again

VARIABLES
    phase,    \* where the procedure is
    rate,     \* the rate under test, or the established one
    retry,    \* wake-up retries spent in this sequence
    line      \* what the last step put on the line

vars == <<phase, rate, retry, line>>

First == CHOOSE r \in Rates : \A s \in Rates : r <= s
Last == CHOOSE r \in Rates : \A s \in Rates : s <= r

Init ==
    /\ phase \in {"wurq", "fault"}
    /\ rate = First /\ retry = 0 /\ line = "none"

WakeUp ==
    /\ phase \in {"wurq", "pause"} /\ rate = First
    /\ phase' = "test" /\ line' = "wake"
    /\ UNCHANGED <<rate, retry>>

Test ==
    /\ phase = "test"
    /\ phase' = "await" /\ line' = "test"
    /\ UNCHANGED <<rate, retry>>

Answered ==
    /\ phase = "await"
    /\ phase' = "com" /\ retry' = 0 /\ line' = "none"
    /\ UNCHANGED rate

NextRate ==
    /\ phase = "await" /\ rate # Last
    /\ phase' = "test" /\ rate' = rate + 1 /\ line' = "none"
    /\ UNCHANGED retry

RetryWakeUp ==
    /\ phase = "await" /\ rate = Last /\ retry < nWU
    /\ phase' = "wurq" /\ rate' = First /\ retry' = retry + 1
    /\ line' = "none"

GiveUp ==
    /\ phase = "await" /\ rate = Last /\ retry = nWU
    /\ phase' = "pause" /\ rate' = First /\ retry' = 0 /\ line' = "none"

ComLost ==
    /\ phase = "com"
    /\ phase' = "wurq" /\ rate' = First /\ retry' = 0 /\ line' = "none"

\* A PHY failure, or a device refused by the inspection, stops the port.
Fault ==
    /\ phase' = "fault" /\ line' = "none"
    /\ rate' \in Rates /\ retry' \in 0..(nWU + 1)

Restart ==
    /\ Restartable
    /\ phase' = "wurq" /\ rate' = First /\ retry' = 0 /\ line' = "none"

Quiet == line' = "none" /\ UNCHANGED <<phase, rate, retry>>

Next ==
    \/ WakeUp \/ Test \/ Answered \/ NextRate \/ RetryWakeUp \/ GiveUp
    \/ ComLost \/ Fault \/ Restart \/ Quiet

Spec == Init /\ [][Next]_vars

=============================================================================
