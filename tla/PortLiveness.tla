---------------------------- MODULE PortLiveness ----------------------------
(***************************************************************************)
(* What must eventually happen on a timed port whose host keeps ticking it. *)
(*                                                                          *)
(* Fairness.  The host ticks the port again and again, and time passes:     *)
(* both are the host's part of the contract (docs/PORTING.md,               *)
(* docs/PHY_BOUNDARY.md).  A connected device hears one of infinitely many  *)
(* wake-up requests, and answers one of infinitely many requests within the *)
(* answer window.  Nothing else is assumed.                                 *)
(***************************************************************************)
EXTENDS MasterPort

VARIABLE beat     \* flips with every tick, whether or not the tick does anything

lvars == <<vars, beat>>

Tick == \E c \in Choices : TickAt(c)

LInit == Init /\ beat = FALSE

LNext ==
    \/ Tick /\ beat' = ~beat
    \/ Next /\ UNCHANGED beat

AnsweredInTime ==
    /\ port.awaiting_response => port.deadline > 0
    /\ \E cks \in CksOctets : Answer(cks)
    /\ UNCHANGED beat

HearsWakeUps == []<>(port.tx = "wake" /\ dev # "absent") => []<>awake

Fairness ==
    /\ []<>beat /\ []<>~beat
    /\ WF_lvars(Elapse /\ UNCHANGED beat)
    /\ SF_lvars(AnsweredInTime)
    /\ HearsWakeUps

FairSpec == LInit /\ [][LNext]_lvars /\ Fairness

-----------------------------------------------------------------------------

\* A device that stays connected is brought into OPERATE, however often the
\* scan or the exchange fails on the way (Figure 36, restart_establish).
ComesUp == dev # "absent" ~> port.state = "OPERATE" \/ dev = "absent"

\* A port without communication never stops asking for it: the wake-up
\* sequence starts again after every pause (process_at, STEP_INACTIVE).
KeepsTrying ==
    []<>(port.state \in {"PREOPERATE", "OPERATE"} \/ port.tx = "wake")

\* A device that is gone is noticed: the port leaves OPERATE for the wake-up
\* procedure (on_timeout_at after MaxRetry, restart_establish).
RemovalNoticed ==
    port.state = "OPERATE" /\ dev = "absent"
        ~> port.state = "STARTUP" \/ dev # "absent"

\* The same of every state that claims communication: the loss of a device
\* is an observable state, not a hang (response timeout in every exchange).
LossObserved ==
    port.state \in {"PREOPERATE", "OPERATE"} /\ dev = "absent"
        ~> port.state \notin {"PREOPERATE", "OPERATE"} \/ dev # "absent"

=============================================================================
