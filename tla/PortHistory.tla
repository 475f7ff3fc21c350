---------------------------- MODULE PortHistory -----------------------------
(***************************************************************************)
(* MasterPort with an observer of the line beside it.  The observer sees    *)
(* what goes over the wire and when, and reads nothing of the port but its  *)
(* state; the properties relate the port's decisions to what was observed.  *)
(***************************************************************************)
EXTENDS MasterPort

VARIABLES
    quiet,       \* time since the port last moved on in STARTUP, capped
    fresh,       \* no wake-up was sent since the port was initialised
    wakes,       \* wake-ups since the port last gave up, talked or was reset
    unanswered   \* cyclic requests since the device last answered intact

hvars == <<vars, quiet, fresh, wakes, unanswered>>

HoldOff == TDwu + TSd + TRen + TDmt     \* bound of quiet

Upto(n, bound) == IF n < bound THEN n + 1 ELSE n

HInit ==
    /\ Init
    /\ quiet = 0 /\ fresh = TRUE /\ wakes = 0 /\ unanswered = 0

Moved == <<port.state, port.step, port.baudrate_index>>
            # <<port'.state, port'.step, port'.baudrate_index>>

Observe ==
    /\ quiet' = IF Moved THEN 0
                ELSE IF Elapse THEN Upto(quiet, HoldOff) ELSE quiet
    /\ wakes' = IF port'.tx = "wake" THEN Upto(wakes, WakeRetryLimit + 2)
                ELSE IF port'.state # "STARTUP" \/ port'.step = "INACTIVE"
                THEN 0 ELSE wakes
    /\ unanswered' =
          IF port'.tx = "cyclic"
          THEN Upto(IF port.state = "OPERATE" THEN unanswered ELSE 0,
                    RxRetryLimit + 2)
          ELSE IF \E cks \in CksOctets : Answer(cks) THEN 0
          ELSE unanswered

HNext ==
    \/ Next /\ Observe /\ ~(\E c \in Choices : Restart(c))
            /\ fresh' = (fresh /\ port'.tx # "wake")
    \/ /\ \E c \in Choices : Restart(c)
       /\ quiet' = 0 /\ fresh' = TRUE /\ wakes' = 0 /\ unanswered' = 0

HSpec == HInit /\ [][HNext]_hvars

-----------------------------------------------------------------------------
(* Properties.                                                             *)

\* A wake-up request keeps T_DWU from the failed attempt or the lost
\* connection before it, T_SD from the sequence given up before it; the first
\* after initialisation needs no delay (arm_send_gate, restart_establish).
WakeHoldOff ==
    [][port'.tx = "wake" /\ ~fresh
          => quiet >= (IF port.step = "INACTIVE" THEN TSd ELSE TDwu)]_hvars

\* A test message keeps T_REN and T_DMT from the wake-up, T_DMT from the test
\* message at the previous rate (process_at, establish_attempt_failed).
TestHoldOff ==
    [][port'.tx = "test"
          => quiet >= TDmt + (IF port.baudrate_index = 0 THEN TRen ELSE 0)]_hvars

\* One sequence makes at most n_WU + 1 wake-up requests (wake_attempts).
WakeBudget == wakes <= WakeRetryLimit + 1

\* Communication in OPERATE is given up only when the request and both of its
\* retries went unanswered (on_timeout_at, on_rx).
LossTolerance ==
    [][port.state = "OPERATE" /\ port'.state = "STARTUP"
          => unanswered > RxRetryLimit \/ (\E c \in Choices : Restart(c))]_hvars

\* And it is then given up at once: the port never stays in OPERATE with a third
\* retry of a request that nobody answers (on_timeout_at).
LossNoticed == port.state = "OPERATE" => unanswered <= RxRetryLimit + 1

=============================================================================
