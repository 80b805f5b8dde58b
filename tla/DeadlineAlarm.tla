---------------------------- MODULE DeadlineAlarm ----------------------------
(***************************************************************************)
(* _decode_result of hosting/production_wait.py: the parent rebuilds the    *)
(* worker's report under an interval timer, so that a report is never       *)
(* accepted after the deadline and Python work on it cannot outlive it.     *)
(*                                                                          *)
(* SIGALRM is one flag, `pending`: raised by the timer at any moment after  *)
(* the deadline, and taken by the interpreter between any two steps while   *)
(* the signal is not blocked.  Blocking runs a handler that is already due  *)
(* before it returns, as signal.pthread_sigmask does.                       *)
(***************************************************************************)
EXTENDS Naturals

CONSTANTS
    WaitTicks,   \* WAIT_SECONDS: the deadline, on a clock that starts at 0
    ExtraTicks   \* how long after the deadline the clock is followed

ASSUME ClockAssumption == WaitTicks \in Nat \ {0} /\ ExtraTicks \in Nat

VARIABLES
    clock,
    alarmPc,     \* the next step of _decode_result, "idle" outside it
    decoding,    \* the flag the handler reads
    outcome,     \* "none", "report", "invalid", "deadline" or "enforcement"
    handler,     \* whose handler SIGALRM has: "caller" or "ours"
    timer,       \* whether our interval timer is armed
    masked,      \* whether SIGALRM is blocked
    pending,     \* an alarm of ours not yet handled
    callerAlarm, \* "free", or "busy": the caller blocks or uses SIGALRM
    callerRan    \* the caller's handler was run by our alarm

alarmVars == <<alarmPc, decoding, outcome, handler, timer, masked, pending,
               callerAlarm, callerRan>>

Deadline == WaitTicks

AlarmPcs == {"idle", "install", "arm", "parse", "parsed", "check", "block",
             "disarm", "consume", "restore", "unmask", "done"}
Outcomes == {"none", "report", "invalid", "deadline", "enforcement"}

AlarmTypeOK ==
    /\ clock \in 0..(WaitTicks + ExtraTicks)
    /\ alarmPc \in AlarmPcs
    /\ decoding \in BOOLEAN
    /\ outcome \in Outcomes
    /\ handler \in {"caller", "ours"}
    /\ timer \in BOOLEAN
    /\ masked \in BOOLEAN
    /\ pending \in BOOLEAN
    /\ callerAlarm \in {"free", "busy"}
    /\ callerRan \in BOOLEAN

AlarmInit ==
    /\ alarmPc = "idle"
    /\ decoding = FALSE
    /\ outcome = "none"
    /\ handler = "caller"
    /\ timer = FALSE
    /\ masked = FALSE
    /\ pending = FALSE
    /\ callerAlarm \in {"free", "busy"}
    /\ callerRan = FALSE

(***************************************************************************)
(* The steps.  Every failure on the way jumps to the cleanup of `finally`.  *)
(***************************************************************************)

\* The timer cannot be used safely, or there is no time left: nothing of the
\* caller's is touched.
DecodeRefused ==
    /\ alarmPc = "idle"
    /\ callerAlarm = "busy" \/ clock >= Deadline
    /\ outcome' = IF callerAlarm = "busy" THEN "enforcement" ELSE "deadline"
    /\ alarmPc' = "done"
    /\ UNCHANGED <<clock, decoding, handler, timer, masked, pending, callerAlarm, callerRan>>

DecodeBegins ==
    /\ alarmPc = "idle"
    /\ callerAlarm = "free"
    /\ clock < Deadline
    /\ decoding' = TRUE
    /\ alarmPc' = "install"
    /\ UNCHANGED <<clock, outcome, handler, timer, masked, pending, callerAlarm, callerRan>>

\* signal.signal, which the platform may refuse.
InstallHandler ==
    /\ alarmPc = "install"
    /\ \/ handler' = "ours" /\ alarmPc' = "arm" /\ UNCHANGED <<outcome, decoding>>
       \/ /\ outcome' = "enforcement" /\ decoding' = FALSE /\ alarmPc' = "block"
          /\ UNCHANGED handler
    /\ UNCHANGED <<clock, timer, masked, pending, callerAlarm, callerRan>>

\* The time left is taken again before it is given to the timer.
ArmTimer ==
    /\ alarmPc = "arm"
    /\ \/ clock < Deadline /\ timer' = TRUE /\ alarmPc' = "parse" /\ UNCHANGED <<outcome, decoding>>
       \/ /\ clock >= Deadline
          /\ outcome' = "deadline" /\ decoding' = FALSE /\ alarmPc' = "block"
          /\ UNCHANGED timer
    /\ UNCHANGED <<clock, handler, masked, pending, callerAlarm, callerRan>>

\* The report validates, or its ValueError becomes a failed probe.
ParseReport ==
    /\ alarmPc = "parse"
    /\ outcome' \in {"report", "invalid"}
    /\ alarmPc' = "parsed"
    /\ UNCHANGED <<clock, decoding, handler, timer, masked, pending, callerAlarm, callerRan>>

StopDecoding ==
    /\ alarmPc = "parsed"
    /\ decoding' = FALSE
    /\ alarmPc' = "check"
    /\ UNCHANGED <<clock, outcome, handler, timer, masked, pending, callerAlarm, callerRan>>

\* "Never accept a result after its deadline."
CheckDeadline ==
    /\ alarmPc = "check"
    /\ outcome' = IF clock >= Deadline THEN "deadline" ELSE outcome
    /\ alarmPc' = "block"
    /\ UNCHANGED <<clock, decoding, handler, timer, masked, pending, callerAlarm, callerRan>>

\* An alarm that is due when the signal is blocked is handled on the way: its
\* handler only raises while decoding.
BlockAlarm ==
    /\ alarmPc = "block"
    /\ masked' = TRUE
    /\ pending' = FALSE
    /\ callerRan' = (callerRan \/ (pending /\ handler = "caller"))
    /\ alarmPc' = "disarm"
    /\ UNCHANGED <<clock, decoding, outcome, handler, timer, callerAlarm>>

DisarmTimer ==
    /\ alarmPc = "disarm"
    /\ timer' = FALSE
    /\ alarmPc' = "consume"
    /\ UNCHANGED <<clock, decoding, outcome, handler, masked, pending, callerAlarm, callerRan>>

\* *mutation*: the pending alarm is left to the mask
LeavePendingAlarm ==
    /\ alarmPc = "consume"
    /\ alarmPc' = "restore"
    /\ UNCHANGED <<clock, decoding, outcome, handler, timer, masked, pending, callerAlarm, callerRan>>

\* signal.sigwait takes an alarm that came between blocking and disarming.
ConsumeAlarm ==
    /\ alarmPc = "consume"
    /\ pending' = FALSE
    /\ alarmPc' = "restore"
    /\ UNCHANGED <<clock, decoding, outcome, handler, timer, masked, callerAlarm, callerRan>>

RestoreHandler ==
    /\ alarmPc = "restore"
    /\ handler' = "caller"
    /\ alarmPc' = "unmask"
    /\ UNCHANGED <<clock, decoding, outcome, timer, masked, pending, callerAlarm, callerRan>>

UnmaskAlarm ==
    /\ alarmPc = "unmask"
    /\ masked' = FALSE
    /\ alarmPc' = "done"
    /\ UNCHANGED <<clock, decoding, outcome, handler, timer, pending, callerAlarm, callerRan>>

(***************************************************************************)
(* The timer and the signal.                                                *)
(***************************************************************************)
TimerFires ==
    /\ timer /\ clock >= Deadline
    /\ timer' = FALSE
    /\ pending' = TRUE
    /\ UNCHANGED <<clock, alarmPc, decoding, outcome, handler, masked, callerAlarm, callerRan>>

\* `expired`: it raises out of the try block while decoding, else it returns.
TakeAlarm ==
    /\ pending /\ ~masked
    /\ pending' = FALSE
    /\ callerRan' = (callerRan \/ handler = "caller")
    /\ IF handler = "ours" /\ decoding
       THEN outcome' = "deadline" /\ decoding' = FALSE /\ alarmPc' = "block"
       ELSE UNCHANGED <<outcome, decoding, alarmPc>>
    /\ UNCHANGED <<clock, handler, timer, masked, callerAlarm>>

DecodeNext ==
    \/ DecodeRefused \/ DecodeBegins \/ InstallHandler \/ ArmTimer \/ ParseReport
    \/ StopDecoding \/ CheckDeadline \/ BlockAlarm \/ DisarmTimer \/ ConsumeAlarm
    \/ RestoreHandler \/ UnmaskAlarm

(***************************************************************************)
(* An alarm of ours never runs the caller's handler, and outside the        *)
(* decoding the caller finds the signal as it left it: its own handler, no  *)
(* timer, nothing blocked and nothing pending.  (The `finally` of           *)
(* _decode_result, for every moment the alarm may fire.)                    *)
(***************************************************************************)
CallerAlarmUndisturbed ==
    /\ ~callerRan
    /\ alarmPc \in {"idle", "done"} =>
          handler = "caller" /\ ~timer /\ ~masked /\ ~pending
=============================================================================
