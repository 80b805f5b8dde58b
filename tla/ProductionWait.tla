--------------------------- MODULE ProductionWait ----------------------------
(***************************************************************************)
(* `hosting check-production`, with and without --wait: the probe of        *)
(* hosting/production_probe.py asks one request after the other while the   *)
(* site may move on to a later deployment, and the wait of                  *)
(* hosting/production_wait.py repeats it until two consecutive complete     *)
(* strict passes or the deadline.  The report of a worker is rebuilt by     *)
(* DeadlineAlarm; its evaluation is ProductionCheck.                        *)
(***************************************************************************)
EXTENDS ProductionCheck, DeadlineAlarm

CONSTANTS
    Deployments,   \* 1..n, in the order the site moves through them
    Content,       \* what each deployment serves
    Interval,      \* ATTEMPT_INTERVAL
    ActiveWindows, \* what the calendar may say of a strict check
    MaxErrors      \* bound: requests that fail in transport

ASSUME DeploymentAssumption ==
    /\ IsFiniteSet(Deployments) /\ Deployments = 1..Cardinality(Deployments)
    /\ Deployments # {}
    /\ DOMAIN Content = Deployments
    /\ Interval \in Nat \ {0}
    /\ MaxErrors \in Nat
    /\ ActiveWindows \subseteq BOOLEAN /\ ActiveWindows # {}

VARIABLES
    mode,          \* "wait", "release" (strict, once) or "availability"
    activeWindow,  \* the calendar has an election day due
    live,          \* the deployment the site serves
    errors,        \* transport errors so far
    waitPc,        \* the wait's next step
    startedAt,     \* when the attempt began
    attempts,      \* reports of the finished attempts
    successful,    \* indices of the last consecutive complete passes
    probe,         \* the worker: its state, its requests to make, its report
    result         \* what the wait returns

waitVars == <<mode, activeWindow, live, errors, waitPc, startedAt, attempts,
              successful, probe, result>>
waitingVars == <<clock, alarmVars, waitVars>>

NoProbe == [state |-> "off", todo |-> << >>, report |-> EmptyReport]
NoResult == [ok |-> FALSE, indices |-> << >>, timedOut |-> FALSE]

Strict == mode # "availability"

WaitTypeOK ==
    /\ AlarmTypeOK
    /\ mode \in {"wait", "release", "availability"}
    /\ activeWindow \in BOOLEAN
    /\ live \in Deployments
    /\ errors \in 0..MaxErrors
    /\ waitPc \in {"loop", "probing", "decoding", "judge", "sleep", "report", "done"}
    /\ startedAt \in 0..WaitTicks
    /\ successful \in Seq(Nat) /\ Len(successful) <= 2
    /\ probe.state \in {"off", "manifest", "requests", "sent", "lost"}
    /\ \A i \in 1..Len(successful) : successful[i] \in 1..Len(attempts)

WaitInit ==
    /\ clock = 0
    /\ AlarmInit
    /\ mode \in {"wait", "release", "availability"}
    /\ activeWindow \in IF mode = "availability" THEN {FALSE} ELSE ActiveWindows
    /\ live = 1
    /\ errors = 0
    /\ waitPc = "loop"
    /\ startedAt = 0
    /\ attempts = << >>
    /\ successful = << >>
    /\ probe = NoProbe
    /\ result = NoResult

(***************************************************************************)
(* The world: time passes, and the site moves on.                           *)
(***************************************************************************)
Tick ==
    /\ mode = "wait"
    /\ waitPc # "done"
    /\ clock < WaitTicks + ExtraTicks
    /\ clock' = clock + 1
    /\ UNCHANGED <<alarmVars, waitVars>>

\* Only a request sees the site, so it moves while a probe is under way.
Deploy ==
    /\ probe.state \in {"manifest", "requests"}
    /\ live + 1 \in Deployments
    /\ live' = live + 1
    /\ UNCHANGED <<clock, alarmVars, mode, activeWindow, errors, waitPc, startedAt,
                   attempts, successful, probe, result>>

(***************************************************************************)
(* The worker: run_production_check, one request at a time.                 *)
(***************************************************************************)
WorkerVars == <<clock, alarmVars, mode, activeWindow, live, waitPc, startedAt,
                attempts, successful, result>>

\* A transport error, or an allowance that is used up: no status is observed.
MayFail == errors < MaxErrors \/ clock >= Deadline
CountError == errors' = IF errors < MaxErrors THEN errors + 1 ELSE errors

FetchManifest ==
    LET manifest == Content[live].manifest
        parsed == [EmptyReport EXCEPT
                      !.manifest = TRUE,
                      !.contract = IF Strict THEN manifest ELSE NoContract,
                      !.sources = {live}]
    IN  /\ probe.state = "manifest"
        /\ clock < Deadline
        /\ probe' = [state |-> "requests",
                     todo |-> PlanRequests(manifest, Strict, activeWindow),
                     report |-> parsed]
        /\ UNCHANGED errors
        /\ UNCHANGED WorkerVars

\* No manifest, or one that does not parse: no route is asked for.
ManifestFails ==
    /\ probe.state = "manifest"
    /\ MayFail
    /\ CountError
    /\ probe' = [state |-> "sent", todo |-> << >>, report |-> EmptyReport]
    /\ UNCHANGED WorkerVars

Observe(ok, sources) ==
    LET check == Head(probe.todo)
    IN  probe' = [probe EXCEPT
                     !.todo = Tail(probe.todo),
                     !.report.checks = Append(@, check),
                     !.report.allOk = @ /\ ok,
                     !.report.sources = @ \cup sources]

Request ==
    /\ probe.state = "requests"
    /\ probe.todo # << >>
    /\ \/ /\ clock < Deadline
          /\ Observe(Passes(Head(probe.todo), Content[live]), {live})
          /\ UNCHANGED errors
       \/ MayFail /\ CountError /\ Observe(FALSE, {})
    /\ UNCHANGED WorkerVars

SendReport ==
    /\ probe.state = "requests"
    /\ probe.todo = << >>
    /\ probe' = [probe EXCEPT !.state = "sent"]
    /\ UNCHANGED errors
    /\ UNCHANGED WorkerVars

\* The worker raises, dies or sends more than the parent takes.
WorkerFails ==
    /\ mode = "wait"
    /\ probe.state \in {"manifest", "requests"}
    /\ errors < MaxErrors
    /\ errors' = errors + 1
    /\ probe' = [probe EXCEPT !.state = "lost"]
    /\ UNCHANGED WorkerVars

(***************************************************************************)
(* The wait.                                                                *)
(***************************************************************************)
StartProbe ==
    /\ waitPc = "loop"
    /\ mode = "wait" => clock < Deadline
    /\ startedAt' = clock
    /\ \/ /\ mode = "wait" => callerAlarm = "free"
          /\ probe' = [NoProbe EXCEPT !.state = "manifest"]
          /\ waitPc' = "probing"
          /\ UNCHANGED attempts
       \/ /\ mode = "wait" /\ callerAlarm = "busy"
          /\ attempts' = Append(attempts, FailedProbe("enforcement"))
          /\ waitPc' = "judge"
          /\ UNCHANGED probe
    /\ UNCHANGED <<clock, alarmVars, mode, activeWindow, live, errors, successful, result>>

Finish(report, next) ==
    /\ attempts' = Append(attempts, report)
    /\ probe' = NoProbe
    /\ waitPc' = next

\* The one check without --wait: its report is the command's.
ReportOnce ==
    /\ mode # "wait"
    /\ waitPc = "probing"
    /\ probe.state = "sent"
    /\ Finish(probe.report, "done")
    /\ result' = [ok |-> ReportOk(probe.report), indices |-> << >>, timedOut |-> FALSE]
    /\ UNCHANGED <<clock, alarmVars, mode, activeWindow, live, errors, startedAt, successful>>

\* The end of the stream before the deadline: the report is decoded.
ReceiveReport ==
    /\ mode = "wait"
    /\ waitPc = "probing"
    /\ probe.state = "sent"
    /\ clock < Deadline
    /\ waitPc' = "decoding"
    /\ alarmPc' = "idle"
    /\ outcome' = "none"
    /\ UNCHANGED <<clock, decoding, handler, timer, masked, pending, callerAlarm, callerRan,
                   mode, activeWindow, live, errors, startedAt, attempts, successful,
                   probe, result>>

ReceiveFailure ==
    /\ mode = "wait"
    /\ waitPc = "probing"
    /\ probe.state = "lost"
    /\ Finish(FailedProbe("worker"), "judge")
    /\ UNCHANGED <<clock, alarmVars, mode, activeWindow, live, errors, startedAt, successful, result>>

\* *mutation*: the parent blocks on the worker's pipe
ProbeExpiresOnceSent ==
    /\ waitPc = "probing"
    /\ probe.state = "sent"
    /\ clock >= Deadline
    /\ Finish(FailedProbe("deadline"), "judge")
    /\ UNCHANGED <<clock, alarmVars, mode, activeWindow, live, errors, startedAt, successful, result>>

\* select returns at the deadline; the worker is killed.
ProbeExpires ==
    /\ mode = "wait"
    /\ waitPc = "probing"
    /\ clock >= Deadline
    /\ Finish(FailedProbe("deadline"), "judge")
    /\ UNCHANGED <<clock, alarmVars, mode, activeWindow, live, errors, startedAt, successful, result>>

Decode ==
    /\ waitPc = "decoding"
    /\ DecodeNext \/ TimerFires \/ TakeAlarm
    /\ UNCHANGED waitVars

Decoded ==
    /\ waitPc = "decoding"
    /\ alarmPc = "done"
    /\ Finish(IF outcome = "report" THEN probe.report ELSE FailedProbe(outcome), "judge")
    /\ alarmPc' = "idle"
    /\ UNCHANGED <<clock, decoding, outcome, handler, timer, masked, pending, callerAlarm,
                   callerRan, mode, activeWindow, live, errors, startedAt, successful, result>>

LastAttempt == attempts[Len(attempts)]

\* *mutation*: passes over different contracts are counted together
ContinuedWithoutContract == Append(successful, Len(attempts))

\* The indices after a complete pass: the pass before it counts only when it
\* saw the same deployment contract.
Continued ==
    IF successful # << >> /\ attempts[successful[Len(successful)]].contract # LastAttempt.contract
    THEN << Len(attempts) >>
    ELSE Append(successful, Len(attempts))

Judge ==
    LET passed == CompleteStrictReport(LastAttempt, activeWindow)
    IN  /\ waitPc = "judge"
        /\ IF clock >= Deadline
           THEN waitPc' = "report" /\ UNCHANGED <<successful, result>>
           ELSE /\ successful' = IF passed THEN Continued ELSE << >>
                /\ IF Len(successful') = 2
                   THEN /\ result' = [ok |-> TRUE, indices |-> successful', timedOut |-> FALSE]
                        /\ waitPc' = "done"
                   ELSE waitPc' = "sleep" /\ UNCHANGED result
        /\ UNCHANGED <<clock, alarmVars, mode, activeWindow, live, errors, startedAt,
                       attempts, probe>>

Wake ==
    /\ waitPc = "sleep"
    /\ clock >= startedAt + Interval \/ clock >= Deadline
    /\ waitPc' = IF clock < Deadline THEN "loop" ELSE "report"
    /\ UNCHANGED <<clock, alarmVars, mode, activeWindow, live, errors, startedAt, attempts,
                   successful, probe, result>>

\* The deadline passes between the two readings of the clock.
LoopEnds ==
    /\ mode = "wait"
    /\ waitPc = "loop"
    /\ clock >= Deadline
    /\ waitPc' = "report"
    /\ UNCHANGED <<clock, alarmVars, mode, activeWindow, live, errors, startedAt, attempts,
                   successful, probe, result>>

\* The wait is over without two passes: the last attempt says that the deadline
\* passed.
ReportTimeout ==
    /\ waitPc = "report"
    /\ attempts' = IF attempts = << >> \/ LastAttempt.error # "deadline"
                   THEN Append(attempts, FailedProbe("deadline")) ELSE attempts
    /\ result' = [ok |-> FALSE, indices |-> << >>, timedOut |-> TRUE]
    /\ waitPc' = "done"
    /\ UNCHANGED <<clock, alarmVars, mode, activeWindow, live, errors, startedAt, successful, probe>>

Done == waitPc = "done" /\ UNCHANGED waitingVars

Program ==
    \/ FetchManifest \/ ManifestFails \/ Request \/ SendReport \/ WorkerFails
    \/ StartProbe \/ ReportOnce \/ ReceiveReport \/ ReceiveFailure \/ ProbeExpires
    \/ Decode \/ Decoded \/ Judge \/ Wake \/ LoopEnds \/ ReportTimeout

WaitNext == Program \/ Tick \/ Deploy \/ Done

WaitSpec == WaitInit /\ [][WaitNext]_waitingVars

\* Time passes and the parent's own steps are taken.  Nothing is assumed of the
\* worker: it may hang in a request for ever.
Parent ==
    \/ StartProbe \/ ReceiveReport \/ ReceiveFailure \/ ProbeExpires \/ Decode
    \/ Decoded \/ Judge \/ Wake \/ LoopEnds \/ ReportTimeout

(***************************************************************************)
(* Properties.                                                              *)
(***************************************************************************)

(***************************************************************************)
(* A confirmed wait names two consecutive attempts, both complete strict    *)
(* passes over one contract, and every answer of the first of them came     *)
(* from one deployment, the one that contract names: the site may move      *)
(* between two requests of a probe, but then the next probe reads another   *)
(* manifest.  (wait_for_production; it holds because the manifest is asked  *)
(* first and the contracts are compared.)                                   *)
(***************************************************************************)
ConfirmedFromOneDeployment ==
    waitPc = "done" /\ mode = "wait" /\ result.ok =>
        LET first == attempts[result.indices[1]]
            second == attempts[result.indices[2]]
        IN  /\ result.indices[2] = result.indices[1] + 1
            /\ first.contract = second.contract
            /\ CompleteStrictReport(first, activeWindow)
            /\ CompleteStrictReport(second, activeWindow)
            /\ \E d \in Deployments :
                  first.sources = {d} /\ Content[d].manifest = first.contract

(***************************************************************************)
(* A confirmation means what it says: it comes from one deployment; no wait *)
(* is confirmed at or after its deadline, however the last probe, its       *)
(* decoding and the alarm interleave with the clock; and a wait that gives  *)
(* up says so in its last attempt, even when that attempt passed too late.  *)
(* (Lines 308-332 of production_wait.py.)                                   *)
(***************************************************************************)
ConfirmedSoundly ==
    [][ /\ ConfirmedFromOneDeployment'
        /\ (result'.ok /\ ~result.ok /\ mode = "wait") => clock < Deadline
        /\ (result'.timedOut /\ ~result.timedOut) =>
              /\ clock >= Deadline
              /\ attempts'[Len(attempts')].error = "deadline" ]_waitingVars

(***************************************************************************)
(* The wait ends, even when the worker hangs for ever in DNS, a body or a   *)
(* send: the parent's select returns at the deadline.                       *)
(***************************************************************************)
WaitEnds == []<>(mode = "wait" => waitPc = "done")
=============================================================================
