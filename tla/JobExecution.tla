---------------------------- MODULE JobExecution ----------------------------
(***************************************************************************)
(* One assignment, end to end: the dispatch pipeline of                    *)
(* symba.dispatch.Dispatcher, the handler task it awaits and the heartbeat *)
(* shell of symba.heartbeat beside it.                                     *)
(*                                                                         *)
(* Three asyncio tasks take turns: dispatch (pc), the handler and the      *)
(* shell. The drain deadline of the worker may cancel the dispatch task at *)
(* any await (see DrainTimeout of WorkerRuntime); the shell may cancel the *)
(* handler. The engine is external: it may expire the lease or ask for a   *)
(* cancellation at any moment, loses requests and answers, and accepts a   *)
(* report only on a lease that is still open. Time is not counted.         *)
(***************************************************************************)
EXTENDS Integers

CONSTANTS MaxMisses,  \* HeartbeatShell._max_misses
          HasTimeout, \* TRUE when the task has an effective timeout_s
          OldWaitFor  \* TRUE on Python 3.11, whose asyncio.wait_for drops a
                      \* cancellation that meets an already completed future

ASSUME ExecutionAssumption ==
    /\ MaxMisses \in Nat \ {0}
    /\ HasTimeout \in BOOLEAN
    /\ OldWaitFor \in BOOLEAN

VARIABLES
    pc,              \* where Dispatcher.dispatch is
    caught,          \* how awaiting the handler task ended, for dispatch
    mustCancel,      \* dispatch was cancelled with the handler already done
    drainedAt,       \* where dispatch was when the drain deadline cancelled it
    handler,         \* the handler task
    cancelRequested, \* a CancelledError is on its way into the handler
    shell,           \* the heartbeat shell's task
    beatNow,         \* _beat_now.is_set()
    misses,          \* consecutive missed beats
    overdue,         \* the timeout_s deadline has passed
    cancelReason,    \* HeartbeatShell.cancel_reason
    report,          \* the Complete or Fail this execution delivers
    wire,            \* the latest copy of that report, on its way or answered
    record,          \* external: the engine's record of this lease
    cancelFlag       \* external: the engine wants the job cancelled

dispatchVars == <<pc, caught, mustCancel, drainedAt>>
handlerVars  == <<handler, cancelRequested>>
shellVars    == <<shell, beatNow, misses, overdue, cancelReason>>
reportVars   == <<report, wire>>
engineVars   == <<record, cancelFlag>>
vars == <<dispatchVars, handlerVars, shellVars, reportVars, engineVars>>

Pcs == {"claimed", "running", "stopping", "delivering", "retrying", "finishing", "ended"}
HandlerEndings == {"returned", "raised", "cancelled", "parked"}
LiveShell  == {"waiting", "beating"}
EndedShell == {"fired", "gaveUp", "stopped"}

NoReport == [verb |-> "none", error |-> "none", retryable |-> FALSE]
Complete == [verb |-> "Complete", error |-> "none", retryable |-> FALSE]
Failure(error, retryable) == [verb |-> "Fail", error |-> error, retryable |-> retryable]

Reports == [verb : {"none", "Complete", "Fail"},
            error : {"none", "JobTimeout", "Cancelled", "handler", "assignment"},
            retryable : BOOLEAN]

TypeOK ==
    /\ pc \in Pcs
    /\ caught \in HandlerEndings \cup {"none"}
    /\ mustCancel \in BOOLEAN
    /\ drainedAt \in Pcs \cup {"never"}
    /\ handler \in HandlerEndings \cup {"none", "running"}
    /\ cancelRequested \in BOOLEAN
    /\ shell \in LiveShell \cup EndedShell \cup {"none", "ending"}
    /\ beatNow \in BOOLEAN
    /\ misses \in 0..(MaxMisses + 1)
    /\ overdue \in BOOLEAN
    /\ cancelReason \in {"none", "cancelled", "timeout"}
    /\ report \in Reports
    /\ wire \in {"none", "sent", "accepted", "stale", "refused"}
    /\ record \in {"open", "parked", "completed", "failed", "expired"}
    /\ cancelFlag \in BOOLEAN

Init ==
    /\ pc = "claimed"
    /\ caught = "none"
    /\ mustCancel = FALSE
    /\ drainedAt = "never"
    /\ handler = "none"
    /\ cancelRequested = FALSE
    /\ shell = "none"
    /\ beatNow = FALSE
    /\ misses = 0
    /\ overdue = FALSE
    /\ cancelReason = "none"
    /\ report = NoReport
    /\ wire = "none"
    /\ record = "open"
    /\ cancelFlag = FALSE

-----------------------------------------------------------------------------
(* Delivery: tenacity re-sends the one request until an answer comes back  *)
(* or its clock runs out.                                                  *)

Deliver(r) ==
    /\ report' = r
    /\ wire' = "sent"
    /\ pc' = "delivering"

\* External: a report is accepted on an open lease and refused on any other.
EngineTakesReport ==
    /\ wire = "sent"
    /\ wire' = IF record = "open" THEN "accepted" ELSE "stale"
    /\ record' = IF record # "open" THEN record
                 ELSE IF report.verb = "Complete" THEN "completed" ELSE "failed"
    /\ UNCHANGED <<dispatchVars, handlerVars, shellVars, report, cancelFlag>>

DeliveryAcknowledged ==
    /\ pc = "delivering"
    /\ wire = "accepted"
    /\ pc' = "finishing"
    /\ UNCHANGED <<caught, mustCancel, drainedAt, handlerVars, shellVars, reportVars, engineVars>>

\* Mutant: _complete translates the refusal and _finalize_success fails the job.
AttemptFailsOver ==
    /\ pc = "delivering"
    /\ IF wire = "stale" THEN Deliver(Failure("handler", FALSE))
                         ELSE pc' = "retrying" /\ UNCHANGED reportVars
    /\ UNCHANGED <<caught, mustCancel, drainedAt, handlerVars, shellVars, engineVars>>

\* The request or its answer is lost, or the answer is a refusal (StaleLease):
\* every error is retried.
AttemptFails ==
    /\ pc = "delivering"
    /\ pc' = "retrying"
    /\ wire' \in {wire} \cup {w \in {"refused"} : wire = "stale"}
    /\ UNCHANGED <<caught, mustCancel, drainedAt, handlerVars, shellVars, report, engineVars>>

RetryDelivery ==
    /\ pc = "retrying"
    /\ pc' = "delivering"
    /\ wire' = "sent"
    /\ UNCHANGED <<caught, mustCancel, drainedAt, handlerVars, shellVars, report, engineVars>>

\* Mutant: the retry policy has no stop condition.
DeliveryNeverDropped == FALSE

\* stop_after_delay: the outcome is logged and dropped.
DeliveryDropped ==
    /\ pc = "delivering"
    /\ pc' = "finishing"
    /\ UNCHANGED <<caught, mustCancel, drainedAt, handlerVars, shellVars, reportVars, engineVars>>

\* Checkpoint cleanup and the middleware hooks.
Finish ==
    /\ pc = "finishing"
    /\ pc' = "ended"
    /\ UNCHANGED <<caught, mustCancel, drainedAt, handlerVars, shellVars, reportVars, engineVars>>

-----------------------------------------------------------------------------
(* From the assignment to the handler.                                     *)

\* An unknown task or a payload its schema refuses.
RefuseAssignment ==
    /\ pc = "claimed"
    /\ Deliver(Failure("assignment", FALSE))
    /\ UNCHANGED <<caught, mustCancel, drainedAt, handlerVars, shellVars, engineVars>>

StartHandler ==
    /\ pc = "claimed"
    /\ pc' = "running"
    /\ handler' = "running"
    /\ shell' = "waiting"
    /\ UNCHANGED <<caught, mustCancel, drainedAt, cancelRequested, beatNow, misses, overdue,
                   cancelReason, reportVars, engineVars>>

-----------------------------------------------------------------------------
(* The handler: any coroutine. It may end as it likes, with a cancellation *)
(* pending or not, or swallow that cancellation and go on.                 *)

HandlerEnds(how) ==
    /\ handler = "running"
    /\ how = "parked" => record = "parked"
    /\ handler' = how
    /\ cancelRequested' = FALSE
    /\ UNCHANGED <<dispatchVars, shellVars, reportVars, engineVars>>

HandlerSwallowsCancel ==
    /\ handler = "running"
    /\ cancelRequested
    /\ cancelRequested' = FALSE
    /\ UNCHANGED <<dispatchVars, handler, shellVars, reportVars, engineVars>>

\* ctx.heartbeat().
HandlerBeats ==
    /\ handler = "running"
    /\ beatNow' = TRUE
    /\ UNCHANGED <<dispatchVars, handlerVars, shell, misses, overdue, cancelReason,
                   reportVars, engineVars>>

\* The Wait of wait_for_event reaches the engine, which parks the job; the
\* handler learns of it, or is cancelled or loses the answer before.
JobParks ==
    /\ handler = "running"
    /\ record = "open"
    /\ record' = "parked"
    /\ UNCHANGED <<dispatchVars, handlerVars, shellVars, reportVars, cancelFlag>>

-----------------------------------------------------------------------------
(* The heartbeat shell. It can run until shell.stop() has got through.     *)

DeadlinePasses ==
    /\ HasTimeout
    /\ pc \in {"running", "stopping"}
    /\ ~overdue
    /\ overdue' = TRUE
    /\ UNCHANGED <<dispatchVars, handlerVars, shell, beatNow, misses, cancelReason,
                   reportVars, engineVars>>

\* Set the reason and cancel the handler unless it is done; the shell returns.
Fire(reason) ==
    /\ shell' = "fired"
    /\ cancelReason' = reason
    /\ cancelRequested' = (handler = "running")

\* The interval, the deadline or a poke ends the wait. A wait that timed out
\* leaves the event as it is.
ShellWakes ==
    /\ shell = "waiting"
    /\ beatNow' \in {FALSE, beatNow}
    /\ IF overdue THEN Fire("timeout")
                  ELSE shell' = "beating" /\ UNCHANGED <<cancelReason, cancelRequested>>
    /\ UNCHANGED <<dispatchVars, handler, misses, overdue, reportVars, engineVars>>

\* Mutant: the cancelled flag of the answer is ignored.
BeatAnsweredBlindly ==
    /\ shell = "beating"
    /\ record = "open"
    /\ misses' = 0
    /\ shell' = "waiting"
    /\ UNCHANGED <<cancelReason, cancelRequested>>
    /\ UNCHANGED <<dispatchVars, handler, beatNow, overdue, reportVars, engineVars>>

\* The engine renews the lease and says whether the job is to be cancelled.
BeatAnswered ==
    /\ shell = "beating"
    /\ record = "open"
    /\ IF cancelFlag THEN Fire("cancelled") /\ UNCHANGED misses
                     ELSE /\ misses' = 0
                          /\ shell' = "waiting"
                          /\ UNCHANGED <<cancelReason, cancelRequested>>
    /\ UNCHANGED <<dispatchVars, handler, beatNow, overdue, reportVars, engineVars>>

\* The engine is unreachable or refuses the lease.
BeatMissed ==
    /\ shell = "beating"
    /\ misses' = misses + 1
    /\ shell' = IF misses' > MaxMisses THEN "gaveUp" ELSE "waiting"
    /\ UNCHANGED <<dispatchVars, handlerVars, beatNow, overdue, cancelReason,
                   reportVars, engineVars>>

\* Mutant: stop() awaits the shell without cancelling it.
CancelShellForgotten == shell \in LiveShell /\ UNCHANGED shell

\* task.cancel() on the shell. Python 3.11 loses it when the wait it meets has
\* just completed; the shell then carries on.
CancelShell ==
    \/ shell \in LiveShell /\ shell' = "ending"
    \/ OldWaitFor /\ shell = "waiting" /\ beatNow /\ UNCHANGED shell

-----------------------------------------------------------------------------
(* From the handler's end to the report.                                   *)

\* One disjunct per except clause of dispatch. A process-level error, and a
\* result that is no JSON, leave dispatch without a report.
Finalize(ending) ==
    \/ ending = "returned" /\ Deliver(Complete)
    \/ ending \in {"returned", "raised"} /\ \E r \in BOOLEAN : Deliver(Failure("handler", r))
    \/ ending \in {"returned", "raised"} /\ pc' = "ended" /\ UNCHANGED reportVars
    \/ ending = "cancelled" /\ cancelReason = "timeout" /\ Deliver(Failure("JobTimeout", TRUE))
    \/ ending = "cancelled" /\ cancelReason # "timeout" /\ Deliver(Failure("Cancelled", FALSE))
    \/ ending = "parked" /\ pc' = "finishing" /\ UNCHANGED reportVars

\* Mutants: the outcome is delivered before the shell is stopped; the end of a
\* cancelled handler is taken for a success.
ObserveWithoutStop ==
    /\ pc = "running"
    /\ handler \in HandlerEndings
    /\ caught' = IF mustCancel THEN "cancelled" ELSE handler
    /\ Finalize(caught')
    /\ UNCHANGED <<mustCancel, drainedAt, handlerVars, shellVars, engineVars>>
ObserveCancelAsSuccess ==
    /\ pc = "running"
    /\ handler \in HandlerEndings
    /\ caught' = IF handler = "cancelled" THEN "returned" ELSE handler
    /\ shell \in EndedShell
    /\ Finalize(caught') /\ UNCHANGED shell
    /\ UNCHANGED <<mustCancel, drainedAt, handlerVars, beatNow, misses, overdue, cancelReason,
                   engineVars>>

\* `await handler_task` returns or raises, and shell.stop() begins. A shell that
\* has ended by itself does not suspend it.
ObserveHandler ==
    /\ pc = "running"
    /\ handler \in HandlerEndings
    /\ caught' = IF mustCancel THEN "cancelled" ELSE handler
    /\ \/ shell \in EndedShell /\ Finalize(caught') /\ UNCHANGED shell
       \/ CancelShell /\ pc' = "stopping" /\ UNCHANGED reportVars
    /\ UNCHANGED <<mustCancel, drainedAt, handlerVars, beatNow, misses, overdue, cancelReason,
                   engineVars>>

ShellStopped ==
    /\ pc = "stopping"
    /\ shell \in EndedShell \cup {"ending"}
    /\ shell' = IF shell = "ending" THEN "stopped" ELSE shell
    /\ Finalize(caught)
    /\ UNCHANGED <<caught, mustCancel, drainedAt, handlerVars, beatNow, misses, overdue,
                   cancelReason, engineVars>>

-----------------------------------------------------------------------------
(* The drain deadline cancels the dispatch task, once.                     *)

\* Awaiting the handler, the cancellation goes to the handler, or meets a result
\* not yet picked up; in shell.stop() it goes to the shell and is swallowed;
\* elsewhere it leaves dispatch at once.
Drain ==
    /\ pc # "ended"
    /\ drainedAt = "never"
    /\ drainedAt' = pc
    /\ \/ /\ pc = "running"
          /\ cancelRequested' = (handler = "running")
          /\ mustCancel' = (handler # "running")
          /\ UNCHANGED <<pc, shell>>
       \/ /\ pc = "stopping"
          /\ IF shell \in LiveShell THEN CancelShell ELSE UNCHANGED shell
          /\ UNCHANGED <<pc, mustCancel, cancelRequested>>
       \/ /\ pc \notin {"running", "stopping"}
          /\ pc' = "ended"
          /\ UNCHANGED <<shell, mustCancel, cancelRequested>>
    /\ UNCHANGED <<caught, handler, beatNow, misses, overdue, cancelReason,
                   reportVars, engineVars>>

\* External: the sweeper reclaims the lease, and the job goes to another worker.
LeaseExpires ==
    /\ record = "open"
    /\ record' = "expired"
    /\ UNCHANGED <<dispatchVars, handlerVars, shellVars, reportVars, cancelFlag>>

\* External: a client cancels the job.
CancelJob ==
    /\ record = "open"
    /\ ~cancelFlag
    /\ cancelFlag' = TRUE
    /\ UNCHANGED <<dispatchVars, handlerVars, shellVars, reportVars, record>>

Ended == pc = "ended" /\ UNCHANGED vars

-----------------------------------------------------------------------------

BeatReturns == BeatAnswered \/ BeatMissed
DispatchStep == RefuseAssignment \/ StartHandler \/ ObserveHandler \/ ShellStopped \/ Finish

Next ==
    \/ DispatchStep
    \/ EngineTakesReport \/ DeliveryAcknowledged \/ AttemptFails \/ RetryDelivery
    \/ DeliveryDropped
    \/ \E how \in HandlerEndings : HandlerEnds(how)
    \/ HandlerSwallowsCancel \/ HandlerBeats \/ JobParks
    \/ DeadlinePasses \/ ShellWakes \/ BeatReturns
    \/ Drain \/ LeaseExpires \/ CancelJob
    \/ Ended

Spec == Init /\ [][Next]_vars

(* Fairness. The event loop runs what is runnable, timers fire, a beat or   *)
(* a report returns (the channel's keepalive sees to it) and the retry      *)
(* clock runs out. Nothing is assumed of the engine or the handler.         *)

LoopFairness ==
    /\ WF_vars(DispatchStep)
    /\ WF_vars(ShellWakes)
    /\ WF_vars(BeatReturns)
    /\ WF_vars(RetryDelivery)
    /\ WF_vars(DeliveryAcknowledged \/ AttemptFails)
    /\ SF_vars(DeliveryDropped)

FairSpec == Spec /\ LoopFairness

-----------------------------------------------------------------------------
(* Safety.                                                                 *)

Contract == INSTANCE LeaseContract WITH body <- handler

\* Whatever races with what, the engine's record of the lease is closed at most
\* once, a result is recorded only of a handler that returned, and a failure
\* only when the handler no longer runs.
KeepsContract == Contract!Spec

\* Once dispatch has begun to deliver an outcome it delivers no other one, on
\* any retry, refusal or cancellation.
ReportIsFinal == [][report # NoReport => report' = report]_vars

\* While a report is on its way neither the handler nor the shell runs: nothing
\* of this execution acts on the lease beside its report.
QuietBeforeReport ==
    report # NoReport => handler # "running" /\ shell \notin LiveShell \cup {"ending"}

\* A parked job is the engine's: the execution that parked it reports nothing.
ParkedReportsNothing == caught = "parked" => report = NoReport /\ record = "parked"

-----------------------------------------------------------------------------
(* Liveness.                                                               *)

\* The timeout cancels a handler that runs too long, and the engine's cancellation
\* reaches one whose lease stays open, as long as the shell does not give up.
ShellCancels ==
    /\ (overdue /\ handler = "running" /\ shell \in LiveShell)
         ~> (cancelRequested \/ handler # "running" \/ shell = "gaveUp")
    /\ (cancelFlag /\ handler = "running" /\ shell \in LiveShell)
         ~> (cancelRequested \/ handler # "running" \/ record # "open" \/ shell = "gaveUp")

\* Where Python 3.11 loses no cancellation: no ctx.heartbeat() as the handler ends.
StopIsHeard == OldWaitFor => [](pc = "running" /\ handler \in HandlerEndings => ~beatNow)

\* When the handler has ended, dispatch ends, so its slot comes back.
DispatchEnds == StopIsHeard => (handler \in HandlerEndings ~> pc = "ended")

\* If a handler answers every cancellation, by ending or by swallowing it, then
\* an execution cancelled at the drain deadline ends or goes on only because its
\* handler swallowed it: what StoppedWorkerCloses of WorkerRuntime assumes.
DrainEnds ==
    StopIsHeard /\ (cancelRequested ~> ~cancelRequested)
        => (drainedAt # "never" ~> pc = "ended" \/ (handler = "running" /\ ~cancelRequested))

-----------------------------------------------------------------------------
(* What docs and comments say and the code does not do.                    *)

\* "jobs still running at the deadline are abandoned (lease expiry re-runs them)".
DrainedJobsRerun ==
    drainedAt = "running" /\ ~mustCancel /\ ~cancelFlag /\ record = "failed"
        => report.error # "Cancelled"

\* "Turns one JobAssignment into exactly one terminal outcome (Complete / Fail)":
\* once the handler has ended, its outcome is on its way, on every supported Python.
OutcomeDelivered == handler \in HandlerEndings ~> pc \in {"delivering", "ended", "finishing"}
=============================================================================
