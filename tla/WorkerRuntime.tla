---------------------------- MODULE WorkerRuntime ----------------------------
(***************************************************************************)
(* symba.worker.Worker: the claim loop and its bidi stream, the generator  *)
(* that announces capacity, the slot accounting of rule 8.4, the waiter    *)
(* that absorbs the Complete-to-release handoff, admission control, stop   *)
(* and drain.                                                              *)
(*                                                                         *)
(* The worker is one asyncio event loop, so an action is what one task     *)
(* does between two awaits. Tasks are named by the assignment they serve:  *)
(* dispatch[j] is the _dispatch_one task of assignment j, helper[j] the    *)
(* _wait_for_slot_or_reject or _reject_assignment task. A task that has    *)
(* returned is "finished" until the loop runs its done-callback, then      *)
(* "gone". _running and _slot_owners are derived from the phases.          *)
(*                                                                         *)
(* Time is not counted: a timer (the heartbeat interval, the slot-handoff  *)
(* grace, the reconnect delay, the drain timeout) may fire at any moment   *)
(* it is armed. The engine and the network are external: they assign,      *)
(* deliver and drop as they like, within the gRPC ordering.                *)
(***************************************************************************)
EXTENDS Integers, FiniteSets

CONSTANTS Jobs,          \* assignments the engine may send, each at most once
          Slots,         \* Worker._slots, after _resolve_slots
          AdmissionHook, \* TRUE when the host supplied admission_control
          GpuWorker      \* TRUE when a gpu task is registered

ASSUME RuntimeAssumption ==
    /\ IsFiniteSet(Jobs)
    /\ Slots \in Nat \ {0}
    /\ AdmissionHook \in BOOLEAN
    /\ GpuWorker \in BOOLEAN

VARIABLES
    accepting,         \* _accepting
    free,              \* _free_slots
    slotChanged,       \* _slot_changed.is_set()
    slotAvailable,     \* _slot_available.is_set()
    pendingSlotWaiter, \* _pending_slot_waiter
    stopped,           \* _stopped.is_set()
    admissionOk,       \* _admission_ok
    probe,             \* where the admission loop is
    gpuUnclaimable,    \* _gpu_unclaimable
    delivery,          \* delivery[j]: assignment j between engine and worker
    dispatch,          \* dispatch[j]: phase of its _dispatch_one task
    helper,            \* helper[j]: phase of its waiter or rejecter task
    failedBack,        \* assignments whose Fail(NoFreeSlot) reached the engine
    phase,             \* where arun / _claim_loop is
    generator,         \* where the _claim_requests generator of this stream is
    streamGpu,         \* whether the tags captured by this stream hold gpu tags
    announced,         \* the last ClaimRequest written: free slots and gpu tags
    exitCause,         \* why _claim_loop ended
    snapshot           \* the tasks _drain gathered

slotVars   == <<accepting, free, slotAvailable, pendingSlotWaiter, stopped>>
taskVars   == <<delivery, dispatch, helper, failedBack>>
gateVars   == <<admissionOk, probe, gpuUnclaimable>>
streamVars == <<generator, streamGpu, announced>>
loopVars   == <<phase, exitCause, snapshot>>
vars == <<slotVars, slotChanged, taskVars, gateVars, streamVars, loopVars>>

Deliveries     == {"idle", "sent", "taken", "lost"}
DispatchPhases == {"none", "running", "cancelling", "finished", "gone"}
WaiterPhases   == {"ready", "blocked", "woken", "handingBack"}
HelperPhases   == WaiterPhases \cup {"none", "rejecting", "finished", "gone"}
ClaimPhases    == {"opening", "streaming", "clean", "dropped", "authFailed", "backoff"}
Phases         == ClaimPhases \cup {"exited", "draining", "cancelling", "drained", "closed"}
Generators     == {"none", "start", "writing", "waiting", "finished"}
Tasks          == {"dispatch", "helper"} \X Jobs

TypeOK ==
    /\ accepting \in BOOLEAN
    /\ free \in 0..Slots
    /\ slotChanged \in BOOLEAN
    /\ slotAvailable \in BOOLEAN
    /\ pendingSlotWaiter \in BOOLEAN
    /\ stopped \in BOOLEAN
    /\ admissionOk \in BOOLEAN
    /\ probe \in {"off", "probing", "sleeping"}
    /\ gpuUnclaimable \in BOOLEAN
    /\ delivery \in [Jobs -> Deliveries]
    /\ dispatch \in [Jobs -> DispatchPhases]
    /\ helper \in [Jobs -> HelperPhases]
    /\ failedBack \in SUBSET Jobs
    /\ phase \in Phases
    /\ generator \in Generators
    /\ streamGpu \in BOOLEAN
    /\ announced \in [free : 0..Slots, gpu : BOOLEAN]
    /\ exitCause \in {"none", "stop", "auth"}
    /\ snapshot \in SUBSET Tasks

-----------------------------------------------------------------------------
(* Derived state.                                                          *)

SlotOwners == {j \in Jobs : dispatch[j] \in {"running", "cancelling", "finished"}}
SlotWaiters == {j \in Jobs : helper[j] \in WaiterPhases}
Running ==
    {t \in Tasks : IF t[1] = "dispatch" THEN dispatch[t[2]] \notin {"none", "gone"}
                                        ELSE helper[t[2]] \notin {"none", "gone"}}

AnnounceFreeSlots == IF accepting /\ admissionOk THEN free ELSE 0

\* asyncio.Event.set on _slot_available: every task blocked on it becomes runnable.
Awaken(h) == [j \in Jobs |-> IF h[j] = "blocked" THEN "woken" ELSE h[j]]

\* What the stream had delivered but _run_claim_stream had not read is gone.
LoseUnread == delivery' = [j \in Jobs |-> IF delivery[j] = "sent" THEN "lost" ELSE delivery[j]]

-----------------------------------------------------------------------------
(* Boot leaves every slot free and available; arun then enters the loop.   *)

Init ==
    /\ accepting = TRUE
    /\ free = Slots
    /\ slotChanged = FALSE
    /\ slotAvailable = TRUE
    /\ pendingSlotWaiter = FALSE
    /\ stopped = FALSE
    /\ admissionOk = TRUE
    /\ probe = IF AdmissionHook THEN "probing" ELSE "off"
    /\ gpuUnclaimable = FALSE
    /\ delivery = [j \in Jobs |-> "idle"]
    /\ dispatch = [j \in Jobs |-> "none"]
    /\ helper = [j \in Jobs |-> "none"]
    /\ failedBack = {}
    /\ phase = "opening"
    /\ generator = "none"
    /\ streamGpu = FALSE
    /\ announced = [free |-> 0, gpu |-> FALSE]
    /\ exitCause = "none"
    /\ snapshot = {}

-----------------------------------------------------------------------------
(* The claim loop and its stream.                                          *)

\* _run_claim_stream computes the tags once and starts a request generator.
OpenStream ==
    /\ phase = "opening"
    /\ ~stopped
    /\ phase' = "streaming"
    /\ generator' = "start"
    /\ streamGpu' = (GpuWorker /\ ~gpuUnclaimable)
    /\ UNCHANGED <<slotVars, slotChanged, taskVars, gateVars, announced, exitCause, snapshot>>

\* The engine closes the stream cleanly, the transport drops it (or recycles
\* it for its connection age), or the credentials are refused.
StreamEnds(how) ==
    /\ phase = "streaming"
    /\ phase' = how
    /\ generator' = "none"
    /\ LoseUnread
    /\ UNCHANGED <<slotVars, slotChanged, dispatch, helper, failedBack, gateVars,
                   streamGpu, announced, exitCause, snapshot>>

\* A clean end reopens at once; a drop waits out the backoff first.
AfterStream ==
    /\ ~stopped
    /\ \/ phase = "clean"   /\ phase' = "opening"
       \/ phase = "dropped" /\ phase' = "backoff"
       \/ phase = "backoff" /\ phase' = "opening"
    /\ UNCHANGED <<slotVars, slotChanged, taskVars, gateVars, streamVars, exitCause, snapshot>>

\* Credentials cannot heal through backoff: the error leaves the loop.
AuthExit ==
    /\ phase = "authFailed"
    /\ ~stopped
    /\ phase' = "exited"
    /\ exitCause' = "auth"
    /\ UNCHANGED <<slotVars, slotChanged, taskVars, gateVars, streamVars, snapshot>>

\* Wherever the loop waits, a set _stopped makes it return; an open stream is cancelled.
StopExit ==
    /\ phase \in ClaimPhases
    /\ stopped
    /\ phase' = "exited"
    /\ exitCause' = "stop"
    /\ generator' = "none"
    /\ LoseUnread
    /\ UNCHANGED <<slotVars, slotChanged, dispatch, helper, failedBack, gateVars,
                   streamGpu, announced, snapshot>>

-----------------------------------------------------------------------------
(* The request generator: announce, and announce again on a change or at   *)
(* the heartbeat interval. It resumes only when the write has completed.   *)

Announce ==
    /\ generator' = "writing"
    /\ announced' = [free |-> AnnounceFreeSlots, gpu |-> streamGpu]
    /\ UNCHANGED <<slotVars, slotChanged, taskVars, gateVars, streamGpu, loopVars>>

AnnounceChange ==
    /\ ~stopped
    /\ generator = "start" \/ (generator = "waiting" /\ slotChanged)
    /\ Announce

\* Mutant: the generator waits for a change without a timeout.
AnnounceOnlyChanges == FALSE

AnnounceHeartbeat ==
    /\ ~stopped
    /\ generator = "waiting"
    /\ Announce

\* The event is cleared after the yield returns, whatever happened meanwhile.
RequestWritten ==
    /\ generator = "writing"
    /\ generator' = "waiting"
    /\ slotChanged' = FALSE
    /\ UNCHANGED <<slotVars, taskVars, gateVars, streamGpu, announced, loopVars>>

\* A stopped worker's generator ends instead of announcing once more.
GeneratorEnds ==
    /\ stopped
    /\ generator = "start" \/ (generator = "waiting" /\ slotChanged)
    /\ generator' = "finished"
    /\ UNCHANGED <<slotVars, slotChanged, taskVars, gateVars, streamGpu, announced, loopVars>>

-----------------------------------------------------------------------------
(* Assignments.                                                            *)

\* External: the engine assigns on a stream it has been sent a request on. It
\* may exceed what was announced: Complete commits before the slot is released.
EngineAssigns(j) ==
    /\ phase = "streaming"
    /\ generator \in {"writing", "waiting", "finished"}
    /\ delivery[j] = "idle"
    /\ delivery' = [delivery EXCEPT ![j] = "sent"]
    /\ UNCHANGED <<slotVars, slotChanged, dispatch, helper, failedBack, gateVars,
                   streamVars, loopVars>>

\* _run_claim_stream leaves its loop on the first assignment read after stop.
ReadWhileStopped(j) ==
    /\ phase = "streaming"
    /\ stopped
    /\ delivery[j] = "sent"
    /\ phase' = "clean"
    /\ generator' = "none"
    /\ LoseUnread
    /\ UNCHANGED <<slotVars, slotChanged, dispatch, helper, failedBack, gateVars,
                   streamGpu, announced, exitCause, snapshot>>

\* _start_assignment when it returns True.
AcquireSlot(j) ==
    /\ accepting
    /\ free > 0
    /\ free' = free - 1
    /\ slotAvailable' = (slotAvailable /\ free' > 0)
    /\ slotChanged' = TRUE
    /\ dispatch' = [dispatch EXCEPT ![j] = "running"]

\* _handle_assignment, one disjunct per branch.
HandleAssignment(j) ==
    /\ phase = "streaming"
    /\ ~stopped
    /\ delivery[j] = "sent"
    /\ delivery' = [delivery EXCEPT ![j] = "taken"]
    /\ \/ /\ AcquireSlot(j)
          /\ UNCHANGED <<helper, pendingSlotWaiter>>
       \/ /\ accepting /\ free <= 0 /\ ~pendingSlotWaiter
          /\ pendingSlotWaiter' = TRUE
          /\ helper' = [helper EXCEPT ![j] = "ready"]
          /\ UNCHANGED <<free, slotAvailable, slotChanged, dispatch>>
       \/ /\ ~accepting \/ (free <= 0 /\ pendingSlotWaiter)
          /\ helper' = [helper EXCEPT ![j] = "rejecting"]
          /\ UNCHANGED <<free, slotAvailable, slotChanged, dispatch, pendingSlotWaiter>>
    /\ UNCHANGED <<accepting, stopped, failedBack, gateVars, streamVars, loopVars>>

\* Mutant: a waiter that got its slot falls through to the rejection.
WaiterTurnFallsThrough(j) ==
    /\ helper[j] \in {"ready", "woken"}
    /\ \/ AcquireSlot(j) /\ helper' = [helper EXCEPT ![j] = "handingBack"]
       \/ /\ free <= 0
          /\ helper' = [helper EXCEPT ![j] = "blocked"]
          /\ UNCHANGED <<free, slotAvailable, slotChanged, dispatch>>
    /\ UNCHANGED <<accepting, pendingSlotWaiter, stopped, delivery, failedBack, gateVars,
                   streamVars, loopVars>>

\* One turn of _wait_for_slot_or_reject, first or after a wake-up. Only a turn
\* after a wake-up can find the grace spent.
WaiterTurn(j) ==
    /\ helper[j] \in {"ready", "woken"}
    /\ \/ /\ AcquireSlot(j)
          /\ helper' = [helper EXCEPT ![j] = "finished"]
          /\ pendingSlotWaiter' = FALSE
       \/ /\ ~accepting
          /\ helper' = [helper EXCEPT ![j] = "handingBack"]
          /\ UNCHANGED <<free, slotAvailable, slotChanged, dispatch, pendingSlotWaiter>>
       \/ /\ accepting /\ free <= 0
          /\ slotAvailable' = FALSE
          /\ \/ helper' = [helper EXCEPT ![j] = "blocked"]
             \/ helper[j] = "woken" /\ helper' = [helper EXCEPT ![j] = "handingBack"]
          /\ UNCHANGED <<free, slotChanged, dispatch, pendingSlotWaiter>>
    /\ UNCHANGED <<accepting, stopped, delivery, failedBack, gateVars, streamVars, loopVars>>

\* Mutant: the waiter waits without a deadline.
WaiterNeverTimesOut(j) == FALSE

\* The grace expires. wait_for times out even when the event was set in the
\* same turn of the loop, so a woken waiter can time out too.
WaiterTimeout(j) ==
    /\ helper[j] \in {"blocked", "woken"}
    /\ helper' = [helper EXCEPT ![j] = "handingBack"]
    /\ UNCHANGED <<slotVars, slotChanged, delivery, dispatch, failedBack, gateVars,
                   streamVars, loopVars>>

\* _reject_assignment returns: the Fail reached the engine or was swallowed.
\* A waiter then leaves through its finally.
RejectReturns(j) ==
    /\ helper[j] \in {"rejecting", "handingBack"}
    /\ helper' = [helper EXCEPT ![j] = "finished"]
    /\ pendingSlotWaiter' = (pendingSlotWaiter /\ helper[j] # "handingBack")
    /\ failedBack' \in {failedBack, failedBack \cup {j}}
    /\ UNCHANGED <<accepting, free, slotAvailable, stopped, slotChanged, delivery, dispatch,
                   gateVars, streamVars, loopVars>>

\* Dispatcher.dispatch returns or raises; JobExecution models what it does.
DispatchEnds(j) ==
    /\ dispatch[j] \in {"running", "cancelling"}
    /\ dispatch' = [dispatch EXCEPT ![j] = "finished"]
    /\ UNCHANGED <<slotVars, slotChanged, delivery, helper, failedBack, gateVars,
                   streamVars, loopVars>>

\* Mutants: ownership tested after the discard, so no slot comes back; the whole
\* bookkeeping gated behind _accepting.
DispatchDoneLeaks(j) ==
    /\ dispatch[j] = "finished"
    /\ dispatch' = [dispatch EXCEPT ![j] = "gone"]
    /\ slotChanged' = TRUE
    /\ UNCHANGED <<slotVars, delivery, helper, failedBack, gateVars, streamVars, loopVars>>
DispatchDoneGated(j) ==
    /\ dispatch[j] = "finished"
    /\ accepting
    /\ dispatch' = [dispatch EXCEPT ![j] = "gone"]
    /\ slotChanged' = TRUE
    /\ free' = free + 1
    /\ slotAvailable' = TRUE
    /\ helper' = Awaken(helper)
    /\ UNCHANGED <<accepting, pendingSlotWaiter, stopped, delivery, failedBack, gateVars,
                   streamVars, loopVars>>

\* _on_task_done of a dispatch task: it owns a slot.
DispatchDone(j) ==
    /\ dispatch[j] = "finished"
    /\ dispatch' = [dispatch EXCEPT ![j] = "gone"]
    /\ slotChanged' = TRUE
    /\ IF accepting
       THEN /\ free' = IF free + 1 <= Slots THEN free + 1 ELSE Slots
            /\ slotAvailable' = TRUE
            /\ helper' = Awaken(helper)
       ELSE UNCHANGED <<free, slotAvailable, helper>>
    /\ UNCHANGED <<accepting, pendingSlotWaiter, stopped, delivery, failedBack, gateVars,
                   streamVars, loopVars>>

\* _on_task_done of a waiter or a rejecter: it owns none.
HelperDone(j) ==
    /\ helper[j] = "finished"
    /\ helper' = [helper EXCEPT ![j] = "gone"]
    /\ slotChanged' = TRUE
    /\ UNCHANGED <<slotVars, delivery, dispatch, failedBack, gateVars, streamVars, loopVars>>

-----------------------------------------------------------------------------
(* The host: admission control, the gpu circuit breaker, SIGTERM.          *)

\* The hook answers; an exception counts as yes (fail-open).
ProbeReturns(ok) ==
    /\ probe = "probing"
    /\ probe' = "sleeping"
    /\ admissionOk' = ok
    /\ slotChanged' = (slotChanged \/ ok # admissionOk)
    /\ UNCHANGED <<slotVars, taskVars, gpuUnclaimable, streamVars, loopVars>>

ProbeAgain ==
    /\ probe = "sleeping"
    /\ ~stopped
    /\ probe' = "probing"
    /\ UNCHANGED <<slotVars, slotChanged, taskVars, admissionOk, gpuUnclaimable,
                   streamVars, loopVars>>

\* The gpu executor's breaker calls back while a job is being dispatched.
OpenGpuCircuit ==
    /\ GpuWorker
    /\ ~gpuUnclaimable
    /\ \E j \in Jobs : dispatch[j] = "running"
    /\ gpuUnclaimable' = TRUE
    /\ slotChanged' = TRUE
    /\ UNCHANGED <<slotVars, taskVars, admissionOk, probe, streamVars, loopVars>>

\* Mutant: stop leaves the waiter asleep.
StopWithoutWake ==
    /\ ~stopped
    /\ phase # "closed"
    /\ accepting' = FALSE
    /\ free' = 0
    /\ slotChanged' = TRUE
    /\ stopped' = TRUE
    /\ UNCHANGED <<slotAvailable, pendingSlotWaiter, taskVars, gateVars, streamVars, loopVars>>

Stop ==
    /\ ~stopped
    /\ phase # "closed"
    /\ accepting' = FALSE
    /\ free' = 0
    /\ slotChanged' = TRUE
    /\ slotAvailable' = TRUE
    /\ stopped' = TRUE
    /\ helper' = Awaken(helper)
    /\ UNCHANGED <<pendingSlotWaiter, delivery, dispatch, failedBack, gateVars,
                   streamVars, loopVars>>

-----------------------------------------------------------------------------
(* Drain and close.                                                        *)

\* The finally of arun: the background loops are cancelled, then _drain takes
\* its one look at _running.
BeginDrain ==
    /\ phase = "exited"
    /\ probe' = "off"
    /\ snapshot' = Running
    /\ phase' = IF Running = {} THEN "drained" ELSE "draining"
    /\ UNCHANGED <<slotVars, slotChanged, taskVars, admissionOk, gpuUnclaimable,
                   streamVars, exitCause>>

\* wait_for gives up: it cancels what gather collected and waits for the
\* cancelled tasks to end. A dispatch task still reports its cancellation; a
\* waiter or rejecter unwinds at once (one that never ran skips its finally).
DrainTimeout ==
    /\ phase = "draining"
    /\ snapshot \cap Running # {}
    /\ phase' = "cancelling"
    /\ dispatch' = [j \in Jobs |->
           IF <<"dispatch", j>> \in snapshot /\ dispatch[j] = "running"
           THEN "cancelling" ELSE dispatch[j]]
    /\ helper' = [j \in Jobs |->
           IF <<"helper", j>> \in snapshot /\ helper[j] \in WaiterPhases \cup {"rejecting"}
           THEN "finished" ELSE helper[j]]
    /\ pendingSlotWaiter' = (pendingSlotWaiter /\ \E j \in Jobs : helper[j] = "ready")
    /\ UNCHANGED <<accepting, free, slotAvailable, stopped, slotChanged, delivery, failedBack,
                   gateVars, streamVars, exitCause, snapshot>>

DrainReturns ==
    /\ phase \in {"draining", "cancelling"}
    /\ snapshot \cap Running = {}
    /\ phase' = "drained"
    /\ UNCHANGED <<slotVars, slotChanged, taskVars, gateVars, streamVars, exitCause, snapshot>>

\* Executors, the checkpoint store and the channel are closed.
CloseWorker ==
    /\ phase = "drained"
    /\ phase' = "closed"
    /\ UNCHANGED <<slotVars, slotChanged, taskVars, gateVars, streamVars, exitCause, snapshot>>

\* arun has returned; nothing is left to do.
Closed == phase = "closed" /\ UNCHANGED vars

-----------------------------------------------------------------------------

ClaimLoopStep ==
    OpenStream \/ AfterStream \/ AuthExit \/ StopExit \/ BeginDrain \/ DrainReturns \/ CloseWorker

GeneratorStep == AnnounceChange \/ RequestWritten \/ GeneratorEnds

HelperStep(j) == WaiterTurn(j) \/ WaiterTimeout(j) \/ RejectReturns(j) \/ HelperDone(j)

Next ==
    \/ ClaimLoopStep
    \/ GeneratorStep
    \/ AnnounceHeartbeat
    \/ \E how \in {"clean", "dropped", "authFailed"} : StreamEnds(how)
    \/ \E j \in Jobs : EngineAssigns(j) \/ ReadWhileStopped(j) \/ HandleAssignment(j)
    \/ \E j \in Jobs : HelperStep(j)
    \/ \E j \in Jobs : DispatchEnds(j) \/ DispatchDone(j)
    \/ \E ok \in BOOLEAN : ProbeReturns(ok)
    \/ ProbeAgain
    \/ OpenGpuCircuit
    \/ Stop
    \/ DrainTimeout
    \/ Closed

Spec == Init /\ [][Next]_vars

-----------------------------------------------------------------------------
(* Fairness. The event loop runs what is runnable, armed timers fire, the  *)
(* Fail of a rejection returns (the channel's keepalive sees to it) and an *)
(* open stream is read. Nothing is assumed of the engine, the network, the *)
(* host, or a handler.                                                     *)

LoopFairness ==
    /\ WF_vars(ClaimLoopStep)
    /\ WF_vars(GeneratorStep)
    /\ WF_vars(AnnounceHeartbeat)
    /\ WF_vars(DrainTimeout)
    /\ \A j \in Jobs : /\ WF_vars(HandleAssignment(j))
                       /\ WF_vars(HelperStep(j))
                       /\ WF_vars(DispatchDone(j))

FairSpec == Spec /\ LoopFairness

-----------------------------------------------------------------------------
(* Safety.                                                                 *)

\* While the worker accepts, every slot is either free or owned by exactly one
\* dispatch task: none leaks and none is released twice, whichever of start,
\* waiter hand-off and the done-callbacks run in between (rule 8.4.2).
SlotsConserved == accepting => free + Cardinality(SlotOwners) = Slots

\* At most Slots dispatch tasks exist at any time, while draining too, when
\* free has been zeroed and no longer counts them.
NeverOvercommitted == Cardinality(SlotOwners) <= Slots

\* No lost wake-up: a waiter is left blocked on _slot_available only while the
\* worker accepts, the event is clear and no slot is free.
WaiterNotStranded ==
    \A j \in Jobs : helper[j] = "blocked" => accepting /\ free = 0 /\ ~slotAvailable

\* The event of the hand-off is set exactly when a slot is free.
AvailabilityHonest == accepting => (slotAvailable <=> free > 0)

\* After SIGTERM, _drain returns only when no task is left in _running:
\* its single snapshot of the set misses none.
GracefulDrainEmpties ==
    exitCause = "stop" /\ phase \in {"drained", "closed"} => Running = {}

\* The ledger this worker keeps for the engine. A Fail that reached the engine
\* is final, so an assignment both failed back and run would fall out of it.
StatusOf(j) ==
    IF j \in failedBack THEN "rejected"
    ELSE IF j \in SlotOwners THEN "running"
    ELSE IF dispatch[j] = "gone" THEN "done"
    ELSE IF delivery[j] = "idle" THEN "idle"
    ELSE IF delivery[j] = "lost" \/ helper[j] \in {"finished", "gone"} THEN "abandoned"
    ELSE "offered"

AssignmentStatus == [j \in Jobs |-> StatusOf(j)]

Ledger == INSTANCE AssignmentLedger WITH status <- AssignmentStatus, open <- accepting

\* Every step of the worker is a step of the ledger or leaves it alone: at most
\* Slots assignments run, none starts once draining, an answer is final.
KeepsLedger == Ledger!Spec

-----------------------------------------------------------------------------
(* Liveness.                                                               *)

\* Every assignment the worker takes is dispatched or its helper task ends
\* (failed back, or abandoned at the drain deadline), even if no handler ever
\* returns.
AssignmentsAnswered ==
    \A j \in Jobs : delivery[j] = "taken" ~> (dispatch[j] # "none" \/ helper[j] = "gone")

\* The engine's view of free slots is corrected as long as the stream lasts,
\* although a change made while a request was being written is forgotten.
CapacityReannounced ==
    (generator = "waiting" /\ announced.free # AnnounceFreeSlots)
        ~> (announced.free = AnnounceFreeSlots \/ generator = "none" \/ stopped)

\* If cancelled dispatch tasks end (DrainEnds of JobExecution), a stopped worker
\* closes, whatever the stream, the waiter and the drain deadline were doing.
StoppedWorkerCloses ==
    (\A j \in Jobs : dispatch[j] = "cancelling" ~> dispatch[j] = "finished")
        => (stopped ~> phase = "closed")

=============================================================================
