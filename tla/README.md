# Symba SDK for Python: TLA+ models, checks and proofs

This directory holds a formal model of the Symba Python SDK: the worker that
claims and executes jobs, from its constructor to its clean-up; what a handler and
its failures go through; the client, asynchronous and synchronous; and the in-memory
engine applications test with. Paths are relative to `src/` unless they start with `symba/`, which stands for
`src/symba/`. The modules are checked with TLC on small instances; theorems about
each of the nine that describe a running system are proved, with TLAPS, for every value of
their constants.

- [The system](#the-system)
- [Modules](#modules)
- [Runs](#runs)
- [Fairness](#fairness)
- [Proofs](#proofs)
- [Where the code and its documents disagree](#where-the-code-and-its-documents-disagree)
- [What is not modelled](#what-is-not-modelled)
- [Plan](#plan)

## The system

A **worker** process opens one bidirectional gRPC stream (`Claim`) to the durable
engine, announces how many slots it has free, receives `JobAssignment`s, and runs
each through a **dispatch pipeline** that reports one `Complete` or `Fail` on the
job's lease. Beside each running handler a **heartbeat shell** renews the lease
and delivers timeouts and cancellations. Handlers run on one of three
**executors**: on the worker's own event loop (io), in a pool of forkserver
processes (cpu), or in one warm subprocess (gpu). A handler reaches the engine
through its **ctx** (submit, checkpoint, wait for an event). The **client**
(`Engine`, `SyncEngine`) submits jobs and follows them. **SymbaTest** replaces the
engine by an in-memory one that runs the real pipeline, for tests.

| Component | State | Operations | Talks to |
|---|---|---|---|
| Worker runtime (`symba/worker.py`) | free slots, running tasks and slot owners, the hand-off waiter and its events, admission and gpu-circuit flags, stop | claim loop with reconnect, request generator, start, hand-off or reject an assignment, done-callback, admission loop, stop, drain, close | engine stream; spawns dispatch tasks; the gpu executor opens its circuit by callback |
| Dispatch pipeline (`symba/dispatch.py`) | where dispatch is, the outcome it delivers | refuse, run handler and shell, finalise, deliver with retries | executor, shell, engine (`Complete`/`Fail`) |
| Heartbeat shell (`symba/heartbeat.py`) | missed beats, deadline, why it cancelled | beat, miss, give up, time out, cancel, stop | engine (`Heartbeat`); cancels the handler task; stopped by dispatch |
| cpu pool (`symba/executors/process_executor.py`, `_pump.py`, `ctx_proxy.py`) | idle processes, spawned count, per-process jobs, pump threads | acquire (reuse, grow, wait), send, pump ctx calls, release, recycle, replace the dead, stop | child processes over pipes, ctx backend |
| gpu executor (`symba/executors/gpu_executor.py`) | one subprocess and pipe, run lock, crash times, circuit | start, run, respawn, pump, open the circuit, stop | child over one pipe, ctx backend, worker callback |
| ctx backend (`symba/ctx_backend.py`, `context.py`) | consumed wait keys | wait for an event, submit, submit children, checkpoint, resolve upstream | engine, checkpoint store |
| Checkpoint store (`symba/checkpoint.py`) | background writes in flight | write, retry, drain, delete; `read_fast` (called by nothing) | Redis, engine |
| Errors (`symba/errors.py`, `retry_classify.py`, `_error_serialization.py`, `_grpc_errors.py`) | none | classify, serialise, translate a status, rebuild a child's exception | dispatch, executors, every call site |
| Client engine (`symba/engine.py`, `job.py`, `specs.py`) | lazily built stub; of a stream its watermark, of a query its token | submit, fan out, gate result, query, await, stream events, cancel, signal | control plane |
| Sync facade (`symba/sync.py`) | loop thread, closing/closed flags | every client verb, close | client engine |
| Worker boot (`symba/worker.py`, `task_registry.py`, `profiles.py`, `config.py`, `watchdog.py`) | registry, slots, what is open | construct, register, check, boot, clean up | Redis, channel, executors, watchdog |
| Transport (`symba/transport.py`) | channel and the loop it belongs to | parse, check credentials, build, close | gRPC |
| SymbaTest (`symba/testing/`) | job table, gates, dedup index, buffered signals, fake clock | submit, fan out, signal, cancel, tick, run until idle, result, apply Complete/Fail/Wait | the real dispatcher |

Smaller parts (middleware, value types, CLI, admin, generated code) are listed in
`PROJECT.json` with the reason each is left out.

**What is hard here, and what makes each part correct**

- *Worker.* Start, hand-off, rejection and done-callbacks of many tasks
  interleave at every await. Each slot is owned once and given back once; the
  waiter of the Complete-to-release hand-off is never stranded; the capacity the
  engine sees is corrected; a stopped worker drains what runs and closes.
- *Dispatch and shell.* Result, timeout, engine cancellation and drain race; the
  network loses requests and answers. At most one outcome is reported, it is
  right, nothing acts on the lease beside it, and timeouts and cancellations
  reach the handler.
- *cpu pool.* Runs are cancelled with a pump thread still in `conn.recv`,
  processes die at any moment, forks fail, wake-ups race newcomers. A run gets its
  own answer, processes are handed over clean, the pool stays bounded and serves
  those who wait.
- *gpu executor.* All jobs share one pipe, so whatever a cancelled or crashed run
  leaves behind meets the next one; crash, respawn and handshake are separate
  awaits; the breaker must stop queued runs too.
- *SymbaTest.* Gates must fire once, on the right counts; a signal and the wait
  for it may come in either order; retries lie in the future of a fake clock;
  several callers may drive at once.
- *ctx and checkpoints.* Executions of one job overlap when a lease is taken back;
  writes go on in the background and are retried out of order; a signal comes before
  its wait, after it, or resumes a job that crashes again. What was confirmed is not
  lost, what was consumed is not waited for again, every call ends.
- *Errors.* One exception has two roads to its verdict, in the worker and through a
  child, and the two do not always agree. What a context call fails with decides
  whether the job runs again.
- *Client.* Submissions are retried whether or not they were applied; an event
  stream reconnects; jobs are created between two pages; a gate's continuation does
  not exist yet when it is asked for. One job per key, each event once and in
  order, each job listed once.
- *Facade.* Threads call and close at once; a thread may wait for a loop that is gone
  only in the one case the code leaves open.
- *Boot and clean-up.* Checks in three modules must fit together; the clean-up is six
  awaits, any of which may be cancelled or raise, while jobs still run. What runs
  keeps its tools, and nothing stays open.

The hazards behind these, each at its line and with the properties that cover it,
are under `hazards` in `PROJECT.json`.

## Modules

| Module | Models | Used by |
|---|---|---|
| `AssignmentLedger` | abstract: what a worker promises about assignments | `WorkerRuntime` implements it |
| `WorkerRuntime` | `symba/worker.py` | `MCWorkerRuntime`, `WorkerRuntime_proofs` |
| `LeaseContract` | abstract: what one execution promises about its lease | `JobExecution` implements it |
| `JobExecution` | `symba/dispatch.py`, `symba/heartbeat.py` | `MCJobExecution`, `JobExecution_proofs` |
| `ProcessPool` | `symba/executors/process_executor.py`, `_pump.py`, `ctx_proxy.py` | `MCProcessPool`, `ProcessPool_proofs` |
| `GpuExecutor` | `symba/executors/gpu_executor.py`, `_pump.py`, `ctx_proxy.py` | `MCGpuExecutor`, `GpuExecutor_proofs` |
| `HandlerContext` | `symba/ctx_backend.py`, `checkpoint.py`, `context.py` and the ends of an execution in `dispatch.py` | `MCHandlerContext`, `HandlerContext_proofs` |
| `FailureRules` | `symba/errors.py`, `retry_classify.py`, `_grpc_errors.py`, the verdict of the child in `process_executor.py` | `HandlerContext` |
| `ClientEngine` | `symba/engine.py`, `specs.py`, `ctx.submit` | `MCClientEngine`, `Client_proofs` |
| `SyncClient` | `symba/sync.py`; of `symba/engine.py` the stub, `_call` and `_await_job`; the channel of `symba/transport.py` | `MCSyncClient`, `Client_proofs` |
| `WorkerLifecycle` | `symba/worker.py` around the claim loop, `task_registry.py`, `profiles.py`, `config.py`, `watchdog.py`, `symba/transport.py` | `MCWorkerLifecycle`, `WorkerLifecycle_proofs` |
| `SymbaTest` | `symba/testing/`, `wait_for_event` of `symba/ctx_backend.py` | `MCSymbaTest`, `SymbaTest_proofs` |

The SDK is asyncio code: one event loop, no preemption. **An action is what one
task does between two awaits**, with every call it makes that changes state.
Threads and subprocesses (pump reads, children, the callers of the synchronous
facade) get actions of their own, a critical section or a call into the loop each, as do
the engine and the network, which are external and may do whatever their
protocols permit. Time is not counted: an armed timer may fire at any moment
(`SymbaTest`, whose clock is a variable of the program, is the exception).

The modules meet at these interfaces. `JobExecution` is one `_dispatch_one` task of
`WorkerRuntime` opened up: its `Drain` is `DrainTimeout` there, and its `DrainEnds` is
what `StoppedWorkerCloses` of `WorkerRuntime` assumes of its tasks. `ProcessPool` and
`GpuExecutor` are the `HandlerEnds` of `JobExecution`: a cancelled handler is their
`CancelHolder` / `Cancel`. `SymbaTest` puts the engine's side under such executions.
`HandlerContext` strings several executions of one job together and opens up what
the handler does in between; `FailureRules` gives the verdict `JobExecution` leaves
open. `WorkerLifecycle` puts `WorkerRuntime`, reduced to which assignments run, between
the boot and the clean-up of the worker; its `BootMeetsAssumptions` is the assumption
`WorkerRuntime` and `ProcessPool` make about their sizes. `SyncClient` is the thread side of
the verbs whose engine side is `ClientEngine`.

**WorkerRuntime.** `dispatch[j]` and `helper[j]` are the phases of the two tasks an
assignment may have; a task that returned is `"finished"` until the loop runs its
done-callback and `"gone"` after it, because the code releases slots only in that
callback. `_running` and `_slot_owners` are derived from the phases. The request
generator is a task of its own: the change event is cleared after the `yield`
resumes (worker.py:605), so `Announce` and `RequestWritten` are two steps. gRPC
keeps the order of assignments; a dropped stream loses what was not read.

**JobExecution.** Three tasks take turns: `pc` (dispatch), `handler`, `shell`. `wire`
holds the last copy of the report; `EngineTakesReport` and the answer are separate
steps, so each may be lost. `OldWaitFor` selects Python 3.11, where `asyncio.wait_for`
drops a cancellation that meets a finished future. `mustCancel` is the cancellation
that reaches a task whose awaited future is already done.

**ProcessPool.** A frame in a pipe carries the job it is about, so that an answer to
the wrong job can be told. `reader[p]` is the pump thread in `conn.recv`; a cancelled
run leaves it `"abandoned"`. Which idle process the queue yields and which waiter it
wakes are open. Log records matter only for abandoned reads.

**GpuExecutor.** `down` and `up` are the two directions of each subprocess's pipe, as
sequences of frames. Two threads in `recv` of one `Connection` are possible after a
cancellation; each takes part of a frame, and the pipe is `torn`. `recent` counts the
crashes in the window; `CrashAges` lets one leave it. A subprocess is `Disturbed` once
a run that held the lock on it was cancelled: its child and its read go on, and the
properties but `OwnAnswer` leave it out. With the breaker open `run()` turns jobs away
only before they wait for the lock (gpu_executor.py:137) and after a respawn (:146); a
job that waits for the lock meanwhile, and finds the subprocess a run before it
respawned, is sent, so `CircuitStopsWork` says what is left.

**SyncClient.** `pc[t]` is where the thread of a verb or of `close()` is in
`_LoopThread.run` and `close`; a thread makes one call. `task[t]` is its coroutine on the
loop, `answered[t]` the concurrent future between the two. Callbacks of the loop are run
in batches, first in, first out. A task that returned is `"finished"` until the
done-callback that sets the future has run, in the next batch (`SetFuture`). The batch
with `loop.stop` is the last (`LastBatch`, loop `"stopping"`): `_run` then cancels what
`all_tasks` finds, which a finished task is not part of, and runs the loop again only if
that is something (`"cancelling"`, else `"returned"`). A call scheduled after `loop.stop`
is `"late"`: it is run only while the loop cancels what it found, and cancelled by nobody;
`StopIsLast` of the proofs says that there is none. Verbs differ in what matters here only
by having a timeout (`Timed`) and by going on after an answer (`Series`).

**SymbaTest.** `store` is `MemStore` as one record; each method of the class is an
operator from a store to the next, since none awaits. Jobs are numbered in the
order the code inserts them, which is the order `_runnable` scans. `delay` is
`run_after - clock.now()`, in whole seconds: `base` and `factor` of a job's retry policy are
natural numbers. What a handler returns is open, and so is whether it
waits, for which key and in what order; this covers forced failures. `waits[d]` are
`_consumed_wait_keys` with what each wait returned.

**HandlerContext.** An execution is named by the lease it holds, and `exec[l]` says where
it is; the engine may take the lease back while the handler runs on, so executions
overlap. The handler is any program. A checkpoint is the number of steps it saves.
`puts` are the `PutCheckpoint` calls under way; each backs off on its own, so they may be
applied in any order. `acked` and `resumedBy` are history, for the properties alone.

**FailureRules.** No state: an exception is a record of what decides whether it is
retried (its class, the class of the SDK it derives from, the traits the rules probe
for, the status it carries), and the rules are operators on it. `RetriedInIo` and
`RetriedInChild` are the two roads from a handler to the verdict. They differ: the child
catches no `BaseException` that is not an `Exception`
(process_executor.py:67) and dies of it, which the parent takes for a crash; and it knows
no overrides. No property claims that they agree; `HandlerContext` takes from here which
executions are retried.

**ClientEngine.** `at[c]` is where a submission or fan-out is. `CallLost` is a call that
ended in UNAVAILABLE, applied or not. The three observers (`Gate.result`,
`stream_events`, `query`) only read the engine, so one at a time is as good as all;
`replays` says whether a new stream starts with the whole ledger, which the code's own
watermark is for, or is a live tail.

**WorkerLifecycle.** `phase` is where `arun` is between two awaits. Settings and
registrations are records of what the checks look at; the checks are operators, one
per function of the code. What boot opens has a variable each. `exit` is how `arun` ends:
`"cutShort"` is a second cancellation, `"raised"` the watchdog's own exception.

`PROJECT.json` maps every definition to the lines it stands for.

## Runs

| Run | Instance | States | Shows |
|---|---|---|---|
| `worker_safety` | 4 assignments, 2 slots, admission hook, gpu tags, symmetric | 1.2 M | slots conserved, and the hand-off never strands a waiter |
| `worker_liveness` | 3 assignments, 1 slot | 150 k | implements `AssignmentLedger`; assignments are answered; announced capacity is corrected; a stopped worker closes |
| `job` | Python 3.11, a timeout, 2 misses | 59 k | implements `LeaseContract`; one outcome; nothing runs beside the report; timeouts and cancellations reach the handler; dispatch and drain end |
| `pool` | 3 runs, 2 processes, recycled after 2 jobs | 178 k | clean hand-over, own answers, no lost wake-up, every waiter served while no slot is lost |
| `gpu` | 3 runs, 1 of them cancellable, breaker at 2 crashes, 4 subprocesses | 1.7 M | own answers, one warm child, what an open breaker lets through, waiters served: where no job was cancelled in flight |
| `gpu_crosstalk` | violated (2 runs) | | after a cancellation the next job returns the cancelled one's result |
| `ctx` | 2 leases, 2 checkpoints, 2 attempts a write, 1 key, io and cpu, with and without Redis | 649 k | confirmed checkpoints are resumed from where there is no Redis; a consumed signal is not waited for again; writes settle |
| `ctx_stale_resume` | violated | | with Redis, a resumed execution starts before a checkpoint its handler was told is saved |
| `client` | 2 submissions of one key, 1 fan-out, 1 retry, pages of 1, limit 2, 3 jobs | 468 k | one job per key, events once and in order, listings complete, a gate's result found |
| `lifecycle` | 8 settings, 6 registrations, 3 assignments, 2 cores | 902 k | running jobs keep executor and channel, nothing is left open, tags follow the circuit, beats fit the lease |
| `sync` | 2 verbs, one with a timeout, 2 closes, 2 retries | 562 k | a closed loop strands only a call that ended in its last batch; every other call returns unless the engine owes it an answer |
| `symbatest` | 2 drivers, 1 key, 1 submission, 1 fan-out out of four plans | 364 k | gates, signals, decisions and outcomes that stand, and driving comes to an end |

**Why the bounds are enough.** Worker: with two slots and four assignments both slots can
be held while one assignment waits in the hand-off and another is rejected, which are all
the roles an assignment can have; one slot suffices for liveness, as it is the tighter
case. Job: two misses tell "missed" from "gave up"; Python 3.11 is the harder case, as it
has all behaviours of the later versions and the lost cancellation besides. Pool: three
runs over two processes give a holder, a cancelled or crashed run and a waiter at once;
recycling after two jobs happens within the run; `MaxProcs` is `2 * |Jobs|`, as many as
the runs can ever spawn, so it never binds. Gpu: three runs are the one that opens the
breaker, the one that respawns with it open and the one that then finds a live subprocess;
one of them may be cancelled (`Cancellable`), which gives one that disturbs and others
that are disturbed; `Threshold` is 2 (3 in the code) so that two crashes open the breaker;
with four subprocesses (`MaxProcs`) three respawns can succeed, and one beyond them fails,
as a fork may. `gpu_crosstalk` needs two runs. SymbaTest: a gate with up to three
children, each policy, a duplicate, a chain in a child and in the continuation, a
continuation that is itself a known duplicate, and an empty fan-out; two drivers; a job
that waits and retries. Sync: `MaxRetries` is 2 (4 in the code), which tells the first
retry from the last; a call in every phase can meet a `close()` in every phase, with one
more call to open or use the channel, and a second `close()`. Ctx: two leases are the
interrupted execution and the resumed one, and both may run at once; two checkpoints are
the older and the newer; two attempts (4 in the code) tell a retry from a give-up; the
raisable exceptions are retried, not retried, a subclass of the SDK's own, process-level,
a cancellation, and ones that end a child. Client: two submissions of a key and one repeat
(4 in the code) give the lost answer and the other caller; three jobs over pages of one go
beyond the limit of two, and fill an instant shared by two events. Lifecycle: each setting
violates one check or passes all; the registrations hold every profile, shared and private
tags, one failure of each check; one slot with three assignments gives one that runs, one
that waits and one that is left. `CHECK_DEADLOCK FALSE` stands where the system may really
stop: all runs over, or nothing left to drive.

**Mutants.** Every property of a passing run has a mutant in `PROJECT.json`: the
definition of one operation replaced by one with a plausible bug (a dropped guard,
a missing wake-up, a release from the wrong callback), defined beside the
original. TLC finds the property violated with it.

## Fairness

Weak fairness is put on what the event loop or a live process does by itself:
ready tasks run, timers fire, frames that arrived are read, children go on. None
is put on the engine, the network, handlers, crashes, cancellations or `stop()`.
Where a property needs the outside world to move, it says so as a premise:

- `JobExecution`: delivery attempts end, one way or another (gRPC reports an
  error in the end; the fairness on `DeliveryAcknowledged \/ AttemptFails`). The
  strong fairness on `DeliveryDropped` is tenacity's stop after ten seconds of
  retries: a delivery that fails again and again is given up.
- `StoppedWorkerCloses` assumes that cancelled dispatch tasks end, which is
  `DrainEnds`; that in turn assumes handlers answer a cancellation.
- `ShellCancels`, `DispatchEnds`: the shell's beats return or fail (fairness on
  `BeatReturns`).
- `DispatchEnds`, `DrainEnds` assume `StopIsHeard`: on Python 3.11 no `ctx.heartbeat()`
  is pending as the handler ends. `OutcomeDelivered` is the claim without the premise and
  does not hold; from Python 3.12 on the premise is vacuous.
- `WritesSettle`: every `PutCheckpoint` call returns, with an answer or an error, and the
  clean-up is resumed. Nothing is assumed of engine or handler.
- `GateResolves`: the polls and the AwaitJob slices of a result are repeated until
  answered. That gates fire and continuations end is the property's premise.
- `CallsReturn`: threads and the loop run and their timers fire; nothing of the engine.
  A call that is stranded for good is named in the formula, as one the engine owes is.
- `ServedWithoutLoss`, `QueuedServed`: handlers end (`HandlersEnd`), and no slot was
  lost, respectively no job was cancelled in flight; the next section but one says
  what happens otherwise.
- `Quiesces`: handlers end and signals stop. Submissions and fan-outs are bounded;
  cancellations are not, they only remove work.

## Proofs

Every theorem holds for all values of the constants that satisfy the module's one
assumption: finite sets of jobs or calls and positive bounds in `RuntimeAssumption`,
`ExecutionAssumption`, `PoolAssumption`, `GpuAssumption` and `ClientAssumption`; the
types of settings, exceptions and overrides besides in `LifecycleAssumption` and
`ContextAssumption`; in `EngineAssumption` also that a fan-out has no dedup key, as
`fan_out` takes none; in `SymbaTestAssumption` that submissions and fan-outs are what their
types say, with at most one continuation. All have the same shape: an inductive
invariant, its base and step lemmas (one step per action), and the property from the
invariant.

| Module | Theorems | Argument |
|---|---|---|
| `WorkerRuntime_proofs` | `TypeCorrect`, `SlotsAlwaysConserved`, `CapacityRespected`, `WaitersNeverStranded`, `WorkerKeepsLedger`, `GracefulDrainComplete` | `SlotInv` adds to the count of slots that an assignment has at most one task and that tasks exist only for assignments taken (`TaskDiscipline`): without it a second start would break the count. `WakeInv` ties the event to the number of free slots: a waiter stays asleep only while both say "none". `LedgerInv` adds that an answer is final, which makes each step map to a step of `AssignmentLedger` or a stutter. `DrainInv`: after a stop no task joins `_running`, so the snapshot of `_drain` keeps containing it. |
| `JobExecution_proofs` | `TypeCorrect`, `QuietReports`, `ParkedIsSilent`, `ReportNeverChanges`, `ExecutionKeepsContract` | `JobInv` says for each position of dispatch what handler, shell, report and wire may be (`Positions`). A report exists only from `delivering` on, by when the shell was awaited; and what was caught agrees with how the handler ended, so each report agrees with the contract. |
| `ProcessPool_proofs` | `TypeCorrect`, `HandoverIsClean`, `AnswersAreOwn`, `WakeupsArrive`, `PoolStaysBounded`, `ReadersSuffice` | `PoolInv`: every process in use has exactly one claim (idle, held by one run, lost, retiring: `Claims`), and `_spawned` counts the claims (`Books`). A pipe holds only frames of the run that claims its process, so an answer can only be its own; live processes and readers are bounded by the claims. |
| `GpuExecutor_proofs` | `TypeCorrect`, `AnswersAreOwn`, `HandoverIsQuiet`, `ChildIsAlone`, `BreakerStopsWork` | `GpuInv` describes, for a subprocess on which nobody was cancelled, the state of child, both directions of the pipe and the reader at each position of the lock holder (`Protocol`); each frame sent or read moves it to the next position. `Breaker`: while the crash count is at the threshold the circuit is open, the lock free and the subprocess dead, so the next run can only respawn; `SendStep` adds that a run that respawned sends nothing with the circuit open. |
| `HandlerContext_proofs` | `TypeCorrect`, `SignalNeverLost`, `ConfirmedIsResumed` | `ContextInv`: leases are granted in order, so the newest is the only open one (`LeasesInOrder`); without Redis an execution has at most one write under way and awaits it, so what was confirmed is not beyond what the engine holds, nor what the engine holds beyond what the open execution did (`AwaitedWrites`: without the second half an older write could overwrite a newer one); a payload, once there, comes with every lease (`SignalKept`). |
| `Client_proofs`, of `ClientEngine` | `TypeCorrect`, `OneJobPerKey`, `EventsInOrder`, `NoEventSwallowed`, `QueryIsComplete` | `EngineInv`: jobs have creation times in their order (`InTime`); the watermark is the instant of the last event yielded together with all that instant's events yielded (`Watermark`: the instant alone would lose or repeat one); a listing has exactly the jobs before its token (`Listing`). |
| `Client_proofs`, of `SyncClient` | `SyncTypeCorrect`, `OnlyLastBatchStrands`, `CloseInterruptsNone` | `Books`: `_in_flight` counts the threads between its two updates, so zero means nobody is there. `StopIsLast`: once `close()` has decided to stop the loop, no thread is about to schedule on it. `TasksAnswer`: hence each thread that waits has a task that will answer, or be cancelled with the loop, or has ended in the last batch after an expired `close()`. |
| `WorkerLifecycle_proofs` | `TypeCorrect`, `RunningJobsKeepTools`, `EverythingReleased`, `StreamTagsFollowCircuit`, `BootSizesFit`, `BeatsAlwaysFit` | `LifeInv` says in which phase of `arun` what is open (`Open`), that jobs run only from claiming on (`Quiet`), that the registry which claims has passed every check (`Checked`), and that after a stop the drain's snapshot covers what runs (`DrainCovers`). |
| `SymbaTest_proofs` | `TypeCorrect`, `SignalsMeet`, `GatesFireRightly`, `GatesSettle`, `WhatEndedStaysEnded`, `OneDriverPerJob`, `DecisionsStand` | Each method is shown to lead from one sound store to another (`Sound`, `Settles`), and to let jobs only move forward (`Evolves`). A verdict once right stays right because the children it counted are terminal and nothing changes a terminal job (`VerdictStands`); that needs `RunsOwnJob`, as `_on_complete` and `_on_fail` write the state without a look at it. That a gate starts one chain at most is not inductive by itself: `Followed` adds the links still to come to the jobs already started. A gate without children of its own is settled by nobody; the report of the last child that counts finds the others terminal and fires it (`MaybeFireSettles`). For `DecisionsStand` every method `Keeps` what was decided: only an unfired gate is ever written to, only an unknown dedup key ever set. |

**Only model-checked.** All liveness properties (fairness and ENABLED are out of the
prover's reach): `Quiesces`, `GateResolves`, `WritesSettle`, `CallsReturn`,
`StoppedWorkerCloses`, `DispatchEnds` and the others under Fairness.

**Induction over data.** What `_fan_out` does to the store for children of any number is proved, by the least
counterexample on the natural numbers (`UpTo` in `SymbaTest_proofs`), as the library's
induction theorems take an operator, which the prover cannot instantiate. Not proved,
and not claimed, are facts about the values of the recursive functions, such as how many
jobs `WithChildren` creates.

**Only proved.** No run spends time on the type invariants, on `CapacityRespected`,
`GracefulDrainEmpties`, `ParkedReportsNothing`, `PoolBounded`, `EnoughReaders`,
`QuietHandover`, `InterruptsNone`, `RunsOwnJob` and `BootMeetsAssumptions`: TLC found
them true on the same instances before they were proved, and each can be added to the
`.cfg` of its module.

## Where the code and its documents disagree

Two disagreements are checked as violated runs (see `findings` in `PROJECT.json`): the
gpu answers that cross (`gpu_crosstalk`), and the resumed execution that starts before a
checkpoint its handler was told is saved (`ctx_stale_resume`). Six more are stated as a
property at the end of their module, which no run includes because it does not hold. To
see the trace, add the name to the `.cfg` named here, `DrainedJobsRerun`,
`NoStrandedCaller` and `WaitsAnswerOwnKey` as an INVARIANT, the others as a PROPERTY:

| Claim | Add to | What the code does |
|---|---|---|
| `DrainedJobsRerun` of `JobExecution` | `job.cfg` | a job cut off by the drain deadline is failed for good as "cancelled by engine", which asked for nothing (dispatch.py:352); symba_sdk_implementation.md:498 has it "abandoned (lease expiry re-runs them)" |
| `OutcomeDelivered` of `JobExecution` | `job.cfg` | on Python 3.11 the shell misses the cancellation of its stop, beats on, and dispatch waits for it (heartbeat.py:87); dispatch.py:3 promises an outcome per assignment |
| `PoolSelfHeals` of `ProcessPool` | `pool.cfg` | a run cancelled while its process works gives the slot back to nobody (process_executor.py:178 does not catch a cancellation); :90 promises a "self-healing pool" |
| `OpenBreakerSendsNothing` of `GpuExecutor` | `gpu.cfg` | once a crash has left the window, a job that was waiting for the lock respawns the subprocess although the breaker is open, and the next one that waited finds it alive and sends its job (gpu_executor.py:146 is not reached); the message at :140 says "not claiming gpu work until restarted" |
| `NoStrandedCaller` of `SyncClient` | `sync.cfg` | after an expired `close()`, a task that ends in the batch of `loop.stop` (sync.py:130) with no other task left: `all_tasks` (:57) skips it, `loop.close` (:63) drops the done-callback, and a caller without a timeout waits at :99 for ever; tests/unit/test_sync.py:77 asserts `not caller.is_alive()` |
| `WaitsAnswerOwnKey` of `SymbaTest` | `symbatest.cfg`, with `Keys = {k1, k2}` | a resumed execution's first wait returns the payload of whatever key resumed it (ctx_backend.py:208); the comment at :207 and symba_sdk_implementation.md:740 say "the same key" |

The rest was met while modelling. The models follow the code in each.

*Worker*
- The change event is cleared after the request was written, so a change during the
  write waits for the idle heartbeat (worker.py:605; tests/unit/test_worker.py:358
  "Capacity changes should not wait for the periodic idle heartbeat"). `CapacityReannounced` states what does hold.
- Stop ends the generator without announcing zero slots (worker.py:596; the comment at :504).
- gpu tags are captured once per stream (worker.py:575; the comment at :288).
- After refused credentials `_accepting` stays set, so a waiter may start a task that
  the drain's snapshot misses (worker.py:738; symba_sdk_implementation.md:498).
- The reconnect delay is reset only when a stream ends cleanly (worker.py:543, :571).

*Dispatch and shell*
- A refused copy of a report is retried for about ten seconds instead of swallowed (dispatch.py:442-451; the comment at :440).
- A result that is not JSON, or a process-level error, ends dispatch without an outcome (dispatch.py:283, :312; docstring :3).
- A handler's own `CancelledError` is reported as a cancellation by the engine (dispatch.py:352-356).
- A cancellation that meets a finished handler discards its result (dispatch.py:121).
- Once the shell gives up, timeout_s is enforced no more (heartbeat.py:109-111; docstring :10).
- A handler that swallows its cancellation is never failed by force (heartbeat.py:102; symba_sdk_implementation.md:684).
- The lease is not renewed while a report is retried.

*gpu executor*
- A child killed in the middle of a frame gives a plain `OSError`, which ends the run
  without a respawn (gpu_executor.py:156; process_executor.py:178 catches it).
- A torn read raises `EOFError` and respawns beside a child that still lives; a hung
  child is never terminated (symba_sdk_implementation.md:675); the `if not init.ok` branch is never taken.

*SymbaTest*
- A cancelled, deduplicated or missing child never settles its gate, and a cancelled
  one does not fail `all_success` although the docstring says "succeeded == expected"
  (fake_engine.py:385). `GateSettles` leaves these out. A chain in a child settles its gate at the head.
- A cancelled running job ends dead, not cancelled. `cascade` cancels the whole ctx.
- A second signal overwrites a buffered one; a signal consumed by a wait that then
  fails is lost for the retry.
- A signal with payload None re-queues the waiter, which parks again instead of returning None (ctx_backend.py:208).
- `depends_on`, `run_at` and a wait's `timeout_s` are ignored; `quorum(0.9)` raises (symba_sdk_implementation.md:348).
- Two `result()` calls at once: the second may report a timeout while the first still runs the job, and `_current_job_id` is the later one's.

*Synchronous facade*
- A call that ends in the loop's last batch is stranded (`NoStrandedCaller` above). A
  timeout of its own, or any other task still pending, saves it. `StrandedByLastBatch`
  and `CallsReturn` say that this is the one way.
- A second `SyncEngine.close` returns while the first is still closing (sync.py:368).
- A first verb between the close of the channel and that of the loop opens a channel
  that nobody closes (sync.py:373-378; docstring :366 "Close the channel and loop once").
- `_LoopThread.close` handles a loop never started, which `SyncEngine.close` never
  meets: it starts the thread itself, to close a channel that does not exist.

*Worker, boot and clean-up*
- A middleware's `observe_loop_lag` is called outside the guard (worker.py:403;
  middleware.py:3 "every hook call is wrapped"). What it raises ends the watchdog, and
  `_stop_watchdog` raises it again in the clean-up, so executors, Redis and channel stay
  open. `NothingLeftOpen` leaves this end out.
- A cancelled `arun()` leaves `_accepting` set: a job may start while the worker drains,
  and lose its executor. `JobsKeepTools` is about the end after `stop()`.
- What fails before the `try` of `arun` (a bad registry, a second executor's start)
  leaves Redis, the channel and the executors already started open (worker.py:362).
- A second cancellation during the clean-up skips the rest of it (worker.py:373).
- A second `arun()` of the same worker uses stubs bound to the closed channel.
- An io task that leaves its lease to the engine is not held to the rule
  `heartbeat_interval_s <= lease / 3` (task_registry.py:192).

*ctx, checkpoints and failures*
- `drain` and `delete_fast` run after Complete (dispatch.py:288; checkpoint.py:152 "called
  before Complete"), so a completion that comes late deletes the Redis key a newer
  execution of the job has written. `read_fast` is called by nothing. Background writes
  of one job may be applied out of order.
- A durable write that is given up raises the gRPC error as it is (checkpoint.py:170),
  which no rule knows, so the job fails for good; `_grpc_errors.py:3` "every call site
  raises the same typed errors".
- A verb that fails in the parent reaches a cpu or gpu handler as a plain, non-retryable
  `SymbaError`, whatever it was. A child knows no `classify_overrides`. The exceptions a
  main script declares are classes of `__mp_main__` in the child, which hides their message.
- `MemoryError` is reported by nobody from an io handler, and as a retryable crash from a
  child. `CancelledError`, `GeneratorExit` and every other `BaseException` that is not
  an `Exception` kill a child too (process_executor.py:67), and are retried; an io
  handler's are judged by dispatch.
- When a wait times out the engine resumes the job with no payload, and the wait parks
  again (ctx_backend.py:208; docs/job_engine_design.md:890 "no job waits forever").
- A signal that answers a wait at once is consumed; if the execution then fails, its retry
  waits for it in vain. `SignalledWaitFlows` is about signals that resumed the job.

*Client*
- `_call` retries a Submit on UNAVAILABLE whether or not it was applied (engine.py:526):
  without a dedup key the job is submitted twice, and a fan-out has none.
- An event whose instant is earlier than one already yielded is swallowed, without any
  reconnect (engine.py:330), and one without an instant is yielded again after one.
  `StreamDelivers` takes the ledger to be in order, each event with its instant, one per
  job (the code tells events of an instant apart by job and name).
- `stream_events` sends no watermark, it drops by one what comes again (engine.py:316): where
  the engine serves a live tail, a blip loses events (symba_sdk_implementation.md:366 "a
  blip never loses events").
- `gate.result()` takes the first job of the continuation's name in the ctx
  (engine.py:494), which a repeated fan-out or an older run makes another gate's.
- `_validate_chain_head` refuses a continuation with a chain tail (specs.py:219), the very
  form of symba_sdk_implementation.md:346.

## What is not modelled

- Inside the modelled parts: logging, metrics and payload contents; the worker's
  watchdog and liveness file, which only observe; counts of seconds. In
  `JobExecution`: an assignment whose JSON cannot be parsed; middleware hooks, whose
  errors are caught; a beat's answer and its cancellation flag are one step. In
  `WorkerRuntime`: on Python 3.11 a waiter woken in the turn the drain cancels it
  may swallow the cancellation. In `ProcessPool` and `GpuExecutor`: `stop()` comes
  once no run holds a process, as `arun` calls it after the drain. In `SymbaTest`:
  `_cancel_requested`, checkpoints, result lookup, the event ledger, `max_ticks`.
- In `SyncClient`: the refusal inside a running loop; the admin verbs; what
  a verb builds and parses; a thread that calls more than once. Seconds are not
  counted, but the five of `close()` are taken to be enough for a thread that has
  counted its call to schedule it (without that, such a call could be lost).
- In `HandlerContext`: verbs that are one call (heartbeat, resolve, submit) but for what
  they raise; what a checkpoint contains; the public form of a failure
  (`_error_serialization.py`). In
  `ClientEngine`: `cancel`, `signal`, `resubmit` and the reads of one job, each one call
  retried as a submission is; what a submission contains beyond its key. In
  `WorkerLifecycle`: the claim loop is reduced to which assignments run; signal handlers,
  the liveness file and logging; where a setting comes from. `query(limit=None)` is a
  limit that no listing reaches.
- Whole parts: see `components` in `PROJECT.json`. Value types, middleware, version,
  command line and admin are values and single calls; the generated protocol code and
  the engine behind it are external.

## Plan

1. *Done:* worker, execution, both process executors, synchronous client, in-memory
   engine; proofs of all six.
2. *Done:* `HandlerContext` with `FailureRules`, `ClientEngine`, `WorkerLifecycle`, and the
   proofs of all three.
3. `SymbaTest`: cancellation requests, the event ledger and `max_ticks`.
4. Proofs: a composition of `WorkerRuntime` with `LeaseContract` in place of its open
   dispatch tasks, and of its slots with `JobExecution`; how they meet is only argued
   above.
5. Middleware and admin, should they come to keep state.

The order follows what a wrong step costs: a slot or lease error loses jobs, a
client error repeats them.
