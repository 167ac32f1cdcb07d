----------------------------- MODULE SyncClient -----------------------------
(***************************************************************************)
(* symba.sync: SyncEngine and its background loop thread, over the async   *)
(* client symba.engine.Engine and its one channel (symba.transport).       *)
(*                                                                         *)
(* Threads of the application block in verbs while others close the        *)
(* client, the interpreter's exit handler among them. Threads interleave   *)
(* between critical sections, so an action of a thread is one section      *)
(* under the lock of its object, or one call into the loop; an action of   *)
(* a task is what it does between two awaits. The loop runs its callbacks  *)
(* in batches, first in, first out; what a batch adds waits for the next,  *)
(* and the batch with loop.stop in it is the last. In that batch only the  *)
(* steps of tasks are told apart: any other callback in it counts as run   *)
(* just before it. Timers may fire at any moment, with one exception: five *)
(* seconds are enough for a thread that has counted its call to schedule   *)
(* it. The engine answers as it likes, or never. Names that ClientEngine   *)
(* has too carry a prefix here.                                            *)
(***************************************************************************)
EXTENDS Integers, FiniteSets

CONSTANTS Callers, \* calls of a verb, each by a thread of its own
          Closers, \* calls of close()
          Timed,   \* the calls with a timeout
          Series,  \* the calls that go on after an answer: result(), query()
          MaxRetries  \* how often _call repeats an UNAVAILABLE call: 4

ASSUME ClientAssumption ==
    /\ IsFiniteSet(Callers) /\ IsFiniteSet(Closers)
    /\ Callers \cap Closers = {}
    /\ Timed \subseteq Callers /\ Series \subseteq Callers
    /\ MaxRetries \in Nat

Threads == Callers \cup Closers

VARIABLES
    pc,          \* pc[t]: where thread t is
    answered,    \* answered[t]: the future of its call is done
    inFlight,    \* _LoopThread._in_flight
    loopClosing, \* _LoopThread._closing
    expired,     \* _LoopThread.close() has passed its deadline
    closing,     \* SyncEngine._closing or _closed
    loop,        \* the loop thread; _closed when closed
    stopQueued,  \* loop.stop is among the loop's callbacks
    task,        \* task[t]: the coroutine of its call
    attempts,    \* attempts[t]: attempts of _call
    channel      \* the channel of the client's stub

threadVars == <<pc, answered, inFlight, closing>>
loopVars   == <<loopClosing, expired, loop, stopQueued>>
taskVars   == <<task, attempts, channel>>
syncVars   == <<threadVars, loopVars, taskVars>>

Counted == {"scheduling", "waiting", "leaving"}   \* between the two updates of _in_flight
Live    == {"calling", "backoff", "closing", "cancelling"}
Pending == Live \cup {"created"}   \* asyncio.all_tasks: not done

SyncTypeOK ==
    /\ pc \in [Threads -> Counted \cup {"idle", "called", "starting", "entering", "draining",
                                        "lingering", "stopping", "joining", "done"}]
    /\ answered \in [Threads -> BOOLEAN]
    /\ inFlight \in 0..Cardinality(Threads)
    /\ loopClosing \in BOOLEAN
    /\ expired \in BOOLEAN
    /\ closing \in BOOLEAN
    /\ loop \in {"unstarted", "starting", "ready", "running", "stopping", "cancelling", "returned",
                "closed"}
    /\ stopQueued \in BOOLEAN
    /\ task \in [Threads -> Pending \cup {"none", "scheduled", "late", "finished", "ended"}]
    /\ attempts \in [Threads -> 0..MaxRetries]
    /\ channel \in {"none", "open", "closed"}

SyncInit ==
    /\ pc = [t \in Threads |-> "idle"]
    /\ answered = [t \in Threads |-> FALSE]
    /\ inFlight = 0
    /\ loopClosing = FALSE /\ expired = FALSE /\ closing = FALSE
    /\ loop = "unstarted"
    /\ stopQueued = FALSE
    /\ task = [t \in Threads |-> "none"]
    /\ attempts = [t \in Threads |-> 0]
    /\ channel = "none"

GoTo(t, place) == pc' = [pc EXCEPT ![t] = place]

-----------------------------------------------------------------------------
(* _LoopThread.run, by the thread that calls a verb or close().            *)

\* run() is over, with or without a result; close() suppresses errors and goes on.
After(t) == IF t \in Closers THEN "draining" ELSE "done"

\* Any verb of the facade, called outside of an event loop.
Call(t) ==
    /\ t \in Callers
    /\ pc[t] = "idle"
    /\ GoTo(t, "called")
    /\ UNCHANGED <<answered, inFlight, closing, loopVars, taskVars>>

EnsureStarted(t) ==
    /\ pc[t] = "called"
    /\ IF loopClosing
       THEN GoTo(t, After(t)) /\ UNCHANGED loop
       ELSE /\ GoTo(t, "starting")
            /\ loop' = IF loop = "unstarted" THEN "starting" ELSE loop
    /\ UNCHANGED <<answered, inFlight, closing, loopClosing, expired, stopQueued, taskVars>>

\* _ready.wait returns, or gives up after five seconds.
AwaitReady(t) ==
    /\ pc[t] = "starting"
    /\ IF loop # "starting" THEN GoTo(t, "entering") ELSE GoTo(t, After(t))
    /\ UNCHANGED <<answered, inFlight, closing, loopVars, taskVars>>

\* Mutant: no second look at _closing.
EnterUnchecked(t) ==
    /\ pc[t] = "entering"
    /\ GoTo(t, "scheduling") /\ inFlight' = inFlight + 1
    /\ UNCHANGED <<answered, closing, loopVars, taskVars>>

Enter(t) ==
    /\ pc[t] = "entering"
    /\ IF loopClosing
       THEN GoTo(t, After(t)) /\ UNCHANGED inFlight
       ELSE GoTo(t, "scheduling") /\ inFlight' = inFlight + 1
    /\ UNCHANGED <<answered, closing, loopVars, taskVars>>

\* run_coroutine_threadsafe adds a callback; one behind loop.stop comes too late.
Schedule(t) ==
    /\ pc[t] = "scheduling"
    /\ IF loop = "closed"
       THEN GoTo(t, "leaving") /\ UNCHANGED task
       ELSE /\ GoTo(t, "waiting")
            /\ task' = [task EXCEPT ![t] =
                    IF stopQueued \/ loop \in {"stopping", "cancelling", "returned"}
                    THEN "late" ELSE "scheduled"]
    /\ UNCHANGED <<answered, inFlight, closing, loopVars, attempts, channel>>

\* future.result: its value or exception, or the caller's timeout, which cancels it.
FutureDone(t) ==
    /\ pc[t] = "waiting" /\ answered[t]
    /\ GoTo(t, "leaving")
    /\ UNCHANGED <<answered, inFlight, closing, loopVars, taskVars>>

Timeout(t) ==
    /\ pc[t] = "waiting" /\ ~answered[t]
    /\ t \in Timed \cup Closers
    /\ GoTo(t, "leaving")
    /\ answered' = [answered EXCEPT ![t] = TRUE]
    /\ UNCHANGED <<inFlight, closing, loopVars, taskVars>>

Leave(t) ==
    /\ pc[t] = "leaving"
    /\ GoTo(t, After(t))
    /\ inFlight' = inFlight - 1
    /\ UNCHANGED <<answered, closing, loopVars, taskVars>>

-----------------------------------------------------------------------------
(* SyncEngine.close and _LoopThread.close.                                 *)

\* Only the first close() does anything: the others return at once.
Close(t) ==
    /\ t \in Closers /\ pc[t] = "idle"
    /\ closing' = TRUE
    /\ GoTo(t, IF closing THEN "done" ELSE "called")
    /\ UNCHANGED <<answered, inFlight, loopVars, taskVars>>

\* _LoopThread.close sets _closing, and waits for the calls in flight.
StopAccepting(t) ==
    /\ pc[t] = "draining"
    /\ loopClosing' = TRUE
    /\ GoTo(t, "lingering")
    /\ UNCHANGED <<answered, inFlight, closing, expired, loop, stopQueued, taskVars>>

\* _in_flight is 0, or the five seconds are over.
Linger(t) ==
    /\ pc[t] = "lingering"
    /\ \/ inFlight = 0 /\ UNCHANGED expired
       \/ /\ inFlight > 0 /\ \A u \in Threads : pc[u] # "scheduling"
          /\ expired' = TRUE
    /\ GoTo(t, "stopping")
    /\ UNCHANGED <<answered, inFlight, closing, loopClosing, loop, stopQueued, taskVars>>

\* loop.stop, if the loop runs. close() has started its thread, to run aclose().
RequestStop(t) ==
    /\ pc[t] = "stopping"
    /\ stopQueued' = (loop = "running")
    /\ GoTo(t, "joining")
    /\ UNCHANGED <<answered, inFlight, closing, loopClosing, expired, loop, taskVars>>

\* The loop thread ended, or join gives up.
Join(t) ==
    /\ pc[t] = "joining"
    /\ GoTo(t, "done")
    /\ UNCHANGED <<answered, inFlight, closing, loopVars, taskVars>>

-----------------------------------------------------------------------------
(* The loop thread.                                                        *)

\* _ready is set, then run_forever begins: until then the loop is not running.
LoopReady ==
    /\ loop \in {"starting", "ready"}
    /\ loop' = IF loop = "starting" THEN "ready" ELSE "running"
    /\ UNCHANGED <<threadVars, loopClosing, expired, stopQueued, taskVars>>

\* The last batch of run_forever, the one with loop.stop, begins.
LastBatch ==
    /\ loop = "running" /\ stopQueued
    /\ \A t \in Threads : task[t] \notin {"scheduled", "finished"}
    /\ loop' = "stopping"
    /\ stopQueued' = FALSE
    /\ UNCHANGED <<threadVars, loopClosing, expired, taskVars>>

\* run_forever returns, and _run cancels the tasks that are not done. With none
\* of them the loop does not run again.
TakeStop ==
    /\ loop = "stopping"
    /\ loop' = IF \E t \in Threads : task[t] \in Pending THEN "cancelling" ELSE "returned"
    /\ task' = [t \in Threads |-> IF task[t] \in Pending THEN "cancelling" ELSE task[t]]
    /\ UNCHANGED <<threadVars, loopClosing, expired, stopQueued, attempts, channel>>

\* The tasks that were found are gathered, and loop.close drops every callback
\* that has not run.
CloseLoop ==
    /\ \/ loop = "returned"
       \/ loop = "cancelling" /\ \A t \in Threads : task[t] \notin {"cancelling", "finished"}
    /\ loop' = "closed"
    /\ UNCHANGED <<threadVars, loopClosing, expired, stopQueued, taskVars>>

-----------------------------------------------------------------------------
(* The coroutines: Engine verbs, and Engine.aclose.                        *)

\* The coroutine is over. Its done-callback waits for the next batch.
End(t) == task' = [task EXCEPT ![t] = "finished"] /\ UNCHANGED answered

\* The done-callback sets the future of the call, unless that was cancelled.
SetFuture(t) ==
    /\ loop \in {"running", "cancelling"}
    /\ task[t] = "finished"
    /\ task' = [task EXCEPT ![t] = "ended"]
    /\ answered' = [answered EXCEPT ![t] = TRUE]
    /\ UNCHANGED <<pc, inFlight, closing, loopVars, attempts, channel>>

\* _client() opens the channel at the first verb. A closed one refuses the call.
Issue(t) ==
    IF channel = "closed"
    THEN End(t) /\ UNCHANGED channel
    ELSE /\ task' = [task EXCEPT ![t] = "calling"]
         /\ channel' = "open"
         /\ UNCHANGED answered

\* The channel is closed at once, and the calls on it are cancelled.
Aclose(t) ==
    IF channel = "open"
    THEN /\ channel' = "closed"
         /\ task' = [u \in Threads |-> IF u = t THEN "closing"
                                       ELSE IF task[u] = "calling" THEN "cancelling" ELSE task[u]]
         /\ UNCHANGED answered
    ELSE End(t) /\ UNCHANGED channel

\* The loop runs the callback that makes the task of a call.
StartTask(t) ==
    /\ \/ loop = "running" /\ task[t] = "scheduled"
       \/ loop = "cancelling" /\ task[t] = "late"
    /\ task' = [task EXCEPT ![t] = "created"]
    /\ UNCHANGED <<threadVars, loopVars, attempts, channel>>

\* A task may take several steps in the last batch: one more than it could does no harm.
Running(t, state) == loop \in {"running", "stopping", "cancelling"} /\ task[t] = state

\* Its first step comes before a cancellation of its future, which is queued behind.
FirstStep(t) ==
    /\ Running(t, "created")
    /\ IF t \in Callers THEN Issue(t) ELSE Aclose(t)
    /\ UNCHANGED <<pc, inFlight, closing, loopVars, attempts>>

\* The engine answers, with a result or an error.
Reply(t) ==
    /\ Running(t, "calling")
    /\ End(t)
    /\ UNCHANGED <<pc, inFlight, closing, loopVars, attempts, channel>>

\* AwaitJob's slice is over, a gate has not fired (it is polled after a pause), or a
\* page of a query has another after it: the next RPC is a new _call.
NextSlice(t) ==
    /\ Running(t, "calling")
    /\ t \in Series
    /\ attempts' = [attempts EXCEPT ![t] = 0]
    /\ \E state \in {"calling", "backoff"} : task' = [task EXCEPT ![t] = state]
    /\ UNCHANGED <<threadVars, loopVars, channel>>

\* Mutant: retries without end.
UnavailableForever(t) ==
    /\ Running(t, "calling")
    /\ task' = [task EXCEPT ![t] = "backoff"]
    /\ UNCHANGED <<threadVars, loopVars, attempts, channel>>

\* The engine cannot be reached: the attempt is repeated after a pause.
Unavailable(t) ==
    /\ Running(t, "calling")
    /\ IF attempts[t] < MaxRetries
       THEN /\ attempts' = [attempts EXCEPT ![t] = @ + 1]
            /\ task' = [task EXCEPT ![t] = "backoff"]
            /\ UNCHANGED answered
       ELSE End(t) /\ UNCHANGED attempts
    /\ UNCHANGED <<pc, inFlight, closing, loopVars, channel>>

Retry(t) ==
    /\ Running(t, "backoff")
    /\ Issue(t)
    /\ UNCHANGED <<pc, inFlight, closing, loopVars, attempts>>

ChannelClosed(t) ==
    /\ Running(t, "closing")
    /\ End(t)
    /\ UNCHANGED <<pc, inFlight, closing, loopVars, attempts, channel>>

\* The thread gave up: its future's cancellation reaches the task.
Abandon(t) ==
    /\ pc[t] \notin Counted \ {"leaving"}
    /\ \E state \in Live \ {"cancelling"} : Running(t, state)
    /\ task' = [task EXCEPT ![t] = "cancelling"]
    /\ UNCHANGED <<threadVars, loopVars, attempts, channel>>

\* CancelledError leaves the coroutine.
Unwind(t) ==
    /\ Running(t, "cancelling")
    /\ End(t)
    /\ UNCHANGED <<pc, inFlight, closing, loopVars, attempts, channel>>

-----------------------------------------------------------------------------
ThreadStep(t) ==
    \/ EnsureStarted(t) \/ AwaitReady(t) \/ Enter(t) \/ Schedule(t) \/ FutureDone(t) \/ Leave(t)
    \/ StopAccepting(t) \/ Linger(t) \/ RequestStop(t) \/ Join(t)

LoopStep == LoopReady \/ LastBatch \/ TakeStop \/ CloseLoop

TaskStep(t) ==
    StartTask(t) \/ FirstStep(t) \/ Retry(t) \/ ChannelClosed(t) \/ Abandon(t) \/ Unwind(t)
    \/ SetFuture(t)

SyncNext ==
    \/ \E t \in Threads : Call(t) \/ Close(t) \/ ThreadStep(t) \/ Timeout(t)
    \/ LoopStep
    \/ \E t \in Threads : TaskStep(t) \/ Reply(t) \/ NextSlice(t) \/ Unavailable(t)

SyncSpec == SyncInit /\ [][SyncNext]_syncVars

\* Threads and the loop run, timers fire. Nothing is owed by the engine.
Fairness ==
    /\ WF_syncVars(LoopStep)
    /\ \A t \in Threads : WF_syncVars(ThreadStep(t) \/ Timeout(t)) /\ WF_syncVars(TaskStep(t))

SyncFairSpec == SyncSpec /\ Fairness

-----------------------------------------------------------------------------
(* Safety.                                                                 *)

\* A thread waits for a loop that is gone, and nothing will set its future.
Stranded(t) == loop = "closed" /\ pc[t] = "waiting" /\ ~answered[t]

\* However calls race with close(), one thing alone strands a thread: close() gave
\* up waiting for it, and its task took its last step in the last batch.
StrandedByLastBatch == \A t \in Threads : Stranded(t) => expired /\ task[t] = "finished"

\* A close() that keeps within its deadline interrupts no call: when the loop
\* stops, no thread is in run().
InterruptsNone ==
    ~expired /\ loop \in {"stopping", "cancelling", "returned", "closed"} =>
        \A t \in Threads : pc[t] \notin Counted

-----------------------------------------------------------------------------
(* Liveness.                                                               *)

Busy(t) == pc[t] \notin {"idle", "done"}

\* A call without a timeout, on a loop that runs, whose attempt the engine does not
\* answer; or a series of calls that does not end.
OwedByEngine(t) ==
    /\ t \in Callers \ Timed
    /\ loop = "running" /\ ~stopQueued
    /\ t \in Series \/ task[t] = "calling"

\* Every call and every close() returns, unless the engine owes it an answer or it
\* is stranded: retries end, a timeout is kept, and the stop of the loop ends every
\* call under way but one that ends with it.
CallsReturn ==
    \A t \in Threads : []<>~Busy(t) \/ <>[]OwedByEngine(t) \/ <>[](t \notin Timed /\ Stranded(t))

-----------------------------------------------------------------------------
(* What a test says and the code does not do.                              *)

\* "test_loop_thread_close_is_bounded_with_in_flight_work": when close() has cut
\* off a call, its thread returns. The loop drops the callback of a task that ends
\* in its last batch, if no other task is left to run the loop for.
NoStrandedCaller == \A t \in Threads : ~Stranded(t)
=============================================================================
