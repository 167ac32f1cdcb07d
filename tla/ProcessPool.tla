---------------------------- MODULE ProcessPool ----------------------------
(***************************************************************************)
(* symba.executors.process_executor.ProcessExecutor: the cpu profile's     *)
(* pool of forkserver processes, grown on demand up to MaxWorkers, one job *)
(* at a time per process over its own duplex pipe, and one pump thread per *)
(* read in flight.                                                         *)
(*                                                                         *)
(* The parent is one event loop: an action of a run is what run() does     *)
(* between two awaits, so taking a process, checking that it lives,        *)
(* sending RunJob and queueing the first read is one step. A child process *)
(* is external to the loop: it may ask, answer or die at any moment.       *)
(*                                                                         *)
(* Which idle process the LifoQueue yields and which waiter it wakes are   *)
(* left open: no property tells them apart. Log records are left out but   *)
(* for what they do to a read nobody awaits any more.                      *)
(***************************************************************************)
EXTENDS Integers, FiniteSets

CONSTANTS Jobs,           \* calls of run(), each at most once
          MaxWorkers,     \* _max_workers
          JobsPerProcess, \* _max_jobs_per_process, 0 for None
          MaxProcs,       \* bound: processes ever spawned
          NoJob           \* no job

ASSUME PoolAssumption ==
    /\ IsFiniteSet(Jobs)
    /\ MaxWorkers \in Nat \ {0}
    /\ JobsPerProcess \in Nat
    /\ MaxProcs \in Nat
    /\ NoJob \notin Jobs

Procs  == 1..MaxProcs
NoProc == 0

VARIABLES
    phase,    \* _started, and whether stop() has returned
    spawned,  \* _spawned
    idle,     \* the processes in _idle
    run,      \* run[j]: where run() of job j is
    slot,     \* slot[j]: its local slot
    got,      \* the job whose answer run() of job j returned or raised
    proc,     \* proc[p]: what the child process does
    serving,  \* serving[p]: the job of the RunJob it works on
    up,       \* up[p]: the frame in the pipe to the parent
    reader,   \* reader[p]: the pump thread in conn.recv
    jobsDone, \* _Slot.jobs
    retiring  \* the processes _retire_slot works on

parentVars == <<phase, spawned, idle, run, slot, got>>
childVars  == <<proc, serving, up, reader, jobsDone, retiring>>
vars == <<parentVars, childVars>>

Holding   == {"pumping", "replying"}
Lost      == {"abandoned", "raised"}   \* ended without giving the slot back
RunPhases == Holding \cup Lost \cup
             {"none", "waiting", "woken", "returned", "crashed", "cancelled"}
Answers   == {"result", "failure", "unreadable"}
Empty     == [kind |-> "empty", job |-> NoJob]
Frames    == [kind : Answers \cup {"call", "empty"}, job : Jobs \cup {NoJob}]

TypeOK ==
    /\ phase \in {"unstarted", "started", "stopped"}
    /\ spawned \in 0..MaxWorkers
    /\ idle \in SUBSET Procs
    /\ run \in [Jobs -> RunPhases]
    /\ slot \in [Jobs -> Procs \cup {NoProc}]
    /\ got \in [Jobs -> Jobs \cup {NoJob}]
    /\ proc \in [Procs -> {"unborn", "ready", "busy", "asking", "dead"}]
    /\ serving \in [Procs -> Jobs \cup {NoJob}]
    /\ up \in [Procs -> Frames]
    /\ reader \in [Procs -> {"none", "run", "abandoned"}]
    /\ jobsDone \in [Procs -> Nat]
    /\ retiring \in SUBSET Procs

-----------------------------------------------------------------------------
Init ==
    /\ phase = "unstarted"
    /\ spawned = 0
    /\ idle = {}
    /\ run = [j \in Jobs |-> "none"]
    /\ slot = [j \in Jobs |-> NoProc]
    /\ got = [j \in Jobs |-> NoJob]
    /\ proc = [p \in Procs |-> "unborn"]
    /\ serving = [p \in Procs |-> NoJob]
    /\ up = [p \in Procs |-> Empty]
    /\ reader = [p \in Procs |-> "none"]
    /\ jobsDone = [p \in Procs |-> 0]
    /\ retiring = {}

\* The next process to be forked.
Fresh(p) == proc[p] = "unborn" /\ \A q \in Procs : q < p => proc[q] # "unborn"

\* A frame waits in the pipe from the child.
Unread(p) == up[p].kind # "empty"

\* asyncio.LifoQueue.put_nowait wakes one getter, if any waits.
WakeOne(r) ==
    LET waiting == {k \in Jobs : r[k] = "waiting"}
    IN  IF waiting = {} THEN {r} ELSE {[r EXCEPT ![k] = "woken"] : k \in waiting}

-----------------------------------------------------------------------------
(* A run gets a process.                                                   *)

\* RunJob is sent and the first read queued.
Serve(j, p) ==
    /\ run' = [run EXCEPT ![j] = "pumping"]
    /\ slot' = [slot EXCEPT ![j] = p]
    /\ proc' = [proc EXCEPT ![p] = "busy"]
    /\ serving' = [serving EXCEPT ![p] = j]
    /\ reader' = [reader EXCEPT ![p] = "run"]
    /\ UNCHANGED <<got, up, jobsDone, retiring>>

\* An error nobody catches leaves run() with its share of _spawned.
Raise(j) == run' = [run EXCEPT ![j] = "raised"]

\* _spawn_slot, which forks a process or fails (no memory, no descriptor).
ServeOnFresh(j) ==
    \/ \E p \in Procs : Fresh(p) /\ Serve(j, p)
    \/ Raise(j) /\ UNCHANGED <<slot, got, childVars>>

\* A process that died while idle is replaced, a live one is used.
TakeIdle(j) ==
    \E p \in idle :
        /\ idle' = idle \ {p}
        /\ IF proc[p] = "dead" THEN ServeOnFresh(j) ELSE Serve(j, p)
        /\ UNCHANGED spawned

Grow(j) ==
    /\ idle = {}
    /\ spawned < MaxWorkers
    /\ spawned' = spawned + 1
    /\ ServeOnFresh(j)
    /\ UNCHANGED idle

Wait(j) ==
    /\ idle = {}
    /\ spawned >= MaxWorkers
    /\ run' = [run EXCEPT ![j] = "waiting"]
    /\ UNCHANGED <<spawned, idle, slot, got, childVars>>

Start(j) ==
    /\ phase # "stopped"
    /\ run[j] = "none"
    /\ phase' = "started"
    /\ TakeIdle(j) \/ Grow(j) \/ Wait(j)

\* A woken getter finds the queue emptied by a newcomer, and waits again.
WaitAgain(j) ==
    /\ idle = {}
    /\ run' = [run EXCEPT ![j] = "waiting"]
    /\ UNCHANGED <<spawned, idle, slot, got, childVars>>

Woken(j) ==
    /\ run[j] = "woken"
    /\ TakeIdle(j) \/ WaitAgain(j)
    /\ UNCHANGED phase

-----------------------------------------------------------------------------
(* The child process and the pump threads.                                 *)

\* A child's frame goes up: it then waits for the reply, or for the next RunJob.
Send(p, kind, then) ==
    /\ proc[p] = "busy"
    /\ up' = [up EXCEPT ![p] = [kind |-> kind, job |-> serving[p]]]
    /\ proc' = [proc EXCEPT ![p] = then]
    /\ UNCHANGED <<parentVars, serving, reader, jobsDone, retiring>>

ChildAsks(p) == Send(p, "call", "asking")
ChildAnswers(p) == \E kind \in Answers : Send(p, kind, "ready")

\* Killed, crashed, or ended by an error classify() does not classify.
ChildDies(p) ==
    /\ proc[p] \in {"ready", "busy", "asking"}
    /\ proc' = [proc EXCEPT ![p] = "dead"]
    /\ UNCHANGED <<parentVars, serving, up, reader, jobsDone, retiring>>

\* The read of a cancelled run takes what comes, and drops it.
AbandonedRead(p) ==
    /\ reader[p] = "abandoned"
    /\ Unread(p) \/ proc[p] = "dead"
    /\ reader' = [reader EXCEPT ![p] = "none"]
    /\ up' = [up EXCEPT ![p] = Empty]
    /\ UNCHANGED <<parentVars, proc, serving, jobsDone, retiring>>

\* A log record is such a frame.
AbandonedLogRead(p) ==
    /\ reader[p] = "abandoned"
    /\ proc[p] = "busy"
    /\ reader' = [reader EXCEPT ![p] = "none"]
    /\ UNCHANGED <<parentVars, proc, serving, up, jobsDone, retiring>>

Retire(p) ==
    /\ p \in retiring
    /\ proc' = [proc EXCEPT ![p] = "dead"]
    /\ retiring' = retiring \ {p}
    /\ UNCHANGED <<parentVars, serving, up, reader, jobsDone>>

-----------------------------------------------------------------------------
(* The pump of a run.                                                      *)

\* A read returns with the frame of process p.
ReadReturns(p) ==
    /\ up' = [up EXCEPT ![p] = Empty]
    /\ reader' = [reader EXCEPT ![p] = "none"]
    /\ UNCHANGED <<phase, spawned, slot, serving>>

\* service_ctx_call begins.
ReceiveCall(j, p) ==
    /\ up[p].kind = "call"
    /\ ReadReturns(p)
    /\ run' = [run EXCEPT ![j] = "replying"]
    /\ UNCHANGED <<idle, got, proc, jobsDone, retiring>>

\* _release_or_recycle: p goes back, or a fresh process in its place.
ReceiveAnswer(j, p) ==
    /\ up[p].kind \in {"result", "failure"}
    /\ ReadReturns(p)
    /\ got' = [got EXCEPT ![j] = up[p].job]
    /\ jobsDone' = [jobsDone EXCEPT ![p] = @ + 1]
    /\ IF JobsPerProcess = 0 \/ jobsDone[p] + 1 < JobsPerProcess
       THEN /\ run' \in WakeOne([run EXCEPT ![j] = "returned"])
            /\ idle' = idle \cup {p}
            /\ UNCHANGED <<proc, retiring>>
       ELSE \/ \E q \in Procs :
                 /\ Fresh(q)
                 /\ proc' = [proc EXCEPT ![q] = "ready"]
                 /\ run' \in WakeOne([run EXCEPT ![j] = "returned"])
                 /\ idle' = idle \cup {q}
                 /\ retiring' = retiring \cup {p}
            \/ Raise(j) /\ UNCHANGED <<idle, proc, retiring>>

\* A frame that does not unpickle is no pipe error: the slot is not given back.
ReceiveUnreadable(j, p) ==
    /\ up[p].kind = "unreadable"
    /\ ReadReturns(p)
    /\ Raise(j)
    /\ UNCHANGED <<idle, got, proc, jobsDone, retiring>>

Receive(j) ==
    /\ run[j] = "pumping"
    /\ \/ ReceiveCall(j, slot[j])
       \/ ReceiveAnswer(j, slot[j])
       \/ ReceiveUnreadable(j, slot[j])

\* Respawning without telling those who wait for a slot.
ReplaceSilently(j, p) ==
    /\ reader' = [reader EXCEPT ![p] = "none"]
    /\ \E q \in Procs :
         /\ Fresh(q)
         /\ proc' = [proc EXCEPT ![q] = "ready"]
         /\ run' = [run EXCEPT ![j] = "crashed"]
         /\ idle' = idle \cup {q}
    /\ UNCHANGED <<phase, spawned, slot, got, serving, up, jobsDone, retiring>>

\* The pipe of a dead process broke: a fresh one takes its place.
Replace(j, p) ==
    /\ reader' = [reader EXCEPT ![p] = "none"]
    /\ \/ \E q \in Procs :
            /\ Fresh(q)
            /\ proc' = [proc EXCEPT ![q] = "ready"]
            /\ run' \in WakeOne([run EXCEPT ![j] = "crashed"])
            /\ idle' = idle \cup {q}
       \/ Raise(j) /\ UNCHANGED <<idle, proc>>
    /\ UNCHANGED <<phase, spawned, slot, got, serving, up, jobsDone, retiring>>

\* conn.recv raises EOFError once the frames sent before the death are read.
ReceiveEof(j) ==
    /\ run[j] = "pumping"
    /\ ~Unread(slot[j])
    /\ proc[slot[j]] = "dead"
    /\ Replace(j, slot[j])

\* service_ctx_call returns: the reply goes down and the next read is queued.
Reply(j) ==
    /\ run[j] = "replying"
    /\ IF proc[slot[j]] = "dead"
       THEN Replace(j, slot[j])
       ELSE /\ run' = [run EXCEPT ![j] = "pumping"]
            /\ proc' = [proc EXCEPT ![slot[j]] = "busy"]
            /\ reader' = [reader EXCEPT ![slot[j]] = "run"]
            /\ UNCHANGED <<phase, spawned, idle, slot, got, serving, up, jobsDone, retiring>>

-----------------------------------------------------------------------------
(* Cancellation and stop.                                                  *)

\* Putting the slot back while the child still works on the cancelled job.
CancelHolderReleases(j) ==
    /\ run[j] \in Holding
    /\ run' \in WakeOne([run EXCEPT ![j] = "cancelled"])
    /\ idle' = idle \cup {slot[j]}
    /\ reader' = [reader EXCEPT ![slot[j]] = "none"]
    /\ UNCHANGED <<phase, spawned, slot, got, proc, serving, up, jobsDone, retiring>>

\* CancelledError at the pump's await: no handler gives the slot back, and the
\* pump thread stays in conn.recv.
CancelHolder(j) ==
    /\ run[j] \in Holding
    /\ run' = [run EXCEPT ![j] = "abandoned"]
    /\ reader' = [reader EXCEPT ![slot[j]] = IF @ = "run" THEN "abandoned" ELSE @]
    /\ UNCHANGED <<phase, spawned, idle, slot, got, proc, serving, up, jobsDone, retiring>>

\* asyncio's get() passes its wake-up on when it is cancelled after it.
CancelWaiter(j) ==
    /\ run[j] \in {"waiting", "woken"}
    /\ IF run[j] = "woken" /\ idle # {}
       THEN run' \in WakeOne([run EXCEPT ![j] = "cancelled"])
       ELSE run' = [run EXCEPT ![j] = "cancelled"]
    /\ UNCHANGED <<phase, spawned, idle, slot, got, childVars>>

Cancel(j) == CancelHolder(j) \/ CancelWaiter(j)

\* Worker.arun stops its executors after the drain, when no run is left: the
\* idle processes are shut down, the lost ones are not.
Stop ==
    /\ phase = "started"
    /\ \A j \in Jobs : run[j] \notin Holding \cup {"waiting", "woken"}
    /\ phase' = "stopped"
    /\ proc' = [p \in Procs |-> IF p \in idle THEN "dead" ELSE proc[p]]
    /\ idle' = {}
    /\ spawned' = 0
    /\ UNCHANGED <<run, slot, got, serving, up, reader, jobsDone, retiring>>

-----------------------------------------------------------------------------
RunStep(j) == Start(j) \/ Woken(j) \/ Receive(j) \/ ReceiveEof(j) \/ Reply(j) \/ Cancel(j)

ChildStep(p) ==
    ChildAsks(p) \/ ChildAnswers(p) \/ ChildDies(p) \/ AbandonedRead(p) \/ AbandonedLogRead(p)
    \/ Retire(p)

Next == (\E j \in Jobs : RunStep(j)) \/ (\E p \in Procs : ChildStep(p)) \/ Stop

Spec == Init /\ [][Next]_vars

\* The event loop runs every task that is ready; a child owes nothing, and the
\* engine answers a ctx call in the end (every client call has a deadline).
Fairness == \A j \in Jobs : WF_vars(Woken(j)) /\ WF_vars(Receive(j) \/ ReceiveEof(j) \/ Reply(j))

FairSpec == Spec /\ Fairness

-----------------------------------------------------------------------------
(* Safety.                                                                 *)

Charged == {j \in Jobs : run[j] \in Holding \cup Lost}

\* A process in the idle queue has nothing left of an earlier job: it waits for
\* RunJob or is dead, its pipe is empty, no thread reads it, no run holds it.
CleanHandover ==
    \A p \in idle :
        /\ proc[p] \in {"ready", "dead"}
        /\ ~Unread(p)
        /\ reader[p] = "none"
        /\ p \notin retiring
        /\ \A j \in Charged : slot[j] # p

\* run() ends with the answer to its own job, never with one a cancelled or
\* crashed run left in the pipe.
OwnAnswer == \A j \in Jobs : got[j] \in {j, NoJob}

\* Never more than MaxWorkers processes live beside those being retired, through
\* growth, replacement, recycling, crashes, cancellations and failing forks.
PoolBounded ==
    phase # "stopped" =>
        Cardinality({p \in Procs : proc[p] \notin {"unborn", "dead"} /\ p \notin retiring})
            <= MaxWorkers

\* "One thread per slot is exactly enough" for the pump, abandoned reads included.
EnoughReaders == Cardinality({p \in Procs : reader[p] # "none"}) <= MaxWorkers

\* While runs wait for a slot, each idle process has a woken run to take it.
NoLostWakeup ==
    (\E j \in Jobs : run[j] = "waiting") =>
        Cardinality(idle) <= Cardinality({j \in Jobs : run[j] = "woken"})

-----------------------------------------------------------------------------
(* Liveness.                                                               *)

\* Children come to rest again and again: handlers end.
HandlersEnd == \A p \in Procs : []<>(proc[p] \notin {"busy", "asking"})

Queued(j) == run[j] \in {"waiting", "woken"}
WaitersServed == \A j \in Jobs : Queued(j) ~> ~Queued(j)

\* While no slot is lost, every run that waits gets one in the end.
ServedWithoutLoss == HandlersEnd /\ [](\A j \in Jobs : run[j] \notin Lost) => WaitersServed

\* process_executor.py:9 and :90 promise a pool that heals itself: with no error
\* but jobs cancelled or timed out, a waiting run still gets its slot.
PoolSelfHeals == HandlersEnd /\ [](\A j \in Jobs : run[j] # "raised") => WaitersServed
=============================================================================
