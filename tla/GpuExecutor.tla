---------------------------- MODULE GpuExecutor ----------------------------
(***************************************************************************)
(* symba.executors.gpu_executor.GpuExecutor: one warm subprocess that runs *)
(* the on_gpu_init hooks once and then serves the gpu jobs one at a time   *)
(* over a duplex pipe, a crash that respawns it, and the circuit breaker.  *)
(*                                                                         *)
(* As in ProcessPool, an action of a run is what run() does between two    *)
(* awaits, the child is external, and log records are left out. Unlike the *)
(* cpu pool there is one pipe for all jobs: a run that is cancelled leaves *)
(* its child at work and its read in conn.recv, and the next run shares    *)
(* the pipe with both. multiprocessing.Connection takes no lock: two       *)
(* threads in recv may each get part of a frame, after which the pipe is   *)
(* torn and a read from it fails, or never returns.                        *)
(***************************************************************************)
EXTENDS Integers, Sequences, FiniteSets

CONSTANTS Jobs,        \* calls of run(), each at most once
          Threshold,   \* _CIRCUIT_THRESHOLD
          Readers,     \* max_workers of _pump_pool
          Cancellable, \* bound: the calls that may be cancelled
          MaxProcs,    \* bound: subprocesses ever spawned
          NoJob        \* no job

ASSUME GpuAssumption ==
    /\ IsFiniteSet(Jobs)
    /\ Threshold \in Nat \ {0}
    /\ Readers \in Nat \ {0}
    /\ MaxProcs \in Nat \ {0}
    /\ NoJob \notin Jobs

Procs == 1..MaxProcs

VARIABLES
    phase,       \* start() and stop()
    conn,        \* the subprocess of _proc and _conn
    recent,      \* the crashes of _crash_times within the window
    circuitOpen, \* _circuit_open
    run,         \* run[j]: where run() of job j is
    pipe,        \* pipe[j]: the subprocess it reads and writes, 0 for none
    read,        \* read[j]: its conn.recv in the pump pool
    got,         \* got[j]: the frame run() returned or raised the content of
    proc,        \* proc[p]: what the subprocess does
    serving,     \* serving[p]: the job it works on
    down, up,    \* the frames in the pipe to and from subprocess p
    torn         \* the subprocesses with a torn pipe

breakerVars == <<recent, circuitOpen>>
runVars     == <<run, pipe, read, got>>
procVars    == <<proc, serving, down, up, torn>>
vars == <<phase, conn, breakerVars, runVars, procVars>>

Booting   == {"booting", "rebooting"}    \* _spawn before, or after, the job ran
Holding   == Booting \cup {"pumping", "replying"}
RunPhases == Holding \cup
             {"none", "queued", "returned", "retried", "raised", "cancelled", "abandoned"}

Init1     == [kind |-> "init", job |-> NoJob]
Nothing   == [kind |-> "nothing", job |-> NoJob]
Answers   == {"result", "unreadable"}
UpFrames  == {Init1} \cup [kind : Answers \cup {"call"}, job : Jobs]
DownFrames == [kind : {"run", "reply"}, job : Jobs]

TypeOK ==
    /\ phase \in {"starting", "ready", "failed", "stopped"}
    /\ conn \in Procs
    /\ recent \in 0..Threshold
    /\ circuitOpen \in BOOLEAN
    /\ run \in [Jobs -> RunPhases]
    /\ pipe \in [Jobs -> Procs \cup {0}]
    /\ read \in [Jobs -> {"none", "queued", "reading"}]
    /\ got \in [Jobs -> UpFrames \cup {Nothing}]
    /\ proc \in [Procs -> {"unborn", "booting", "idle", "busy", "asking", "dead"}]
    /\ serving \in [Procs -> Jobs \cup {NoJob}]
    /\ down \in [Procs -> Seq(DownFrames)]
    /\ up \in [Procs -> Seq(UpFrames)]
    /\ torn \in SUBSET Procs

-----------------------------------------------------------------------------
Init ==
    /\ phase = "starting"
    /\ conn = 1
    /\ recent = 0
    /\ circuitOpen = FALSE
    /\ run = [j \in Jobs |-> "none"]
    /\ pipe = [j \in Jobs |-> 0]
    /\ read = [j \in Jobs |-> "none"]
    /\ got = [j \in Jobs |-> Nothing]
    /\ proc = [p \in Procs |-> IF p = 1 THEN "booting" ELSE "unborn"]
    /\ serving = [p \in Procs |-> NoJob]
    /\ down = [p \in Procs |-> <<>>]
    /\ up = [p \in Procs |-> <<>>]
    /\ torn = {}

Fresh(p) == proc[p] = "unborn" /\ \A q \in Procs : q < p => proc[q] # "unborn"

LockFree == \A j \in Jobs : run[j] \notin Holding

Reading(p) == {j \in Jobs : read[j] = "reading" /\ pipe[j] = p}

\* The next frame is whole, or there will never be one.
FrameReady(p) == p \notin torn /\ up[p] # <<>>
EndOfFile(p)  == p \notin torn /\ up[p] = <<>> /\ proc[p] = "dead"

-----------------------------------------------------------------------------
(* start(): the first subprocess answers that it is warm, or the worker    *)
(* does not start.                                                         *)
Started ==
    /\ phase = "starting"
    /\ \/ FrameReady(conn) /\ phase' = "ready" /\ up' = [up EXCEPT ![conn] = Tail(@)]
       \/ EndOfFile(conn) /\ phase' = "failed" /\ UNCHANGED up
    /\ UNCHANGED <<conn, breakerVars, runVars, proc, serving, down, torn>>

-----------------------------------------------------------------------------
(* A run.                                                                  *)

\* run() leaves with an error or without one; its read, if any, is over.
End(j, how) ==
    /\ run' = [run EXCEPT ![j] = how]
    /\ read' = [read EXCEPT ![j] = "none"]

Call(j) ==
    /\ phase = "ready"
    /\ run[j] = "none"
    /\ run' = [run EXCEPT ![j] = IF circuitOpen THEN "retried" ELSE "queued"]
    /\ UNCHANGED <<phase, conn, breakerVars, pipe, read, got, procVars>>

\* RunJob goes down and the first read is queued.
SendJob(j, p) ==
    /\ run' = [run EXCEPT ![j] = "pumping"]
    /\ pipe' = [pipe EXCEPT ![j] = p]
    /\ read' = [read EXCEPT ![j] = "queued"]
    /\ down' = [down EXCEPT ![p] = Append(@, [kind |-> "run", job |-> j])]
    /\ UNCHANGED <<proc, serving, torn>>

\* Leaving the init frame of the fresh subprocess for later.
RespawnUnawaited(j, boot) ==
    /\ recent + 1 < Threshold
    /\ recent' = recent + 1
    /\ UNCHANGED circuitOpen
    /\ \E p \in Procs :
         /\ Fresh(p)
         /\ conn' = p
         /\ proc' = [proc EXCEPT ![p] = "booting"]
         /\ UNCHANGED pipe
         /\ End(j, "retried")

\* Opening the breaker and respawning all the same.
RespawnDespiteBreaker(j, boot) ==
    /\ recent' = IF recent + 1 >= Threshold THEN Threshold ELSE recent + 1
    /\ circuitOpen' = (circuitOpen \/ recent + 1 >= Threshold)
    /\ \E p \in Procs :
         /\ Fresh(p)
         /\ conn' = p
         /\ proc' = [proc EXCEPT ![p] = "booting"]
         /\ pipe' = [pipe EXCEPT ![j] = p]
         /\ run' = [run EXCEPT ![j] = boot]
         /\ read' = [read EXCEPT ![j] = "queued"]

\* _respawn: the breaker opens, or a fresh subprocess boots, or none can be had.
Respawn(j, boot) ==
    IF recent + 1 >= Threshold
    THEN /\ recent' = Threshold
         /\ circuitOpen' = TRUE
         /\ End(j, "retried")
         /\ UNCHANGED <<conn, pipe, proc>>
    ELSE /\ recent' = recent + 1
         /\ UNCHANGED circuitOpen
         /\ \/ \E p \in Procs :
                 /\ Fresh(p)
                 /\ conn' = p
                 /\ proc' = [proc EXCEPT ![p] = "booting"]
                 /\ pipe' = [pipe EXCEPT ![j] = p]
                 /\ run' = [run EXCEPT ![j] = boot]
                 /\ read' = [read EXCEPT ![j] = "queued"]
            \/ End(j, "raised") /\ UNCHANGED <<conn, pipe, proc>>

\* The lock is free. A dead subprocess is respawned if is_alive() tells, else
\* conn.send raises BrokenPipeError outside the try.
Enter(j) ==
    /\ run[j] = "queued"
    /\ LockFree
    /\ \/ /\ proc[conn] # "dead"
          /\ SendJob(j, conn)
          /\ UNCHANGED <<conn, breakerVars, up>>
       \/ /\ proc[conn] = "dead"
          /\ Respawn(j, "booting")
          /\ UNCHANGED <<serving, down, up, torn>>
       \/ /\ proc[conn] = "dead"
          /\ End(j, "raised")
          /\ UNCHANGED <<conn, breakerVars, pipe, procVars>>
    /\ UNCHANGED <<phase, got>>

\* A thread of the pump pool takes a queued read.
ReadStarts(j) ==
    /\ read[j] = "queued"
    /\ Cardinality({k \in Jobs : read[k] = "reading"}) < Readers
    /\ read' = [read EXCEPT ![j] = "reading"]
    /\ UNCHANGED <<phase, conn, breakerVars, run, pipe, got, procVars>>

\* The fresh subprocess is warm: the job goes on to it, unless the breaker has
\* opened; the job whose subprocess crashed is left to be retried.
ReceiveInit(j) ==
    /\ run[j] \in Booting
    /\ read[j] = "reading"
    /\ FrameReady(pipe[j])
    /\ up' = [up EXCEPT ![pipe[j]] = Tail(@)]
    /\ IF run[j] = "booting" /\ ~circuitOpen
       THEN SendJob(j, pipe[j])
       ELSE End(j, "retried") /\ UNCHANGED <<pipe, proc, serving, down, torn>>
    /\ UNCHANGED <<phase, conn, breakerVars, got>>

ReceiveCall(j) ==
    /\ Head(up[pipe[j]]).kind = "call"
    /\ run' = [run EXCEPT ![j] = "replying"]
    /\ read' = [read EXCEPT ![j] = "none"]
    /\ UNCHANGED got

\* Any JobDone ends the pump, whosever it is.
ReceiveDone(j) ==
    /\ Head(up[pipe[j]]).kind \in {"init", "result"}
    /\ End(j, "returned")
    /\ got' = [got EXCEPT ![j] = Head(up[pipe[j]])]

ReceiveUnreadable(j) ==
    /\ Head(up[pipe[j]]).kind = "unreadable"
    /\ End(j, "raised")
    /\ UNCHANGED got

Receive(j) ==
    /\ run[j] = "pumping"
    /\ read[j] = "reading"
    /\ FrameReady(pipe[j])
    /\ up' = [up EXCEPT ![pipe[j]] = Tail(@)]
    /\ ReceiveCall(j) \/ ReceiveDone(j) \/ ReceiveUnreadable(j)
    /\ UNCHANGED <<phase, conn, breakerVars, pipe, proc, serving, down, torn>>

\* Waiting on for a subprocess that died in its init hooks.
ReceiveEofPumpOnly(j) ==
    /\ read[j] = "reading"
    /\ EndOfFile(pipe[j])
    /\ run[j] = "pumping"
    /\ Respawn(j, "rebooting")
    /\ UNCHANGED <<phase, got, serving, down, up, torn>>

\* The pipe broke under the pump. A file that ends inside a frame is a plain
\* OSError, which run() does not take for a crash.
ReceiveEof(j) ==
    /\ read[j] = "reading"
    /\ EndOfFile(pipe[j])
    /\ \/ run[j] = "pumping" /\ Respawn(j, "rebooting")
       \/ /\ run[j] \in Booting \cup {"pumping"}
          /\ End(j, "raised")
          /\ UNCHANGED <<conn, breakerVars, pipe, proc>>
    /\ UNCHANGED <<phase, got, serving, down, up, torn>>

\* A ConnectionError of the engine call taken for one of the pipe.
ReplyConnectionLost(j) ==
    /\ run[j] = "replying"
    /\ Respawn(j, "rebooting")
    /\ UNCHANGED <<phase, got, serving, down, up, torn>>

Reply(j) ==
    /\ run[j] = "replying"
    /\ IF proc[pipe[j]] = "dead"
       THEN Respawn(j, "rebooting") /\ UNCHANGED down
       ELSE /\ run' = [run EXCEPT ![j] = "pumping"]
            /\ read' = [read EXCEPT ![j] = "queued"]
            /\ down' = [down EXCEPT ![pipe[j]] = Append(@, [kind |-> "reply", job |-> j])]
            /\ UNCHANGED <<conn, breakerVars, pipe, proc>>
    /\ UNCHANGED <<phase, got, serving, up, torn>>

-----------------------------------------------------------------------------
(* Cancelled runs, and the pipe they share with those that follow.         *)

\* CancelledError frees the lock, and the read if it has no thread yet. Nothing
\* stops the child or the thread.
Cancel(j) ==
    /\ j \in Cancellable
    /\ \/ run[j] = "queued" /\ run' = [run EXCEPT ![j] = "cancelled"]
       \/ run[j] \in Holding /\ run' = [run EXCEPT ![j] = "abandoned"]
    /\ read' = [read EXCEPT ![j] = IF @ = "queued" THEN "none" ELSE @]
    /\ UNCHANGED <<phase, conn, breakerVars, pipe, got, procVars>>

\* The read of a cancelled run takes a frame, or the end of file, and drops it.
AbandonedRead(j) ==
    /\ run[j] = "abandoned"
    /\ read[j] = "reading"
    /\ \/ FrameReady(pipe[j]) /\ up' = [up EXCEPT ![pipe[j]] = Tail(@)]
       \/ EndOfFile(pipe[j]) /\ UNCHANGED up
    /\ read' = [read EXCEPT ![j] = "none"]
    /\ UNCHANGED <<phase, conn, breakerVars, run, pipe, got, proc, serving, down, torn>>

\* Two threads each take part of a frame.
TearFrame(p) ==
    /\ Cardinality(Reading(p)) > 1
    /\ FrameReady(p)
    /\ torn' = torn \cup {p}
    /\ UNCHANGED <<phase, conn, breakerVars, runVars, proc, serving, down, up>>

\* A read from a torn pipe fails: no pickle, or one that ends early (EOFError).
TornRead(j) ==
    /\ read[j] = "reading"
    /\ pipe[j] \in torn
    /\ \/ run[j] = "pumping" /\ Respawn(j, "rebooting")
       \/ run[j] = "pumping" /\ End(j, "raised") /\ UNCHANGED <<conn, breakerVars, pipe, proc>>
       \/ /\ run[j] = "abandoned"
          /\ read' = [read EXCEPT ![j] = "none"]
          /\ UNCHANGED <<conn, breakerVars, run, pipe, proc>>
    /\ UNCHANGED <<phase, got, serving, down, up, torn>>

-----------------------------------------------------------------------------
(* The subprocess.                                                         *)

\* A frame goes up and the child goes on to wait for one.
Send(p, frame, then) ==
    /\ up' = [up EXCEPT ![p] = Append(@, frame)]
    /\ proc' = [proc EXCEPT ![p] = then]
    /\ UNCHANGED <<phase, conn, breakerVars, runVars, torn>>

ChildWarm(p) == proc[p] = "booting" /\ Send(p, Init1, "idle") /\ UNCHANGED <<serving, down>>

\* Only RunJob frames are served.
ChildTakes(p) ==
    /\ proc[p] = "idle"
    /\ down[p] # <<>>
    /\ down' = [down EXCEPT ![p] = Tail(@)]
    /\ IF Head(down[p]).kind = "run"
       THEN /\ proc' = [proc EXCEPT ![p] = "busy"]
            /\ serving' = [serving EXCEPT ![p] = Head(down[p]).job]
       ELSE UNCHANGED <<proc, serving>>
    /\ UNCHANGED <<phase, conn, breakerVars, runVars, up, torn>>

ChildAsks(p) ==
    /\ proc[p] = "busy"
    /\ Send(p, [kind |-> "call", job |-> serving[p]], "asking")
    /\ UNCHANGED <<serving, down>>

\* The frame after a call is taken for its reply. A RunJob is none: the handler
\* fails with AttributeError, and the job of the RunJob is lost.
ChildResumes(p) ==
    /\ proc[p] = "asking"
    /\ down[p] # <<>>
    /\ down' = [down EXCEPT ![p] = Tail(@)]
    /\ IF Head(down[p]).kind = "reply"
       THEN /\ proc' = [proc EXCEPT ![p] = "busy"]
            /\ UNCHANGED <<phase, conn, breakerVars, runVars, up, torn>>
       ELSE Send(p, [kind |-> "result", job |-> serving[p]], "idle")
    /\ UNCHANGED serving

ChildAnswers(p) ==
    /\ proc[p] = "busy"
    /\ \E kind \in Answers : Send(p, [kind |-> kind, job |-> serving[p]], "idle")
    /\ UNCHANGED <<serving, down>>

ChildDies(p) ==
    /\ proc[p] \notin {"unborn", "dead"}
    /\ proc' = [proc EXCEPT ![p] = "dead"]
    /\ UNCHANGED <<phase, conn, breakerVars, runVars, serving, down, up, torn>>

-----------------------------------------------------------------------------
\* A crash falls out of the window.
CrashAges ==
    /\ recent > 0
    /\ recent' = recent - 1
    /\ UNCHANGED <<phase, conn, circuitOpen, runVars, procVars>>

\* After the worker's drain: Shutdown, join, terminate.
Stop ==
    /\ phase = "ready"
    /\ \A j \in Jobs : run[j] \notin Holding \cup {"queued"}
    /\ phase' = "stopped"
    /\ proc' = [proc EXCEPT ![conn] = "dead"]
    /\ UNCHANGED <<conn, breakerVars, runVars, serving, down, up, torn>>

-----------------------------------------------------------------------------
PumpStep(j) == ReceiveInit(j) \/ Receive(j) \/ ReceiveEof(j) \/ Reply(j) \/ TornRead(j)

RunStep(j) ==
    Call(j) \/ Enter(j) \/ ReadStarts(j) \/ PumpStep(j) \/ Cancel(j) \/ AbandonedRead(j)

ChildStep(p) ==
    ChildWarm(p) \/ ChildTakes(p) \/ ChildAsks(p) \/ ChildResumes(p) \/ ChildAnswers(p)
    \/ ChildDies(p) \/ TearFrame(p)

Next == Started \/ Stop \/ CrashAges \/ (\E j \in Jobs : RunStep(j)) \/ (\E p \in Procs : ChildStep(p))

Spec == Init /\ [][Next]_vars

\* The event loop runs every task that is ready, the pool every read it has a
\* thread for, and a child takes what is sent to it and boots or dies. A handler
\* owes nothing, and a torn pipe need never yield anything.
Fairness ==
    /\ \A j \in Jobs : /\ WF_vars(Enter(j)) /\ WF_vars(ReadStarts(j))
                       /\ WF_vars(ReceiveInit(j) \/ Receive(j) \/ ReceiveEof(j) \/ Reply(j))
    /\ \A p \in Procs : WF_vars(ChildWarm(p) \/ ChildTakes(p) \/ ChildResumes(p))

FairSpec == Spec /\ Fairness

-----------------------------------------------------------------------------
(* Safety.                                                                 *)

\* A subprocess one of whose jobs was cancelled while it held the lock.
Disturbed(p) == \E j \in Jobs : run[j] = "abandoned" /\ pipe[j] = p

Alive(p) == proc[p] \notin {"unborn", "dead"}

\* run() ends with the answer to its own job.
Owned(j) == got[j] = Nothing \/ got[j].job = j
OwnAnswer == \A j \in Jobs : Owned(j)

\* On a subprocess none of whose jobs was cancelled it does, whatever crashed,
\* was respawned, was cancelled or was answered late elsewhere.
OwnAnswerUndisturbed == \A j \in Jobs : pipe[j] # 0 /\ ~Disturbed(pipe[j]) => Owned(j)

\* When the lock is free, the next job finds a subprocess that is at rest or
\* dead, with nothing in its pipe and no thread reading it.
QuietHandover ==
    (phase = "ready" /\ LockFree /\ ~Disturbed(conn)) =>
        /\ proc[conn] \in {"idle", "dead"}
        /\ up[conn] = <<>> /\ Reading(conn) = {}
        /\ proc[conn] = "idle" => down[conn] = <<>>

\* One warm subprocess: crashes and respawns never leave a second one alive, nor
\* stop() a first one. One that a cancelled run left at work is left out: its torn
\* pipe makes the executor respawn although it lives.
OneWarmChild ==
    \A p \in Procs : Alive(p) /\ ~Disturbed(p) => p = conn /\ phase # "stopped"

\* RunJob goes down to a subprocess.
Sends(j) == run[j] \notin {"pumping", "replying"} /\ run'[j] = "pumping"

\* Once the breaker is open no job is sent while the crashes that opened it lie in
\* the window, and none by a run that found the subprocess dead. What is left are
\* the jobs that queued before it opened, on a subprocess one of them respawned
\* after the window had moved on.
CircuitStopsWork ==
    [][circuitOpen /\ (\A p \in Procs : ~Disturbed(p)) =>
           \A j \in Jobs : Sends(j) => run[j] = "queued" /\ recent < Threshold]_vars

-----------------------------------------------------------------------------
(* Liveness.                                                               *)

HandlersEnd == \A p \in Procs : []<>(proc[p] \notin {"busy", "asking"})
NeverDisturbed == [](\A p \in Procs : ~Disturbed(p))

\* While no job is cancelled in the middle, every job that waits for the lock
\* gets it, whatever crashes.
QueuedServed ==
    HandlersEnd /\ NeverDisturbed => \A j \in Jobs : run[j] = "queued" ~> run[j] # "queued"

-----------------------------------------------------------------------------
(* What a message says and the code does not do.                           *)

\* "this worker is not claiming gpu work until restarted": an open breaker lets no
\* job through.
OpenBreakerSendsNothing == [][circuitOpen => \A j \in Jobs : ~Sends(j)]_vars
=============================================================================
