--------------------------- MODULE WorkerLifecycle ---------------------------
(***************************************************************************)
(* A symba.worker.Worker from its constructor to the end of arun(): the    *)
(* settings, the task registry and its boot checks, what boot builds and   *)
(* opens (checkpoint Redis, channel, executors, watchdog, background       *)
(* loops), the tags a claim stream advertises, and the clean-up that       *)
(* releases it all in order.                                               *)
(*                                                                         *)
(* The slots, the claim loop and the drain of WorkerRuntime are reduced to *)
(* what the clean-up can tell apart: which assignments run or wait for a   *)
(* slot. arun is one coroutine, so an action is what it does between two   *)
(* awaits. The caller may stop() the worker at any time and may cancel     *)
(* arun(); the engine, the gpu child and the host's hooks are external.    *)
(***************************************************************************)
EXTENDS Integers, FiniteSets

CONSTANTS Offered,    \* task registrations the host's code may make
          Settings,   \* settings the worker may be constructed with
          Cores,      \* os.cpu_count()
          Assignments, \* what the engine may send
          NotGiven    \* a setting or an option left out

ASSUME LifecycleAssumption ==
    /\ IsFiniteSet(Offered) /\ IsFiniteSet(Assignments)
    /\ Cores \in Nat \ {0}
    /\ NotGiven \notin Int
    /\ \A s \in Settings : /\ s.heartbeat \in Int
                          /\ {s.slots, s.cpuSlots} \subseteq Int \cup {NotGiven}
    /\ \A t \in Offered : /\ t.profile \in {"io", "cpu", "gpu"}
                         /\ {t.timeout, t.lease} \subseteq Int \cup {NotGiven}

VARIABLES
    phase,     \* where the worker is
    settings,  \* what it was constructed with
    registry,  \* TaskRegistry._tasks
    slots,     \* _slots
    poolSize,  \* max_workers of the cpu executor
    redis,     \* the checkpoint client: "none", "open", "closed"
    channel,   \* the transport's channel: "none", "open", "closed"
    executor,  \* executor[p]: "none", "built", "up", "stopped"
    watchdog,  \* "off", "ticking", "raised"
    loops,     \* the admission and liveness loops run
    stopped,   \* stop() was called
    circuit,   \* _gpu_unclaimable
    stream,    \* a claim stream is open
    tags,      \* the tags it was opened with
    tagsSince, \* history: the circuit was open when it was
    job,       \* job[a]: "new", "waiting", "running", "cancelled", "gone"
    task,      \* task[a]: the registration that assignment a runs
    snapshot,  \* the tasks _drain gathered
    exit       \* how arun ends

openVars   == <<redis, channel, executor, watchdog, loops>>
bootVars   == <<settings, registry, slots, poolSize>>
streamVars == <<circuit, stream, tags, tagsSince>>
jobVars    == <<job, task>>
vars == <<phase, bootVars, openVars, stopped, streamVars, jobVars, snapshot, exit>>

Phases == {"new", "made", "warming", "claiming", "stoppingLoops", "draining",
           "stoppingWatchdog", "closingRedis", "closingChannel", "ended"}

TypeOK ==
    /\ phase \in Phases
    /\ registry \subseteq Offered
    /\ redis \in {"none", "open", "closed"} /\ channel \in {"none", "open", "closed"}
    /\ executor \in [{"cpu", "gpu"} -> {"none", "built", "up", "stopped"}]
    /\ watchdog \in {"off", "ticking", "raised"}
    /\ {loops, stopped, circuit, stream, tagsSince} \subseteq BOOLEAN
    /\ job \in [Assignments -> {"new", "waiting", "running", "cancelled", "gone"}]
    /\ task \in [Assignments -> Offered \cup {NotGiven}]
    /\ snapshot \subseteq Assignments
    /\ exit \in {"none", "refused", "failed", "stop", "auth", "cancelled", "cutShort", "raised"}

-----------------------------------------------------------------------------
(* Settings and targets: everything wrong is a ConfigError of the          *)
(* constructor.                                                            *)

Given(x) == x # NotGiven

\* parse_target: a known scheme, or none, and a host.
TargetParses(t) == t.scheme \in {"grpc", "grpcs", "dns", "inmemory", "bare"} /\ t.host

SettingsValid(s) ==
    /\ Given(s.slots) => s.slots >= 1
    /\ Given(s.cpuSlots) => s.cpuSlots >= 1
    /\ s.heartbeat > 0
    /\ TargetParses(s.target)

\* _credentials: a TLS channel takes a certificate and its key, or neither.
CredentialsFit(s) == (s.target.scheme = "grpcs" \/ s.tls) => s.certificate = s.key

-----------------------------------------------------------------------------
(* The registry and its checks.                                            *)

EngineLease == 60  \* ENGINE_DEFAULT_IO_LEASE_TTL_S

\* PROFILE_DEFAULTS: io leaves both to the engine.
ProfileTimeout(p) == IF p = "cpu" THEN 900 ELSE IF p = "gpu" THEN 3600 ELSE NotGiven
ProfileLease(p)   == IF p = "cpu" THEN 120 ELSE IF p = "gpu" THEN 300 ELSE NotGiven

Timeout(t) == IF Given(t.timeout) THEN t.timeout ELSE ProfileTimeout(t.profile)
Lease(t)   == IF Given(t.lease) THEN t.lease ELSE ProfileLease(t.profile)

KnownLease(t) == IF Given(Lease(t)) THEN Lease(t) ELSE EngineLease

SignatureValid(t) == t.parameters = "ctxPayload"
KindValid(t) == t.coroutine <=> t.profile = "io"
SchemasValid(t, s) == s.strict => t.schemas

\* Mutant: a lease is long enough if it lasts to the first beat.
TimeoutLeaseValidOnce(t, s) ==
    /\ Given(Timeout(t)) => Timeout(t) < 10 * KnownLease(t)
    /\ Given(Lease(t)) => s.heartbeat <= Lease(t)

\* heartbeat_interval_s <= lease / 3, for a lease the worker knows.
TimeoutLeaseValid(t, s) ==
    /\ Given(Timeout(t)) => Timeout(t) < 10 * KnownLease(t)
    /\ Given(Lease(t)) => 3 * s.heartbeat <= Lease(t)

RegistryValid ==
    /\ registry # {}
    /\ \A t \in registry : /\ SignatureValid(t) /\ KindValid(t)
                           /\ SchemasValid(t, settings) /\ TimeoutLeaseValid(t, settings)

Profiles == {t.profile : t \in registry}

ResolveSlots ==
    IF Given(settings.slots) THEN settings.slots
    ELSE IF "gpu" \in Profiles THEN 2
    ELSE IF Profiles = {"cpu"} THEN 4 ELSE 100

ResolveCpuSlots(n) ==
    IF Given(settings.cpuSlots) THEN settings.cpuSlots
    ELSE IF n < 1 THEN 1 ELSE IF n < Cores THEN n ELSE Cores

-----------------------------------------------------------------------------
(* The tags a stream advertises.                                           *)

TagsOf(tasks) == UNION {t.runsOn : t \in tasks}
GpuTasks == {t \in registry : t.profile = "gpu"}

\* Mutant: every tag of a gpu task goes.
GpuTags == TagsOf(GpuTasks)

\* Tags that only gpu tasks have.
GpuOnlyTags == TagsOf(GpuTasks) \ TagsOf(registry \ GpuTasks)

AllTags ==
    (settings.tags \cup TagsOf(registry)) \ (IF circuit THEN GpuOnlyTags ELSE {})

-----------------------------------------------------------------------------
(* Construction, registration, boot.                                       *)

Init ==
    /\ phase = "new"
    /\ settings \in Settings
    /\ registry = {}
    /\ slots = 0 /\ poolSize = 0
    /\ redis = "none" /\ channel = "none"
    /\ executor = [p \in {"cpu", "gpu"} |-> "none"]
    /\ watchdog = "off" /\ loops = FALSE
    /\ stopped = FALSE
    /\ circuit = FALSE /\ stream = FALSE /\ tags = {} /\ tagsSince = FALSE
    /\ job = [a \in Assignments |-> "new"]
    /\ task = [a \in Assignments |-> NotGiven]
    /\ snapshot = {}
    /\ exit = "none"

EndWith(reason) == phase' = "ended" /\ exit' = reason

Construct ==
    /\ phase = "new"
    /\ IF SettingsValid(settings) THEN phase' = "made" /\ UNCHANGED exit
                                  ELSE EndWith("refused")
    /\ UNCHANGED <<bootVars, openVars, stopped, streamVars, jobVars, snapshot>>

\* A second registration of a name is an error of the code that makes it.
Register(t) ==
    /\ phase = "made"
    /\ \A other \in registry : other.name # t.name
    /\ registry' = registry \cup {t}
    /\ UNCHANGED <<phase, settings, slots, poolSize, openVars, stopped, streamVars, jobVars,
                   snapshot, exit>>

\* From here on arun's finally releases what was opened.
EnterClaimLoop ==
    /\ phase' = "claiming"
    /\ watchdog' = "ticking"
    /\ loops' = (settings.admission \/ settings.liveness)

StartFails ==
    /\ EndWith("failed")
    /\ UNCHANGED <<channel, executor, watchdog, loops>>

\* _boot and _start_executors: the cpu pool starts with its first job, the gpu
\* child is warmed first. A check that fails leaves Redis open.
Boot ==
    /\ slots' = ResolveSlots
    /\ poolSize' = IF "cpu" \in Profiles THEN ResolveCpuSlots(slots') ELSE 0
    /\ IF ~CredentialsFit(settings) THEN StartFails
       ELSE /\ channel' = "open"
            /\ executor' = [p \in {"cpu", "gpu"} |->
                  IF p \notin Profiles THEN "none" ELSE IF p = "cpu" THEN "up" ELSE "built"]
            /\ UNCHANGED exit
            /\ IF "gpu" \in Profiles THEN phase' = "warming" /\ UNCHANGED <<watchdog, loops>>
                                     ELSE EnterClaimLoop

\* arun up to its first await. Without the redis package a configured URL is an
\* error.
StartArun ==
    /\ phase = "made"
    /\ redis' = IF settings.redis /\ settings.redisInstalled THEN "open" ELSE "none"
    /\ IF RegistryValid /\ (settings.redis => settings.redisInstalled)
       THEN Boot
       ELSE StartFails /\ UNCHANGED <<slots, poolSize>>
    /\ UNCHANGED <<settings, registry, stopped, streamVars, jobVars, snapshot>>

GpuWarm ==
    /\ phase = "warming"
    /\ executor' = [executor EXCEPT !["gpu"] = "up"]
    /\ EnterClaimLoop
    /\ UNCHANGED <<bootVars, redis, channel, stopped, streamVars, jobVars, snapshot, exit>>

\* on_gpu_init raised, or the child died.
GpuInitFails ==
    /\ phase = "warming"
    /\ EndWith("failed")
    /\ UNCHANGED <<bootVars, openVars, stopped, streamVars, jobVars, snapshot>>

-----------------------------------------------------------------------------
(* Serving.                                                                *)

OpenStream ==
    /\ phase = "claiming" /\ ~stopped /\ ~stream
    /\ stream' = TRUE /\ tags' = AllTags /\ tagsSince' = circuit
    /\ UNCHANGED <<phase, bootVars, openVars, stopped, circuit, jobVars, snapshot, exit>>

StreamDrops ==
    /\ stream
    /\ stream' = FALSE
    /\ UNCHANGED <<phase, bootVars, openVars, stopped, circuit, tags, tagsSince, jobVars,
                   snapshot, exit>>

\* The gpu executor calls back; nothing reopens the stream.
OpenGpuCircuit ==
    /\ executor["gpu"] = "up" /\ ~circuit
    /\ circuit' = TRUE
    /\ UNCHANGED <<phase, bootVars, openVars, stopped, stream, tags, tagsSince, jobVars,
                   snapshot, exit>>

Live == {a \in Assignments : job[a] \in {"running", "cancelled"}}

\* The engine sends a task whose tags are all advertised. What comes after
\* stop() is not read. One assignment may wait for a slot.
HandleAssignment(a) ==
    /\ stream /\ ~stopped /\ job[a] = "new"
    /\ \E t \in registry : t.runsOn \subseteq tags /\ task' = [task EXCEPT ![a] = t]
    /\ IF Cardinality(Live) < slots
       THEN job' = [job EXCEPT ![a] = "running"]
       ELSE /\ \A b \in Assignments : job[b] # "waiting"
            /\ job' = [job EXCEPT ![a] = "waiting"]
    /\ UNCHANGED <<phase, bootVars, openVars, stopped, streamVars, snapshot, exit>>

\* The waiter's task ends where the task of its job begins.
WaiterStarts(a) ==
    /\ job[a] = "waiting" /\ ~stopped /\ Cardinality(Live) < slots
    /\ job' = [job EXCEPT ![a] = "running"]
    /\ snapshot' = snapshot \ {a}
    /\ UNCHANGED <<phase, bootVars, openVars, stopped, streamVars, task, exit>>

\* The grace ran out, or stop() woke it: the assignment is failed back.
WaiterRejects(a) ==
    /\ job[a] = "waiting"
    /\ job' = [job EXCEPT ![a] = "gone"]
    /\ UNCHANGED <<phase, bootVars, openVars, stopped, streamVars, task, snapshot, exit>>

DispatchEnds(a) ==
    /\ a \in Live
    /\ job' = [job EXCEPT ![a] = "gone"]
    /\ UNCHANGED <<phase, bootVars, openVars, stopped, streamVars, task, snapshot, exit>>

\* A middleware's observe_loop_lag raises in the watchdog's tick, and ends it.
LagHookRaises ==
    /\ watchdog = "ticking" /\ settings.lagHookRaises
    /\ watchdog' = "raised"
    /\ UNCHANGED <<phase, bootVars, redis, channel, executor, loops, stopped, streamVars, jobVars,
                   snapshot, exit>>

\* stop(), from the caller or a signal, before arun too.
Stop ==
    /\ phase \notin {"new", "ended"} /\ ~stopped
    /\ stopped' = TRUE
    /\ UNCHANGED <<phase, bootVars, openVars, streamVars, jobVars, snapshot, exit>>

-----------------------------------------------------------------------------
(* The claim loop ends, and arun's finally cleans up.                      *)

LeaveClaimLoop(reason) ==
    /\ phase = "claiming"
    /\ phase' = "stoppingLoops" /\ exit' = reason
    /\ UNCHANGED <<bootVars, openVars, stopped, circuit, tags, tagsSince, jobVars, snapshot>>

\* The stream's task is cancelled and awaited.
ClaimStops == stopped /\ LeaveClaimLoop("stop") /\ stream' = FALSE

\* UNAUTHENTICATED and PERMISSION_DENIED are raised, still accepting.
ClaimRefused == stream /\ ~stopped /\ LeaveClaimLoop("auth") /\ stream' = FALSE

\* arun is cancelled in asyncio.wait, which leaves the stream's task running.
ClaimCancelled == LeaveClaimLoop("cancelled") /\ UNCHANGED stream

\* A cancellation that meets the await of a cancelled loop is swallowed there.
StopBackgroundLoops ==
    /\ phase = "stoppingLoops"
    /\ loops' = FALSE
    /\ snapshot' = {a \in Assignments : job[a] \in {"waiting", "running"}}
    /\ phase' = "draining"
    /\ UNCHANGED <<bootVars, redis, channel, executor, watchdog, stopped, streamVars, jobVars, exit>>

CancelSnapshot ==
    job' = [a \in Assignments |->
              IF a \notin snapshot THEN job[a]
              ELSE IF job[a] = "running" THEN "cancelled"
              ELSE IF job[a] = "waiting" THEN "gone" ELSE job[a]]

Drained == \A a \in snapshot : job[a] = "gone"

\* The deadline: what was gathered is cancelled, and awaited all the same.
DrainTimeout ==
    /\ phase = "draining" /\ exit # "cutShort" /\ ~Drained
    /\ CancelSnapshot
    /\ UNCHANGED <<phase, bootVars, openVars, stopped, streamVars, task, snapshot, exit>>

\* Mutant: drain is not waited for.
DrainReturnsAtOnce ==
    /\ phase = "draining"
    /\ phase' = "stoppingWatchdog"
    /\ UNCHANGED <<exit, bootVars, openVars, stopped, streamVars, jobVars, snapshot>>

\* A cancellation of arun is raised when the tasks it cancelled have ended.
DrainReturns ==
    /\ phase = "draining" /\ Drained
    /\ phase' = IF exit = "cutShort" THEN "ended" ELSE "stoppingWatchdog"
    /\ UNCHANGED <<exit, bootVars, openVars, stopped, streamVars, jobVars, snapshot>>

ExecutorsStopped == [p \in {"cpu", "gpu"} |-> IF executor[p] = "none" THEN "none" ELSE "stopped"]

\* Mutant: an executor whose stop() raises ends the clean-up.
StopWatchdogUnsuppressed ==
    /\ phase = "stoppingWatchdog"
    /\ IF watchdog = "raised"
       THEN EndWith("raised") /\ UNCHANGED <<watchdog, executor>>
       ELSE /\ watchdog' = "off"
            /\ UNCHANGED exit
            /\ \/ executor' = ExecutorsStopped
                  /\ phase' = IF redis = "open" THEN "closingRedis" ELSE "closingChannel"
               \/ "gpu" \in Profiles /\ phase' = "ended" /\ UNCHANGED executor
    /\ UNCHANGED <<bootVars, redis, channel, loops, stopped, streamVars, jobVars, snapshot>>

\* The watchdog's own exception comes out of the await of its task; what the
\* executors raise is suppressed. Stopping them does not suspend.
StopWatchdog ==
    /\ phase = "stoppingWatchdog"
    /\ IF watchdog = "raised"
       THEN EndWith("raised") /\ UNCHANGED <<watchdog, executor>>
       ELSE /\ watchdog' = "off" /\ executor' = ExecutorsStopped
            /\ phase' = IF redis = "open" THEN "closingRedis" ELSE "closingChannel"
            /\ UNCHANGED exit
    /\ UNCHANGED <<bootVars, redis, channel, loops, stopped, streamVars, jobVars, snapshot>>

\* Its errors are suppressed.
CloseRedis ==
    /\ phase = "closingRedis"
    /\ redis' = "closed" /\ phase' = "closingChannel"
    /\ UNCHANGED <<bootVars, channel, executor, watchdog, loops, stopped, streamVars, jobVars,
                   snapshot, exit>>

\* The channel takes the stream and the calls on it along.
CloseChannel ==
    /\ phase = "closingChannel"
    /\ channel' = "closed" /\ stream' = FALSE /\ phase' = "ended"
    /\ UNCHANGED <<bootVars, redis, executor, watchdog, loops, stopped, circuit, tags, tagsSince,
                   jobVars, snapshot, exit>>

\* arun is cancelled while it warms the gpu child, or once more while it cleans up.
CancelStart ==
    /\ phase = "warming"
    /\ EndWith("failed")
    /\ UNCHANGED <<bootVars, openVars, stopped, streamVars, jobVars, snapshot>>

CancelDrain ==
    /\ phase = "draining" /\ ~Drained
    /\ exit' = "cutShort"
    /\ CancelSnapshot
    /\ UNCHANGED <<phase, bootVars, openVars, stopped, streamVars, task, snapshot>>

CancelClosing ==
    /\ phase \in {"closingRedis", "closingChannel"}
    /\ EndWith("cutShort")
    /\ UNCHANGED <<bootVars, openVars, stopped, streamVars, jobVars, snapshot>>

-----------------------------------------------------------------------------

Next ==
    \/ Construct \/ StartArun \/ GpuWarm \/ GpuInitFails
    \/ \E t \in Offered : Register(t)
    \/ OpenStream \/ StreamDrops \/ OpenGpuCircuit \/ LagHookRaises \/ Stop
    \/ \E a \in Assignments : \/ HandleAssignment(a) \/ WaiterStarts(a) \/ WaiterRejects(a)
                              \/ DispatchEnds(a)
    \/ ClaimStops \/ ClaimRefused \/ ClaimCancelled
    \/ StopBackgroundLoops \/ DrainTimeout \/ DrainReturns \/ StopWatchdog
    \/ CloseRedis \/ CloseChannel
    \/ CancelStart \/ CancelDrain \/ CancelClosing

Spec == Init /\ [][Next]_vars

-----------------------------------------------------------------------------

\* After a stop() no job is still running, in whichever phase of the clean-up,
\* once its executor is stopped or the channel it reports on is closed.
JobsKeepTools ==
    \A a \in Live : exit = "stop" =>
        /\ channel = "open"
        /\ task[a].profile # "io" => executor[task[a].profile] = "up"

\* However the claim loop ended, arun leaves nothing open behind it, unless it
\* is cancelled again while it cleans up or the watchdog was killed by a hook.
NothingLeftOpen ==
    phase = "ended" /\ exit \in {"stop", "auth", "cancelled"} =>
        /\ redis # "open" /\ channel = "closed" /\ watchdog = "off" /\ ~loops /\ ~stream
        /\ \A p \in {"cpu", "gpu"} : executor[p] \in {"none", "stopped"}

\* A stream is never deaf to a task the worker can run, and one opened since the
\* circuit did is never sent a gpu task that has a tag of its own.
TagsFollowCircuit ==
    stream =>
        /\ \A t \in registry \ GpuTasks : t.runsOn \subseteq tags
        /\ tagsSince => \A t \in GpuTasks : t.runsOn \cap GpuOnlyTags # {} => ~(t.runsOn \subseteq tags)

\* The slots and the cpu pool boot sizes are what WorkerRuntime and ProcessPool
\* assume of theirs.
BootMeetsAssumptions ==
    phase = "claiming" => slots \in Nat \ {0} /\ ("cpu" \in Profiles => poolSize \in Nat \ {0})

\* HeartbeatShell._max_misses, for a task of this worker.
MaxMisses(t) ==
    LET beats == KnownLease(t) \div settings.heartbeat IN IF beats < 2 THEN 1 ELSE beats - 1

\* What boot lets through fits the heartbeat shell: two beats in a row may be lost,
\* and the shell gives up in the last interval of the lease and no earlier. Only an
\* io task that leaves its lease to the engine is not held to it.
BeatsFitLease ==
    phase = "claiming" =>
        \A t \in registry : Given(Lease(t)) =>
            LET gaveUp == (MaxMisses(t) + 1) * settings.heartbeat IN
            MaxMisses(t) >= 2 /\ gaveUp <= Lease(t) /\ Lease(t) < gaveUp + settings.heartbeat
=============================================================================
