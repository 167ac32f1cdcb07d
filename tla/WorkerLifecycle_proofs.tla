----------------------- MODULE WorkerLifecycle_proofs -----------------------
(***************************************************************************)
(* Proofs about WorkerLifecycle, for any settings, registrations and       *)
(* assignments.                                                            *)
(***************************************************************************)
EXTENDS WorkerLifecycle, TLAPS

BeforeServing == {"new", "made", "warming"}
Closing == {"closingRedis", "closingChannel"}
Serving == {"claiming", "stoppingLoops", "draining", "stoppingWatchdog"} \cup Closing

(* Nothing is opened before arun, and nothing runs before it serves.       *)
Quiet ==
    /\ phase \in {"new", "made"} =>
         redis = "none" /\ channel = "none" /\ \A p \in {"cpu", "gpu"} : executor[p] = "none"
    /\ phase \in BeforeServing =>
         /\ exit = "none" /\ ~stream /\ ~loops /\ watchdog = "off"
         /\ \A a \in Assignments : job[a] = "new"

(* What passed the checks of the constructor and of boot.                  *)
Checked ==
    /\ settings \in Settings
    /\ phase \notin {"new", "ended"} => SettingsValid(settings)
    /\ phase \in Serving \cup {"warming"} => RegistryValid
    /\ phase \in {"warming", "claiming"} =>
         slots \in Nat \ {0} /\ ("cpu" \in Profiles => poolSize \in Nat \ {0})

(* The clean-up releases one thing after another, and each stays released. *)
Open ==
    /\ phase \in {"warming"} \cup Serving => channel = "open"
    /\ phase = "warming" =>
         \A t \in registry : t.profile \notin {"io", "gpu"} => executor[t.profile] = "up"
    /\ phase \in Serving \ Closing =>
         \A t \in registry : t.profile # "io" => executor[t.profile] = "up"
    /\ phase = "claiming" => exit = "none"
    /\ phase = "draining" => exit \in {"stop", "auth", "cancelled", "cutShort"}
    /\ phase \in Serving \ {"claiming", "draining"} => exit \in {"stop", "auth", "cancelled"}
    /\ phase \in {"draining", "stoppingWatchdog"} \cup Closing => ~loops
    /\ phase \in Closing =>
         watchdog = "off" /\ \A p \in {"cpu", "gpu"} : executor[p] \in {"none", "stopped"}
    /\ phase = "closingChannel" => redis # "open"
    /\ NothingLeftOpen

(* After a stop no job starts, so what _drain gathered keeps containing    *)
(* every job that runs, and none is left once it returns.                  *)
DrainCovers ==
    /\ \A a \in Assignments : a \in Live \/ job[a] = "waiting" => task[a] \in registry
    /\ phase \in {"claiming", "stoppingLoops"} => \A a \in Assignments : job[a] # "cancelled"
    /\ exit = "stop" =>
         /\ stopped
         /\ phase = "draining" => Live \subseteq snapshot
         /\ phase \in {"stoppingWatchdog", "ended"} \cup Closing => Live = {}

LifeInv == TypeOK /\ Quiet /\ Checked /\ Open /\ DrainCovers /\ TagsFollowCircuit

-----------------------------------------------------------------------------
(* Types.                                                                  *)

LEMMA TypeStep == ASSUME TypeOK, [Next]_vars PROVE TypeOK'
<1> USE DEF TypeOK, Phases, EndWith
<1>1. ASSUME Construct \/ (\E t \in Offered : Register(t)) PROVE TypeOK'
  BY <1>1 DEF Construct, Register, bootVars, openVars, streamVars, jobVars
<1>2. ASSUME StartArun PROVE TypeOK'
  <2>1. redis' \in {"none", "open", "closed"}
    BY <1>2 DEF StartArun
  <2>2. /\ phase' \in Phases /\ exit' \in {exit, "failed"}
        /\ channel' \in {"none", "open", "closed"} /\ watchdog' \in {"off", "ticking", "raised"}
        /\ loops' \in BOOLEAN
    BY <1>2 DEF StartArun, Boot, StartFails, EnterClaimLoop, CredentialsFit
  <2>3. executor' \in [{"cpu", "gpu"} -> {"none", "built", "up", "stopped"}]
    BY <1>2 DEF StartArun, Boot, StartFails
  <2> QED
    BY <1>2, <2>1, <2>2, <2>3 DEF StartArun, streamVars, jobVars
<1>3. ASSUME GpuWarm \/ GpuInitFails \/ CancelStart PROVE TypeOK'
  BY <1>3 DEF GpuWarm, EnterClaimLoop, GpuInitFails, CancelStart, bootVars, openVars, streamVars,
              jobVars
<1>4. ASSUME OpenStream \/ StreamDrops \/ OpenGpuCircuit \/ LagHookRaises \/ Stop PROVE TypeOK'
  <2>1. ASSUME OpenStream PROVE TypeOK'
    <3>1. {loops', stopped', circuit', stream', tagsSince'} \subseteq BOOLEAN
      BY <2>1, ZenonT(30) DEF OpenStream, openVars
    <3> QED
      BY <2>1, <3>1 DEF OpenStream, bootVars, openVars, jobVars
  <2>2. ASSUME StreamDrops \/ OpenGpuCircuit PROVE TypeOK'
    BY <2>2 DEF StreamDrops, OpenGpuCircuit, bootVars, openVars, jobVars
  <2>3. ASSUME LagHookRaises \/ Stop PROVE TypeOK'
    BY <2>3 DEF LagHookRaises, Stop, bootVars, openVars, streamVars, jobVars
  <2> QED
    BY <1>4, <2>1, <2>2, <2>3
<1>5. ASSUME NEW a \in Assignments,
             HandleAssignment(a) \/ WaiterStarts(a) \/ WaiterRejects(a) \/ DispatchEnds(a)
      PROVE  TypeOK'
  BY <1>5 DEF HandleAssignment, WaiterStarts, WaiterRejects, DispatchEnds, bootVars, openVars,
              streamVars
<1>6. ASSUME ClaimStops \/ ClaimRefused \/ ClaimCancelled PROVE TypeOK'
  BY <1>6 DEF ClaimStops, ClaimRefused, ClaimCancelled, LeaveClaimLoop, bootVars, openVars, jobVars
<1>7. ASSUME StopBackgroundLoops PROVE TypeOK'
  BY <1>7 DEF StopBackgroundLoops, bootVars, streamVars, jobVars
<1>8. ASSUME DrainTimeout \/ CancelDrain PROVE TypeOK'
  BY <1>8 DEF DrainTimeout, CancelDrain, CancelSnapshot, bootVars, openVars, streamVars
<1>9. ASSUME DrainReturns \/ CloseRedis \/ CloseChannel \/ CancelClosing PROVE TypeOK'
  BY <1>9 DEF DrainReturns, CloseRedis, CloseChannel, CancelClosing, bootVars, openVars, streamVars,
              jobVars
<1>10. ASSUME StopWatchdog PROVE TypeOK'
  BY <1>10 DEF StopWatchdog, ExecutorsStopped, bootVars, streamVars, jobVars
<1>11. CASE UNCHANGED vars
  BY <1>11 DEF vars, bootVars, openVars, streamVars, jobVars
<1> QED
  BY <1>1, <1>2, <1>3, <1>4, <1>5, <1>6, <1>7, <1>8, <1>9, <1>10, <1>11 DEF Next

-----------------------------------------------------------------------------
(* Boot.                                                                   *)

LEMMA QuietStep == ASSUME TypeOK, Quiet, [Next]_vars PROVE Quiet'
<1> USE DEF TypeOK, Quiet, BeforeServing, EndWith
<1>1. ASSUME Construct \/ (\E t \in Offered : Register(t)) PROVE Quiet'
  BY <1>1 DEF Construct, Register, bootVars, openVars, streamVars, jobVars
<1>2. ASSUME StartArun PROVE Quiet'
  BY <1>2 DEF StartArun, Boot, StartFails, EnterClaimLoop, streamVars, jobVars
<1>3. ASSUME GpuWarm \/ GpuInitFails \/ CancelStart PROVE Quiet'
  BY <1>3 DEF GpuWarm, EnterClaimLoop, GpuInitFails, CancelStart
<1>4. ASSUME OpenStream \/ StreamDrops \/ OpenGpuCircuit \/ LagHookRaises \/ Stop PROVE Quiet'
  BY <1>4 DEF OpenStream, StreamDrops, OpenGpuCircuit, LagHookRaises, Stop, openVars, streamVars,
              jobVars
<1>5. ASSUME NEW a \in Assignments,
             HandleAssignment(a) \/ WaiterStarts(a) \/ WaiterRejects(a) \/ DispatchEnds(a)
      PROVE  Quiet'
  BY <1>5 DEF HandleAssignment, WaiterStarts, WaiterRejects, DispatchEnds, Live, openVars, streamVars
<1>6. ASSUME ClaimStops \/ ClaimRefused \/ ClaimCancelled PROVE Quiet'
  BY <1>6 DEF ClaimStops, ClaimRefused, ClaimCancelled, LeaveClaimLoop
<1>7. ASSUME StopBackgroundLoops \/ DrainTimeout \/ CancelDrain \/ DrainReturns PROVE Quiet'
  BY <1>7 DEF StopBackgroundLoops, DrainTimeout, CancelDrain, DrainReturns
<1>8. ASSUME StopWatchdog \/ CloseRedis \/ CloseChannel \/ CancelClosing PROVE Quiet'
  BY <1>8 DEF StopWatchdog, CloseRedis, CloseChannel, CancelClosing
<1>9. CASE UNCHANGED vars
  BY <1>9 DEF vars, openVars, streamVars, jobVars
<1> QED
  BY <1>1, <1>2, <1>3, <1>4, <1>5, <1>6, <1>7, <1>8, <1>9 DEF Next

(* Whatever was set, boot sizes the slots and the pool to be positive.     *)
LEMMA SizesFit ==
    ASSUME settings \in Settings, SettingsValid(settings), NEW n \in Nat \ {0}
    PROVE  ResolveSlots \in Nat \ {0} /\ ResolveCpuSlots(n) \in Nat \ {0}
<1>1. {settings.slots, settings.cpuSlots} \subseteq Int \cup {NotGiven}
  BY LifecycleAssumption
<1>2. /\ Given(settings.slots) => settings.slots \in Nat \ {0}
      /\ Given(settings.cpuSlots) => settings.cpuSlots \in Nat \ {0}
  BY <1>1 DEF SettingsValid, Given
<1> QED
  BY <1>2, LifecycleAssumption DEF ResolveSlots, ResolveCpuSlots

LEMMA CheckedStep == ASSUME TypeOK, Quiet, Checked, [Next]_vars PROVE Checked'
<1> USE DEF Checked, Serving, Closing
<1>1. CASE StartArun
  <2> USE <1>1
  <2>1. phase = "made" /\ UNCHANGED <<settings, registry>> /\ SettingsValid(settings)
    BY DEF StartArun
  <2>2. CASE RegistryValid /\ CredentialsFit(settings) /\ (settings.redis => settings.redisInstalled)
    <3>1. slots' = ResolveSlots /\ poolSize' = IF "cpu" \in Profiles THEN ResolveCpuSlots(slots') ELSE 0
      BY <2>2 DEF StartArun, Boot
    <3>2. slots' \in Nat \ {0}
      BY <2>1, <3>1, SizesFit
    <3>3. "cpu" \in Profiles => poolSize' \in Nat \ {0}
      BY <2>1, <3>1, <3>2, SizesFit
    <3>4. RegistryValid' /\ Profiles' = Profiles /\ SettingsValid(settings)'
      BY <2>1, <2>2 DEF RegistryValid, SchemasValid, TimeoutLeaseValid, Profiles, SettingsValid, Timeout, Lease, KnownLease
    <3> QED
      BY <2>1, <3>2, <3>3, <3>4
  <2>3. CASE ~(RegistryValid /\ CredentialsFit(settings) /\ (settings.redis => settings.redisInstalled))
    <3>1. phase' = "ended"
      BY <2>3 DEF StartArun, Boot, StartFails, EndWith
    <3> QED
      BY <2>1, <3>1
  <2> QED
    BY <2>2, <2>3
<1>2. CASE Construct \/ (\E t \in Offered : Register(t))
  BY <1>2 DEF Construct, Register, EndWith, bootVars, SettingsValid, Given
<1>3. CASE ~StartArun /\ ~Construct /\ ~(\E t \in Offered : Register(t))
  <2>1. UNCHANGED bootVars
    BY <1>3 DEF Next, GpuWarm, GpuInitFails, CancelStart, OpenStream, StreamDrops, OpenGpuCircuit,
       LagHookRaises, Stop, HandleAssignment, WaiterStarts, WaiterRejects, DispatchEnds, ClaimStops,
       ClaimRefused, ClaimCancelled, LeaveClaimLoop, StopBackgroundLoops, DrainTimeout, CancelDrain,
       DrainReturns, StopWatchdog, CloseRedis, CloseChannel, CancelClosing, vars
  <2>2. \/ phase' = phase \/ phase' = "ended"
        \/ phase = "warming" /\ phase' = "claiming"
        \/ phase \in Serving /\ phase' \in Serving \ {"claiming"}
    BY <1>3 DEF Next, GpuWarm, GpuInitFails, CancelStart, OpenStream, StreamDrops, OpenGpuCircuit,
       LagHookRaises, Stop, HandleAssignment, WaiterStarts, WaiterRejects, DispatchEnds, ClaimStops,
       ClaimRefused, ClaimCancelled, LeaveClaimLoop, StopBackgroundLoops, DrainTimeout, CancelDrain,
       DrainReturns, StopWatchdog, CloseRedis, CloseChannel, CancelClosing, vars, EndWith,
       EnterClaimLoop
  <2>3. RegistryValid' = RegistryValid /\ Profiles' = Profiles
    BY <2>1 DEF bootVars, RegistryValid, SchemasValid, TimeoutLeaseValid, Profiles, Timeout, Lease, KnownLease
  <2>4. SettingsValid(settings)' = SettingsValid(settings)
    BY <2>1 DEF bootVars, SettingsValid
  <2> QED
    BY <2>1, <2>2, <2>3, <2>4 DEF bootVars
<1> QED
  BY <1>1, <1>2, <1>3

-----------------------------------------------------------------------------
(* Clean-up.                                                               *)

LEMMA OpenStep == ASSUME LifeInv, [Next]_vars PROVE Open'
<1> USE DEF LifeInv, TypeOK, Quiet, Open, BeforeServing, Serving, Closing, EndWith
<1>1. ASSUME Construct \/ (\E t \in Offered : Register(t)) PROVE Open'
  BY <1>1 DEF Construct, Register, NothingLeftOpen, openVars, streamVars, jobVars
<1>2. ASSUME StartArun PROVE Open'
  <2>1. registry' = registry /\ phase = "made" /\ exit = "none"
    BY <1>2 DEF StartArun
  <2>2. CASE phase' = "ended"
    BY <1>2, <2>1, <2>2 DEF StartArun, Boot, StartFails, EnterClaimLoop, NothingLeftOpen
  <2>3. CASE phase' # "ended"
    <3>1. /\ channel' = "open" /\ exit' = "none"
          /\ phase' = IF "gpu" \in Profiles THEN "warming" ELSE "claiming"
          /\ executor' = [p \in {"cpu", "gpu"} |->
                  IF p \notin Profiles THEN "none" ELSE IF p = "cpu" THEN "up" ELSE "built"]
      BY <1>2, <2>1, <2>3 DEF StartArun, Boot, StartFails, EnterClaimLoop
    <3>2. \A t \in registry : t.profile \in Profiles /\ t.profile \in {"io", "cpu", "gpu"}
      BY LifecycleAssumption DEF Profiles
    <3> QED
      BY <2>1, <3>1, <3>2 DEF NothingLeftOpen
  <2> QED
    BY <2>2, <2>3
<1>3. ASSUME GpuWarm PROVE Open'
  BY <1>3, LifecycleAssumption DEF GpuWarm, EnterClaimLoop, NothingLeftOpen, bootVars
<1>4. ASSUME GpuInitFails \/ CancelStart PROVE Open'
  BY <1>4 DEF GpuInitFails, CancelStart, NothingLeftOpen
<1>5. ASSUME OpenStream \/ StreamDrops \/ OpenGpuCircuit \/ LagHookRaises \/ Stop PROVE Open'
  BY <1>5 DEF OpenStream, StreamDrops, OpenGpuCircuit, LagHookRaises, Stop, NothingLeftOpen,
              bootVars, openVars, streamVars, jobVars
<1>6. ASSUME NEW a \in Assignments,
             HandleAssignment(a) \/ WaiterStarts(a) \/ WaiterRejects(a) \/ DispatchEnds(a)
      PROVE  Open'
  BY <1>6 DEF HandleAssignment, WaiterStarts, WaiterRejects, DispatchEnds, NothingLeftOpen,
              bootVars, openVars, streamVars
<1>7. ASSUME ClaimStops \/ ClaimRefused \/ ClaimCancelled PROVE Open'
  BY <1>7 DEF ClaimStops, ClaimRefused, ClaimCancelled, LeaveClaimLoop, NothingLeftOpen, bootVars,
              openVars
<1>8. ASSUME StopBackgroundLoops \/ DrainTimeout \/ CancelDrain PROVE Open'
  BY <1>8 DEF StopBackgroundLoops, DrainTimeout, CancelDrain, NothingLeftOpen, bootVars, openVars,
              streamVars
<1>9. ASSUME DrainReturns \/ CancelClosing PROVE Open'
  BY <1>9 DEF DrainReturns, CancelClosing, NothingLeftOpen, bootVars, openVars
<1>10. ASSUME StopWatchdog PROVE Open'
  BY <1>10 DEF StopWatchdog, ExecutorsStopped, NothingLeftOpen
<1>11. ASSUME CloseRedis \/ CloseChannel PROVE Open'
  BY <1>11 DEF CloseRedis, CloseChannel, NothingLeftOpen
<1>12. CASE UNCHANGED vars
  BY <1>12 DEF vars, bootVars, openVars, streamVars, NothingLeftOpen
<1> QED
  BY <1>1, <1>2, <1>3, <1>4, <1>5, <1>6, <1>7, <1>8, <1>9, <1>10, <1>11, <1>12 DEF Next

LEMMA DrainCoversStep == ASSUME LifeInv, [Next]_vars PROVE DrainCovers'
<1> USE DEF LifeInv, TypeOK, DrainCovers, Live, Serving, Closing
<1>1. ASSUME Construct \/ StartArun \/ (\E t \in Offered : Register(t)) PROVE DrainCovers'
  BY <1>1 DEF Construct, StartArun, Boot, StartFails, EnterClaimLoop, EndWith, Register, Quiet,
              BeforeServing, jobVars
<1>2. ASSUME GpuWarm \/ GpuInitFails \/ CancelStart PROVE DrainCovers'
  BY <1>2 DEF GpuWarm, EnterClaimLoop, GpuInitFails, CancelStart, EndWith, Quiet, BeforeServing,
              bootVars, jobVars
<1>3. ASSUME OpenStream \/ StreamDrops \/ OpenGpuCircuit \/ LagHookRaises \/ Stop PROVE DrainCovers'
  BY <1>3 DEF OpenStream, StreamDrops, OpenGpuCircuit, LagHookRaises, Stop, bootVars, jobVars
<1>4. ASSUME NEW a \in Assignments, HandleAssignment(a) \/ WaiterStarts(a) PROVE DrainCovers'
  <2>1. ~stopped /\ exit' = exit /\ phase' = phase /\ registry' = registry
    BY <1>4 DEF HandleAssignment, WaiterStarts, bootVars
  <2>2. exit' # "stop"
    BY <2>1
  <2>3. ASSUME HandleAssignment(a) PROVE DrainCovers'
    <3>1. PICK t \in registry : task' = [task EXCEPT ![a] = t]
      BY <2>3 DEF HandleAssignment
    <3>2. job' = [job EXCEPT ![a] = "running"] \/ job' = [job EXCEPT ![a] = "waiting"]
      BY <2>3 DEF HandleAssignment
    <3> QED
      BY <2>1, <2>2, <2>3, <3>1, <3>2
  <2>4. ASSUME WaiterStarts(a) PROVE DrainCovers'
    BY <2>1, <2>2, <2>4 DEF WaiterStarts
  <2> QED
    BY <1>4, <2>3, <2>4
<1>5. ASSUME NEW a \in Assignments, WaiterRejects(a) \/ DispatchEnds(a) PROVE DrainCovers'
  BY <1>5 DEF WaiterRejects, DispatchEnds, bootVars
<1>6. ASSUME ClaimStops \/ ClaimRefused \/ ClaimCancelled PROVE DrainCovers'
  BY <1>6 DEF ClaimStops, ClaimRefused, ClaimCancelled, LeaveClaimLoop, bootVars, jobVars
<1>7. ASSUME StopBackgroundLoops PROVE DrainCovers'
  BY <1>7 DEF StopBackgroundLoops, bootVars, jobVars
<1>8. ASSUME DrainTimeout \/ CancelDrain PROVE DrainCovers'
  BY <1>8 DEF DrainTimeout, CancelDrain, CancelSnapshot, bootVars
<1>9. ASSUME DrainReturns PROVE DrainCovers'
  BY <1>9 DEF DrainReturns, Drained, bootVars, jobVars
<1>10. ASSUME StopWatchdog \/ CloseRedis \/ CloseChannel \/ CancelClosing PROVE DrainCovers'
  BY <1>10 DEF StopWatchdog, CloseRedis, CloseChannel, CancelClosing, EndWith, bootVars, jobVars
<1>11. CASE UNCHANGED vars
  BY <1>11 DEF vars, bootVars, jobVars
<1> QED
  BY <1>1, <1>2, <1>3, <1>4, <1>5, <1>6, <1>7, <1>8, <1>9, <1>10, <1>11 DEF Next

-----------------------------------------------------------------------------
(* Tags.                                                                   *)

(* What is withheld when the circuit is open is no tag of the others.      *)
LEMMA AllTagsFollow ==
    /\ \A t \in registry \ GpuTasks : t.runsOn \subseteq AllTags
    /\ circuit => \A t \in GpuTasks :
                    t.runsOn \cap GpuOnlyTags # {} => ~(t.runsOn \subseteq AllTags)
BY DEF AllTags, GpuOnlyTags, TagsOf, GpuTasks

LEMMA TagsStep == ASSUME LifeInv, [Next]_vars PROVE TagsFollowCircuit'
<1> USE DEF TagsFollowCircuit
<1>1. CASE OpenStream
  <2>1. registry' = registry /\ tags' = AllTags /\ tagsSince' = circuit
    BY <1>1 DEF OpenStream, bootVars
  <2>2. GpuTasks' = GpuTasks /\ GpuOnlyTags' = GpuOnlyTags
    BY <2>1 DEF GpuTasks, GpuOnlyTags, TagsOf
  <2> QED
    BY <2>1, <2>2, AllTagsFollow
<1>2. CASE ~OpenStream
  <2>1. stream' => /\ stream /\ tags' = tags /\ tagsSince' = tagsSince /\ registry' = registry
    BY <1>2 DEF LifeInv, Quiet, BeforeServing, Next, Construct, Register, StartArun, Boot, StartFails,
       EnterClaimLoop, GpuWarm, GpuInitFails, CancelStart,
       StreamDrops, OpenGpuCircuit, LagHookRaises, Stop, HandleAssignment, WaiterStarts,
       WaiterRejects, DispatchEnds, ClaimStops, ClaimRefused, ClaimCancelled, LeaveClaimLoop,
       StopBackgroundLoops, DrainTimeout, CancelDrain, DrainReturns, StopWatchdog, CloseRedis,
       CloseChannel, CancelClosing, vars, bootVars, streamVars
  <2>2. registry' = registry => GpuTasks' = GpuTasks /\ GpuOnlyTags' = GpuOnlyTags
    BY DEF GpuTasks, GpuOnlyTags, TagsOf
  <2> QED
    BY <2>1, <2>2 DEF LifeInv
<1> QED
  BY <1>1, <1>2

-----------------------------------------------------------------------------

LEMMA LifeInvariant == Spec => []LifeInv
<1>1. Init => LifeInv
  <2> SUFFICES ASSUME Init PROVE LifeInv
    OBVIOUS
  <2>1. TypeOK
    BY DEF Init, TypeOK, Phases
  <2>2. Quiet /\ Checked /\ TagsFollowCircuit
    BY DEF Init, Quiet, Checked, TagsFollowCircuit, BeforeServing, Serving, Closing
  <2>3. Open /\ DrainCovers
    BY DEF Init, Open, DrainCovers, NothingLeftOpen, Live, Serving, Closing
  <2> QED
    BY <2>1, <2>2, <2>3 DEF LifeInv
<1>2. LifeInv /\ [Next]_vars => LifeInv'
  BY TypeStep, QuietStep, CheckedStep, OpenStep, DrainCoversStep, TagsStep DEF LifeInv
<1> QED
  BY <1>1, <1>2, PTL DEF Spec

(* Every variable of the worker keeps its type.                            *)
THEOREM TypeCorrect == Spec => []TypeOK
<1>1. LifeInv => TypeOK
  BY DEF LifeInv
<1> QED
  BY <1>1, LifeInvariant, PTL

(* After a stop no running job loses its executor or its channel.          *)
THEOREM RunningJobsKeepTools == Spec => []JobsKeepTools
<1>1. LifeInv => JobsKeepTools
  <2> SUFFICES ASSUME LifeInv, NEW a \in Live, exit = "stop"
               PROVE  /\ channel = "open"
                      /\ task[a].profile # "io" => executor[task[a].profile] = "up"
    BY DEF JobsKeepTools
  <2>1. phase \in {"stoppingLoops", "draining"}
    BY DEF LifeInv, TypeOK, Phases, Quiet, Open, DrainCovers, BeforeServing, Closing, Serving
  <2>2. task[a] \in registry
    BY DEF LifeInv, DrainCovers, Live
  <2> QED
    BY <2>1, <2>2 DEF LifeInv, Open, Serving, Closing
<1> QED
  BY <1>1, LifeInvariant, PTL

(* When arun has ended by itself, everything it opened is closed.          *)
THEOREM EverythingReleased == Spec => []NothingLeftOpen
<1>1. LifeInv => NothingLeftOpen
  BY DEF LifeInv, Open
<1> QED
  BY <1>1, LifeInvariant, PTL

(* A stream serves every task that can run and, once the circuit is open,  *)
(* no gpu task with a tag of its own.                                      *)
THEOREM StreamTagsFollowCircuit == Spec => []TagsFollowCircuit
<1>1. LifeInv => TagsFollowCircuit
  BY DEF LifeInv
<1> QED
  BY <1>1, LifeInvariant, PTL

(* Boot hands WorkerRuntime and ProcessPool the sizes they assume.         *)
THEOREM BootSizesFit == Spec => []BootMeetsAssumptions
<1>1. LifeInv => BootMeetsAssumptions
  BY DEF LifeInv, Checked, BootMeetsAssumptions
<1> QED
  BY <1>1, LifeInvariant, PTL

-----------------------------------------------------------------------------
(* Beats and leases.                                                       *)

(* Quotient and remainder.                                                 *)
LEMMA Quotient ==
    ASSUME NEW n \in Int, NEW d \in Nat \ {0}
    PROVE  LET q == n \div d IN q \in Int /\ q * d <= n /\ n < (q + 1) * d
OBVIOUS

(* At least three beats go into a lease: the shell that may miss all but   *)
(* one of them gives up in the lease's last interval.                      *)
LEMMA GivesUpInTime ==
    ASSUME NEW lease \in Int, NEW beat \in Nat \ {0}, 3 * beat <= lease
    PROVE  LET beats == lease \div beat
               misses == IF beats < 2 THEN 1 ELSE beats - 1
               gaveUp == (misses + 1) * beat
           IN  misses >= 2 /\ gaveUp <= lease /\ lease < gaveUp + beat
<1> DEFINE q == lease \div beat
<1>1. q \in Int /\ q * beat <= lease /\ lease < (q + 1) * beat
  BY Quotient
<1>2. (q + 1) * beat = q * beat + beat
  BY <1>1
<1> HIDE DEF q
<1>3. q >= 3
  <2>1. SUFFICES ASSUME q <= 2 PROVE FALSE
    BY <1>1
  <2>2. (q + 1) * beat <= 3 * beat
    BY <1>1, <2>1
  <2> QED
    BY <1>1, <2>2
<1> QED
  BY <1>1, <1>2, <1>3 DEF q

(* What boot lets through leaves every shell two beats to lose.            *)
THEOREM BeatsAlwaysFit == Spec => []BeatsFitLease
<1>1. LifeInv => BeatsFitLease
  <2> SUFFICES ASSUME LifeInv, phase = "claiming", NEW t \in registry, Given(Lease(t))
               PROVE  LET gaveUp == (MaxMisses(t) + 1) * settings.heartbeat IN
                      MaxMisses(t) >= 2 /\ gaveUp <= Lease(t) /\ Lease(t) < gaveUp + settings.heartbeat
    BY DEF BeatsFitLease
  <2>1. settings.heartbeat \in Nat \ {0} /\ 3 * settings.heartbeat <= Lease(t)
    BY LifecycleAssumption DEF LifeInv, Checked, SettingsValid, Serving, RegistryValid,
       TimeoutLeaseValid
  <2>2. Lease(t) \in Int
    BY LifecycleAssumption DEF LifeInv, TypeOK, Lease, ProfileLease, Given
  <2>3. KnownLease(t) = Lease(t)
    BY DEF KnownLease
  <2> QED
    BY <2>1, <2>2, <2>3, GivesUpInTime DEF MaxMisses
<1> QED
  BY <1>1, LifeInvariant, PTL
=============================================================================
