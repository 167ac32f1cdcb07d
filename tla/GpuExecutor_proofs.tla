------------------------- MODULE GpuExecutor_proofs -------------------------
(***************************************************************************)
(* Proofs about GpuExecutor, for any set of jobs, any threshold of the     *)
(* breaker and any number of pump threads.                                 *)
(*                                                                         *)
(* Protocol says what is in the pipe of the current subprocess and what    *)
(* the subprocess does, for each thing the holder of the lock may be       *)
(* waiting for: at most one frame is ever in flight, as long as no holder  *)
(* of the lock was cancelled. RunInv, OneHolder and ProcInv carry it from  *)
(* one subprocess to the next.                                             *)
(***************************************************************************)
EXTENDS GpuExecutor, FiniteSetTheorems, TLAPS

Frame(k, j) == [kind |-> k, job |-> j]

\* The subprocess boots, or its init frame waits.
Boots(p) ==
    \/ proc[p] = "booting" /\ up[p] = <<>> /\ down[p] = <<>>
    \/ proc[p] = "idle" /\ up[p] = <<Init1>> /\ down[p] = <<>>
    \/ proc[p] = "dead" /\ up[p] \in {<<>>, <<Init1>>}

\* Nothing is in flight.
Rests(p) ==
    /\ up[p] = <<>>
    /\ \/ proc[p] = "idle" /\ down[p] = <<>>
       \/ proc[p] = "dead"

\* The subprocess works on job j, or is about to, or has answered.
Works(p, j) ==
    \/ proc[p] = "idle" /\ up[p] = <<>> /\ down[p] = <<Frame("run", j)>>
    \/ proc[p] = "busy" /\ serving[p] = j /\ up[p] = <<>> /\ down[p] = <<>>
    \/ proc[p] = "asking" /\ serving[p] = j /\ up[p] = <<Frame("call", j)>> /\ down[p] = <<>>
    \/ proc[p] = "asking" /\ serving[p] = j /\ up[p] = <<>> /\ down[p] = <<Frame("reply", j)>>
    \/ proc[p] = "idle" /\ up[p] = <<Frame("result", j)>> /\ down[p] = <<>>
    \/ proc[p] = "idle" /\ up[p] = <<Frame("unreadable", j)>> /\ down[p] = <<>>
    \/ /\ proc[p] = "dead"
       /\ up[p] \in {<<>>, <<Frame("call", j)>>, <<Frame("result", j)>>, <<Frame("unreadable", j)>>}

\* The subprocess waits for the reply to its call.
Asks(p, j) ==
    /\ up[p] = <<>>
    /\ \/ proc[p] = "asking" /\ serving[p] = j /\ down[p] = <<>>
       \/ proc[p] = "dead"

RunInv ==
    \A j \in Jobs :
        /\ run[j] \in Holding \cup {"queued"} => phase = "ready"
        /\ run[j] \in Holding => pipe[j] = conn
        /\ run[j] \in Booting \cup {"pumping"} => read[j] # "none"
        /\ read[j] # "none" => run[j] \in Booting \cup {"pumping", "abandoned"}
        /\ got[j] # Nothing => run[j] = "returned"
        /\ phase = "starting" => run[j] = "none"

OneHolder == \A j, k \in Jobs : run[j] \in Holding /\ run[k] \in Holding => j = k

ProcInv ==
    \A p \in Procs :
        /\ proc[p] = "unborn" => up[p] = <<>> /\ down[p] = <<>> /\ p # conn
        /\ proc[p] \in {"busy", "asking"} => serving[p] \in Jobs
        /\ p \in torn => Disturbed(p)
        /\ Alive(p) /\ ~Disturbed(p) => p = conn /\ phase # "stopped"

Protocol ==
    ~Disturbed(conn) =>
        /\ phase = "starting" => Boots(conn)
        /\ phase # "starting" /\ LockFree => Rests(conn)
        /\ \A j \in Jobs : /\ run[j] \in Booting => Boots(conn)
                           /\ run[j] = "pumping" => Works(conn, j)
                           /\ run[j] = "replying" => Asks(conn, j)

\* While the crashes that opened the breaker lie in the window nobody holds the
\* lock and the subprocess is dead.
CircuitHolds ==
    recent = Threshold /\ (\A p \in Procs : ~Disturbed(p)) =>
        circuitOpen /\ LockFree /\ proc[conn] = "dead"

Breaker == (recent = Threshold => circuitOpen) /\ CircuitHolds

GpuInv == TypeOK /\ RunInv /\ OneHolder /\ ProcInv /\ Protocol /\ OwnAnswerUndisturbed /\ Breaker

-----------------------------------------------------------------------------
(* Types.                                                                  *)

\* Taking a frame from a pipe and adding one keeps it a pipe.
LEMMA PipeTyped ==
    ASSUME NEW S, NEW s \in Seq(S)
    PROVE  /\ s # <<>> => Head(s) \in S /\ Tail(s) \in Seq(S)
           /\ \A x \in S : Append(s, x) \in Seq(S)
  OBVIOUS

\* What the constructor and start() set up is well typed.
LEMMA TypeInit == Init => TypeOK
<1> SUFFICES ASSUME Init PROVE TypeOK
  OBVIOUS
<1>1. 1 \in Procs /\ 0 \in 0..Threshold
  BY GpuAssumption DEF Procs
<1>2. up \in [Procs -> Seq(UpFrames)] /\ down \in [Procs -> Seq(DownFrames)]
  BY DEF Init
<1>3. run \in [Jobs -> RunPhases] /\ got \in [Jobs -> UpFrames \cup {Nothing}]
  BY DEF Init, RunPhases
<1>4. QED
  BY <1>1, <1>2, <1>3 DEF Init, TypeOK

\* The parts of the type invariant one by one, for the goals below.
LEMMA TypeStep == TypeOK /\ RunInv /\ ProcInv /\ [Next]_vars => TypeOK'
<1> SUFFICES ASSUME TypeOK, RunInv, ProcInv, [Next]_vars PROVE TypeOK'
  OBVIOUS
<1> USE GpuAssumption
<1>a. \A p \in Procs :
         /\ up[p] # <<>> => Head(up[p]) \in UpFrames /\ Tail(up[p]) \in Seq(UpFrames)
         /\ down[p] # <<>> => Head(down[p]) \in DownFrames /\ Tail(down[p]) \in Seq(DownFrames)
         /\ \A f \in UpFrames : Append(up[p], f) \in Seq(UpFrames)
         /\ \A f \in DownFrames : Append(down[p], f) \in Seq(DownFrames)
  <2>1. \A p \in Procs : up[p] \in Seq(UpFrames) /\ down[p] \in Seq(DownFrames)
    BY DEF TypeOK
  <2>2. QED
    BY <2>1, PipeTyped
<1>b. /\ Init1 \in UpFrames
      /\ \A j \in Jobs : /\ \A k \in {"result", "unreadable", "call"} : Frame(k, j) \in UpFrames
                         /\ \A k \in {"run", "reply"} : Frame(k, j) \in DownFrames
  BY DEF UpFrames, DownFrames, Frame, Answers
<1>c. \A f \in DownFrames : f.job \in Jobs
  BY DEF DownFrames
<1>d. \A j \in Jobs : run[j] \in Holding => pipe[j] \in Procs
  BY DEF RunInv, TypeOK
<1>e. ASSUME NEW j \in Jobs, NEW how \in RunPhases, End(j, how)
      PROVE  run' \in [Jobs -> RunPhases] /\ read' \in [Jobs -> {"none", "queued", "reading"}]
  BY <1>e DEF End, TypeOK
<1>f. ASSUME NEW j \in Jobs, NEW boot \in Booting, Respawn(j, boot)
      PROVE  /\ recent' \in 0..Threshold
             /\ circuitOpen' \in BOOLEAN
             /\ conn' \in Procs
             /\ run' \in [Jobs -> RunPhases]
             /\ read' \in [Jobs -> {"none", "queued", "reading"}]
             /\ pipe' \in [Jobs -> Procs \cup {0}]
             /\ proc' \in [Procs -> {"unborn", "booting", "idle", "busy", "asking", "dead"}]
  <2>1. CASE recent + 1 >= Threshold
    BY <1>e, <1>f, <2>1 DEF Respawn, TypeOK, RunPhases
  <2>2. CASE recent + 1 < Threshold /\ End(j, "raised") /\ UNCHANGED <<conn, pipe, proc>>
    BY <1>e, <1>f, <2>2 DEF Respawn, TypeOK, RunPhases
  <2>3. CASE /\ recent + 1 < Threshold
             /\ \E p \in Procs :
                   /\ conn' = p
                   /\ proc' = [proc EXCEPT ![p] = "booting"]
                   /\ pipe' = [pipe EXCEPT ![j] = p]
                   /\ run' = [run EXCEPT ![j] = boot]
                   /\ read' = [read EXCEPT ![j] = "queued"]
    BY <1>f, <2>3 DEF Respawn, TypeOK, RunPhases, Holding
  <2>4. recent + 1 >= Threshold \/ recent + 1 < Threshold
    BY DEF TypeOK
  <2>5. QED
    BY <1>f, <2>1, <2>2, <2>3, <2>4 DEF Respawn
<1>g. ASSUME NEW j \in Jobs, NEW p \in Procs, SendJob(j, p)
      PROVE  /\ run' \in [Jobs -> RunPhases]
             /\ read' \in [Jobs -> {"none", "queued", "reading"}]
             /\ pipe' \in [Jobs -> Procs \cup {0}]
             /\ down' \in [Procs -> Seq(DownFrames)]
             /\ UNCHANGED <<proc, serving, torn>>
  BY <1>a, <1>b, <1>g DEF SendJob, TypeOK, RunPhases, Holding, Booting, Frame
<1>h. ASSUME NEW p \in Procs, NEW f \in UpFrames, NEW then \in {"idle", "asking"}, Send(p, f, then)
      PROVE  /\ up' \in [Procs -> Seq(UpFrames)]
             /\ proc' \in [Procs -> {"unborn", "booting", "idle", "busy", "asking", "dead"}]
             /\ UNCHANGED <<phase, conn, breakerVars, runVars, torn>>
  BY <1>a, <1>h DEF Send, TypeOK
<1>i. RunPhases = {"booting", "rebooting", "pumping", "replying", "none", "queued", "returned",
                   "retried", "raised", "cancelled", "abandoned"}
  BY DEF RunPhases, Holding, Booting
<1> USE DEF breakerVars, runVars, procVars
<1>1. CASE Started
  BY ZenonT(30), <1>1, <1>a DEF Started, FrameReady, TypeOK
<1>2. CASE Stop
  BY <1>2 DEF Stop, TypeOK
<1>3. CASE CrashAges
  BY <1>3 DEF CrashAges, TypeOK
<1>4. ASSUME NEW j \in Jobs, Call(j) PROVE TypeOK'
  BY <1>4, <1>i DEF Call, TypeOK
<1>5. ASSUME NEW j \in Jobs, Enter(j) PROVE TypeOK'
  <2>1. CASE SendJob(j, conn) /\ UNCHANGED <<conn, breakerVars, up>>
    BY <1>5, <1>g, <2>1 DEF Enter, TypeOK
  <2>2. CASE Respawn(j, "booting") /\ UNCHANGED <<serving, down, up, torn>>
    BY <1>5, <1>f, <2>2 DEF Enter, TypeOK, Booting
  <2>3. CASE End(j, "raised") /\ UNCHANGED <<conn, breakerVars, pipe, procVars>>
    BY <1>5, <1>e, <1>i, <2>3 DEF Enter, TypeOK
  <2>4. QED
    BY <1>5, <2>1, <2>2, <2>3 DEF Enter
<1>6. ASSUME NEW j \in Jobs, ReadStarts(j) PROVE TypeOK'
  BY <1>6 DEF ReadStarts, TypeOK
<1>7. ASSUME NEW j \in Jobs, ReceiveInit(j) PROVE TypeOK'
  <2>1. pipe[j] \in Procs /\ up' \in [Procs -> Seq(UpFrames)]
    BY <1>7, <1>a, <1>d DEF ReceiveInit, FrameReady, TypeOK, Holding
  <2>2. CASE SendJob(j, pipe[j])
    BY <1>7, <1>g, <2>1, <2>2 DEF ReceiveInit, TypeOK
  <2>3. CASE End(j, "retried") /\ UNCHANGED <<pipe, proc, serving, down, torn>>
    BY <1>7, <1>e, <1>i, <2>1, <2>3 DEF ReceiveInit, TypeOK
  <2>4. QED
    BY <1>7, <2>2, <2>3 DEF ReceiveInit
<1>8. ASSUME NEW j \in Jobs, Receive(j) PROVE TypeOK'
  <2>1. pipe[j] \in Procs /\ up' \in [Procs -> Seq(UpFrames)] /\ Head(up[pipe[j]]) \in UpFrames
    BY <1>8, <1>a, <1>d DEF Receive, FrameReady, TypeOK, Holding
  <2>2. CASE ReceiveCall(j)
    BY <1>8, <1>i, <2>1, <2>2 DEF Receive, ReceiveCall, TypeOK
  <2>3. CASE ReceiveDone(j)
    BY <1>8, <1>e, <1>i, <2>1, <2>3 DEF Receive, ReceiveDone, TypeOK
  <2>4. CASE ReceiveUnreadable(j)
    BY <1>8, <1>e, <1>i, <2>1, <2>4 DEF Receive, ReceiveUnreadable, TypeOK
  <2>5. QED
    BY <1>8, <2>2, <2>3, <2>4 DEF Receive
<1>9. ASSUME NEW j \in Jobs, ReceiveEof(j) PROVE TypeOK'
  <2>1. CASE Respawn(j, "rebooting")
    BY <1>9, <1>f, <2>1 DEF ReceiveEof, TypeOK, Booting
  <2>2. CASE End(j, "raised") /\ UNCHANGED <<conn, breakerVars, pipe, proc>>
    BY <1>9, <1>e, <1>i, <2>2 DEF ReceiveEof, TypeOK
  <2>3. QED
    BY <1>9, <2>1, <2>2 DEF ReceiveEof
<1>10. ASSUME NEW j \in Jobs, Reply(j) PROVE TypeOK'
  <2>1. pipe[j] \in Procs
    BY <1>10, <1>d DEF Reply, Holding
  <2>2. CASE proc[pipe[j]] = "dead"
    BY <1>10, <1>f, <2>2 DEF Reply, TypeOK, Booting
  <2>3. CASE proc[pipe[j]] # "dead"
    <3>1. down' \in [Procs -> Seq(DownFrames)]
      <4>1. Append(down[pipe[j]], [kind |-> "reply", job |-> j]) \in Seq(DownFrames)
        BY <1>a, <1>b, <2>1 DEF Frame
      <4>2. QED
        BY <1>10, <2>1, <2>3, <4>1 DEF Reply, TypeOK
    <3>2. QED
      BY <1>10, <1>i, <2>3, <3>1 DEF Reply, TypeOK
  <2>4. QED
    BY <2>2, <2>3
<1>11. ASSUME NEW j \in Jobs, TornRead(j) PROVE TypeOK'
  <2>1. CASE Respawn(j, "rebooting")
    BY <1>11, <1>f, <2>1 DEF TornRead, TypeOK, Booting
  <2>2. CASE End(j, "raised") /\ UNCHANGED <<conn, breakerVars, pipe, proc>>
    BY <1>11, <1>e, <1>i, <2>2 DEF TornRead, TypeOK
  <2>3. CASE run[j] = "abandoned" /\ read' = [read EXCEPT ![j] = "none"]
             /\ UNCHANGED <<conn, breakerVars, run, pipe, proc>>
    BY <1>11, <2>3 DEF TornRead, TypeOK
  <2>4. QED
    BY <1>11, <2>1, <2>2, <2>3 DEF TornRead
<1>12. ASSUME NEW j \in Jobs, Cancel(j) PROVE TypeOK'
  BY <1>12, <1>i DEF Cancel, TypeOK
<1>13. ASSUME NEW j \in Jobs, AbandonedRead(j) PROVE TypeOK'
  <2>1. up' \in [Procs -> Seq(UpFrames)]
    <3>1. CASE up' = [up EXCEPT ![pipe[j]] = Tail(@)] /\ FrameReady(pipe[j])
      <4>1. pipe[j] \in Procs \/ up' = up
        BY <3>1 DEF TypeOK
      <4>2. QED
        BY <1>a, <3>1, <4>1 DEF FrameReady, TypeOK
    <3>2. QED
      BY <1>13, <3>1 DEF AbandonedRead, TypeOK
  <2>2. QED
    BY <1>13, <2>1 DEF AbandonedRead, TypeOK
<1>14. ASSUME NEW p \in Procs, ChildWarm(p) PROVE TypeOK'
  BY <1>14, <1>b, <1>h DEF ChildWarm, TypeOK
<1>15. ASSUME NEW p \in Procs, ChildTakes(p) PROVE TypeOK'
  BY <1>15, <1>a, <1>c DEF ChildTakes, TypeOK
<1>16. ASSUME NEW p \in Procs, ChildAsks(p) PROVE TypeOK'
  <2>1. Frame("call", serving[p]) \in UpFrames
    BY <1>16, <1>b DEF ChildAsks, ProcInv
  <2>2. QED
    BY <1>16, <1>h, <2>1 DEF ChildAsks, TypeOK, Frame
<1>17. ASSUME NEW p \in Procs, ChildResumes(p) PROVE TypeOK'
  <2>1. Frame("result", serving[p]) \in UpFrames
    BY <1>17, <1>b DEF ChildResumes, ProcInv
  <2>2. down' \in [Procs -> Seq(DownFrames)]
    BY <1>17, <1>a DEF ChildResumes, TypeOK
  <2>3. CASE Send(p, [kind |-> "result", job |-> serving[p]], "idle")
    BY <1>17, <1>h, <2>1, <2>2, <2>3 DEF ChildResumes, TypeOK, Frame
  <2>4. CASE proc' = [proc EXCEPT ![p] = "busy"]
             /\ UNCHANGED <<phase, conn, breakerVars, runVars, up, torn>>
    BY <1>17, <2>2, <2>4 DEF ChildResumes, TypeOK
  <2>5. QED
    BY <1>17, <2>3, <2>4 DEF ChildResumes
<1>18. ASSUME NEW p \in Procs, ChildAnswers(p) PROVE TypeOK'
  <2>1. PICK k \in Answers : Send(p, [kind |-> k, job |-> serving[p]], "idle")
    BY <1>18 DEF ChildAnswers
  <2>2. Frame(k, serving[p]) \in UpFrames
    BY <1>18, <1>b DEF ChildAnswers, ProcInv, Answers
  <2>3. QED
    BY <1>18, <1>h, <2>1, <2>2 DEF ChildAnswers, TypeOK, Frame
<1>19. ASSUME NEW p \in Procs, ChildDies(p) PROVE TypeOK'
  BY <1>19 DEF ChildDies, TypeOK
<1>20. ASSUME NEW p \in Procs, TearFrame(p) PROVE TypeOK'
  BY <1>20 DEF TearFrame, TypeOK
<1>21. CASE UNCHANGED vars
  BY <1>21 DEF vars, TypeOK
<1>22. QED
  BY <1>1, <1>2, <1>3, <1>4, <1>5, <1>6, <1>7, <1>8, <1>9, <1>10, <1>11, <1>12, <1>13, <1>14,
     <1>15, <1>16, <1>17, <1>18, <1>19, <1>20, <1>21
     DEF Next, RunStep, PumpStep, ChildStep

-----------------------------------------------------------------------------
(* What a cancelled run leaves behind stays.                               *)

\* The three outcomes of a respawn.
LEMMA RespawnOutcomes ==
    ASSUME TypeOK, NEW j \in Jobs, NEW boot \in Booting, Respawn(j, boot)
    PROVE  \/ /\ End(j, "retried")
              /\ recent' = Threshold /\ circuitOpen' = TRUE
              /\ UNCHANGED <<conn, pipe, proc>>
           \/ /\ End(j, "raised")
              /\ recent' # Threshold /\ UNCHANGED circuitOpen
              /\ UNCHANGED <<conn, pipe, proc>>
           \/ /\ recent' # Threshold /\ UNCHANGED circuitOpen
              /\ \E p \in Procs :
                    /\ proc[p] = "unborn"
                    /\ conn' = p
                    /\ proc' = [proc EXCEPT ![p] = "booting"]
                    /\ pipe' = [pipe EXCEPT ![j] = p]
                    /\ run' = [run EXCEPT ![j] = boot]
                    /\ read' = [read EXCEPT ![j] = "queued"]
<1>1. CASE recent + 1 >= Threshold
  BY <1>1 DEF Respawn
<1>2. CASE ~(recent + 1 >= Threshold)
  <2>1. recent' # Threshold
    BY <1>2, GpuAssumption DEF Respawn, TypeOK
  <2>2. QED
    BY <1>2, <2>1 DEF Respawn, Fresh
<1>3. QED
  BY <1>1, <1>2

\* A step moves the run that takes it, and no run that was abandoned.
LEMMA AbandonedStays ==
    TypeOK /\ [Next]_vars =>
        \A j \in Jobs : run[j] = "abandoned" => run'[j] = "abandoned" /\ pipe'[j] = pipe[j]
<1> SUFFICES ASSUME TypeOK, [Next]_vars, NEW i \in Jobs, run[i] = "abandoned"
             PROVE  run'[i] = "abandoned" /\ pipe'[i] = pipe[i]
  OBVIOUS
<1> USE DEF runVars
<1>t. run \in [Jobs -> RunPhases] /\ pipe \in [Jobs -> Procs \cup {0}]
  BY DEF TypeOK
<1>r. ASSUME NEW j \in Jobs, run[j] # "abandoned", NEW boot \in Booting, Respawn(j, boot)
      PROVE  run'[i] = "abandoned" /\ pipe'[i] = pipe[i]
  BY ZenonT(30), <1>r, <1>t, RespawnOutcomes DEF End
<1>1. CASE Started \/ Stop \/ CrashAges \/ UNCHANGED vars
  BY <1>1 DEF Started, Stop, CrashAges, vars
<1>2. ASSUME NEW j \in Jobs, Call(j) \/ ReadStarts(j) \/ Cancel(j) \/ AbandonedRead(j)
      PROVE  run'[i] = "abandoned" /\ pipe'[i] = pipe[i]
  BY <1>2, <1>t DEF Call, ReadStarts, Cancel, AbandonedRead, Holding, Booting
<1>3. ASSUME NEW j \in Jobs, Enter(j)
      PROVE  run'[i] = "abandoned" /\ pipe'[i] = pipe[i]
  BY <1>3, <1>t, <1>r DEF Enter, SendJob, End, Booting
<1>4. ASSUME NEW j \in Jobs, ReceiveInit(j) \/ Receive(j)
      PROVE  run'[i] = "abandoned" /\ pipe'[i] = pipe[i]
  BY <1>4, <1>t DEF ReceiveInit, Receive, ReceiveCall, ReceiveDone, ReceiveUnreadable, SendJob, End,
                    Booting
<1>5. ASSUME NEW j \in Jobs, ReceiveEof(j) \/ Reply(j) \/ TornRead(j)
      PROVE  run'[i] = "abandoned" /\ pipe'[i] = pipe[i]
  BY <1>5, <1>t, <1>r DEF ReceiveEof, Reply, TornRead, End, Booting
<1>6. ASSUME NEW p \in Procs, ChildStep(p)
      PROVE  run'[i] = "abandoned" /\ pipe'[i] = pipe[i]
  BY <1>6 DEF ChildStep, ChildWarm, ChildTakes, ChildAsks, ChildResumes, ChildAnswers, ChildDies,
              TearFrame, Send
<1>7. QED
  BY <1>1, <1>2, <1>3, <1>4, <1>5, <1>6 DEF Next, RunStep, PumpStep

\* A subprocess once disturbed stays so.
LEMMA DisturbedStays ==
    TypeOK /\ [Next]_vars => \A p \in Procs : Disturbed(p) => Disturbed(p)'
  BY AbandonedStays DEF Disturbed

-----------------------------------------------------------------------------
(* The runs and the lock.                                                  *)

\* Every step keeps what is known of each run, and at most one run inside the lock.
LEMMA RunsStep ==
    TypeOK /\ RunInv /\ OneHolder /\ [Next]_vars => RunInv' /\ OneHolder'
<1> SUFFICES ASSUME TypeOK, RunInv, OneHolder, [Next]_vars PROVE RunInv' /\ OneHolder'
  OBVIOUS
<1> USE DEF runVars, breakerVars
<1>t. /\ run \in [Jobs -> RunPhases] /\ pipe \in [Jobs -> Procs \cup {0}]
      /\ read \in [Jobs -> {"none", "queued", "reading"}]
      /\ got \in [Jobs -> UpFrames \cup {Nothing}]
  BY DEF TypeOK
<1>h. Holding = {"booting", "rebooting", "pumping", "replying"} /\ Booting = {"booting", "rebooting"}
  BY DEF Holding, Booting
<1>e. ASSUME NEW j \in Jobs, run[j] \in Holding \cup {"queued"},
             NEW how \in {"retried", "raised", "returned"},
             End(j, how), UNCHANGED <<phase, conn, pipe>>,
             \A i \in Jobs \ {j} : got'[i] = got[i], how = "returned" \/ got' = got
      PROVE  RunInv' /\ OneHolder'
  BY <1>e, <1>t, <1>h DEF End, RunInv, OneHolder
<1>r. ASSUME NEW j \in Jobs, run[j] \in Holding \cup {"queued"},
             \A k \in Jobs : run[k] \in Holding => k = j,
             NEW boot \in Booting, Respawn(j, boot), UNCHANGED <<phase, got>>
      PROVE  RunInv' /\ OneHolder'
  <2>1. CASE /\ \/ End(j, "retried")
                \/ End(j, "raised")
             /\ UNCHANGED <<conn, pipe, proc>>
    BY <1>r, <1>e, <2>1
  <2>2. CASE \E p \in Procs :
                /\ conn' = p
                /\ pipe' = [pipe EXCEPT ![j] = p]
                /\ run' = [run EXCEPT ![j] = boot]
                /\ read' = [read EXCEPT ![j] = "queued"]
    BY <1>r, <1>t, <1>h, <2>2 DEF RunInv, OneHolder
  <2>3. QED
    BY ZenonT(30), <1>r, <2>1, <2>2, RespawnOutcomes
<1>s. ASSUME NEW j \in Jobs, run[j] \in Holding \cup {"queued"},
             \A k \in Jobs : run[k] \in Holding => k = j,
             SendJob(j, conn), UNCHANGED <<phase, conn, got>>
      PROVE  RunInv' /\ OneHolder'
  BY <1>s, <1>t, <1>h DEF SendJob, RunInv, OneHolder
<1>o. ASSUME NEW j \in Jobs, run[j] \in Holding
      PROVE  \A k \in Jobs : run[k] \in Holding => k = j
  BY <1>o DEF OneHolder
<1>1. CASE Started
  BY <1>1, <1>h DEF Started, RunInv, OneHolder
<1>2. CASE Stop
  BY <1>2, <1>h DEF Stop, RunInv, OneHolder
<1>3. CASE CrashAges \/ UNCHANGED vars
  BY <1>3 DEF CrashAges, vars, RunInv, OneHolder
<1>4. ASSUME NEW j \in Jobs, Call(j) PROVE RunInv' /\ OneHolder'
  BY <1>4, <1>t, <1>h DEF Call, RunInv, OneHolder
<1>5. ASSUME NEW j \in Jobs, Enter(j) PROVE RunInv' /\ OneHolder'
  BY <1>5, <1>e, <1>r, <1>s, <1>h DEF Enter, LockFree
<1>6. ASSUME NEW j \in Jobs, ReadStarts(j) PROVE RunInv' /\ OneHolder'
  BY <1>6, <1>t, <1>h DEF ReadStarts, RunInv, OneHolder
<1>7. ASSUME NEW j \in Jobs, ReceiveInit(j) PROVE RunInv' /\ OneHolder'
  <2>1. run[j] \in Holding /\ pipe[j] = conn
    BY <1>7, <1>h DEF ReceiveInit, RunInv
  <2>2. QED
    BY <1>7, <1>e, <1>s, <1>o, <2>1 DEF ReceiveInit
<1>8. ASSUME NEW j \in Jobs, Receive(j) PROVE RunInv' /\ OneHolder'
  <2>1. run[j] \in Holding
    BY <1>8, <1>h DEF Receive
  <2>2. CASE ReceiveCall(j)
    BY <1>8, <1>t, <1>h, <2>2 DEF Receive, ReceiveCall, RunInv, OneHolder
  <2>3. CASE ReceiveDone(j)
    <3>1. \A i \in Jobs \ {j} : got'[i] = got[i]
      BY <1>t, <2>3 DEF ReceiveDone
    <3>2. QED
      BY <1>8, <1>e, <2>1, <2>3, <3>1 DEF Receive, ReceiveDone
  <2>4. CASE ReceiveUnreadable(j)
    BY <1>8, <1>e, <2>1, <2>4 DEF Receive, ReceiveUnreadable
  <2>5. QED
    BY <1>8, <2>2, <2>3, <2>4 DEF Receive
<1>9. ASSUME NEW j \in Jobs, ReceiveEof(j) PROVE RunInv' /\ OneHolder'
  <2>1. run[j] \in Holding
    BY <1>9, <1>h DEF ReceiveEof
  <2>2. QED
    BY <1>9, <1>e, <1>r, <1>o, <1>h, <2>1 DEF ReceiveEof
<1>10. ASSUME NEW j \in Jobs, Reply(j) PROVE RunInv' /\ OneHolder'
  <2>1. run[j] \in Holding
    BY <1>10, <1>h DEF Reply
  <2>2. CASE proc[pipe[j]] = "dead"
    BY <1>10, <1>r, <1>o, <1>h, <2>1, <2>2 DEF Reply
  <2>3. CASE proc[pipe[j]] # "dead"
    BY <1>10, <1>t, <1>h, <2>3 DEF Reply, RunInv, OneHolder
  <2>4. QED
    BY <2>2, <2>3
<1>11. ASSUME NEW j \in Jobs, TornRead(j) PROVE RunInv' /\ OneHolder'
  <2>1. CASE run[j] = "pumping" /\ Respawn(j, "rebooting")
    BY <1>11, <1>r, <1>o, <1>h, <2>1 DEF TornRead
  <2>2. CASE run[j] = "pumping" /\ End(j, "raised") /\ UNCHANGED <<conn, breakerVars, pipe, proc>>
    BY <1>11, <1>e, <1>h, <2>2 DEF TornRead
  <2>3. CASE /\ run[j] = "abandoned"
             /\ read' = [read EXCEPT ![j] = "none"]
             /\ UNCHANGED <<conn, breakerVars, run, pipe, proc>>
    BY <1>11, <1>t, <1>h, <2>3 DEF TornRead, RunInv, OneHolder
  <2>4. QED
    BY <1>11, <2>1, <2>2, <2>3 DEF TornRead
<1>12. ASSUME NEW j \in Jobs, Cancel(j) PROVE RunInv' /\ OneHolder'
  BY <1>12, <1>t, <1>h DEF Cancel, RunInv, OneHolder
<1>13. ASSUME NEW j \in Jobs, AbandonedRead(j) PROVE RunInv' /\ OneHolder'
  BY <1>13, <1>t, <1>h DEF AbandonedRead, RunInv, OneHolder
<1>14. ASSUME NEW p \in Procs, ChildStep(p) PROVE RunInv' /\ OneHolder'
  <2>1. UNCHANGED <<phase, conn, runVars>>
    BY <1>14 DEF ChildStep, ChildWarm, ChildTakes, ChildAsks, ChildResumes, ChildAnswers,
                 ChildDies, TearFrame, Send
  <2>2. QED
    BY <2>1 DEF RunInv, OneHolder
<1>15. QED
  BY <1>1, <1>2, <1>3, <1>4, <1>5, <1>6, <1>7, <1>8, <1>9, <1>10, <1>11, <1>12, <1>13, <1>14
     DEF Next, RunStep, PumpStep

-----------------------------------------------------------------------------
(* The subprocesses.                                                       *)

\* Two threads read a pipe only if one of the reads belongs to a cancelled run.
LEMMA TwoReadersDisturb ==
    ASSUME TypeOK, RunInv, OneHolder, NEW p \in Procs, Cardinality(Reading(p)) > 1
    PROVE  Disturbed(p)
<1> SUFFICES ASSUME ~Disturbed(p) PROVE FALSE
  OBVIOUS
<1>1. \A j \in Reading(p) : run[j] \in Holding
  BY DEF Reading, RunInv, Disturbed, Holding, Booting
<1>2. \A j, k \in Reading(p) : j = k
  BY <1>1 DEF OneHolder, Reading
<1>3. CASE Reading(p) = {}
  BY <1>3, FS_EmptySet
<1>4. CASE Reading(p) # {}
  <2>1. PICK j \in Reading(p) : TRUE
    BY <1>4
  <2>2. Reading(p) = {j}
    BY <1>2, <2>1
  <2>3. Cardinality(Reading(p)) = 1
    BY <2>2, FS_Singleton
  <2>4. QED
    BY <2>3
<1>5. QED
  BY <1>3, <1>4

\* A pipe that is dead or disturbed is behind the holder who respawns.
LEMMA ProcStep ==
    TypeOK /\ RunInv /\ OneHolder /\ ProcInv /\ [Next]_vars => ProcInv'
<1> SUFFICES ASSUME TypeOK, RunInv, OneHolder, ProcInv, [Next]_vars PROVE ProcInv'
  OBVIOUS
<1> USE DEF runVars, breakerVars, procVars
<1>d. \A p \in Procs : Disturbed(p) => Disturbed(p)'
  BY DisturbedStays
<1>t. /\ proc \in [Procs -> {"unborn", "booting", "idle", "busy", "asking", "dead"}]
      /\ serving \in [Procs -> Jobs \cup {NoJob}]
      /\ down \in [Procs -> Seq(DownFrames)]
      /\ up \in [Procs -> Seq(UpFrames)]
      /\ conn \in Procs
  BY DEF TypeOK
<1>f. \A p \in Procs : down[p] # <<>> => Head(down[p]) \in DownFrames
  <2>1. \A p \in Procs : down[p] \in Seq(DownFrames)
    BY <1>t
  <2>2. QED
    BY <2>1, PipeTyped
<1>h. \A j \in Jobs : run[j] \in Holding => pipe[j] = conn /\ phase = "ready"
  BY DEF RunInv
\* A respawn when the current subprocess is dead or disturbed.
<1>r. ASSUME NEW j \in Jobs, NEW boot \in Booting, Respawn(j, boot), phase = "ready",
             proc[conn] = "dead" \/ Disturbed(conn),
             UNCHANGED <<phase, serving, down, up, torn>>
      PROVE  ProcInv'
  <2>1. CASE UNCHANGED <<conn, proc>>
    BY <1>d, <1>r, <2>1 DEF ProcInv, Alive
  <2>2. ASSUME NEW q \in Procs, proc[q] = "unborn", conn' = q,
               proc' = [proc EXCEPT ![q] = "booting"]
        PROVE  ProcInv'
    BY <1>d, <1>r, <1>t, <2>2 DEF ProcInv, Alive
  <2>3. QED
    BY <1>r, <2>1, <2>2, RespawnOutcomes
\* A step that leaves the subprocesses and the current one alone, up to a frame
\* sent to the current one while it is alive.
<1>u. ASSUME UNCHANGED <<phase, conn, proc, serving, torn>>,
             \A p \in Procs : proc[p] = "unborn" => up'[p] = up[p] /\ down'[p] = down[p]
      PROVE  ProcInv'
  BY <1>d, <1>u DEF ProcInv, Alive
<1>1. CASE Started
  <2>1. \A p \in Procs : proc[p] = "unborn" => up'[p] = up[p]
    BY <1>1, <1>t DEF Started, FrameReady, ProcInv
  <2>2. QED
    BY <1>1, <1>d, <2>1 DEF Started, ProcInv, Alive
<1>2. CASE Stop
  BY <1>2, <1>d, <1>t DEF Stop, ProcInv, Alive
<1>3. CASE CrashAges \/ UNCHANGED vars
  BY <1>3, <1>u DEF CrashAges, vars
<1>4. ASSUME NEW j \in Jobs, Call(j) \/ ReadStarts(j) \/ Cancel(j) PROVE ProcInv'
  BY <1>4, <1>u DEF Call, ReadStarts, Cancel
<1>5. ASSUME NEW j \in Jobs, Enter(j) PROVE ProcInv'
  <2>1. phase = "ready"
    BY <1>5 DEF Enter, RunInv
  <2>2. CASE SendJob(j, conn) /\ UNCHANGED <<conn, breakerVars, up>>
    <3>1. proc[conn] # "unborn"
      BY <1>t DEF ProcInv
    <3>2. QED
      BY <1>5, <1>u, <1>t, <2>2, <3>1 DEF Enter, SendJob
  <2>3. CASE proc[conn] = "dead" /\ Respawn(j, "booting") /\ UNCHANGED <<serving, down, up, torn>>
    BY <1>5, <1>r, <2>1, <2>3 DEF Enter, Booting
  <2>4. CASE End(j, "raised") /\ UNCHANGED <<conn, breakerVars, pipe, procVars>>
    BY <1>5, <1>u, <2>4 DEF Enter
  <2>5. QED
    BY <1>5, <2>2, <2>3, <2>4 DEF Enter
<1>6. ASSUME NEW j \in Jobs, ReceiveInit(j) PROVE ProcInv'
  <2>1. pipe[j] = conn /\ up[conn] # <<>>
    BY <1>6, <1>h DEF ReceiveInit, FrameReady, Holding
  <2>2. proc[conn] # "unborn"
    BY <1>t, <2>1 DEF ProcInv
  <2>3. QED
    BY <1>6, <1>u, <1>t, <2>1, <2>2 DEF ReceiveInit, SendJob
<1>7. ASSUME NEW j \in Jobs, Receive(j) PROVE ProcInv'
  <2>1. pipe[j] = conn /\ up[conn] # <<>>
    BY <1>7, <1>h DEF Receive, FrameReady, Holding
  <2>2. proc[conn] # "unborn"
    BY <1>t, <2>1 DEF ProcInv
  <2>3. QED
    BY <1>7, <1>u, <1>t, <2>1, <2>2 DEF Receive
<1>8. ASSUME NEW j \in Jobs, ReceiveEof(j) PROVE ProcInv'
  <2>1. run[j] \in Holding /\ pipe[j] = conn /\ phase = "ready" /\ proc[conn] = "dead"
    BY <1>8, <1>h DEF ReceiveEof, EndOfFile, Holding, Booting
  <2>2. CASE Respawn(j, "rebooting")
    BY <1>8, <1>r, <2>1, <2>2 DEF ReceiveEof, Booting
  <2>3. CASE UNCHANGED <<conn, breakerVars, pipe, proc>>
    BY <1>8, <1>u, <2>3 DEF ReceiveEof
  <2>4. QED
    BY <1>8, <2>2, <2>3 DEF ReceiveEof
<1>9. ASSUME NEW j \in Jobs, Reply(j) PROVE ProcInv'
  <2>1. pipe[j] = conn /\ phase = "ready"
    BY <1>9, <1>h DEF Reply, Holding
  <2>2. CASE proc[conn] = "dead"
    BY <1>9, <1>r, <2>1, <2>2 DEF Reply, Booting
  <2>3. CASE proc[conn] # "dead"
    <3>1. proc[conn] # "unborn"
      BY <1>t DEF ProcInv
    <3>2. QED
      BY <1>9, <1>u, <1>t, <2>1, <2>3, <3>1 DEF Reply
  <2>4. QED
    BY <2>2, <2>3
<1>10. ASSUME NEW j \in Jobs, TornRead(j) PROVE ProcInv'
  <2>1. CASE run[j] = "pumping" /\ Respawn(j, "rebooting")
    <3>1. pipe[j] = conn /\ phase = "ready"
      BY <1>h, <2>1 DEF Holding
    <3>2. Disturbed(conn)
      BY <1>10, <1>t, <3>1 DEF TornRead, ProcInv
    <3>3. QED
      BY <1>10, <1>r, <2>1, <3>1, <3>2 DEF TornRead, Booting
  <2>2. CASE UNCHANGED <<conn, breakerVars, pipe, proc>>
    BY <1>10, <1>u, <2>2 DEF TornRead
  <2>3. QED
    BY <1>10, <2>1, <2>2 DEF TornRead
<1>11. ASSUME NEW j \in Jobs, AbandonedRead(j) PROVE ProcInv'
  <2>1. \A p \in Procs : proc[p] = "unborn" => up'[p] = up[p]
    BY <1>11, <1>t DEF AbandonedRead, FrameReady, ProcInv
  <2>2. QED
    BY <1>11, <1>u, <2>1 DEF AbandonedRead
<1>12. ASSUME NEW p \in Procs, TearFrame(p) PROVE ProcInv'
  <2>1. Disturbed(p)
    BY <1>12, TwoReadersDisturb DEF TearFrame
  <2>2. QED
    BY <1>12, <1>d, <2>1 DEF TearFrame, ProcInv, Alive
\* A child's own steps: it was alive, or dies.
<1>c. ASSUME NEW p \in Procs, Alive(p), UNCHANGED <<phase, conn, torn>>,
             NEW to, proc' = [proc EXCEPT ![p] = to], to # "unborn",
             to \in {"busy", "asking"} => serving'[p] \in Jobs,
             \A q \in Procs \ {p} : /\ serving'[q] = serving[q]
                                    /\ up'[q] = up[q]
                                    /\ down'[q] = down[q]
      PROVE  ProcInv'
  BY <1>d, <1>t, <1>c DEF ProcInv, Alive
<1>13. ASSUME NEW p \in Procs, ChildWarm(p) \/ ChildAnswers(p) \/ ChildAsks(p) \/ ChildDies(p)
       PROVE  ProcInv'
  <2>1. Alive(p)
    BY <1>13 DEF ChildWarm, ChildAnswers, ChildAsks, ChildDies, Alive
  <2>2. proc[p] = "busy" => serving[p] \in Jobs
    BY DEF ProcInv
  <2>3. CASE ChildWarm(p)
    BY <1>c, <1>t, <2>1, <2>3 DEF ChildWarm, Send
  <2>4. CASE ChildAnswers(p)
    BY <1>c, <1>t, <2>1, <2>4 DEF ChildAnswers, Send
  <2>5. CASE ChildAsks(p)
    BY <1>c, <1>t, <2>1, <2>2, <2>5 DEF ChildAsks, Send
  <2>6. CASE ChildDies(p)
    BY <1>c, <1>t, <2>1, <2>6 DEF ChildDies
  <2>7. QED
    BY <1>13, <2>3, <2>4, <2>5, <2>6
<1>14. ASSUME NEW p \in Procs, ChildTakes(p) PROVE ProcInv'
  <2>1. Alive(p) /\ Head(down[p]).job \in Jobs
    BY <1>14, <1>f DEF ChildTakes, Alive, DownFrames
  <2>2. CASE Head(down[p]).kind = "run"
    BY <1>14, <1>c, <1>t, <2>1, <2>2 DEF ChildTakes
  <2>3. CASE Head(down[p]).kind # "run"
    BY <1>14, <1>d, <1>t, <2>1, <2>3 DEF ChildTakes, ProcInv, Alive
  <2>4. QED
    BY <2>2, <2>3
<1>15. ASSUME NEW p \in Procs, ChildResumes(p) PROVE ProcInv'
  <2>1. Alive(p) /\ serving[p] \in Jobs
    BY <1>15 DEF ChildResumes, Alive, ProcInv
  <2>2. CASE Head(down[p]).kind = "reply"
    BY <1>15, <1>c, <1>t, <2>1, <2>2 DEF ChildResumes
  <2>3. CASE Head(down[p]).kind # "reply"
    BY <1>15, <1>c, <1>t, <2>1, <2>3 DEF ChildResumes, Send
  <2>4. QED
    BY <2>2, <2>3
<1>16. QED
  BY <1>1, <1>2, <1>3, <1>4, <1>5, <1>6, <1>7, <1>8, <1>9, <1>10, <1>11, <1>12, <1>13, <1>14,
     <1>15 DEF Next, RunStep, PumpStep, ChildStep

-----------------------------------------------------------------------------
(* The protocol on the pipe.                                               *)

\* A pipe with one frame.
LEMMA OneFrame ==
    ASSUME NEW S, NEW x \in S
    PROVE  /\ <<x>> # <<>> /\ Head(<<x>>) = x /\ Tail(<<x>>) = <<>>
           /\ Append(<<>>, x) = <<x>>
  OBVIOUS

\* Whatever a child does next is what the protocol allows it to do.
LEMMA ChildKeepsProtocol ==
    ASSUME TypeOK, NEW p \in Procs, ChildStep(p), NEW q \in Procs
    PROVE  /\ Boots(q) => Boots(q)'
           /\ Rests(q) => Rests(q)'
           /\ \A j \in Jobs : /\ Works(q, j) => Works(q, j)'
                              /\ Asks(q, j) => Asks(q, j)'
<1>t. /\ proc \in [Procs -> {"unborn", "booting", "idle", "busy", "asking", "dead"}]
      /\ serving \in [Procs -> Jobs \cup {NoJob}]
      /\ down \in [Procs -> Seq(DownFrames)]
      /\ up \in [Procs -> Seq(UpFrames)]
  BY DEF TypeOK
<1>f. \A k \in {"run", "reply", "call", "result", "unreadable"}, j \in Jobs :
         /\ <<Frame(k, j)>> # <<>>
         /\ Head(<<Frame(k, j)>>) = Frame(k, j)
         /\ Tail(<<Frame(k, j)>>) = <<>>
         /\ Append(<<>>, Frame(k, j)) = <<Frame(k, j)>>
         /\ Frame(k, j).kind = k
         /\ Frame(k, j).job = j
  BY DEF Frame
<1>i. Append(<<>>, Init1) = <<Init1>>
  OBVIOUS
<1>n. ASSUME q # p \/ TearFrame(p)
      PROVE  proc'[q] = proc[q] /\ up'[q] = up[q] /\ down'[q] = down[q] /\ serving'[q] = serving[q]
  BY <1>t, <1>n DEF ChildStep, ChildWarm, ChildTakes, ChildAsks, ChildResumes, ChildAnswers,
                    ChildDies, TearFrame, Send
<1>1. CASE q # p \/ TearFrame(p)
  BY <1>1, <1>n DEF Boots, Rests, Works, Asks
<1>2. CASE q = p /\ ChildWarm(p)
  <2>1. /\ proc[q] = "booting" /\ proc'[q] = "idle"
        /\ up'[q] = Append(up[q], Init1) /\ down'[q] = down[q]
    BY <1>2, <1>t DEF ChildWarm, Send
  <2>2. QED
    BY <1>i, <2>1 DEF Boots, Rests, Works, Asks
<1>3. CASE q = p /\ ChildTakes(p)
  <2>1. /\ proc[q] = "idle" /\ down[q] # <<>> /\ up'[q] = up[q]
        /\ down'[q] = Tail(down[q])
        /\ Head(down[q]).kind = "run" =>
              proc'[q] = "busy" /\ serving'[q] = Head(down[q]).job
    BY <1>3, <1>t DEF ChildTakes
  <2>2. /\ Boots(q) => Boots(q)'
        /\ Rests(q) => Rests(q)'
        /\ \A j \in Jobs : Asks(q, j) => Asks(q, j)'
    BY <2>1 DEF Boots, Rests, Asks
  <2>3. ASSUME NEW j \in Jobs, Works(q, j) PROVE Works(q, j)'
    <3>1. up[q] = <<>> /\ down[q] = <<Frame("run", j)>>
      BY <2>1, <2>3 DEF Works
    <3>2. proc'[q] = "busy" /\ serving'[q] = j /\ up'[q] = <<>> /\ down'[q] = <<>>
      BY <1>f, <2>1, <3>1
    <3>3. QED
      BY <3>2 DEF Works
  <2>4. QED
    BY <2>2, <2>3
<1>4. CASE q = p /\ ChildAsks(p)
  <2>1. /\ proc[q] = "busy" /\ proc'[q] = "asking" /\ serving'[q] = serving[q]
        /\ up'[q] = Append(up[q], Frame("call", serving[q])) /\ down'[q] = down[q]
    BY <1>4, <1>t DEF ChildAsks, Send, Frame
  <2>2. /\ Boots(q) => Boots(q)'
        /\ Rests(q) => Rests(q)'
        /\ \A j \in Jobs : Asks(q, j) => Asks(q, j)'
    BY <2>1 DEF Boots, Rests, Asks
  <2>3. ASSUME NEW j \in Jobs, Works(q, j) PROVE Works(q, j)'
    <3>1. serving[q] = j /\ up[q] = <<>> /\ down[q] = <<>>
      BY <2>1, <2>3 DEF Works
    <3>2. /\ proc'[q] = "asking" /\ serving'[q] = j
          /\ up'[q] = <<Frame("call", j)>> /\ down'[q] = <<>>
      BY <1>f, <2>1, <3>1
    <3>3. QED
      BY <3>2 DEF Works
  <2>4. QED
    BY <2>2, <2>3
<1>5. CASE q = p /\ ChildResumes(p)
  <2>1. /\ proc[q] = "asking" /\ down[q] # <<>>
        /\ down'[q] = Tail(down[q]) /\ serving'[q] = serving[q]
        /\ Head(down[q]).kind = "reply" => proc'[q] = "busy" /\ up'[q] = up[q]
    BY <1>5, <1>t DEF ChildResumes
  <2>2. /\ Boots(q) => Boots(q)'
        /\ Rests(q) => Rests(q)'
        /\ \A j \in Jobs : Asks(q, j) => Asks(q, j)'
    BY <2>1 DEF Boots, Rests, Asks
  <2>3. ASSUME NEW j \in Jobs, Works(q, j) PROVE Works(q, j)'
    <3>1. serving[q] = j /\ up[q] = <<>> /\ down[q] = <<Frame("reply", j)>>
      BY <2>1, <2>3 DEF Works
    <3>2. proc'[q] = "busy" /\ serving'[q] = j /\ up'[q] = <<>> /\ down'[q] = <<>>
      BY <1>f, <2>1, <3>1
    <3>3. QED
      BY <3>2 DEF Works
  <2>4. QED
    BY <2>2, <2>3
<1>6. CASE q = p /\ ChildAnswers(p)
  <2>1. PICK k \in Answers : Send(p, [kind |-> k, job |-> serving[p]], "idle")
    BY <1>6 DEF ChildAnswers
  <2>2. /\ proc[q] = "busy" /\ proc'[q] = "idle"
        /\ up'[q] = Append(up[q], Frame(k, serving[q])) /\ down'[q] = down[q]
    BY <1>6, <1>t, <2>1 DEF ChildAnswers, Send, Frame
  <2>3. /\ Boots(q) => Boots(q)'
        /\ Rests(q) => Rests(q)'
        /\ \A j \in Jobs : Asks(q, j) => Asks(q, j)'
    BY <2>2 DEF Boots, Rests, Asks
  <2>4. ASSUME NEW j \in Jobs, Works(q, j) PROVE Works(q, j)'
    <3>1. serving[q] = j /\ up[q] = <<>> /\ down[q] = <<>>
      BY <2>2, <2>4 DEF Works
    <3>2. proc'[q] = "idle" /\ up'[q] = <<Frame(k, j)>> /\ down'[q] = <<>>
      BY <1>f, <2>2, <3>1 DEF Answers
    <3>3. QED
      BY <3>2 DEF Works, Answers
  <2>5. QED
    BY <2>3, <2>4
<1>7. CASE q = p /\ ChildDies(p)
  <2>1. /\ proc[q] # "dead" /\ proc'[q] = "dead" /\ up'[q] = up[q]
    BY <1>7, <1>t DEF ChildDies
  <2>2. QED
    BY <2>1 DEF Boots, Rests, Works, Asks
<1>8. QED
  BY <1>1, <1>2, <1>3, <1>4, <1>5, <1>6, <1>7 DEF ChildStep

\* The lock's holder, the phase and the pipe move together.
LEMMA ProtocolStep ==
    TypeOK /\ RunInv /\ OneHolder /\ ProcInv /\ Protocol /\ [Next]_vars => Protocol'
<1> SUFFICES ASSUME TypeOK, RunInv, OneHolder, ProcInv, Protocol, [Next]_vars PROVE Protocol'
  OBVIOUS
<1> USE DEF runVars, breakerVars, procVars
<1>d. \A p \in Procs : Disturbed(p) => Disturbed(p)'
  BY DisturbedStays
<1>t. /\ run \in [Jobs -> RunPhases] /\ pipe \in [Jobs -> Procs \cup {0}]
      /\ proc \in [Procs -> {"unborn", "booting", "idle", "busy", "asking", "dead"}]
      /\ serving \in [Procs -> Jobs \cup {NoJob}]
      /\ down \in [Procs -> Seq(DownFrames)]
      /\ up \in [Procs -> Seq(UpFrames)]
      /\ conn \in Procs
  BY DEF TypeOK
<1>f. \A k \in {"run", "reply", "call", "result", "unreadable"}, j \in Jobs :
         /\ <<Frame(k, j)>> # <<>>
         /\ Head(<<Frame(k, j)>>) = Frame(k, j)
         /\ Tail(<<Frame(k, j)>>) = <<>>
         /\ Append(<<>>, Frame(k, j)) = <<Frame(k, j)>>
         /\ Frame(k, j).kind = k
  BY DEF Frame
<1>i. <<Init1>> # <<>> /\ Tail(<<Init1>>) = <<>>
  OBVIOUS
<1>h. Holding = {"booting", "rebooting", "pumping", "replying"} /\ Booting = {"booting", "rebooting"}
  BY DEF Holding, Booting
<1>o. \A j \in Jobs : run[j] \in Holding => pipe[j] = conn /\ phase = "ready"
  BY DEF RunInv
<1>s. \A j \in Jobs : run[j] \in Holding => \A k \in Jobs \ {j} : run[k] \notin Holding
  BY DEF OneHolder
\* The run inside the lock, or entering it, leaves run() with the pipe at rest.
<1>e. ASSUME NEW j \in Jobs, \A k \in Jobs \ {j} : run[k] \notin Holding,
             NEW how \in {"retried", "raised", "returned"}, End(j, how),
             ~Disturbed(conn) => Rests(conn)', conn' = conn, phase' = "ready"
      PROVE  Protocol'
  <2>1. LockFree' /\ \A k \in Jobs : run'[k] \notin Holding
    BY <1>t, <1>h, <1>e DEF End, LockFree
  <2>2. ~Disturbed(conn)' => ~Disturbed(conn)
    BY <1>t, <1>d, <1>e DEF Disturbed
  <2>3. phase' # "starting"
    BY <1>e
  <2>4. ~Disturbed(conn)' => Rests(conn)'
    BY <1>e, <2>2
  <2>5. QED
    BY <1>h, <2>1, <2>3, <2>4 DEF Protocol
\* It sends its job.
<1>j. ASSUME NEW j \in Jobs, \A k \in Jobs \ {j} : run[k] \notin Holding, SendJob(j, conn),
             ~Disturbed(conn) => /\ (proc[conn] = "idle" /\ down[conn] = <<>>) \/ proc[conn] = "dead"
                                 /\ up'[conn] = <<>>,
             conn' = conn, phase' = phase, phase = "ready"
      PROVE  Protocol'
  <2>1. /\ \A k \in Jobs \ {j} : run'[k] \notin Holding
        /\ run'[j] = "pumping" /\ ~LockFree'
    BY <1>t, <1>h, <1>j DEF SendJob, LockFree
  <2>2. ~Disturbed(conn) => Works(conn, j)'
    <3>1. /\ down'[conn] = Append(down[conn], Frame("run", j))
          /\ proc' = proc /\ conn' = conn
      BY <1>t, <1>j DEF SendJob, Frame
    <3>2. QED
      BY <1>f, <1>j, <3>1 DEF Works
  <2>3. QED
    BY <1>t, <1>d, <1>h, <1>j, <2>1, <2>2 DEF Protocol
\* It respawns a subprocess that is dead.
<1>r. ASSUME NEW j \in Jobs, \A k \in Jobs \ {j} : run[k] \notin Holding,
             NEW boot \in Booting, Respawn(j, boot),
             ~Disturbed(conn) => proc[conn] = "dead" /\ up[conn] = <<>>,
             phase = "ready", UNCHANGED <<phase, serving, down, up, torn>>
      PROVE  Protocol'
  <2>1. CASE /\ \/ End(j, "retried")
                \/ End(j, "raised")
             /\ UNCHANGED <<conn, pipe, proc>>
    BY <1>e, <1>r, <2>1 DEF Rests
  <2>2. ASSUME NEW q \in Procs, proc[q] = "unborn", conn' = q,
               proc' = [proc EXCEPT ![q] = "booting"],
               run' = [run EXCEPT ![j] = boot]
        PROVE  Protocol'
    <3>1. Boots(q)'
      BY <1>r, <1>t, <2>2 DEF Boots, ProcInv
    <3>2. /\ \A k \in Jobs \ {j} : run'[k] \notin Holding
          /\ run'[j] = boot /\ ~LockFree'
      BY <1>t, <1>h, <1>r, <2>2 DEF LockFree
    <3>3. Boots(conn)'
      BY <2>2, <3>1 DEF Boots
    <3>4. QED
      BY <1>r, <1>h, <3>2, <3>3 DEF Protocol
  <2>3. QED
    BY <1>r, <2>1, <2>2, RespawnOutcomes
\* Nothing the protocol speaks of changes.
<1>u. ASSUME UNCHANGED <<phase, conn, proc, serving, down>>, up'[conn] = up[conn],
             \A j \in Jobs : /\ run'[j] \in Holding => run'[j] = run[j]
                             /\ run[j] \in Holding => run'[j] = run[j]
      PROVE  Protocol'
  <2>1. LockFree' <=> LockFree
    BY <1>u DEF LockFree
  <2>2. ~Disturbed(conn)' => ~Disturbed(conn)
    BY <1>t, <1>d, <1>u DEF Disturbed
  <2>3. /\ Boots(conn) => Boots(conn)'
        /\ Rests(conn) => Rests(conn)'
        /\ \A j \in Jobs : (Works(conn, j) => Works(conn, j)') /\ (Asks(conn, j) => Asks(conn, j)')
    BY <1>u DEF Boots, Rests, Works, Asks
  <2>4. QED
    BY <1>u, <1>h, <2>1, <2>2, <2>3 DEF Protocol
<1>1. CASE Started
  <2>1. /\ ~Disturbed(conn) => Boots(conn)
        /\ \A j \in Jobs : run[j] = "none"
    BY <1>1 DEF Started, Protocol, RunInv
  <2>2. ~Disturbed(conn) => Rests(conn)'
    BY <1>1, <1>t, <1>i, <2>1 DEF Started, FrameReady, EndOfFile, Boots, Rests
  <2>3. QED
    BY <1>1, <1>d, <1>t, <1>h, <2>1, <2>2 DEF Started, Protocol, Rests
<1>2. CASE Stop
  <2>1. ~Disturbed(conn) => Rests(conn)
    BY <1>2, <1>h DEF Stop, Protocol, LockFree
  <2>2. ~Disturbed(conn) => Rests(conn)'
    BY <1>2, <1>t, <2>1 DEF Stop, Rests
  <2>3. QED
    BY <1>2, <1>d, <1>t, <1>h, <2>2 DEF Stop, Protocol, Rests
<1>3. CASE CrashAges \/ UNCHANGED vars
  BY <1>3, <1>u DEF CrashAges, vars
<1>4. ASSUME NEW j \in Jobs, Call(j) \/ ReadStarts(j) PROVE Protocol'
  BY <1>4, <1>u, <1>t, <1>h DEF Call, ReadStarts
<1>5. ASSUME NEW j \in Jobs, Enter(j) PROVE Protocol'
  <2>1. /\ phase = "ready" /\ \A k \in Jobs : run[k] \notin Holding
        /\ ~Disturbed(conn) => Rests(conn)
    BY <1>5 DEF Enter, RunInv, Protocol, LockFree
  <2>2. CASE proc[conn] # "dead" /\ SendJob(j, conn) /\ UNCHANGED <<conn, breakerVars, up>>
    BY <1>5, <1>j, <2>1, <2>2 DEF Enter, Rests
  <2>3. CASE proc[conn] = "dead" /\ Respawn(j, "booting") /\ UNCHANGED <<serving, down, up, torn>>
    BY <1>5, <1>r, <1>h, <2>1, <2>3 DEF Enter, Rests
  <2>4. CASE End(j, "raised") /\ UNCHANGED <<conn, breakerVars, pipe, procVars>>
    BY <1>5, <1>e, <2>1, <2>4 DEF Enter, Rests
  <2>5. QED
    BY <1>5, <2>2, <2>3, <2>4 DEF Enter
<1>6. ASSUME NEW j \in Jobs, ReceiveInit(j) PROVE Protocol'
  <2>1. /\ pipe[j] = conn /\ phase = "ready" /\ \A k \in Jobs \ {j} : run[k] \notin Holding
        /\ ~Disturbed(conn) => Boots(conn)
    BY <1>6, <1>h, <1>o, <1>s DEF ReceiveInit, Protocol
  <2>2. up'[conn] = Tail(up[conn]) /\ up[conn] # <<>>
    BY <1>6, <1>t, <2>1 DEF ReceiveInit, FrameReady
  <2>3. ~Disturbed(conn) => /\ up'[conn] = <<>>
                            /\ (proc[conn] = "idle" /\ down[conn] = <<>>) \/ proc[conn] = "dead"
    BY <1>i, <2>1, <2>2 DEF Boots
  <2>4. CASE SendJob(j, pipe[j])
    BY <1>6, <1>j, <2>1, <2>3, <2>4 DEF ReceiveInit
  <2>5. CASE End(j, "retried") /\ UNCHANGED <<pipe, proc, serving, down, torn>>
    <3>1. ~Disturbed(conn) => Rests(conn)'
      BY <1>6, <2>3, <2>5 DEF ReceiveInit, Rests
    <3>2. QED
      BY <1>6, <1>e, <2>1, <2>5, <3>1 DEF ReceiveInit
  <2>6. QED
    BY <1>6, <2>4, <2>5 DEF ReceiveInit
<1>7. ASSUME NEW j \in Jobs, Receive(j) PROVE Protocol'
  <2>1. /\ pipe[j] = conn /\ phase = "ready" /\ \A k \in Jobs \ {j} : run[k] \notin Holding
        /\ ~Disturbed(conn) => Works(conn, j)
    BY <1>7, <1>h, <1>o, <1>s DEF Receive, Protocol
  <2>2. /\ up'[conn] = Tail(up[conn]) /\ up[conn] # <<>>
        /\ UNCHANGED <<phase, conn, proc, serving, down>>
    BY <1>7, <1>t, <2>1 DEF Receive, FrameReady
  <2>3. CASE ReceiveCall(j)
    <3>1. ~Disturbed(conn) => Asks(conn, j)'
      <4>1. Head(up[conn]).kind = "call"
        BY <2>1, <2>3 DEF ReceiveCall
      <4>2. ~Disturbed(conn) => /\ up'[conn] = <<>>
                                /\ \/ proc[conn] = "asking" /\ serving[conn] = j
                                      /\ down[conn] = <<>>
                                   \/ proc[conn] = "dead"
        BY ZenonT(30), <1>f, <2>1, <2>2, <4>1 DEF Works
      <4>3. QED
        BY <2>2, <4>2 DEF Asks
    <3>2. /\ \A k \in Jobs \ {j} : run'[k] \notin Holding
          /\ run'[j] = "replying" /\ ~LockFree'
      BY <1>t, <1>h, <2>1, <2>3 DEF ReceiveCall, LockFree
    <3>3. QED
      BY <1>d, <1>t, <1>h, <2>1, <2>2, <3>1, <3>2 DEF Protocol, Asks
  <2>4. ASSUME Head(up[conn]).kind # "call" PROVE ~Disturbed(conn) => Rests(conn)'
    <3>1. ~Disturbed(conn) => /\ up'[conn] = <<>>
                              /\ (proc[conn] = "idle" /\ down[conn] = <<>>) \/ proc[conn] = "dead"
      <4>1. up[conn] # <<Frame("call", j)>>
        BY <1>f, <2>4
      <4>2. ~Disturbed(conn) =>
               /\ up[conn] \in {<<Frame("result", j)>>, <<Frame("unreadable", j)>>}
               /\ (proc[conn] = "idle" /\ down[conn] = <<>>) \/ proc[conn] = "dead"
        BY <2>1, <2>2, <4>1 DEF Works
      <4>3. QED
        BY <1>f, <2>2, <4>2
    <3>2. QED
      BY <2>2, <3>1 DEF Rests
  <2>5. CASE ReceiveDone(j)
    BY <1>e, <2>1, <2>2, <2>4, <2>5 DEF ReceiveDone
  <2>6. CASE ReceiveUnreadable(j)
    BY <1>e, <2>1, <2>2, <2>4, <2>6 DEF ReceiveUnreadable
  <2>7. QED
    BY <1>7, <2>3, <2>5, <2>6 DEF Receive
<1>8. ASSUME NEW j \in Jobs, ReceiveEof(j) PROVE Protocol'
  <2>1. /\ pipe[j] = conn /\ phase = "ready" /\ \A k \in Jobs \ {j} : run[k] \notin Holding
        /\ proc[conn] = "dead" /\ up[conn] = <<>>
    BY <1>8, <1>h, <1>o, <1>s DEF ReceiveEof, EndOfFile
  <2>2. CASE Respawn(j, "rebooting")
    BY <1>8, <1>r, <1>h, <2>1, <2>2 DEF ReceiveEof
  <2>3. CASE End(j, "raised") /\ UNCHANGED <<conn, breakerVars, pipe, proc>>
    BY <1>8, <1>e, <2>1, <2>3 DEF ReceiveEof, Rests
  <2>4. QED
    BY <1>8, <2>2, <2>3 DEF ReceiveEof
<1>9. ASSUME NEW j \in Jobs, Reply(j) PROVE Protocol'
  <2>1. /\ pipe[j] = conn /\ phase = "ready" /\ \A k \in Jobs \ {j} : run[k] \notin Holding
        /\ ~Disturbed(conn) => Asks(conn, j)
    BY <1>9, <1>h, <1>o, <1>s DEF Reply, Protocol
  <2>2. CASE proc[conn] = "dead"
    BY <1>9, <1>r, <1>h, <2>1, <2>2 DEF Reply, Asks
  <2>3. CASE proc[conn] # "dead"
    <3>1. /\ down'[conn] = Append(down[conn], Frame("reply", j))
          /\ up'[conn] = up[conn] /\ UNCHANGED <<phase, conn, proc, serving>>
      BY <1>9, <1>t, <2>1, <2>3 DEF Reply, Frame
    <3>2. ~Disturbed(conn) => Works(conn, j)'
      BY <1>f, <2>1, <2>3, <3>1 DEF Works, Asks
    <3>3. /\ \A k \in Jobs \ {j} : run'[k] \notin Holding
          /\ run'[j] = "pumping" /\ ~LockFree'
      BY <1>9, <1>t, <1>h, <2>1, <2>3 DEF Reply, LockFree
    <3>4. QED
      BY <1>d, <1>t, <1>h, <2>1, <3>1, <3>2, <3>3 DEF Protocol
  <2>4. QED
    BY <2>2, <2>3
<1>10. ASSUME NEW j \in Jobs, TornRead(j) PROVE Protocol'
  <2>1. ASSUME run[j] = "pumping"
        PROVE  /\ phase = "ready" /\ \A k \in Jobs \ {j} : run[k] \notin Holding
               /\ Disturbed(conn)
    BY <1>10, <1>h, <1>o, <1>s, <1>t, <2>1 DEF TornRead, ProcInv
  <2>2. CASE run[j] = "pumping" /\ Respawn(j, "rebooting")
    BY <1>10, <1>r, <1>h, <2>1, <2>2 DEF TornRead
  <2>3. CASE run[j] = "pumping" /\ End(j, "raised") /\ UNCHANGED <<conn, breakerVars, pipe, proc>>
    BY <1>10, <1>e, <2>1, <2>3 DEF TornRead
  <2>4. CASE /\ run[j] = "abandoned"
             /\ UNCHANGED <<conn, breakerVars, run, pipe, proc>>
    BY <1>10, <1>u, <2>4 DEF TornRead
  <2>5. QED
    BY <1>10, <2>2, <2>3, <2>4 DEF TornRead
<1>11. ASSUME NEW j \in Jobs, Cancel(j) PROVE Protocol'
  <2>1. CASE run[j] = "queued" /\ run' = [run EXCEPT ![j] = "cancelled"]
    BY <1>11, <1>u, <1>t, <1>h, <2>1 DEF Cancel
  <2>2. CASE run[j] \in Holding /\ run' = [run EXCEPT ![j] = "abandoned"]
    <3>1. Disturbed(conn)'
      BY <1>11, <1>t, <1>o, <2>2 DEF Cancel, Disturbed
    <3>2. QED
      BY <3>1 DEF Protocol
  <2>3. QED
    BY <1>11, <2>1, <2>2 DEF Cancel
<1>12. ASSUME NEW j \in Jobs, AbandonedRead(j) PROVE Protocol'
  <2>1. CASE pipe[j] = conn
    <3>1. Disturbed(conn)'
      BY <1>12, <2>1, <1>d, <1>t DEF AbandonedRead, Disturbed
    <3>2. QED
      BY <3>1 DEF Protocol
  <2>2. CASE pipe[j] # conn
    BY <1>12, <1>u, <1>t, <2>2 DEF AbandonedRead
  <2>3. QED
    BY <2>1, <2>2
<1>13. ASSUME NEW p \in Procs, ChildStep(p) PROVE Protocol'
  <2>1. UNCHANGED <<phase, conn, runVars>>
    BY <1>13 DEF ChildStep, ChildWarm, ChildTakes, ChildAsks, ChildResumes, ChildAnswers,
                 ChildDies, TearFrame, Send
  <2>2. /\ Boots(conn) => Boots(conn)'
        /\ Rests(conn) => Rests(conn)'
        /\ \A j \in Jobs : /\ Works(conn, j) => Works(conn, j)'
                           /\ Asks(conn, j) => Asks(conn, j)'
    <3>1. \A q \in Procs : /\ Boots(q) => Boots(q)'
                           /\ Rests(q) => Rests(q)'
                           /\ \A j \in Jobs : /\ Works(q, j) => Works(q, j)'
                                              /\ Asks(q, j) => Asks(q, j)'
      BY <1>13, ChildKeepsProtocol
    <3>2. QED
      BY <1>t, <2>1, <3>1 DEF Boots, Rests, Works, Asks
  <2>3. LockFree' <=> LockFree
    BY <2>1 DEF LockFree
  <2>4. ~Disturbed(conn)' => ~Disturbed(conn)
    BY <2>1 DEF Disturbed
  <2>5. QED
    BY <2>1, <2>2, <2>3, <2>4 DEF Protocol
<1>14. QED
  BY <1>1, <1>2, <1>3, <1>4, <1>5, <1>6, <1>7, <1>8, <1>9, <1>10, <1>11, <1>12, <1>13
     DEF Next, RunStep, PumpStep

-----------------------------------------------------------------------------
(* Answers and the breaker.                                                *)

\* Only a pump brings an answer home, and a run that has one reads no other pipe.
LEMMA AnswerSource ==
    ASSUME TypeOK, RunInv, [Next]_vars, NEW i \in Jobs
    PROVE  \/ got'[i] = got[i] /\ (got[i] # Nothing => pipe'[i] = pipe[i])
           \/ Receive(i) /\ ReceiveDone(i)
<1> DEFINE Same == got'[i] = got[i] /\ (got[i] # Nothing => pipe'[i] = pipe[i])
<1> USE DEF runVars
<1>t. /\ pipe \in [Jobs -> Procs \cup {0}]
      /\ got \in [Jobs -> UpFrames \cup {Nothing}]
  BY DEF TypeOK
<1>g. got[i] # Nothing => run[i] = "returned"
  BY DEF RunInv
<1>r. ASSUME NEW j \in Jobs, NEW boot \in Booting, Respawn(j, boot), run[j] # "returned", got' = got
      PROVE  Same
  BY <1>r, <1>t, <1>g, RespawnOutcomes
<1>1. CASE Started \/ Stop \/ CrashAges \/ UNCHANGED vars
  BY <1>1 DEF Started, Stop, CrashAges, vars
<1>2. ASSUME NEW j \in Jobs, Call(j) \/ ReadStarts(j) \/ Cancel(j) \/ AbandonedRead(j) PROVE Same
  BY <1>2 DEF Call, ReadStarts, Cancel, AbandonedRead
<1>3. ASSUME NEW j \in Jobs, Enter(j) PROVE Same
  BY <1>3, <1>t, <1>g, <1>r DEF Enter, SendJob, Booting
<1>4. ASSUME NEW j \in Jobs, ReceiveInit(j) PROVE Same
  BY <1>4, <1>t, <1>g DEF ReceiveInit, SendJob, Booting
<1>5. ASSUME NEW j \in Jobs, Receive(j) PROVE Same \/ (Receive(i) /\ ReceiveDone(i))
  <2>1. CASE ReceiveCall(j) \/ ReceiveUnreadable(j)
    BY <1>5, <2>1 DEF Receive, ReceiveCall, ReceiveUnreadable
  <2>2. CASE ReceiveDone(j) /\ i = j
    BY <1>5, <2>2
  <2>3. CASE ReceiveDone(j) /\ i # j
    BY <1>5, <1>t, <2>3 DEF Receive, ReceiveDone
  <2>4. QED
    BY <1>5, <2>1, <2>2, <2>3 DEF Receive
<1>6. ASSUME NEW j \in Jobs, ReceiveEof(j) \/ Reply(j) \/ TornRead(j) PROVE Same
  BY <1>6, <1>t, <1>g, <1>r DEF ReceiveEof, Reply, TornRead, Booting
<1>7. ASSUME NEW p \in Procs, ChildStep(p) PROVE Same
  BY <1>7 DEF ChildStep, ChildWarm, ChildTakes, ChildAsks, ChildResumes, ChildAnswers, ChildDies,
              TearFrame, Send
<1>8. QED
  BY <1>1, <1>2, <1>3, <1>4, <1>5, <1>6, <1>7 DEF Next, RunStep, PumpStep

\* The pipe of an undisturbed subprocess holds no answer but the holder's.
LEMMA AnswerStep ==
    TypeOK /\ RunInv /\ Protocol /\ OwnAnswerUndisturbed /\ [Next]_vars => OwnAnswerUndisturbed'
<1> SUFFICES ASSUME TypeOK, RunInv, Protocol, OwnAnswerUndisturbed, [Next]_vars,
                    NEW i \in Jobs, pipe'[i] # 0, ~Disturbed(pipe[i])'
             PROVE  got'[i] = Nothing \/ got'[i].job = i
  BY DEF OwnAnswerUndisturbed, Owned
<1>t. /\ pipe \in [Jobs -> Procs \cup {0}]
      /\ got \in [Jobs -> UpFrames \cup {Nothing}]
  BY DEF TypeOK
<1>q. run \in [Jobs -> RunPhases]
  BY DEF TypeOK
<1>d. \A p \in Procs : Disturbed(p) => Disturbed(p)'
  BY DisturbedStays
<1>1. CASE got'[i] = got[i] /\ (got[i] # Nothing => pipe'[i] = pipe[i])
  <2>1. CASE got[i] # Nothing
    <3>1. pipe[i] # 0 /\ ~Disturbed(pipe[i])
      BY <1>t, <1>d, <1>1, <2>1 DEF Disturbed
    <3>2. QED
      BY <1>1, <3>1 DEF OwnAnswerUndisturbed, Owned
  <2>2. QED
    BY <1>1, <2>1
<1>2. CASE Receive(i) /\ ReceiveDone(i)
  <2>1. /\ run[i] = "pumping" /\ pipe[i] = conn /\ pipe' = pipe /\ up[conn] # <<>>
        /\ Head(up[conn]).kind \in {"init", "result"}
        /\ got'[i] = Head(up[conn])
    BY <1>2, <1>t DEF Receive, ReceiveDone, RunInv, FrameReady, Holding
  <2>2. ~Disturbed(conn)
    <3>1. run' = [run EXCEPT ![i] = "returned"]
      BY <1>2 DEF Receive, ReceiveDone, End
    <3>2. \A j \in Jobs : ~(run'[j] = "abandoned" /\ pipe'[j] = pipe'[i])
      BY DEF Disturbed
    <3>3. \A j \in Jobs : j # i => run'[j] = run[j]
      BY <1>q, <3>1
    <3>4. QED
      BY <2>1, <3>2, <3>3 DEF Disturbed
  <2>3. Works(conn, i)
    BY <2>1, <2>2 DEF Protocol
  <2>4. \A k \in {"result", "call", "unreadable"} :
           /\ Head(<<Frame(k, i)>>) = Frame(k, i)
           /\ Frame(k, i).kind = k
           /\ Frame(k, i).job = i
    BY DEF Frame
  <2>5. up[conn] \in {<<Frame("call", i)>>, <<Frame("result", i)>>, <<Frame("unreadable", i)>>}
    BY <2>1, <2>3 DEF Works
  <2>6. QED
    BY <2>1, <2>4, <2>5
<1>3. QED
  BY <1>1, <1>2, AnswerSource

\* The breaker opens when the last subprocess it will see is dead and the lock goes.
LEMMA BreakerStep ==
    TypeOK /\ RunInv /\ OneHolder /\ ProcInv /\ Breaker /\ [Next]_vars => Breaker'
<1> SUFFICES ASSUME TypeOK, RunInv, OneHolder, ProcInv, Breaker, [Next]_vars PROVE Breaker'
  OBVIOUS
<1> USE DEF runVars, breakerVars, procVars
<1>d. \A p \in Procs : Disturbed(p) => Disturbed(p)'
  BY DisturbedStays
<1>t. /\ run \in [Jobs -> RunPhases] /\ pipe \in [Jobs -> Procs \cup {0}]
      /\ proc \in [Procs -> {"unborn", "booting", "idle", "busy", "asking", "dead"}]
      /\ conn \in Procs /\ recent \in 0..Threshold
  BY DEF TypeOK
<1>h. Holding = {"booting", "rebooting", "pumping", "replying"} /\ Booting = {"booting", "rebooting"}
  BY DEF Holding, Booting
<1>s. \A j \in Jobs : run[j] \in Holding => \A k \in Jobs \ {j} : run[k] \notin Holding
  BY DEF OneHolder
<1>o. \A j \in Jobs : run[j] \in Holding => pipe[j] = conn
  BY DEF RunInv
<1>k. ASSUME recent = Threshold, \A p \in Procs : ~Disturbed(p)'
      PROVE  LockFree /\ proc[conn] = "dead"
  BY <1>k, <1>d DEF Breaker, CircuitHolds
\* Nothing changes but what a free lock and a dead subprocess allow.
<1>u. ASSUME UNCHANGED <<recent, circuitOpen>>,
             (LockFree /\ proc[conn] = "dead") => (LockFree' /\ conn' = conn /\ proc'[conn] = "dead")
      PROVE  Breaker'
  BY <1>u, <1>k DEF Breaker, CircuitHolds
<1>r. ASSUME NEW j \in Jobs, \A k \in Jobs \ {j} : run[k] \notin Holding,
             NEW boot \in Booting, Respawn(j, boot), proc[conn] = "dead" \/ Disturbed(conn)
      PROVE  Breaker'
  <2>1. CASE /\ End(j, "retried")
             /\ recent' = Threshold /\ circuitOpen' = TRUE
             /\ UNCHANGED <<conn, pipe, proc>>
    <3>1. LockFree'
      BY <1>t, <1>h, <1>r, <2>1 DEF End, LockFree
    <3>2. (\A p \in Procs : ~Disturbed(p)') => proc'[conn'] = "dead"
      BY <1>t, <1>d, <1>r, <2>1
    <3>3. QED
      BY <2>1, <3>1, <3>2 DEF Breaker, CircuitHolds
  <2>2. CASE recent' # Threshold
    BY <2>2 DEF Breaker, CircuitHolds
  <2>3. QED
    BY <1>r, <2>1, <2>2, RespawnOutcomes
<1>1. CASE Started \/ UNCHANGED vars
  BY <1>1, <1>u DEF Started, vars, LockFree
<1>2. CASE Stop
  BY <1>2, <1>u, <1>t DEF Stop, LockFree
<1>3. CASE CrashAges
  <2>1. recent' # Threshold
    BY <1>3, <1>t, GpuAssumption DEF CrashAges
  <2>2. QED
    BY <2>1 DEF Breaker, CircuitHolds
<1>4. ASSUME NEW j \in Jobs, Call(j) \/ ReadStarts(j) \/ AbandonedRead(j) PROVE Breaker'
  BY <1>4, <1>u, <1>t, <1>h DEF Call, ReadStarts, AbandonedRead, LockFree
<1>5. ASSUME NEW j \in Jobs, Cancel(j) PROVE Breaker'
  BY <1>5, <1>u, <1>t, <1>h DEF Cancel, LockFree
<1>6. ASSUME NEW j \in Jobs, Enter(j) PROVE Breaker'
  <2>1. \A k \in Jobs : run[k] \notin Holding
    BY <1>6 DEF Enter, LockFree
  <2>2. CASE proc[conn] # "dead" /\ UNCHANGED <<conn, breakerVars, up>>
    BY <1>u, <2>2
  <2>3. CASE proc[conn] = "dead" /\ Respawn(j, "booting")
    BY <1>r, <1>h, <2>1, <2>3
  <2>4. CASE End(j, "raised") /\ UNCHANGED <<conn, breakerVars, pipe, procVars>>
    <3>1. LockFree'
      BY <1>t, <1>h, <2>1, <2>4 DEF End, LockFree
    <3>2. QED
      BY <1>u, <2>4, <3>1
  <2>5. QED
    BY <1>6, <2>2, <2>3, <2>4 DEF Enter
<1>7. ASSUME NEW j \in Jobs, ReceiveInit(j) \/ Receive(j) PROVE Breaker'
  <2>1. ~LockFree
    BY <1>7, <1>h DEF ReceiveInit, Receive, LockFree
  <2>2. QED
    BY <1>7, <1>u, <2>1 DEF ReceiveInit, Receive
<1>8. ASSUME NEW j \in Jobs, ReceiveEof(j) PROVE Breaker'
  <2>1. /\ run[j] \in Holding /\ pipe[j] = conn /\ proc[conn] = "dead" /\ ~LockFree
        /\ \A k \in Jobs \ {j} : run[k] \notin Holding
    BY <1>8, <1>h, <1>o, <1>s DEF ReceiveEof, EndOfFile, LockFree
  <2>2. QED
    BY <1>8, <1>r, <1>u, <1>h, <2>1 DEF ReceiveEof
<1>9. ASSUME NEW j \in Jobs, Reply(j) PROVE Breaker'
  <2>1. /\ run[j] \in Holding /\ pipe[j] = conn /\ ~LockFree
        /\ \A k \in Jobs \ {j} : run[k] \notin Holding
    BY <1>9, <1>h, <1>o, <1>s DEF Reply, LockFree
  <2>2. QED
    BY <1>9, <1>r, <1>u, <1>h, <2>1 DEF Reply
<1>10. ASSUME NEW j \in Jobs, TornRead(j) PROVE Breaker'
  <2>1. ASSUME run[j] = "pumping"
        PROVE  /\ Disturbed(conn) /\ ~LockFree
               /\ \A k \in Jobs \ {j} : run[k] \notin Holding
    BY <1>10, <1>t, <1>h, <1>o, <1>s, <2>1 DEF TornRead, ProcInv, LockFree
  <2>2. CASE run[j] = "pumping" /\ Respawn(j, "rebooting")
    BY <1>r, <1>h, <2>1, <2>2
  <2>3. CASE run[j] = "pumping" /\ UNCHANGED <<conn, breakerVars, pipe, proc>>
    BY <1>u, <2>1, <2>3
  <2>4. CASE run[j] = "abandoned" /\ UNCHANGED <<conn, breakerVars, run, pipe, proc>>
    BY <1>u, <2>4 DEF LockFree
  <2>5. QED
    BY <1>10, <2>2, <2>3, <2>4 DEF TornRead
<1>11. ASSUME NEW p \in Procs, ChildStep(p) PROVE Breaker'
  <2>1. /\ UNCHANGED <<conn, breakerVars, run>>
        /\ proc[conn] = "dead" => proc'[conn] = "dead"
    BY <1>11, <1>t DEF ChildStep, ChildWarm, ChildTakes, ChildAsks, ChildResumes, ChildAnswers,
                 ChildDies, TearFrame, Send
  <2>2. QED
    BY <1>u, <2>1 DEF LockFree
<1>12. QED
  BY <1>1, <1>2, <1>3, <1>4, <1>5, <1>6, <1>7, <1>8, <1>9, <1>10, <1>11
     DEF Next, RunStep, PumpStep

-----------------------------------------------------------------------------
(* The invariant and what it gives.                                        *)

\* What the constructor sets up.
LEMMA GpuInit == Init => GpuInv
<1> SUFFICES ASSUME Init PROVE GpuInv
  OBVIOUS
<1>1. TypeOK
  BY TypeInit
<1>2. RunInv /\ OneHolder /\ OwnAnswerUndisturbed
  BY DEF Init, RunInv, OneHolder, OwnAnswerUndisturbed, Holding, Booting
<1>3. ProcInv
  BY GpuAssumption DEF Init, ProcInv, Alive, Procs
<1>4. Protocol
  <2>1. Boots(conn)
    BY GpuAssumption DEF Init, Boots, Procs
  <2>2. QED
    BY <2>1 DEF Init, Protocol
<1>5. Breaker
  BY GpuAssumption DEF Init, Breaker, CircuitHolds
<1>6. QED
  BY <1>1, <1>2, <1>3, <1>4, <1>5 DEF GpuInv

\* GpuInv holds in every reachable state.
LEMMA GpuInvariant == Spec => []GpuInv
<1>1. GpuInv /\ [Next]_vars => GpuInv'
  BY TypeStep, RunsStep, ProcStep, ProtocolStep, AnswerStep, BreakerStep DEF GpuInv
<1>2. QED
  BY GpuInit, <1>1, PTL DEF Spec

\* The variables of the gpu executor keep their types: the breaker's count stays
\* within the threshold, and the pipes hold whole frames.
THEOREM TypeCorrect == Spec => []TypeOK
<1>1. GpuInv => TypeOK
  BY DEF GpuInv
<1>2. QED
  BY GpuInvariant, <1>1, PTL

\* A run whose subprocess lost no holder to a cancellation returns the answer to
\* its own job.
THEOREM AnswersAreOwn == Spec => []OwnAnswerUndisturbed
<1>1. GpuInv => OwnAnswerUndisturbed
  BY DEF GpuInv
<1>2. QED
  BY GpuInvariant, <1>1, PTL

\* The job that gets the free lock finds an undisturbed subprocess at rest.
THEOREM HandoverIsQuiet == Spec => []QuietHandover
<1>1. GpuInv => QuietHandover
  <2> SUFFICES ASSUME GpuInv, phase = "ready", LockFree, ~Disturbed(conn)
               PROVE  /\ proc[conn] \in {"idle", "dead"}
                      /\ up[conn] = <<>> /\ Reading(conn) = {}
                      /\ proc[conn] = "idle" => down[conn] = <<>>
    BY DEF QuietHandover
  <2>1. Rests(conn)
    BY DEF GpuInv, Protocol
  <2>2. Reading(conn) = {}
    BY DEF GpuInv, RunInv, Reading, LockFree, Disturbed, Holding
  <2>3. QED
    BY <2>1, <2>2 DEF Rests
<1>2. QED
  BY GpuInvariant, <1>1, PTL

\* Whatever crashes, the only live undisturbed subprocess is the current one, and
\* there is none once stop() has returned.
THEOREM ChildIsAlone == Spec => []OneWarmChild
<1>1. GpuInv => OneWarmChild
  BY DEF GpuInv, ProcInv, OneWarmChild
<1>2. QED
  BY GpuInvariant, <1>1, PTL

\* A step with the breaker open hands a job to an undisturbed subprocess only if
\* the job waited for the lock and a crash has left the window.
LEMMA SendStep == GpuInv /\ [Next]_vars =>
    (circuitOpen /\ (\A p \in Procs : ~Disturbed(p)) =>
        \A j \in Jobs : Sends(j) => run[j] = "queued" /\ recent < Threshold)
<1> SUFFICES ASSUME GpuInv, [Next]_vars, circuitOpen, \A p \in Procs : ~Disturbed(p),
                    NEW i \in Jobs, Sends(i)
             PROVE  run[i] = "queued" /\ recent < Threshold
  OBVIOUS
<1> USE DEF runVars
<1>t. TypeOK /\ ProcInv /\ CircuitHolds /\ run \in [Jobs -> RunPhases] /\ recent \in 0..Threshold
  BY DEF GpuInv, Breaker, TypeOK
<1>s. run[i] # "pumping" /\ run[i] # "replying" /\ run'[i] = "pumping"
  BY DEF Sends
<1>e. ASSUME NEW j \in Jobs, NEW how \in {"retried", "raised", "returned"}, End(j, how) PROVE FALSE
  BY <1>e, <1>s, <1>t DEF End
<1>r. ASSUME NEW j \in Jobs, NEW boot \in Booting, Respawn(j, boot) PROVE FALSE
  BY <1>r, <1>s, <1>t, <1>e, RespawnOutcomes DEF Booting
<1>1. CASE Started \/ Stop \/ CrashAges \/ UNCHANGED vars
  BY <1>1, <1>s DEF Started, Stop, CrashAges, vars
<1>2. ASSUME NEW j \in Jobs, Call(j) \/ ReadStarts(j) \/ Cancel(j) \/ AbandonedRead(j) PROVE FALSE
  BY <1>2, <1>s, <1>t DEF Call, ReadStarts, Cancel, AbandonedRead
<1>3. ASSUME NEW j \in Jobs, Enter(j) PROVE i = j /\ run[j] = "queued" /\ recent < Threshold
  <2>1. CASE proc[conn] # "dead" /\ SendJob(j, conn)
    <3>1. recent # Threshold
      BY <1>t, <2>1 DEF CircuitHolds
    <3>2. recent < Threshold
      BY <1>t, <3>1, GpuAssumption
    <3>3. i = j
      BY <1>s, <1>t, <2>1 DEF SendJob
    <3>4. QED
      BY <1>3, <3>2, <3>3 DEF Enter
  <2>2. CASE Respawn(j, "booting") \/ End(j, "raised")
    BY <1>e, <1>r, <2>2 DEF Booting
  <2>3. QED
    BY <1>3, <2>1, <2>2 DEF Enter
\* A subprocess that has booted gets its job only while the breaker is closed.
<1>4. ASSUME NEW j \in Jobs, ReceiveInit(j) PROVE FALSE
  BY <1>4, <1>e DEF ReceiveInit
<1>5. ASSUME NEW j \in Jobs, Receive(j) PROVE FALSE
  <2>1. CASE ReceiveCall(j)
    BY <1>s, <1>t, <2>1 DEF ReceiveCall
  <2>2. CASE ReceiveDone(j) \/ ReceiveUnreadable(j)
    BY <1>e, <2>2 DEF ReceiveDone, ReceiveUnreadable
  <2>3. QED
    BY <1>5, <2>1, <2>2 DEF Receive
<1>6. ASSUME NEW j \in Jobs, ReceiveEof(j) PROVE FALSE
  BY <1>6, <1>e, <1>r DEF ReceiveEof, Booting
<1>7. ASSUME NEW j \in Jobs, Reply(j) PROVE FALSE
  <2>1. CASE Respawn(j, "rebooting")
    BY <1>r, <2>1 DEF Booting
  <2>2. CASE run[j] = "replying" /\ run' = [run EXCEPT ![j] = "pumping"]
    BY <1>s, <1>t, <2>2
  <2>3. QED
    BY <1>7, <2>1, <2>2 DEF Reply
<1>8. ASSUME NEW j \in Jobs, TornRead(j) PROVE FALSE
  BY <1>8, <1>s, <1>e, <1>r DEF TornRead, Booting
<1>9. ASSUME NEW p \in Procs, ChildStep(p) PROVE FALSE
  BY <1>9, <1>s DEF ChildStep, ChildWarm, ChildTakes, ChildAsks, ChildResumes, ChildAnswers,
                    ChildDies, TearFrame, Send
<1>10. QED
  BY <1>1, <1>2, <1>3, <1>4, <1>5, <1>6, <1>7, <1>8, <1>9 DEF Next, RunStep, PumpStep

\* Once the breaker is open no job goes to an undisturbed subprocess but one that
\* waited for the lock, and that only when a crash has left the window: a run that
\* respawned the subprocess sends it none.
THEOREM BreakerStopsWork == Spec => CircuitStopsWork
<1>1. GpuInv /\ [Next]_vars =>
         [circuitOpen /\ (\A p \in Procs : ~Disturbed(p)) =>
              \A j \in Jobs : Sends(j) => run[j] = "queued" /\ recent < Threshold]_vars
  BY SendStep
<1>2. QED
  BY GpuInvariant, <1>1, PTL DEF Spec, CircuitStopsWork
=============================================================================
