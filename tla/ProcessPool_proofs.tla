------------------------- MODULE ProcessPool_proofs -------------------------
(***************************************************************************)
(* Proofs about ProcessPool, for any set of jobs, any number of workers,   *)
(* with and without recycling.                                             *)
(*                                                                         *)
(* Claims says which run a process belongs to: serving[p] names it while   *)
(* the run is charged for p, so two runs never share a process. Books adds *)
(* up the queue and the charged runs. Both are inductive together.         *)
(***************************************************************************)
EXTENDS ProcessPool, FiniteSetTheorems, TLAPS

\* p belongs to the run it serves.
Owned(p) ==
    /\ serving[p] \in Jobs
    /\ run[serving[p]] \in Holding \cup Lost
    /\ slot[serving[p]] = p

RunClaims ==
    \A j \in Jobs :
        /\ got[j] \in {j, NoJob}
        /\ run[j] \in {"none", "waiting", "woken"} => slot[j] = NoProc
        /\ run[j] \in Holding => slot[j] # NoProc
        /\ run[j] = "pumping" => reader[slot[j]] = "run"
        /\ run[j] = "replying" => /\ proc[slot[j]] \in {"asking", "dead"}
                                  /\ reader[slot[j]] = "none"
                                  /\ ~Unread(slot[j])
        /\ run[j] \in Holding \cup Lost /\ slot[j] # NoProc =>
              /\ serving[slot[j]] = j
              /\ proc[slot[j]] # "unborn"
              /\ slot[j] \notin idle
              /\ slot[j] \notin retiring

ProcClaims ==
    \A p \in Procs :
        /\ p \in idle => /\ proc[p] \in {"ready", "dead"}
                         /\ ~Unread(p)
                         /\ p \notin retiring
        /\ reader[p] # "none" => Owned(p)
        /\ proc[p] \notin {"unborn", "dead"} /\ p \notin retiring => p \in idle \/ Owned(p)
        /\ proc[p] = "unborn" => p \notin idle /\ p \notin retiring /\ ~Unread(p)
        /\ Unread(p) => up[p].job = serving[p]
        /\ up[p].kind \in Answers => proc[p] \in {"ready", "dead"}
        /\ up[p].kind = "call" => proc[p] \in {"asking", "dead"}

Claims == RunClaims /\ ProcClaims

-----------------------------------------------------------------------------
(* Waking a waiter.                                                        *)

\* Waking changes nothing but one waiting run, if there is any.
LEMMA WakeOneWakes ==
    ASSUME NEW r \in [Jobs -> RunPhases], NEW s \in WakeOne(r)
    PROVE  /\ s \in [Jobs -> RunPhases]
           /\ \A k \in Jobs : s[k] = r[k] \/ (r[k] = "waiting" /\ s[k] = "woken")
<1>1. CASE s = r
  BY <1>1
<1>2. ASSUME NEW k \in Jobs, r[k] = "waiting", s = [r EXCEPT ![k] = "woken"]
      PROVE  /\ s \in [Jobs -> RunPhases]
             /\ \A i \in Jobs : s[i] = r[i] \/ (r[i] = "waiting" /\ s[i] = "woken")
  BY <1>2 DEF RunPhases
<1>3. QED
  BY <1>1, <1>2 DEF WakeOne

\* The phases after a run moved and a waiter was woken are phases.
LEMMA WakeTyped ==
    ASSUME run \in [Jobs -> RunPhases], NEW j \in Jobs, NEW to \in RunPhases,
           run' \in WakeOne([run EXCEPT ![j] = to])
    PROVE  run' \in [Jobs -> RunPhases]
<1>1. [run EXCEPT ![j] = to] \in [Jobs -> RunPhases]
  OBVIOUS
<1>2. QED
  BY <1>1, WakeOneWakes

-----------------------------------------------------------------------------
(* Types.                                                                  *)

\* What the constructor sets up is well typed.
LEMMA TypeInit == Init => TypeOK
  BY PoolAssumption DEF Init, TypeOK, Procs, NoProc, RunPhases, Frames, Empty

\* Every step keeps the variables typed.
LEMMA TypeStep == TypeOK /\ RunClaims /\ [Next]_vars => TypeOK'
<1> SUFFICES ASSUME TypeOK, RunClaims, [Next]_vars PROVE TypeOK'
  OBVIOUS
<1>w. ASSUME NEW j \in Jobs, NEW to \in {"returned", "crashed", "cancelled"},
             run' \in WakeOne([run EXCEPT ![j] = to])
      PROVE  run' \in [Jobs -> RunPhases]
  <2>1. to \in RunPhases
    BY DEF RunPhases
  <2>2. run \in [Jobs -> RunPhases]
    BY DEF TypeOK
  <2>3. QED
    BY <1>w, <2>1, <2>2, WakeTyped
<1> USE PoolAssumption DEF TypeOK, RunPhases, Holding, Lost, Frames, Empty, Answers
<1> USE DEF parentVars, childVars
<1>s. ASSUME NEW j \in Jobs, NEW p \in Procs, Serve(j, p)
      PROVE  /\ run' \in [Jobs -> RunPhases]
             /\ slot' \in [Jobs -> Procs \cup {NoProc}]
             /\ got' = got
             /\ proc' \in [Procs -> {"unborn", "ready", "busy", "asking", "dead"}]
             /\ serving' \in [Procs -> Jobs \cup {NoJob}]
             /\ reader' \in [Procs -> {"none", "run", "abandoned"}]
             /\ UNCHANGED <<up, jobsDone, retiring>>
  BY <1>s DEF Serve
<1>f. ASSUME NEW j \in Jobs, ServeOnFresh(j)
      PROVE  /\ run' \in [Jobs -> RunPhases]
             /\ slot' \in [Jobs -> Procs \cup {NoProc}]
             /\ got' = got
             /\ proc' \in [Procs -> {"unborn", "ready", "busy", "asking", "dead"}]
             /\ serving' \in [Procs -> Jobs \cup {NoJob}]
             /\ reader' \in [Procs -> {"none", "run", "abandoned"}]
             /\ UNCHANGED <<up, jobsDone, retiring>>
  BY <1>s, <1>f DEF ServeOnFresh, Raise
<1>t. ASSUME NEW j \in Jobs, TakeIdle(j), phase' \in {"unstarted", "started", "stopped"}
      PROVE  TypeOK'
  BY <1>s, <1>f, <1>t DEF TakeIdle
<1>1. ASSUME NEW j \in Jobs, Start(j) PROVE TypeOK'
  <2>1. CASE Grow(j)
    BY <1>1, <1>f, <2>1 DEF Start, Grow
  <2>2. CASE Wait(j)
    BY <1>1, <2>2 DEF Start, Wait
  <2>3. QED
    BY <1>1, <1>t, <2>1, <2>2 DEF Start
<1>2. ASSUME NEW j \in Jobs, Woken(j) PROVE TypeOK'
  BY <1>2, <1>t DEF Woken, WaitAgain
<1>3. ASSUME NEW j \in Jobs, Receive(j) PROVE TypeOK'
  <2> DEFINE p == slot[j]
  <2>1. CASE ReceiveCall(j, p)
    BY <2>1 DEF ReceiveCall, ReadReturns
  <2>2. CASE ReceiveUnreadable(j, p)
    BY <2>2 DEF ReceiveUnreadable, ReadReturns, Raise
  <2>3. CASE ReceiveAnswer(j, p)
    <3>1. [run EXCEPT ![j] = "returned"] \in [Jobs -> RunPhases]
      OBVIOUS
    <3>a. run' \in WakeOne([run EXCEPT ![j] = "returned"]) \/ run' = [run EXCEPT ![j] = "raised"]
      BY <2>3 DEF ReceiveAnswer, Raise
    <3>b. ASSUME run' \in WakeOne([run EXCEPT ![j] = "returned"])
          PROVE  run' \in [Jobs -> RunPhases]
      BY <3>b, <1>w
    <3>2. run' \in [Jobs -> RunPhases]
      BY <3>a, <3>b
    <3>3. p \in Procs
      BY <1>3 DEF Receive, RunClaims
    <3>4. QED
      <4>1. up[p].job \in Jobs \cup {NoJob}
        BY <3>3
      <4>2. /\ got' \in [Jobs -> Jobs \cup {NoJob}]
            /\ jobsDone' \in [Procs -> Nat]
            /\ up' \in [Procs -> Frames]
            /\ reader' \in [Procs -> {"none", "run", "abandoned"}]
            /\ UNCHANGED <<phase, spawned, slot, serving>>
        BY <2>3, <3>3, <4>1 DEF ReceiveAnswer, ReadReturns
      <4>3. /\ idle' \in SUBSET Procs
            /\ retiring' \in SUBSET Procs
            /\ proc' \in [Procs -> {"unborn", "ready", "busy", "asking", "dead"}]
        BY <2>3, <3>3 DEF ReceiveAnswer
      <4>4. QED
        BY <3>2, <4>2, <4>3
  <2>4. QED
    BY <1>3, <2>1, <2>2, <2>3 DEF Receive
<1>r. ASSUME NEW j \in Jobs, NEW p, Replace(j, p) PROVE TypeOK'
  <2>1. [run EXCEPT ![j] = "crashed"] \in [Jobs -> RunPhases]
    OBVIOUS
  <2>a. run' \in WakeOne([run EXCEPT ![j] = "crashed"]) \/ run' = [run EXCEPT ![j] = "raised"]
    BY <1>r DEF Replace, Raise
  <2>b. ASSUME run' \in WakeOne([run EXCEPT ![j] = "crashed"])
        PROVE  run' \in [Jobs -> RunPhases]
    BY <2>b, <1>w
  <2>2. run' \in [Jobs -> RunPhases]
    BY <2>a, <2>b
  <2>3. QED
    BY <1>r, <2>2 DEF Replace
<1>4. ASSUME NEW j \in Jobs, ReceiveEof(j) \/ Reply(j) PROVE TypeOK'
  BY <1>4, <1>r DEF ReceiveEof, Reply
<1>5. ASSUME NEW j \in Jobs, Cancel(j) PROVE TypeOK'
  <2>1. [run EXCEPT ![j] = "cancelled"] \in [Jobs -> RunPhases]
    OBVIOUS
  <2>2. CASE CancelHolder(j)
    BY <2>2 DEF CancelHolder
  <2>3. CASE CancelWaiter(j)
    <3>1. run' \in [Jobs -> RunPhases]
      BY <2>1, <2>3, WakeOneWakes DEF CancelWaiter
    <3>2. QED
      BY <2>3, <3>1 DEF CancelWaiter
  <2>4. QED
    BY <1>5, <2>2, <2>3 DEF Cancel
<1>6. ASSUME NEW p \in Procs, ChildStep(p) PROVE TypeOK'
  <2>1. ASSUME NEW kind \in Answers \cup {"call"}, NEW then \in {"ready", "asking"},
               Send(p, kind, then)
        PROVE  TypeOK'
    <3>1. [kind |-> kind, job |-> serving[p]] \in Frames
      OBVIOUS
    <3>2. QED
      BY <2>1, <3>1 DEF Send
  <2>2. CASE ChildAsks(p) \/ ChildAnswers(p)
    BY <2>1, <2>2 DEF ChildAsks, ChildAnswers
  <2>3. CASE AbandonedRead(p)
    BY <2>3 DEF AbandonedRead
  <2>4. CASE ChildDies(p) \/ AbandonedLogRead(p) \/ Retire(p)
    BY <2>4 DEF ChildDies, AbandonedLogRead, Retire
  <2>5. QED
    BY <1>6, <2>2, <2>3, <2>4 DEF ChildStep
<1>7. CASE Stop
  BY <1>7 DEF Stop
<1>8. CASE UNCHANGED vars
  BY <1>8 DEF vars
<1>9. QED
  BY <1>1, <1>2, <1>3, <1>4, <1>5, <1>6, <1>7, <1>8 DEF Next, RunStep

-----------------------------------------------------------------------------
(* Who owns which process.                                                 *)

\* Nobody owns anything before the first run.
LEMMA ClaimsInit == Init => Claims
  BY DEF Init, Claims, RunClaims, ProcClaims, Owned, Unread, Empty, Holding, Lost, Answers

\* Only the runs woken and the one the step is about change phase.
RunsMove(j, to) ==
    \A k \in Jobs :
        IF k = j THEN run'[k] = to
                 ELSE run'[k] = run[k] \/ (run[k] = "waiting" /\ run'[k] = "woken")

\* Waking after a run moved moves that run and the one woken.
LEMMA WakeMoves ==
    ASSUME TypeOK, NEW j \in Jobs, NEW to \in RunPhases \ {"waiting"},
           run' \in WakeOne([run EXCEPT ![j] = to])
    PROVE  RunsMove(j, to)
<1>1. [run EXCEPT ![j] = to] \in [Jobs -> RunPhases]
  BY DEF TypeOK
<1>2. \A k \in Jobs : \/ run'[k] = [run EXCEPT ![j] = to][k]
                      \/ [run EXCEPT ![j] = to][k] = "waiting" /\ run'[k] = "woken"
  BY <1>1, WakeOneWakes
<1>3. QED
  BY <1>2 DEF RunsMove, TypeOK

\* A step keeps the claims.
LEMMA ClaimsStep == TypeOK /\ Claims /\ [Next]_vars => Claims'
<1> SUFFICES ASSUME TypeOK, Claims, [Next]_vars PROVE Claims'
  OBVIOUS
<1> USE PoolAssumption DEF Claims, RunClaims, ProcClaims, Owned, Unread, Holding, Lost, Answers
<1> USE DEF parentVars, childVars, TypeOK
<1>0. NoProc \notin Procs
  BY DEF NoProc, Procs
<1>s. ASSUME NEW j \in Jobs, NEW p \in Procs, Serve(j, p), run[j] \in {"none", "woken"},
             \/ proc[p] = "unborn"
             \/ p \in idle /\ p \notin idle',
             idle \ {p} = idle'
      PROVE  Claims'
  <2>1. RunClaims'
    BY <1>s, <1>0 DEF Serve
  <2>a. ASSUME NEW q \in Procs PROVE ProcClaims!(q)'
    <3>1. CASE q = p
      BY <1>s, <1>0, <3>1 DEF Serve
    <3>2. CASE q # p
      <4>1. /\ proc'[q] = proc[q] /\ reader'[q] = reader[q] /\ serving'[q] = serving[q]
            /\ up' = up /\ retiring' = retiring
            /\ q \in idle' => q \in idle
        BY <1>s, <3>2 DEF Serve
      <4>2. Owned(q) => Owned(q)'
        BY <1>s, <3>2 DEF Serve
      <4>3. q \in idle => q \in idle'
        BY <1>s, <3>2
      <4>4. QED
        BY <4>1, <4>2, <4>3
    <3>3. QED
      BY <3>1, <3>2
  <2>2. ProcClaims'
    BY <2>a
  <2>3. QED
    BY <2>1, <2>2
\* A run that fails to fork, having taken at most a dead idle process.
<1>f. ASSUME NEW j \in Jobs, Raise(j), run[j] \in {"none", "woken"},
             idle' \subseteq idle,
             \A p \in idle : proc[p] = "dead" \/ p \in idle',
             UNCHANGED <<slot, got, childVars>>
      PROVE  Claims'
  BY <1>f, <1>0 DEF Raise
<1>1. ASSUME NEW j \in Jobs, run[j] \in {"none", "woken"}, TakeIdle(j) PROVE Claims'
  <2>1. PICK p \in idle : /\ idle' = idle \ {p}
                          /\ IF proc[p] = "dead" THEN ServeOnFresh(j) ELSE Serve(j, p)
    BY <1>1 DEF TakeIdle
  <2>2. CASE Serve(j, p)
    BY <1>1, <1>s, <2>1, <2>2
  <2>3. CASE proc[p] = "dead" /\ ServeOnFresh(j)
    <3>1. ASSUME NEW q \in Procs, proc[q] = "unborn", Serve(j, q) PROVE Claims'
      <4>1. Claims /\ idle' = idle \ {p}
        BY <2>1
      <4>2. QED
        BY <1>1, <2>1, <2>3, <3>1, <1>0 DEF Serve
    <3>2. CASE Raise(j) /\ UNCHANGED <<slot, got, childVars>>
      BY <1>1, <1>f, <2>1, <2>3, <3>2
    <3>3. QED
      BY <2>3, <3>1, <3>2 DEF ServeOnFresh, Fresh
  <2>4. QED
    BY <2>1, <2>2, <2>3
<1>2. ASSUME NEW j \in Jobs, Start(j) PROVE Claims'
  <2>1. CASE Grow(j)
    <3>1. ASSUME NEW q \in Procs, proc[q] = "unborn", Serve(j, q) PROVE Claims'
      BY <1>2, <1>s, <2>1, <3>1 DEF Grow, Start
    <3>2. CASE Raise(j) /\ UNCHANGED <<slot, got, childVars>>
      BY <1>2, <1>f, <2>1, <3>2 DEF Grow, Start
    <3>3. QED
      BY <2>1, <3>1, <3>2 DEF Grow, ServeOnFresh, Fresh
  <2>2. CASE Wait(j)
    BY <1>2, <2>2 DEF Start, Wait
  <2>3. QED
    BY <1>1, <1>2, <2>1, <2>2 DEF Start
<1>3. ASSUME NEW j \in Jobs, Woken(j) PROVE Claims'
  <2>1. CASE WaitAgain(j)
    BY <1>3, <2>1 DEF Woken, WaitAgain
  <2>2. QED
    BY <1>1, <1>3, <2>1 DEF Woken
<1>4. ASSUME NEW j \in Jobs, run[j] = "pumping", ReceiveCall(j, slot[j]) PROVE Claims'
  <2>1. RunClaims'
    BY <1>0, <1>4 DEF ReceiveCall, ReadReturns, Empty
  <2>2. ProcClaims'
    BY <1>0, <1>4 DEF ReceiveCall, ReadReturns, Empty
  <2>3. QED
    BY <2>1, <2>2
<1>5. ASSUME NEW j \in Jobs, run[j] = "pumping", ReceiveUnreadable(j, slot[j]) PROVE Claims'
  <2>1. RunClaims'
    BY <1>0, <1>5 DEF ReceiveUnreadable, ReadReturns, Raise, Empty
  <2>2. ProcClaims'
    BY <1>0, <1>5 DEF ReceiveUnreadable, ReadReturns, Raise, Empty
  <2>3. QED
    BY <2>1, <2>2
<1>6. ASSUME NEW j \in Jobs, run[j] = "pumping", ReceiveAnswer(j, slot[j]) PROVE Claims'
  <2> DEFINE p == slot[j]
  <2>1. /\ up' = [up EXCEPT ![p] = Empty]
        /\ reader' = [reader EXCEPT ![p] = "none"]
        /\ got' = [got EXCEPT ![j] = up[p].job]
        /\ UNCHANGED <<slot, serving>>
        /\ p \in Procs
        /\ up[p].kind \in {"result", "failure"}
    BY <1>0, <1>6 DEF ReceiveAnswer, ReadReturns
  <2>2. CASE /\ run' \in WakeOne([run EXCEPT ![j] = "returned"])
             /\ idle' = idle \cup {p}
             /\ UNCHANGED <<proc, retiring>>
    <3>1. RunsMove(j, "returned")
      BY <2>2, WakeMoves DEF RunPhases
    <3>2. RunClaims'
      BY <1>0, <1>6, <2>1, <2>2, <3>1 DEF RunsMove, Empty
    <3>3. ProcClaims'
      BY <1>0, <1>6, <2>1, <2>2, <3>1 DEF RunsMove, Empty
    <3>4. QED
      BY <3>2, <3>3
  <2>3. ASSUME NEW q \in Procs, Fresh(q),
               proc' = [proc EXCEPT ![q] = "ready"],
               run' \in WakeOne([run EXCEPT ![j] = "returned"]),
               idle' = idle \cup {q},
               retiring' = retiring \cup {p}
        PROVE  Claims'
    <3>1. RunsMove(j, "returned")
      BY <2>3, WakeMoves DEF RunPhases
    <3>2. proc[q] = "unborn"
      BY <2>3 DEF Fresh
    <3>3. RunClaims'
      BY <1>0, <1>6, <2>1, <2>3, <3>1, <3>2 DEF RunsMove, Empty
    <3>4. ProcClaims'
      BY <1>0, <1>6, <2>1, <2>3, <3>1, <3>2 DEF RunsMove, Empty
    <3>5. QED
      BY <3>3, <3>4
  <2>4. CASE Raise(j) /\ UNCHANGED <<idle, proc, retiring>>
    <3>1. RunClaims'
      BY <1>0, <1>6, <2>1, <2>4 DEF Raise, Empty
    <3>2. ProcClaims'
      BY <1>0, <1>6, <2>1, <2>4 DEF Raise, Empty
    <3>3. QED
      BY <3>1, <3>2
  <2>5. QED
    BY <1>6, <2>2, <2>3, <2>4 DEF ReceiveAnswer
<1>7. ASSUME NEW j \in Jobs, run[j] \in Holding, proc[slot[j]] = "dead", ~Unread(slot[j]),
             Replace(j, slot[j])
      PROVE  Claims'
  <2> DEFINE p == slot[j]
  <2>1. /\ reader' = [reader EXCEPT ![p] = "none"]
        /\ UNCHANGED <<slot, got, serving, up, retiring>>
        /\ p \in Procs
    BY <1>0, <1>7 DEF Replace
  <2>2. ASSUME NEW q \in Procs, Fresh(q),
               proc' = [proc EXCEPT ![q] = "ready"],
               run' \in WakeOne([run EXCEPT ![j] = "crashed"]),
               idle' = idle \cup {q}
        PROVE  Claims'
    <3>1. RunsMove(j, "crashed")
      BY <2>2, WakeMoves DEF RunPhases
    <3>2. proc[q] = "unborn"
      BY <2>2 DEF Fresh
    <3>3. RunClaims'
      BY <1>0, <1>7, <2>1, <2>2, <3>1, <3>2 DEF RunsMove
    <3>4. ProcClaims'
      BY <1>0, <1>7, <2>1, <2>2, <3>1, <3>2 DEF RunsMove
    <3>5. QED
      BY <3>3, <3>4
  <2>3. CASE Raise(j) /\ UNCHANGED <<idle, proc>>
    <3>1. RunClaims'
      BY <1>0, <1>7, <2>1, <2>3 DEF Raise
    <3>2. ProcClaims'
      BY <1>0, <1>7, <2>1, <2>3 DEF Raise
    <3>3. QED
      BY <3>1, <3>2
  <2>4. QED
    BY <1>7, <2>2, <2>3 DEF Replace
<1>8. ASSUME NEW j \in Jobs, Reply(j), proc[slot[j]] # "dead" PROVE Claims'
  <2>1. RunClaims'
    BY <1>0, <1>8 DEF Reply
  <2>2. ProcClaims'
    BY <1>0, <1>8 DEF Reply
  <2>3. QED
    BY <2>1, <2>2
<1>9. ASSUME NEW j \in Jobs, CancelHolder(j) PROVE Claims'
  <2>1. RunClaims'
    BY <1>0, <1>9 DEF CancelHolder
  <2>2. ProcClaims'
    BY <1>0, <1>9 DEF CancelHolder
  <2>3. QED
    BY <2>1, <2>2
<1>10. ASSUME NEW j \in Jobs, CancelWaiter(j) PROVE Claims'
  <2>1. RunsMove(j, "cancelled")
    <3>1. CASE run' \in WakeOne([run EXCEPT ![j] = "cancelled"])
      BY <3>1, WakeMoves DEF RunPhases
    <3>2. CASE run' = [run EXCEPT ![j] = "cancelled"]
      BY <3>2 DEF RunsMove
    <3>3. QED
      BY <1>10, <3>1, <3>2 DEF CancelWaiter
  <2>2. UNCHANGED <<idle, slot, got, childVars>> /\ run[j] \in {"waiting", "woken"}
    BY <1>10 DEF CancelWaiter
  <2>3. QED
    BY <1>0, <2>1, <2>2 DEF RunsMove
<1>11. ASSUME NEW p \in Procs, NEW kind \in Answers \cup {"call"}, NEW then \in {"ready", "asking"},
              kind = "call" <=> then = "asking", Send(p, kind, then)
       PROVE  Claims'
  <2>1. RunClaims'
    BY <1>0, <1>11 DEF Send
  <2>2. ProcClaims'
    BY <1>0, <1>11 DEF Send
  <2>3. QED
    BY <2>1, <2>2
<1>12. ASSUME NEW p \in Procs, ChildDies(p) PROVE Claims'
  BY <1>0, <1>12 DEF ChildDies
<1>13. ASSUME NEW p \in Procs, AbandonedRead(p) \/ AbandonedLogRead(p) PROVE Claims'
  BY <1>0, <1>13 DEF AbandonedRead, AbandonedLogRead, Empty
<1>14. ASSUME NEW p \in Procs, Retire(p) PROVE Claims'
  BY <1>0, <1>14 DEF Retire
<1>15. CASE Stop
  BY <1>0, <1>15 DEF Stop
<1>16. CASE UNCHANGED vars
  BY <1>16 DEF vars
<1>17. ASSUME NEW j \in Jobs, RunStep(j) PROVE Claims'
  <2>1. CASE Receive(j)
    BY <1>4, <1>5, <1>6, <2>1 DEF Receive
  <2>2. CASE ReceiveEof(j)
    BY <1>7, <2>2 DEF ReceiveEof
  <2>3. CASE Reply(j)
    BY <1>7, <1>8, <2>3 DEF Reply
  <2>4. QED
    BY <1>2, <1>3, <1>9, <1>10, <1>17, <2>1, <2>2, <2>3 DEF RunStep, Cancel
<1>18. ASSUME NEW p \in Procs, ChildStep(p) PROVE Claims'
  BY <1>11, <1>12, <1>13, <1>14, <1>18 DEF ChildStep, ChildAsks, ChildAnswers
<1>19. QED
  BY <1>15, <1>16, <1>17, <1>18 DEF Next

-----------------------------------------------------------------------------
(* The books: a slot is in the queue or charged to a run.                  *)

Books ==
    /\ phase # "stopped" => spawned = Cardinality(idle) + Cardinality(Charged)
    /\ phase = "stopped" =>
          /\ idle = {}
          /\ Cardinality(Charged) <= MaxWorkers
          /\ \A j \in Jobs : run[j] \notin Holding \cup {"waiting", "woken"}

PoolInv == TypeOK /\ Claims /\ Books /\ NoLostWakeup

AwakeRuns == {j \in Jobs : run[j] = "woken"}

\* Sets of jobs and of processes are finite.
LEMMA SmallSets ==
    ASSUME NEW S, S \subseteq Jobs \/ S \subseteq Procs
    PROVE  IsFiniteSet(S) /\ Cardinality(S) \in Nat
<1>1. IsFiniteSet(Procs)
  BY PoolAssumption, FS_Interval DEF Procs
<1>2. IsFiniteSet(S)
  BY <1>1, PoolAssumption, FS_Subset
<1>3. QED
  BY <1>2, FS_CardinalityType

\* The sets that are counted are finite.
LEMMA Counted ==
    ASSUME TypeOK
    PROVE  /\ IsFiniteSet(idle) /\ Cardinality(idle) \in Nat
           /\ IsFiniteSet(Charged) /\ Cardinality(Charged) \in Nat
           /\ IsFiniteSet(AwakeRuns) /\ Cardinality(AwakeRuns) \in Nat
<1>1. idle \subseteq Procs /\ Charged \subseteq Jobs /\ AwakeRuns \subseteq Jobs
  BY DEF TypeOK, Charged, AwakeRuns
<1>2. QED
  BY <1>1, SmallSets

\* So they are after a step.
LEMMA CountedNext ==
    ASSUME TypeOK'
    PROVE  /\ IsFiniteSet(idle') /\ Cardinality(idle') \in Nat
           /\ IsFiniteSet(AwakeRuns') /\ Cardinality(AwakeRuns') \in Nat
<1>1. idle' \subseteq Procs /\ AwakeRuns' \subseteq Jobs
  BY DEF TypeOK, AwakeRuns
<1>2. QED
  BY <1>1, SmallSets

\* Taking a process out of the queue into a run, by growth or from the queue.
LEMMA TakingKeepsBooks ==
    ASSUME TypeOK, TypeOK', Books, phase # "stopped", phase' # "stopped",
           NEW j \in Jobs, j \notin Charged, Charged' = Charged \cup {j},
           \/ spawned' = spawned + 1 /\ idle' = idle
           \/ spawned' = spawned /\ \E p \in idle : idle' = idle \ {p}
    PROVE  Books'
<1>1. Cardinality(Charged') = Cardinality(Charged) + 1
  BY Counted, FS_AddElement
<1>2. ASSUME NEW p \in idle, idle' = idle \ {p}
      PROVE  Cardinality(idle') = Cardinality(idle) - 1
  BY <1>2, Counted, FS_RemoveElement
<1>3. QED
  BY <1>1, <1>2, Counted DEF Books, TypeOK

\* A run giving its slot back to the queue.
LEMMA GivingBackKeepsBooks ==
    ASSUME TypeOK, TypeOK', Books, phase # "stopped", phase' = phase, spawned' = spawned,
           NEW j \in Charged, Charged' = Charged \ {j},
           NEW q, q \notin idle, idle' = idle \cup {q}
    PROVE  Books'
<1>1. Cardinality(Charged') = Cardinality(Charged) - 1
  BY Counted, FS_RemoveElement
<1>2. Cardinality(idle') = Cardinality(idle) + 1
  BY Counted, FS_AddElement
<1>3. QED
  BY <1>1, <1>2, Counted DEF Books, TypeOK

\* A step of a run that takes a process, or fails to, keeps the books.
LEMMA TakingStep ==
    ASSUME PoolInv, TypeOK', NEW j \in Jobs, run[j] \in {"none", "woken"},
           phase # "stopped", phase' # "stopped", TakeIdle(j) \/ Grow(j)
    PROVE  Books'
<1>1. run' = [run EXCEPT ![j] = "pumping"] \/ run' = [run EXCEPT ![j] = "raised"]
  BY DEF TakeIdle, Grow, ServeOnFresh, Serve, Raise
<1>2. j \notin Charged /\ Charged' = Charged \cup {j}
  BY <1>1 DEF PoolInv, TypeOK, Charged, Holding, Lost
<1>3. \/ spawned' = spawned + 1 /\ idle' = idle
      \/ spawned' = spawned /\ \E p \in idle : idle' = idle \ {p}
  BY DEF TakeIdle, Grow
<1>4. QED
  BY <1>2, <1>3, TakingKeepsBooks DEF PoolInv

\* Putting a process into the queue, a waiter woken, keeps the books.
LEMMA PuttingStep ==
    ASSUME PoolInv, TypeOK', NEW j \in Jobs, run[j] \in Holding,
           NEW to \in {"returned", "crashed"}, run' \in WakeOne([run EXCEPT ![j] = to]),
           phase # "stopped", UNCHANGED <<phase, spawned>>,
           NEW q, q \notin idle, idle' = idle \cup {q}
    PROVE  Books'
<1>1. to \in RunPhases \ {"waiting"}
  BY DEF RunPhases
<1>2. RunsMove(j, to)
  BY <1>1, WakeMoves DEF PoolInv
<1>3. j \in Charged /\ Charged' = Charged \ {j}
  BY <1>2 DEF RunsMove, Charged, Holding, Lost
<1>4. QED
  BY <1>3, GivingBackKeepsBooks DEF PoolInv

\* A step that charges and frees nobody keeps the books.
LEMMA SameBooks ==
    ASSUME PoolInv, UNCHANGED <<phase, spawned, idle>>, Charged' = Charged,
           phase = "stopped" => UNCHANGED run
    PROVE  Books'
BY DEF PoolInv, Books

\* Every step keeps the books.
LEMMA BooksStep == PoolInv /\ TypeOK' /\ [Next]_vars => Books'
<1> SUFFICES ASSUME PoolInv, TypeOK', [Next]_vars PROVE Books'
  OBVIOUS
<1>t. TypeOK /\ Claims /\ Books
  BY DEF PoolInv
<1> USE DEF parentVars, childVars
<1>r. ASSUME NEW j \in Jobs, run[j] \in Holding \cup {"waiting", "woken"} PROVE phase # "stopped"
  BY <1>r, <1>t DEF Books
<1>1. ASSUME NEW j \in Jobs, Start(j) PROVE Books'
  <2>1. CASE TakeIdle(j) \/ Grow(j)
    BY <1>1, <2>1, TakingStep DEF Start
  <2>2. CASE Wait(j)
    <3>1. Charged' = Charged
      BY <1>1, <1>t, <2>2 DEF Start, Wait, Charged, Holding, Lost, TypeOK
    <3>2. QED
      BY <1>1, <1>t, <2>2, <3>1 DEF Start, Wait, Books
  <2>3. QED
    BY <1>1, <2>1, <2>2 DEF Start
<1>2. ASSUME NEW j \in Jobs, Woken(j) PROVE Books'
  <2>1. CASE TakeIdle(j)
    BY <1>2, <1>r, <2>1, TakingStep DEF Woken
  <2>2. CASE WaitAgain(j)
    <3>1. Charged' = Charged
      BY <1>2, <1>t, <2>2 DEF Woken, WaitAgain, Charged, Holding, Lost, TypeOK
    <3>2. QED
      BY <1>2, <1>r, <1>t, <2>2, <3>1, SameBooks DEF Woken, WaitAgain
  <2>3. QED
    BY <1>2, <2>1, <2>2 DEF Woken
<1>h. ASSUME NEW j \in Jobs, run[j] \in Holding, NEW to \in Holding \cup Lost,
             run' = [run EXCEPT ![j] = to], UNCHANGED <<phase, spawned, idle>>
      PROVE  Books'
  <2>1. Charged' = Charged
    BY <1>h, <1>t DEF Charged, TypeOK
  <2>2. QED
    BY <1>h, <1>r, <2>1, SameBooks
<1>f. ASSUME NEW q \in Procs, Fresh(q) PROVE q \notin idle
  BY <1>f, <1>t DEF Fresh, Claims, ProcClaims
<1>3. ASSUME NEW j \in Jobs, Receive(j) PROVE Books'
  <2>1. run[j] \in Holding /\ slot[j] \notin idle
    BY <1>3, <1>t DEF Receive, Holding, Lost, Claims, RunClaims
  <2>2. CASE ReceiveCall(j, slot[j])
    BY <1>h, <2>1, <2>2 DEF ReceiveCall, ReadReturns, Holding
  <2>3. CASE ReceiveUnreadable(j, slot[j])
    BY <1>h, <2>1, <2>3 DEF ReceiveUnreadable, ReadReturns, Raise, Lost
  <2>4. CASE ReceiveAnswer(j, slot[j])
    <3>1. CASE Raise(j) /\ UNCHANGED idle
      BY <1>h, <2>1, <2>4, <3>1 DEF ReceiveAnswer, ReadReturns, Raise, Lost
    <3>2. ASSUME NEW q, q \notin idle, idle' = idle \cup {q},
                 run' \in WakeOne([run EXCEPT ![j] = "returned"])
          PROVE  Books'
      BY <1>r, <2>1, <2>4, <3>2, PuttingStep DEF ReceiveAnswer, ReadReturns
    <3>3. QED
      BY <1>f, <2>1, <2>4, <3>1, <3>2 DEF ReceiveAnswer
  <2>5. QED
    BY <1>3, <2>2, <2>3, <2>4 DEF Receive
<1>4. ASSUME NEW j \in Jobs, run[j] \in Holding, Replace(j, slot[j]) PROVE Books'
  <2>1. CASE Raise(j) /\ UNCHANGED idle
    BY <1>4, <1>h, <2>1 DEF Replace, Raise, Lost
  <2>2. ASSUME NEW q \in Procs, Fresh(q), idle' = idle \cup {q},
               run' \in WakeOne([run EXCEPT ![j] = "crashed"])
        PROVE  Books'
    BY <1>4, <1>f, <1>r, <2>2, PuttingStep DEF Replace
  <2>3. QED
    BY <1>4, <2>1, <2>2 DEF Replace
<1>5. ASSUME NEW j \in Jobs, ReceiveEof(j) \/ Reply(j) PROVE Books'
  BY <1>4, <1>5, <1>h DEF ReceiveEof, Reply, Holding
<1>6. ASSUME NEW j \in Jobs, Cancel(j) PROVE Books'
  <2>1. CASE CancelHolder(j)
    BY <1>h, <2>1 DEF CancelHolder, Lost
  <2>2. CASE CancelWaiter(j)
    <3>1. RunsMove(j, "cancelled")
      <4>1. CASE run' \in WakeOne([run EXCEPT ![j] = "cancelled"])
        BY <1>t, <4>1, WakeMoves DEF RunPhases
      <4>2. CASE run' = [run EXCEPT ![j] = "cancelled"]
        BY <1>t, <4>2 DEF RunsMove, TypeOK
      <4>3. QED
        BY <2>2, <4>1, <4>2 DEF CancelWaiter
    <3>2. Charged' = Charged
      BY <2>2, <3>1 DEF RunsMove, CancelWaiter, Charged, Holding, Lost
    <3>3. QED
      BY <1>r, <2>2, <3>2, SameBooks DEF CancelWaiter
  <2>3. QED
    BY <1>6, <2>1, <2>2 DEF Cancel
<1>7. CASE Stop
  <2>1. Charged' = Charged
    BY <1>7 DEF Stop, Charged
  <2>2. Cardinality(Charged) <= MaxWorkers
    <3>1. spawned = Cardinality(idle) + Cardinality(Charged) /\ spawned \in 0..MaxWorkers
      BY <1>7, <1>t DEF Stop, Books, TypeOK
    <3>2. Cardinality(idle) \in Nat /\ Cardinality(Charged) \in Nat
      BY <1>t, Counted
    <3>3. QED
      BY <3>1, <3>2, PoolAssumption
  <2>3. QED
    BY <1>7, <2>1, <2>2 DEF Stop, Books
<1>8. CASE UNCHANGED <<phase, spawned, idle, run>>
  <2>1. Charged' = Charged
    BY <1>8 DEF Charged
  <2>2. QED
    BY <1>8, <2>1, SameBooks
<1>9. ASSUME NEW p \in Procs, ChildStep(p) PROVE UNCHANGED <<phase, spawned, idle, run>>
  BY <1>9 DEF ChildStep, ChildAsks, ChildAnswers, Send, ChildDies, AbandonedRead,
     AbandonedLogRead, Retire
<1>10. UNCHANGED vars => UNCHANGED <<phase, spawned, idle, run>>
  BY DEF vars
<1>11. QED
  BY <1>1, <1>2, <1>3, <1>5, <1>6, <1>7, <1>8, <1>9, <1>10 DEF Next, RunStep

-----------------------------------------------------------------------------
(* No wake-up is lost.                                                     *)

WaitingRuns == {j \in Jobs : run[j] = "waiting"}

\* The queue shrinks or stays, and nobody awake goes back to sleep.
LEMMA ShrinkingQueue ==
    ASSUME TypeOK, TypeOK', NoLostWakeup, idle' \subseteq idle,
           AwakeRuns' = AwakeRuns, WaitingRuns' \subseteq WaitingRuns
    PROVE  NoLostWakeup'
<1>1. Cardinality(idle') <= Cardinality(idle)
  BY Counted, FS_Subset
<1>2. QED
  BY <1>1, Counted, CountedNext DEF NoLostWakeup, AwakeRuns, WaitingRuns

\* An awake run takes a process.
LEMMA AwakeTakes ==
    ASSUME TypeOK, TypeOK', NoLostWakeup, NEW p \in idle, idle' = idle \ {p},
           NEW j \in AwakeRuns, AwakeRuns' = AwakeRuns \ {j}, WaitingRuns' = WaitingRuns
    PROVE  NoLostWakeup'
<1>1. Cardinality(idle') = Cardinality(idle) - 1
  BY Counted, FS_RemoveElement
<1>2. Cardinality(AwakeRuns') = Cardinality(AwakeRuns) - 1
  BY Counted, FS_RemoveElement
<1>3. QED
  BY <1>1, <1>2, Counted DEF NoLostWakeup, AwakeRuns, WaitingRuns

\* Waking after run j moved elsewhere: either nobody waits, or one more is awake.
LEMMA WakeAdds ==
    ASSUME TypeOK, NEW j \in Jobs, NEW to \in {"returned", "crashed", "cancelled"},
           run' \in WakeOne([run EXCEPT ![j] = to])
    PROVE  \/ WaitingRuns' = {}
           \/ /\ WaitingRuns' \subseteq WaitingRuns
              /\ \E k \in Jobs \ {j} : k \notin AwakeRuns
                                      /\ AwakeRuns' = (AwakeRuns \ {j}) \cup {k}
<1> DEFINE r == [run EXCEPT ![j] = to]
<1>1. CASE {k \in Jobs : r[k] = "waiting"} = {}
  <2>1. run' = r
    BY <1>1 DEF WakeOne
  <2>2. QED
    BY <1>1, <2>1 DEF WaitingRuns
<1>2. CASE {k \in Jobs : r[k] = "waiting"} # {}
  <2>1. PICK k \in Jobs : r[k] = "waiting" /\ run' = [r EXCEPT ![k] = "woken"]
    BY <1>2 DEF WakeOne
  <2>2. k # j /\ run[k] = "waiting"
    BY <2>1 DEF TypeOK
  <2>3. \A i \in Jobs : run'[i] = IF i = k THEN "woken" ELSE IF i = j THEN to ELSE run[i]
    BY <2>1, <2>2 DEF TypeOK
  <2>4. QED
    BY <2>2, <2>3 DEF WaitingRuns, AwakeRuns
<1>3. QED
  BY <1>1, <1>2

\* A process put into the queue wakes somebody, if anybody waits.
LEMMA PutWakes ==
    ASSUME TypeOK, TypeOK', NoLostWakeup, NEW j \in Jobs, j \notin AwakeRuns,
           NEW to \in {"returned", "crashed"}, run' \in WakeOne([run EXCEPT ![j] = to]),
           NEW q, idle' = idle \cup {q}
    PROVE  NoLostWakeup'
<1>1. CASE WaitingRuns' = {}
  BY <1>1 DEF NoLostWakeup, WaitingRuns
<1>2. CASE /\ WaitingRuns' \subseteq WaitingRuns
           /\ \E k \in Jobs \ {j} : k \notin AwakeRuns
                                   /\ AwakeRuns' = (AwakeRuns \ {j}) \cup {k}
  <2>1. PICK k \in Jobs \ {j} : k \notin AwakeRuns /\ AwakeRuns' = (AwakeRuns \ {j}) \cup {k}
    BY <1>2
  <2>2. AwakeRuns' = AwakeRuns \cup {k}
    BY <2>1
  <2>3. Cardinality(AwakeRuns') = Cardinality(AwakeRuns) + 1
    BY <2>1, <2>2, Counted, FS_AddElement
  <2>4. Cardinality(idle') <= Cardinality(idle) + 1
    <3>1. Cardinality(idle \cup {q}) =
             IF q \in idle THEN Cardinality(idle) ELSE Cardinality(idle) + 1
      BY Counted, FS_AddElement
    <3>2. QED
      BY <3>1, Counted
  <2>5. QED
    BY <1>2, <2>3, <2>4, Counted, CountedNext DEF NoLostWakeup, AwakeRuns, WaitingRuns
<1>3. QED
  BY <1>1, <1>2, WakeAdds

\* A cancelled waiter passes its wake-up on.
LEMMA CancelPassesOn ==
    ASSUME TypeOK, TypeOK', NoLostWakeup, NEW j \in Jobs, CancelWaiter(j)
    PROVE  NoLostWakeup'
<1>0. idle' = idle /\ Cardinality(idle) \in Nat
  BY Counted DEF CancelWaiter
<1>1. CASE run[j] = "woken" /\ idle # {}
  <2>1. run' \in WakeOne([run EXCEPT ![j] = "cancelled"])
    BY <1>1 DEF CancelWaiter
  <2>2. CASE WaitingRuns' = {}
    BY <2>2 DEF NoLostWakeup, WaitingRuns
  <2>3. ASSUME WaitingRuns' \subseteq WaitingRuns,
               NEW k \in Jobs \ {j}, k \notin AwakeRuns, AwakeRuns' = (AwakeRuns \ {j}) \cup {k}
        PROVE  NoLostWakeup'
    <3>1. j \in AwakeRuns
      BY <1>1 DEF AwakeRuns
    <3>2. Cardinality(AwakeRuns \ {j}) = Cardinality(AwakeRuns) - 1 /\ IsFiniteSet(AwakeRuns \ {j})
      BY <3>1, Counted, FS_RemoveElement
    <3>3. Cardinality(AwakeRuns') = Cardinality(AwakeRuns \ {j}) + 1
      BY <2>3, <3>2, FS_AddElement
    <3>4. QED
      BY <1>0, <2>3, <3>2, <3>3, Counted DEF NoLostWakeup, AwakeRuns, WaitingRuns
  <2>4. QED
    BY <2>1, <2>2, <2>3, WakeAdds
<1>2. CASE run[j] = "woken" /\ idle = {}
  <2>1. Cardinality(idle') = 0 /\ Cardinality(AwakeRuns') \in Nat
    BY <1>0, <1>2, FS_EmptySet, CountedNext
  <2>2. QED
    BY <2>1 DEF NoLostWakeup, AwakeRuns
<1>3. CASE run[j] = "waiting"
  <2>1. run' = [run EXCEPT ![j] = "cancelled"]
    BY <1>3 DEF CancelWaiter
  <2>2. AwakeRuns' = AwakeRuns /\ WaitingRuns' \subseteq WaitingRuns
    BY <1>3, <2>1 DEF AwakeRuns, WaitingRuns, TypeOK
  <2>3. QED
    BY <1>0, <2>2, ShrinkingQueue
<1>4. QED
  BY <1>1, <1>2, <1>3 DEF CancelWaiter

\* A run that neither waits nor is awake moves on, and puts nothing in the queue.
LEMMA Bystander ==
    ASSUME TypeOK, TypeOK', NoLostWakeup, NEW j \in Jobs, run[j] \notin {"waiting", "woken"},
           NEW to \in RunPhases \ {"waiting", "woken"}, run' = [run EXCEPT ![j] = to],
           idle' \subseteq idle
    PROVE  NoLostWakeup'
<1>1. AwakeRuns' = AwakeRuns /\ WaitingRuns' = WaitingRuns
  BY DEF AwakeRuns, WaitingRuns, TypeOK
<1>2. QED
  BY <1>1, ShrinkingQueue

\* Every step keeps the queue served.
LEMMA WakeupStep == PoolInv /\ TypeOK' /\ [Next]_vars => NoLostWakeup'
<1> SUFFICES ASSUME PoolInv, TypeOK', [Next]_vars PROVE NoLostWakeup'
  OBVIOUS
<1>t. TypeOK /\ Claims /\ NoLostWakeup
  BY DEF PoolInv
<1> USE DEF parentVars, childVars
<1>m. \A to \in Holding \cup Lost : to \in RunPhases \ {"waiting", "woken"}
  BY DEF RunPhases, Holding, Lost
<1>e. ASSUME idle' = {} PROVE NoLostWakeup'
  <2>1. Cardinality(idle') = 0 /\ Cardinality(AwakeRuns') \in Nat
    BY <1>e, FS_EmptySet, CountedNext
  <2>2. QED
    BY <2>1 DEF NoLostWakeup, AwakeRuns
<1>h. ASSUME NEW j \in Jobs, run[j] \notin {"waiting", "woken"}, NEW to \in Holding \cup Lost,
             run' = [run EXCEPT ![j] = to], idle' \subseteq idle
      PROVE  NoLostWakeup'
  BY <1>h, <1>m, <1>t, Bystander
<1>1. ASSUME NEW j \in Jobs, Start(j) PROVE NoLostWakeup'
  <2>1. CASE TakeIdle(j)
    <3>1. PICK to \in Holding \cup Lost : run' = [run EXCEPT ![j] = to]
      BY <2>1 DEF TakeIdle, ServeOnFresh, Serve, Raise, Holding, Lost
    <3>2. idle' \subseteq idle
      BY <2>1 DEF TakeIdle
    <3>3. QED
      BY <1>1, <1>h, <3>1, <3>2 DEF Start
  <2>2. CASE Grow(j) \/ Wait(j)
    BY <1>e, <2>2 DEF Grow, Wait
  <2>3. QED
    BY <1>1, <2>1, <2>2 DEF Start
<1>2. ASSUME NEW j \in Jobs, Woken(j) PROVE NoLostWakeup'
  <2>1. CASE TakeIdle(j)
    <3>1. PICK to \in Holding \cup Lost : run' = [run EXCEPT ![j] = to]
      BY <2>1 DEF TakeIdle, ServeOnFresh, Serve, Raise, Holding, Lost
    <3>2. PICK p \in idle : idle' = idle \ {p}
      BY <2>1 DEF TakeIdle
    <3>3. j \in AwakeRuns /\ AwakeRuns' = AwakeRuns \ {j} /\ WaitingRuns' = WaitingRuns
      BY <1>2, <1>m, <1>t, <3>1 DEF Woken, AwakeRuns, WaitingRuns, TypeOK
    <3>4. QED
      BY <1>t, <3>2, <3>3, AwakeTakes
  <2>2. CASE WaitAgain(j)
    BY <1>e, <2>2 DEF WaitAgain
  <2>3. QED
    BY <1>2, <2>1, <2>2 DEF Woken
<1>3. ASSUME NEW j \in Jobs, Receive(j) PROVE NoLostWakeup'
  <2>1. run[j] \notin {"waiting", "woken"} /\ j \notin AwakeRuns
    BY <1>3 DEF Receive, AwakeRuns
  <2>2. CASE ReceiveCall(j, slot[j])
    BY <1>h, <2>1, <2>2 DEF ReceiveCall, Holding
  <2>3. CASE ReceiveUnreadable(j, slot[j])
    BY <1>h, <2>1, <2>3 DEF ReceiveUnreadable, Raise, Lost
  <2>4. CASE ReceiveAnswer(j, slot[j])
    <3>1. CASE Raise(j) /\ UNCHANGED idle
      BY <1>h, <2>1, <3>1 DEF Raise, Lost
    <3>2. ASSUME NEW q, idle' = idle \cup {q}, run' \in WakeOne([run EXCEPT ![j] = "returned"])
          PROVE  NoLostWakeup'
      BY <1>t, <2>1, <3>2, PutWakes
    <3>3. QED
      BY <2>4, <3>1, <3>2 DEF ReceiveAnswer
  <2>5. QED
    BY <1>3, <2>2, <2>3, <2>4 DEF Receive
<1>4. ASSUME NEW j \in Jobs, run[j] \in Holding, Replace(j, slot[j]) PROVE NoLostWakeup'
  <2>1. run[j] \notin {"waiting", "woken"} /\ j \notin AwakeRuns
    BY <1>4 DEF Holding, AwakeRuns
  <2>2. CASE Raise(j) /\ UNCHANGED idle
    BY <1>h, <2>1, <2>2 DEF Raise, Lost
  <2>3. ASSUME NEW q, idle' = idle \cup {q}, run' \in WakeOne([run EXCEPT ![j] = "crashed"])
        PROVE  NoLostWakeup'
    BY <1>t, <2>1, <2>3, PutWakes
  <2>4. QED
    BY <1>4, <2>2, <2>3 DEF Replace
<1>5. ASSUME NEW j \in Jobs, ReceiveEof(j) \/ Reply(j) PROVE NoLostWakeup'
  <2>1. CASE Replace(j, slot[j])
    BY <1>4, <1>5, <2>1 DEF ReceiveEof, Reply, Holding
  <2>2. CASE run[j] = "replying" /\ run' = [run EXCEPT ![j] = "pumping"] /\ UNCHANGED idle
    BY <1>h, <2>2 DEF Holding
  <2>3. QED
    BY <1>5, <2>1, <2>2 DEF ReceiveEof, Reply
<1>6. ASSUME NEW j \in Jobs, Cancel(j) PROVE NoLostWakeup'
  <2>1. CASE CancelHolder(j)
    BY <1>h, <2>1 DEF CancelHolder, Holding, Lost
  <2>2. QED
    BY <1>6, <1>t, <2>1, CancelPassesOn DEF Cancel
<1>7. CASE Stop
  BY <1>7, <1>e DEF Stop
<1>8. CASE UNCHANGED <<run, idle>>
  BY <1>8, <1>t DEF NoLostWakeup
<1>9. ASSUME NEW p \in Procs, ChildStep(p) PROVE UNCHANGED <<run, idle>>
  BY <1>9 DEF ChildStep, ChildAsks, ChildAnswers, Send, ChildDies, AbandonedRead,
     AbandonedLogRead, Retire
<1>10. UNCHANGED vars => UNCHANGED <<run, idle>>
  BY DEF vars
<1>11. QED
  BY <1>1, <1>2, <1>3, <1>5, <1>6, <1>7, <1>8, <1>9, <1>10 DEF Next, RunStep

-----------------------------------------------------------------------------
(* The inductive invariant and what follows from it.                       *)

\* The pool starts empty, with nobody charged and nobody waiting.
LEMMA PoolInvInit == Init => PoolInv
<1> SUFFICES ASSUME Init PROVE PoolInv
  OBVIOUS
<1>1. idle = {} /\ Charged = {} /\ ~ \E j \in Jobs : run[j] = "waiting"
  BY DEF Init, Charged, Holding, Lost
<1>2. Books
  BY <1>1, FS_EmptySet DEF Init, Books
<1>3. QED
  BY <1>1, <1>2, TypeInit, ClaimsInit DEF PoolInv, NoLostWakeup

\* PoolInv holds in every reachable state.
LEMMA PoolInvariant == Spec => []PoolInv
<1>1. PoolInv /\ [Next]_vars => PoolInv'
  BY TypeStep, ClaimsStep, BooksStep, WakeupStep DEF PoolInv, Claims
<1>2. QED
  BY <1>1, PoolInvInit, PTL DEF Spec

\* The pool's variables keep their types: _spawned never passes max_workers.
THEOREM TypeCorrect == Spec => []TypeOK
<1>1. PoolInv => TypeOK
  BY DEF PoolInv
<1>2. QED
  BY <1>1, PoolInvariant, PTL

\* A process in the queue has nothing left of an earlier job.
THEOREM HandoverIsClean == Spec => []CleanHandover
<1>1. PoolInv => CleanHandover
  <2> SUFFICES ASSUME PoolInv, NEW p \in idle PROVE CleanHandover!(p)
    BY DEF CleanHandover
  <2>1. p \in Procs /\ p # NoProc
    BY DEF PoolInv, TypeOK, Procs, NoProc
  <2>2. \A j \in Charged : slot[j] # p
    BY <2>1 DEF PoolInv, Claims, RunClaims, Charged
  <2>3. reader[p] = "none"
    BY <2>1, <2>2 DEF PoolInv, Claims, ProcClaims, Owned, Charged
  <2>4. QED
    BY <2>1, <2>2, <2>3 DEF PoolInv, Claims, ProcClaims
<1>2. QED
  BY <1>1, PoolInvariant, PTL

\* run() answers with its own job's result.
THEOREM AnswersAreOwn == Spec => []OwnAnswer
<1>1. PoolInv => OwnAnswer
  BY DEF PoolInv, Claims, RunClaims, OwnAnswer
<1>2. QED
  BY <1>1, PoolInvariant, PTL

\* A run that waits is woken for every process that is free.
THEOREM WakeupsArrive == Spec => []NoLostWakeup
<1>1. PoolInv => NoLostWakeup
  BY DEF PoolInv
<1>2. QED
  BY <1>1, PoolInvariant, PTL

OwnedProcs == {p \in Procs : Owned(p)}

\* Each charged run owns at most one process.
LEMMA OwnedBounded ==
    ASSUME PoolInv
    PROVE  IsFiniteSet(OwnedProcs) /\ Cardinality(OwnedProcs) <= Cardinality(Charged)
<1> DEFINE f == [p \in OwnedProcs |-> serving[p]]
<1>1. f \in Injection(OwnedProcs, Charged)
  <2>1. f \in [OwnedProcs -> Charged]
    BY DEF OwnedProcs, Owned, Charged
  <2>2. \A p, q \in OwnedProcs : f[p] = f[q] => p = q
    BY DEF OwnedProcs, Owned
  <2>3. QED
    BY <2>1, <2>2 DEF Injection, IsInjective
<1>2. QED
  BY <1>1, Counted, FS_Injection DEF PoolInv

\* The charged runs are never more than the workers.
LEMMA ChargedBounded == PoolInv => Cardinality(Charged) <= MaxWorkers
<1> SUFFICES ASSUME PoolInv PROVE Cardinality(Charged) <= MaxWorkers
  OBVIOUS
<1>1. Cardinality(idle) \in Nat /\ Cardinality(Charged) \in Nat /\ spawned \in 0..MaxWorkers
  BY Counted DEF PoolInv, TypeOK
<1>2. QED
  BY <1>1, PoolAssumption DEF PoolInv, Books

\* Never more than max_workers live processes beside those being retired.
THEOREM PoolStaysBounded == Spec => []PoolBounded
<1>1. PoolInv => PoolBounded
  <2> SUFFICES ASSUME PoolInv, phase # "stopped"
               PROVE  Cardinality({p \in Procs : /\ proc[p] \notin {"unborn", "dead"}
                                                 /\ p \notin retiring}) <= MaxWorkers
    BY DEF PoolBounded
  <2> DEFINE live == {p \in Procs : proc[p] \notin {"unborn", "dead"} /\ p \notin retiring}
  <2>1. live \subseteq idle \cup OwnedProcs
    BY DEF PoolInv, Claims, ProcClaims, OwnedProcs
  <2>2. IsFiniteSet(idle) /\ Cardinality(idle) \in Nat /\ Cardinality(Charged) \in Nat
    BY Counted DEF PoolInv
  <2>3. IsFiniteSet(OwnedProcs) /\ Cardinality(OwnedProcs) <= Cardinality(Charged)
    BY OwnedBounded
  <2>4. /\ IsFiniteSet(idle \cup OwnedProcs)
        /\ Cardinality(idle \cup OwnedProcs) =
              Cardinality(idle) + Cardinality(OwnedProcs) - Cardinality(idle \cap OwnedProcs)
    BY <2>2, <2>3, FS_Union
  <2>5. Cardinality(idle \cap OwnedProcs) \in Nat /\ Cardinality(OwnedProcs) \in Nat
    BY SmallSets DEF OwnedProcs
  <2>6. Cardinality(live) <= Cardinality(idle \cup OwnedProcs) /\ Cardinality(live) \in Nat
    BY <2>1, <2>4, SmallSets, FS_Subset
  <2>7. Cardinality(idle) + Cardinality(Charged) \in 0..MaxWorkers
    BY DEF PoolInv, Books, TypeOK
  <2>8. QED
    BY <2>2, <2>3, <2>4, <2>5, <2>6, <2>7, PoolAssumption
<1>2. QED
  BY <1>1, PoolInvariant, PTL

\* max_workers pump threads are enough, abandoned reads included.
THEOREM ReadersSuffice == Spec => []EnoughReaders
<1>1. PoolInv => EnoughReaders
  <2> SUFFICES ASSUME PoolInv PROVE Cardinality({p \in Procs : reader[p] # "none"}) <= MaxWorkers
    BY DEF EnoughReaders
  <2>1. {p \in Procs : reader[p] # "none"} \subseteq OwnedProcs
    BY DEF PoolInv, Claims, ProcClaims, OwnedProcs
  <2>2. Cardinality({p \in Procs : reader[p] # "none"}) <= Cardinality(OwnedProcs)
    BY <2>1, OwnedBounded, FS_Subset
  <2>3. /\ Cardinality({p \in Procs : reader[p] # "none"}) \in Nat
        /\ Cardinality(OwnedProcs) \in Nat /\ Cardinality(Charged) \in Nat
    BY SmallSets DEF OwnedProcs, Charged
  <2>4. QED
    BY <2>2, <2>3, OwnedBounded, ChargedBounded, PoolAssumption
<1>2. QED
  BY <1>1, PoolInvariant, PTL
=============================================================================
