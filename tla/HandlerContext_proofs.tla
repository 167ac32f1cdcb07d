----------------------- MODULE HandlerContext_proofs -----------------------
(***************************************************************************)
(* Proofs about HandlerContext, for any number of leases, checkpoints and  *)
(* attempts, any keys, exceptions and overrides.                           *)
(***************************************************************************)
EXTENDS HandlerContext, TLAPS

(* Leases are granted in order.                                            *)
LeasesInOrder ==
    /\ job = "leased" => lease \in Executions
    /\ \A l \in Executions : l > lease => exec[l].at = "none"

(* Without Redis an execution awaits its one write, and the engine holds   *)
(* no more than the execution with the open lease has done.                *)
AwaitedWrites ==
    ~redis =>
        /\ acked <= durable
        /\ \A p \in puts : exec[p.lease].at = "putting" /\ exec[p.lease].progress = p.data
        /\ \A p, q \in puts : p.lease = q.lease => p = q
        /\ job = "leased" /\ exec[lease].at \in Busy => durable <= exec[lease].progress

(* Once a signal has resumed the job, its payload comes with every lease.  *)
SignalKept ==
    resumedBy # {} =>
        /\ payload # NoKey /\ job # "waiting"
        /\ job = "leased" /\ exec[lease].at \in Busy => exec[lease].event # NoKey

ContextInv == TypeOK /\ LeasesInOrder /\ AwaitedWrites /\ SignalKept

-----------------------------------------------------------------------------
(* What an action does to the one execution it is about.                   *)

Places == Busy \cup {"none", "ended"}

Execution ==
    [at : Places, progress : 0..Work, event : Keys \cup {NoKey}, consumed : SUBSET Keys,
     retryable : BOOLEAN]

LEMMA FailureJudges == ASSUME NEW e PROVE IsRetried(e) \in BOOLEAN
<1>1. Verdict(e, Overrides) \in BOOLEAN /\ Verdict(e, <<>>) \in BOOLEAN
  BY DEF Verdict, Retryable, Classify
<1> QED
  BY <1>1 DEF IsRetried, RetriedInIo, RetriedInChild

(* The execution keeps what it is given, or is gone.                       *)
KeepsOrLeaves(l) ==
    /\ \A m \in Executions \ {l} : exec'[m] = exec[m]
    /\ exec'[l] = Gone \/ (/\ exec'[l].progress = exec[l].progress
                           /\ exec'[l].event = exec[l].event)

LEMMA GoKeeps ==
    ASSUME TypeOK, NEW l \in Executions, NEW place \in Places, Go(l, place)
    PROVE  exec' \in [Executions -> Execution] /\ KeepsOrLeaves(l) /\ exec'[l].at = place
BY DEF TypeOK, Go, Places, Execution, KeepsOrLeaves

LEMMA LeaveKeeps ==
    ASSUME TypeOK, NEW l \in Executions, Leave(l)
    PROVE  exec' \in [Executions -> Execution] /\ KeepsOrLeaves(l) /\ exec'[l].at = "ended"
<1>1. Gone \in Execution /\ Gone.at = "ended"
  BY ContextAssumption DEF Gone, Elsewhere, Execution, Places, NoKey
<1> QED
  BY <1>1 DEF TypeOK, Leave, Places, Execution, KeepsOrLeaves

LEMMA RaiseKeeps ==
    ASSUME TypeOK, NEW l \in Executions, NEW e, Raise(l, e)
    PROVE  /\ exec' \in [Executions -> Execution] /\ KeepsOrLeaves(l)
           /\ exec'[l].at \in {"failing", "ended"}
<1>1. CASE Leave(l)
  BY <1>1, LeaveKeeps
<1>2. CASE exec' = [exec EXCEPT ![l].at = "failing", ![l].retryable = IsRetried(e)]
  <2> DEFINE failed == [exec[l] EXCEPT !.at = "failing", !.retryable = IsRetried(e)]
  <2>1. /\ failed \in Execution /\ failed.at = "failing"
        /\ failed.progress = exec[l].progress /\ failed.event = exec[l].event
    BY FailureJudges DEF TypeOK, Places, Busy, Execution
  <2>2. exec' = [exec EXCEPT ![l] = failed]
    BY <1>2, Zenon
  <2> HIDE DEF failed
  <2>3. exec \in [Executions -> Execution]
    BY DEF TypeOK, Execution, Places
  <2>4. exec' \in [Executions -> Execution] /\ exec'[l] = failed
    BY <2>1, <2>2, <2>3, Zenon
  <2>5. \A m \in Executions \ {l} : exec'[m] = exec[m]
    BY <2>2, <2>3, Zenon
  <2> QED
    BY <2>1, <2>4, <2>5, Zenon DEF KeepsOrLeaves
<1> QED
  BY <1>1, <1>2 DEF Raise

LEMMA VerbRaisesKeeps ==
    ASSUME TypeOK, NEW l \in Executions, NEW e, VerbRaises(l, e)
    PROVE  /\ exec' \in [Executions -> Execution] /\ KeepsOrLeaves(l)
           /\ exec'[l].at \in {"running", "failing", "ended"}
BY GoKeeps, RaiseKeeps DEF VerbRaises, Places, Busy

LEMMA ConsumeKeeps ==
    ASSUME TypeOK, NEW l \in Executions, NEW k \in Keys, Consume(l, k)
    PROVE  exec' \in [Executions -> Execution] /\ KeepsOrLeaves(l) /\ exec'[l].at = exec[l].at
BY DEF TypeOK, Consume, Places, Execution, KeepsOrLeaves

(* One execution moves on, or its job does, and no write of it is left.    *)
LEMMA OneMovesOn ==
    ASSUME ContextInv, NEW l \in Executions, exec[l].at \in Busy,
           exec' \in [Executions -> Execution], KeepsOrLeaves(l),
           UNCHANGED <<redis, durable, acked, lease, resumedBy, payload>>,
           puts' \subseteq puts, ~redis => \A p \in puts' : p.lease # l,
           job' = "leased" => job = "leased",
           job' = "waiting" => job = "waiting" \/ resumedBy = {}
    PROVE  LeasesInOrder' /\ AwaitedWrites' /\ SignalKept'
<1> USE DEF ContextInv, TypeOK, KeepsOrLeaves
<1>1. LeasesInOrder'
  BY DEF LeasesInOrder, Busy, Executions
<1>2. exec'[l].at \in Busy => exec'[l].progress = exec[l].progress /\ exec'[l].event = exec[l].event
  BY DEF Gone, Elsewhere, Busy
<1>3. job' = "leased" /\ exec'[lease].at \in Busy =>
        /\ job = "leased" /\ exec[lease].at \in Busy
        /\ exec'[lease].progress = exec[lease].progress /\ exec'[lease].event = exec[lease].event
  BY <1>2 DEF LeasesInOrder
<1>4. ~redis => \A p \in puts' : exec'[p.lease] = exec[p.lease]
  OBVIOUS
<1>5. AwaitedWrites'
  BY <1>3, <1>4 DEF AwaitedWrites
<1>6. SignalKept'
  BY <1>3 DEF SignalKept
<1> QED
  BY <1>1, <1>5, <1>6

(* An execution that is not putting has no write under way.                *)
LEMMA NoWriteLeft ==
    ASSUME ContextInv, NEW l \in Executions, exec[l].at # "putting"
    PROVE  ~redis => \A p \in puts : p.lease # l
BY DEF ContextInv, AwaitedWrites

-----------------------------------------------------------------------------
(* The steps.                                                              *)

LEMMA HandlerStep ==
    ASSUME ContextInv, NEW l \in Executions,
           \/ (\E k \in Keys : WaitForEvent(l, k)) \/ VerbFails(l) \/ Return(l) \/ RaiseOwn(l)
           \/ DeliverComplete(l) \/ CleanUp(l) \/ DeliverFail(l) \/ Crash(l)
    PROVE  ContextInv'
<1> USE DEF storeVars, engineVars, configVars
<1>1. ASSUME NEW k \in Keys, WaitForEvent(l, k) PROVE ContextInv'
  <2>1. /\ exec[l].at = "running" /\ UNCHANGED <<redis, profile, puts, fast, durable, acked, lease, payload, sent, resumedBy>>
    BY <1>1 DEF WaitForEvent
  <2>6. buffered' \subseteq buffered
    BY <1>1 DEF WaitForEvent, IssueWait, Rendezvous, ParkJob, WaitFails
  <2>2. /\ exec' \in [Executions -> Execution] /\ KeepsOrLeaves(l)
        /\ \/ UNCHANGED <<job, waitKey>>
           \/ job = "leased" /\ lease = l /\ exec[l].event = NoKey /\ job' = "waiting" /\ waitKey' = k
    <3>1. CASE Go(l, "running") /\ UNCHANGED <<job, waitKey>>
      BY <3>1, GoKeeps DEF ContextInv, Places, Busy
    <3>2. ASSUME NEW e, Raise(l, e) \/ VerbRaises(l, e), UNCHANGED <<job, waitKey>>
          PROVE  /\ exec' \in [Executions -> Execution] /\ KeepsOrLeaves(l)
                 /\ UNCHANGED <<job, waitKey>>
      BY <3>2, RaiseKeeps, VerbRaisesKeeps DEF ContextInv
    <3>3. CASE Consume(l, k) /\ UNCHANGED <<job, waitKey>>
      BY <3>3, ConsumeKeeps DEF ContextInv
    <3>4. ASSUME Leave(l) \/ VerbRaises(l, Translate("UNAVAILABLE")), Park(k), Open(l), exec[l].event = NoKey
          PROVE  /\ exec' \in [Executions -> Execution] /\ KeepsOrLeaves(l)
                 /\ job = "leased" /\ lease = l /\ exec[l].event = NoKey /\ job' = "waiting" /\ waitKey' = k
      BY <3>4, LeaveKeeps, VerbRaisesKeeps DEF ContextInv, Park, Open
    <3>5. CASE exec[l].event = NoKey /\ IssueWait(l, k)
      <4>1. \/ Consume(l, k) /\ UNCHANGED <<job, waitKey>>
            \/ Open(l) /\ Park(k) /\ (Leave(l) \/ VerbRaises(l, Translate("UNAVAILABLE")))
            \/ VerbRaises(l, Translate("UNAVAILABLE")) /\ UNCHANGED <<job, waitKey>>
            \/ VerbRaises(l, Translate("STALE_LEASE")) /\ UNCHANGED <<job, waitKey>>
        BY <3>5 DEF IssueWait, Rendezvous, ParkJob, WaitFails
      <4> QED
        BY <3>2, <3>3, <3>4, <3>5, <4>1
    <3> QED
      BY <1>1, <3>1, <3>2, <3>3, <3>5 DEF WaitForEvent
  <2>3. job' = "waiting" => job = "waiting" \/ resumedBy = {}
    BY <2>1, <2>2 DEF ContextInv, SignalKept, Busy
  <2>4. LeasesInOrder' /\ AwaitedWrites' /\ SignalKept'
    BY <2>1, <2>2, <2>3, OneMovesOn, NoWriteLeft DEF Busy
  <2>5. TypeOK'
    BY <2>1, <2>6, <2>2 DEF ContextInv, TypeOK, Execution, Places
  <2> QED
    BY <2>4, <2>5 DEF ContextInv
<1>2. ASSUME VerbFails(l) \/ Return(l) \/ RaiseOwn(l) PROVE ContextInv'
  <2>1. exec[l].at = "running" /\ UNCHANGED <<configVars, storeVars, engineVars>>
    BY <1>2 DEF VerbFails, Return, RaiseOwn
  <2>2. exec' \in [Executions -> Execution] /\ KeepsOrLeaves(l)
    BY <1>2, GoKeeps, RaiseKeeps, VerbRaisesKeeps DEF VerbFails, Return, RaiseOwn, ContextInv, Places, Busy
  <2>3. LeasesInOrder' /\ AwaitedWrites' /\ SignalKept'
    BY <2>1, <2>2, OneMovesOn, NoWriteLeft DEF Busy
  <2>4. TypeOK'
    BY <2>1, <2>2 DEF ContextInv, TypeOK, Execution, Places
  <2> QED
    BY <2>3, <2>4 DEF ContextInv
<1>3. ASSUME DeliverComplete(l) \/ DeliverFail(l) PROVE ContextInv'
  <2>1. /\ exec[l].at \in {"completing", "failing"}
        /\ UNCHANGED <<configVars, storeVars, lease, waitKey, payload, sent, buffered, resumedBy>>
        /\ job' \in {job, "done", "dead", "pending"}
    BY <1>3 DEF DeliverComplete, DeliverFail, Requeued
  <2>2. exec' \in [Executions -> Execution] /\ KeepsOrLeaves(l)
    BY <1>3, GoKeeps, LeaveKeeps DEF DeliverComplete, DeliverFail, ContextInv, Places, Busy
  <2>3. LeasesInOrder' /\ AwaitedWrites' /\ SignalKept'
    BY <2>1, <2>2, OneMovesOn, NoWriteLeft DEF Busy
  <2>4. TypeOK'
    BY <2>1, <2>2 DEF ContextInv, TypeOK, Execution, Places
  <2> QED
    BY <2>3, <2>4 DEF ContextInv
<1>4. ASSUME CleanUp(l) \/ Crash(l) PROVE ContextInv'
  <2>1. /\ exec[l].at \in Busy /\ puts' \subseteq puts /\ Leave(l) /\ fast' \in {0, fast}
        /\ \A p \in puts' : p.lease # l
        /\ UNCHANGED <<configVars, durable, acked, engineVars>>
    BY <1>4 DEF CleanUp, Crash, Busy
  <2>2. exec' \in [Executions -> Execution] /\ KeepsOrLeaves(l)
    BY <2>1, LeaveKeeps DEF ContextInv
  <2>3. LeasesInOrder' /\ AwaitedWrites' /\ SignalKept'
    BY <2>1, <2>2, OneMovesOn
  <2>4. TypeOK'
    BY <2>1, <2>2, ContextAssumption DEF ContextInv, TypeOK, Execution, Places
  <2> QED
    BY <2>3, <2>4 DEF ContextInv
<1> QED
  BY <1>1, <1>2, <1>3, <1>4

LEMMA EngineStep ==
    ASSUME ContextInv, LeaseExpires \/ WaitExpires \/ (\E k \in Keys : SendSignal(k))
    PROVE  ContextInv'
<1> USE DEF storeVars, engineVars, configVars
<1>1. UNCHANGED <<redis, profile, exec, puts, fast, durable, acked, lease>>
  BY DEF LeaseExpires, WaitExpires, SendSignal
<1>2. job' \in {job, "pending", "dead"} /\ (job' = job \/ job \in {"leased", "waiting"})
  BY DEF LeaseExpires, WaitExpires, SendSignal, Requeued
<1>3. TypeOK'
  BY <1>1, <1>2 DEF ContextInv, TypeOK, LeaseExpires, WaitExpires, SendSignal
<1>4. LeasesInOrder' /\ AwaitedWrites'
  BY <1>1, <1>2 DEF ContextInv, LeasesInOrder, AwaitedWrites
<1>5. SignalKept'
  <2>1. CASE LeaseExpires \/ WaitExpires
    BY <1>1, <1>2, <2>1 DEF ContextInv, SignalKept, LeaseExpires, WaitExpires
  <2>2. ASSUME NEW k \in Keys, SendSignal(k) PROVE SignalKept'
    <3>1. k # NoKey
      BY ContextAssumption DEF NoKey
    <3> QED
      BY <1>1, <2>2, <3>1 DEF ContextInv, SignalKept, SendSignal, Requeued
  <2> QED
    BY <2>1, <2>2
<1> QED
  BY <1>3, <1>4, <1>5 DEF ContextInv

LEMMA GrantStep == ASSUME ContextInv, Grant PROVE ContextInv'
<1> USE DEF storeVars, engineVars, configVars
<1> DEFINE new == [Gone EXCEPT !.at = "running", !.progress = durable, !.event = payload]
<1>1. /\ job = "pending" /\ job' = "leased" /\ lease' = lease + 1 /\ lease' \in Executions
      /\ exec' = [exec EXCEPT ![lease'] = new]
      /\ UNCHANGED <<redis, profile, puts, fast, durable, acked, waitKey, payload, sent, buffered, resumedBy>>
  BY ContextAssumption DEF Grant, Executions, ContextInv, TypeOK
<1>2. new \in Execution /\ new.at = "running" /\ new.progress = durable /\ new.event = payload
  BY DEF Gone, Elsewhere, Execution, Places, Busy, ContextInv, TypeOK
<1> HIDE DEF new
<1>3. exec' \in [Executions -> Execution] /\ exec'[lease'] = new
      /\ \A l \in Executions \ {lease'} : exec'[l] = exec[l]
  BY <1>1, <1>2 DEF ContextInv, TypeOK, Execution, Places
<1>4. TypeOK'
  BY <1>1, <1>3 DEF ContextInv, TypeOK, Execution, Places, Executions
<1>5. LeasesInOrder'
  BY <1>1, <1>3 DEF ContextInv, TypeOK, LeasesInOrder, Executions
<1>6. ~redis => \A p \in puts : p.lease # lease'
  BY <1>1 DEF ContextInv, TypeOK, AwaitedWrites, LeasesInOrder, Executions
<1>7. AwaitedWrites'
  <2>1. durable <= durable
    BY DEF ContextInv, TypeOK
  <2> QED
    BY <1>1, <1>2, <1>3, <1>6, <2>1 DEF ContextInv, TypeOK, AwaitedWrites
<1>8. SignalKept'
  BY <1>1, <1>2, <1>3 DEF ContextInv, SignalKept
<1> QED
  BY <1>4, <1>5, <1>7, <1>8 DEF ContextInv

LEMMA CheckpointStep == ASSUME ContextInv, NEW l \in Executions, Checkpoint(l) PROVE ContextInv'
<1> USE DEF storeVars, engineVars, configVars
<1> DEFINE data == exec[l].progress + 1
           put == [lease |-> l, data |-> data, tries |-> 1]
<1>1. /\ exec[l].at = "running" /\ data \in 1..Work
      /\ UNCHANGED <<redis, profile, durable, job, lease, waitKey, payload, sent, buffered, resumedBy>>
  BY ContextAssumption DEF Checkpoint, ContextInv, TypeOK
<1>2. put \in [lease : Executions, data : 1..Work, tries : 1..PutAttempts]
  BY <1>1, ContextAssumption
<1>3. ASSUME NEW e, redis, VerbRaises(l, e), UNCHANGED <<puts, fast, acked>> PROVE ContextInv'
  <2>1. exec' \in [Executions -> Execution] /\ KeepsOrLeaves(l)
    BY <1>3, VerbRaisesKeeps DEF ContextInv
  <2>2. LeasesInOrder' /\ AwaitedWrites' /\ SignalKept'
    BY <1>1, <1>3, <2>1, OneMovesOn DEF Busy
  <2>3. TypeOK'
    BY <1>1, <1>3, <2>1 DEF ContextInv, TypeOK, Execution, Places
  <2> QED
    BY <2>2, <2>3 DEF ContextInv
<1>4. ASSUME redis, exec' = [exec EXCEPT ![l].progress = data], fast' = data,
             puts' = puts \cup {put}, Ack(l, data)
      PROVE  ContextInv'
  <2>1. acked' \in 0..Work
    BY <1>1, <1>4 DEF Ack, Larger, ContextInv, TypeOK
  <2> HIDE DEF put
  <2>2. TypeOK'
    <3>1. exec' \in [Executions -> Execution] /\ data \in 0..Work
      BY <1>1, <1>4 DEF ContextInv, TypeOK, Execution, Places
    <3> QED
      BY <1>1, <1>2, <1>4, <2>1, <3>1 DEF ContextInv, TypeOK, Execution, Places
  <2>3. /\ \A m \in Executions : exec'[m].at = exec[m].at /\ exec'[m].event = exec[m].event
    BY <1>4 DEF ContextInv, TypeOK
  <2>4. LeasesInOrder' /\ SignalKept'
    BY <1>1, <2>3 DEF ContextInv, LeasesInOrder, SignalKept
  <2>5. AwaitedWrites'
    BY <1>1, <1>4 DEF AwaitedWrites
  <2> QED
    BY <2>2, <2>4, <2>5 DEF ContextInv
<1>5. ASSUME ~redis, exec' = [exec EXCEPT ![l].progress = data, ![l].at = "putting"],
             puts' = puts \cup {put}, UNCHANGED <<fast, acked>>
      PROVE  ContextInv'
  <2>1. /\ exec' \in [Executions -> Execution]
        /\ exec'[l].at = "putting" /\ exec'[l].progress = data /\ exec'[l].event = exec[l].event
        /\ \A m \in Executions \ {l} : exec'[m] = exec[m]
    BY <1>1, <1>5 DEF ContextInv, TypeOK, Execution, Places, Busy
  <2>2. put.lease = l /\ put.data = data
    OBVIOUS
  <2>3. \A p \in puts : p.lease # l
    BY <1>1, <1>5, NoWriteLeft
  <2> HIDE DEF put
  <2>4. TypeOK'
    BY <1>1, <1>2, <1>5, <2>1 DEF ContextInv, TypeOK, Execution, Places
  <2>5. LeasesInOrder' /\ SignalKept'
    BY <1>1, <2>1 DEF ContextInv, LeasesInOrder, SignalKept, Busy
  <2>6. job = "leased" /\ lease = l => durable <= data
    BY <1>1, <1>5 DEF ContextInv, TypeOK, AwaitedWrites, Busy
  <2>7. AwaitedWrites'
    BY <1>1, <1>5, <2>1, <2>2, <2>3, <2>6 DEF ContextInv, TypeOK, AwaitedWrites
  <2> QED
    BY <2>4, <2>5, <2>7 DEF ContextInv
<1> QED
  BY <1>3, <1>4, <1>5 DEF Checkpoint

(* A write ends, and without Redis the handler that awaited it goes on.    *)
LEMMA WriteEnds ==
    ASSUME ContextInv, NEW p \in puts, puts' = puts \ {p},
           IF redis THEN exec' = exec
                    ELSE exec' \in [Executions -> Execution] /\ KeepsOrLeaves(p.lease),
           UNCHANGED <<redis, profile, fast, job, lease, waitKey, payload, sent, buffered, resumedBy>>,
           durable' = durable \/ (durable' = p.data /\ Open(p.lease)),
           acked' = acked \/ (Open(p.lease) /\ durable' = p.data /\ acked' = Larger(acked, p.data))
    PROVE  ContextInv'
<1>1. p.lease \in Executions /\ p.data \in 1..Work
  BY DEF ContextInv, TypeOK
<1>2. TypeOK'
  BY <1>1 DEF ContextInv, TypeOK, Execution, Places, Larger
<1>3. CASE redis
  BY <1>2, <1>3 DEF ContextInv, LeasesInOrder, AwaitedWrites, SignalKept
<1>4. CASE ~redis
  <2>1. exec[p.lease].at = "putting" /\ exec[p.lease].progress = p.data
    BY <1>4 DEF ContextInv, AwaitedWrites
  <2>2. \A q \in puts' : q.lease # p.lease
    BY <1>1, <1>4 DEF ContextInv, AwaitedWrites
  <2>3. Open(p.lease) => durable <= p.data /\ acked <= p.data
    BY <1>1, <1>4, <2>1 DEF ContextInv, TypeOK, AwaitedWrites, Open, Busy
  <2>4. \A l \in Executions \ {p.lease} : exec'[l] = exec[l]
    BY <1>4 DEF KeepsOrLeaves
  <2>5. exec'[p.lease].at \in Busy =>
           exec'[p.lease].progress = p.data /\ exec'[p.lease].event = exec[p.lease].event
    BY <1>4, <2>1 DEF KeepsOrLeaves, Gone, Elsewhere, Busy
  <2>6. LeasesInOrder'
    BY <1>1, <2>1, <2>4 DEF ContextInv, LeasesInOrder, Busy, TypeOK
  <2>7. acked' <= durable'
    BY <1>1, <1>4, <2>3 DEF ContextInv, TypeOK, AwaitedWrites, Larger
  <2>8. job = "leased" /\ exec'[lease].at \in Busy => durable' <= exec'[lease].progress
    <3>1. CASE lease = p.lease
      BY <1>1, <1>4, <2>3, <2>5, <3>1 DEF ContextInv, TypeOK, Open
    <3>2. CASE lease # p.lease /\ job = "leased"
      BY <1>4, <2>4, <3>2 DEF ContextInv, AwaitedWrites, LeasesInOrder, Open
    <3> QED
      BY <3>1, <3>2
  <2>9. AwaitedWrites'
    <3>1. \A q \in puts' : q \in puts /\ q.lease \in Executions \ {p.lease} /\ exec'[q.lease] = exec[q.lease]
      BY <2>2, <2>4 DEF ContextInv, TypeOK
    <3> QED
      BY <1>4, <2>7, <2>8, <3>1 DEF ContextInv, AwaitedWrites
  <2>10. SignalKept'
    <3>1. CASE lease = p.lease
      BY <2>1, <2>5, <3>1 DEF ContextInv, SignalKept, Busy
    <3>2. CASE lease # p.lease
      BY <2>4, <3>2 DEF ContextInv, SignalKept, LeasesInOrder
    <3> QED
      BY <3>1, <3>2
  <2> QED
    BY <1>2, <2>6, <2>9, <2>10 DEF ContextInv
<1> QED
  BY <1>3, <1>4

LEMMA PutStep == ASSUME ContextInv, NEW p \in puts, PutReturns(p) PROVE ContextInv'
<1> USE DEF storeVars, engineVars, configVars
<1>1. p.lease \in Executions /\ p.data \in 1..Work /\ p.tries \in 1..PutAttempts
      /\ p = [lease |-> p.lease, data |-> p.data, tries |-> p.tries]
  BY DEF ContextInv, TypeOK
<1>2. ASSUME PutApplied(p) PROVE ContextInv'
  <2>1. IF redis THEN exec' = exec
                 ELSE exec' \in [Executions -> Execution] /\ KeepsOrLeaves(p.lease)
    BY <1>1, <1>2, GoKeeps DEF PutApplied, ContextInv, Places, Busy
  <2>2. /\ puts' = puts \ {p} /\ durable' = p.data /\ Open(p.lease)
        /\ acked' = acked \/ acked' = Larger(acked, p.data)
        /\ UNCHANGED <<redis, profile, fast, job, lease, waitKey, payload, sent, buffered, resumedBy>>
    BY <1>2 DEF PutApplied, Ack
  <2> QED
    BY <2>1, <2>2, WriteEnds
<1>3. ASSUME NEW code, PutAbandoned(p, code),
             durable' \in {durable} \cup {d \in {p.data} : Open(p.lease)},
             UNCHANGED <<configVars, fast, engineVars>>
      PROVE  ContextInv'
  <2>1. IF redis THEN exec' = exec
                 ELSE exec' \in [Executions -> Execution] /\ KeepsOrLeaves(p.lease)
    BY <1>1, <1>3, VerbRaisesKeeps DEF PutAbandoned, ContextInv
  <2>2. puts' = puts \ {p} /\ acked' = acked
    BY <1>3 DEF PutAbandoned
  <2> QED
    BY <1>3, <2>1, <2>2, WriteEnds
<1>4. ASSUME PutLost(p), p.tries < PutAttempts PROVE ContextInv'
  <2> DEFINE again == [p EXCEPT !.tries = @ + 1]
  <2>1. /\ durable' = durable \/ (durable' = p.data /\ Open(p.lease))
        /\ puts' = (puts \ {p}) \cup {again}
        /\ UNCHANGED <<redis, profile, exec, fast, acked, job, lease, waitKey, payload, sent, buffered, resumedBy>>
    BY <1>4 DEF PutLost
  <2>2. again \in [lease : Executions, data : 1..Work, tries : 1..PutAttempts]
        /\ again.lease = p.lease /\ again.data = p.data
    BY <1>1, <1>4, ContextAssumption
  <2> HIDE DEF again
  <2>3. TypeOK'
    BY <1>1, <2>1, <2>2 DEF ContextInv, TypeOK
  <2>4. LeasesInOrder' /\ SignalKept'
    BY <2>1 DEF ContextInv, LeasesInOrder, SignalKept
  <2>5. AwaitedWrites'
    <3>1. SUFFICES ASSUME ~redis PROVE AwaitedWrites'
      BY <2>1 DEF AwaitedWrites
    <3>2. exec[p.lease].at = "putting" /\ exec[p.lease].progress = p.data
      BY <3>1 DEF ContextInv, AwaitedWrites
    <3>3. acked <= durable' /\ (job = "leased" /\ exec[lease].at \in Busy => durable' <= exec[lease].progress)
      <4>1. CASE durable' = durable
        BY <3>1, <4>1 DEF ContextInv, AwaitedWrites
      <4>2. CASE durable' = p.data /\ Open(p.lease)
        BY <1>1, <3>1, <3>2, <4>2 DEF ContextInv, TypeOK, AwaitedWrites, Open, Busy
      <4> QED
        BY <2>1, <4>1, <4>2
    <3>4. \A q \in puts \ {p} : q.lease # p.lease
      BY <3>1 DEF ContextInv, AwaitedWrites
    <3> QED
      BY <2>1, <2>2, <3>1, <3>2, <3>3, <3>4 DEF ContextInv, AwaitedWrites
  <2> QED
    BY <2>3, <2>4, <2>5 DEF ContextInv
<1>5. ASSUME PutLost(p) \/ PutRefused(p), ~(PutLost(p) /\ p.tries < PutAttempts)
      PROVE  /\ durable' \in {durable} \cup {d \in {p.data} : Open(p.lease)}
             /\ UNCHANGED <<configVars, fast, engineVars>>
             /\ PutAbandoned(p, "UNAVAILABLE") \/ PutAbandoned(p, "STALE_LEASE")
  BY <1>5 DEF PutLost, PutRefused
<1> QED
  BY <1>2, <1>3, <1>4, <1>5 DEF PutReturns

-----------------------------------------------------------------------------

LEMMA ContextInvariant == Spec => []ContextInv
<1>1. Init => ContextInv
  <2> SUFFICES ASSUME Init PROVE ContextInv
    OBVIOUS
  <2>1. Unborn \in Execution /\ Unborn.at = "none"
    <3>1. 0 \in 0..Work
      BY ContextAssumption
    <3> QED
      BY <3>1 DEF Unborn, Gone, Elsewhere, Execution, Places
  <2>2. TypeOK
    BY <2>1, ContextAssumption DEF Init, TypeOK, Execution, Places, NoKey
  <2>3. LeasesInOrder /\ AwaitedWrites /\ SignalKept
    BY <2>1 DEF Init, LeasesInOrder, AwaitedWrites, SignalKept
  <2> QED
    BY <2>2, <2>3 DEF ContextInv
<1>2. ContextInv /\ [Next]_vars => ContextInv'
  <2>1. ASSUME ContextInv, UNCHANGED vars PROVE ContextInv'
    BY <2>1 DEF ContextInv, TypeOK, LeasesInOrder, AwaitedWrites, SignalKept, vars, configVars,
                storeVars, engineVars, Open
  <2> QED
    BY <2>1, HandlerStep, EngineStep, GrantStep, CheckpointStep, PutStep DEF Next
<1> QED
  BY <1>1, <1>2, PTL DEF Spec

(* Every variable of the job and its executions keeps its type.            *)
THEOREM TypeCorrect == Spec => []TypeOK
<1>1. ContextInv => TypeOK
  BY DEF ContextInv
<1> QED
  BY <1>1, ContextInvariant, PTL

(* A signal that resumed the job is never waited for again.                *)
THEOREM SignalNeverLost == Spec => []SignalledWaitFlows
<1>1. ContextInv => SignalledWaitFlows
  BY DEF ContextInv, SignalKept, SignalledWaitFlows
<1> QED
  BY <1>1, ContextInvariant, PTL

(* Without Redis an execution starts from all that was confirmed.          *)
THEOREM ConfirmedIsResumed == Spec => ResumesFromConfirmed
<1>1. ContextInv /\ [Next]_vars =>
        [~redis /\ lease' # lease => exec'[lease'].progress >= acked]_vars
  <2> SUFFICES ASSUME ContextInv, Next, ~redis, lease' # lease
               PROVE  exec'[lease'].progress >= acked
    BY DEF vars, engineVars
  <2>1. Grant
    BY DEF Next, LeaseExpires, WaitExpires, SendSignal, Crash, Checkpoint, WaitForEvent, VerbFails,
       Return, RaiseOwn, DeliverComplete, CleanUp, DeliverFail, PutReturns, PutApplied, PutLost,
       PutRefused, engineVars
  <2>2. lease' \in Executions /\ exec'[lease'] = [Gone EXCEPT !.at = "running", !.progress = durable, !.event = payload]
    BY <2>1, ContextAssumption DEF Grant, Executions, ContextInv, TypeOK
  <2>3. exec'[lease'].progress = durable
    BY <2>2 DEF Gone, Elsewhere
  <2> QED
    BY <2>3 DEF ContextInv, TypeOK, AwaitedWrites
<1> QED
  BY <1>1, ContextInvariant, PTL DEF Spec, ResumesFromConfirmed

=============================================================================
