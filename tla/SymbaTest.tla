------------------------------ MODULE SymbaTest ------------------------------
(***************************************************************************)
(* symba.testing: the in-memory engine. SymbaTest keeps the job table      *)
(* (MemStore), fires chains, gates and on_failure jobs, buffers signals    *)
(* and runs each job through the real dispatcher when a caller drives it   *)
(* (tick, run_until_idle, result). IoCtxBackend.wait_for_event is the      *)
(* handler's side of a wait.                                               *)
(*                                                                         *)
(* Nothing in the store awaits, so one action is one method of SymbaTest.  *)
(* Several callers may drive at once (gather of two results). What a       *)
(* handler returns is open: that covers fail_next and fail_always, and the *)
(* handler that hears of its cancellation and fails. Payloads, results,    *)
(* the event ledger and checkpoints are data.                              *)
(***************************************************************************)
EXTENDS Integers, Sequences, FiniteSetsExt

CONSTANTS Drivers,     \* callers that drive the scheduler
          Keys,        \* wait keys
          NoKey,       \* no wait, or no payload
          Identities,  \* tenant:dedup_key
          NoIdentity,  \* no dedup_key
          Contexts,    \* ctx_ids
          Specs,       \* the jobs that are submitted, see JobSpec
          Plans,       \* the fan-outs that are made, see FanOutPlan
          MaxSubmits,  \* bound: calls of submit
          MaxFanOuts   \* bound: calls of fan_out

ChainLengths == 0..50

\* Seconds from the failure of the attempt before to this one.
Backoff(spec, attempt) == spec.base * spec.factor ^ (attempt - 1)

\* links is what follows the job in its chain, keys what its task may wait for.
SpecRecord == [links : ChainLengths, identity : Identities \cup {NoIdentity}, onFailure : BOOLEAN,
               maxAttempts : Nat \ {0}, base : Nat \ {0}, factor : Nat \ {0},
               keys : SUBSET Keys, ctx : Contexts]

\* Backoffs are in whole seconds.
JobSpec == {spec \in SpecRecord : \A attempt \in 1..spec.maxAttempts : Backoff(spec, attempt) \in Nat}

Policies == [kind : {"all_success", "all_terminal"}, n : {0}] \cup [kind : {"quorum"}, n : Nat]

\* on_complete is a sequence of no spec or one.
IsPlan(plan) ==
    /\ plan.children \in Seq(JobSpec)
    /\ plan.policy \in Policies
    /\ plan.onComplete \in Seq(JobSpec) /\ Len(plan.onComplete) <= 1
    /\ plan.ctx \in Contexts

ASSUME SymbaTestAssumption ==
    /\ NoKey \notin Keys /\ NoIdentity \notin Identities
    /\ MaxSubmits \in Nat /\ MaxFanOuts \in Nat
    /\ Specs \subseteq JobSpec
    /\ \A plan \in Plans : IsPlan(plan)

VARIABLES
    store,   \* MemStore: jobs and gates by number, dedup and pending_signals
    submits, \* calls of submit so far
    running, \* running[d]: the job d's dispatch is at, 0 for none
    waits    \* waits[d]: the waits of that execution that are over, with the
             \* key whose payload they returned

vars == <<store, submits, running, waits>>

States   == {"queued", "running", "waiting", "succeeded", "cancelled", "dead"}
Terminal == {"succeeded", "cancelled", "dead"}

\* delay is run_after - clock.now(), 0 when past. group is the gate whose firing
\* created the job, gate the one it belongs to, 0 for none.
JobRecord == [state : States, attempt : Nat \ {0}, spec : JobSpec, gate : Nat, group : Nat,
              skipped : BOOLEAN, waitKey : Keys \cup {NoKey}, event : Keys \cup {NoKey},
              delay : Nat]

Job == {job \in JobRecord :
          /\ job.attempt <= job.spec.maxAttempts /\ job.delay <= Backoff(job.spec, job.attempt)
          /\ job.state = "waiting" <=> job.waitKey # NoKey
          /\ job.skipped => job.state = "succeeded"}

\* continuation is the job that on_complete stands for, 0 before.
GateRecord == [children : Seq(Nat), policy : Policies, onComplete : Seq(JobSpec), ctx : Contexts,
               fired : BOOLEAN, failed : BOOLEAN, continuation : Nat]

Store == [jobs : Seq(Job), gates : Seq(GateRecord), dedup : [Identities -> Nat],
          pending : [Keys -> {"none", "payload", "empty"}]]

\* The numbers in a store are those of its jobs and gates.
Linked(s) ==
    /\ \A j \in DOMAIN s.jobs : s.jobs[j].gate <= Len(s.gates) /\ s.jobs[j].group <= Len(s.gates)
    /\ \A g \in DOMAIN s.gates : /\ s.gates[g].children \in Seq(DOMAIN s.jobs)
                                 /\ Len(s.gates[g].onComplete) <= 1
                                 /\ s.gates[g].continuation <= Len(s.jobs)
    /\ \A i \in Identities : s.dedup[i] <= Len(s.jobs)

TypeOK ==
    /\ store \in Store /\ Linked(store)
    /\ submits \in 0..MaxSubmits
    /\ running \in [Drivers -> {0} \cup DOMAIN store.jobs]
    /\ waits \in [Drivers -> SUBSET (Keys \X (Keys \cup {NoKey}))]

Init ==
    /\ store = [jobs |-> <<>>, gates |-> <<>>, dedup |-> [i \in Identities |-> 0],
                pending |-> [k \in Keys |-> "none"]]
    /\ submits = 0
    /\ running = [d \in Drivers |-> 0]
    /\ waits = [d \in Drivers |-> {}]

-----------------------------------------------------------------------------
(* The methods of SymbaTest, from a store to the next one.                 *)

NewJob(spec, gate, group) ==
    [state |-> "queued", attempt |-> 1, spec |-> spec, gate |-> gate, group |-> group,
     skipped |-> FALSE, waitKey |-> NoKey, event |-> NoKey, delay |-> 0]

\* An on_failure job: no chain, dedup key or on_failure of its own, one attempt.
FailureSpec(ctx) == [links |-> 0, identity |-> NoIdentity, onFailure |-> FALSE,
                     maxAttempts |-> 1, base |-> 1, factor |-> 2, keys |-> {}, ctx |-> ctx]

WithJob(s, j, job)   == [s EXCEPT !.jobs = [@ EXCEPT ![j] = job]]
WithGate(s, g, gate) == [s EXCEPT !.gates = [@ EXCEPT ![g] = gate]]

\* Mutant: a key is free again once its job has ended.
KnownWhileOpen(s, spec) ==
    /\ spec.identity \in Identities /\ s.dedup[spec.identity] # 0
    /\ s.jobs[s.dedup[spec.identity]].state \notin Terminal

Known(s, spec) == spec.identity \in Identities /\ s.dedup[spec.identity] # 0

\* The job a submission stands for: with a known dedup key, the first one.
EnqueuedJob(s, spec) == IF Known(s, spec) THEN s.dedup[spec.identity] ELSE Len(s.jobs) + 1

Enqueue(s, spec, gate, group) ==
    IF Known(s, spec) THEN s
    ELSE [s EXCEPT !.jobs = Append(@, NewJob(spec, gate, group)),
                   !.dedup = [i \in Identities |-> IF i = spec.identity THEN Len(s.jobs) + 1 ELSE @[i]]]

\* The children go in one by one, so one may be a duplicate of another.
AddChild(done, spec, gate) ==
    [store |-> Enqueue(done.store, spec, gate, 0),
     ids   |-> Append(done.ids, EnqueuedJob(done.store, spec))]

WithChildren(s, specs, gate) ==
    LET after[n \in 0..Len(specs)] == IF n = 0 THEN [store |-> s, ids |-> <<>>]
                                      ELSE AddChild(after[n - 1], specs[n], gate)
    IN  after[Len(specs)]

FanOutStore(s, plan) ==
    LET done == WithChildren(s, plan.children, Len(s.gates) + 1)
    IN  [done.store EXCEPT !.gates = Append(@,
            [children |-> done.ids, policy |-> plan.policy, onComplete |-> plan.onComplete,
             ctx |-> plan.ctx, fired |-> FALSE, failed |-> FALSE, continuation |-> 0])]

\* A skipped child is neither a success nor a failure.
Outcome(job) == IF job.skipped THEN "skipped" ELSE job.state

Open == States \ Terminal

\* How many children, duplicates counted, have one of these outcomes.
Children(s, g, outcomes) ==
    LET children == s.gates[g].children
    IN  Cardinality({i \in DOMAIN children : Outcome(s.jobs[children[i]]) \in outcomes})

\* The policy over the children as they are now, all of them terminal.
Satisfied(s, g) ==
    LET policy   == s.gates[g].policy
        expected == Len(s.gates[g].children)
    IN  \/ policy.kind = "all_success" /\ Children(s, g, {"dead"}) = 0
        \/ policy.kind = "all_terminal"
        \/ /\ policy.kind = "quorum"
           /\ \/ Children(s, g, {"succeeded"}) >= policy.n
              \/ Children(s, g, {"succeeded"}) >= expected

\* on_complete has an on_failure task: that runs instead.
FailGate(s, g) ==
    LET gate   == s.gates[g]
        failed == WithGate(s, g, [gate EXCEPT !.fired = TRUE, !.failed = TRUE])
    IN  IF gate.onComplete # <<>> /\ Head(gate.onComplete).onFailure
        THEN Enqueue(failed, FailureSpec(gate.ctx), 0, g) ELSE failed

ContinueGate(s, g) ==
    LET gate == s.gates[g]
        cont == [Head(gate.onComplete) EXCEPT !.ctx = gate.ctx]
    IN  IF gate.onComplete = <<>> THEN WithGate(s, g, [gate EXCEPT !.fired = TRUE])
        ELSE Enqueue(WithGate(s, g, [gate EXCEPT !.fired = TRUE, !.continuation = EnqueuedJob(s, cont)]),
                     cont, 0, g)

FireGate(s, g) == IF Satisfied(s, g) THEN ContinueGate(s, g) ELSE FailGate(s, g)

\* Forgetting that the gate has fired.
FireGateAgain(s, g) ==
    IF g = 0 \/ Children(s, g, Open) > 0 THEN s ELSE FireGate(s, g)

MaybeFireGate(s, g) ==
    IF g = 0 \/ s.gates[g].fired \/ Children(s, g, Open) > 0 THEN s ELSE FireGate(s, g)

\* The next link of the chain takes over what is left of it, and the gate.
AdvanceChain(s, j) ==
    LET job  == s.jobs[j]
        next == NewJob([job.spec EXCEPT !.links = @ - 1], job.gate, job.group)
    IN  [s EXCEPT !.jobs = Append([@ EXCEPT ![j] = [job EXCEPT !.spec = [@ EXCEPT !.links = 0]]], next)]

OnComplete(s, j, how) ==
    LET job  == s.jobs[j]
        done == WithJob(s, j, [job EXCEPT !.state = "succeeded", !.skipped = (how = "skip")])
        next == IF how = "stop_chain" \/ job.spec.links = 0 THEN done ELSE AdvanceChain(done, j)
    IN  MaybeFireGate(next, job.gate)

RetryLater(s, j) ==
    LET job == s.jobs[j]
    IN  WithJob(s, j, [job EXCEPT !.attempt = @ + 1, !.state = "queued",
                                  !.delay = Backoff(job.spec, job.attempt + 1)])

Bury(s, j) ==
    LET job  == s.jobs[j]
        dead == WithJob(s, j, [job EXCEPT !.state = "dead"])
    IN  IF job.spec.onFailure THEN Enqueue(dead, FailureSpec(job.spec.ctx), 0, 0) ELSE dead

Retries(job, retryable) == retryable /\ job.attempt < job.spec.maxAttempts

\* A dead job that does not count for its gate.
OnFailUnsettled(s, j, retryable) ==
    IF Retries(s.jobs[j], retryable) THEN RetryLater(s, j) ELSE Bury(s, j)

OnFail(s, j, retryable) ==
    IF Retries(s.jobs[j], retryable) THEN RetryLater(s, j)
    ELSE MaybeFireGate(Bury(s, j), s.jobs[j].gate)

\* What the caller may still cancel is cancelled; a running job is only told.
Cancelled(job) ==
    IF job.state \in {"queued", "waiting"}
    THEN [job EXCEPT !.state = "cancelled", !.waitKey = NoKey] ELSE job

\* Cancelling by ctx whatever has become of the jobs.
DoCancelUnchecked(s, j, cascade) ==
    [s EXCEPT !.jobs = [i \in DOMAIN @ |->
        IF i = j \/ (cascade /\ @[i].spec.ctx = @[j].spec.ctx /\ @[i].state # "running")
        THEN [@[i] EXCEPT !.state = "cancelled", !.waitKey = NoKey] ELSE @[i]]]

DoCancel(s, j, cascade) ==
    [s EXCEPT !.jobs = [i \in DOMAIN @ |->
        IF i = j \/ (cascade /\ @[j].state \in Open /\ @[i].spec.ctx = @[j].spec.ctx)
        THEN Cancelled(@[i]) ELSE @[i]]]

WaitingOn(s, k) == {j \in DOMAIN s.jobs : s.jobs[j].state = "waiting" /\ s.jobs[j].waitKey = k}

\* A payload of None is sent as no bytes, and a job resumed with no bytes is one
\* resumed without a payload.
SignalStore(s, k, payload) ==
    IF WaitingOn(s, k) = {}
    THEN [s EXCEPT !.pending = [@ EXCEPT ![k] = payload]]
    ELSE [s EXCEPT !.jobs = [j \in DOMAIN @ |->
            IF j \in WaitingOn(s, k)
            THEN [@[j] EXCEPT !.state = "queued", !.waitKey = NoKey, !.delay = 0,
                              !.event = IF payload = "payload" THEN k ELSE NoKey]
            ELSE @[j]]]

\* The first job that is queued and whose backoff is over; none if there is none.
Runnable(s) ==
    {j \in DOMAIN s.jobs : /\ s.jobs[j].state = "queued" /\ s.jobs[j].delay = 0
                           /\ \A i \in 1..(j - 1) : s.jobs[i].state = "queued" => s.jobs[i].delay > 0}

Pending(s) == {s.jobs[j].delay : j \in {i \in DOMAIN s.jobs : s.jobs[i].state = "queued"}} \ {0}

Sooner(job, seconds) == [job EXCEPT !.delay = IF @ > seconds THEN @ - seconds ELSE 0]

Advanced(s, seconds) == [s EXCEPT !.jobs = [j \in DOMAIN @ |-> Sooner(@[j], seconds)]]

-----------------------------------------------------------------------------
(* Callers: the test, or a handler through its ctx.                        *)

Submit(spec) ==
    /\ submits < MaxSubmits
    /\ submits' = submits + 1
    /\ store' = Enqueue(store, spec, 0, 0)
    /\ UNCHANGED <<running, waits>>

FanOut(plan) ==
    /\ Len(store.gates) < MaxFanOuts
    /\ store' = FanOutStore(store, plan)
    /\ UNCHANGED <<submits, running, waits>>

Signal(k, payload) ==
    /\ store' = SignalStore(store, k, payload)
    /\ UNCHANGED <<submits, running, waits>>

Cancel(j, cascade) ==
    /\ store' = DoCancel(store, j, cascade)
    /\ UNCHANGED <<submits, running, waits>>

-----------------------------------------------------------------------------
(* Drivers: run_until_idle, and result() until its job is terminal.        *)

Tick(d) ==
    /\ running[d] = 0
    /\ \E j \in Runnable(store) :
         /\ store' = WithJob(store, j, [store.jobs[j] EXCEPT !.state = "running"])
         /\ running' = [running EXCEPT ![d] = j]
    /\ waits' = [waits EXCEPT ![d] = {}]
    /\ UNCHANGED submits

\* Taking a parked job for work in progress.
AdvanceClockUnlessParked(d) ==
    /\ running[d] = 0
    /\ Runnable(store) = {} /\ Pending(store) # {}
    /\ \A j \in DOMAIN store.jobs : store.jobs[j].state # "waiting"
    /\ store' = Advanced(store, Min(Pending(store)))
    /\ UNCHANGED <<submits, running, waits>>

\* Nothing is runnable: on to the soonest retry.
AdvanceClock(d) ==
    /\ running[d] = 0
    /\ Runnable(store) = {} /\ Pending(store) # {}
    /\ store' = Advanced(store, Min(Pending(store)))
    /\ UNCHANGED <<submits, running, waits>>

\* The dispatch is over and the driver goes on.
Leave(d) ==
    /\ running' = [running EXCEPT ![d] = 0]
    /\ waits' = [waits EXCEPT ![d] = {}]
    /\ UNCHANGED submits

Complete(d) ==
    /\ running[d] # 0
    /\ \E how \in {"result", "skip", "stop_chain"} : store' = OnComplete(store, running[d], how)
    /\ Leave(d)

Fail(d) ==
    /\ running[d] # 0
    /\ \E retryable \in BOOLEAN : store' = OnFail(store, running[d], retryable)
    /\ Leave(d)

\* dispatch ends without an outcome: an exception of its own, or its caller's
\* cancellation between the handler and the report.
NoOutcome(d) ==
    /\ running[d] # 0
    /\ Leave(d)
    /\ UNCHANGED store

-----------------------------------------------------------------------------
(* ctx.wait_for_event                                                      *)

WaitEnds(d, k, payload) ==
    /\ waits' = [waits EXCEPT ![d] = @ \cup {<<k, payload>>}]
    /\ UNCHANGED <<submits, running>>

\* A resumed execution has the payload of its signal.
WaitReturns(d, k) ==
    /\ store.jobs[running[d]].event # NoKey
    /\ WaitEnds(d, k, store.jobs[running[d]].event)
    /\ UNCHANGED store

\* Wait finds a signal that came first.
WaitConsumes(d, k) ==
    /\ store.jobs[running[d]].event = NoKey
    /\ store.pending[k] # "none"
    /\ store' = [store EXCEPT !.pending = [@ EXCEPT ![k] = "none"]]
    /\ WaitEnds(d, k, IF store.pending[k] = "payload" THEN k ELSE NoKey)

Parked(s, j, k) == WithJob(s, j, [s.jobs[j] EXCEPT !.state = "waiting", !.waitKey = k])

\* Parking without a look at the signals.
WaitParksBlindly(d, k) ==
    /\ store.jobs[running[d]].event = NoKey
    /\ store' = Parked(store, running[d], k)
    /\ Leave(d)

\* Wait parks the job and the handler unwinds; nothing is reported.
WaitParks(d, k) ==
    /\ store.jobs[running[d]].event = NoKey
    /\ store.pending[k] = "none"
    /\ store' = Parked(store, running[d], k)
    /\ Leave(d)

WaitForEvent(d, k) ==
    /\ running[d] # 0
    /\ k \in store.jobs[running[d]].spec.keys
    /\ \A wait \in waits[d] : wait[1] # k
    /\ WaitReturns(d, k) \/ WaitConsumes(d, k) \/ WaitParks(d, k)

-----------------------------------------------------------------------------
Call ==
    \/ \E spec \in Specs : Submit(spec)
    \/ \E plan \in Plans : FanOut(plan)
    \/ \E k \in Keys, payload \in {"payload", "empty"} : Signal(k, payload)
    \/ \E j \in DOMAIN store.jobs, cascade \in BOOLEAN : Cancel(j, cascade)

Drive(d) ==
    \/ Tick(d) \/ AdvanceClock(d) \/ Complete(d) \/ Fail(d) \/ NoOutcome(d)
    \/ \E k \in Keys : WaitForEvent(d, k)

Next == Call \/ \E d \in Drivers : Drive(d)

Spec == Init /\ [][Next]_vars

\* A caller that drives goes on while there is work. A handler owes nothing.
Fairness == \A d \in Drivers : WF_vars(Tick(d) \/ AdvanceClock(d))

FairSpec == Spec /\ Fairness

-----------------------------------------------------------------------------
(* Safety.                                                                 *)

\* What ended stays ended: no signal, retry, cancellation or second execution
\* brings a terminal job back or changes how it ended.
TerminalIsFinal ==
    [][\A j \in DOMAIN store.jobs :
         store.jobs[j].state \in Terminal => /\ store'.jobs[j].state = store.jobs[j].state
                                             /\ store'.jobs[j].skipped = store.jobs[j].skipped]_vars

\* A gate that has fired keeps its verdict and its continuation, and a dedup key
\* the job that was first submitted with it ("first submit wins"), whatever is
\* reported, cancelled or submitted later.
FirstWordStands ==
    [][/\ \A g \in DOMAIN store.gates : store.gates[g].fired => store'.gates[g] = store.gates[g]
       /\ \A i \in Identities : store.dedup[i] # 0 => store'.dedup[i] = store.dedup[i]]_vars

\* A driver is at a job of its own, which is running.
RunsOwnJob ==
    /\ \A d \in Drivers : running[d] # 0 => store.jobs[running[d]].state = "running"
    /\ \A d, e \in Drivers : running[d] = running[e] /\ running[d] # 0 => d = e

\* A signal and the job that waits for it never miss each other.
SignalMeetsWaiter == \A k \in Keys : store.pending[k] # "none" => WaitingOn(store, k) = {}

\* A gate fires on its children's last word, by its policy, and starts one job, and
\* with it the rest of that job's chain.
GateVerdict ==
    \A g \in DOMAIN store.gates : LET gate == store.gates[g] IN
      /\ gate.fired => /\ Children(store, g, Open) = 0
                       /\ gate.failed = ~Satisfied(store, g)
      /\ Cardinality({j \in DOMAIN store.jobs : store.jobs[j].group = g}) <=
           IF gate.fired /\ gate.onComplete # <<>> THEN 1 + Head(gate.onComplete).links ELSE 0

\* A gate whose children were its own, ended, and were not cancelled has fired.
GateSettles ==
    \A g \in DOMAIN store.gates : LET children == Range(store.gates[g].children) IN
        /\ children # {}
        /\ \A j \in children : store.jobs[j].gate = g
                               /\ store.jobs[j].state \in Terminal \ {"cancelled"}
        => store.gates[g].fired

-----------------------------------------------------------------------------
(* Liveness.                                                               *)

HandlersEnd == \A d \in Drivers : []<>(running[d] = 0)
SignalsStop == <>[][\A k \in Keys, payload \in {"payload", "empty"} : ~Signal(k, payload)]_vars

\* Once the calls and the signals have ended, driving comes to an end with nothing
\* left queued: every retry comes due, every follow-up of a job or gate is run.
Quiesces ==
    HandlersEnd /\ SignalsStop =>
        <>[](\A j \in DOMAIN store.jobs : store.jobs[j].state # "queued")

-----------------------------------------------------------------------------
(* What the docs say and the code does not do.                             *)

\* A wait returns the payload that was signalled for its own key, or none: on a
\* resumed execution "the same key flows past the wait".
WaitsAnswerOwnKey == \A d \in Drivers : \A wait \in waits[d] : wait[2] \in {wait[1], NoKey}
=============================================================================
