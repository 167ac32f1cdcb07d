-------------------------- MODULE SymbaTest_proofs --------------------------
(***************************************************************************)
(* Proofs about SymbaTest, for any jobs, fan-outs, policies, keys and      *)
(* drivers. Every method of the engine maps one store to the next, so what *)
(* it does is stated of any store s and used of the variable at the end.   *)
(***************************************************************************)
EXTENDS SymbaTest, FiniteSetTheorems, WellFoundedInduction, TLAPS

-----------------------------------------------------------------------------
(* What is true of every store between two calls.                          *)

(* A gate that has fired fired on its children's last word, by its policy; *)
(* one that has not has not failed.                                        *)
Judged(s, g) ==
    /\ s.gates[g].fired => /\ Children(s, g, Open) = 0
                           /\ s.gates[g].failed = ~Satisfied(s, g)
    /\ ~s.gates[g].fired => ~s.gates[g].failed

Started(s, g) == {j \in DOMAIN s.jobs : s.jobs[j].group = g}

(* A gate starts a job only when it fires, one job of its group at most    *)
(* has links left, and there are no more to come than its chain has.       *)
Followed(s, g) ==
    /\ Started(s, g) # {} => s.gates[g].fired /\ s.gates[g].onComplete # <<>>
    /\ \A j \in Started(s, g) :
         s.jobs[j].spec.links + Cardinality(Started(s, g)) <= 1 + Head(s.gates[g].onComplete).links
    /\ \A i, j \in Started(s, g) : s.jobs[i].spec.links > 0 /\ s.jobs[j].spec.links > 0 => i = j

Met(s, k) == s.pending[k] # "none" => WaitingOn(s, k) = {}

Settled(s, g) ==
    LET children == Range(s.gates[g].children) IN
        /\ children # {}
        /\ \A j \in children : s.jobs[j].gate = g /\ s.jobs[j].state \in Terminal \ {"cancelled"}
        => s.gates[g].fired

Typed(s) == s \in Store /\ Linked(s)

Sound(s) ==
    /\ Typed(s)
    /\ \A k \in Keys : Met(s, k)
    /\ \A g \in DOMAIN s.gates : Judged(s, g) /\ Followed(s, g)

Settles(s) == \A g \in DOMAIN s.gates : Settled(s, g)

EngineInv == TypeOK /\ Sound(store) /\ Settles(store) /\ RunsOwnJob

(* From s to t no job goes away or changes its gate, what ended stays      *)
(* ended, and what runs goes on, with the exception of job b.              *)
Evolves(s, t, b) ==
    /\ Len(s.jobs) <= Len(t.jobs)
    /\ \A j \in DOMAIN s.jobs :
         /\ t.jobs[j].gate = s.jobs[j].gate /\ t.jobs[j].group = s.jobs[j].group
         /\ s.jobs[j].state \in Terminal => /\ t.jobs[j].state = s.jobs[j].state
                                            /\ t.jobs[j].skipped = s.jobs[j].skipped
         /\ s.jobs[j].state = "running" /\ j # b => t.jobs[j].state = "running"

(* From s to t jobs are submitted, and nothing else happens.               *)
Grows(s, t, gate, group) ==
    /\ t \in Store /\ t.gates = s.gates /\ t.pending = s.pending
    /\ Len(s.jobs) <= Len(t.jobs)
    /\ \A j \in DOMAIN s.jobs : t.jobs[j] = s.jobs[j]
    /\ \A j \in DOMAIN t.jobs \ DOMAIN s.jobs :
         t.jobs[j].state = "queued" /\ t.jobs[j].gate = gate /\ t.jobs[j].group = group
    /\ \A i \in Identities : t.dedup[i] <= Len(t.jobs)

-----------------------------------------------------------------------------
(* Submissions, one and many.                                              *)

LEMMA NewJobs ==
    ASSUME NEW spec \in JobSpec, NEW gate \in Nat, NEW group \in Nat
    PROVE  NewJob(spec, gate, group) \in Job
<1>1. 1 <= spec.maxAttempts /\ 1 \in 1..spec.maxAttempts
  BY DEF JobSpec, SpecRecord
<1>2. Backoff(spec, 1) \in Nat
  BY <1>1 DEF JobSpec
<1> QED
  BY <1>1, <1>2 DEF NewJob, Job, JobRecord, States

LEMMA LinksAreNat == \A spec \in JobSpec : spec.links \in Nat
BY DEF JobSpec, SpecRecord, ChainLengths

LEMMA FailureSpecs == ASSUME NEW ctx \in Contexts PROVE FailureSpec(ctx) \in JobSpec
<1> DEFINE spec == FailureSpec(ctx)
<1>1. spec \in SpecRecord
  BY DEF FailureSpec, SpecRecord, ChainLengths
<1>2. ASSUME NEW n \in 1..spec.maxAttempts PROVE Backoff(spec, n) \in Nat
  <2>1. n = 1 /\ spec.base = 1 /\ spec.factor = 2
    BY <1>2 DEF FailureSpec
  <2>2. 2 ^ 0 = 1
    OBVIOUS
  <2> QED
    BY <2>1, <2>2 DEF Backoff
<1> QED
  BY <1>1, <1>2 DEF JobSpec

LEMMA EnqueueIs ==
    ASSUME NEW s \in Store, \A i \in Identities : s.dedup[i] <= Len(s.jobs),
           NEW spec \in JobSpec, NEW gate \in Nat, NEW group \in Nat
    PROVE  LET t == Enqueue(s, spec, gate, group) IN
           /\ \/ t = s
              \/ /\ t \in Store /\ t.gates = s.gates /\ t.pending = s.pending
                 /\ t.jobs = Append(s.jobs, NewJob(spec, gate, group))
                 /\ \A i \in Identities : t.dedup[i] <= Len(t.jobs)
           /\ EnqueuedJob(s, spec) \in 1..Len(t.jobs)
<1> DEFINE t == Enqueue(s, spec, gate, group)
           job == NewJob(spec, gate, group)
<1> USE DEF Store
<1>1. job \in Job
  BY NewJobs
<1> HIDE DEF job
<1>2. CASE Known(s, spec)
  BY <1>2 DEF Known, Enqueue, EnqueuedJob
<1>3. CASE ~Known(s, spec)
  <2>1. /\ t.gates = s.gates /\ t.pending = s.pending
        /\ t.jobs = Append(s.jobs, job)
        /\ t.dedup = [i \in Identities |-> IF i = spec.identity THEN Len(s.jobs) + 1 ELSE s.dedup[i]]
        /\ t = [jobs |-> t.jobs, gates |-> t.gates, dedup |-> t.dedup, pending |-> t.pending]
    BY <1>3 DEF Enqueue, job
  <2>2. t.jobs \in Seq(Job) /\ Len(t.jobs) = Len(s.jobs) + 1
    BY <1>1, <2>1
  <2> HIDE DEF t
  <2>3. Len(s.jobs) + 1 \in Nat
    OBVIOUS
  <2>4. t.dedup \in [Identities -> Nat] /\ \A i \in Identities : t.dedup[i] <= Len(t.jobs)
    BY <2>1, <2>2, <2>3
  <2>5. t \in Store
    BY <2>1, <2>2, <2>4
  <2>6. EnqueuedJob(s, spec) \in 1..Len(t.jobs)
    BY <1>3, <2>2, <2>3 DEF EnqueuedJob
  <2> QED
    BY <2>1, <2>4, <2>5, <2>6 DEF t, job
<1> QED
  BY <1>2, <1>3

LEMMA EnqueueGrows ==
    ASSUME NEW s \in Store, \A i \in Identities : s.dedup[i] <= Len(s.jobs),
           NEW spec \in JobSpec, NEW gate \in Nat, NEW group \in Nat
    PROVE  /\ Grows(s, Enqueue(s, spec, gate, group), gate, group)
           /\ EnqueuedJob(s, spec) \in DOMAIN Enqueue(s, spec, gate, group).jobs
<1> DEFINE t == Enqueue(s, spec, gate, group)
<1>1. EnqueuedJob(s, spec) \in 1..Len(t.jobs)
  BY EnqueueIs
<1>2. CASE t = s
  BY <1>1, <1>2 DEF Grows, Store
<1>3. CASE /\ t \in Store /\ t.gates = s.gates /\ t.pending = s.pending
           /\ t.jobs = Append(s.jobs, NewJob(spec, gate, group))
           /\ \A i \in Identities : t.dedup[i] <= Len(t.jobs)
  <2> HIDE DEF t
  <2>1. DOMAIN t.jobs \ DOMAIN s.jobs = {Len(s.jobs) + 1}
    BY <1>3 DEF Store
  <2>2. t.jobs[Len(s.jobs) + 1] = NewJob(spec, gate, group) /\ \A j \in DOMAIN s.jobs : t.jobs[j] = s.jobs[j]
    BY <1>3 DEF Store
  <2>3. Grows(s, t, gate, group)
    BY <1>3, <2>1, <2>2 DEF Grows, Store, NewJob
  <2> QED
    BY <1>1, <1>3, <2>3 DEF t, Store
<1> QED
  BY <1>2, <1>3, EnqueueIs

(* Induction up to N, for a set.                                           *)
LEMMA UpTo ==
    ASSUME NEW N \in Nat, NEW S, 0 \in S, \A n \in 0..(N - 1) : n \in S => n + 1 \in S
    PROVE  0..N \subseteq S
<1> DEFINE R == OpToRel(<, Nat)
           T == (0..N) \ S
<1>1. \A x, y \in Nat : <<y, x>> \in R <=> y < x
  BY DEF OpToRel
<1>2. IsWellFoundedOn(R, Nat)
  BY NatLessThanWellFounded
<1> HIDE DEF R
<1>3. SUFFICES ASSUME T # {} PROVE FALSE
  OBVIOUS
<1>4. T \subseteq Nat
  OBVIOUS
<1>5. PICK x \in T : \A y \in T : ~(<<y, x>> \in R)
  BY <1>2, <1>3, <1>4, WFMin
<1>6. x \in Nat /\ x # 0 /\ x <= N
  OBVIOUS
<1>7. x - 1 \in T
  BY <1>6
<1>8. x - 1 \in Nat /\ x - 1 < x
  BY <1>6
<1>9. <<x - 1, x>> \in R
  BY <1>1, <1>6, <1>8
<1> QED
  BY <1>5, <1>7, <1>9

(* The states the fan-out goes through, child by child.                    *)
LEMMA ChildrenInOrder ==
    ASSUME NEW s, NEW S, NEW specs \in Seq(S), NEW gate
    PROVE  \E after : /\ after[0] = [store |-> s, ids |-> <<>>]
                      /\ \A n \in 1..Len(specs) : after[n] = AddChild(after[n - 1], specs[n], gate)
                      /\ WithChildren(s, specs, gate) = after[Len(specs)]
<1> DEFINE Base == [store |-> s, ids |-> <<>>]
           Steps(f, m) == f = [n \in 0..m |-> IF n = 0 THEN Base ELSE AddChild(f[n - 1], specs[n], gate)]
           N == Len(specs)
           S0 == {m \in 0..N : \E f : Steps(f, m)}
<1> HIDE DEF Base
<1>1. N \in Nat
  OBVIOUS
<1>2. 0 \in S0
  <2> DEFINE g == [n \in 0..0 |-> Base]
  <2>1. g = [n \in 0..0 |-> IF n = 0 THEN Base ELSE AddChild(g[n - 1], specs[n], gate)]
    OBVIOUS
  <2> HIDE DEF g
  <2>2. \E f : Steps(f, 0)
    BY <2>1
  <2> HIDE DEF Steps
  <2> QED
    BY <1>1, <2>2
<1>3. ASSUME NEW m \in 0..(N - 1), m \in S0 PROVE m + 1 \in S0
  <2>1. PICK f : Steps(f, m)
    BY <1>3
  <2> DEFINE g == [n \in 0..(m + 1) |-> IF n = m + 1 THEN AddChild(f[m], specs[m + 1], gate) ELSE f[n]]
  <2>2. \A n \in 0..(m + 1) : g[n] = IF n = 0 THEN Base ELSE AddChild(g[n - 1], specs[n], gate)
    BY <2>1
  <2>3. g = [n \in 0..(m + 1) |-> g[n]]
    OBVIOUS
  <2> HIDE DEF g
  <2>4. g = [n \in 0..(m + 1) |-> IF n = 0 THEN Base ELSE AddChild(g[n - 1], specs[n], gate)]
    BY <2>2, <2>3
  <2>5. \E h : Steps(h, m + 1)
    BY <2>4
  <2> HIDE DEF Steps
  <2> QED
    BY <1>1, <2>5
<1>4. 0..N \subseteq S0
  <2> HIDE DEF S0, N
  <2> QED
    BY <1>1, <1>2, <1>3, UpTo
<1>5. \E f : Steps(f, N)
  <2> HIDE DEF Steps
  <2> QED
    BY <1>1, <1>4
<1> DEFINE after == CHOOSE f : Steps(f, N)
<1>6. Steps(after, N)
  <2> HIDE DEF Steps
  <2> QED
    BY <1>5
<1>7. WithChildren(s, specs, gate) = after[N]
  BY DEF WithChildren, Base
<1> HIDE DEF after
<1>8. /\ after[0] = Base
      /\ \A n \in 1..N : after[n] = AddChild(after[n - 1], specs[n], gate)
  BY <1>1, <1>6
<1> QED
  BY <1>7, <1>8 DEF Base

LEMMA GrowsOn ==
    ASSUME NEW s \in Store, NEW t, NEW u, NEW gate, NEW group,
           Grows(s, t, gate, group), Grows(t, u, gate, group)
    PROVE  Grows(s, u, gate, group)
<1>1. Len(s.jobs) \in Nat /\ Len(t.jobs) \in Nat /\ Len(u.jobs) \in Nat
  BY DEF Grows, Store
<1>2. DOMAIN s.jobs = 1..Len(s.jobs) /\ DOMAIN t.jobs = 1..Len(t.jobs) /\ DOMAIN u.jobs = 1..Len(u.jobs)
  BY DEF Grows, Store
<1>3. DOMAIN s.jobs \subseteq DOMAIN t.jobs
  BY <1>1, <1>2 DEF Grows
<1> QED
  BY <1>1, <1>2, <1>3 DEF Grows

LEMMA LongerSeq ==
    ASSUME NEW m \in Nat, NEW n \in Nat, m <= n, NEW ids \in Seq(1..m), NEW id \in 1..n
    PROVE  Append(ids, id) \in Seq(1..n)
<1>1. \A k \in 1..Len(ids) : ids[k] \in 1..n
  OBVIOUS
<1>2. ids \in Seq(1..n)
  BY <1>1
<1> QED
  BY <1>2

LEMMA ChildrenGrow ==
    ASSUME NEW s \in Store, \A i \in Identities : s.dedup[i] <= Len(s.jobs),
           NEW specs \in Seq(JobSpec), NEW gate \in Nat
    PROVE  LET done == WithChildren(s, specs, gate) IN
           Grows(s, done.store, gate, 0) /\ done.ids \in Seq(DOMAIN done.store.jobs)
<1>1. PICK after : /\ after[0] = [store |-> s, ids |-> <<>>]
                   /\ \A n \in 1..Len(specs) : after[n] = AddChild(after[n - 1], specs[n], gate)
                   /\ WithChildren(s, specs, gate) = after[Len(specs)]
  BY ChildrenInOrder
<1> DEFINE Good(done) == Grows(s, done.store, gate, 0) /\ done.ids \in Seq(DOMAIN done.store.jobs)
           S == {n \in 0..Len(specs) : Good(after[n])}
<1>2. Len(specs) \in Nat
  OBVIOUS
<1>3. 0 \in S
  <2>1. Grows(s, s, gate, 0)
    BY DEF Grows, Store
  <2>2. <<>> \in Seq(DOMAIN s.jobs)
    OBVIOUS
  <2>3. after[0].store = s /\ after[0].ids = <<>>
    BY <1>1
  <2>4. Good(after[0])
    BY <2>1, <2>2, <2>3
  <2> HIDE DEF Good
  <2> QED
    BY <1>2, <2>4
<1>4. ASSUME NEW n \in 0..(Len(specs) - 1), n \in S PROVE n + 1 \in S
  <2>1. n + 1 \in 1..Len(specs) /\ (n + 1) - 1 = n
    BY <1>2
  <2> DEFINE t == after[n].store
             ids == after[n].ids
             spec == specs[n + 1]
             u == Enqueue(t, spec, gate, 0)
             id == EnqueuedJob(t, spec)
  <2>2. after[n + 1] = [store |-> u, ids |-> Append(ids, id)]
    <3>1. after[n + 1] = AddChild(after[n], specs[n + 1], gate)
      BY <1>1, <2>1
    <3> QED
      BY <3>1 DEF AddChild
  <2>3. /\ t \in Store /\ (\A i \in Identities : t.dedup[i] <= Len(t.jobs))
        /\ Grows(s, t, gate, 0) /\ ids \in Seq(DOMAIN t.jobs)
    BY <1>4 DEF Grows
  <2>4. spec \in JobSpec
    BY <2>1
  <2> HIDE DEF t, ids, spec
  <2>5. Grows(t, u, gate, 0) /\ id \in DOMAIN u.jobs
    BY <2>3, <2>4, EnqueueGrows
  <2> HIDE DEF u, id
  <2>6. Grows(s, u, gate, 0)
    BY <2>3, <2>5, GrowsOn
  <2>7. Append(ids, id) \in Seq(DOMAIN u.jobs)
    <3>1. /\ DOMAIN t.jobs = 1..Len(t.jobs) /\ DOMAIN u.jobs = 1..Len(u.jobs)
          /\ Len(t.jobs) \in Nat /\ Len(u.jobs) \in Nat /\ Len(t.jobs) <= Len(u.jobs)
      BY <2>3, <2>5 DEF Grows, Store
    <3> QED
      BY <2>3, <2>5, <3>1, LongerSeq
  <2>8. Good(after[n + 1])
    BY <2>2, <2>6, <2>7
  <2> QED
    BY <2>1, <2>8
<1>5. 0..Len(specs) \subseteq S
  <2> HIDE DEF S
  <2> QED
    BY <1>2, <1>3, <1>4, UpTo
<1> QED
  BY <1>1, <1>2, <1>5

-----------------------------------------------------------------------------
(* A gate and its children.                                                *)

LEMMA SpanOfJobs ==
    ASSUME NEW s \in Store
    PROVE  /\ Len(s.jobs) \in Nat /\ DOMAIN s.jobs = 1..Len(s.jobs)
           /\ Len(s.gates) \in Nat /\ DOMAIN s.gates = 1..Len(s.gates)
           /\ \A j \in DOMAIN s.jobs : s.jobs[j] \in Job
           /\ \A g \in DOMAIN s.gates : s.gates[g] \in GateRecord
BY DEF Store

(* A gate has no open child just when all of them have ended.              *)
LEMMA NoneOpen ==
    ASSUME NEW s, Typed(s), NEW g \in DOMAIN s.gates
    PROVE  Children(s, g, Open) = 0 <=> \A j \in Range(s.gates[g].children) : s.jobs[j].state \in Terminal
<1> DEFINE children == s.gates[g].children
           open == {i \in DOMAIN children : Outcome(s.jobs[children[i]]) \in Open}
<1>1. children \in Seq(DOMAIN s.jobs) /\ \A j \in DOMAIN s.jobs : s.jobs[j] \in Job
  BY SpanOfJobs DEF Typed, Linked
<1>2. \A i \in DOMAIN children :
        Outcome(s.jobs[children[i]]) \in Open <=> s.jobs[children[i]].state \notin Terminal
  <2>1. TAKE i \in DOMAIN children
  <2> DEFINE job == s.jobs[children[i]]
  <2>2. job \in Job
    BY <1>1
  <2> HIDE DEF job
  <2>3. job.state \in States /\ (job.skipped => job.state = "succeeded")
    BY <2>2 DEF Job, JobRecord
  <2>4. \/ Outcome(job) = "skipped" /\ job.state = "succeeded"
        \/ Outcome(job) = job.state
    BY <2>3 DEF Outcome
  <2>5. Outcome(job) \in Open <=> job.state \notin Terminal
    BY <2>3, <2>4 DEF Open, Terminal, States
  <2> QED
    BY <2>5 DEF job
<1>3. IsFiniteSet(open)
  <2>1. Len(children) \in Nat /\ DOMAIN children = 1..Len(children)
    BY <1>1
  <2>2. IsFiniteSet(1..Len(children))
    BY <2>1, FS_Interval
  <2> QED
    BY <2>1, <2>2, FS_Subset
<1>4. Cardinality(open) = 0 <=> open = {}
  <2> HIDE DEF open
  <2> QED
    BY <1>3, FS_EmptySet
<1>5. Children(s, g, Open) = Cardinality(open)
  BY DEF Children
<1>6. open = {} <=> \A i \in DOMAIN children : s.jobs[children[i]].state \in Terminal
  BY <1>2
<1> HIDE DEF open
<1>7. (\A i \in DOMAIN children : s.jobs[children[i]].state \in Terminal) <=>
      \A j \in Range(children) : s.jobs[j].state \in Terminal
  BY DEF Range
<1> QED
  BY <1>4, <1>5, <1>6, <1>7

(* What the policy sees are the outcomes of the children.                  *)
LEMMA SameVerdict ==
    ASSUME NEW s, NEW t, NEW g,
           t.gates[g].children = s.gates[g].children, t.gates[g].policy = s.gates[g].policy,
           \A j \in Range(s.gates[g].children) : Outcome(t.jobs[j]) = Outcome(s.jobs[j])
    PROVE  /\ \A outcomes : Children(t, g, outcomes) = Children(s, g, outcomes)
           /\ Satisfied(t, g) = Satisfied(s, g)
<1> DEFINE children == s.gates[g].children
<1>1. \A i \in DOMAIN children : Outcome(t.jobs[children[i]]) = Outcome(s.jobs[children[i]])
  BY DEF Range
<1>2. ASSUME NEW outcomes PROVE Children(t, g, outcomes) = Children(s, g, outcomes)
  <2>1. {i \in DOMAIN children : Outcome(t.jobs[children[i]]) \in outcomes}
          = {i \in DOMAIN children : Outcome(s.jobs[children[i]]) \in outcomes}
    BY <1>1
  <2> QED
    BY <2>1 DEF Children
<1>3. \A outcomes : Children(t, g, outcomes) = Children(s, g, outcomes)
  BY <1>2
<1>4. /\ Children(t, g, {"dead"}) = Children(s, g, {"dead"})
      /\ Children(t, g, {"succeeded"}) = Children(s, g, {"succeeded"})
  BY <1>2
<1>5. Satisfied(t, g) = Satisfied(s, g)
  BY <1>4 DEF Satisfied
<1> QED
  BY <1>3, <1>5

(* Once its children have ended, nothing changes what a gate sees.         *)
LEMMA VerdictStands ==
    ASSUME NEW s, NEW t, NEW b, Typed(s), Typed(t), Evolves(s, t, b), NEW g \in DOMAIN s.gates,
           t.gates[g].children = s.gates[g].children, t.gates[g].policy = s.gates[g].policy,
           Children(s, g, Open) = 0
    PROVE  Children(t, g, Open) = 0 /\ Satisfied(t, g) = Satisfied(s, g)
<1>1. s.gates[g].children \in Seq(DOMAIN s.jobs)
  BY DEF Typed, Linked
<1>2. \A j \in Range(s.gates[g].children) : j \in DOMAIN s.jobs
  BY <1>1 DEF Range
<1>3. \A j \in Range(s.gates[g].children) : s.jobs[j].state \in Terminal
  BY NoneOpen
<1>4. \A j \in Range(s.gates[g].children) : Outcome(t.jobs[j]) = Outcome(s.jobs[j])
  BY <1>2, <1>3 DEF Outcome, Evolves
<1> QED
  BY <1>4, SameVerdict

LEMMA SettledStands ==
    ASSUME NEW s, NEW t, NEW b, Typed(s), Evolves(s, t, b), NEW g \in DOMAIN s.gates,
           t.gates[g].children = s.gates[g].children, s.gates[g].fired => t.gates[g].fired,
           \A j \in DOMAIN s.jobs : s.jobs[j].gate = g /\ t.jobs[j].state \in Terminal \ {"cancelled"}
                                      => s.jobs[j].state = t.jobs[j].state,
           Settled(s, g)
    PROVE  Settled(t, g)
<1>1. \A j \in Range(s.gates[g].children) : j \in DOMAIN s.jobs
  BY DEF Range, Typed, Linked
<1>2. \A j \in Range(s.gates[g].children) : t.jobs[j].gate = s.jobs[j].gate
  BY <1>1 DEF Evolves
<1> DEFINE children == s.gates[g].children
<1>3. SUFFICES ASSUME Range(children) # {},
                      \A j \in Range(children) : t.jobs[j].gate = g /\ t.jobs[j].state \in Terminal \ {"cancelled"}
               PROVE  t.gates[g].fired
  BY DEF Settled
<1>4. \A j \in Range(children) : s.jobs[j].gate = g /\ s.jobs[j].state \in Terminal \ {"cancelled"}
  BY <1>1, <1>2, <1>3
<1> QED
  BY <1>3, <1>4 DEF Settled

LEMMA StartedFinite ==
    ASSUME NEW s \in Store, NEW g
    PROVE  IsFiniteSet(Started(s, g)) /\ Cardinality(Started(s, g)) \in Nat
<1>1. Len(s.jobs) \in Nat /\ DOMAIN s.jobs = 1..Len(s.jobs)
  BY SpanOfJobs
<1>2. Started(s, g) \subseteq 1..Len(s.jobs)
  BY <1>1 DEF Started
<1>3. IsFiniteSet(1..Len(s.jobs))
  BY <1>1, FS_Interval
<1>4. IsFiniteSet(Started(s, g))
  BY <1>2, <1>3, FS_Subset
<1> QED
  BY <1>4, FS_CardinalityType

(* A step that leaves the gates alone and starts no job of a gate.         *)
LEMMA SoundStands ==
    ASSUME NEW s, NEW t, NEW b, Sound(s), Typed(t), t.gates = s.gates, Evolves(s, t, b),
           \A j \in DOMAIN s.jobs : t.jobs[j].spec = s.jobs[j].spec,
           \A j \in DOMAIN t.jobs \ DOMAIN s.jobs : t.jobs[j].group = 0,
           \A k \in Keys : Met(t, k)
    PROVE  Sound(t)
<1>1. ASSUME NEW g \in DOMAIN t.gates PROVE Judged(t, g)
  <2>1. g \in DOMAIN s.gates /\ Judged(s, g) /\ Typed(s)
    BY DEF Sound
  <2> QED
    BY <2>1, VerdictStands DEF Judged
<1>2. ASSUME NEW g \in DOMAIN t.gates PROVE Followed(t, g)
  <2>1. g \in DOMAIN s.gates /\ Followed(s, g) /\ s \in Store /\ t \in Store
    BY DEF Sound, Typed
  <2>2. g # 0 /\ DOMAIN s.jobs \subseteq DOMAIN t.jobs
    BY <2>1, SpanOfJobs DEF Evolves
  <2>3. Started(t, g) = Started(s, g)
    BY <2>2 DEF Started, Evolves
  <2>4. \A j \in Started(s, g) : t.jobs[j].spec = s.jobs[j].spec
    BY DEF Started
  <2> QED
    BY <2>1, <2>3, <2>4 DEF Followed
<1> QED
  BY <1>1, <1>2 DEF Sound

-----------------------------------------------------------------------------
(* Steps that change or add jobs and leave the gates alone.                *)

LEMMA WiderSeq ==
    ASSUME NEW m \in Nat, NEW n \in Nat, m <= n, NEW ids \in Seq(1..m)
    PROVE  ids \in Seq(1..n)
<1>1. \A k \in 1..Len(ids) : ids[k] \in 1..n
  OBVIOUS
<1> QED
  BY <1>1

(* The numbers in a store stay good when jobs are added.                   *)
LEMMA LinkedStands ==
    ASSUME NEW s \in Store, NEW t \in Store, Linked(s), t.gates = s.gates, Len(s.jobs) <= Len(t.jobs),
           \A j \in DOMAIN t.jobs : t.jobs[j].gate <= Len(s.gates) /\ t.jobs[j].group <= Len(s.gates),
           \A i \in Identities : t.dedup[i] <= Len(t.jobs)
    PROVE  Linked(t)
<1>1. ASSUME NEW g \in DOMAIN t.gates
      PROVE  /\ t.gates[g].children \in Seq(DOMAIN t.jobs)
             /\ Len(t.gates[g].onComplete) <= 1 /\ t.gates[g].continuation <= Len(t.jobs)
  <2>1. /\ s.gates[g].children \in Seq(DOMAIN s.jobs)
        /\ Len(s.gates[g].onComplete) <= 1 /\ s.gates[g].continuation <= Len(s.jobs)
    BY DEF Linked
  <2>2. s.gates[g].continuation \in Nat
    BY SpanOfJobs DEF GateRecord
  <2>3. /\ Len(s.jobs) \in Nat /\ DOMAIN s.jobs = 1..Len(s.jobs)
        /\ Len(t.jobs) \in Nat /\ DOMAIN t.jobs = 1..Len(t.jobs)
    BY SpanOfJobs
  <2>4. s.gates[g].children \in Seq(1..Len(t.jobs))
    BY <2>1, <2>3, WiderSeq
  <2> QED
    BY <2>1, <2>2, <2>3, <2>4
<1> QED
  BY <1>1 DEF Linked

(* Submissions outside of any group: submit, a fan-out's children, an      *)
(* on_failure job.                                                         *)
LEMMA GrowsSound ==
    ASSUME NEW s, NEW t, NEW gate \in Nat, Sound(s), gate <= Len(s.gates), Grows(s, t, gate, 0)
    PROVE  Sound(t) /\ Evolves(s, t, 0)
<1>1. s \in Store /\ t \in Store /\ Linked(s)
  BY DEF Sound, Typed, Grows
<1>2. /\ Len(s.jobs) \in Nat /\ DOMAIN s.jobs = 1..Len(s.jobs) /\ Len(s.gates) \in Nat
      /\ Len(t.jobs) \in Nat /\ DOMAIN t.jobs = 1..Len(t.jobs) /\ Len(s.jobs) <= Len(t.jobs)
  BY <1>1, SpanOfJobs DEF Grows
<1>3. Evolves(s, t, 0)
  BY <1>2 DEF Evolves, Grows
<1>4. \A j \in DOMAIN t.jobs : t.jobs[j].gate <= Len(s.gates) /\ t.jobs[j].group <= Len(s.gates)
  BY <1>1, <1>2 DEF Grows, Linked
<1>5. Linked(t)
  BY <1>1, <1>2, <1>4, LinkedStands DEF Grows
<1>6. ASSUME NEW k \in Keys PROVE Met(t, k)
  <2>1. WaitingOn(t, k) = WaitingOn(s, k)
    BY <1>2 DEF WaitingOn, Grows
  <2> QED
    BY <2>1 DEF Met, Sound, Grows
<1> QED
  BY <1>1, <1>3, <1>5, <1>6, SoundStands DEF Grows, Typed

LEMMA GrowsSettles ==
    ASSUME NEW s, NEW t, NEW gate \in Nat, Sound(s), Settles(s), gate <= Len(s.gates), Grows(s, t, gate, 0)
    PROVE  Settles(t)
<1>1. ASSUME NEW g \in DOMAIN t.gates PROVE Settled(t, g)
  <2>1. g \in DOMAIN s.gates /\ Settled(s, g) /\ Evolves(s, t, 0) /\ Typed(s) /\ t.gates = s.gates
    BY GrowsSound DEF Settles, Grows, Sound
  <2>2. \A j \in DOMAIN s.jobs : t.jobs[j] = s.jobs[j]
    BY DEF Grows
  <2> QED
    BY <2>1, <2>2, SettledStands
<1> QED
  BY <1>1 DEF Settles

(* Jobs that change but keep where they belong and what ended or runs.     *)
LEMMA ChangeJobs ==
    ASSUME NEW s, NEW t, NEW b, Sound(s), t \in Store, t.gates = s.gates, t.dedup = s.dedup,
           Len(t.jobs) = Len(s.jobs),
           \A j \in DOMAIN s.jobs :
             /\ t.jobs[j].gate = s.jobs[j].gate /\ t.jobs[j].group = s.jobs[j].group
             /\ t.jobs[j].spec = s.jobs[j].spec
             /\ s.jobs[j].state \in Terminal => /\ t.jobs[j].state = s.jobs[j].state
                                                /\ t.jobs[j].skipped = s.jobs[j].skipped
             /\ s.jobs[j].state = "running" /\ j # b => t.jobs[j].state = "running",
           \A k \in Keys : Met(t, k)
    PROVE  Sound(t) /\ Evolves(s, t, b)
<1>1. s \in Store /\ Linked(s)
  BY DEF Sound, Typed
<1>2. /\ Len(s.jobs) \in Nat /\ DOMAIN s.jobs = 1..Len(s.jobs) /\ DOMAIN t.jobs = 1..Len(s.jobs)
  BY <1>1, SpanOfJobs
<1>3. Evolves(s, t, b)
  BY <1>2 DEF Evolves
<1>4. Linked(t)
  <2>1. \A j \in DOMAIN t.jobs : t.jobs[j].gate <= Len(s.gates) /\ t.jobs[j].group <= Len(s.gates)
    BY <1>1, <1>2 DEF Linked
  <2>2. \A i \in Identities : t.dedup[i] <= Len(t.jobs)
    BY <1>1 DEF Linked
  <2> QED
    BY <1>1, <1>2, <2>1, <2>2, LinkedStands
<1> QED
  BY <1>2, <1>3, <1>4, SoundStands DEF Typed

LEMMA WithJobIs ==
    ASSUME NEW s \in Store, NEW j \in DOMAIN s.jobs, NEW job \in Job
    PROVE  LET t == WithJob(s, j, job) IN
           /\ t \in Store /\ t.gates = s.gates /\ t.dedup = s.dedup /\ t.pending = s.pending
           /\ Len(t.jobs) = Len(s.jobs)
           /\ t.jobs[j] = job
           /\ \A i \in DOMAIN s.jobs \ {j} : t.jobs[i] = s.jobs[i]
<1> DEFINE t == WithJob(s, j, job)
<1>1. /\ t.gates = s.gates /\ t.dedup = s.dedup /\ t.pending = s.pending
      /\ t.jobs = [s.jobs EXCEPT ![j] = job]
      /\ t = [jobs |-> t.jobs, gates |-> t.gates, dedup |-> t.dedup, pending |-> t.pending]
  <2> DEFINE jobs == [s.jobs EXCEPT ![j] = job]
  <2>1. t = [s EXCEPT !.jobs = jobs]
    BY Zenon DEF WithJob
  <2> HIDE DEF jobs
  <2> QED
    BY <2>1 DEF Store, jobs
<1> HIDE DEF t
<1>2. s.jobs \in Seq(Job)
  BY DEF Store
<1>3. t.jobs \in Seq(Job) /\ Len(t.jobs) = Len(s.jobs)
  BY <1>1, <1>2
<1>4. t.jobs[j] = job /\ \A i \in DOMAIN s.jobs \ {j} : t.jobs[i] = s.jobs[i]
  BY <1>1, <1>2
<1>5. t \in Store
  BY <1>1, <1>3 DEF Store
<1> QED
  BY <1>1, <1>3, <1>4, <1>5 DEF t

(* One job that has not ended changes.                                     *)
LEMMA ChangeJob ==
    ASSUME NEW s, Sound(s), NEW j \in DOMAIN s.jobs, NEW job \in Job, NEW b,
           s.jobs[j].state \notin Terminal,
           job.gate = s.jobs[j].gate, job.group = s.jobs[j].group, job.spec = s.jobs[j].spec,
           job.state = "waiting" => s.pending[job.waitKey] = "none",
           s.jobs[j].state = "running" => b = j
    PROVE  Sound(WithJob(s, j, job)) /\ Evolves(s, WithJob(s, j, job), b)
<1> DEFINE t == WithJob(s, j, job)
<1>1. s \in Store
  BY DEF Sound, Typed
<1>2. /\ t \in Store /\ t.gates = s.gates /\ t.dedup = s.dedup /\ t.pending = s.pending
      /\ Len(t.jobs) = Len(s.jobs)
      /\ t.jobs[j] = job
      /\ \A i \in DOMAIN s.jobs \ {j} : t.jobs[i] = s.jobs[i]
  BY <1>1, WithJobIs
<1> HIDE DEF t
<1>3. DOMAIN t.jobs = DOMAIN s.jobs
  BY <1>1, <1>2, SpanOfJobs
<1>4. ASSUME NEW k \in Keys PROVE Met(t, k)
  <2>1. t.pending[k] # "none" => WaitingOn(s, k) = {}
    BY <1>2 DEF Sound, Met
  <2>2. \A i \in WaitingOn(t, k) : i \in WaitingOn(s, k) \/ (i = j /\ s.pending[k] = "none")
    BY <1>2, <1>3 DEF WaitingOn
  <2> QED
    BY <1>2, <2>1, <2>2 DEF Met
<1>5. Sound(t) /\ Evolves(s, t, b)
  BY <1>2, <1>4, ChangeJobs
<1> QED
  BY <1>5 DEF t

-----------------------------------------------------------------------------
(* The chain and the gate.                                                 *)

LEMMA AdvanceIs ==
    ASSUME NEW s \in Store, NEW j \in DOMAIN s.jobs, s.jobs[j].spec.links > 0
    PROVE  LET t    == AdvanceChain(s, j)
               next == t.jobs[Len(s.jobs) + 1]
           IN  /\ t \in Store /\ t.gates = s.gates /\ t.dedup = s.dedup /\ t.pending = s.pending
               /\ Len(t.jobs) = Len(s.jobs) + 1
               /\ \A i \in DOMAIN s.jobs \ {j} : t.jobs[i] = s.jobs[i]
               /\ t.jobs[j] = [s.jobs[j] EXCEPT !.spec = t.jobs[j].spec] /\ t.jobs[j].spec.links = 0
               /\ next.state = "queued" /\ next.gate = s.jobs[j].gate /\ next.group = s.jobs[j].group
               /\ next.spec.links = s.jobs[j].spec.links - 1
<1> DEFINE t     == AdvanceChain(s, j)
           job   == s.jobs[j]
           head  == [job.spec EXCEPT !.links = 0]
           tail  == [job.spec EXCEPT !.links = @ - 1]
           left  == [job EXCEPT !.spec = head]
           next  == NewJob(tail, job.gate, job.group)
           jobs  == Append([s.jobs EXCEPT ![j] = left], next)
<1>1. job \in Job /\ job \in JobRecord /\ job.spec \in JobSpec /\ job.spec \in SpecRecord
  BY SpanOfJobs DEF Job, JobRecord, JobSpec
<1>2. /\ head \in SpecRecord /\ head.maxAttempts = job.spec.maxAttempts
      /\ head.base = job.spec.base /\ head.factor = job.spec.factor /\ head.links = 0
  BY <1>1 DEF SpecRecord, ChainLengths
<1>3. /\ tail \in SpecRecord /\ tail.maxAttempts = job.spec.maxAttempts
      /\ tail.base = job.spec.base /\ tail.factor = job.spec.factor /\ tail.links = job.spec.links - 1
  BY <1>1 DEF SpecRecord, ChainLengths
<1>4. head \in JobSpec /\ tail \in JobSpec
  <2> HIDE DEF head, tail, job
  <2> QED
    BY <1>1, <1>2, <1>3 DEF JobSpec, Backoff
<1>5. t = [s EXCEPT !.jobs = jobs]
  <2>1. t = [s EXCEPT !.jobs = Append([@ EXCEPT ![j] = [s.jobs[j] EXCEPT !.spec = [@ EXCEPT !.links = 0]]], next)]
    BY DEF AdvanceChain
  <2> QED
    BY <2>1 DEF Store
<1>6. next \in Job
  <2>1. job.gate \in Nat /\ job.group \in Nat
    BY <1>1 DEF JobRecord
  <2> HIDE DEF tail, job
  <2> QED
    BY <1>4, <2>1, NewJobs
<1>7. next.state = "queued" /\ next.gate = job.gate /\ next.group = job.group /\ next.spec = tail
  BY DEF NewJob
<1>8. left \in Job /\ left.spec = head
  <2> HIDE DEF head
  <2> QED
    BY <1>1, <1>2, <1>4 DEF Job, JobRecord, Backoff
<1>9. s.jobs \in Seq(Job) /\ Len(s.jobs) \in Nat /\ DOMAIN s.jobs = 1..Len(s.jobs)
  BY DEF Store
<1> HIDE DEF next, left, t
<1>10. /\ jobs \in Seq(Job) /\ Len(jobs) = Len(s.jobs) + 1
       /\ \A i \in DOMAIN s.jobs \ {j} : jobs[i] = s.jobs[i]
       /\ jobs[j] = left /\ jobs[Len(s.jobs) + 1] = next
  BY <1>6, <1>8, <1>9
<1> HIDE DEF jobs
<1>11. t \in Store /\ t.gates = s.gates /\ t.dedup = s.dedup /\ t.pending = s.pending /\ t.jobs = jobs
  BY <1>5, <1>10 DEF Store
<1>12. left = [job EXCEPT !.spec = head]
  BY DEF left
<1> HIDE DEF job, head, tail
<1> QED
  BY <1>2, <1>3, <1>7, <1>8, <1>10, <1>11, <1>12 DEF t, job

(* The next link joins the group of the one before.                        *)
LEMMA AdvanceFollowed ==
    ASSUME NEW s \in Store, NEW j \in DOMAIN s.jobs, s.jobs[j].spec.links > 0,
           NEW g \in DOMAIN s.gates, Followed(s, g), s.gates[g] \in GateRecord
    PROVE  Followed(AdvanceChain(s, j), g)
<1> DEFINE t == AdvanceChain(s, j)
           new == Len(s.jobs) + 1
           G == Started(s, g)
           H == Started(t, g)
           limit == 1 + Head(s.gates[g].onComplete).links
<1>1. /\ t \in Store /\ t.gates = s.gates
      /\ Len(t.jobs) = new
      /\ \A i \in DOMAIN s.jobs \ {j} : t.jobs[i] = s.jobs[i]
      /\ t.jobs[j] = [s.jobs[j] EXCEPT !.spec = t.jobs[j].spec] /\ t.jobs[j].spec.links = 0
      /\ t.jobs[new].group = s.jobs[j].group
      /\ t.jobs[new].spec.links = s.jobs[j].spec.links - 1
  BY AdvanceIs
<1> HIDE DEF t
<1>2. DOMAIN s.jobs = 1..Len(s.jobs) /\ DOMAIN t.jobs = 1..new /\ new \notin DOMAIN s.jobs /\ new \in DOMAIN t.jobs
  BY <1>1, SpanOfJobs
<1>3. \A i \in DOMAIN s.jobs : t.jobs[i].group = s.jobs[i].group
  <2>1. s.jobs[j] \in JobRecord
    BY SpanOfJobs DEF Job
  <2>2. t.jobs[j].group = s.jobs[j].group
    BY <1>1, <2>1 DEF JobRecord
  <2> QED
    BY <1>1, <2>2
<1>4. IsFiniteSet(G) /\ Cardinality(G) \in Nat
  BY StartedFinite
<1>5. \A i \in DOMAIN s.jobs : s.jobs[i].spec.links \in Nat
  <2>1. \A i \in DOMAIN s.jobs : s.jobs[i].spec \in JobSpec
    BY SpanOfJobs DEF Job, JobRecord
  <2> QED
    BY <2>1, LinksAreNat
<1>6. CASE s.jobs[j].group # g
  <2>1. H = G
    BY <1>1, <1>2, <1>3, <1>6 DEF Started
  <2>2. \A i \in G : t.jobs[i].spec = s.jobs[i].spec
    BY <1>1, <1>6 DEF Started
  <2> HIDE DEF G, H
  <2> QED
    BY <1>1, <2>1, <2>2 DEF Followed, t, G, H
<1>7. CASE s.jobs[j].group = g
  <2>1. H = G \cup {new} /\ new \notin G /\ j \in G
    BY <1>1, <1>2, <1>3, <1>7 DEF Started
  <2>2. Cardinality(H) = Cardinality(G) + 1
    <3> HIDE DEF G, H, new
    <3> QED
      BY <1>4, <2>1, FS_AddElement
  <2>3. G # {} /\ s.gates[g].fired /\ s.gates[g].onComplete # <<>>
    BY <2>1 DEF Followed
  <2>4. s.gates[g].onComplete \in Seq(JobSpec)
    BY DEF GateRecord
  <2>5. Head(s.gates[g].onComplete).links \in Nat
    <3>1. Head(s.gates[g].onComplete) \in JobSpec
      BY <2>3, <2>4
    <3> QED
      BY <3>1 DEF JobSpec, SpecRecord, ChainLengths
  <2>6. /\ \A i \in G : s.jobs[i].spec.links + Cardinality(G) <= limit
        /\ \A i \in G : s.jobs[i].spec.links > 0 => i = j
    BY <2>1 DEF Followed
  <2>7. ASSUME NEW i \in H PROVE /\ t.jobs[i].spec.links + Cardinality(H) <= limit
                                 /\ t.jobs[i].spec.links > 0 => i = new
    <3> DEFINE L == s.jobs[j].spec.links
               C == Cardinality(G)
               M == Head(s.gates[g].onComplete).links
    <3>1. L \in Nat /\ C \in Nat /\ M \in Nat /\ L > 0 /\ L + C <= 1 + M
      BY <1>4, <1>5, <2>1, <2>5, <2>6
    <3>2. CASE i = new
      <4>1. t.jobs[i].spec.links = L - 1
        BY <1>1, <3>2
      <4> HIDE DEF L, C, M
      <4> QED
        BY <2>2, <3>1, <3>2, <4>1 DEF C, M
    <3>3. CASE i = j
      <4>1. t.jobs[i].spec.links = 0
        BY <1>1, <3>3
      <4> HIDE DEF L, C, M
      <4> QED
        BY <2>2, <3>1, <4>1 DEF C, M
    <3>4. CASE i # new /\ i # j
      <4>1. i \in G /\ t.jobs[i] = s.jobs[i]
        BY <1>1, <2>1, <3>4 DEF Started
      <4>2. t.jobs[i].spec.links = 0
        BY <1>5, <2>6, <3>4, <4>1 DEF Started
      <4> HIDE DEF L, C, M
      <4> QED
        BY <2>2, <3>1, <4>2 DEF C, M
    <3> QED
      BY <3>2, <3>3, <3>4
  <2> HIDE DEF G, H
  <2>8. Followed(t, g)
    BY <1>1, <2>3, <2>7 DEF Followed, H
  <2> QED
    BY <2>8 DEF t
<1> QED
  BY <1>6, <1>7

LEMMA AdvanceSound ==
    ASSUME NEW s, Sound(s), NEW j \in DOMAIN s.jobs, s.jobs[j].spec.links > 0
    PROVE  Sound(AdvanceChain(s, j)) /\ Evolves(s, AdvanceChain(s, j), 0)
<1> DEFINE t == AdvanceChain(s, j)
           new == Len(s.jobs) + 1
<1>1. s \in Store /\ Linked(s)
  BY DEF Sound, Typed
<1>2. /\ t \in Store /\ t.gates = s.gates /\ t.dedup = s.dedup /\ t.pending = s.pending
      /\ Len(t.jobs) = new
      /\ \A i \in DOMAIN s.jobs \ {j} : t.jobs[i] = s.jobs[i]
      /\ t.jobs[j] = [s.jobs[j] EXCEPT !.spec = t.jobs[j].spec]
      /\ t.jobs[new].state = "queued"
      /\ t.jobs[new].gate = s.jobs[j].gate /\ t.jobs[new].group = s.jobs[j].group
  BY <1>1, AdvanceIs
<1>3. \A g \in DOMAIN t.gates : Followed(t, g)
  <2>1. TAKE g \in DOMAIN t.gates
  <2>2. g \in DOMAIN s.gates
    BY <1>2
  <2>3. Followed(s, g) /\ s.gates[g] \in GateRecord
    BY <1>1, <2>2, SpanOfJobs DEF Sound
  <2> QED
    BY <1>1, <2>2, <2>3, AdvanceFollowed
<1> HIDE DEF t
<1>4. /\ Len(s.jobs) \in Nat /\ DOMAIN s.jobs = 1..Len(s.jobs) /\ DOMAIN t.jobs = 1..new
      /\ Len(s.gates) \in Nat
  BY <1>1, <1>2, SpanOfJobs
<1>5. /\ t.jobs[j].gate = s.jobs[j].gate /\ t.jobs[j].group = s.jobs[j].group
      /\ t.jobs[j].state = s.jobs[j].state /\ t.jobs[j].skipped = s.jobs[j].skipped
      /\ t.jobs[j].waitKey = s.jobs[j].waitKey
  <2>1. s.jobs[j] \in JobRecord
    BY <1>1, SpanOfJobs DEF Job
  <2> QED
    BY <1>2, <2>1 DEF JobRecord
<1>6. Evolves(s, t, 0)
  BY <1>2, <1>4, <1>5 DEF Evolves
<1>7. Linked(t)
  <2>1. \A i \in DOMAIN s.jobs : s.jobs[i].gate <= Len(s.gates) /\ s.jobs[i].group <= Len(s.gates)
    BY <1>1 DEF Linked
  <2>2. \A i \in DOMAIN t.jobs : t.jobs[i].gate <= Len(s.gates) /\ t.jobs[i].group <= Len(s.gates)
    BY <1>2, <1>4, <1>5, <2>1
  <2>3. \A i \in Identities : t.dedup[i] <= Len(t.jobs)
    <3>1. \A i \in Identities : s.dedup[i] \in Nat /\ s.dedup[i] <= Len(s.jobs)
      BY <1>1 DEF Linked, Store
    <3> QED
      BY <1>2, <1>4, <3>1
  <2> QED
    BY <1>1, <1>2, <1>4, <2>2, <2>3, LinkedStands
<1>8. ASSUME NEW k \in Keys PROVE Met(t, k)
  <2>1. \A i \in DOMAIN s.jobs : /\ t.jobs[i].state = s.jobs[i].state
                                /\ t.jobs[i].waitKey = s.jobs[i].waitKey
    BY <1>2, <1>5
  <2>2. DOMAIN t.jobs = DOMAIN s.jobs \cup {new} /\ t.jobs[new].state # "waiting"
    BY <1>2, <1>4
  <2> HIDE DEF new
  <2>3. WaitingOn(t, k) = WaitingOn(s, k)
    BY <2>1, <2>2 DEF WaitingOn
  <2> QED
    BY <1>2, <2>3 DEF Met, Sound
<1>9. ASSUME NEW g \in DOMAIN t.gates PROVE Judged(t, g)
  <2>1. g \in DOMAIN s.gates /\ Judged(s, g) /\ Typed(s) /\ Typed(t)
    BY <1>2, <1>7 DEF Sound, Typed
  <2> QED
    BY <1>2, <1>6, <2>1, VerdictStands DEF Judged
<1>10. Sound(t)
  BY <1>2, <1>3, <1>7, <1>8, <1>9 DEF Sound, Typed, t
<1> QED
  BY <1>6, <1>10 DEF t

LEMMA WithGateIs ==
    ASSUME NEW s \in Store, NEW g \in DOMAIN s.gates, NEW gate \in GateRecord
    PROVE  LET t == WithGate(s, g, gate) IN
           /\ t \in Store /\ t.jobs = s.jobs /\ t.dedup = s.dedup /\ t.pending = s.pending
           /\ Len(t.gates) = Len(s.gates) /\ DOMAIN t.gates = DOMAIN s.gates
           /\ t.gates[g] = gate
           /\ \A h \in DOMAIN s.gates \ {g} : t.gates[h] = s.gates[h]
<1> DEFINE t == WithGate(s, g, gate)
           gates == [s.gates EXCEPT ![g] = gate]
<1>1. t = [s EXCEPT !.gates = gates]
  BY Zenon DEF WithGate
<1>2. s.gates \in Seq(GateRecord)
  BY DEF Store
<1> HIDE DEF t
<1>3. gates \in Seq(GateRecord) /\ Len(gates) = Len(s.gates) /\ DOMAIN gates = DOMAIN s.gates
  BY <1>2
<1>4. gates[g] = gate /\ \A h \in DOMAIN s.gates \ {g} : gates[h] = s.gates[h]
  BY <1>2
<1> HIDE DEF gates
<1>5. t \in Store /\ t.jobs = s.jobs /\ t.dedup = s.dedup /\ t.pending = s.pending /\ t.gates = gates
  BY <1>1, <1>3 DEF Store
<1> QED
  BY <1>3, <1>4, <1>5 DEF t

(* A gate fires: it is marked and judged, and starts a job or none.        *)
LEMMA FiredSound ==
    ASSUME NEW s, Sound(s), NEW g \in DOMAIN s.gates, ~s.gates[g].fired, Children(s, g, Open) = 0,
           NEW t \in Store,
           t.pending = s.pending,
           Len(t.gates) = Len(s.gates), \A h \in DOMAIN s.gates \ {g} : t.gates[h] = s.gates[h],
           t.gates[g].children = s.gates[g].children, t.gates[g].policy = s.gates[g].policy,
           t.gates[g].onComplete = s.gates[g].onComplete,
           t.gates[g].fired, t.gates[g].failed = ~Satisfied(s, g),
           t.gates[g].continuation <= Len(t.jobs),
           \A i \in Identities : t.dedup[i] <= Len(t.jobs),
           \/ t.jobs = s.jobs
           \/ \E spec \in JobSpec :
                /\ t.jobs = Append(s.jobs, NewJob(spec, 0, g))
                /\ s.gates[g].onComplete # <<>>
                /\ spec.links <= Head(s.gates[g].onComplete).links
    PROVE  Sound(t) /\ Evolves(s, t, 0)
<1> DEFINE new == Len(s.jobs) + 1
<1>1. s \in Store /\ Linked(s) /\ Typed(s)
  BY DEF Sound, Typed
<1>2. /\ Len(s.jobs) \in Nat /\ DOMAIN s.jobs = 1..Len(s.jobs)
      /\ Len(t.jobs) \in Nat /\ DOMAIN t.jobs = 1..Len(t.jobs)
      /\ Len(s.gates) \in Nat /\ DOMAIN s.gates = 1..Len(s.gates) /\ DOMAIN t.gates = DOMAIN s.gates
  BY <1>1, SpanOfJobs
<1>3. /\ Len(s.jobs) <= Len(t.jobs)
      /\ \A j \in DOMAIN s.jobs : t.jobs[j] = s.jobs[j]
      /\ \A j \in DOMAIN t.jobs \ DOMAIN s.jobs :
           /\ j = new /\ t.jobs[j].state = "queued" /\ t.jobs[j].gate = 0 /\ t.jobs[j].group = g
           /\ s.gates[g].onComplete # <<>>
           /\ t.jobs[j].spec.links <= Head(s.gates[g].onComplete).links
  <2>1. CASE t.jobs = s.jobs
    BY <1>2, <2>1
  <2>2. CASE \E spec \in JobSpec : /\ t.jobs = Append(s.jobs, NewJob(spec, 0, g))
                                   /\ s.gates[g].onComplete # <<>>
                                   /\ spec.links <= Head(s.gates[g].onComplete).links
    <3>1. PICK spec \in JobSpec : /\ t.jobs = Append(s.jobs, NewJob(spec, 0, g))
                                  /\ s.gates[g].onComplete # <<>>
                                  /\ spec.links <= Head(s.gates[g].onComplete).links
      BY <2>2
    <3> DEFINE job == NewJob(spec, 0, g)
    <3>2. job.state = "queued" /\ job.gate = 0 /\ job.group = g /\ job.spec = spec
      BY DEF NewJob
    <3>3. t.jobs = Append(s.jobs, job)
      BY <3>1
    <3> HIDE DEF job
    <3>4. Len(t.jobs) = new /\ t.jobs[new] = job /\ \A j \in DOMAIN s.jobs : t.jobs[j] = s.jobs[j]
      BY <1>1, <1>2, <3>3 DEF Store
    <3> QED
      BY <1>2, <3>1, <3>2, <3>4
  <2> QED
    BY <2>1, <2>2
<1>4. Evolves(s, t, 0)
  BY <1>3 DEF Evolves
<1>5. Linked(t)
  <2>1. \A j \in DOMAIN t.jobs : t.jobs[j].gate <= Len(t.gates) /\ t.jobs[j].group <= Len(t.gates)
    BY <1>1, <1>2, <1>3 DEF Linked
  <2>2. ASSUME NEW h \in DOMAIN t.gates
        PROVE  /\ t.gates[h].children \in Seq(DOMAIN t.jobs)
               /\ Len(t.gates[h].onComplete) <= 1 /\ t.gates[h].continuation <= Len(t.jobs)
    <3>1. /\ h \in DOMAIN s.gates /\ t.gates[h].children = s.gates[h].children
          /\ t.gates[h].onComplete = s.gates[h].onComplete
      BY <1>2
    <3>2. s.gates[h].children \in Seq(1..Len(s.jobs)) /\ Len(s.gates[h].onComplete) <= 1
      BY <1>1, <1>2, <3>1 DEF Linked
    <3>3. s.gates[h].children \in Seq(1..Len(t.jobs))
      BY <1>2, <1>3, <3>2, WiderSeq
    <3>4. t.gates[h].continuation <= Len(t.jobs)
      <4>1. CASE h = g
        BY <4>1
      <4>2. CASE h # g
        <5>1. t.gates[h].continuation = s.gates[h].continuation /\ s.gates[h].continuation <= Len(s.jobs)
          BY <1>1, <3>1, <4>2 DEF Linked
        <5>2. s.gates[h].continuation \in Nat
          BY <1>1, <3>1, SpanOfJobs DEF GateRecord
        <5> QED
          BY <1>2, <1>3, <5>1, <5>2
      <4> QED
        BY <4>1, <4>2
    <3> QED
      BY <1>2, <3>1, <3>2, <3>3, <3>4
  <2> QED
    BY <2>1, <2>2 DEF Linked
<1>6. ASSUME NEW k \in Keys PROVE Met(t, k)
  <2>1. WaitingOn(t, k) = WaitingOn(s, k)
    BY <1>2, <1>3 DEF WaitingOn
  <2> QED
    BY <2>1 DEF Met, Sound
<1>7. ASSUME NEW h \in DOMAIN t.gates PROVE Judged(t, h)
  <2>1. h \in DOMAIN s.gates /\ Judged(s, h) /\ Typed(t)
    BY <1>2, <1>5 DEF Sound, Typed
  <2>2. CASE h = g
    BY <1>1, <1>4, <2>1, <2>2, VerdictStands DEF Judged
  <2>3. CASE h # g
    BY <1>1, <1>4, <2>1, <2>3, VerdictStands DEF Judged
  <2> QED
    BY <2>2, <2>3
<1>8. ASSUME NEW h \in DOMAIN t.gates PROVE Followed(t, h)
  <2>1. h \in DOMAIN s.gates /\ Followed(s, h) /\ t.gates[h].onComplete = s.gates[h].onComplete
    BY <1>2 DEF Sound
  <2>2. CASE h # g
    <3>1. Started(t, h) = Started(s, h)
      BY <1>2, <1>3, <2>2 DEF Started
    <3>2. \A j \in Started(s, h) : t.jobs[j] = s.jobs[j]
      BY <1>3 DEF Started
    <3> QED
      BY <2>1, <2>2, <3>1, <3>2 DEF Followed
  <2>3. CASE h = g
    <3>1. Started(s, g) = {}
      BY <2>1, <2>3 DEF Followed
    <3>2. \A j \in Started(t, g) : j = new /\ j \in DOMAIN t.jobs \ DOMAIN s.jobs
      BY <1>2, <1>3, <3>1 DEF Started
    <3>3. CASE Started(t, g) = {}
      BY <2>3, <3>3 DEF Followed
    <3>4. CASE Started(t, g) = {new}
      <4>1. new \in DOMAIN t.jobs \ DOMAIN s.jobs
        BY <3>2, <3>4
      <4>2. /\ s.gates[g].onComplete # <<>>
            /\ t.jobs[new].spec.links <= Head(s.gates[g].onComplete).links
        BY <1>3, <4>1
      <4>3. Cardinality(Started(t, g)) = 1
        <5>1. Cardinality({new}) = 1
          BY FS_Singleton
        <5> QED
          BY <3>4, <5>1
      <4>4. t.jobs[new].spec.links \in Nat /\ Head(s.gates[g].onComplete).links \in Nat
        <5>1. t.jobs[new] \in Job /\ s.gates[g] \in GateRecord
          BY <1>1, <4>1, SpanOfJobs
        <5>2. t.jobs[new].spec \in JobSpec
          BY <5>1 DEF Job, JobRecord
        <5>3. Head(s.gates[g].onComplete) \in JobSpec
          <6>1. s.gates[g].onComplete \in Seq(JobSpec)
            BY <5>1 DEF GateRecord
          <6> QED
            BY <4>2, <6>1
        <5> QED
          BY <5>2, <5>3, LinksAreNat
      <4> DEFINE L == t.jobs[new].spec.links
                 C == Cardinality(Started(t, g))
                 H == Head(s.gates[g].onComplete).links
      <4>5. L + C <= 1 + H
        <5>1. L <= H /\ C = 1 /\ L \in Nat /\ H \in Nat
          BY <4>2, <4>3, <4>4
        <5> HIDE DEF L, C, H
        <5> QED
          BY <5>1
      <4> QED
        BY <2>1, <2>3, <3>4, <4>2, <4>5 DEF Followed
    <3> QED
      BY <3>2, <3>3, <3>4
  <2> QED
    BY <2>2, <2>3
<1> QED
  BY <1>4, <1>5, <1>6, <1>7, <1>8 DEF Sound, Typed

LEMMA OtherContext ==
    ASSUME NEW spec \in JobSpec, NEW ctx \in Contexts
    PROVE  [spec EXCEPT !.ctx = ctx] \in JobSpec /\ [spec EXCEPT !.ctx = ctx].links = spec.links
<1> DEFINE new == [spec EXCEPT !.ctx = ctx]
<1>1. spec \in SpecRecord
  BY DEF JobSpec
<1>2. /\ new \in SpecRecord /\ new.maxAttempts = spec.maxAttempts /\ new.links = spec.links
      /\ new.base = spec.base /\ new.factor = spec.factor
  BY <1>1 DEF SpecRecord
<1> HIDE DEF new
<1>3. new \in JobSpec
  BY <1>2 DEF JobSpec, Backoff
<1> QED
  BY <1>2, <1>3 DEF new

(* Firing: other gates keep what they were, and the jobs what they are.    *)
LEMMA FireIs ==
    ASSUME NEW s, Sound(s), NEW g \in DOMAIN s.gates, ~s.gates[g].fired, Children(s, g, Open) = 0
    PROVE  LET t == FireGate(s, g) IN
           /\ Sound(t) /\ Evolves(s, t, 0)
           /\ t.gates[g].fired
           /\ Len(t.gates) = Len(s.gates) /\ \A h \in DOMAIN s.gates \ {g} : t.gates[h] = s.gates[h]
           /\ \A j \in DOMAIN s.jobs : t.jobs[j] = s.jobs[j]
<1> DEFINE gate == s.gates[g]
           t == FireGate(s, g)
<1>1. s \in Store /\ Linked(s) /\ gate \in GateRecord
  BY SpanOfJobs DEF Sound, Typed
<1>2. gate.ctx \in Contexts /\ gate.onComplete \in Seq(JobSpec) /\ gate.continuation \in Nat
  BY <1>1 DEF GateRecord
<1>3. gate.continuation <= Len(s.jobs) /\ \A i \in Identities : s.dedup[i] <= Len(s.jobs)
  BY <1>1 DEF Linked
<1>4. /\ Len(s.jobs) \in Nat /\ DOMAIN s.jobs = 1..Len(s.jobs)
      /\ Len(s.gates) \in Nat /\ DOMAIN s.gates = 1..Len(s.gates) /\ g \in Nat
  BY <1>1, SpanOfJobs
<1> DEFINE Fires(marked, u) ==
             /\ u.jobs = s.jobs /\ u \in Store /\ u.dedup = s.dedup /\ u.pending = s.pending
             /\ Len(u.gates) = Len(s.gates) /\ DOMAIN u.gates = DOMAIN s.gates
             /\ u.gates[g] = marked
             /\ \A h \in DOMAIN s.gates \ {g} : u.gates[h] = s.gates[h]
           Marks(marked) ==
             /\ marked \in GateRecord /\ marked.fired /\ marked.failed = ~Satisfied(s, g)
             /\ marked.children = gate.children /\ marked.policy = gate.policy
             /\ marked.onComplete = gate.onComplete
<1>5. ASSUME NEW marked, Marks(marked), marked.continuation <= Len(s.jobs), t = WithGate(s, g, marked)
      PROVE  /\ Sound(t) /\ Evolves(s, t, 0)
             /\ t.gates[g].fired
             /\ Len(t.gates) = Len(s.gates) /\ \A h \in DOMAIN s.gates \ {g} : t.gates[h] = s.gates[h]
             /\ \A j \in DOMAIN s.jobs : t.jobs[j] = s.jobs[j]
  <2>1. Fires(marked, t)
    BY <1>1, <1>5, WithGateIs
  <2> HIDE DEF t
  <2>2. Sound(t) /\ Evolves(s, t, 0)
    BY <1>3, <1>5, <2>1, FiredSound
  <2> QED
    BY <1>5, <2>1, <2>2
<1>6. ASSUME NEW marked, Marks(marked), NEW spec \in JobSpec,
             \/ marked.continuation <= Len(s.jobs)
             \/ marked.continuation = EnqueuedJob(s, spec),
             gate.onComplete # <<>>, spec.links <= Head(gate.onComplete).links,
             t = Enqueue(WithGate(s, g, marked), spec, 0, g)
      PROVE  /\ Sound(t) /\ Evolves(s, t, 0)
             /\ t.gates[g].fired
             /\ Len(t.gates) = Len(s.gates) /\ \A h \in DOMAIN s.gates \ {g} : t.gates[h] = s.gates[h]
             /\ \A j \in DOMAIN s.jobs : t.jobs[j] = s.jobs[j]
  <2> DEFINE u == WithGate(s, g, marked)
  <2>1. Fires(marked, u)
    BY <1>1, <1>6, WithGateIs
  <2> HIDE DEF t, u
  <2>2. t = Enqueue(u, spec, 0, g)
    BY <1>6 DEF u
  <2>3. EnqueuedJob(u, spec) = EnqueuedJob(s, spec)
    BY <2>1 DEF EnqueuedJob, Known
  <2>4. u \in Store /\ \A i \in Identities : u.dedup[i] <= Len(u.jobs)
    BY <1>3, <2>1
  <2>5. /\ \/ t = u
           \/ /\ t \in Store /\ t.gates = u.gates /\ t.pending = u.pending
              /\ t.jobs = Append(s.jobs, NewJob(spec, 0, g))
              /\ \A i \in Identities : t.dedup[i] <= Len(t.jobs)
        /\ EnqueuedJob(s, spec) \in 1..Len(t.jobs)
    <3>1. u.jobs = s.jobs
      BY <2>1
    <3> QED
      BY <1>4, <2>2, <2>3, <2>4, <3>1, EnqueueIs
  <2>6. Grows(u, t, 0, g)
    BY <1>4, <2>2, <2>4, EnqueueGrows
  <2>7. /\ t \in Store /\ t.gates = u.gates /\ t.pending = s.pending
        /\ Len(s.jobs) <= Len(t.jobs) /\ Len(t.jobs) \in Nat
    BY <2>1, <2>6, SpanOfJobs DEF Grows
  <2>8. t.gates[g].continuation <= Len(t.jobs)
    <3>1. marked.continuation \in Nat
      BY <1>6 DEF GateRecord
    <3> QED
      BY <1>4, <1>6, <2>1, <2>5, <2>7, <3>1
  <2>9. \/ t.jobs = s.jobs
        \/ \E sp \in JobSpec : /\ t.jobs = Append(s.jobs, NewJob(sp, 0, g))
                               /\ gate.onComplete # <<>> /\ sp.links <= Head(gate.onComplete).links
    BY <1>6, <2>1, <2>5
  <2>10. \A i \in Identities : t.dedup[i] <= Len(t.jobs)
    BY <2>6 DEF Grows
  <2>11. Sound(t) /\ Evolves(s, t, 0)
    BY <1>6, <2>1, <2>7, <2>8, <2>9, <2>10, FiredSound
  <2>12. \A j \in DOMAIN s.jobs : t.jobs[j] = s.jobs[j]
    BY <2>1, <2>6 DEF Grows
  <2> QED
    BY <1>6, <2>1, <2>7, <2>11, <2>12
<1>7. CASE ~Satisfied(s, g)
  <2> DEFINE marked == [gate EXCEPT !.fired = TRUE, !.failed = TRUE]
  <2>1. Marks(marked) /\ marked.continuation = gate.continuation
    BY <1>1, <1>7 DEF GateRecord
  <2>2. t = IF gate.onComplete # <<>> /\ Head(gate.onComplete).onFailure
            THEN Enqueue(WithGate(s, g, marked), FailureSpec(gate.ctx), 0, g)
            ELSE WithGate(s, g, marked)
    BY <1>7 DEF FireGate, FailGate
  <2> HIDE DEF marked, t
  <2>3. CASE t = WithGate(s, g, marked)
    BY <1>3, <1>5, <2>1, <2>3 DEF t
  <2>4. CASE gate.onComplete # <<>> /\ t = Enqueue(WithGate(s, g, marked), FailureSpec(gate.ctx), 0, g)
    <3>1. FailureSpec(gate.ctx) \in JobSpec /\ FailureSpec(gate.ctx).links = 0
      BY <1>2, FailureSpecs DEF FailureSpec
    <3>2. Head(gate.onComplete).links \in Nat
      <4>1. Head(gate.onComplete) \in JobSpec
        BY <1>2, <2>4
      <4> QED
        BY <4>1, LinksAreNat
    <3>3. FailureSpec(gate.ctx).links <= Head(gate.onComplete).links
      BY <3>1, <3>2
    <3> QED
      BY <1>3, <1>6, <2>1, <2>4, <3>1, <3>3 DEF t
  <2> QED
    BY <2>2, <2>3, <2>4 DEF t
<1>8. CASE Satisfied(s, g)
  <2>1. gate.failed = FALSE
    BY <1>1 DEF Sound, Judged, GateRecord
  <2> DEFINE cont == [Head(gate.onComplete) EXCEPT !.ctx = gate.ctx]
  <2>2. CASE gate.onComplete = <<>>
    <3> DEFINE marked == [gate EXCEPT !.fired = TRUE]
    <3>1. Marks(marked) /\ marked.continuation = gate.continuation
      BY <1>1, <1>8, <2>1 DEF GateRecord
    <3>2. t = WithGate(s, g, marked)
      BY <1>8, <2>2 DEF FireGate, ContinueGate
    <3> HIDE DEF marked, t
    <3> QED
      BY <1>3, <1>5, <3>1, <3>2 DEF t
  <2>3. CASE gate.onComplete # <<>>
    <3> DEFINE next == EnqueuedJob(s, cont)
               marked == [gate EXCEPT !.fired = TRUE, !.continuation = next]
    <3>1. Head(gate.onComplete) \in JobSpec
      BY <1>2, <2>3
    <3>2. cont \in JobSpec /\ cont.links = Head(gate.onComplete).links /\ cont.links \in Nat
      BY <1>2, <3>1, OtherContext, LinksAreNat
    <3>3. next \in Nat
      <4> HIDE DEF cont
      <4>1. next \in 1..Len(Enqueue(s, cont, 0, g).jobs)
        BY <1>1, <1>3, <1>4, <3>2, EnqueueIs
      <4> QED
        BY <4>1
    <3>4. t = Enqueue(WithGate(s, g, marked), cont, 0, g)
      BY <1>8, <2>3 DEF FireGate, ContinueGate
    <3> HIDE DEF next, cont
    <3>5. Marks(marked) /\ marked.continuation = next
      BY <1>1, <1>8, <2>1, <3>3 DEF GateRecord
    <3> HIDE DEF marked, t
    <3>6. cont.links <= Head(gate.onComplete).links
      BY <3>2
    <3> QED
      BY <1>6, <2>3, <3>2, <3>4, <3>5, <3>6 DEF t, next
  <2> QED
    BY <2>2, <2>3
<1> QED
  BY <1>7, <1>8

(* A job's gate is looked at when it ends: whatever the other gates are    *)
(* waiting for, this one is settled.                                       *)
LEMMA MaybeFireSettles ==
    ASSUME NEW s, Sound(s), NEW g \in 0..Len(s.gates), \A h \in DOMAIN s.gates \ {g} : Settled(s, h)
    PROVE  LET t == MaybeFireGate(s, g) IN Sound(t) /\ Settles(t) /\ Evolves(s, t, 0)
<1> DEFINE t == MaybeFireGate(s, g)
<1>1. s \in Store /\ Typed(s)
  BY DEF Sound, Typed
<1>2. Len(s.gates) \in Nat /\ DOMAIN s.gates = 1..Len(s.gates)
  BY <1>1, SpanOfJobs
<1>3. CASE g = 0 \/ s.gates[g].fired \/ Children(s, g, Open) > 0
  <2>1. t = s
    BY <1>3 DEF MaybeFireGate
  <2>2. Evolves(s, s, 0)
    BY <1>1, SpanOfJobs DEF Evolves
  <2>3. ASSUME g # 0 PROVE Settled(s, g)
    <3>1. g \in DOMAIN s.gates
      BY <1>2, <2>3
    <3>2. CASE s.gates[g].fired
      BY <3>2 DEF Settled
    <3>3. CASE Children(s, g, Open) > 0
      <4>1. Children(s, g, Open) # 0
        BY <3>3
      <4>2. \E j \in Range(s.gates[g].children) : s.jobs[j].state \notin Terminal
        BY <1>1, <3>1, <4>1, NoneOpen
      <4> QED
        BY <4>2 DEF Settled
    <3> QED
      BY <1>3, <2>3, <3>2, <3>3
  <2>4. Settles(s)
    BY <1>2, <2>3 DEF Settles
  <2> QED
    BY <2>1, <2>2, <2>4
<1>4. CASE ~(g = 0 \/ s.gates[g].fired \/ Children(s, g, Open) > 0)
  <2>1. t = FireGate(s, g)
    BY <1>4 DEF MaybeFireGate
  <2>2. g \in DOMAIN s.gates /\ ~s.gates[g].fired
    BY <1>2, <1>4
  <2>3. Children(s, g, Open) = 0
    <3>1. IsFiniteSet({i \in DOMAIN s.gates[g].children : Outcome(s.jobs[s.gates[g].children[i]]) \in Open})
      <4>1. s.gates[g].children \in Seq(DOMAIN s.jobs)
        BY <1>1, <2>2 DEF Typed, Linked
      <4> DEFINE n == Len(s.gates[g].children)
      <4>2. n \in Nat /\ DOMAIN s.gates[g].children = 1..n
        BY <4>1
      <4> HIDE DEF n
      <4>3. IsFiniteSet(1..n)
        BY <4>2, FS_Interval
      <4> QED
        BY <4>2, <4>3, FS_Subset
    <3>2. Children(s, g, Open) \in Nat
      BY <3>1, FS_CardinalityType DEF Children
    <3> QED
      BY <1>4, <3>2
  <2>4. /\ Sound(t) /\ Evolves(s, t, 0)
        /\ t.gates[g].fired
        /\ Len(t.gates) = Len(s.gates) /\ \A h \in DOMAIN s.gates \ {g} : t.gates[h] = s.gates[h]
        /\ \A j \in DOMAIN s.jobs : t.jobs[j] = s.jobs[j]
    BY <2>1, <2>2, <2>3, FireIs
  <2> HIDE DEF t
  <2>5. DOMAIN t.gates = DOMAIN s.gates
    BY <1>2, <2>4, SpanOfJobs DEF Sound, Typed
  <2>6. ASSUME NEW h \in DOMAIN t.gates PROVE Settled(t, h)
    <3>1. CASE h = g
      BY <2>4, <3>1 DEF Settled
    <3>2. CASE h # g
      <4>1. h \in DOMAIN s.gates /\ Settled(s, h) /\ t.gates[h] = s.gates[h]
        BY <2>4, <2>5, <3>2
      <4> QED
        BY <1>1, <2>4, <4>1, SettledStands
    <3> QED
      BY <3>1, <3>2
  <2> QED
    BY <2>4, <2>6 DEF Settles, t
<1> QED
  BY <1>3, <1>4

LEMMA EvolvesOn ==
    ASSUME NEW s \in Store, NEW t \in Store, NEW u \in Store, NEW b, NEW c, c \in {0, b},
           Evolves(s, t, b), Evolves(t, u, c)
    PROVE  Evolves(s, u, b)
<1>1. DOMAIN s.jobs \subseteq DOMAIN t.jobs /\ Len(s.jobs) <= Len(u.jobs) /\ 0 \notin DOMAIN s.jobs
  BY SpanOfJobs DEF Evolves
<1> QED
  BY <1>1 DEF Evolves

-----------------------------------------------------------------------------
(* The reports of an execution.                                            *)

(* A running job ends: gates other than its own wait for what they waited. *)
LEMMA JobEnds ==
    ASSUME NEW s, Sound(s), Settles(s), NEW j \in DOMAIN s.jobs, s.jobs[j].state = "running",
           NEW job \in Job, job.state \in {"succeeded", "dead"},
           job.gate = s.jobs[j].gate, job.group = s.jobs[j].group, job.spec = s.jobs[j].spec,
           NEW done, done = WithJob(s, j, job)
    PROVE  /\ Sound(done) /\ Evolves(s, done, j)
           /\ done.gates = s.gates /\ Len(done.jobs) = Len(s.jobs)
           /\ done.jobs[j].spec = s.jobs[j].spec
           /\ s.jobs[j].gate \in 0..Len(s.gates)
           /\ \A h \in DOMAIN s.gates \ {s.jobs[j].gate} : Settled(done, h)
<1>1. s \in Store /\ Typed(s) /\ s.jobs[j] \in Job
  BY SpanOfJobs DEF Sound, Typed
<1>4. Sound(done) /\ Evolves(s, done, j)
  BY ChangeJob DEF Terminal
<1>5. /\ done.gates = s.gates /\ Len(done.jobs) = Len(s.jobs) /\ done.jobs[j] = job
      /\ \A i \in DOMAIN s.jobs \ {j} : done.jobs[i] = s.jobs[i]
  BY <1>1, WithJobIs
<1>6. s.jobs[j].gate \in 0..Len(s.gates)
  <2>1. s.jobs[j].gate \in Nat /\ s.jobs[j].gate <= Len(s.gates) /\ Len(s.gates) \in Nat
    BY <1>1, SpanOfJobs DEF Typed, Linked, Job, JobRecord
  <2> QED
    BY <2>1
<1>7. ASSUME NEW h \in DOMAIN s.gates \ {s.jobs[j].gate} PROVE Settled(done, h)
  BY <1>1, <1>4, <1>5, <1>7, SettledStands DEF Settles
<1> QED
  BY <1>4, <1>5, <1>6, <1>7

LEMMA JobSucceeds ==
    ASSUME NEW job \in Job, job.state = "running", NEW how
    PROVE  LET ended == [job EXCEPT !.state = "succeeded", !.skipped = (how = "skip")] IN
           /\ ended \in Job /\ ended.gate = job.gate /\ ended.group = job.group
           /\ ended.spec = job.spec /\ ended.state = "succeeded"
<1> DEFINE skips == how = "skip"
           ended == [job EXCEPT !.state = "succeeded", !.skipped = skips]
<1>1. skips \in BOOLEAN
  OBVIOUS
<1> HIDE DEF skips
<1>2. job \in JobRecord /\ job.attempt <= job.spec.maxAttempts
      /\ job.delay <= Backoff(job.spec, job.attempt) /\ job.waitKey = NoKey
  BY DEF Job
<1>3. /\ ended \in JobRecord /\ ended.gate = job.gate /\ ended.group = job.group
      /\ ended.spec = job.spec /\ ended.state = "succeeded"
      /\ ended.attempt = job.attempt /\ ended.delay = job.delay /\ ended.waitKey = job.waitKey
  BY <1>1, <1>2 DEF JobRecord, States
<1> HIDE DEF ended
<1>4. ended \in Job
  BY <1>2, <1>3 DEF Job
<1> QED
  BY <1>3, <1>4 DEF ended, skips

LEMMA JobDies ==
    ASSUME NEW job \in Job, job.state = "running"
    PROVE  LET ended == [job EXCEPT !.state = "dead"] IN
           /\ ended \in Job /\ ended.gate = job.gate /\ ended.group = job.group
           /\ ended.spec = job.spec /\ ended.state = "dead"
BY DEF Job, JobRecord, States

LEMMA OnCompleteIs ==
    ASSUME NEW s, Sound(s), Settles(s), NEW j \in DOMAIN s.jobs, s.jobs[j].state = "running", NEW how
    PROVE  LET t == OnComplete(s, j, how) IN Sound(t) /\ Settles(t) /\ Evolves(s, t, j)
<1> DEFINE job  == s.jobs[j]
           done == WithJob(s, j, [job EXCEPT !.state = "succeeded", !.skipped = (how = "skip")])
           next == IF how = "stop_chain" \/ job.spec.links = 0 THEN done ELSE AdvanceChain(done, j)
           t    == OnComplete(s, j, how)
<1>1. s \in Store /\ s.jobs[j] \in Job
  BY SpanOfJobs DEF Sound, Typed
<1>2. /\ Sound(done) /\ Evolves(s, done, j)
      /\ done.gates = s.gates /\ Len(done.jobs) = Len(s.jobs) /\ done.jobs[j].spec = job.spec
      /\ job.gate \in 0..Len(s.gates)
      /\ \A h \in DOMAIN s.gates \ {job.gate} : Settled(done, h)
  <2> DEFINE ended == [job EXCEPT !.state = "succeeded", !.skipped = (how = "skip")]
  <2>1. /\ ended \in Job /\ ended.gate = job.gate /\ ended.group = job.group
        /\ ended.spec = job.spec /\ ended.state = "succeeded"
    BY <1>1, JobSucceeds
  <2>2. done = WithJob(s, j, ended)
    OBVIOUS
  <2> HIDE DEF ended, done
  <2> QED
    BY <2>1, <2>2, JobEnds
<1>3. t = MaybeFireGate(next, job.gate)
  BY DEF OnComplete
<1> HIDE DEF done, t
<1>4. done \in Store /\ Typed(done) /\ j \in DOMAIN done.jobs
  BY <1>1, <1>2, SpanOfJobs DEF Sound, Typed
<1>5. /\ Sound(next) /\ Evolves(s, next, j) /\ next.gates = s.gates
      /\ \A h \in DOMAIN s.gates \ {job.gate} : Settled(next, h)
  <2>1. CASE next = done
    BY <1>2, <2>1
  <2>2. CASE next = AdvanceChain(done, j) /\ job.spec.links # 0
    <3>1. job.spec.links > 0
      <4>1. job.spec \in JobSpec
        BY <1>1 DEF Job, JobRecord
      <4>2. job.spec.links \in Nat
        BY <4>1, LinksAreNat
      <4> QED
        BY <2>2, <4>2
    <3>2. Sound(next) /\ Evolves(done, next, 0)
      BY <1>2, <1>4, <2>2, <3>1, AdvanceSound
    <3>3. next \in Store
      BY <3>2 DEF Sound, Typed
    <3>4. Evolves(s, next, j)
      BY <1>1, <1>2, <1>4, <3>2, <3>3, EvolvesOn
    <3>5. /\ next.gates = s.gates
          /\ \A i \in DOMAIN done.jobs \ {j} : next.jobs[i] = done.jobs[i]
          /\ next.jobs[j] = [done.jobs[j] EXCEPT !.spec = next.jobs[j].spec]
      BY <1>2, <1>4, <2>2, <3>1, AdvanceIs
    <3>6. \A i \in DOMAIN done.jobs : next.jobs[i].state = done.jobs[i].state
      <4>1. done.jobs[j] \in JobRecord
        BY <1>4, SpanOfJobs DEF Job
      <4>2. next.jobs[j].state = done.jobs[j].state
        BY <3>5, <4>1 DEF JobRecord
      <4> QED
        BY <3>5, <4>2
    <3>7. ASSUME NEW h \in DOMAIN s.gates \ {job.gate} PROVE Settled(next, h)
      <4>1. Settled(done, h) /\ h \in DOMAIN done.gates /\ next.gates[h] = done.gates[h]
        BY <1>2, <3>5
      <4> HIDE DEF next
      <4> QED
        BY <1>4, <3>2, <3>6, <4>1, SettledStands
    <3> QED
      BY <3>2, <3>4, <3>5, <3>7
  <2> QED
    BY <2>1, <2>2
<1> HIDE DEF next
<1>6. Sound(t) /\ Settles(t) /\ Evolves(next, t, 0)
  <2> HIDE DEF job
  <2> QED
    BY <1>2, <1>3, <1>5, MaybeFireSettles
<1>7. Evolves(s, t, j)
  BY <1>1, <1>5, <1>6, EvolvesOn DEF Sound, Typed
<1> QED
  BY <1>6, <1>7 DEF t

LEMMA BuryIs ==
    ASSUME NEW s, Sound(s), Settles(s), NEW j \in DOMAIN s.jobs, s.jobs[j].state = "running"
    PROVE  LET t == MaybeFireGate(Bury(s, j), s.jobs[j].gate) IN Sound(t) /\ Settles(t) /\ Evolves(s, t, j)
<1> DEFINE job  == s.jobs[j]
           dead == WithJob(s, j, [job EXCEPT !.state = "dead"])
           next == Bury(s, j)
           t    == MaybeFireGate(next, job.gate)
<1>1. s \in Store /\ job \in Job
  BY SpanOfJobs DEF Sound, Typed
<1>2. /\ Sound(dead) /\ Evolves(s, dead, j)
      /\ dead.gates = s.gates /\ Len(dead.jobs) = Len(s.jobs)
      /\ job.gate \in 0..Len(s.gates)
      /\ \A h \in DOMAIN s.gates \ {job.gate} : Settled(dead, h)
  <2> DEFINE ended == [job EXCEPT !.state = "dead"]
  <2>1. /\ ended \in Job /\ ended.gate = job.gate /\ ended.group = job.group
        /\ ended.spec = job.spec /\ ended.state = "dead"
    BY <1>1, JobDies
  <2>2. dead = WithJob(s, j, ended)
    OBVIOUS
  <2> HIDE DEF ended, dead
  <2> QED
    BY <2>1, <2>2, JobEnds
<1>3. next = IF job.spec.onFailure THEN Enqueue(dead, FailureSpec(job.spec.ctx), 0, 0) ELSE dead
  BY DEF Bury
<1> HIDE DEF dead, next
<1>4. dead \in Store /\ Typed(dead)
  BY <1>2 DEF Sound, Typed
<1>5. /\ Sound(next) /\ Evolves(s, next, j) /\ next.gates = s.gates
      /\ \A h \in DOMAIN s.gates \ {job.gate} : Settled(next, h)
  <2>1. CASE next = dead
    BY <1>2, <2>1
  <2>2. CASE next = Enqueue(dead, FailureSpec(job.spec.ctx), 0, 0)
    <3>1. FailureSpec(job.spec.ctx) \in JobSpec
      <4>1. job.spec.ctx \in Contexts
        BY <1>1 DEF Job, JobRecord, JobSpec, SpecRecord
      <4> QED
        BY <4>1, FailureSpecs
    <3>2. Grows(dead, next, 0, 0)
      BY <1>4, <2>2, <3>1, EnqueueGrows DEF Typed, Linked
    <3>3. Sound(next) /\ Evolves(dead, next, 0)
      <4>1. 0 <= Len(dead.gates)
        BY <1>4, SpanOfJobs
      <4> QED
        BY <1>2, <3>2, <4>1, GrowsSound
    <3>4. Evolves(s, next, j)
      BY <1>1, <1>2, <1>4, <3>3, EvolvesOn DEF Sound, Typed
    <3>5. next.gates = s.gates /\ \A i \in DOMAIN dead.jobs : next.jobs[i] = dead.jobs[i]
      BY <1>2, <3>2 DEF Grows
    <3>6. ASSUME NEW h \in DOMAIN s.gates \ {job.gate} PROVE Settled(next, h)
      <4>1. Settled(dead, h) /\ h \in DOMAIN dead.gates /\ next.gates[h] = dead.gates[h]
        BY <1>2, <3>5
      <4> QED
        BY <1>4, <3>3, <3>5, <4>1, SettledStands
    <3> QED
      BY <3>3, <3>4, <3>5, <3>6
  <2> QED
    BY <1>3, <2>1, <2>2
<1>6. Sound(t) /\ Settles(t) /\ Evolves(next, t, 0)
  <2> HIDE DEF job
  <2> QED
    BY <1>2, <1>5, MaybeFireSettles
<1> HIDE DEF t
<1>7. Evolves(s, t, j)
  BY <1>1, <1>5, <1>6, EvolvesOn DEF Sound, Typed
<1> QED
  BY <1>6, <1>7 DEF t, next

LEMMA SettlesStands ==
    ASSUME NEW s, NEW t, NEW b, Sound(s), Settles(s), t.gates = s.gates, Evolves(s, t, b),
           \A j \in DOMAIN s.jobs :
             t.jobs[j].state \in Terminal \ {"cancelled"} => s.jobs[j].state = t.jobs[j].state
    PROVE  Settles(t)
<1>1. ASSUME NEW g \in DOMAIN t.gates PROVE Settled(t, g)
  <2>1. g \in DOMAIN s.gates /\ Settled(s, g) /\ t.gates[g] = s.gates[g] /\ Typed(s)
    BY DEF Settles, Sound
  <2> QED
    BY <2>1, SettledStands
<1> QED
  BY <1>1 DEF Settles

(* A job that goes on: it is taken, parked or retried.                     *)
LEMMA JobGoesOn ==
    ASSUME NEW s, Sound(s), Settles(s), NEW j \in DOMAIN s.jobs, NEW job \in Job, NEW b,
           s.jobs[j].state \notin Terminal, job.state \in Open,
           job.gate = s.jobs[j].gate, job.group = s.jobs[j].group, job.spec = s.jobs[j].spec,
           job.state = "waiting" => s.pending[job.waitKey] = "none",
           s.jobs[j].state = "running" => b = j
    PROVE  LET t == WithJob(s, j, job) IN Sound(t) /\ Settles(t) /\ Evolves(s, t, b) /\ t.jobs[j] = job
                                          /\ Len(t.jobs) = Len(s.jobs)
<1> DEFINE t == WithJob(s, j, job)
<1>1. s \in Store
  BY DEF Sound, Typed
<1>2. Sound(t) /\ Evolves(s, t, b)
  BY ChangeJob
<1>3. t.gates = s.gates /\ t.jobs[j] = job /\ (\A i \in DOMAIN s.jobs \ {j} : t.jobs[i] = s.jobs[i])
      /\ Len(t.jobs) = Len(s.jobs)
  BY <1>1, WithJobIs
<1> HIDE DEF t
<1>4. \A i \in DOMAIN s.jobs : t.jobs[i].state \in Terminal \ {"cancelled"} => s.jobs[i].state = t.jobs[i].state
  BY <1>3 DEF Open
<1>5. Settles(t)
  BY <1>2, <1>3, <1>4, SettlesStands
<1> QED
  BY <1>2, <1>3, <1>5 DEF t

LEMMA RetryLaterIs ==
    ASSUME NEW s, Sound(s), Settles(s), NEW j \in DOMAIN s.jobs, s.jobs[j].state = "running",
           s.jobs[j].attempt < s.jobs[j].spec.maxAttempts
    PROVE  LET t == RetryLater(s, j) IN Sound(t) /\ Settles(t) /\ Evolves(s, t, j)
<1> DEFINE job  == s.jobs[j]
           next == [job EXCEPT !.attempt = @ + 1, !.state = "queued", !.delay = Backoff(job.spec, job.attempt + 1)]
<1>1. job \in Job /\ job.state = "running" /\ job.attempt < job.spec.maxAttempts
  BY SpanOfJobs DEF Sound, Typed
<1>2. RetryLater(s, j) = WithJob(s, j, next)
  BY DEF RetryLater
<1>3. /\ next \in Job /\ next.state = "queued"
      /\ next.gate = job.gate /\ next.group = job.group /\ next.spec = job.spec
  <2> HIDE DEF job
  <2>1. job \in JobRecord /\ job.waitKey = NoKey /\ job.skipped = FALSE
    BY <1>1 DEF Job, JobRecord
  <2>2. job.attempt \in Nat \ {0} /\ job.spec \in JobSpec /\ job.spec.maxAttempts \in Nat
    BY <2>1 DEF JobRecord, JobSpec, SpecRecord
  <2>3. job.attempt + 1 \in 1..job.spec.maxAttempts /\ job.attempt + 1 \in Nat \ {0}
    BY <1>1, <2>2
  <2>4. Backoff(job.spec, job.attempt + 1) \in Nat
    BY <2>2, <2>3 DEF JobSpec
  <2>5. /\ next \in JobRecord /\ next.state = "queued" /\ next.attempt = job.attempt + 1
        /\ next.delay = Backoff(job.spec, job.attempt + 1) /\ next.waitKey = NoKey /\ next.skipped = FALSE
        /\ next.gate = job.gate /\ next.group = job.group /\ next.spec = job.spec
    BY <2>1, <2>3, <2>4 DEF JobRecord, States
  <2>6. next.attempt <= next.spec.maxAttempts /\ next.delay <= Backoff(next.spec, next.attempt)
    BY <2>3, <2>4, <2>5
  <2> HIDE DEF next
  <2> QED
    BY <2>5, <2>6 DEF Job
<1> HIDE DEF next
<1> QED
  BY <1>1, <1>2, <1>3, JobGoesOn DEF Terminal, Open, States

LEMMA OnFailIs ==
    ASSUME NEW s, Sound(s), Settles(s), NEW j \in DOMAIN s.jobs, s.jobs[j].state = "running", NEW retryable
    PROVE  LET t == OnFail(s, j, retryable) IN Sound(t) /\ Settles(t) /\ Evolves(s, t, j)
BY BuryIs, RetryLaterIs DEF OnFail, Retries

LEMMA TickIs ==
    ASSUME NEW s, Sound(s), Settles(s), NEW j \in DOMAIN s.jobs, s.jobs[j].state = "queued"
    PROVE  LET t == WithJob(s, j, [s.jobs[j] EXCEPT !.state = "running"]) IN
           Sound(t) /\ Settles(t) /\ Evolves(s, t, 0) /\ t.jobs[j].state = "running" /\ Len(t.jobs) = Len(s.jobs)
<1> DEFINE job  == s.jobs[j]
           next == [job EXCEPT !.state = "running"]
<1>1. job \in Job /\ job.state = "queued"
  BY SpanOfJobs DEF Sound, Typed
<1>2. /\ next \in Job /\ next.state = "running"
      /\ next.gate = job.gate /\ next.group = job.group /\ next.spec = job.spec
  <2> HIDE DEF job
  <2> QED
    BY <1>1 DEF Job, JobRecord, States
<1> HIDE DEF next
<1>3. LET t == WithJob(s, j, next) IN
      Sound(t) /\ Settles(t) /\ Evolves(s, t, 0) /\ t.jobs[j] = next /\ Len(t.jobs) = Len(s.jobs)
  BY <1>1, <1>2, JobGoesOn DEF Terminal, Open, States
<1> QED
  BY <1>2, <1>3 DEF next

LEMMA ParkedIs ==
    ASSUME NEW s, Sound(s), Settles(s), NEW j \in DOMAIN s.jobs, s.jobs[j].state = "running",
           NEW k \in Keys, s.pending[k] = "none"
    PROVE  LET t == Parked(s, j, k) IN Sound(t) /\ Settles(t) /\ Evolves(s, t, j)
<1> DEFINE job  == s.jobs[j]
           next == [job EXCEPT !.state = "waiting", !.waitKey = k]
<1>1. job \in Job /\ job.state = "running"
  BY SpanOfJobs DEF Sound, Typed
<1>2. Parked(s, j, k) = WithJob(s, j, next)
  BY DEF Parked
<1>3. /\ next \in Job /\ next.state = "waiting" /\ next.waitKey = k
      /\ next.gate = job.gate /\ next.group = job.group /\ next.spec = job.spec
  <2> HIDE DEF job
  <2> QED
    <3>1. k # NoKey /\ k \in Keys \cup {NoKey} /\ "waiting" \in States
      BY SymbaTestAssumption DEF States
    <3>2. /\ next \in JobRecord /\ next.state = "waiting" /\ next.waitKey = k
          /\ next.gate = job.gate /\ next.group = job.group /\ next.spec = job.spec
          /\ next.attempt = job.attempt /\ next.delay = job.delay /\ next.skipped = job.skipped
      BY <1>1, <3>1 DEF Job, JobRecord
    <3>3. /\ job.attempt <= job.spec.maxAttempts /\ job.delay <= Backoff(job.spec, job.attempt)
          /\ ~job.skipped
      BY <1>1 DEF Job, JobRecord
    <3> HIDE DEF next
    <3> QED
      BY <3>1, <3>2, <3>3 DEF Job
<1>4. next.state \in Open /\ job.state \notin Terminal
  BY <1>1, <1>3 DEF Open, States, Terminal
<1> HIDE DEF next
<1>5. LET t == WithJob(s, j, next) IN Sound(t) /\ Settles(t) /\ Evolves(s, t, j)
  BY <1>1, <1>3, <1>4, JobGoesOn
<1> QED
  BY <1>2, <1>5

-----------------------------------------------------------------------------
(* Signals, cancellations and the clock.                                   *)

LEMMA WithJobsIs ==
    ASSUME NEW s \in Store, NEW jobs \in [DOMAIN s.jobs -> Job],
           NEW t, t = [s EXCEPT !.jobs = jobs]
    PROVE  /\ t \in Store /\ t.gates = s.gates /\ t.dedup = s.dedup /\ t.pending = s.pending
           /\ t.jobs = jobs /\ Len(t.jobs) = Len(s.jobs) /\ DOMAIN t.jobs = DOMAIN s.jobs
<1>1. Len(s.jobs) \in Nat /\ DOMAIN s.jobs = 1..Len(s.jobs)
  BY SpanOfJobs
<1>2. jobs \in Seq(Job) /\ Len(jobs) = Len(s.jobs) /\ DOMAIN jobs = DOMAIN s.jobs
  BY <1>1
<1> QED
  BY <1>2 DEF Store

LEMMA WithPendingIs ==
    ASSUME NEW s \in Store, NEW k \in Keys, NEW value \in {"none", "payload", "empty"},
           NEW t, t = [s EXCEPT !.pending = [@ EXCEPT ![k] = value]]
    PROVE  /\ t \in Store /\ t.gates = s.gates /\ t.dedup = s.dedup /\ t.jobs = s.jobs
           /\ t.pending[k] = value /\ \A i \in Keys \ {k} : t.pending[i] = s.pending[i]
<1> DEFINE pending == [s.pending EXCEPT ![k] = value]
<1>1. s.pending \in [Keys -> {"none", "payload", "empty"}]
  BY DEF Store
<1>2. /\ pending \in [Keys -> {"none", "payload", "empty"}]
      /\ pending[k] = value /\ \A i \in Keys \ {k} : pending[i] = s.pending[i]
  BY <1>1
<1>3. t = [s EXCEPT !.pending = pending]
  BY Zenon
<1> HIDE DEF pending
<1> QED
  BY <1>2, <1>3 DEF Store

(* A signal is taken, or kept for a job that will wait.                    *)
LEMMA PendingIs ==
    ASSUME NEW s, Sound(s), Settles(s), NEW k \in Keys, NEW value \in {"none", "payload", "empty"},
           value # "none" => WaitingOn(s, k) = {},
           NEW t, t = [s EXCEPT !.pending = [@ EXCEPT ![k] = value]]
    PROVE  Sound(t) /\ Settles(t) /\ Evolves(s, t, 0) /\ t.jobs = s.jobs
<1>1. s \in Store
  BY DEF Sound, Typed
<1>2. /\ t \in Store /\ t.gates = s.gates /\ t.dedup = s.dedup /\ t.jobs = s.jobs
      /\ t.pending[k] = value /\ \A i \in Keys \ {k} : t.pending[i] = s.pending[i]
  BY <1>1, WithPendingIs
<1>3. \A i \in Keys : Met(t, i)
  BY <1>2 DEF Met, Sound, WaitingOn
<1>4. Sound(t) /\ Evolves(s, t, 0)
  BY <1>2, <1>3, ChangeJobs
<1> QED
  BY <1>2, <1>4, SettlesStands

(* Every job at once: each keeps where it belongs, and ends only by being  *)
(* cancelled.                                                              *)
LEMMA AllJobsIs ==
    ASSUME NEW s, Sound(s), Settles(s), NEW jobs \in [DOMAIN s.jobs -> Job],
           \A j \in DOMAIN s.jobs :
             /\ jobs[j].gate = s.jobs[j].gate /\ jobs[j].group = s.jobs[j].group /\ jobs[j].spec = s.jobs[j].spec
             /\ s.jobs[j].state \in Terminal \cup {"running"}
                  => jobs[j].state = s.jobs[j].state /\ jobs[j].skipped = s.jobs[j].skipped
             /\ jobs[j].state \in Terminal \ {"cancelled"} => s.jobs[j].state = jobs[j].state
             /\ jobs[j].state = "waiting" => s.jobs[j].state = "waiting" /\ jobs[j].waitKey = s.jobs[j].waitKey
    PROVE  LET t == [s EXCEPT !.jobs = jobs] IN
           Sound(t) /\ Settles(t) /\ Evolves(s, t, 0) /\ Len(t.jobs) = Len(s.jobs)
<1> DEFINE t == [s EXCEPT !.jobs = jobs]
<1>1. s \in Store
  BY DEF Sound, Typed
<1>2. /\ t \in Store /\ t.gates = s.gates /\ t.dedup = s.dedup /\ t.pending = s.pending
      /\ t.jobs = jobs /\ Len(t.jobs) = Len(s.jobs) /\ DOMAIN t.jobs = DOMAIN s.jobs
  BY <1>1, WithJobsIs
<1> HIDE DEF t
<1>3. ASSUME NEW k \in Keys PROVE Met(t, k)
  <2>1. WaitingOn(t, k) \subseteq WaitingOn(s, k)
    BY <1>2 DEF WaitingOn
  <2> QED
    BY <1>2, <2>1 DEF Met, Sound
<1>4. \A j \in DOMAIN s.jobs :
        /\ t.jobs[j].gate = s.jobs[j].gate /\ t.jobs[j].group = s.jobs[j].group
        /\ t.jobs[j].spec = s.jobs[j].spec
        /\ s.jobs[j].state \in Terminal => /\ t.jobs[j].state = s.jobs[j].state
                                           /\ t.jobs[j].skipped = s.jobs[j].skipped
        /\ s.jobs[j].state = "running" => t.jobs[j].state = "running"
  BY <1>2
<1>5. Sound(t) /\ Evolves(s, t, 0)
  BY <1>2, <1>3, <1>4, ChangeJobs
<1>6. Settles(t)
  BY <1>2, <1>5, SettlesStands
<1> QED
  BY <1>2, <1>5, <1>6 DEF t

LEMMA SignalIs ==
    ASSUME NEW s, Sound(s), Settles(s), NEW k \in Keys, NEW payload \in {"payload", "empty"}
    PROVE  LET t == SignalStore(s, k, payload) IN
           Sound(t) /\ Settles(t) /\ Evolves(s, t, 0) /\ Len(t.jobs) = Len(s.jobs)
<1> DEFINE t == SignalStore(s, k, payload)
           woken(j) == [s.jobs[j] EXCEPT !.state = "queued", !.waitKey = NoKey, !.delay = 0,
                                         !.event = IF payload = "payload" THEN k ELSE NoKey]
           jobs == [j \in DOMAIN s.jobs |-> IF j \in WaitingOn(s, k) THEN woken(j) ELSE s.jobs[j]]
<1>1. s \in Store /\ \A j \in DOMAIN s.jobs : s.jobs[j] \in Job
  BY SpanOfJobs DEF Sound, Typed
<1>2. CASE WaitingOn(s, k) = {}
  <2>1. t = [s EXCEPT !.pending = [@ EXCEPT ![k] = payload]]
    BY <1>2 DEF SignalStore
  <2> HIDE DEF t
  <2>2. Sound(t) /\ Settles(t) /\ Evolves(s, t, 0) /\ t.jobs = s.jobs
    BY <1>2, <2>1, PendingIs
  <2> QED
    BY <2>2 DEF t
<1>3. CASE WaitingOn(s, k) # {}
  <2>1. t = [s EXCEPT !.jobs = jobs]
    BY <1>1, <1>3 DEF SignalStore, Store
  <2>2. ASSUME NEW j \in WaitingOn(s, k)
        PROVE  /\ woken(j) \in Job /\ woken(j).state = "queued"
               /\ woken(j).gate = s.jobs[j].gate /\ woken(j).group = s.jobs[j].group
               /\ woken(j).spec = s.jobs[j].spec
               /\ j \in DOMAIN s.jobs /\ s.jobs[j].state = "waiting"
    <3>1. j \in DOMAIN s.jobs /\ s.jobs[j].state = "waiting"
      BY DEF WaitingOn
    <3> DEFINE job   == s.jobs[j]
               event == IF payload = "payload" THEN k ELSE NoKey
               next  == [job EXCEPT !.state = "queued", !.waitKey = NoKey, !.delay = 0, !.event = event]
    <3>2. job \in Job /\ event \in Keys \cup {NoKey} /\ job.state = "waiting"
      BY <1>1, <3>1
    <3> HIDE DEF job, event
    <3>3. job \in JobRecord /\ job.attempt <= job.spec.maxAttempts /\ job.skipped = FALSE
      BY <3>2 DEF Job, JobRecord
    <3>4. Backoff(job.spec, job.attempt) \in Nat
      <4>1. job.spec \in JobSpec /\ job.attempt \in 1..job.spec.maxAttempts
        BY <3>3 DEF JobRecord, JobSpec, SpecRecord
      <4> QED
        BY <4>1 DEF JobSpec
    <3>5. /\ next \in JobRecord /\ next.state = "queued" /\ next.waitKey = NoKey /\ next.delay = 0
          /\ next.skipped = FALSE /\ next.attempt = job.attempt
          /\ next.gate = job.gate /\ next.group = job.group /\ next.spec = job.spec
      BY <3>2, <3>3 DEF JobRecord, States
    <3>6. next \in Job
      <4> HIDE DEF next
      <4> QED
        BY <3>3, <3>4, <3>5 DEF Job
    <3>7. woken(j) = next
      BY DEF job, event
    <3> HIDE DEF next, woken
    <3> QED
      BY <3>1, <3>5, <3>6, <3>7 DEF job
  <2> HIDE DEF woken
  <2>3. jobs \in [DOMAIN s.jobs -> Job]
    BY <1>1, <2>2
  <2>4. \A j \in DOMAIN s.jobs :
          /\ jobs[j].gate = s.jobs[j].gate /\ jobs[j].group = s.jobs[j].group /\ jobs[j].spec = s.jobs[j].spec
          /\ s.jobs[j].state \in Terminal \cup {"running"}
               => jobs[j].state = s.jobs[j].state /\ jobs[j].skipped = s.jobs[j].skipped
          /\ jobs[j].state \in Terminal \ {"cancelled"} => s.jobs[j].state = jobs[j].state
          /\ jobs[j].state = "waiting" => s.jobs[j].state = "waiting" /\ jobs[j].waitKey = s.jobs[j].waitKey
    BY <2>2 DEF Terminal
  <2> HIDE DEF t, jobs
  <2>5. Sound(t) /\ Settles(t) /\ Evolves(s, t, 0) /\ Len(t.jobs) = Len(s.jobs)
    BY <2>1, <2>3, <2>4, AllJobsIs
  <2> QED
    BY <2>5 DEF t
<1> QED
  BY <1>2, <1>3

LEMMA CancelIs ==
    ASSUME NEW s, Sound(s), Settles(s), NEW j \in DOMAIN s.jobs, NEW cascade \in BOOLEAN
    PROVE  LET t == DoCancel(s, j, cascade) IN
           Sound(t) /\ Settles(t) /\ Evolves(s, t, 0) /\ Len(t.jobs) = Len(s.jobs)
<1> DEFINE t == DoCancel(s, j, cascade)
           meant(i) == i = j \/ (cascade /\ s.jobs[j].state \in Open /\ s.jobs[i].spec.ctx = s.jobs[j].spec.ctx)
           jobs == [i \in DOMAIN s.jobs |-> IF meant(i) THEN Cancelled(s.jobs[i]) ELSE s.jobs[i]]
<1>1. s \in Store /\ \A i \in DOMAIN s.jobs : s.jobs[i] \in Job
  BY SpanOfJobs DEF Sound, Typed
<1>2. t = [s EXCEPT !.jobs = jobs]
  BY <1>1 DEF DoCancel, Store
<1>3. ASSUME NEW job \in Job
      PROVE  LET next == Cancelled(job) IN
             /\ next \in Job /\ next.gate = job.gate /\ next.group = job.group /\ next.spec = job.spec
             /\ \/ next = job
                \/ job.state \in {"queued", "waiting"} /\ next.state = "cancelled"
  <2> DEFINE next == [job EXCEPT !.state = "cancelled", !.waitKey = NoKey]
  <2>1. CASE job.state \notin {"queued", "waiting"}
    BY <2>1 DEF Cancelled
  <2>2. CASE job.state \in {"queued", "waiting"}
    <3>1. /\ next \in Job /\ next.gate = job.gate /\ next.group = job.group
          /\ next.spec = job.spec /\ next.state = "cancelled"
      BY <2>2 DEF Job, JobRecord, States
    <3>2. Cancelled(job) = next
      BY <2>2 DEF Cancelled
    <3> HIDE DEF next
    <3> QED
      BY <2>2, <3>1, <3>2
  <2> QED
    BY <2>1, <2>2
<1> HIDE DEF meant
<1>4. jobs \in [DOMAIN s.jobs -> Job]
  BY <1>1, <1>3
<1>5. \A i \in DOMAIN s.jobs :
        /\ jobs[i].gate = s.jobs[i].gate /\ jobs[i].group = s.jobs[i].group /\ jobs[i].spec = s.jobs[i].spec
        /\ \/ jobs[i] = s.jobs[i]
           \/ s.jobs[i].state \in {"queued", "waiting"} /\ jobs[i].state = "cancelled"
  BY <1>1, <1>3
<1> HIDE DEF t, jobs
<1>6. Sound(t) /\ Settles(t) /\ Evolves(s, t, 0) /\ Len(t.jobs) = Len(s.jobs)
  <2>1. \A i \in DOMAIN s.jobs :
          /\ jobs[i].gate = s.jobs[i].gate /\ jobs[i].group = s.jobs[i].group /\ jobs[i].spec = s.jobs[i].spec
          /\ s.jobs[i].state \in Terminal \cup {"running"}
               => jobs[i].state = s.jobs[i].state /\ jobs[i].skipped = s.jobs[i].skipped
          /\ jobs[i].state \in Terminal \ {"cancelled"} => s.jobs[i].state = jobs[i].state
          /\ jobs[i].state = "waiting" => s.jobs[i].state = "waiting" /\ jobs[i].waitKey = s.jobs[i].waitKey
    BY <1>5 DEF Terminal
  <2> QED
    BY <1>2, <1>4, <2>1, AllJobsIs
<1> QED
  BY <1>6 DEF t

LEMMA AdvancedIs ==
    ASSUME NEW s, Sound(s), Settles(s), NEW seconds \in Nat
    PROVE  LET t == Advanced(s, seconds) IN
           Sound(t) /\ Settles(t) /\ Evolves(s, t, 0) /\ Len(t.jobs) = Len(s.jobs)
<1> DEFINE t == Advanced(s, seconds)
           jobs == [j \in DOMAIN s.jobs |-> Sooner(s.jobs[j], seconds)]
<1>1. s \in Store /\ \A i \in DOMAIN s.jobs : s.jobs[i] \in Job
  BY SpanOfJobs DEF Sound, Typed
<1>2. t = [s EXCEPT !.jobs = jobs]
  BY <1>1 DEF Advanced, Store
<1>3. ASSUME NEW job \in Job
      PROVE  LET next == Sooner(job, seconds) IN
             /\ next \in Job /\ next.gate = job.gate /\ next.group = job.group /\ next.spec = job.spec
             /\ next.state = job.state /\ next.skipped = job.skipped /\ next.waitKey = job.waitKey
  <2> DEFINE delay == IF job.delay > seconds THEN job.delay - seconds ELSE 0
             next  == [job EXCEPT !.delay = delay]
  <2>1. job \in JobRecord /\ job.delay \in Nat /\ job.delay <= Backoff(job.spec, job.attempt)
        /\ job.attempt <= job.spec.maxAttempts
    BY DEF Job, JobRecord
  <2>2. Backoff(job.spec, job.attempt) \in Nat
    <3>1. job.spec \in JobSpec /\ job.attempt \in 1..job.spec.maxAttempts
      BY <2>1 DEF JobRecord, JobSpec, SpecRecord
    <3> QED
      BY <3>1 DEF JobSpec
  <2>3. delay \in Nat /\ delay <= Backoff(job.spec, job.attempt)
    BY <2>1, <2>2
  <2>4. Sooner(job, seconds) = next
    BY <2>1 DEF JobRecord, Sooner
  <2> HIDE DEF delay
  <2>5. /\ next \in JobRecord /\ next.delay = delay
        /\ next.gate = job.gate /\ next.group = job.group /\ next.spec = job.spec
        /\ next.state = job.state /\ next.skipped = job.skipped /\ next.waitKey = job.waitKey
        /\ next.attempt = job.attempt
    BY <2>1, <2>3 DEF JobRecord
  <2> HIDE DEF next
  <2>6. next \in Job
    BY <2>1, <2>3, <2>5 DEF Job
  <2> QED
    BY <2>4, <2>5, <2>6
<1>4. jobs \in [DOMAIN s.jobs -> Job]
  BY <1>1, <1>3
<1>5. \A i \in DOMAIN s.jobs :
        /\ jobs[i].gate = s.jobs[i].gate /\ jobs[i].group = s.jobs[i].group /\ jobs[i].spec = s.jobs[i].spec
        /\ jobs[i].state = s.jobs[i].state /\ jobs[i].skipped = s.jobs[i].skipped
        /\ jobs[i].waitKey = s.jobs[i].waitKey
  BY <1>1, <1>3
<1> HIDE DEF t, jobs
<1>6. Sound(t) /\ Settles(t) /\ Evolves(s, t, 0) /\ Len(t.jobs) = Len(s.jobs)
  BY <1>2, <1>4, <1>5, AllJobsIs
<1> QED
  BY <1>6 DEF t

(* The soonest retry is a number of seconds away.                          *)
LEMMA SoonestIsThere ==
    ASSUME NEW s \in Store, Pending(s) # {}
    PROVE  Min(Pending(s)) \in Nat
<1> DEFINE R == OpToRel(<, Nat)
           T == Pending(s)
<1>1. T \subseteq Nat
  BY SpanOfJobs DEF Pending, Job, JobRecord
<1>2. \A x, y \in Nat : <<y, x>> \in R <=> y < x
  BY DEF OpToRel
<1>3. IsWellFoundedOn(R, Nat)
  BY NatLessThanWellFounded
<1> HIDE DEF R, T
<1>4. PICK x \in T : \A y \in T : ~(<<y, x>> \in R)
  BY <1>1, <1>3, WFMin DEF T
<1>5. ASSUME NEW y \in T PROVE x <= y
  <2>1. x \in Nat /\ y \in Nat
    BY <1>1
  <2>2. ~(y < x)
    BY <1>2, <1>4, <2>1
  <2> QED
    BY <2>1, <2>2
<1>6. Min(T) \in T
  BY <1>5 DEF Min
<1> QED
  BY <1>1, <1>6 DEF T

-----------------------------------------------------------------------------
(* A fan-out: its children, then its gate.                                 *)

LEMMA FanOutIs ==
    ASSUME NEW s, Sound(s), Settles(s), NEW plan, IsPlan(plan)
    PROVE  LET t == FanOutStore(s, plan) IN Sound(t) /\ Settles(t) /\ Evolves(s, t, 0)
<1> DEFINE new  == Len(s.gates) + 1
           done == WithChildren(s, plan.children, new)
           u    == done.store
           gate == [children |-> done.ids, policy |-> plan.policy, onComplete |-> plan.onComplete,
                    ctx |-> plan.ctx, fired |-> FALSE, failed |-> FALSE, continuation |-> 0]
           t    == FanOutStore(s, plan)
<1>1. s \in Store /\ Linked(s) /\ Typed(s)
  BY DEF Sound, Typed
<1>2. /\ Len(s.jobs) \in Nat /\ DOMAIN s.jobs = 1..Len(s.jobs)
      /\ Len(s.gates) \in Nat /\ DOMAIN s.gates = 1..Len(s.gates)
      /\ \A j \in DOMAIN s.jobs : s.jobs[j].gate \in Nat /\ s.jobs[j].group \in Nat
  <2>1. \A j \in DOMAIN s.jobs : s.jobs[j] \in JobRecord
    BY <1>1, SpanOfJobs DEF Job
  <2> QED
    BY <1>1, <2>1, SpanOfJobs DEF JobRecord
<1>3. Grows(s, u, new, 0) /\ done.ids \in Seq(DOMAIN u.jobs)
  <2>1. plan.children \in Seq(JobSpec) /\ new \in Nat
    BY <1>2 DEF IsPlan
  <2>2. \A i \in Identities : s.dedup[i] <= Len(s.jobs)
    BY <1>1 DEF Linked
  <2> HIDE DEF new
  <2> QED
    BY <1>1, <2>1, <2>2, ChildrenGrow
<1>4. t = [u EXCEPT !.gates = Append(@, gate)]
  BY DEF FanOutStore
<1> HIDE DEF done, t
<1>5. /\ u \in Store /\ u.gates = s.gates /\ u.pending = s.pending
      /\ Len(s.jobs) <= Len(u.jobs) /\ Len(u.jobs) \in Nat /\ DOMAIN u.jobs = 1..Len(u.jobs)
      /\ \A j \in DOMAIN s.jobs : u.jobs[j] = s.jobs[j]
      /\ \A j \in DOMAIN u.jobs \ DOMAIN s.jobs :
           u.jobs[j].state = "queued" /\ u.jobs[j].gate = new /\ u.jobs[j].group = 0
      /\ \A i \in Identities : u.dedup[i] <= Len(u.jobs)
  BY <1>3, SpanOfJobs DEF Grows
<1>6. gate \in GateRecord
  <2>1. done.ids \in Seq(Nat)
    <3>1. \A i \in 1..Len(done.ids) : done.ids[i] \in Nat
      BY <1>3, <1>5
    <3> QED
      BY <1>3, <3>1
  <2> QED
    BY <2>1 DEF GateRecord, IsPlan
<1>7. gate.children = done.ids /\ Len(gate.onComplete) <= 1 /\ gate.continuation = 0 /\ ~gate.fired /\ ~gate.failed
  BY DEF IsPlan
<1> HIDE DEF gate, u
<1>8. /\ t \in Store /\ t.jobs = u.jobs /\ t.pending = s.pending /\ t.dedup = u.dedup
      /\ t.gates = Append(s.gates, gate)
  <2> DEFINE gates == Append(s.gates, gate)
  <2>1. gates \in Seq(GateRecord)
    BY <1>1, <1>6 DEF Store
  <2>2. t = [u EXCEPT !.gates = gates]
    BY <1>4, <1>5 DEF Store
  <2> HIDE DEF gates
  <2>3. t \in Store /\ t.jobs = u.jobs /\ t.pending = s.pending /\ t.dedup = u.dedup /\ t.gates = gates
    BY <1>5, <2>1, <2>2 DEF Store
  <2> QED
    BY <2>3 DEF gates
<1>9. /\ Len(t.gates) = new /\ DOMAIN t.gates = DOMAIN s.gates \cup {new} /\ new \notin DOMAIN s.gates
      /\ t.gates[new] = gate /\ \A g \in DOMAIN s.gates : t.gates[g] = s.gates[g]
  <2>1. s.gates \in Seq(GateRecord)
    BY <1>1 DEF Store
  <2> QED
    BY <1>2, <1>6, <1>8, <2>1
<1>10. Evolves(s, t, 0)
  BY <1>5, <1>8 DEF Evolves
<1>11. Linked(t)
  <2>1. \A j \in DOMAIN t.jobs : t.jobs[j].gate <= Len(t.gates) /\ t.jobs[j].group <= Len(t.gates)
    <3>1. \A j \in DOMAIN s.jobs : s.jobs[j].gate <= Len(s.gates) /\ s.jobs[j].group <= Len(s.gates)
      BY <1>1 DEF Linked
    <3>2. \A j \in DOMAIN t.jobs : \/ j \in DOMAIN s.jobs /\ t.jobs[j] = s.jobs[j]
                                   \/ t.jobs[j].gate = new /\ t.jobs[j].group = 0
      BY <1>5, <1>8
    <3>3. \A j \in DOMAIN s.jobs : s.jobs[j].gate \in Nat /\ s.jobs[j].group \in Nat
      BY <1>2
    <3>4. Len(t.gates) = new /\ new = Len(s.gates) + 1 /\ Len(s.gates) \in Nat
      BY <1>2, <1>9
    <3> HIDE DEF new
    <3>5. \A j \in DOMAIN s.jobs : s.jobs[j].gate <= new /\ s.jobs[j].group <= new
      BY <3>1, <3>3, <3>4
    <3> QED
      BY <3>2, <3>4, <3>5
  <2>2. ASSUME NEW g \in DOMAIN s.gates
        PROVE  /\ s.gates[g].children \in Seq(DOMAIN t.jobs)
               /\ Len(s.gates[g].onComplete) <= 1 /\ s.gates[g].continuation <= Len(t.jobs)
    <3>1. s.gates[g].children \in Seq(1..Len(s.jobs)) /\ Len(s.gates[g].onComplete) <= 1
          /\ s.gates[g].continuation <= Len(s.jobs)
      BY <1>1, <1>2 DEF Linked
    <3>2. s.gates[g].continuation \in Nat
      BY <1>1, SpanOfJobs DEF GateRecord
    <3>3. s.gates[g].children \in Seq(1..Len(u.jobs))
      BY <1>2, <1>5, <3>1, WiderSeq
    <3> QED
      BY <1>2, <1>5, <1>8, <3>1, <3>2, <3>3
  <2>3. gate.children \in Seq(DOMAIN t.jobs) /\ Len(gate.onComplete) <= 1 /\ gate.continuation <= Len(t.jobs)
    BY <1>3, <1>5, <1>7, <1>8
  <2>4. \A i \in Identities : t.dedup[i] <= Len(t.jobs)
    BY <1>5, <1>8
  <2> QED
    BY <1>9, <2>1, <2>2, <2>3, <2>4 DEF Linked
<1>12. ASSUME NEW k \in Keys PROVE Met(t, k)
  <2>1. WaitingOn(t, k) = WaitingOn(s, k)
    BY <1>2, <1>5, <1>8 DEF WaitingOn
  <2> QED
    BY <1>8, <2>1 DEF Met, Sound
<1>13. ASSUME NEW g \in DOMAIN t.gates PROVE Judged(t, g)
  <2>1. CASE g = new
    BY <1>7, <1>9, <2>1 DEF Judged
  <2>2. CASE g \in DOMAIN s.gates
    <3>1. Judged(s, g) /\ Typed(t) /\ t.gates[g] = s.gates[g]
      BY <1>8, <1>9, <1>11, <2>2 DEF Sound, Typed
    <3> QED
      BY <1>1, <1>10, <2>2, <3>1, VerdictStands DEF Judged
  <2> QED
    BY <1>9, <2>1, <2>2
<1>14. ASSUME NEW g \in DOMAIN t.gates PROVE Followed(t, g)
  <2>1. g # 0
    BY <1>2, <1>9
  <2>2. Started(t, g) = Started(s, g)
    BY <1>2, <1>5, <1>8, <2>1 DEF Started
  <2>3. CASE g = new
    <3>1. Started(s, g) = {}
      BY <1>1, <1>2, <2>3 DEF Started, Linked
    <3> QED
      BY <2>2, <3>1 DEF Followed
  <2>4. CASE g \in DOMAIN s.gates
    <3>1. Followed(s, g) /\ t.gates[g] = s.gates[g]
      BY <1>9, <2>4 DEF Sound
    <3>2. \A j \in Started(s, g) : t.jobs[j] = s.jobs[j]
      BY <1>5, <1>8 DEF Started
    <3> QED
      BY <2>2, <3>1, <3>2 DEF Followed
  <2> QED
    BY <1>9, <2>3, <2>4
<1>15. ASSUME NEW g \in DOMAIN t.gates PROVE Settled(t, g)
  <2>1. CASE g = new
    <3>1. SUFFICES ASSUME Range(gate.children) # {},
                          \A j \in Range(gate.children) :
                            t.jobs[j].gate = new /\ t.jobs[j].state \in Terminal \ {"cancelled"}
                   PROVE  FALSE
      BY <1>9, <2>1 DEF Settled
    <3>2. PICK j \in Range(gate.children) : TRUE
      BY <3>1
    <3>3. j \in DOMAIN u.jobs
      BY <1>3, <1>7 DEF Range
    <3>4. t.jobs[j] = u.jobs[j] /\ u.jobs[j].gate = new /\ u.jobs[j].state # "queued"
      BY <1>8, <3>1 DEF Terminal
    <3>5. j \in DOMAIN s.jobs
      BY <1>5, <3>3, <3>4
    <3>6. s.jobs[j].gate <= Len(s.gates) /\ s.jobs[j].gate = new
      BY <1>1, <1>5, <3>4, <3>5 DEF Linked
    <3> QED
      BY <1>2, <3>6
  <2>2. CASE g \in DOMAIN s.gates
    <3>1. Settled(s, g) /\ t.gates[g] = s.gates[g] /\ \A j \in DOMAIN s.jobs : t.jobs[j] = s.jobs[j]
      BY <1>5, <1>8, <1>9, <2>2 DEF Settles
    <3> QED
      BY <1>1, <1>10, <2>2, <3>1, SettledStands
  <2> QED
    BY <1>9, <2>1, <2>2
<1> QED
  BY <1>8, <1>10, <1>11, <1>12, <1>13, <1>14, <1>15 DEF Sound, Settles, Typed, t

-----------------------------------------------------------------------------
(* What the actions do to the store.                                       *)

LEMMA EvolvesSelf == ASSUME NEW s, NEW b PROVE s \in Store => Evolves(s, s, b)
BY SpanOfJobs DEF Evolves

(* Every step takes a sound store to a sound one; a driver takes a queued  *)
(* job, or leaves the one it was at.                                       *)
LEMMA StepOfStore ==
    ASSUME EngineInv, [Next]_vars
    PROVE  /\ Sound(store') /\ Settles(store')
           /\ \/ Evolves(store, store', 0) /\ running' = running
              \/ \E d \in Drivers : /\ running[d] # 0 /\ Evolves(store, store', running[d])
                                    /\ running' = [running EXCEPT ![d] = 0]
              \/ \E d \in Drivers, j \in DOMAIN store.jobs :
                   /\ store.jobs[j].state = "queued" /\ store'.jobs[j].state = "running"
                   /\ Evolves(store, store', 0) /\ running' = [running EXCEPT ![d] = j]
<1> DEFINE Same  == Evolves(store, store', 0) /\ running' = running
           Left  == \E d \in Drivers : /\ running[d] # 0 /\ Evolves(store, store', running[d])
                                       /\ running' = [running EXCEPT ![d] = 0]
           Taken == \E d \in Drivers, j \in DOMAIN store.jobs :
                      /\ store.jobs[j].state = "queued" /\ store'.jobs[j].state = "running"
                      /\ Evolves(store, store', 0) /\ running' = [running EXCEPT ![d] = j]
           Ok    == Sound(store') /\ Settles(store') /\ (Same \/ Left \/ Taken)
<1>1. /\ Sound(store) /\ Settles(store) /\ store \in Store /\ Linked(store)
      /\ running \in [Drivers -> {0} \cup DOMAIN store.jobs]
      /\ Evolves(store, store, 0)
      /\ \A i \in Identities : store.dedup[i] <= Len(store.jobs)
  BY EvolvesSelf DEF EngineInv, TypeOK, Linked
<1>2. \A d \in Drivers : running[d] # 0 =>
        running[d] \in DOMAIN store.jobs /\ store.jobs[running[d]].state = "running"
  BY <1>1 DEF EngineInv, RunsOwnJob
<1>3. ASSUME NEW spec \in Specs, Submit(spec) PROVE Ok
  <2>1. spec \in JobSpec
    BY SymbaTestAssumption
  <2>2. store' = Enqueue(store, spec, 0, 0) /\ running' = running
    BY <1>3 DEF Submit
  <2>3. Grows(store, store', 0, 0)
    BY <1>1, <2>1, <2>2, EnqueueGrows
  <2>4. 0 <= Len(store.gates)
    BY <1>1, SpanOfJobs
  <2> QED
    BY <1>1, <2>2, <2>3, <2>4, GrowsSound, GrowsSettles
<1>4. ASSUME NEW plan \in Plans, FanOut(plan) PROVE Ok
  <2>1. IsPlan(plan) /\ store' = FanOutStore(store, plan) /\ running' = running
    BY <1>4, SymbaTestAssumption DEF FanOut
  <2> QED
    BY <1>1, <2>1, FanOutIs
<1>5. ASSUME NEW k \in Keys, NEW payload \in {"payload", "empty"}, Signal(k, payload) PROVE Ok
  <2>1. store' = SignalStore(store, k, payload) /\ running' = running
    BY <1>5 DEF Signal
  <2> QED
    BY <1>1, <2>1, SignalIs
<1>6. ASSUME NEW j \in DOMAIN store.jobs, NEW cascade \in BOOLEAN, Cancel(j, cascade) PROVE Ok
  <2>1. store' = DoCancel(store, j, cascade) /\ running' = running
    BY <1>6 DEF Cancel
  <2> QED
    BY <1>1, <2>1, CancelIs
<1>7. ASSUME NEW d \in Drivers, Tick(d) PROVE Ok
  <2>1. PICK j \in Runnable(store) :
          /\ store' = WithJob(store, j, [store.jobs[j] EXCEPT !.state = "running"])
          /\ running' = [running EXCEPT ![d] = j]
    BY <1>7 DEF Tick
  <2>2. j \in DOMAIN store.jobs /\ store.jobs[j].state = "queued"
    BY DEF Runnable
  <2>3. Sound(store') /\ Settles(store') /\ Evolves(store, store', 0) /\ store'.jobs[j].state = "running"
    BY <1>1, <2>1, <2>2, TickIs
  <2> QED
    BY <2>1, <2>2, <2>3
<1>8. ASSUME NEW d \in Drivers, AdvanceClock(d) PROVE Ok
  <2>1. Pending(store) # {} /\ store' = Advanced(store, Min(Pending(store))) /\ running' = running
    BY <1>8 DEF AdvanceClock
  <2>2. Min(Pending(store)) \in Nat
    BY <1>1, <2>1, SoonestIsThere
  <2> QED
    BY <1>1, <2>1, <2>2, AdvancedIs
<1>9. ASSUME NEW d \in Drivers, Complete(d) PROVE Ok
  <2>1. PICK how : store' = OnComplete(store, running[d], how)
    BY <1>9 DEF Complete
  <2>2. running[d] # 0 /\ running' = [running EXCEPT ![d] = 0]
    BY <1>9 DEF Complete, Leave
  <2>3. Sound(store') /\ Settles(store') /\ Evolves(store, store', running[d])
    BY <1>1, <1>2, <2>1, <2>2, OnCompleteIs
  <2> QED
    BY <2>2, <2>3
<1>10. ASSUME NEW d \in Drivers, Fail(d) PROVE Ok
  <2>1. PICK retryable : store' = OnFail(store, running[d], retryable)
    BY <1>10 DEF Fail
  <2>2. running[d] # 0 /\ running' = [running EXCEPT ![d] = 0]
    BY <1>10 DEF Fail, Leave
  <2>3. Sound(store') /\ Settles(store') /\ Evolves(store, store', running[d])
    BY <1>1, <1>2, <2>1, <2>2, OnFailIs
  <2> QED
    BY <2>2, <2>3
<1>11. ASSUME NEW d \in Drivers, NoOutcome(d) PROVE Ok
  <2>1. running[d] # 0 /\ running' = [running EXCEPT ![d] = 0] /\ store' = store
    BY <1>11 DEF NoOutcome, Leave
  <2>2. Evolves(store, store', running[d])
    BY <1>1, <2>1, EvolvesSelf
  <2> QED
    BY <1>1, <2>1, <2>2
<1>12. ASSUME NEW d \in Drivers, NEW k \in Keys, WaitForEvent(d, k) PROVE Ok
  <2>1. running[d] # 0
    BY <1>12 DEF WaitForEvent
  <2>2. CASE WaitReturns(d, k)
    BY <1>1, <2>2 DEF WaitReturns, WaitEnds
  <2>3. CASE WaitConsumes(d, k)
    <3>1. store' = [store EXCEPT !.pending = [@ EXCEPT ![k] = "none"]] /\ running' = running
      BY <2>3 DEF WaitConsumes, WaitEnds
    <3>2. Sound(store') /\ Settles(store') /\ Evolves(store, store', 0)
      BY <1>1, <3>1, PendingIs
    <3> QED
      BY <3>1, <3>2
  <2>4. CASE WaitParks(d, k)
    <3>1. /\ store.pending[k] = "none" /\ store' = Parked(store, running[d], k)
          /\ running' = [running EXCEPT ![d] = 0]
      BY <2>4 DEF WaitParks, Leave
    <3>2. Sound(store') /\ Settles(store') /\ Evolves(store, store', running[d])
      BY <1>1, <1>2, <2>1, <3>1, ParkedIs
    <3> QED
      BY <2>1, <3>1, <3>2
  <2> QED
    BY <1>12, <2>2, <2>3, <2>4 DEF WaitForEvent
<1>13. CASE UNCHANGED vars
  BY <1>1, <1>13 DEF vars
<1>14. ASSUME Next PROVE Ok
  <2> HIDE DEF Ok
  <2>1. CASE Call
    BY <1>3, <1>4, <1>5, <1>6, <2>1 DEF Call
  <2>2. ASSUME NEW d \in Drivers, Drive(d) PROVE Ok
    BY <1>7, <1>8, <1>9, <1>10, <1>11, <1>12, <2>2 DEF Drive
  <2> QED
    BY <1>14, <2>1, <2>2 DEF Next
<1> QED
  BY <1>13, <1>14

LEMMA RunsOwnJobStep == ASSUME EngineInv, [Next]_vars PROVE RunsOwnJob'
<1>1. /\ running \in [Drivers -> {0} \cup DOMAIN store.jobs]
      /\ \A d \in Drivers : running[d] # 0 => store.jobs[running[d]].state = "running"
      /\ \A d, e \in Drivers : running[d] = running[e] /\ running[d] # 0 => d = e
      /\ 0 \notin DOMAIN store.jobs
  <2>1. 0 \notin DOMAIN store.jobs
    BY SpanOfJobs DEF EngineInv, TypeOK
  <2> QED
    BY <2>1 DEF EngineInv, TypeOK, RunsOwnJob
<1>2. CASE Evolves(store, store', 0) /\ running' = running
  BY <1>1, <1>2 DEF Evolves, RunsOwnJob
<1>3. ASSUME NEW d \in Drivers, Evolves(store, store', running[d]), running' = [running EXCEPT ![d] = 0]
      PROVE  RunsOwnJob'
  BY <1>1, <1>3 DEF Evolves, RunsOwnJob
<1>4. ASSUME NEW d \in Drivers, NEW j \in DOMAIN store.jobs,
             store.jobs[j].state = "queued", store'.jobs[j].state = "running",
             Evolves(store, store', 0), running' = [running EXCEPT ![d] = j]
      PROVE  RunsOwnJob'
  <2>1. \A e \in Drivers : running[e] # j
    BY <1>1, <1>4
  <2> QED
    BY <1>1, <1>4, <2>1 DEF Evolves, RunsOwnJob
<1> QED
  BY <1>2, <1>3, <1>4, StepOfStore

LEMMA TypeStep == ASSUME EngineInv, [Next]_vars PROVE TypeOK'
<1>1. store' \in Store /\ Linked(store')
  BY StepOfStore DEF Sound, Typed
<1>2. running' \in [Drivers -> {0} \cup DOMAIN store'.jobs]
  <2>1. running \in [Drivers -> {0} \cup DOMAIN store.jobs] /\ store \in Store
    BY DEF EngineInv, TypeOK
  <2>2. DOMAIN store.jobs \subseteq DOMAIN store'.jobs
    <3>1. Len(store.jobs) <= Len(store'.jobs)
      BY StepOfStore DEF Evolves
    <3> QED
      BY <1>1, <2>1, <3>1, SpanOfJobs
  <2> QED
    BY <2>1, <2>2, StepOfStore
<1>3. submits' \in 0..MaxSubmits
  <2>1. submits \in 0..MaxSubmits /\ MaxSubmits \in Nat
    BY SymbaTestAssumption DEF EngineInv, TypeOK
  <2>2. submits' = submits \/ (submits < MaxSubmits /\ submits' = submits + 1)
    BY DEF Next, Call, Drive, vars, Submit, FanOut, Signal, Cancel, Tick, AdvanceClock, Leave, Complete, Fail,
           NoOutcome, WaitForEvent, WaitReturns, WaitConsumes, WaitParks, WaitEnds
  <2> QED
    BY <2>1, <2>2
<1>4. waits' \in [Drivers -> SUBSET (Keys \X (Keys \cup {NoKey}))]
  <2>1. waits \in [Drivers -> SUBSET (Keys \X (Keys \cup {NoKey}))]
    BY DEF EngineInv, TypeOK
  <2>2. ASSUME NEW d \in Drivers, NEW k \in Keys, NEW payload \in Keys \cup {NoKey}, WaitEnds(d, k, payload)
        PROVE  waits' \in [Drivers -> SUBSET (Keys \X (Keys \cup {NoKey}))]
    BY <2>1, <2>2 DEF WaitEnds
  <2>3. ASSUME NEW d \in Drivers, waits' = [waits EXCEPT ![d] = {}]
        PROVE  waits' \in [Drivers -> SUBSET (Keys \X (Keys \cup {NoKey}))]
    BY <2>1, <2>3
  <2>4. ASSUME NEW d \in Drivers, NEW k \in Keys, WaitForEvent(d, k)
        PROVE  waits' \in [Drivers -> SUBSET (Keys \X (Keys \cup {NoKey}))]
    <3>1. running[d] \in DOMAIN store.jobs /\ store \in Store
      BY <2>4 DEF WaitForEvent, EngineInv, TypeOK
    <3>2. store.jobs[running[d]].event \in Keys \cup {NoKey}
      BY <3>1, SpanOfJobs DEF Job, JobRecord
    <3>3. CASE WaitReturns(d, k)
      BY <2>2, <3>2, <3>3 DEF WaitReturns
    <3>4. CASE WaitConsumes(d, k)
      BY <2>2, <3>4 DEF WaitConsumes
    <3>5. CASE WaitParks(d, k)
      BY <2>3, <3>5 DEF WaitParks, Leave
    <3> QED
      BY <2>4, <3>3, <3>4, <3>5 DEF WaitForEvent
  <2>5. ASSUME NEW d \in Drivers, Tick(d) \/ Complete(d) \/ Fail(d) \/ NoOutcome(d)
        PROVE  waits' \in [Drivers -> SUBSET (Keys \X (Keys \cup {NoKey}))]
    BY <2>3, <2>5 DEF Tick, Complete, Fail, NoOutcome, Leave
  <2>6. ASSUME waits' = waits PROVE waits' \in [Drivers -> SUBSET (Keys \X (Keys \cup {NoKey}))]
    BY <2>1, <2>6
  <2>7. CASE Call \/ UNCHANGED vars
    BY <2>6, <2>7 DEF Call, Submit, FanOut, Signal, Cancel, vars
  <2>8. ASSUME NEW d \in Drivers, AdvanceClock(d) PROVE waits' = waits
    BY <2>8 DEF AdvanceClock
  <2> QED
    BY <2>4, <2>5, <2>6, <2>7, <2>8 DEF Next, Drive
<1> QED
  BY <1>1, <1>2, <1>3, <1>4 DEF TypeOK

LEMMA EngineInit == Init => EngineInv
<1> SUFFICES ASSUME Init PROVE EngineInv
  OBVIOUS
<1>1. /\ store.jobs = <<>> /\ store.gates = <<>>
      /\ \A k \in Keys : store.pending[k] = "none"
      /\ \A i \in Identities : store.dedup[i] = 0
      /\ store \in Store
  BY DEF Init, Store
<1>2. DOMAIN store.jobs = {} /\ DOMAIN store.gates = {} /\ Len(store.jobs) = 0
  BY <1>1
<1>3. Linked(store)
  BY <1>1, <1>2 DEF Linked
<1>4. TypeOK /\ RunsOwnJob
  BY <1>1, <1>2, <1>3, SymbaTestAssumption DEF Init, TypeOK, RunsOwnJob
<1>5. Sound(store) /\ Settles(store)
  BY <1>1, <1>2, <1>3 DEF Sound, Settles, Typed, Met
<1> QED
  BY <1>4, <1>5 DEF EngineInv

LEMMA EngineInvariant == Spec => []EngineInv
<1>1. EngineInv /\ [Next]_vars => EngineInv'
  BY StepOfStore, RunsOwnJobStep, TypeStep DEF EngineInv
<1> QED
  BY <1>1, EngineInit, PTL DEF Spec

-----------------------------------------------------------------------------
(* The results.                                                            *)

(* Type correctness of symba.testing: jobs, gates and signals keep their   *)
(* types, attempts and delays their bounds, and every id is that of a job. *)
THEOREM TypeCorrect == Spec => []TypeOK
<1>1. EngineInv => TypeOK
  BY DEF EngineInv
<1> QED
  BY <1>1, EngineInvariant, PTL

(* A buffered signal and a job that waits for it are never there at the    *)
(* same time: _signal and _try_consume_signal lose no wake-up.             *)
THEOREM SignalsMeet == Spec => []SignalMeetsWaiter
<1>1. EngineInv => SignalMeetsWaiter
  BY DEF EngineInv, Sound, Met, SignalMeetsWaiter
<1> QED
  BY <1>1, EngineInvariant, PTL

(* _maybe_fire_gate fires on the last word of all children, by the policy, *)
(* and starts one job with its chain, for every policy and any fan-out.    *)
THEOREM GatesFireRightly == Spec => []GateVerdict
<1>1. ASSUME EngineInv PROVE GateVerdict
  <2>1. SUFFICES ASSUME NEW g \in DOMAIN store.gates
                 PROVE  LET gate == store.gates[g] IN
                        /\ gate.fired => /\ Children(store, g, Open) = 0
                                         /\ gate.failed = ~Satisfied(store, g)
                        /\ Cardinality(Started(store, g)) <=
                             IF gate.fired /\ gate.onComplete # <<>> THEN 1 + Head(gate.onComplete).links ELSE 0
    BY DEF GateVerdict, Started
  <2> DEFINE gate == store.gates[g]
             G == Started(store, g)
  <2>2. Judged(store, g) /\ Followed(store, g) /\ store \in Store
    BY <1>1 DEF EngineInv, Sound, TypeOK
  <2>3. Cardinality(G) <= IF gate.fired /\ gate.onComplete # <<>> THEN 1 + Head(gate.onComplete).links ELSE 0
    <3>1. CASE G = {}
      <4>1. Cardinality(G) = 0
        BY <3>1, FS_EmptySet
      <4>2. gate.onComplete # <<>> => Head(gate.onComplete).links \in Nat
        <5>1. gate.onComplete \in Seq(JobSpec)
          BY <2>2, SpanOfJobs DEF GateRecord
        <5> QED
          BY <5>1, LinksAreNat
      <4> QED
        BY <4>1, <4>2
    <3>2. CASE G # {}
      <4>1. PICK j \in G : TRUE
        BY <3>2
      <4>2. gate.fired /\ gate.onComplete # <<>>
            /\ store.jobs[j].spec.links + Cardinality(G) <= 1 + Head(gate.onComplete).links
        BY <2>2, <3>2 DEF Followed
      <4>3. store.jobs[j].spec.links \in Nat
        <5>1. store.jobs[j] \in Job
          BY <2>2, SpanOfJobs DEF Started
        <5> QED
          BY <5>1, LinksAreNat DEF Job, JobRecord
      <4>4. Head(gate.onComplete).links \in Nat
        <5>1. gate.onComplete \in Seq(JobSpec)
          BY <2>2, SpanOfJobs DEF GateRecord
        <5> QED
          BY <4>2, <5>1, LinksAreNat
      <4>5. Cardinality(G) \in Nat
        BY <2>2, StartedFinite
      <4> DEFINE L == store.jobs[j].spec.links
                 C == Cardinality(G)
                 H == Head(gate.onComplete).links
      <4>6. C <= 1 + H
        <5>1. L + C <= 1 + H /\ L \in Nat /\ C \in Nat /\ H \in Nat
          BY <4>2, <4>3, <4>4, <4>5
        <5> HIDE DEF L, C, H
        <5> QED
          BY <5>1
      <4> QED
        BY <4>2, <4>6
    <3> QED
      BY <3>1, <3>2
  <2> QED
    BY <2>2, <2>3 DEF Judged
<1> QED
  BY <1>1, EngineInvariant, PTL

(* A gate whose children have all ended in their own Complete or Fail has  *)
(* fired: the report of the last one saw to it.                            *)
THEOREM GatesSettle == Spec => []GateSettles
<1>1. EngineInv => GateSettles
  BY DEF EngineInv, Settles, Settled, GateSettles
<1> QED
  BY <1>1, EngineInvariant, PTL

(* No signal, retry, cancellation, report or second driver changes how a   *)
(* job ended.                                                              *)
THEOREM WhatEndedStaysEnded == Spec => TerminalIsFinal
<1> DEFINE Final == \A j \in DOMAIN store.jobs :
                      store.jobs[j].state \in Terminal => /\ store'.jobs[j].state = store.jobs[j].state
                                                          /\ store'.jobs[j].skipped = store.jobs[j].skipped
<1>1. EngineInv /\ [Next]_vars => [Final]_vars
  BY StepOfStore DEF Evolves
<1> QED
  BY <1>1, EngineInvariant, PTL DEF Spec, TerminalIsFinal

(* However many callers drive at once, no two of them are at the same job, *)
(* and a job that a driver is at has the state running.                    *)
THEOREM OneDriverPerJob == Spec => []RunsOwnJob
<1>1. EngineInv => RunsOwnJob
  BY DEF EngineInv
<1> QED
  BY <1>1, EngineInvariant, PTL

-----------------------------------------------------------------------------
(* What has been decided.                                                  *)

(* From s to t fired gates stay as they are, and dedup keys that name a    *)
(* job go on naming it.                                                    *)
Keeps(s, t) ==
    /\ DOMAIN s.gates \subseteq DOMAIN t.gates
    /\ \A g \in DOMAIN s.gates : s.gates[g].fired => t.gates[g] = s.gates[g]
    /\ \A i \in Identities : s.dedup[i] # 0 => t.dedup[i] = s.dedup[i]

LEMMA KeepsSame ==
    ASSUME NEW s, NEW t, t.gates = s.gates, t.dedup = s.dedup
    PROVE  Keeps(s, t)
BY DEF Keeps

LEMMA KeepsOn ==
    ASSUME NEW s, NEW t, NEW u, Keeps(s, t), Keeps(t, u)
    PROVE  Keeps(s, u)
BY DEF Keeps

LEMMA EnqueueKeeps ==
    ASSUME NEW s \in Store, NEW spec, NEW gate, NEW group
    PROVE  LET t == Enqueue(s, spec, gate, group) IN t.gates = s.gates /\ Keeps(s, t)
<1> DEFINE t == Enqueue(s, spec, gate, group)
<1>1. CASE Known(s, spec)
  BY <1>1 DEF Enqueue, Keeps
<1>2. CASE ~Known(s, spec)
  <2>1. /\ t.gates = s.gates
        /\ t.dedup = [i \in Identities |-> IF i = spec.identity THEN Len(s.jobs) + 1 ELSE s.dedup[i]]
    BY <1>2 DEF Enqueue, Store
  <2>2. \A i \in Identities : s.dedup[i] # 0 => i # spec.identity
    BY <1>2 DEF Known
  <2> QED
    BY <2>1, <2>2 DEF Keeps
<1> QED
  BY <1>1, <1>2

LEMMA ChildrenKeep ==
    ASSUME NEW s \in Store, \A i \in Identities : s.dedup[i] <= Len(s.jobs),
           NEW specs \in Seq(JobSpec), NEW gate \in Nat
    PROVE  Keeps(s, WithChildren(s, specs, gate).store)
<1>1. PICK after : /\ after[0] = [store |-> s, ids |-> <<>>]
                   /\ \A n \in 1..Len(specs) : after[n] = AddChild(after[n - 1], specs[n], gate)
                   /\ WithChildren(s, specs, gate) = after[Len(specs)]
  BY ChildrenInOrder
<1> DEFINE Good(t) == /\ t \in Store /\ (\A i \in Identities : t.dedup[i] <= Len(t.jobs))
                      /\ Keeps(s, t)
           S == {n \in 0..Len(specs) : Good(after[n].store)}
<1>2. Len(specs) \in Nat
  OBVIOUS
<1>3. 0 \in S
  BY <1>1, <1>2, KeepsSame
<1>4. ASSUME NEW n \in 0..(Len(specs) - 1), n \in S PROVE n + 1 \in S
  <2>1. n + 1 \in 1..Len(specs) /\ (n + 1) - 1 = n
    BY <1>2
  <2> DEFINE t == after[n].store
             u == Enqueue(t, specs[n + 1], gate, 0)
  <2>2. after[n + 1].store = u
    <3>1. after[n + 1] = AddChild(after[n], specs[n + 1], gate)
      BY <1>1, <2>1
    <3> QED
      BY <3>1 DEF AddChild
  <2>3. Good(t) /\ specs[n + 1] \in JobSpec
    BY <1>4, <2>1
  <2> HIDE DEF t
  <2>4. Grows(t, u, gate, 0) /\ Keeps(t, u)
    BY <2>3, EnqueueGrows, EnqueueKeeps
  <2> HIDE DEF u
  <2>5. Good(u)
    BY <2>3, <2>4, KeepsOn DEF Grows
  <2> QED
    BY <2>1, <2>2, <2>5
<1>5. 0..Len(specs) \subseteq S
  <2> HIDE DEF S
  <2> QED
    BY <1>2, <1>3, <1>4, UpTo
<1> QED
  BY <1>1, <1>2, <1>5

LEMMA GateKeeps ==
    ASSUME NEW s \in Store, NEW g \in DOMAIN s.gates, ~s.gates[g].fired, NEW gate \in GateRecord
    PROVE  WithGate(s, g, gate) \in Store /\ Keeps(s, WithGate(s, g, gate))
<1> DEFINE t == WithGate(s, g, gate)
<1>1. /\ t \in Store /\ t.dedup = s.dedup /\ DOMAIN t.gates = DOMAIN s.gates
      /\ \A h \in DOMAIN s.gates \ {g} : t.gates[h] = s.gates[h]
  BY WithGateIs
<1> HIDE DEF t
<1>2. Keeps(s, t)
  BY <1>1 DEF Keeps
<1> QED
  BY <1>1, <1>2 DEF t

LEMMA FireKeeps ==
    ASSUME NEW s \in Store, NEW g \in DOMAIN s.gates, ~s.gates[g].fired
    PROVE  Keeps(s, FireGate(s, g))
<1> DEFINE gate == s.gates[g]
           cont == [Head(gate.onComplete) EXCEPT !.ctx = gate.ctx]
<1>1. gate \in GateRecord
  BY SpanOfJobs
<1> HIDE DEF gate
<1>2. ASSUME NEW marked \in GateRecord, NEW spec
      PROVE  Keeps(s, WithGate(s, g, marked)) /\ Keeps(s, Enqueue(WithGate(s, g, marked), spec, 0, g))
  <2>1. WithGate(s, g, marked) \in Store /\ Keeps(s, WithGate(s, g, marked))
    BY GateKeeps
  <2> QED
    BY <2>1, EnqueueKeeps, KeepsOn
<1>3. Keeps(s, FailGate(s, g))
  <2> DEFINE marked == [gate EXCEPT !.fired = TRUE, !.failed = TRUE]
  <2>1. marked \in GateRecord
    BY <1>1 DEF GateRecord
  <2> HIDE DEF marked
  <2>2. \/ FailGate(s, g) = WithGate(s, g, marked)
        \/ FailGate(s, g) = Enqueue(WithGate(s, g, marked), FailureSpec(gate.ctx), 0, g)
    BY DEF FailGate, marked, gate
  <2> QED
    BY <1>2, <2>1, <2>2
<1>4. Keeps(s, ContinueGate(s, g))
  <2>1. CASE gate.onComplete = <<>>
    <3> DEFINE marked == [gate EXCEPT !.fired = TRUE]
    <3>1. marked \in GateRecord
      BY <1>1 DEF GateRecord
    <3> HIDE DEF marked
    <3>2. ContinueGate(s, g) = WithGate(s, g, marked)
      BY <2>1 DEF ContinueGate, marked, gate
    <3> QED
      BY <1>2, <3>1, <3>2
  <2>2. CASE gate.onComplete # <<>>
    <3>1. cont \in JobSpec
      <4>1. Head(gate.onComplete) \in JobSpec /\ gate.ctx \in Contexts
        BY <1>1, <2>2 DEF GateRecord
      <4> QED
        BY <4>1, OtherContext
    <3> DEFINE id == EnqueuedJob(s, cont)
               marked == [gate EXCEPT !.fired = TRUE, !.continuation = id]
    <3>2. ContinueGate(s, g) = Enqueue(WithGate(s, g, marked), cont, 0, g)
      BY <2>2 DEF ContinueGate, gate
    <3> HIDE DEF cont
    <3>3. id \in Nat
      BY DEF EnqueuedJob, Known, Store
    <3> HIDE DEF id
    <3>4. marked \in GateRecord
      BY <1>1, <3>3 DEF GateRecord
    <3> HIDE DEF marked
    <3> QED
      BY <1>2, <3>2, <3>4
  <2> QED
    BY <2>1, <2>2
<1> QED
  BY <1>3, <1>4 DEF FireGate

LEMMA MaybeFireKeeps ==
    ASSUME NEW s \in Store, NEW g \in Nat, g <= Len(s.gates)
    PROVE  Keeps(s, MaybeFireGate(s, g))
<1>1. CASE MaybeFireGate(s, g) = s
  BY <1>1, KeepsSame
<1>2. CASE MaybeFireGate(s, g) # s
  <2>1. g # 0 /\ ~s.gates[g].fired /\ MaybeFireGate(s, g) = FireGate(s, g)
    BY <1>2 DEF MaybeFireGate
  <2>2. g \in DOMAIN s.gates
    BY <2>1, SpanOfJobs
  <2> QED
    BY <2>1, <2>2, FireKeeps
<1> QED
  BY <1>1, <1>2

LEMMA JobKeeps ==
    ASSUME NEW s \in Store, NEW j \in DOMAIN s.jobs, NEW job
    PROVE  LET t == WithJob(s, j, job) IN t.gates = s.gates /\ t.dedup = s.dedup
<1> DEFINE jobs == [s.jobs EXCEPT ![j] = job]
<1>1. WithJob(s, j, job) = [s EXCEPT !.jobs = jobs]
  BY Zenon DEF WithJob
<1> HIDE DEF jobs
<1> QED
  BY <1>1 DEF Store

LEMMA OnCompleteKeeps ==
    ASSUME NEW s, Typed(s), NEW j \in DOMAIN s.jobs, s.jobs[j].state = "running", NEW how
    PROVE  Keeps(s, OnComplete(s, j, how))
<1> DEFINE job  == s.jobs[j]
           over == [job EXCEPT !.state = "succeeded", !.skipped = (how = "skip")]
           done == WithJob(s, j, over)
           next == IF how = "stop_chain" \/ job.spec.links = 0 THEN done ELSE AdvanceChain(done, j)
<1>1. /\ s \in Store /\ job \in Job /\ job.gate \in Nat /\ job.gate <= Len(s.gates)
      /\ job.spec.links \in Nat
  <2>1. s \in Store /\ job \in Job
    BY SpanOfJobs DEF Typed
  <2>2. job.gate \in Nat /\ job.spec \in JobSpec
    BY <2>1 DEF Job, JobRecord
  <2> QED
    BY <2>1, <2>2, LinksAreNat DEF Typed, Linked
<1>2. over \in Job /\ over.spec = job.spec
  BY <1>1, JobSucceeds
<1>3. OnComplete(s, j, how) = MaybeFireGate(next, job.gate)
  BY DEF OnComplete
<1> HIDE DEF over
<1>4. /\ done \in Store /\ done.gates = s.gates /\ done.dedup = s.dedup
      /\ j \in DOMAIN done.jobs /\ done.jobs[j] = over
  <2>1. /\ done \in Store /\ done.gates = s.gates /\ done.dedup = s.dedup
        /\ done.jobs[j] = over /\ Len(done.jobs) = Len(s.jobs)
    BY <1>1, <1>2, WithJobIs
  <2> HIDE DEF done
  <2> QED
    BY <1>1, <2>1, SpanOfJobs
<1> HIDE DEF done
<1>5. next \in Store /\ next.gates = s.gates /\ next.dedup = s.dedup
  <2>1. CASE next = done
    BY <1>4, <2>1
  <2>2. CASE next = AdvanceChain(done, j) /\ job.spec.links # 0
    <3> HIDE DEF next
    <3>1. done.jobs[j].spec.links > 0
      BY <1>1, <1>2, <1>4, <2>2
    <3> QED
      BY <1>4, <2>2, <3>1, AdvanceIs
  <2> QED
    BY <2>1, <2>2
<1> HIDE DEF next, job
<1>6. Keeps(s, next) /\ Keeps(next, MaybeFireGate(next, job.gate))
  BY <1>1, <1>5, KeepsSame, MaybeFireKeeps
<1> QED
  BY <1>3, <1>6, KeepsOn

LEMMA OnFailKeeps ==
    ASSUME NEW s, Typed(s), NEW j \in DOMAIN s.jobs, s.jobs[j].state = "running", NEW retryable
    PROVE  Keeps(s, OnFail(s, j, retryable))
<1> DEFINE job  == s.jobs[j]
           dead == WithJob(s, j, [job EXCEPT !.state = "dead"])
           next == Bury(s, j)
<1>1. s \in Store /\ job \in Job /\ job.gate \in Nat /\ job.gate <= Len(s.gates)
  BY SpanOfJobs DEF Typed, Linked, Job, JobRecord
<1>2. CASE Retries(job, retryable)
  <2>1. Keeps(s, RetryLater(s, j))
    BY <1>1, JobKeeps, KeepsSame DEF RetryLater
  <2> QED
    BY <1>2, <2>1 DEF OnFail
<1>3. CASE ~Retries(job, retryable)
  <2>1. dead \in Store /\ Keeps(s, dead) /\ dead.gates = s.gates
        /\ \A i \in Identities : dead.dedup[i] <= Len(dead.jobs)
    <3>1. [job EXCEPT !.state = "dead"] \in Job
      BY <1>1, JobDies
    <3>2. /\ dead \in Store /\ dead.gates = s.gates /\ dead.dedup = s.dedup
          /\ Len(dead.jobs) = Len(s.jobs)
      BY <1>1, <3>1, WithJobIs
    <3> HIDE DEF dead
    <3> QED
      BY <3>2, KeepsSame DEF Typed, Linked
  <2>2. next = IF job.spec.onFailure THEN Enqueue(dead, FailureSpec(job.spec.ctx), 0, 0) ELSE dead
    BY DEF Bury
  <2>3. OnFail(s, j, retryable) = MaybeFireGate(next, job.gate)
    BY <1>3 DEF OnFail
  <2> HIDE DEF dead, next
  <2>4. next \in Store /\ Keeps(s, next) /\ next.gates = s.gates
    <3>1. CASE next = dead
      BY <2>1, <3>1
    <3>2. CASE next = Enqueue(dead, FailureSpec(job.spec.ctx), 0, 0)
      <4>1. FailureSpec(job.spec.ctx) \in JobSpec
        <5>1. job.spec.ctx \in Contexts
          BY <1>1 DEF Job, JobRecord, JobSpec, SpecRecord
        <5> QED
          BY <5>1, FailureSpecs
      <4>2. Grows(dead, next, 0, 0)
        BY <2>1, <3>2, <4>1, EnqueueGrows
      <4>3. Keeps(dead, next) /\ next.gates = dead.gates
        BY <2>1, <3>2, EnqueueKeeps
      <4> QED
        BY <2>1, <4>2, <4>3, KeepsOn DEF Grows
    <3> QED
      BY <2>2, <3>1, <3>2
  <2> HIDE DEF job
  <2>5. Keeps(next, MaybeFireGate(next, job.gate))
    BY <1>1, <2>4, MaybeFireKeeps
  <2> QED
    BY <2>3, <2>4, <2>5, KeepsOn
<1> QED
  BY <1>2, <1>3

LEMMA FanOutKeeps ==
    ASSUME NEW s, Typed(s), NEW plan, IsPlan(plan)
    PROVE  Keeps(s, FanOutStore(s, plan))
<1> DEFINE new  == Len(s.gates) + 1
           done == WithChildren(s, plan.children, new)
           u    == done.store
           t    == FanOutStore(s, plan)
<1>1. s \in Store /\ (\A i \in Identities : s.dedup[i] <= Len(s.jobs)) /\ new \in Nat
  BY SpanOfJobs DEF Typed, Linked
<1>2. plan.children \in Seq(JobSpec)
  BY DEF IsPlan
<1>3. PICK gate : t = [u EXCEPT !.gates = Append(@, gate)]
  BY DEF FanOutStore
<1> HIDE DEF new
<1>4. Grows(s, u, new, 0) /\ Keeps(s, u)
  BY <1>1, <1>2, ChildrenGrow, ChildrenKeep
<1> HIDE DEF done, u, t
<1>5. Keeps(u, t)
  <2>1. u \in Store
    BY <1>4 DEF Grows
  <2>2. t.gates = Append(u.gates, gate) /\ t.dedup = u.dedup
    BY <1>3, <2>1 DEF Store
  <2>3. u.gates \in Seq(GateRecord)
    BY <2>1 DEF Store
  <2>4. DOMAIN u.gates \subseteq DOMAIN t.gates /\ \A g \in DOMAIN u.gates : t.gates[g] = u.gates[g]
    BY <2>2, <2>3
  <2> QED
    BY <2>2, <2>4 DEF Keeps
<1> QED
  BY <1>4, <1>5, KeepsOn DEF t

(* A fired gate keeps its verdict and its continuation, and a dedup key    *)
(* the first job submitted with it, whatever is reported, cancelled or     *)
(* submitted later.                                                        *)
THEOREM DecisionsStand == Spec => FirstWordStands
<1>1. ASSUME EngineInv, [Next]_vars PROVE Keeps(store, store')
  <2>1. Typed(store) /\ store \in Store /\ \A d \in Drivers : running[d] # 0 =>
          running[d] \in DOMAIN store.jobs /\ store.jobs[running[d]].state = "running"
    BY <1>1 DEF EngineInv, Sound, Typed, TypeOK, RunsOwnJob
  <2>2. ASSUME NEW spec \in Specs, Submit(spec) PROVE Keeps(store, store')
    BY <2>1, <2>2, EnqueueKeeps DEF Submit
  <2>3. ASSUME NEW plan \in Plans, FanOut(plan) PROVE Keeps(store, store')
    BY <2>1, <2>3, FanOutKeeps, SymbaTestAssumption DEF FanOut
  <2>4. ASSUME NEW k \in Keys, NEW payload \in {"payload", "empty"}, Signal(k, payload)
        PROVE  Keeps(store, store')
    <3>1. store'.gates = store.gates /\ store'.dedup = store.dedup
      BY <2>1, <2>4 DEF Signal, SignalStore, Store
    <3> QED
      BY <3>1, KeepsSame
  <2>5. ASSUME NEW j \in DOMAIN store.jobs, NEW cascade \in BOOLEAN, Cancel(j, cascade)
        PROVE  Keeps(store, store')
    <3>1. store'.gates = store.gates /\ store'.dedup = store.dedup
      BY <2>1, <2>5 DEF Cancel, DoCancel, Store
    <3> QED
      BY <3>1, KeepsSame
  <2>6. ASSUME NEW d \in Drivers, Tick(d) PROVE Keeps(store, store')
    <3>1. PICK j \in Runnable(store) :
            store' = WithJob(store, j, [store.jobs[j] EXCEPT !.state = "running"])
      BY <2>6 DEF Tick
    <3>2. j \in DOMAIN store.jobs
      BY DEF Runnable
    <3> QED
      BY <2>1, <3>1, <3>2, JobKeeps, KeepsSame
  <2>7. ASSUME NEW d \in Drivers, AdvanceClock(d) PROVE Keeps(store, store')
    <3>1. PICK seconds : store' = Advanced(store, seconds)
      BY <2>7 DEF AdvanceClock
    <3>2. store'.gates = store.gates /\ store'.dedup = store.dedup
      BY <2>1, <3>1 DEF Advanced, Store
    <3> QED
      BY <3>2, KeepsSame
  <2>8. ASSUME NEW d \in Drivers, Complete(d) PROVE Keeps(store, store')
    BY <2>1, <2>8, OnCompleteKeeps DEF Complete
  <2>9. ASSUME NEW d \in Drivers, Fail(d) PROVE Keeps(store, store')
    BY <2>1, <2>9, OnFailKeeps DEF Fail
  <2>10. ASSUME NEW d \in Drivers, NEW k \in Keys, WaitForEvent(d, k) PROVE Keeps(store, store')
    <3>1. store' = store \/ (\E pending : store' = [store EXCEPT !.pending = pending])
          \/ store' = Parked(store, running[d], k)
      BY <2>10 DEF WaitForEvent, WaitReturns, WaitConsumes, WaitParks
    <3>2. store'.gates = store.gates /\ store'.dedup = store.dedup
      <4>1. running[d] \in DOMAIN store.jobs
        BY <2>1, <2>10 DEF WaitForEvent
      <4>2. CASE store' = Parked(store, running[d], k)
        BY <2>1, <4>1, <4>2, JobKeeps DEF Parked
      <4>3. CASE \E pending : store' = [store EXCEPT !.pending = pending]
        BY <2>1, <4>3 DEF Store
      <4> QED
        BY <3>1, <4>2, <4>3
    <3> QED
      BY <3>2, KeepsSame
  <2>11. ASSUME store' = store PROVE Keeps(store, store')
    BY <2>11, KeepsSame
  <2>12. CASE UNCHANGED vars
    BY <2>11, <2>12 DEF vars
  <2>13. ASSUME Next PROVE Keeps(store, store')
    <3>1. CASE Call
      BY <2>2, <2>3, <2>4, <2>5, <3>1 DEF Call
    <3>2. ASSUME NEW d \in Drivers, Drive(d) PROVE Keeps(store, store')
      BY <2>6, <2>7, <2>8, <2>9, <2>10, <2>11, <3>2 DEF Drive, NoOutcome
    <3> QED
      BY <2>13, <3>1, <3>2 DEF Next
  <2> QED
    BY <1>1, <2>12, <2>13
<1> DEFINE Stand == /\ \A g \in DOMAIN store.gates : store.gates[g].fired => store'.gates[g] = store.gates[g]
                    /\ \A i \in Identities : store.dedup[i] # 0 => store'.dedup[i] = store.dedup[i]
<1>2. EngineInv /\ [Next]_vars => [Stand]_vars
  BY <1>1 DEF Keeps
<1> QED
  BY <1>2, EngineInvariant, PTL DEF Spec, FirstWordStands

=============================================================================
