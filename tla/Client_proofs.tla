--------------------------- MODULE Client_proofs ---------------------------
(***************************************************************************)
(* Proofs about the client: ClientEngine, for any calls, retries, keys and *)
(* page size, and SyncClient, for any number of calls and closes.          *)
(***************************************************************************)
EXTENDS ClientEngine, SyncClient, FiniteSetTheorems, SequenceTheorems, TLAPS

-----------------------------------------------------------------------------
(* The asynchronous client, ClientEngine.                                  *)

(* Jobs are created in order of time.                                      *)
InTime == \A i, j \in Jobs : i <= j => jobs[i].time <= jobs[j].time

(* On a replaying stream emitted is a prefix of the ledger, of which the   *)
(* watermark and what was seen at it tell exactly what has been delivered; *)
(* on a live tail every new event is behind the cursor of all before.      *)
Watermark ==
    /\ since \in Nat /\ emitted \in Seq(Nat)
    /\ since = 0 <=> emitted = <<>>
    /\ cursor <= Len(jobs) + 1
    /\ \A k \in DOMAIN emitted : emitted[k] \in Jobs
    /\ replays =>
         /\ \A k \in DOMAIN emitted : emitted[k] = k
         /\ emitted # <<>> => since = jobs[Len(emitted)].time
         /\ seen = {i \in 1..Len(emitted) : jobs[i].time = since}
         /\ stream = "connected" => cursor <= Len(emitted) + 1
    /\ ~replays =>
         /\ \A k \in DOMAIN emitted : emitted[k] < cursor
         /\ \A i, j \in DOMAIN emitted : i < j => emitted[i] < emitted[j]

(* What query() has yielded is the ledger up to its token, until it ends.  *)
Listing ==
    /\ token <= Len(jobs) /\ before \in 0..Len(jobs)
    /\ listed \in Seq(Nat)
    /\ lister = "idle" => listed = <<>> /\ token = 0
    /\ lister = "asking" => Len(listed) = token /\ (Limit > 0 => token < Limit)
    /\ ListsEachOnce

-----------------------------------------------------------------------------
(* What every step does to the jobs.                                       *)

LEMMA Records ==
    ASSUME NEW ledger \in Seq(JobRecord)
    PROVE  /\ Len(ledger) \in Nat /\ (ledger = <<>> <=> Len(ledger) = 0)
           /\ \A i \in 1..Len(ledger) : ledger[i].by \in Calls /\ ledger[i].time \in Nat \ {0}
<1>1. ledger = <<>> <=> Len(ledger) = 0
  BY EmptySeq
<1>2. Len(ledger) \in Nat /\ \A i \in 1..Len(ledger) : ledger[i] \in JobRecord
  OBVIOUS
<1> QED
  BY <1>1, <1>2 DEF JobRecord

LEMMA CreateAppends ==
    ASSUME TypeOK, NEW c \in Calls, NEW continues \in BOOLEAN, Create(c, continues)
    PROVE  /\ Len(jobs') = Len(jobs) + 1 /\ Len(jobs') <= MaxJobs
           /\ jobs' \in Seq(JobRecord)
           /\ Jobs' = Jobs \cup {Len(jobs) + 1}
           /\ \A i \in Jobs : jobs'[i] = jobs[i]
           /\ jobs'[Len(jobs) + 1].by = c
           /\ jobs'[Len(jobs) + 1].time >= LastTime
<1>1. LastTime \in Nat \ {0}
  <2>1. jobs # <<>> => Len(jobs) \in 1..Len(jobs)
    BY Records DEF TypeOK
  <2> QED
    BY <2>1, Records DEF TypeOK, LastTime
<1>2. PICK t \in {LastTime, LastTime + 1} :
         jobs' = Append(jobs, [by |-> c, time |-> t, continues |-> continues])
  BY DEF Create
<1>3. [by |-> c, time |-> t, continues |-> continues]
         \in JobRecord
  BY <1>1 DEF JobRecord
<1>4. /\ Len(jobs') = Len(jobs) + 1 /\ \A i \in Jobs : jobs'[i] = jobs[i]
      /\ jobs'[Len(jobs) + 1] = [by |-> c, time |-> t, continues |-> continues]
      /\ jobs' \in Seq(JobRecord)
  BY <1>2, <1>3 DEF TypeOK, Jobs
<1>5. Len(jobs') <= MaxJobs
  BY <1>4, EngineAssumption DEF Create, TypeOK
<1> QED
  BY <1>1, <1>4, <1>5 DEF Jobs, TypeOK

(* A step leaves the jobs alone or appends one.                            *)
Grown ==
    \/ UNCHANGED jobs
    \/ \E c \in Calls, continues \in BOOLEAN : Create(c, continues)

LEMMA ApplyGrows == ASSUME NEW c \in Calls, NEW job, Apply(c, job) PROVE Grown
BY DEF Apply, ApplySubmit, Grown

LEMMA StepGrows == ASSUME [Next]_vars PROVE Grown
<1>1. ASSUME NEW c \in Calls, CallAnswered(c) \/ CallLost(c) PROVE Grown
  BY <1>1, ApplyGrows DEF CallAnswered, CallLost, Grown
<1>2. ASSUME NEW c \in Calls, RefuseSpec(c) \/ SendCall(c) \/ RetryCall(c) \/ CallRejected(c) PROVE Grown
  BY <1>2 DEF RefuseSpec, SendCall, RetryCall, CallRejected, engineVars, Grown
<1>3. ASSUME NEW g \in FanOuts, GateFires(g) \/ PollFinds(g) \/ AwaitReturns(g) \/ ResultFails(g)
      PROVE  Grown
  BY <1>3 DEF GateFires, PollFinds, AwaitReturns, ResultFails, engineVars, Grown, Calls
<1>4. ASSUME \/ \E i \in Jobs : JobEnds(i)
             \/ StreamConnects \/ StreamDelivers \/ StreamDrops
             \/ BeginQuery \/ PageAnswered \/ PageFails
      PROVE  Grown
  BY <1>4 DEF JobEnds, StreamConnects, StreamDelivers, StreamDrops, BeginQuery, PageAnswered,
              PageFails, engineVars, Grown
<1>5. CASE UNCHANGED vars
  BY <1>5 DEF vars, engineVars, Grown
<1> QED
  BY <1>1, <1>2, <1>3, <1>4, <1>5 DEF Next

LEMMA GrownKeeps ==
    ASSUME TypeOK, Grown
    PROVE  /\ Len(jobs) <= Len(jobs') /\ Len(jobs') <= MaxJobs
           /\ jobs' \in Seq(JobRecord)
           /\ Jobs \subseteq Jobs' /\ \A i \in Jobs : jobs'[i] = jobs[i]
<1>1. CASE UNCHANGED jobs
  BY <1>1 DEF TypeOK, Jobs
<1>2. ASSUME NEW c \in Calls, NEW continues \in BOOLEAN, Create(c, continues)
      PROVE  /\ Len(jobs) <= Len(jobs') /\ Len(jobs') <= MaxJobs
             /\ jobs' \in Seq(JobRecord)
             /\ Jobs \subseteq Jobs' /\ \A i \in Jobs : jobs'[i] = jobs[i]
  BY <1>2, CreateAppends, Records DEF TypeOK, Jobs
<1> QED
  BY <1>1, <1>2 DEF Grown

LEMMA InTimeStep == ASSUME TypeOK, InTime, [Next]_vars PROVE InTime'
<1>1. CASE UNCHANGED jobs
  BY <1>1 DEF InTime, Jobs
<1>2. ASSUME NEW c \in Calls, NEW continues \in BOOLEAN, Create(c, continues) PROVE InTime'
  <2>1. /\ Jobs' = Jobs \cup {Len(jobs) + 1} /\ \A i \in Jobs : jobs'[i] = jobs[i]
        /\ jobs'[Len(jobs) + 1].time >= LastTime
        /\ \A i \in Jobs' : jobs'[i].time \in Nat
    BY <1>2, CreateAppends, Records DEF Jobs
  <2>2. /\ Len(jobs) \in Nat /\ (jobs = <<>> <=> Len(jobs) = 0)
        /\ \A i \in Jobs : jobs[i].time \in Nat
    BY Records DEF TypeOK, Jobs
  <2>3. LastTime \in Nat /\ \A i \in Jobs : jobs[i].time <= LastTime
    BY <2>2 DEF LastTime, InTime, Jobs
  <2> QED
    BY SMTT(30), <2>1, <2>2, <2>3 DEF InTime, Jobs
<1> QED
  BY <1>1, <1>2, StepGrows DEF Grown

-----------------------------------------------------------------------------
(* Types.                                                                  *)

LEMMA TypeStep == ASSUME TypeOK, Listing, [Next]_vars PROVE TypeOK'
<1> USE EngineAssumption DEF Go, callVars, gateVars, streamVars, queryVars, engineVars, fixedVars
<1>1. /\ Len(jobs') \in Nat /\ Len(jobs) \in Nat /\ Len(jobs) <= Len(jobs') /\ Len(jobs') <= MaxJobs
      /\ jobs' \in Seq(JobRecord)
      /\ Jobs \subseteq Jobs' /\ Jobs' \subseteq 1..MaxJobs
  BY StepGrows, GrownKeeps, Records DEF Jobs, TypeOK
<1> USE DEF TypeOK
<1>2. ASSUME NEW c \in Calls, RefuseSpec(c) \/ SendCall(c) \/ RetryCall(c) \/ CallRejected(c)
      PROVE  TypeOK'
  BY <1>1, <1>2 DEF RefuseSpec, SendCall, RetryCall, CallRejected
<1>3. ASSUME NEW c \in Calls, CallAnswered(c) PROVE TypeOK'
  BY <1>1, <1>3 DEF CallAnswered, Calls
<1>4. ASSUME NEW c \in Calls, CallLost(c) PROVE TypeOK'
  <2>1. tries' \in [Calls -> 0..Retries]
    <3>1. CASE tries' = tries
      BY <3>1
    <3>2. CASE tries[c] < RetriesOf(c) /\ tries' = [tries EXCEPT ![c] = @ + 1]
      <4>1. tries[c] + 1 \in 0..Retries
        BY <3>2 DEF RetriesOf
      <4> QED
        BY <3>2, <4>1
    <3> QED
      BY <1>4, <3>1, <3>2 DEF CallLost
  <2> QED
    BY <1>1, <1>4, <2>1 DEF CallLost
<1>5. ASSUME NEW g \in FanOuts, GateFires(g) PROVE TypeOK'
  BY <1>1, <1>5 DEF GateFires
<1>6. ASSUME NEW g \in FanOuts, PollFinds(g) \/ AwaitReturns(g) \/ ResultFails(g) PROVE TypeOK'
  <2>1. Continuations \subseteq 0..MaxJobs
    <3>1. Continuations \subseteq Jobs
      BY DEF Continuations
    <3> QED
      BY <1>1, <3>1
  <2> QED
    BY <1>1, <1>6, <2>1 DEF PollFinds, AwaitReturns, ResultFails
<1>7. ASSUME NEW i \in Jobs, JobEnds(i) PROVE TypeOK'
  BY <1>1, <1>7 DEF JobEnds, Continuations
<1>8. ASSUME StreamConnects \/ StreamDrops \/ StreamDelivers PROVE TypeOK'
  <2>1. cursor' \in 1..(MaxJobs + 1) /\ seen' \subseteq 1..MaxJobs
    <3>1. CASE StreamConnects
      BY <1>1, <3>1 DEF StreamConnects
    <3>2. CASE StreamDelivers
      <4>1. cursor \in 1..MaxJobs /\ cursor' = cursor + 1
        BY <1>1, <3>2 DEF StreamDelivers
      <4>2. seen' = seen \/ seen' \subseteq seen \cup {cursor}
        BY <3>2 DEF StreamDelivers
      <4>3. seen \cup {cursor} \subseteq 1..MaxJobs
        BY <4>1
      <4>4. cursor + 1 \in 1..(MaxJobs + 1)
        BY <4>1
      <4> QED
        BY <4>1, <4>2, <4>3, <4>4
    <3>3. CASE StreamDrops
      BY <1>1, <3>3 DEF StreamDrops
    <3> QED
      BY <1>8, <3>1, <3>2, <3>3
  <2> QED
    BY <1>1, <1>8, <2>1 DEF StreamConnects, StreamDrops, StreamDelivers
<1>9. ASSUME BeginQuery \/ PageFails PROVE TypeOK'
  BY <1>1, <1>9 DEF BeginQuery, PageFails
<1>10. ASSUME PageAnswered PROVE TypeOK'
  <2>1. token' \in 0..MaxJobs
    BY <1>1, <1>10 DEF PageAnswered, Listing
  <2> QED
    BY <1>1, <1>10, <2>1 DEF PageAnswered
<1>11. CASE UNCHANGED vars
  BY <1>1, <1>11 DEF vars, Jobs
<1> QED
  BY <1>2, <1>3, <1>4, <1>5, <1>6, <1>7, <1>8, <1>9, <1>10, <1>11 DEF Next

-----------------------------------------------------------------------------
(* Keys.                                                                   *)

(* A new job has no key, or one that no job had.                           *)
NewKey(c) == KeyOf[c] = NoKey \/ \A i \in Jobs : KeyOf[jobs[i].by] # KeyOf[c]

UniqueKeys ==
    \A i, j \in Jobs : KeyOf[jobs[i].by] # NoKey /\ KeyOf[jobs[i].by] = KeyOf[jobs[j].by] => i = j

(* A job that has a key keeps it to itself.                                *)
KeysKept == \A d \in Calls : SameKey(d) # {} => SameKey(d)' = SameKey(d)

LEMMA FreshKeyKeeps ==
    ASSUME TypeOK, KeyedSubmitOnce, NEW c \in Calls, NEW continues \in BOOLEAN,
           Create(c, continues), NewKey(c)
    PROVE  UniqueKeys' /\ KeysKept /\ (KeyOf[c] # NoKey => SameKey(c)' = {Len(jobs) + 1})
<1>1. /\ Jobs' = Jobs \cup {Len(jobs) + 1} /\ Len(jobs) + 1 \notin Jobs
      /\ \A i \in Jobs : jobs'[i] = jobs[i]
      /\ jobs'[Len(jobs) + 1].by = c
  BY CreateAppends, Records DEF TypeOK, Jobs
<1>2. KeysKept
  BY <1>1 DEF KeysKept, SameKey, NewKey
<1>3. KeyOf[c] # NoKey => SameKey(c)' = {Len(jobs) + 1}
  BY <1>1 DEF SameKey, NewKey
<1>4. UniqueKeys'
  BY <1>1 DEF UniqueKeys, KeyedSubmitOnce, NewKey
<1> QED
  BY <1>2, <1>3, <1>4

LEMMA SameJobsKeep == ASSUME KeyedSubmitOnce, UNCHANGED jobs PROVE UniqueKeys' /\ KeysKept
BY DEF UniqueKeys, KeysKept, KeyedSubmitOnce, Jobs, SameKey

(* Applying a submission leaves one job of its key, the one it names.      *)
LEMMA SubmitKeeps ==
    ASSUME TypeOK, KeyedSubmitOnce, NEW c \in Calls, NEW job, Apply(c, job)
    PROVE  UniqueKeys' /\ KeysKept /\ (c \in Submits /\ KeyOf[c] # NoKey => SameKey(c)' = {job})
<1>1. CASE c \in Submits /\ SameKey(c) = {} /\ Create(c, FALSE) /\ job = Len(jobs) + 1
  <2>1. NewKey(c)
    BY <1>1 DEF NewKey, SameKey
  <2> QED
    BY <1>1, <2>1, FreshKeyKeeps
<1>2. CASE c \in Submits /\ job \in SameKey(c) /\ UNCHANGED jobs
  <2>1. SameKey(c) = {job} /\ SameKey(c)' = SameKey(c)
    BY <1>2 DEF SameKey, KeyedSubmitOnce, Jobs
  <2> QED
    BY <1>2, <2>1, SameJobsKeep
<1>3. CASE c \in FanOuts /\ UNCHANGED jobs
  BY <1>3, SameJobsKeep, EngineAssumption
<1> QED
  BY <1>1, <1>2, <1>3, Zenon DEF Apply, ApplySubmit

(* The handle of a call is not disturbed.                                  *)
Undisturbed(c) == at'[c] = "answered" => at[c] = "answered" /\ handle'[c] = handle[c]

LEMMA KeyedFrom ==
    ASSUME KeyedSubmitOnce, UniqueKeys', KeysKept,
           \A d \in Submits : \/ Undisturbed(d)
                              \/ KeyOf[d] # NoKey => SameKey(d)' = {handle'[d]}
    PROVE  KeyedSubmitOnce'
<1>1. ASSUME NEW d \in Submits, at'[d] = "answered", KeyOf[d] # NoKey
      PROVE  SameKey(d)' = {handle'[d]}
  <2>1. CASE Undisturbed(d)
    BY <1>1, <2>1 DEF KeyedSubmitOnce, KeysKept, Undisturbed, Calls
  <2> QED
    BY <1>1, <2>1
<1> QED
  BY <1>1 DEF KeyedSubmitOnce, UniqueKeys

LEMMA KeyedStep == ASSUME TypeOK, KeyedSubmitOnce, [Next]_vars PROVE KeyedSubmitOnce'
<1>1. ASSUME NEW c \in Calls, CallAnswered(c) PROVE KeyedSubmitOnce'
  <2>1. PICK job \in 0..MaxJobs : Apply(c, job) /\ handle' = [handle EXCEPT ![c] = job]
    BY <1>1 DEF CallAnswered
  <2>2. UniqueKeys' /\ KeysKept /\ (c \in Submits /\ KeyOf[c] # NoKey => SameKey(c)' = {job})
    BY <2>1, SubmitKeeps
  <2>3. handle'[c] = job /\ \A d \in Calls \ {c} : Undisturbed(d)
    BY <1>1, <2>1 DEF CallAnswered, Go, TypeOK, Undisturbed
  <2> QED
    BY <2>2, <2>3, KeyedFrom DEF Calls
<1>2. ASSUME NEW c \in Calls, CallLost(c) PROVE KeyedSubmitOnce'
  <2>1. UniqueKeys' /\ KeysKept
    BY <1>2, SameJobsKeep, SubmitKeeps DEF CallLost
  <2>2. \A d \in Calls : Undisturbed(d)
    BY <1>2 DEF CallLost, Go, TypeOK, Undisturbed
  <2> QED
    BY <2>1, <2>2, KeyedFrom DEF Calls
<1>3. ASSUME NEW c \in Calls, RefuseSpec(c) \/ SendCall(c) \/ RetryCall(c) \/ CallRejected(c)
      PROVE  KeyedSubmitOnce'
  <2>1. UNCHANGED jobs /\ \A d \in Calls : Undisturbed(d)
    BY <1>3 DEF RefuseSpec, SendCall, RetryCall, CallRejected, Go, TypeOK, engineVars, Undisturbed
  <2> QED
    BY <2>1, SameJobsKeep, KeyedFrom DEF Calls
<1>4. ASSUME NEW g \in FanOuts, GateFires(g) PROVE KeyedSubmitOnce'
  <2>1. NewKey(g) /\ Create(g, TRUE) /\ g \in Calls
    BY <1>4, EngineAssumption DEF GateFires, NewKey, Calls
  <2>2. UniqueKeys' /\ KeysKept
    BY <2>1, FreshKeyKeeps
  <2>3. \A d \in Calls : Undisturbed(d)
    BY <1>4 DEF GateFires, callVars, Undisturbed
  <2> QED
    BY <2>2, <2>3, KeyedFrom DEF Calls
<1>5. ASSUME \/ \E g \in FanOuts : PollFinds(g) \/ AwaitReturns(g) \/ ResultFails(g)
             \/ \E i \in Jobs : JobEnds(i)
             \/ StreamConnects \/ StreamDelivers \/ StreamDrops
             \/ BeginQuery \/ PageAnswered \/ PageFails
             \/ UNCHANGED vars
      PROVE  KeyedSubmitOnce'
  <2>1. UNCHANGED jobs /\ UNCHANGED callVars
    BY <1>5 DEF PollFinds, AwaitReturns, ResultFails, JobEnds, StreamConnects, StreamDelivers,
       StreamDrops, BeginQuery, PageAnswered, PageFails, engineVars, vars
  <2>2. \A d \in Calls : Undisturbed(d)
    BY <2>1 DEF callVars, Undisturbed
  <2> QED
    BY <2>1, <2>2, SameJobsKeep, KeyedFrom DEF Calls
<1> QED
  BY <1>1, <1>2, <1>3, <1>4, <1>5 DEF Next

-----------------------------------------------------------------------------
(* The event stream.                                                       *)

LEMMA WatermarkStep == ASSUME TypeOK, InTime, Watermark, [Next]_vars PROVE Watermark'
<1>1. /\ Len(jobs) \in Nat /\ Len(jobs') \in Nat /\ Len(jobs) <= Len(jobs')
      /\ \A i \in Jobs : i \in Jobs' /\ jobs'[i] = jobs[i] /\ jobs[i].time \in Nat \ {0}
  BY StepGrows, GrownKeeps, Records DEF TypeOK, Jobs
<1>2. Len(emitted) \in Nat /\ DOMAIN emitted = 1..Len(emitted) /\ (emitted = <<>> <=> Len(emitted) = 0)
  BY EmptySeq DEF Watermark
<1>3. replays => Len(emitted) <= Len(jobs)
  BY <1>1, <1>2 DEF Watermark, Jobs
<1>4. ASSUME UNCHANGED <<stream, since, seen, emitted, cursor, replays>> PROVE Watermark'
  <2>1. replays => seen' = {i \in 1..Len(emitted') : jobs'[i].time = since'}
    BY <1>1, <1>2, <1>3, <1>4 DEF Watermark, Jobs
  <2>2. replays /\ emitted' # <<>> => since' = jobs'[Len(emitted')].time
    BY <1>1, <1>2, <1>3, <1>4 DEF Watermark, Jobs
  <2> QED
    BY <1>1, <1>2, <1>4, <2>1, <2>2 DEF Watermark, Jobs, TypeOK
<1>5. ASSUME StreamConnects PROVE Watermark'
  <2>1. UNCHANGED <<since, seen, emitted, replays, jobs>> /\ cursor' = IF replays THEN 1 ELSE Len(jobs) + 1
    BY <1>5 DEF StreamConnects, engineVars, fixedVars
  <2>2. Jobs' = Jobs
    BY <2>1 DEF Jobs
  <2> QED
    BY <1>1, <1>2, <2>1, <2>2 DEF Watermark, Jobs
<1>6. ASSUME StreamDrops PROVE Watermark'
  <2>1. UNCHANGED <<since, seen, emitted, cursor, replays, jobs>> /\ stream' # "connected"
    BY <1>6 DEF StreamDrops, engineVars, fixedVars
  <2>2. Jobs' = Jobs
    BY <2>1 DEF Jobs
  <2> QED
    BY <2>1, <2>2 DEF Watermark
<1>7. ASSUME StreamDelivers PROVE Watermark'
  <2> DEFINE n == Len(emitted)
  <2>1. /\ cursor \in Jobs /\ cursor' = cursor + 1 /\ stream = "connected" /\ stream' = stream
        /\ UNCHANGED <<jobs, replays>> /\ Jobs' = Jobs
    BY <1>7 DEF StreamDelivers, engineVars, fixedVars, Jobs
  <2>2. CASE DeliveredBefore(cursor)
    <3>1. UNCHANGED <<since, seen, emitted>>
      BY <1>7, <2>2 DEF StreamDelivers
    <3>2. replays => cursor <= n
      <4>1. SUFFICES ASSUME replays, cursor = n + 1 PROVE FALSE
        BY <1>1, <1>2, <2>1 DEF Watermark, Jobs
      <4>2. since # 0 /\ n # 0 /\ n \in Jobs /\ since = jobs[n].time
        BY <1>1, <1>2, <1>3, <2>2, <4>1 DEF DeliveredBefore, Watermark, Jobs
      <4>3. jobs[n].time <= jobs[cursor].time
        BY <1>2, <2>1, <4>1, <4>2 DEF InTime
      <4>4. cursor \notin seen
        BY <1>2, <4>1 DEF Watermark
      <4> QED
        BY <1>1, <2>1, <2>2, <4>2, <4>3, <4>4 DEF DeliveredBefore
    <3> QED
      BY <1>1, <1>2, <2>1, <3>1, <3>2 DEF Watermark, Jobs
  <2>3. CASE ~DeliveredBefore(cursor)
    <3>1. /\ since' = jobs[cursor].time
          /\ seen' = {i \in seen : since' = since} \cup {cursor}
          /\ emitted' = Append(emitted, cursor)
      BY <1>7, <2>3 DEF StreamDelivers
    <3>2. /\ emitted' \in Seq(Nat) /\ Len(emitted') = n + 1 /\ DOMAIN emitted' = 1..(n + 1)
          /\ \A k \in 1..n : emitted'[k] = emitted[k]
          /\ emitted'[n + 1] = cursor /\ emitted' # <<>>
      BY <1>2, <2>1, <3>1 DEF Watermark, Jobs
    <3>3. since' \in Nat \ {0}
      BY <1>1, <2>1, <3>1
    <3>4. ASSUME replays PROVE cursor = n + 1 /\ (n # 0 => jobs[n].time <= since' /\ n \in Jobs)
      <4>1. ASSUME n # 0 PROVE n \in Jobs /\ since = jobs[n].time /\ since # 0
        BY <1>1, <1>2, <1>3, <3>4, <4>1 DEF Watermark, Jobs
      <4>2. ASSUME cursor <= n PROVE FALSE
        <5>1. n # 0
          BY <2>1, <4>2, <1>2 DEF Jobs
        <5>2. jobs[cursor].time <= jobs[n].time
          BY <2>1, <4>1, <4>2, <5>1 DEF InTime
        <5>3. jobs[cursor].time = since => cursor \in seen
          BY <1>2, <2>1, <3>4, <4>2 DEF Watermark, Jobs
        <5> QED
          BY <1>1, <2>1, <2>3, <4>1, <5>1, <5>2, <5>3 DEF DeliveredBefore
      <4>3. cursor = n + 1
        BY <1>1, <1>2, <2>1, <3>4, <4>2 DEF Watermark, Jobs
      <4>4. ASSUME n # 0 PROVE jobs[n].time <= since'
        BY <1>2, <2>1, <3>1, <4>1, <4>3, <4>4 DEF InTime
      <4> QED
        BY <4>1, <4>3, <4>4
    <3>5. ASSUME replays PROVE seen' = {i \in 1..(n + 1) : jobs[i].time = since'}
      <4>1. ASSUME NEW i \in 1..n
            PROVE  i \in seen' <=> jobs[i].time = since'
        <5>1. i \in Jobs /\ n \in Jobs /\ jobs[i].time <= jobs[n].time /\ jobs[n].time <= since'
          BY <1>1, <1>2, <1>3, <3>4, <3>5, <4>1 DEF InTime, Jobs
        <5>2. since = jobs[n].time /\ (i \in seen <=> jobs[i].time = since) /\ i # cursor
          BY <1>2, <3>4, <3>5, <4>1 DEF Watermark
        <5>3. i \in seen' <=> i \in seen /\ since' = since
          BY <3>1, <5>2
        <5> QED
          BY <1>1, <3>3, <5>1, <5>2, <5>3
      <4>2. n + 1 \in seen' /\ jobs[n + 1].time = since'
        BY <3>1, <3>4, <3>5
      <4>3. seen' \subseteq 1..(n + 1)
        BY <1>2, <3>1, <3>4, <3>5 DEF Watermark
      <4>4. 1..(n + 1) = (1..n) \cup {n + 1}
        BY <1>2
      <4> HIDE DEF n
      <4> QED
        BY <4>1, <4>2, <4>3, <4>4
    <3>6. replays => /\ \A k \in DOMAIN emitted' : emitted'[k] = k
                     /\ since' = jobs'[Len(emitted')].time
                     /\ seen' = {i \in 1..Len(emitted') : jobs'[i].time = since'}
                     /\ cursor' <= Len(emitted') + 1
      BY <1>2, <2>1, <3>1, <3>2, <3>4, <3>5 DEF Watermark
    <3>7. ~replays => /\ \A k \in DOMAIN emitted' : emitted'[k] < cursor'
                      /\ \A i, j \in DOMAIN emitted' : i < j => emitted'[i] < emitted'[j]
      <4>1. SUFFICES ASSUME ~replays
                     PROVE  /\ \A k \in DOMAIN emitted' : emitted'[k] < cursor'
                            /\ \A i, j \in DOMAIN emitted' : i < j => emitted'[i] < emitted'[j]
        OBVIOUS
      <4>2. \A k \in 1..n : emitted[k] \in Nat /\ emitted[k] < cursor
        BY <1>2, <4>1 DEF Watermark
      <4>3. \A i, j \in 1..n : i < j => emitted[i] < emitted[j]
        BY <1>2, <4>1 DEF Watermark
      <4> QED
        BY <1>2, <2>1, <3>2, <4>2, <4>3 DEF Jobs
    <3>8. \A k \in DOMAIN emitted' : emitted'[k] \in Jobs'
      BY SMTT(30), <1>2, <2>1, <3>2 DEF Watermark
    <3>9. cursor' <= Len(jobs') + 1
      BY <1>1, <2>1 DEF Jobs
    <3>10. since' = 0 <=> emitted' = <<>>
      BY <3>2, <3>3
    <3> QED
      BY <2>1, <3>2, <3>3, <3>6, <3>7, <3>8, <3>9, <3>10 DEF Watermark
  <2> QED
    BY <2>2, <2>3
<1>8. ASSUME ~StreamConnects, ~StreamDrops, ~StreamDelivers
      PROVE  UNCHANGED <<stream, since, seen, emitted, cursor, replays>>
  BY <1>8 DEF Next, RefuseSpec, SendCall, RetryCall, CallRejected, CallAnswered, CallLost, GateFires,
     PollFinds, AwaitReturns, ResultFails, JobEnds, BeginQuery, PageAnswered, PageFails, streamVars,
     fixedVars, vars
<1> QED
  BY <1>4, <1>5, <1>6, <1>7, <1>8

-----------------------------------------------------------------------------
(* The listing.                                                            *)

LEMMA ListingStep == ASSUME TypeOK, Listing, [Next]_vars PROVE Listing'
<1>1. Len(jobs) \in Nat /\ Len(jobs') \in Nat /\ Len(jobs) <= Len(jobs')
  BY StepGrows, GrownKeeps, Records DEF TypeOK
<1>2. ASSUME UNCHANGED queryVars PROVE Listing'
  BY <1>1, <1>2 DEF Listing, ListsEachOnce, queryVars, TypeOK
<1>3. ASSUME BeginQuery PROVE Listing'
  <2>1. /\ lister = "idle" /\ lister' = "asking" /\ before' = Len(jobs) /\ UNCHANGED <<token, listed, jobs>>
        /\ listed = <<>> /\ token = 0
    BY <1>3 DEF BeginQuery, engineVars, Listing
  <2>2. Len(<<>>) = 0 /\ <<>> \in Seq(Nat) /\ DOMAIN <<>> = {}
    BY EmptySeq
  <2> QED
    BY <1>1, <2>1, <2>2, EngineAssumption DEF Listing, ListsEachOnce
<1>4. ASSUME PageFails PROVE Listing'
  <2>1. lister' = "failed" /\ UNCHANGED <<token, listed, before, jobs>>
    BY <1>4 DEF PageFails, engineVars
  <2> QED
    BY <2>1 DEF Listing, ListsEachOnce
<1>5. ASSUME PageAnswered PROVE Listing'
  <2> DEFINE left == Len(jobs) - token
             n == IF left < PageSize THEN left ELSE PageSize
             room == IF Limit = 0 THEN 1 ELSE Limit - Len(listed)
             taken == IF n < room THEN n ELSE room
  <2>1. /\ lister = "asking" /\ token' = token + n /\ listed' = listed \o Page(taken)
        /\ lister' = (IF n >= room \/ n = left THEN "done" ELSE "asking")
        /\ UNCHANGED <<before, jobs>>
    BY <1>5 DEF PageAnswered, engineVars
  <2>2. token \in Nat /\ Len(listed) = token /\ token <= Len(jobs) /\ (Limit > 0 => token < Limit)
    BY <2>1 DEF Listing, TypeOK
  <2>3. /\ left \in Nat /\ n \in Nat /\ n <= left /\ room \in Nat \ {0}
        /\ taken \in Nat /\ taken <= n /\ taken <= room
    BY <1>1, <2>2, EngineAssumption
  <2>4. /\ listed' \in Seq(Nat) /\ Len(listed') = token + taken
        /\ \A i \in 1..(token + taken) : listed'[i] = i
    <3>1. Page(taken) \in Seq(Nat) /\ Len(Page(taken)) = taken
          /\ \A k \in 1..taken : Page(taken)[k] = token + k
      BY <2>2, <2>3 DEF Page
    <3>2. listed \in Seq(Nat) /\ \A i \in 1..token : listed[i] = i
      BY <2>2 DEF Listing, ListsEachOnce
    <3> HIDE DEF taken
    <3>3. \A i \in 1..(token + taken) :
             listed'[i] = IF i <= token THEN listed[i] ELSE Page(taken)[i - token]
      BY SMTT(30), <2>1, <2>2, <3>1, <3>2, ConcatProperties
    <3>4. listed' \in Seq(Nat) /\ Len(listed') = token + taken
      <4>1. /\ listed \o Page(taken) \in Seq(Nat)
            /\ Len(listed \o Page(taken)) = Len(listed) + Len(Page(taken))
        BY <3>1, <3>2, ConcatProperties, Zenon
      <4> QED
        BY <2>1, <2>2, <3>1, <4>1
    <3>5. ASSUME NEW i \in 1..(token + taken) PROVE listed'[i] = i
      <4>1. CASE i <= token
        BY <2>2, <2>3, <3>2, <3>3, <4>1
      <4>2. CASE i > token
        <5>1. i - token \in 1..taken
          BY <2>2, <2>3, <4>2
        <5> QED
          BY <2>2, <2>3, <3>1, <3>3, <4>2, <5>1
      <4> QED
        BY <2>2, <2>3, <4>1, <4>2
    <3> QED
      BY <3>4, <3>5
  <2>5. DOMAIN listed' = 1..Len(listed')
    BY <2>4
  <2>6. token' <= Len(jobs') /\ before' \in 0..Len(jobs')
    BY <1>1, <2>1, <2>2, <2>3 DEF Listing
  <2>7. lister' = "asking" => Len(listed') = token' /\ (Limit > 0 => token' < Limit)
    BY <2>1, <2>2, <2>3, <2>4, EngineAssumption
  <2>8. Limit > 0 => Len(listed') <= Limit
    BY <2>2, <2>3, <2>4, EngineAssumption
  <2>9. lister' = "done" /\ Len(listed') < Limit => Len(listed') >= before'
    <3>1. before \in 0..Len(jobs)
      BY DEF Listing
    <3> QED
      BY <1>1, <2>1, <2>2, <2>3, <2>4, <3>1, EngineAssumption
  <2>10. lister' # "idle"
    BY <2>1
  <2> QED
    BY <2>4, <2>5, <2>6, <2>7, <2>8, <2>9, <2>10 DEF Listing, ListsEachOnce
<1>6. ASSUME ~BeginQuery, ~PageFails, ~PageAnswered PROVE UNCHANGED queryVars
  BY <1>6 DEF Next, RefuseSpec, SendCall, RetryCall, CallRejected, CallAnswered, CallLost, GateFires,
     PollFinds, AwaitReturns, ResultFails, JobEnds, StreamConnects, StreamDelivers, StreamDrops, vars
<1> QED
  BY <1>2, <1>3, <1>4, <1>5, <1>6

-----------------------------------------------------------------------------

EngineInv == TypeOK /\ InTime /\ KeyedSubmitOnce /\ Watermark /\ Listing

LEMMA EngineInvariant == Spec => []EngineInv
<1>1. Init => EngineInv
  <2> SUFFICES ASSUME Init PROVE EngineInv
    OBVIOUS
  <2>1. Len(<<>>) = 0 /\ <<>> \in Seq(Nat) /\ <<>> \in Seq(JobRecord) /\ DOMAIN <<>> = {}
    BY EmptySeq
  <2>2. jobs = <<>> /\ Len(jobs) = 0 /\ Jobs = {}
    BY <2>1 DEF Init, Jobs
  <2>3. TypeOK
    BY <2>1, <2>2, EngineAssumption DEF Init, TypeOK
  <2>4. InTime /\ KeyedSubmitOnce
    BY <2>2, EngineAssumption DEF InTime, KeyedSubmitOnce, Init, Calls
  <2>5. Watermark
    BY <2>1, <2>2 DEF Init, Watermark
  <2>6. Listing
    BY <2>1, <2>2, EngineAssumption DEF Init, Listing, ListsEachOnce
  <2> QED
    BY <2>3, <2>4, <2>5, <2>6 DEF EngineInv
<1>2. EngineInv /\ [Next]_vars => EngineInv'
  BY TypeStep, InTimeStep, KeyedStep, WatermarkStep, ListingStep DEF EngineInv
<1> QED
  BY <1>1, <1>2, PTL DEF Spec

(* Every variable of the client and of the engine's view keeps its type.   *)
THEOREM TypeCorrect == Spec => []TypeOK
<1>1. EngineInv => TypeOK
  BY DEF EngineInv
<1> QED
  BY <1>1, EngineInvariant, PTL

(* One job per dedup key, however its submissions are retried.             *)
THEOREM OneJobPerKey == Spec => []KeyedSubmitOnce
<1>1. EngineInv => KeyedSubmitOnce
  BY DEF EngineInv
<1> QED
  BY <1>1, EngineInvariant, PTL

(* The event stream repeats nothing and goes only forward.                 *)
THEOREM EventsInOrder == Spec => []EmitsInOrder
<1>1. EngineInv => EmitsInOrder
  BY DEF EngineInv, Watermark, EmitsInOrder
<1> QED
  BY <1>1, EngineInvariant, PTL

(* Where the ledger is replayed, the watermark swallows no event.          *)
THEOREM NoEventSwallowed == Spec => []ReplayLosesNothing
<1>1. EngineInv => ReplayLosesNothing
  BY DEF EngineInv, Watermark, ReplayLosesNothing
<1> QED
  BY <1>1, EngineInvariant, PTL

(* query() lists each job once and, when it comes to its end, all of them. *)
THEOREM QueryIsComplete == Spec => []ListsEachOnce
<1>1. EngineInv => ListsEachOnce
  BY DEF EngineInv, Listing
<1> QED
  BY <1>1, EngineInvariant, PTL

-----------------------------------------------------------------------------
(* The synchronous facade, SyncClient.                                     *)

CountedThreads == {t \in Threads : pc[t] \in Counted}

(* _in_flight counts the threads between its two updates.                  *)
Books == inFlight = Cardinality(CountedThreads)

(* A stop is asked for, taken or over.                                     *)
StopUnderWay ==
    \/ stopQueued
    \/ loop \in {"stopping", "cancelling", "returned", "closed"}
    \/ \E t \in Threads : pc[t] \in {"stopping", "joining"}

(* From the moment close() has decided to stop the loop no thread is about *)
(* to schedule a call on it, and within the deadline none waits either.    *)
StopIsLast ==
    /\ (\E t \in Threads : pc[t] = "lingering") => loopClosing
    /\ StopUnderWay =>
        /\ loopClosing
        /\ \A t \in Threads : pc[t] # "scheduling" /\ (pc[t] \in Counted => expired)

(* A thread that waits has an answer, or a task that has still to set it;  *)
(* and a loop that is stopping has no task that is not over but those it   *)
(* cancels.                                                                *)
TasksAnswer ==
    /\ \A t \in Threads : pc[t] = "waiting" /\ ~answered[t] =>
           task[t] \in Pending \cup {"scheduled", "finished"}
    /\ \A t \in Threads : task[t] # "late"
    /\ loop = "stopping" => \A t \in Threads : task[t] # "scheduled"
    /\ loop = "cancelling" =>
           \A t \in Threads : task[t] \in {"none", "cancelling", "finished", "ended"}
    /\ loop \in {"returned", "closed"} =>
           \A t \in Threads : task[t] \in {"none", "finished", "ended"}

ClientInv == SyncTypeOK /\ Books /\ StopIsLast /\ TasksAnswer

LEMMA ThreadsFinite == IsFiniteSet(Threads) /\ Cardinality(Threads) \in Nat
BY ClientAssumption, FS_Union, FS_CardinalityType DEF Threads

(* The count of a subset of the threads is a possible value of _in_flight. *)
LEMMA CountIsBounded ==
    ASSUME NEW S \in SUBSET Threads
    PROVE  IsFiniteSet(S) /\ Cardinality(S) \in 0..Cardinality(Threads)
<1>1. IsFiniteSet(S) /\ Cardinality(S) <= Cardinality(Threads)
  BY ThreadsFinite, FS_Subset
<1>2. Cardinality(S) \in Nat
  BY <1>1, FS_CardinalityType
<1> QED
  BY <1>1, <1>2, ThreadsFinite

(* Moving one thread changes the count by the difference it makes.         *)
LEMMA GoKeepsBooks ==
    ASSUME SyncTypeOK, Books, NEW t \in Threads, NEW place, pc' = [pc EXCEPT ![t] = place],
           \/ inFlight' = inFlight /\ (pc[t] \in Counted <=> place \in Counted)
           \/ inFlight' = inFlight + 1 /\ pc[t] \notin Counted /\ place \in Counted
           \/ inFlight' = inFlight - 1 /\ pc[t] \in Counted /\ place \notin Counted
    PROVE  Books' /\ inFlight' \in 0..Cardinality(Threads)
<1>1. pc'[t] = place /\ \A u \in Threads \ {t} : pc'[u] = pc[u]
  BY DEF SyncTypeOK
<1>2. CountedThreads' \in SUBSET Threads /\ CountedThreads \in SUBSET Threads
  BY DEF CountedThreads
<1>3. Books'
  <2>1. CASE inFlight' = inFlight /\ (pc[t] \in Counted <=> place \in Counted)
    <3>1. CountedThreads' = CountedThreads
      BY <1>1, <2>1 DEF CountedThreads
    <3> QED
      BY <2>1, <3>1 DEF Books
  <2>2. CASE inFlight' = inFlight + 1 /\ pc[t] \notin Counted /\ place \in Counted
    <3>1. CountedThreads' = CountedThreads \cup {t} /\ t \notin CountedThreads
      BY <1>1, <2>2 DEF CountedThreads
    <3> QED
      BY <1>2, <2>2, <3>1, CountIsBounded, FS_AddElement DEF Books
  <2>3. CASE inFlight' = inFlight - 1 /\ pc[t] \in Counted /\ place \notin Counted
    <3>1. CountedThreads' = CountedThreads \ {t} /\ t \in CountedThreads
      BY <1>1, <2>3 DEF CountedThreads
    <3> QED
      BY <1>2, <2>3, <3>1, CountIsBounded, FS_RemoveElement DEF Books
  <2> QED
    BY <2>1, <2>2, <2>3
<1> QED
  BY <1>2, <1>3, CountIsBounded DEF Books

LEMMA TypeBooksInit == SyncInit => SyncTypeOK /\ Books
<1>1. SUFFICES ASSUME SyncInit PROVE SyncTypeOK /\ Books
  OBVIOUS
<1>2. CountedThreads = {}
  BY <1>1 DEF SyncInit, CountedThreads, Counted
<1>3. Books
  BY <1>1, <1>2, FS_EmptySet DEF Books, SyncInit
<1>4. 0 \in 0..MaxRetries /\ 0 \in 0..Cardinality(Threads)
  BY ThreadsFinite, ClientAssumption
<1>5. SyncTypeOK
  BY <1>1, <1>4 DEF SyncTypeOK, SyncInit
<1> QED
  BY <1>3, <1>5

(* The variables keep their types, and _in_flight keeps its count.         *)
LEMMA TypeBooksStep ==
    ASSUME SyncTypeOK, Books, [SyncNext]_syncVars
    PROVE  SyncTypeOK' /\ Books'
<1> USE DEF SyncTypeOK
<1>1. ASSUME NEW t \in Threads,
             \/ Call(t) \/ Close(t) \/ EnsureStarted(t) \/ AwaitReady(t) \/ Schedule(t)
             \/ FutureDone(t) \/ Timeout(t) \/ StopAccepting(t) \/ Linger(t)
             \/ RequestStop(t) \/ Join(t)
      PROVE  SyncTypeOK' /\ Books'
  <2>1. PICK place :
           /\ pc' = [pc EXCEPT ![t] = place]
           /\ inFlight' = inFlight
           /\ pc[t] \in Counted <=> place \in Counted
           /\ place \in Counted \cup {"idle", "called", "starting", "entering", "draining",
                                       "lingering", "stopping", "joining", "done"}
    BY <1>1 DEF Call, Close, EnsureStarted, AwaitReady, Schedule, FutureDone, Timeout,
                StopAccepting, Linger, RequestStop, Join, GoTo, After, Counted, loopVars
  <2>2. Books' /\ inFlight' \in 0..Cardinality(Threads)
    BY <2>1, GoKeepsBooks
  <2>3. SyncTypeOK'
    <3>1. pc' \in [Threads -> Counted \cup {"idle", "called", "starting", "entering", "draining",
                                           "lingering", "stopping", "joining", "done"}]
      BY <2>1
    <3>2. CASE Call(t) \/ Close(t) \/ AwaitReady(t) \/ FutureDone(t) \/ Timeout(t) \/ Join(t)
      BY <2>2, <3>1, <3>2
         DEF Call, Close, AwaitReady, FutureDone, Timeout, Join, loopVars, taskVars
    <3>3. CASE EnsureStarted(t) \/ StopAccepting(t) \/ Linger(t) \/ RequestStop(t)
      BY <2>2, <3>1, <3>3
         DEF EnsureStarted, StopAccepting, Linger, RequestStop, loopVars, taskVars
    <3>4. CASE Schedule(t)
      BY <2>2, <3>1, <3>4 DEF Schedule, loopVars, taskVars
    <3> QED
      BY <1>1, <3>2, <3>3, <3>4
  <2> QED
    BY <2>2, <2>3
<1>2. ASSUME NEW t \in Threads, Enter(t) \/ Leave(t)
      PROVE  SyncTypeOK' /\ Books'
  <2>1. PICK place :
           /\ pc' = [pc EXCEPT ![t] = place]
           /\ \/ inFlight' = inFlight /\ (pc[t] \in Counted <=> place \in Counted)
              \/ inFlight' = inFlight + 1 /\ pc[t] \notin Counted /\ place \in Counted
              \/ inFlight' = inFlight - 1 /\ pc[t] \in Counted /\ place \notin Counted
           /\ place \in Counted \cup {"draining", "done"}
    BY <1>2 DEF Enter, Leave, GoTo, After, Counted
  <2>2. Books' /\ inFlight' \in 0..Cardinality(Threads)
    BY <2>1, GoKeepsBooks
  <2>3. SyncTypeOK'
    BY <1>2, <2>1, <2>2 DEF Enter, Leave, loopVars, taskVars
  <2> QED
    BY <2>2, <2>3
<1>3. ASSUME LoopStep
      PROVE  SyncTypeOK' /\ Books'
  <2>1. UNCHANGED <<pc, inFlight>>
    BY <1>3 DEF LoopStep, LoopReady, LastBatch, TakeStop, CloseLoop, threadVars
  <2>2. SyncTypeOK'
    BY <1>3 DEF LoopStep, LoopReady, LastBatch, TakeStop, CloseLoop, threadVars, taskVars, Live, Pending
  <2> QED
    BY <2>1, <2>2 DEF Books, CountedThreads
<1>4. ASSUME NEW t \in Threads, TaskStep(t) \/ Reply(t) \/ NextSlice(t) \/ Unavailable(t)
      PROVE  SyncTypeOK' /\ Books'
  <2>1. UNCHANGED <<pc, inFlight>>
    BY <1>4 DEF TaskStep, StartTask, FirstStep, Retry, ChannelClosed, Abandon, Unwind, SetFuture,
                Reply, NextSlice, Unavailable, threadVars
  <2>2. ASSUME FirstStep(t) PROVE SyncTypeOK'
    BY <2>2 DEF FirstStep, End, Issue, Aclose, Live, Pending, loopVars, Threads
  <2>3. ASSUME StartTask(t) \/ Retry(t) \/ SetFuture(t) PROVE SyncTypeOK'
    BY <2>3 DEF StartTask, Retry, SetFuture, End, Issue, Live, Pending, loopVars, threadVars
  <2>4. ASSUME ChannelClosed(t) \/ Abandon(t) \/ Unwind(t) \/ Reply(t) PROVE SyncTypeOK'
    BY <2>4 DEF ChannelClosed, Abandon, Unwind, Reply, End, Live, Pending, loopVars, threadVars
  <2>5. ASSUME NextSlice(t) \/ Unavailable(t) PROVE SyncTypeOK'
    <3>1. 0 \in 0..MaxRetries /\ (attempts[t] < MaxRetries => attempts[t] + 1 \in 0..MaxRetries)
      BY ClientAssumption
    <3> QED
      BY <2>5, <3>1 DEF NextSlice, Unavailable, End, Live, Pending, loopVars, threadVars
  <2> QED
    BY <1>4, <2>1, <2>2, <2>3, <2>4, <2>5 DEF TaskStep, Books, CountedThreads
<1>5. CASE UNCHANGED syncVars
  BY <1>5 DEF syncVars, threadVars, loopVars, taskVars, Books, CountedThreads
<1> QED
  BY <1>1, <1>2, <1>3, <1>4, <1>5 DEF SyncNext, ThreadStep

-----------------------------------------------------------------------------
(* The client's variables keep their types; _call never repeats a call more *)
(* often than MaxRetries, and _in_flight counts no more than the threads.   *)
THEOREM SyncTypeCorrect == SyncSpec => []SyncTypeOK
<1>1. SyncTypeOK /\ Books /\ [SyncNext]_syncVars => SyncTypeOK' /\ Books'
  BY TypeBooksStep
<1>2. SyncSpec => [](SyncTypeOK /\ Books)
  BY <1>1, TypeBooksInit, PTL DEF SyncSpec
<1> QED
  BY <1>2, PTL

LEMMA StopTasksInit == SyncInit => StopIsLast /\ TasksAnswer
BY DEF SyncInit, StopIsLast, StopUnderWay, TasksAnswer, Counted

(* Nobody is counted when Linger sees the counter at zero.                 *)
LEMMA ZeroMeansNobody ==
    ASSUME Books, inFlight = 0
    PROVE  \A t \in Threads : pc[t] \notin Counted
<1>1. CountedThreads \in SUBSET Threads
  BY DEF CountedThreads
<1>2. CountedThreads = {}
  BY <1>1, CountIsBounded, FS_EmptySet DEF Books
<1> QED
  BY <1>2 DEF CountedThreads

(* A stop is asked for after the last call was counted and scheduled.      *)
LEMMA StopStep ==
    ASSUME SyncTypeOK, Books, StopIsLast, [SyncNext]_syncVars
    PROVE  StopIsLast'
<1> USE DEF SyncTypeOK, StopIsLast, StopUnderWay, Counted
<1>1. ASSUME NEW t \in Threads,
             \/ Call(t) \/ Close(t) \/ EnsureStarted(t) \/ AwaitReady(t) \/ Schedule(t)
             \/ FutureDone(t) \/ Timeout(t) \/ Leave(t)
      PROVE  StopIsLast'
  <2>1. UNCHANGED <<loopClosing, expired, stopQueued>>
    BY <1>1 DEF Call, Close, EnsureStarted, AwaitReady, Schedule, FutureDone, Timeout, Leave,
                loopVars
  <2>2. loop' \in {"stopping", "cancelling", "returned", "closed"} => loop' = loop
    BY <1>1 DEF Call, Close, EnsureStarted, AwaitReady, Schedule, FutureDone, Timeout, Leave,
                loopVars
  <2>3. /\ \A u \in Threads \ {t} : pc'[u] = pc[u]
        /\ pc'[t] \notin {"lingering", "stopping", "joining", "scheduling"}
        /\ pc'[t] \in {"waiting", "leaving"} => pc[t] \in Counted
    BY <1>1 DEF Call, Close, EnsureStarted, AwaitReady, Schedule, FutureDone, Timeout, Leave,
                GoTo, After
  <2> QED
    BY <2>1, <2>2, <2>3
<1>2. ASSUME NEW t \in Threads, Enter(t)
      PROVE  StopIsLast'
  <2>1. UNCHANGED loopVars /\ \A u \in Threads \ {t} : pc'[u] = pc[u]
    BY <1>2 DEF Enter, GoTo
  <2>2. \/ loopClosing /\ pc'[t] \in {"draining", "done"}
        \/ ~loopClosing /\ pc'[t] = "scheduling"
    BY <1>2 DEF Enter, GoTo, After
  <2> QED
    BY <2>1, <2>2 DEF loopVars
<1>3. ASSUME NEW t \in Threads, StopAccepting(t)
      PROVE  StopIsLast'
  BY <1>3 DEF StopAccepting, GoTo
<1>4. ASSUME NEW t \in Threads, Linger(t)
      PROVE  StopIsLast'
  <2>1. loopClosing /\ loopClosing' /\ UNCHANGED <<loop, stopQueued>>
    BY <1>4 DEF Linger
  <2>2. pc'[t] = "stopping" /\ \A u \in Threads \ {t} : pc'[u] = pc[u]
    BY <1>4 DEF Linger, GoTo
  <2>3. \/ expired' = expired /\ \A u \in Threads : pc[u] \notin Counted
        \/ expired' /\ \A u \in Threads : pc[u] # "scheduling"
    BY <1>4, ZeroMeansNobody DEF Linger
  <2> QED
    BY <2>1, <2>2, <2>3
<1>5. ASSUME NEW t \in Threads, RequestStop(t) \/ Join(t)
      PROVE  StopIsLast'
  <2>1. StopUnderWay /\ UNCHANGED <<loopClosing, expired, loop>>
    BY <1>5 DEF RequestStop, Join, loopVars
  <2>2. pc'[t] \in {"joining", "done"} /\ \A u \in Threads \ {t} : pc'[u] = pc[u]
    BY <1>5 DEF RequestStop, Join, GoTo
  <2> QED
    BY <2>1, <2>2
<1>6. ASSUME LoopStep
      PROVE  StopIsLast'
  <2>1. UNCHANGED <<pc, loopClosing, expired>>
    BY <1>6 DEF LoopStep, LoopReady, LastBatch, TakeStop, CloseLoop, threadVars
  <2>2. StopUnderWay' => StopUnderWay
    BY <1>6 DEF LoopStep, LoopReady, LastBatch, TakeStop, CloseLoop, threadVars
  <2> QED
    BY <2>1, <2>2
<1>7. ASSUME NEW t \in Threads, TaskStep(t) \/ Reply(t) \/ NextSlice(t) \/ Unavailable(t)
      PROVE  StopIsLast'
  <2>1. UNCHANGED <<pc, loopVars>>
    BY <1>7 DEF TaskStep, StartTask, FirstStep, Retry, ChannelClosed, Abandon, Unwind, SetFuture,
                Reply, NextSlice, Unavailable, threadVars
  <2> QED
    BY <2>1 DEF loopVars
<1>8. CASE UNCHANGED syncVars
  BY <1>8 DEF syncVars, threadVars, loopVars
<1> QED
  BY <1>1, <1>2, <1>3, <1>4, <1>5, <1>6, <1>7, <1>8 DEF SyncNext, ThreadStep

(* Every call that was scheduled is answered by its task, or cancelled     *)
(* with the loop.                                                          *)
LEMMA TasksStep ==
    ASSUME SyncTypeOK, StopIsLast, TasksAnswer, [SyncNext]_syncVars
    PROVE  TasksAnswer'
<1> USE DEF SyncTypeOK, TasksAnswer, Live, Pending
<1>1. ASSUME NEW t \in Threads,
             \/ Call(t) \/ Close(t) \/ EnsureStarted(t) \/ AwaitReady(t) \/ Enter(t)
             \/ FutureDone(t) \/ Timeout(t) \/ Leave(t) \/ StopAccepting(t) \/ Linger(t)
             \/ RequestStop(t) \/ Join(t)
      PROVE  TasksAnswer'
  <2>1. task' = task /\ (loop' \in {"stopping", "cancelling", "returned", "closed"} => loop' = loop)
    BY <1>1 DEF Call, Close, EnsureStarted, AwaitReady, Enter, FutureDone, Timeout, Leave,
                StopAccepting, Linger, RequestStop, Join, loopVars, taskVars
  <2>2. \A u \in Threads : pc'[u] = "waiting" => pc[u] = "waiting" /\ (answered[u] => answered'[u])
    BY <1>1 DEF Call, Close, EnsureStarted, AwaitReady, Enter, FutureDone, Timeout, Leave,
                StopAccepting, Linger, RequestStop, Join, GoTo, After
  <2> QED
    BY <2>1, <2>2
<1>2. ASSUME NEW t \in Threads, Schedule(t)
      PROVE  TasksAnswer'
  <2>1. ~stopQueued /\ loop \notin {"stopping", "cancelling", "returned", "closed"}
    BY <1>2 DEF Schedule, StopIsLast, StopUnderWay
  <2> QED
    BY <1>2, <2>1 DEF Schedule, GoTo, loopVars
<1>3. ASSUME LoopStep
      PROVE  TasksAnswer'
  <2>1. UNCHANGED <<pc, answered>>
    BY <1>3 DEF LoopStep, LoopReady, LastBatch, TakeStop, CloseLoop, threadVars
  <2>2. ASSUME LoopReady PROVE TasksAnswer'
    BY <2>1, <2>2 DEF LoopReady, taskVars
  <2>3. ASSUME LastBatch PROVE TasksAnswer'
    BY <2>1, <2>3 DEF LastBatch, taskVars
  <2>5. ASSUME TakeStop PROVE TasksAnswer'
    BY <2>1, <2>5 DEF TakeStop
  <2>4. ASSUME CloseLoop PROVE TasksAnswer'
    BY <2>1, <2>4 DEF CloseLoop, taskVars
  <2> QED
    BY <1>3, <2>2, <2>3, <2>4, <2>5 DEF LoopStep
<1>4. ASSUME NEW t \in Threads, TaskStep(t) \/ Reply(t) \/ NextSlice(t) \/ Unavailable(t)
      PROVE  TasksAnswer'
  <2>1. UNCHANGED <<pc, loop>>
    BY <1>4 DEF TaskStep, StartTask, FirstStep, Retry, ChannelClosed, Abandon, Unwind, SetFuture,
                Reply, NextSlice, Unavailable, threadVars, loopVars
  <2>2. ASSUME FirstStep(t) PROVE TasksAnswer'
    BY <2>1, <2>2 DEF FirstStep, Running, End, Issue, Aclose, Threads
  <2>3. ASSUME StartTask(t) \/ SetFuture(t) PROVE TasksAnswer'
    BY <2>1, <2>3 DEF StartTask, SetFuture, threadVars
  <2>4. ASSUME Retry(t) PROVE TasksAnswer'
    BY <2>1, <2>4 DEF Retry, Running, End, Issue
  <2>5. ASSUME ChannelClosed(t) \/ Abandon(t) \/ Unwind(t) \/ Reply(t) PROVE TasksAnswer'
    BY <2>1, <2>5 DEF ChannelClosed, Abandon, Unwind, Reply, Running, End, threadVars
  <2>6. ASSUME NextSlice(t) \/ Unavailable(t) PROVE TasksAnswer'
    BY <2>1, <2>6 DEF NextSlice, Unavailable, Running, End, threadVars
  <2> QED
    BY <1>4, <2>2, <2>3, <2>4, <2>5, <2>6 DEF TaskStep
<1>5. CASE UNCHANGED syncVars
  BY <1>5 DEF syncVars, threadVars, loopVars, taskVars
<1> QED
  BY <1>1, <1>2, <1>3, <1>4, <1>5 DEF SyncNext, ThreadStep

LEMMA ClientInvariant == SyncSpec => []ClientInv
<1>1. SyncInit => ClientInv
  BY TypeBooksInit, StopTasksInit DEF ClientInv
<1>2. ClientInv /\ [SyncNext]_syncVars => ClientInv'
  BY TypeBooksStep, StopStep, TasksStep DEF ClientInv
<1> QED
  BY <1>1, <1>2, PTL DEF SyncSpec

(* A thread is left waiting for a closed loop only if close() gave it up   *)
(* and its task took its last step in the last batch.                      *)
THEOREM OnlyLastBatchStrands == SyncSpec => []StrandedByLastBatch
<1>1. ClientInv => StrandedByLastBatch
  BY DEF ClientInv, StopIsLast, StopUnderWay, Counted, TasksAnswer, StrandedByLastBatch,
         Stranded, Live, Pending
<1> QED
  BY <1>1, ClientInvariant, PTL

(* A close() within its deadline interrupts nobody.                        *)
THEOREM CloseInterruptsNone == SyncSpec => []InterruptsNone
<1>1. ClientInv => InterruptsNone
  BY DEF ClientInv, StopIsLast, StopUnderWay, InterruptsNone
<1> QED
  BY <1>1, ClientInvariant, PTL
=============================================================================
