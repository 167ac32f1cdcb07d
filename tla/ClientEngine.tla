---------------------------- MODULE ClientEngine ----------------------------
(***************************************************************************)
(* The control-plane client symba.engine.Engine, its handles (symba.job)   *)
(* and the specs it builds (symba.specs), with ctx.submit of a handler     *)
(* beside it: coroutines that submit, fan out, await a gate, list and      *)
(* follow the jobs of one context, over calls that get lost.               *)
(*                                                                         *)
(* The engine is external. It keeps the jobs in the order it created them, *)
(* one event each, and applies a call whose answer may never arrive; a     *)
(* call that was lost is not applied later. What watches the jobs changes  *)
(* nothing, so one observer at a time is enough: a gate's result, an event *)
(* stream or a query.                                                      *)
(***************************************************************************)
EXTENDS Integers, Sequences, FiniteSets

CONSTANTS Submits,   \* calls of Engine.submit, submit_many and of ctx.submit
          ByDict,    \* those that describe the job by a dict: all but Engine.submit
          FromCtx,   \* those of ctx.submit, which are not retried
          FanOuts,   \* calls of fan_out, each with its Gate.result()
          KeyOf,     \* KeyOf[c]: the dedup_key of a submission, or NoKey; a fan-out has none
          Specs,     \* the jobs a caller may describe
          NoKey,
          Retries,   \* how often _call repeats an UNAVAILABLE call: 4
          PageSize,  \* of query()
          Limit,     \* of query()
          MaxJobs    \* bound on the jobs of the context

Calls == Submits \cup FanOuts

ASSUME EngineAssumption ==
    /\ FromCtx \subseteq ByDict /\ ByDict \subseteq Submits /\ Submits \cap FanOuts = {}
    /\ \A g \in FanOuts : KeyOf[g] = NoKey
    /\ Retries \in Nat /\ PageSize \in Nat \ {0} /\ Limit \in Nat /\ MaxJobs \in Nat

VARIABLES
    observer, \* what watches the jobs: "gate", "stream" or "query"
    at,       \* at[c]: where call c is
    tries,    \* tries[c]: repeats of call c
    handle,   \* handle[c]: the job its JobHandle names; 0 is none
    waiter,   \* waiter[g]: Gate.result() of fan-out g
    awaited,  \* awaited[g]: the job it awaits or has returned; 0 is none
    stream,   \* stream_events(): "idle", "connected", "backoff", "ended"
    since,    \* its watermark; 0 is none
    seen,     \* events delivered at the watermark
    emitted,  \* the events it has yielded
    lister,   \* query(): "idle", "asking", "done", "failed"
    token,    \* page_token
    listed,   \* the jobs it has yielded
    jobs,     \* external: the jobs of the context, in order of creation
    gates,    \* external: gates[g]: gates opened for fan-out g and not yet fired
    finished, \* external: jobs that have ended
    replays,  \* external: a new event stream starts with the whole ledger
    cursor,   \* external: the next event the connected stream delivers
    before    \* history: the jobs there were when query() began

callVars   == <<at, tries, handle>>
gateVars   == <<waiter, awaited>>
streamVars == <<stream, since, seen, emitted, cursor>>
queryVars  == <<lister, token, listed, before>>
engineVars == <<jobs, gates, finished>>
fixedVars  == <<observer, replays>>
vars == <<callVars, gateVars, streamVars, queryVars, engineVars, fixedVars>>

JobRecord == [by : Calls, time : Nat \ {0}, continues : BOOLEAN]
Jobs == 1..Len(jobs)
Continuations == {i \in Jobs : jobs[i].continues}

TypeOK ==
    /\ observer \in {"gate", "stream", "query"}
    /\ at \in [Calls -> {"idle", "sent", "backoff", "answered", "failed", "refused"}]
    /\ tries \in [Calls -> 0..Retries]
    /\ handle \in [Calls -> 0..MaxJobs]
    /\ waiter \in [FanOuts -> {"idle", "polling", "awaiting", "done", "failed"}]
    /\ awaited \in [FanOuts -> 0..MaxJobs]
    /\ stream \in {"idle", "connected", "backoff", "ended"}
    /\ seen \subseteq 1..MaxJobs /\ cursor \in 1..(MaxJobs + 1)
    /\ lister \in {"idle", "asking", "done", "failed"}
    /\ token \in 0..MaxJobs
    /\ jobs \in Seq(JobRecord)
    /\ Len(jobs) <= MaxJobs /\ finished \subseteq Jobs

Init ==
    /\ observer \in {"gate", "stream", "query"}
    /\ at = [c \in Calls |-> "idle"]
    /\ tries = [c \in Calls |-> 0]
    /\ handle = [c \in Calls |-> 0]
    /\ waiter = [g \in FanOuts |-> "idle"]
    /\ awaited = [g \in FanOuts |-> 0]
    /\ stream = "idle" /\ since = 0 /\ seen = {} /\ emitted = <<>> /\ cursor = 1
    /\ lister = "idle" /\ token = 0 /\ listed = <<>> /\ before = 0
    /\ jobs = <<>>
    /\ gates = [g \in FanOuts |-> 0]
    /\ finished = {}
    /\ replays \in {r \in BOOLEAN : r => observer = "stream"}

Go(c, place) == at' = [at EXCEPT ![c] = place]

-----------------------------------------------------------------------------
(* The spec: keyword arguments checked in shape before anything is sent.   *)

MaxChain == 50  \* MAX_CHAIN_ENTRIES

\* build_job_spec: a task, a short chain, a payload that is JSON and fits.
ShapeFits(d) == d.task # "" /\ Len(d.chain) <= MaxChain /\ d.payload = "fits"

\* spec_from_dict: known keys only, and a chain led by the task itself.
DictFits(d) ==
    /\ ~d.unknownKey
    /\ d.chain # <<>> /\ d.task # "" => Head(d.chain) = d.task
    /\ ShapeFits(d)

\* Engine.submit takes keywords, the others dicts, and on_failure is a dict on
\* every road.
Accepted(c, d) ==
    /\ IF c \in Submits \ ByDict THEN ShapeFits(d) ELSE DictFits(d)
    /\ \A i \in DOMAIN d.onFailure : DictFits(d.onFailure[i])

RefuseSpec(c) ==
    /\ at[c] = "idle" /\ \E d \in Specs : ~Accepted(c, d)
    /\ Go(c, "refused")
    /\ UNCHANGED <<tries, handle, gateVars, streamVars, queryVars, engineVars, fixedVars>>

SendCall(c) ==
    /\ at[c] = "idle" /\ \E d \in Specs : Accepted(c, d)
    /\ Go(c, "sent")
    /\ UNCHANGED <<tries, handle, gateVars, streamVars, queryVars, engineVars, fixedVars>>

-----------------------------------------------------------------------------
(* The engine applies a call: Submit finds the job of its key or creates   *)
(* one, FanOut opens a gate. Two jobs may have the same creation time.     *)

LastTime == IF jobs = <<>> THEN 1 ELSE jobs[Len(jobs)].time

Create(c, continues) ==
    /\ Len(jobs) < MaxJobs
    /\ \E t \in {LastTime, LastTime + 1} :
         jobs' = Append(jobs, [by |-> c, time |-> t, continues |-> continues])

SameKey(c) == {i \in Jobs : KeyOf[c] # NoKey /\ KeyOf[jobs[i].by] = KeyOf[c]}

ApplySubmit(c, job) ==
    \/ SameKey(c) # {} /\ job \in SameKey(c) /\ UNCHANGED jobs
    \/ SameKey(c) = {} /\ Create(c, FALSE) /\ job = Len(jobs) + 1

Apply(c, job) ==
    \/ c \in Submits /\ ApplySubmit(c, job) /\ UNCHANGED gates
    \/ /\ c \in FanOuts /\ job = 0
       /\ gates[c] < 2
       /\ gates' = [gates EXCEPT ![c] = @ + 1]
       /\ UNCHANGED jobs

CallAnswered(c) ==
    /\ at[c] = "sent"
    /\ \E job \in 0..MaxJobs : Apply(c, job) /\ handle' = [handle EXCEPT ![c] = job]
    /\ Go(c, "answered")
    /\ waiter' = [g \in FanOuts |-> IF g = c /\ observer = "gate" THEN "polling" ELSE waiter[g]]
    /\ UNCHANGED <<tries, awaited, streamVars, queryVars, finished, fixedVars>>

RetriesOf(c) == IF c \in FromCtx THEN 0 ELSE Retries

\* Mutant: a repeated submission is built anew, without its dedup_key.
CallLostRekeyed(c) ==
    /\ at[c] = "sent"
    /\ \/ Create(c, FALSE) /\ UNCHANGED gates
       \/ UNCHANGED <<jobs, gates>>
    /\ IF tries[c] < RetriesOf(c)
       THEN Go(c, "backoff") /\ tries' = [tries EXCEPT ![c] = @ + 1]
       ELSE Go(c, "failed") /\ UNCHANGED tries
    /\ UNCHANGED <<handle, gateVars, streamVars, queryVars, finished, fixedVars>>

\* UNAVAILABLE, before or after the call was applied.
CallLost(c) ==
    /\ at[c] = "sent"
    /\ \/ \E job \in 0..MaxJobs : Apply(c, job)
       \/ UNCHANGED <<jobs, gates>>
    /\ IF tries[c] < RetriesOf(c)
       THEN Go(c, "backoff") /\ tries' = [tries EXCEPT ![c] = @ + 1]
       ELSE Go(c, "failed") /\ UNCHANGED tries
    /\ UNCHANGED <<handle, gateVars, streamVars, queryVars, finished, fixedVars>>

RetryCall(c) ==
    /\ at[c] = "backoff"
    /\ Go(c, "sent")
    /\ UNCHANGED <<tries, handle, gateVars, streamVars, queryVars, engineVars, fixedVars>>

\* Any other status is translated and raised.
CallRejected(c) ==
    /\ at[c] = "sent"
    /\ Go(c, "failed")
    /\ UNCHANGED <<tries, handle, gateVars, streamVars, queryVars, engineVars, fixedVars>>

\* External: the gate's children are done and it fires its continuation; a job ends.
GateFires(g) ==
    /\ gates[g] > 0
    /\ Create(g, TRUE)
    /\ gates' = [gates EXCEPT ![g] = @ - 1]
    /\ UNCHANGED <<callVars, gateVars, streamVars, queryVars, finished, fixedVars>>

JobEnds(i) ==
    /\ observer = "gate" /\ i \in Continuations
    /\ finished' = finished \cup {i}
    /\ UNCHANGED <<callVars, gateVars, streamVars, queryVars, jobs, gates, fixedVars>>

-----------------------------------------------------------------------------
(* Gate.result(): poll for a job of the continuation's task, then await    *)
(* it. Every fan-out of the context continues with the same task.          *)

\* Mutant: the poll lists the jobs that still run.
PollFindsRunning(g) ==
    /\ waiter[g] = "polling"
    /\ \E i \in Continuations \ finished : awaited' = [awaited EXCEPT ![g] = i]
    /\ waiter' = [waiter EXCEPT ![g] = "awaiting"]
    /\ UNCHANGED <<callVars, streamVars, queryVars, engineVars, fixedVars>>

PollFinds(g) ==
    /\ waiter[g] = "polling"
    /\ \E i \in Continuations : awaited' = [awaited EXCEPT ![g] = i]
    /\ waiter' = [waiter EXCEPT ![g] = "awaiting"]
    /\ UNCHANGED <<callVars, streamVars, queryVars, engineVars, fixedVars>>

\* AwaitJob answers when the job has ended; a slice that runs out is reissued.
AwaitReturns(g) ==
    /\ waiter[g] = "awaiting" /\ awaited[g] \in finished
    /\ waiter' = [waiter EXCEPT ![g] = "done"]
    /\ UNCHANGED <<callVars, awaited, streamVars, queryVars, engineVars, fixedVars>>

\* The caller's deadline, or an error after the retries.
ResultFails(g) ==
    /\ waiter[g] \in {"polling", "awaiting"}
    /\ waiter' = [waiter EXCEPT ![g] = "failed"]
    /\ UNCHANGED <<callVars, awaited, streamVars, queryVars, engineVars, fixedVars>>

-----------------------------------------------------------------------------
(* stream_events(): a live tail, reopened after a transient drop. The      *)
(* watermark stays with the client; the request does not carry it.         *)

StreamConnects ==
    /\ observer = "stream" /\ stream \in {"idle", "backoff"}
    /\ stream' = "connected"
    /\ cursor' = IF replays THEN 1 ELSE Len(jobs) + 1
    /\ UNCHANGED <<callVars, gateVars, since, seen, emitted, queryVars, engineVars, fixedVars>>

\* Mutants: an event at the watermark counts as delivered; nothing is suppressed.
DeliveredBeforeOrAt(i) == since # 0 /\ jobs[i].time <= since
NeverDelivered(i) == FALSE

DeliveredBefore(i) ==
    since # 0 /\ (jobs[i].time < since \/ (jobs[i].time = since /\ i \in seen))

\* One event per job, each with an instant, in the ledger's order. (One with an
\* earlier instant than the watermark is swallowed; one without is always yielded.)
StreamDelivers ==
    /\ stream = "connected" /\ cursor \in Jobs
    /\ cursor' = cursor + 1
    /\ IF DeliveredBefore(cursor)
       THEN UNCHANGED <<since, seen, emitted>>
       ELSE /\ since' = jobs[cursor].time
            /\ seen' = {i \in seen : since' = since} \cup {cursor}
            /\ emitted' = Append(emitted, cursor)
    /\ UNCHANGED <<callVars, gateVars, stream, queryVars, engineVars, fixedVars>>

\* UNAVAILABLE and CANCELLED are retried without end; another status is raised,
\* a stream the server closes ends the iteration.
StreamDrops ==
    /\ stream = "connected"
    /\ stream' \in {"backoff", "ended"}
    /\ UNCHANGED <<callVars, gateVars, since, seen, emitted, cursor, queryVars, engineVars, fixedVars>>

-----------------------------------------------------------------------------
(* query(): pages in order of creation, from the token on.                 *)

BeginQuery ==
    /\ observer = "query" /\ lister = "idle"
    /\ lister' = "asking" /\ before' = Len(jobs)
    /\ UNCHANGED <<callVars, gateVars, streamVars, token, listed, engineVars, fixedVars>>

Page(n) == [k \in 1..n |-> token + k]

\* Mutant: every page is asked for with the first token.
PageAnsweredFirst ==
    LET n == IF Len(jobs) < PageSize THEN Len(jobs) ELSE PageSize IN
    /\ lister = "asking" /\ Len(listed) <= Limit
    /\ listed' = listed \o [k \in 1..n |-> k]
    /\ lister' = IF n = Len(jobs) \/ Len(listed') >= Limit THEN "done" ELSE "asking"
    /\ UNCHANGED <<callVars, gateVars, streamVars, token, before, engineVars, fixedVars>>

\* One page. The limit is looked at after each job has been yielded.
PageAnswered ==
    LET left == Len(jobs) - token
        n    == IF left < PageSize THEN left ELSE PageSize
        room == IF Limit = 0 THEN 1 ELSE Limit - Len(listed)
    IN
    /\ lister = "asking"
    /\ token' = token + n
    /\ listed' = listed \o Page(IF n < room THEN n ELSE room)
    /\ lister' = IF n >= room \/ n = left THEN "done" ELSE "asking"
    /\ UNCHANGED <<callVars, gateVars, streamVars, before, engineVars, fixedVars>>

PageFails ==
    /\ lister = "asking"
    /\ lister' = "failed"
    /\ UNCHANGED <<callVars, gateVars, streamVars, token, listed, before, engineVars, fixedVars>>

-----------------------------------------------------------------------------

Next ==
    \/ \E c \in Calls : \/ RefuseSpec(c) \/ SendCall(c) \/ CallAnswered(c) \/ CallLost(c)
                        \/ RetryCall(c) \/ CallRejected(c)
    \/ \E g \in FanOuts : GateFires(g) \/ PollFinds(g) \/ AwaitReturns(g) \/ ResultFails(g)
    \/ \E i \in Jobs : JobEnds(i)
    \/ StreamConnects \/ StreamDelivers \/ StreamDrops
    \/ BeginQuery \/ PageAnswered \/ PageFails

Spec == Init /\ [][Next]_vars

(* Fairness: the polls and calls of a result() are repeated until they are *)
(* answered.                                                               *)

FairSpec == Spec /\ \A g \in FanOuts : WF_vars(PollFinds(g)) /\ WF_vars(AwaitReturns(g))

-----------------------------------------------------------------------------

\* However a submission is retried, and by whom else it is made, there is one
\* job of its dedup key, and every handle of the key names it.
KeyedSubmitOnce ==
    /\ \A i, j \in Jobs :
         KeyOf[jobs[i].by] # NoKey /\ KeyOf[jobs[i].by] = KeyOf[jobs[j].by] => i = j
    /\ \A c \in Submits : at[c] = "answered" /\ KeyOf[c] # NoKey => SameKey(c) = {handle[c]}

\* Drops and reconnects never make stream_events yield an event again, or after
\* a later one.
EmitsInOrder == \A i, j \in DOMAIN emitted : i < j => emitted[i] < emitted[j]

\* Where a new stream replays the ledger, no blip loses an event, events of the
\* same instant included.
ReplayLosesNothing == replays => \A i \in DOMAIN emitted : emitted[i] = i

\* query() lists no job twice and none beyond the limit, and a listing that came
\* to its end has every job that existed when it began, while others are created.
ListsEachOnce ==
    /\ \A i \in DOMAIN listed : listed[i] = i
    /\ Limit > 0 => Len(listed) <= Limit
    /\ lister = "done" /\ Len(listed) < Limit => Len(listed) >= before

\* Gate.result() returns when every continuation there is has ended.
GateResolves ==
    \A g \in FanOuts :
        (waiter[g] = "polling" /\ Continuations # {} /\ Continuations \subseteq finished)
            ~> (waiter[g] \in {"done", "failed"} \/ ~(Continuations \subseteq finished))
=============================================================================
