--------------------------- MODULE HandlerContext ---------------------------
(***************************************************************************)
(* One job over all its executions: what ctx of symba.context gives a      *)
(* handler (symba.ctx_backend, symba.checkpoint, and for cpu tasks the     *)
(* proxy of symba.executors.ctx_proxy), what survives an execution, and    *)
(* whether a failure is retried.                                           *)
(*                                                                         *)
(* An execution is named by the lease it holds. The engine may take the    *)
(* lease back while the handler runs on, so executions overlap; a worker   *)
(* may crash at any moment. The handler is any program: it works,          *)
(* checkpoints how far it got, waits, and ends as it likes; what a verb     *)
(* raises it catches or passes on. A checkpoint is the number of steps it  *)
(* saves. The jobs a handler submits are not part of this state.           *)
(***************************************************************************)
EXTENDS FailureRules, FiniteSets

CONSTANTS Leases,      \* the engine grants leases 1..Leases to the job
          Work,        \* steps a handler can checkpoint
          PutAttempts, \* _CHECKPOINT_RPC_MAX_ATTEMPTS: 4
          Keys,        \* wait keys, each signalled at most once
          Raisable,    \* exceptions of the handler's own code
          Overrides    \* Worker(classify_overrides)

ASSUME ContextAssumption ==
    /\ Leases \in Nat \ {0}
    /\ Work \in Nat
    /\ PutAttempts \in Nat \ {0}
    /\ 0 \notin Keys
    /\ Raisable \subseteq [class : STRING, sdk : SymbaClasses \cup {Foreign},
                           traits : SUBSET STRING, status : Int]
    /\ Overrides \in Seq([name : STRING, retryable : BOOLEAN])

NoKey == 0
Executions == 1..Leases

VARIABLES
    redis,     \* a checkpoint Redis is configured
    profile,   \* of the task: "io" or "cpu"
    exec,      \* exec[l]: the execution under lease l
    puts,      \* PutCheckpoint calls on their way, in the background or awaited
    fast,      \* the checkpoint in Redis; 0 is none
    job,       \* external: the engine's state of the job
    lease,     \* external: the latest lease
    durable,   \* external: the checkpoint the engine holds
    waitKey,   \* external: the key a waiting job is parked on
    payload,   \* external: key of the consumed signal, kept with the job
    sent,      \* external: signals sent
    buffered,  \* external: signals nothing has consumed
    acked,     \* history: newest checkpoint confirmed to a holder of the lease
    resumedBy  \* history: signals that resumed the parked job

configVars == <<redis, profile>>
storeVars  == <<puts, fast, durable, acked>>
engineVars == <<job, lease, waitKey, payload, sent, buffered, resumedBy>>
vars == <<configVars, exec, storeVars, engineVars>>

Busy == {"running", "putting", "completing", "failing", "draining"}

\* An execution: where it is, the steps done in it or before its checkpoint, the
\* key of the payload that came with the assignment, IoCtxBackend's
\* _consumed_wait_keys, and the verdict of the Fail it is about to deliver.
Elsewhere(place) ==
    [at |-> place, progress |-> 0, event |-> NoKey, consumed |-> {}, retryable |-> FALSE]
Gone   == Elsewhere("ended")
Unborn == Elsewhere("none")

TypeOK ==
    /\ redis \in BOOLEAN /\ profile \in {"io", "cpu"}
    /\ exec \in [Executions ->
         [at : Busy \cup {"none", "ended"}, progress : 0..Work, event : Keys \cup {NoKey},
          consumed : SUBSET Keys, retryable : BOOLEAN]]
    /\ puts \subseteq [lease : Executions, data : 1..Work, tries : 1..PutAttempts]
    /\ fast \in 0..Work /\ durable \in 0..Work /\ acked \in 0..Work
    /\ job \in {"pending", "leased", "waiting", "done", "dead"}
    /\ lease \in 0..Leases
    /\ waitKey \in Keys \cup {NoKey} /\ payload \in Keys \cup {NoKey}
    /\ sent \subseteq Keys /\ buffered \subseteq sent /\ resumedBy \subseteq Keys

Init ==
    /\ redis \in BOOLEAN /\ profile \in {"io", "cpu"}
    /\ exec = [l \in Executions |-> Unborn]
    /\ puts = {} /\ fast = 0 /\ durable = 0 /\ acked = 0
    /\ job = "pending" /\ lease = 0
    /\ waitKey = NoKey /\ payload = NoKey
    /\ sent = {} /\ buffered = {} /\ resumedBy = {}

Go(l, place) == exec' = [exec EXCEPT ![l].at = place]
Leave(l)     == exec' = [exec EXCEPT ![l] = Gone]
Open(l) == job = "leased" /\ lease = l
Larger(a, b) == IF a < b THEN b ELSE a

-----------------------------------------------------------------------------
(* An exception leaves the handler. Out of an io task a process-level one  *)
(* takes the report with it.                                               *)

IsRetried(e) == IF profile = "io" THEN RetriedInIo(e, Overrides) ELSE RetriedInChild(e)

Raise(l, e) ==
    IF profile = "io" /\ ProcessLevel(e)
    THEN Leave(l)
    ELSE exec' = [exec EXCEPT ![l].at = "failing", ![l].retryable = IsRetried(e)]

\* A verb raises e: the handler catches it, or it ends the execution; in a cpu
\* task it has crossed the pipe.
VerbRaises(l, e) == Go(l, "running") \/ Raise(l, RaisedBy(profile, e))

-----------------------------------------------------------------------------
(* The engine, external: it leases the job, takes a lease back, keeps the  *)
(* payload of a signal with the job.                                       *)

\* The assignment carries the durable checkpoint, and ctx has no other source.
Grant ==
    /\ job = "pending" /\ lease < Leases
    /\ job' = "leased" /\ lease' = lease + 1
    /\ exec' = [exec EXCEPT ![lease'] = [Gone EXCEPT !.at = "running", !.progress = durable,
                                                     !.event = payload]]
    /\ UNCHANGED <<configVars, storeVars, waitKey, payload, sent, buffered, resumedBy>>

\* Back to the queue while there are attempts left.
Requeued == IF lease < Leases THEN "pending" ELSE "dead"

LeaseExpires ==
    /\ job = "leased"
    /\ job' = Requeued
    /\ UNCHANGED <<configVars, exec, storeVars, lease, waitKey, payload, sent, buffered, resumedBy>>

SendSignal(k) ==
    /\ k \notin sent
    /\ sent' = sent \cup {k}
    /\ IF job = "waiting" /\ waitKey = k
       THEN /\ job' = Requeued /\ waitKey' = NoKey
            /\ payload' = k /\ resumedBy' = resumedBy \cup {k}
            /\ UNCHANGED buffered
       ELSE buffered' = buffered \cup {k} /\ UNCHANGED <<job, waitKey, payload, resumedBy>>
    /\ UNCHANGED <<configVars, exec, storeVars, lease>>

WaitExpires ==
    /\ job = "waiting"
    /\ job' = Requeued /\ waitKey' = NoKey /\ payload' = NoKey
    /\ UNCHANGED <<configVars, exec, storeVars, lease, sent, buffered, resumedBy>>

\* The worker's process dies, and the calls it had under way with it.
Crash(l) ==
    /\ exec[l].at \in Busy
    /\ Leave(l)
    /\ puts' = {p \in puts : p.lease # l}
    /\ UNCHANGED <<configVars, fast, durable, acked, engineVars>>

-----------------------------------------------------------------------------
(* ctx.checkpoint.                                                         *)

Ack(l, data) == acked' = IF Open(l) THEN Larger(acked, data) ELSE acked

\* Redis may fail, with a class that classification knows, if at all, by the
\* name TimeoutError.
RedisErrors == {Other("TimeoutError", {"named_timeout"}, None), Other("ConnectionError", {}, None)}

\* With Redis the call returns after the write there, and PutCheckpoint goes on
\* in the background; without, PutCheckpoint is awaited.
Checkpoint(l) ==
    LET data == exec[l].progress + 1
        put  == [lease |-> l, data |-> data, tries |-> 1] IN
    /\ exec[l].at = "running" /\ data <= Work
    /\ \/ /\ redis
          /\ exec' = [exec EXCEPT ![l].progress = data]
          /\ fast' = data
          /\ puts' = puts \cup {put}
          /\ Ack(l, data)
       \/ /\ redis
          /\ \E e \in RedisErrors : VerbRaises(l, e)
          /\ UNCHANGED <<puts, fast, acked>>
       \/ /\ ~redis
          /\ exec' = [exec EXCEPT ![l].progress = data, ![l].at = "putting"]
          /\ puts' = puts \cup {put}
          /\ UNCHANGED <<fast, acked>>
    /\ UNCHANGED <<configVars, durable, engineVars>>

\* PutCheckpoint succeeds; a handler that awaits it goes on.
PutApplied(p) ==
    /\ Open(p.lease)
    /\ durable' = p.data
    /\ puts' = puts \ {p}
    /\ IF redis THEN UNCHANGED <<exec, acked>>
                ELSE Go(p.lease, "running") /\ Ack(p.lease, p.data)
    /\ UNCHANGED <<configVars, fast, engineVars>>

\* Mutant: the error is logged and never raised, whether or not Redis has a copy.
PutAbandonedSilently(p, code) ==
    /\ puts' = puts \ {p}
    /\ IF redis THEN UNCHANGED <<exec, acked>>
                ELSE Go(p.lease, "running") /\ Ack(p.lease, p.data)

\* The last attempt failed: logged, and raised as it is where it was the only copy.
PutAbandoned(p, code) ==
    /\ puts' = puts \ {p}
    /\ IF redis THEN UNCHANGED exec ELSE VerbRaises(p.lease, RawRpc(code))
    /\ UNCHANGED acked

\* Mutant: a failed attempt is repeated without end.
PutLostForever(p) ==
    /\ durable' \in {durable} \cup {d \in {p.data} : Open(p.lease)}
    /\ puts' = (puts \ {p}) \cup {[p EXCEPT !.tries = IF @ < PutAttempts THEN @ + 1 ELSE 1]}
    /\ UNCHANGED <<configVars, exec, fast, acked, engineVars>>

\* An attempt is lost before or after the engine applied it. Each call backs
\* off on its own.
PutLost(p) ==
    /\ durable' \in {durable} \cup {d \in {p.data} : Open(p.lease)}
    /\ IF p.tries < PutAttempts
       THEN puts' = (puts \ {p}) \cup {[p EXCEPT !.tries = @ + 1]} /\ UNCHANGED <<exec, acked>>
       ELSE PutAbandoned(p, "UNAVAILABLE")
    /\ UNCHANGED <<configVars, fast, engineVars>>

PutRefused(p) ==
    /\ ~Open(p.lease)
    /\ PutAbandoned(p, "STALE_LEASE")
    /\ UNCHANGED <<configVars, fast, durable, engineVars>>

-----------------------------------------------------------------------------
(* ctx.wait_for_event and the verbs that only call the engine.             *)

Consume(l, k) == exec' = [exec EXCEPT ![l].consumed = @ \cup {k}]
Park(k) == job' = "waiting" /\ waitKey' = k

\* The Wait call: on an open lease the engine consumes a signal that came before,
\* or parks the job; call or answer may be lost.
Rendezvous(l, k) ==
    /\ Open(l) /\ k \in buffered
    /\ buffered' = buffered \ {k}
    /\ Consume(l, k) \/ VerbRaises(l, Translate("UNAVAILABLE"))
    /\ UNCHANGED <<job, waitKey>>

ParkJob(l, k) ==
    /\ Open(l) /\ k \notin buffered
    /\ Park(k)
    /\ Leave(l) \/ VerbRaises(l, Translate("UNAVAILABLE"))
    /\ UNCHANGED buffered

WaitFails(l) ==
    /\ \/ Open(l) /\ VerbRaises(l, Translate("UNAVAILABLE"))
       \/ ~Open(l) /\ VerbRaises(l, Translate("STALE_LEASE"))
    /\ UNCHANGED <<job, waitKey, buffered>>

IssueWait(l, k) == Rendezvous(l, k) \/ ParkJob(l, k) \/ WaitFails(l)

\* Mutant: a resumed execution asks the engine again.
WaitForEventAgain(l, k) ==
    /\ exec[l].at = "running" /\ profile = "io" /\ k \notin exec[l].consumed
    /\ IssueWait(l, k)
    /\ UNCHANGED <<configVars, storeVars, lease, payload, sent, resumedBy>>

\* The payload of the assignment answers the wait, whatever its key.
WaitForEvent(l, k) ==
    /\ exec[l].at = "running"
    /\ \/ /\ profile # "io"
          /\ Go(l, "running") \/ Raise(l, Symba("UnsupportedInProfile"))
          /\ UNCHANGED <<job, waitKey, buffered>>
       \/ /\ profile = "io" /\ k \in exec[l].consumed
          /\ VerbRaises(l, Symba("WaitKeyAlreadyConsumed"))
          /\ UNCHANGED <<job, waitKey, buffered>>
       \/ /\ profile = "io" /\ k \notin exec[l].consumed /\ exec[l].event # NoKey
          /\ Consume(l, k)
          /\ UNCHANGED <<job, waitKey, buffered>>
       \/ /\ profile = "io" /\ k \notin exec[l].consumed /\ exec[l].event = NoKey
          /\ IssueWait(l, k)
    /\ UNCHANGED <<configVars, storeVars, lease, payload, sent, resumedBy>>

\* ctx.submit, submit_children and output.fetch change nothing here but by what
\* they raise: a bad spec, an error of gRPC translated, a key with two producers
\* or none.
VerbErrors ==
    {Translate(c) : c \in {"UNAVAILABLE", "STALE_LEASE", "INVALID_ARGUMENT"}}
        \cup {Symba("SymbaError"), Symba("AmbiguousResultKey"),
                 Other("KeyError", {"programming_or_data_error"}, None)}

VerbFails(l) ==
    /\ exec[l].at = "running"
    /\ \E e \in VerbErrors : VerbRaises(l, e)
    /\ UNCHANGED <<configVars, storeVars, engineVars>>

-----------------------------------------------------------------------------
(* The end of an execution.                                                *)

Return(l) ==
    /\ exec[l].at = "running"
    /\ Go(l, "completing")
    /\ UNCHANGED <<configVars, storeVars, engineVars>>

RaiseOwn(l) ==
    /\ exec[l].at = "running"
    /\ \E e \in Raisable : Raise(l, e)
    /\ UNCHANGED <<configVars, storeVars, engineVars>>

\* Complete is accepted on the open lease, refused or given up otherwise; the
\* background writes are awaited after it.
DeliverComplete(l) ==
    /\ exec[l].at = "completing"
    /\ job' \in {job} \cup {s \in {"done"} : Open(l)}
    /\ Go(l, "draining")
    /\ UNCHANGED <<configVars, storeVars, lease, waitKey, payload, sent, buffered, resumedBy>>

\* drain() and delete_fast(), whose own failure is only logged.
CleanUp(l) ==
    /\ exec[l].at = "draining"
    /\ \A p \in puts : p.lease # l
    /\ fast' \in {0, fast}
    /\ Leave(l)
    /\ UNCHANGED <<configVars, puts, durable, acked, engineVars>>

DeliverFail(l) ==
    /\ exec[l].at = "failing"
    /\ job' \in {job} \cup {s \in {IF exec[l].retryable THEN Requeued ELSE "dead"} : Open(l)}
    /\ Leave(l)
    /\ UNCHANGED <<configVars, storeVars, lease, waitKey, payload, sent, buffered, resumedBy>>

-----------------------------------------------------------------------------

PutReturns(p) == PutApplied(p) \/ PutLost(p) \/ PutRefused(p)

Next ==
    \/ Grant \/ LeaseExpires \/ WaitExpires
    \/ \E k \in Keys : SendSignal(k)
    \/ \E l \in Executions :
         \/ Crash(l)
         \/ Checkpoint(l) \/ (\E k \in Keys : WaitForEvent(l, k)) \/ VerbFails(l)
         \/ Return(l) \/ RaiseOwn(l)
         \/ DeliverComplete(l) \/ CleanUp(l) \/ DeliverFail(l)
    \/ \E p \in puts : PutReturns(p)

Spec == Init /\ [][Next]_vars

(* Fairness: every call to the engine returns, answered or failed, and the  *)
(* event loop resumes what waited for it. Nothing is assumed of the engine  *)
(* or of the handler.                                                       *)

FairSpec ==
    /\ Spec
    /\ \A l \in Executions :
         /\ WF_vars(\E p \in puts : p.lease = l /\ PutReturns(p))
         /\ WF_vars(CleanUp(l))

-----------------------------------------------------------------------------

\* Without Redis, an execution starts from every checkpoint that was confirmed
\* to an earlier one while that held the lease, whatever crashed, was lost or
\* was retried in between.
ResumesFromConfirmed == [][~redis /\ lease' # lease => exec'[lease'].progress >= acked]_vars

\* A signal that resumed the job is not waited for again, by any later attempt.
SignalledWaitFlows == job = "waiting" => waitKey \notin resumedBy

\* A checkpoint call, and the clean-up after Complete that waits for all of
\* them, end: the slot they hold comes back.
WritesSettle ==
    \A l \in Executions :
        exec[l].at \in {"putting", "draining"} ~> exec[l].at \notin {"putting", "draining"}

-----------------------------------------------------------------------------
(* What docs say and the code does not do.                                 *)

\* "if the Redis fast path is configured, the SDK checks Redis first": no work
\* that was checkpointed is done again.
NeverPaidTwice == [][lease' # lease => exec'[lease'].progress >= acked]_vars
=============================================================================
