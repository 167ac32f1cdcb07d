---------------------------- MODULE FailureRules ----------------------------
(***************************************************************************)
(* Whether an exception of a handler is retried: the taxonomy of           *)
(* symba.errors, the rules of symba.retry_classify, gRPC statuses          *)
(* (symba._grpc_errors), and the two roads to the verdict, in the worker   *)
(* for io and through the child process for cpu and gpu.                   *)
(*                                                                         *)
(* An exception is a record: the name of its class, the class of the SDK   *)
(* whose `retryable` it inherits, the traits the rules probe for, and the  *)
(* HTTP status it carries, None without.                                   *)
(***************************************************************************)
EXTENDS Integers, Sequences

None == -1
Foreign == "none"   \* not derived from SymbaError

\* The SDK's own classes, each with its base.
Parent ==
    [RetryableError |-> "SymbaError", FatalError |-> "SymbaError",
     RateLimitedError |-> "RetryableError", EngineUnavailable |-> "RetryableError",
     ConfigError |-> "FatalError", PayloadValidationError |-> "FatalError",
     OutputValidationError |-> "FatalError", AuthError |-> "FatalError",
     ProtocolMismatch |-> "FatalError", JobFailed |-> "SymbaError",
     JobCancelled |-> "SymbaError", JobNotFound |-> "SymbaError", StaleLease |-> "SymbaError",
     ResultTooLarge |-> "SymbaError", AmbiguousResultKey |-> "SymbaError",
     UnsupportedInProfile |-> "SymbaError", WaitKeyAlreadyConsumed |-> "SymbaError",
     WrongEventLoop |-> "SymbaError"]

SymbaClasses == DOMAIN Parent \cup {"SymbaError"}

\* No class is more than one below RetryableError.
Retryable ==
    [c \in SymbaClasses |->
        c = "RetryableError" \/ (c \in DOMAIN Parent /\ Parent[c] = "RetryableError")]

Symba(class) == [class |-> class, sdk |-> class, traits |-> {}, status |-> None]

\* A subclass an application declares: isinstance finds it, and it inherits `retryable`.
SubclassOf(class, base) == [Symba(base) EXCEPT !.class = class]

\* An exception of Python or of a library; one that is no Exception has the trait "base".
Other(class, traits, status) ==
    [class |-> class, sdk |-> Foreign, traits |-> traits, status |-> status]

\* An exception of gRPC nobody has translated, and its translation.
RawRpc(code) == Other("AioRpcError", {}, None)
Translate(code) == Symba(
    CASE code = "STALE_LEASE" -> "StaleLease"              \* FAILED_PRECONDITION about a lease
      [] code = "NOT_FOUND" -> "JobNotFound"
      [] code = "RESULT_TOO_LARGE" -> "ResultTooLarge"     \* INVALID_ARGUMENT about a result
      [] code = "INVALID_ARGUMENT" -> "PayloadValidationError"
      [] code \in {"RESOURCE_EXHAUSTED", "UNAVAILABLE"} -> "EngineUnavailable"
      [] code \in {"UNAUTHENTICATED", "PERMISSION_DENIED"} -> "AuthError"
      [] OTHER -> "SymbaError")

-----------------------------------------------------------------------------
(* The verdict: retryable or not.                                          *)

RetryableStatus == {408, 429, 500, 502, 503, 504}
FatalStatus == {400, 401, 403, 404, 422}

Rule(name, retryable) == [name |-> name, retryable |-> retryable]

ClassificationRules ==
    <<Rule("http_retryable_status", TRUE), Rule("http_fatal_status", FALSE),
      Rule("timeout", TRUE), Rule("named_timeout", TRUE), Rule("connection_error", TRUE),
      Rule("transient_oserror", TRUE), Rule("http_transport_error", TRUE),
      Rule("incomplete_body_read", TRUE), Rule("programming_or_data_error", FALSE)>>

\* The rules whose predicate holds of e, by name.
ClaimedBy(e) ==
    e.traits \cup {r \in {"http_retryable_status"} : e.status \in RetryableStatus}
             \cup {r \in {"http_fatal_status"} : e.status \in FatalStatus}

\* The first rule decides, the worker's overrides first; fatal when none does.
Classify(e, overrides) ==
    LET rules  == overrides \o ClassificationRules
        claims == {i \in DOMAIN rules : rules[i].name \in ClaimedBy(e)}
    IN  claims # {} /\ rules[CHOOSE i \in claims : \A j \in claims : i <= j].retryable

Verdict(e, overrides) ==
    IF e.sdk \in SymbaClasses THEN Retryable[e.sdk] ELSE Classify(e, overrides)

-----------------------------------------------------------------------------
(* The two roads.                                                          *)

\* Re-raised by classify: not the job's fault.
ProcessLevel(e) == e.class \in {"MemoryError", "SystemExit", "KeyboardInterrupt"}

\* io: the exception reaches dispatch as it is. A cancellation that nobody asked
\* for is reported as one, and a process-level exception leaves without a report.
RetriedInIo(e, overrides) == e.class # "CancelledError" /\ Verdict(e, overrides)

\* The child catches Exceptions, and classify raises the process-level ones again.
KillsChild(e) == "base" \in e.traits \/ ProcessLevel(e)

\* cpu, gpu: the child judges by the built-in rules alone, and the parent reports
\* its verdict; the death of a child is retried.
RetriedInChild(e) == KillsChild(e) \/ Verdict(e, <<>>)

\* A verb that fails in the parent is a plain SymbaError in the child.
RaisedBy(profile, e) == IF profile = "io" THEN e ELSE Symba("SymbaError")
=============================================================================
