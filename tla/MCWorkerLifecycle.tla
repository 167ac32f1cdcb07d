------------------------- MODULE MCWorkerLifecycle -------------------------
(* Five registrations that pass some checks and not others, and settings   *)
(* that differ from a plain set in one or two entries.                     *)
EXTENDS WorkerLifecycle

CONSTANTS a1, a2, a3

Task(name, profile, runsOn) ==
    [name |-> name, profile |-> profile, coroutine |-> profile = "io",
     parameters |-> "ctxPayload", schemas |-> FALSE, timeout |-> NotGiven, lease |-> NotGiven,
     runsOn |-> runsOn]

MCOffered ==
    {Task("fetch", "io", {"net"}),
     Task("parse", "cpu", {"net", "big"}),
     [Task("embed", "gpu", {"big", "cuda"}) EXCEPT !.timeout = 100, !.lease = 30],
     [Task("slow", "io", {}) EXCEPT !.timeout = 600],
     [Task("sync", "io", {}) EXCEPT !.coroutine = FALSE],
     [Task("fetch", "cpu", {}) EXCEPT !.parameters = "payloadCtx"]}

Plain ==
    [slots |-> 1, cpuSlots |-> NotGiven, heartbeat |-> 10, tags |-> {"host"}, strict |-> FALSE,
     target |-> [scheme |-> "bare", host |-> TRUE], tls |-> FALSE, certificate |-> FALSE,
     key |-> FALSE, redis |-> TRUE, redisInstalled |-> TRUE, admission |-> TRUE,
     liveness |-> FALSE, lagHookRaises |-> FALSE]

MCSettings ==
    {Plain,
     [Plain EXCEPT !.slots = NotGiven, !.redis = FALSE, !.admission = FALSE],
     [Plain EXCEPT !.heartbeat = 45, !.slots = 2],
     [Plain EXCEPT !.heartbeat = 15, !.cpuSlots = 3, !.lagHookRaises = TRUE],
     [Plain EXCEPT !.slots = 0],
     [Plain EXCEPT !.strict = TRUE],
     [Plain EXCEPT !.redisInstalled = FALSE],
     [Plain EXCEPT !.tls = TRUE, !.certificate = TRUE]}
=============================================================================
