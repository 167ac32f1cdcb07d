-------------------------- MODULE AssignmentLedger --------------------------
(***************************************************************************)
(* What a Symba worker promises the engine about the assignments it is     *)
(* sent, with the machinery that keeps the promise left out: at most Slots *)
(* of them run at a time, none starts once the worker has begun to drain,  *)
(* and one that was failed back or abandoned never runs.                   *)
(***************************************************************************)
EXTENDS Integers, FiniteSets

CONSTANTS Jobs,   \* the assignments the engine may send
          Slots   \* how many of them may run at a time

VARIABLES status,  \* status[j]: how far assignment j has got
          open     \* FALSE once the worker drains

ledgerVars == <<status, open>>

Status == {"idle", "offered", "running", "done", "rejected", "abandoned"}

RunningJobs == {j \in Jobs : status[j] = "running"}

Init ==
    /\ status = [j \in Jobs |-> "idle"]
    /\ open = TRUE

Move(j, from, to) ==
    /\ status[j] = from
    /\ status' = [status EXCEPT ![j] = to]
    /\ UNCHANGED open

Offer(j) == Move(j, "idle", "offered")

Start(j) ==
    /\ open
    /\ Cardinality(RunningJobs) < Slots
    /\ Move(j, "offered", "running")

Finish(j) == Move(j, "running", "done")

Reject(j) == Move(j, "offered", "rejected")

\* A dropped stream, a lost Fail, a drain deadline: the engine's lease expiry
\* re-runs the job. Several assignments can be abandoned by one event.
Abandon ==
    /\ \E gone \in SUBSET {j \in Jobs : status[j] = "offered"} :
          /\ gone # {}
          /\ status' = [j \in Jobs |-> IF j \in gone THEN "abandoned" ELSE status[j]]
    /\ UNCHANGED open

Close ==
    /\ open
    /\ open' = FALSE
    /\ UNCHANGED status

Next ==
    \/ \E j \in Jobs : Offer(j) \/ Start(j) \/ Finish(j) \/ Reject(j)
    \/ Abandon
    \/ Close

Spec == Init /\ [][Next]_ledgerVars
=============================================================================
