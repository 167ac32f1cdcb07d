---------------------------- MODULE LeaseContract ----------------------------
(***************************************************************************)
(* What one execution of a job promises the engine, seen from the lease:   *)
(* the lease is closed at most once, by a result only of a handler that    *)
(* returned, by a failure only when no handler runs, or by parking the job *)
(* while its handler runs.                                                 *)
(***************************************************************************)
VARIABLES body,   \* the handler of this execution
          record  \* what became of the lease at the engine

vars == <<body, record>>

Init == body = "none" /\ record = "open"

Start == body = "none" /\ body' = "running" /\ UNCHANGED record

End == /\ body = "running"
       /\ body' \in {"returned", "raised", "cancelled"} \cup {b \in {"parked"} : record = b}
       /\ UNCHANGED record

Close(how) == record = "open" /\ record' = how /\ UNCHANGED body

Next == \/ Start
        \/ End
        \/ body = "running" /\ Close("parked")
        \/ body = "returned" /\ Close("completed")
        \/ body # "running" /\ Close("failed")
        \/ Close("expired")

Spec == Init /\ [][Next]_vars
=============================================================================
