------------------------ MODULE JobExecution_proofs ------------------------
(***************************************************************************)
(* Proofs about JobExecution, for every MaxMisses, with and without a      *)
(* timeout, on every supported Python.                                     *)
(*                                                                         *)
(* JobInv ties the position of dispatch to what the handler, the shell and *)
(* the report can be there; it is inductive, and the safety properties     *)
(* follow from it.                                                         *)
(***************************************************************************)
EXTENDS JobExecution, TLAPS

(* The conjuncts of TypeOK, by the kind of value.                          *)
Names ==
    /\ pc \in Pcs
    /\ caught \in HandlerEndings \cup {"none"}
    /\ drainedAt \in Pcs \cup {"never"}
    /\ handler \in HandlerEndings \cup {"none", "running"}
    /\ shell \in LiveShell \cup EndedShell \cup {"none", "ending"}
    /\ cancelReason \in {"none", "cancelled", "timeout"}
    /\ report \in Reports
    /\ wire \in {"none", "sent", "accepted", "stale", "refused"}
    /\ record \in {"open", "parked", "completed", "failed", "expired"}

Flags ==
    /\ mustCancel \in BOOLEAN
    /\ cancelRequested \in BOOLEAN
    /\ beatNow \in BOOLEAN
    /\ overdue \in BOOLEAN
    /\ cancelFlag \in BOOLEAN

Beats ==
    /\ misses \in 0..(MaxMisses + 1)
    /\ misses > MaxMisses => shell = "gaveUp"

Unreported == {"claimed", "running", "stopping"}

\* TypeOK alone is not inductive: a live shell has a miss to spare (Beats).
Positions ==
    /\ Beats
    /\ pc \in Unreported => report = NoReport
    /\ pc \in {"delivering", "retrying"} => report # NoReport
    /\ pc = "claimed" => handler = "none" /\ shell = "none"
    /\ pc = "running" => handler # "none"
    /\ pc = "stopping" => handler \in HandlerEndings /\ caught \in {handler, "cancelled"}
    /\ pc \notin Unreported => handler # "running" /\ shell \notin LiveShell \cup {"ending"}
    /\ wire # "none" => report # NoReport
    /\ report.verb = "Complete" => handler = "returned"
    /\ handler = "parked" => record = "parked"
    /\ caught = "parked" => handler = "parked" /\ report = NoReport /\ pc \notin {"claimed", "running"}

JobInv == TypeOK /\ Positions

-----------------------------------------------------------------------------
(* Types.                                                                  *)

\* The records a delivery can carry are reports.
LEMMA ReportRecords ==
    /\ NoReport \in Reports
    /\ Complete \in Reports
    /\ Failure("assignment", FALSE) \in Reports
    /\ Failure("JobTimeout", TRUE) \in Reports
    /\ Failure("Cancelled", FALSE) \in Reports
    /\ \A r \in BOOLEAN : Failure("handler", r) \in Reports
  BY DEF NoReport, Complete, Failure, Reports

\* A refusal carries a report.
LEMMA RefusalReport == RefuseAssignment => report' \in Reports
<1>1. SUFFICES ASSUME RefuseAssignment PROVE report' \in Reports
  OBVIOUS
<1>2. report' = Failure("assignment", FALSE)
  BY <1>1 DEF RefuseAssignment, Deliver
<1>3. QED
  BY <1>2, ReportRecords, Zenon

\* A delivery leaves the other steps' names alone and carries a report.
LEMMA FinalizeNames ==
  ASSUME TypeOK, NEW ending, Finalize(ending)
  PROVE  report' \in Reports /\ pc' \in Pcs /\ wire' \in {"sent", wire}
<1>1. CASE UNCHANGED reportVars /\ pc' \in {"ended", "finishing"}
  BY <1>1 DEF TypeOK, Pcs, reportVars
<1>2. CASE Deliver(Complete) \/ (\E r \in BOOLEAN : Deliver(Failure("handler", r)))
          \/ Deliver(Failure("JobTimeout", TRUE)) \/ Deliver(Failure("Cancelled", FALSE))
  <2>1. pc' = "delivering" /\ wire' = "sent"
    BY <1>2 DEF Deliver
  <2>2. report' \in Reports
    BY <1>2, ReportRecords, Zenon DEF Deliver
  <2>3. QED
    BY <2>1, <2>2 DEF Pcs
<1>3. QED
  BY <1>1, <1>2 DEF Finalize

\* The initial state is typed.
LEMMA TypeInit == Init => TypeOK
<1> SUFFICES ASSUME Init PROVE TypeOK
  OBVIOUS
<1>1. Names
  BY ReportRecords DEF Init, Names, Pcs, HandlerEndings, LiveShell, EndedShell
<1>2. Flags
  BY DEF Init, Flags
<1>3. misses \in 0..(MaxMisses + 1)
  BY ExecutionAssumption DEF Init
<1>4. QED
  BY <1>1, <1>2, <1>3 DEF TypeOK, Names, Flags

\* The names of states stay names of states, and a report stays a report.
LEMMA NamesStep == TypeOK /\ [Next]_vars => Names'
<1> SUFFICES ASSUME TypeOK, [Next]_vars PROVE Names'
  OBVIOUS
<1> USE DEF TypeOK, Names
<1>1. CASE RefuseAssignment
  <2>1. pc' = "delivering" /\ wire' = "sent"
        /\ UNCHANGED <<caught, drainedAt, handler, shell, cancelReason, record>>
    BY <1>1 DEF RefuseAssignment, Deliver, dispatchVars, handlerVars, shellVars, reportVars,
      engineVars
  <2>2. QED
    BY <1>1, <2>1, RefusalReport DEF Pcs
<1>2. CASE StartHandler
  BY <1>2, FinalizeNames DEF StartHandler, Pcs, HandlerEndings, LiveShell, EndedShell,
    dispatchVars, handlerVars, shellVars, reportVars, engineVars
<1>3. CASE ObserveHandler
  BY <1>3, FinalizeNames DEF ObserveHandler, CancelShell, Pcs, HandlerEndings, LiveShell,
    EndedShell, dispatchVars, handlerVars, shellVars, reportVars, engineVars
<1>4. CASE ShellStopped
  BY <1>4, FinalizeNames DEF ShellStopped, Pcs, HandlerEndings, LiveShell, EndedShell,
    dispatchVars, handlerVars, shellVars, reportVars, engineVars
<1>5. CASE Finish
  BY <1>5, FinalizeNames DEF Finish, Pcs, HandlerEndings, LiveShell, EndedShell, dispatchVars,
    handlerVars, shellVars, reportVars, engineVars
<1>6. CASE EngineTakesReport
  BY <1>6, FinalizeNames DEF EngineTakesReport, Pcs, HandlerEndings, LiveShell, EndedShell,
    dispatchVars, handlerVars, shellVars, reportVars, engineVars
<1>7. CASE DeliveryAcknowledged
  BY <1>7, FinalizeNames DEF DeliveryAcknowledged, Pcs, HandlerEndings, LiveShell, EndedShell,
    dispatchVars, handlerVars, shellVars, reportVars, engineVars
<1>8. CASE AttemptFails
  BY <1>8, FinalizeNames DEF AttemptFails, Pcs, HandlerEndings, LiveShell, EndedShell,
    dispatchVars, handlerVars, shellVars, reportVars, engineVars
<1>9. CASE RetryDelivery
  BY <1>9, FinalizeNames DEF RetryDelivery, Pcs, HandlerEndings, LiveShell, EndedShell,
    dispatchVars, handlerVars, shellVars, reportVars, engineVars
<1>10. CASE DeliveryDropped
  BY <1>10, FinalizeNames DEF DeliveryDropped, Pcs, HandlerEndings, LiveShell, EndedShell,
    dispatchVars, handlerVars, shellVars, reportVars, engineVars
<1>11. ASSUME NEW how \in HandlerEndings, HandlerEnds(how) PROVE  Names'
  BY <1>11, FinalizeNames DEF HandlerEnds, Pcs, HandlerEndings, LiveShell, EndedShell,
    dispatchVars, handlerVars, shellVars, reportVars, engineVars
<1>12. CASE HandlerSwallowsCancel
  BY <1>12, FinalizeNames DEF HandlerSwallowsCancel, Pcs, HandlerEndings, LiveShell, EndedShell,
    dispatchVars, handlerVars, shellVars, reportVars, engineVars
<1>13. CASE HandlerBeats
  BY <1>13, FinalizeNames DEF HandlerBeats, Pcs, HandlerEndings, LiveShell, EndedShell,
    dispatchVars, handlerVars, shellVars, reportVars, engineVars
<1>14. CASE JobParks
  BY <1>14, FinalizeNames DEF JobParks, Pcs, HandlerEndings, LiveShell, EndedShell,
    dispatchVars, handlerVars, shellVars, reportVars, engineVars
<1>15. CASE DeadlinePasses
  BY <1>15, FinalizeNames DEF DeadlinePasses, Pcs, HandlerEndings, LiveShell, EndedShell,
    dispatchVars, handlerVars, shellVars, reportVars, engineVars
<1>16. CASE ShellWakes
  BY <1>16, FinalizeNames DEF ShellWakes, Fire, Pcs, HandlerEndings, LiveShell, EndedShell,
    dispatchVars, handlerVars, shellVars, reportVars, engineVars
<1>17. CASE BeatAnswered
  BY <1>17, FinalizeNames DEF BeatAnswered, Fire, Pcs, HandlerEndings, LiveShell, EndedShell,
    dispatchVars, handlerVars, shellVars, reportVars, engineVars
<1>18. CASE BeatMissed
  BY <1>18, FinalizeNames DEF BeatMissed, Pcs, HandlerEndings, LiveShell, EndedShell,
    dispatchVars, handlerVars, shellVars, reportVars, engineVars
<1>19. CASE Drain
  BY <1>19, FinalizeNames DEF Drain, CancelShell, Pcs, HandlerEndings, LiveShell, EndedShell,
    dispatchVars, handlerVars, shellVars, reportVars, engineVars
<1>20. CASE LeaseExpires
  BY <1>20, FinalizeNames DEF LeaseExpires, Pcs, HandlerEndings, LiveShell, EndedShell,
    dispatchVars, handlerVars, shellVars, reportVars, engineVars
<1>21. CASE CancelJob
  BY <1>21, FinalizeNames DEF CancelJob, Pcs, HandlerEndings, LiveShell, EndedShell,
    dispatchVars, handlerVars, shellVars, reportVars, engineVars
<1>22. CASE UNCHANGED vars
  BY <1>22, FinalizeNames DEF vars, Pcs, HandlerEndings, LiveShell, EndedShell, dispatchVars,
    handlerVars, shellVars, reportVars, engineVars
<1>23. QED
  BY <1>1, <1>2, <1>3, <1>4, <1>5, <1>6, <1>7, <1>8, <1>9, <1>10, <1>11, <1>12, <1>13, <1>14,
    <1>15, <1>16, <1>17, <1>18, <1>19, <1>20, <1>21, <1>22 DEF Next, DispatchStep, BeatReturns,
    Ended

\* The flags stay Boolean.
LEMMA FlagsStep == TypeOK /\ [Next]_vars => Flags'
<1> SUFFICES ASSUME TypeOK, [Next]_vars PROVE Flags'
  OBVIOUS
<1> USE DEF TypeOK, Flags
<1>1. CASE RefuseAssignment
  BY <1>1 DEF RefuseAssignment, Deliver, Failure, dispatchVars, handlerVars, shellVars,
    reportVars, engineVars
<1>2. CASE StartHandler
  BY <1>2 DEF StartHandler, dispatchVars, handlerVars, shellVars, reportVars, engineVars
<1>3. CASE ObserveHandler
  BY <1>3 DEF ObserveHandler, Finalize, Deliver, Complete, Failure, CancelShell, dispatchVars,
    handlerVars, shellVars, reportVars, engineVars
<1>4. CASE ShellStopped
  BY <1>4 DEF ShellStopped, Finalize, Deliver, Complete, Failure, dispatchVars, handlerVars,
    shellVars, reportVars, engineVars
<1>5. CASE Finish
  BY <1>5 DEF Finish, dispatchVars, handlerVars, shellVars, reportVars, engineVars
<1>6. CASE EngineTakesReport
  BY <1>6 DEF EngineTakesReport, dispatchVars, handlerVars, shellVars, reportVars, engineVars
<1>7. CASE DeliveryAcknowledged
  BY <1>7 DEF DeliveryAcknowledged, dispatchVars, handlerVars, shellVars, reportVars, engineVars
<1>8. CASE AttemptFails
  BY <1>8 DEF AttemptFails, dispatchVars, handlerVars, shellVars, reportVars, engineVars
<1>9. CASE RetryDelivery
  BY <1>9 DEF RetryDelivery, dispatchVars, handlerVars, shellVars, reportVars, engineVars
<1>10. CASE DeliveryDropped
  BY <1>10 DEF DeliveryDropped, dispatchVars, handlerVars, shellVars, reportVars, engineVars
<1>11. ASSUME NEW how \in HandlerEndings, HandlerEnds(how) PROVE  Flags'
  BY <1>11 DEF HandlerEnds, dispatchVars, handlerVars, shellVars, reportVars, engineVars
<1>12. CASE HandlerSwallowsCancel
  BY <1>12 DEF HandlerSwallowsCancel, dispatchVars, handlerVars, shellVars, reportVars,
    engineVars
<1>13. CASE HandlerBeats
  BY <1>13 DEF HandlerBeats, dispatchVars, handlerVars, shellVars, reportVars, engineVars
<1>14. CASE JobParks
  BY <1>14 DEF JobParks, dispatchVars, handlerVars, shellVars, reportVars, engineVars
<1>15. CASE DeadlinePasses
  BY <1>15 DEF DeadlinePasses, dispatchVars, handlerVars, shellVars, reportVars, engineVars
<1>16. CASE ShellWakes
  BY <1>16 DEF ShellWakes, Fire, dispatchVars, handlerVars, shellVars, reportVars, engineVars
<1>17. CASE BeatAnswered
  BY <1>17 DEF BeatAnswered, Fire, dispatchVars, handlerVars, shellVars, reportVars, engineVars
<1>18. CASE BeatMissed
  BY <1>18 DEF BeatMissed, dispatchVars, handlerVars, shellVars, reportVars, engineVars
<1>19. CASE Drain
  BY <1>19 DEF Drain, CancelShell, dispatchVars, handlerVars, shellVars, reportVars, engineVars
<1>20. CASE LeaseExpires
  BY <1>20 DEF LeaseExpires, dispatchVars, handlerVars, shellVars, reportVars, engineVars
<1>21. CASE CancelJob
  BY <1>21 DEF CancelJob, dispatchVars, handlerVars, shellVars, reportVars, engineVars
<1>22. CASE UNCHANGED vars
  BY <1>22 DEF vars, dispatchVars, handlerVars, shellVars, reportVars, engineVars
<1>23. QED
  BY <1>1, <1>2, <1>3, <1>4, <1>5, <1>6, <1>7, <1>8, <1>9, <1>10, <1>11, <1>12, <1>13, <1>14,
    <1>15, <1>16, <1>17, <1>18, <1>19, <1>20, <1>21, <1>22 DEF Next, DispatchStep, BeatReturns,
    Ended

\* No more than one beat beyond the tolerated ones is missed, and then the shell
\* has given up.
LEMMA MissesStep == JobInv /\ [Next]_vars => Beats'
<1> SUFFICES ASSUME JobInv, [Next]_vars PROVE Beats'
  OBVIOUS
<1> USE ExecutionAssumption DEF JobInv, Positions, TypeOK, Beats
<1>1. CASE BeatAnswered
  BY <1>1 DEF BeatAnswered
<1>2. CASE BeatMissed
  BY <1>2 DEF BeatMissed
<1>3. CASE UNCHANGED misses /\ (shell = "gaveUp" => shell' = "gaveUp")
  BY <1>3
<1>4. \/ UNCHANGED misses /\ (shell = "gaveUp" => shell' = "gaveUp")
    \/ BeatAnswered
    \/ BeatMissed
  BY DEF Next, DispatchStep, BeatReturns, RefuseAssignment, StartHandler, ObserveHandler,
    ShellStopped, Finish, EngineTakesReport, DeliveryAcknowledged, AttemptFails, RetryDelivery,
    DeliveryDropped, HandlerEnds, HandlerSwallowsCancel, HandlerBeats, JobParks, DeadlinePasses,
    ShellWakes, Drain, CancelShell, LiveShell, EndedShell, LeaseExpires, CancelJob, Ended, vars, shellVars
<1>5. QED
  BY <1>1, <1>2, <1>3, <1>4

\* Every step keeps the types.
LEMMA TypeStep == JobInv /\ [Next]_vars => TypeOK'
  BY NamesStep, FlagsStep, MissesStep DEF JobInv, TypeOK, Names, Flags, Beats

-----------------------------------------------------------------------------
(* The inductive invariant.                                                *)

\* The initial state satisfies it.
LEMMA JobInvInit == Init => JobInv
  BY ExecutionAssumption, TypeInit DEF Init, JobInv, Beats, Positions, NoReport, Unreported

\* Every step keeps it.
LEMMA JobInvStep == JobInv /\ [Next]_vars => JobInv'
<1> SUFFICES ASSUME JobInv, [Next]_vars PROVE Positions'
  BY TypeStep DEF JobInv
<1> Beats'
  BY MissesStep
<1> USE DEF JobInv, TypeOK, Positions, Unreported
<1>1. CASE RefuseAssignment
  BY <1>1 DEF RefuseAssignment, Deliver, Failure, NoReport, HandlerEndings, LiveShell,
    EndedShell, dispatchVars, handlerVars, shellVars, reportVars, engineVars
<1>2. CASE StartHandler
  BY <1>2 DEF StartHandler, NoReport, HandlerEndings, LiveShell, EndedShell, dispatchVars,
    handlerVars, shellVars, reportVars, engineVars
<1>3. CASE ObserveHandler
  BY <1>3 DEF ObserveHandler, Finalize, Deliver, Complete, Failure, CancelShell, NoReport,
    HandlerEndings, LiveShell, EndedShell, dispatchVars, handlerVars, shellVars, reportVars,
    engineVars
<1>4. CASE ShellStopped
  BY <1>4 DEF ShellStopped, Finalize, Deliver, Complete, Failure, NoReport, HandlerEndings,
    LiveShell, EndedShell, dispatchVars, handlerVars, shellVars, reportVars, engineVars
<1>5. CASE Finish
  BY <1>5 DEF Finish, NoReport, HandlerEndings, LiveShell, EndedShell, dispatchVars,
    handlerVars, shellVars, reportVars, engineVars
<1>6. CASE EngineTakesReport
  BY <1>6 DEF EngineTakesReport, NoReport, HandlerEndings, LiveShell, EndedShell, dispatchVars,
    handlerVars, shellVars, reportVars, engineVars
<1>7. CASE DeliveryAcknowledged
  BY <1>7 DEF DeliveryAcknowledged, NoReport, HandlerEndings, LiveShell, EndedShell,
    dispatchVars, handlerVars, shellVars, reportVars, engineVars
<1>8. CASE AttemptFails
  BY <1>8 DEF AttemptFails, NoReport, HandlerEndings, LiveShell, EndedShell, dispatchVars,
    handlerVars, shellVars, reportVars, engineVars
<1>9. CASE RetryDelivery
  BY <1>9 DEF RetryDelivery, NoReport, HandlerEndings, LiveShell, EndedShell, dispatchVars,
    handlerVars, shellVars, reportVars, engineVars
<1>10. CASE DeliveryDropped
  BY <1>10 DEF DeliveryDropped, NoReport, HandlerEndings, LiveShell, EndedShell, dispatchVars,
    handlerVars, shellVars, reportVars, engineVars
<1>11. ASSUME NEW how \in HandlerEndings, HandlerEnds(how) PROVE  Positions'
  BY <1>11 DEF HandlerEnds, NoReport, HandlerEndings, LiveShell, EndedShell, dispatchVars,
    handlerVars, shellVars, reportVars, engineVars
<1>12. CASE HandlerSwallowsCancel
  BY <1>12 DEF HandlerSwallowsCancel, NoReport, HandlerEndings, LiveShell, EndedShell,
    dispatchVars, handlerVars, shellVars, reportVars, engineVars
<1>13. CASE HandlerBeats
  BY <1>13 DEF HandlerBeats, NoReport, HandlerEndings, LiveShell, EndedShell, dispatchVars,
    handlerVars, shellVars, reportVars, engineVars
<1>14. CASE JobParks
  BY <1>14 DEF JobParks, NoReport, HandlerEndings, LiveShell, EndedShell, dispatchVars,
    handlerVars, shellVars, reportVars, engineVars
<1>15. CASE DeadlinePasses
  BY <1>15 DEF DeadlinePasses, NoReport, HandlerEndings, LiveShell, EndedShell, dispatchVars,
    handlerVars, shellVars, reportVars, engineVars
<1>16. CASE ShellWakes
  BY <1>16 DEF ShellWakes, Fire, NoReport, HandlerEndings, LiveShell, EndedShell, dispatchVars,
    handlerVars, shellVars, reportVars, engineVars
<1>17. CASE BeatAnswered
  BY <1>17 DEF BeatAnswered, Fire, NoReport, HandlerEndings, LiveShell, EndedShell,
    dispatchVars, handlerVars, shellVars, reportVars, engineVars
<1>18. CASE BeatMissed
  BY <1>18 DEF BeatMissed, NoReport, HandlerEndings, LiveShell, EndedShell, dispatchVars,
    handlerVars, shellVars, reportVars, engineVars
<1>19. CASE Drain
  BY <1>19 DEF Drain, CancelShell, NoReport, HandlerEndings, LiveShell, EndedShell,
    dispatchVars, handlerVars, shellVars, reportVars, engineVars
<1>20. CASE LeaseExpires
  BY <1>20 DEF LeaseExpires, NoReport, HandlerEndings, LiveShell, EndedShell, dispatchVars,
    handlerVars, shellVars, reportVars, engineVars
<1>21. CASE CancelJob
  BY <1>21 DEF CancelJob, NoReport, HandlerEndings, LiveShell, EndedShell, dispatchVars,
    handlerVars, shellVars, reportVars, engineVars
<1>22. CASE UNCHANGED vars
  BY <1>22 DEF vars, NoReport, HandlerEndings, LiveShell, EndedShell, dispatchVars, handlerVars,
    shellVars, reportVars, engineVars
<1>23. QED
  BY <1>1, <1>2, <1>3, <1>4, <1>5, <1>6, <1>7, <1>8, <1>9, <1>10, <1>11, <1>12, <1>13, <1>14,
    <1>15, <1>16, <1>17, <1>18, <1>19, <1>20, <1>21, <1>22 DEF Next, DispatchStep, BeatReturns,
    Ended

\* Every state of every behaviour satisfies it.
LEMMA JobInvAlways == Spec => []JobInv
<1>1. QED
  BY JobInvInit, JobInvStep, PTL DEF Spec

-----------------------------------------------------------------------------
(* The theorems.                                                           *)

\* Type correctness of the execution model.
THEOREM TypeCorrect == Spec => []TypeOK
<1>1. JobInv => TypeOK
  BY DEF JobInv
<1>2. QED
  BY <1>1, JobInvAlways, PTL

\* While a report is on its way, neither the handler nor the heartbeat shell of
\* its execution runs.
THEOREM QuietReports == Spec => []QuietBeforeReport
<1>1. JobInv => QuietBeforeReport
  BY DEF JobInv, Positions, Unreported, QuietBeforeReport
<1>2. QED
  BY <1>1, JobInvAlways, PTL

\* The execution that parked its job reports nothing.
THEOREM ParkedIsSilent == Spec => []ParkedReportsNothing
<1>1. JobInv => ParkedReportsNothing
  BY DEF JobInv, Positions, ParkedReportsNothing
<1>2. QED
  BY <1>1, JobInvAlways, PTL

\* The outcome an execution delivers never changes once delivery has begun.
THEOREM ReportNeverChanges == Spec => ReportIsFinal
<1>1. JobInv /\ [Next]_vars => (report # NoReport => report' = report)
  <2> SUFFICES ASSUME JobInv, [Next]_vars, report # NoReport PROVE report' = report
    OBVIOUS
  <2>1. pc \notin Unreported
    BY DEF JobInv, Positions
  <2>2. QED
    BY <2>1 DEF Next, DispatchStep, BeatReturns, RefuseAssignment, StartHandler, ObserveHandler,
      ShellStopped, Finish, EngineTakesReport, DeliveryAcknowledged, AttemptFails, RetryDelivery,
      DeliveryDropped, HandlerEnds, HandlerSwallowsCancel, HandlerBeats, JobParks, DeadlinePasses,
      ShellWakes, BeatAnswered, BeatMissed, Drain, LeaseExpires, CancelJob, Ended, Unreported,
      vars, reportVars
<1>2. QED
  BY <1>1, JobInvAlways, PTL DEF Spec, ReportIsFinal

-----------------------------------------------------------------------------
(* The contract.                                                           *)

\* The initial state is the contract's.
LEMMA ContractInit == Init => Contract!Init
  BY DEF Init, Contract!Init

\* A step of the engine or of the execution is a step of the contract or leaves
\* the contract alone.
LEMMA ContractStep == JobInv /\ [Next]_vars => [Contract!Next]_(Contract!vars)
<1> SUFFICES ASSUME JobInv, [Next]_vars PROVE [Contract!Next]_(Contract!vars)
  OBVIOUS
<1> USE DEF Contract!vars, Contract!Next
<1>1. CASE StartHandler
  BY <1>1 DEF StartHandler, Contract!Start, JobInv, Positions, engineVars
<1>2. ASSUME NEW how \in HandlerEndings, HandlerEnds(how) PROVE Contract!End
  BY <1>2 DEF HandlerEnds, HandlerEndings, Contract!End, engineVars
<1>3. CASE JobParks
  BY <1>3 DEF JobParks, Contract!Close, handlerVars
<1>4. CASE EngineTakesReport
  <2>1. UNCHANGED handler
    BY <1>4 DEF EngineTakesReport, handlerVars
  <2>2. report # NoReport /\ handler # "running"
    BY <1>4 DEF EngineTakesReport, JobInv, Positions, Unreported
  <2>3. CASE record # "open"
    BY <1>4, <2>1, <2>3 DEF EngineTakesReport
  <2>4. CASE record = "open" /\ report.verb = "Complete"
    BY <1>4, <2>1, <2>4 DEF EngineTakesReport, Contract!Close, JobInv, Positions
  <2>5. CASE record = "open" /\ report.verb # "Complete"
    BY <1>4, <2>1, <2>2, <2>5 DEF EngineTakesReport, Contract!Close
  <2>6. QED
    BY <2>3, <2>4, <2>5
<1>5. CASE LeaseExpires
  BY <1>5 DEF LeaseExpires, Contract!Close, handlerVars
<1>6. CASE UNCHANGED <<handler, record>>
  BY <1>6
<1>7. \/ StartHandler \/ (\E how \in HandlerEndings : HandlerEnds(how)) \/ JobParks
      \/ EngineTakesReport \/ LeaseExpires \/ UNCHANGED <<handler, record>>
  BY DEF Next, DispatchStep, BeatReturns, RefuseAssignment, ObserveHandler, ShellStopped,
    Finish,
    DeliveryAcknowledged, AttemptFails, RetryDelivery, DeliveryDropped, HandlerSwallowsCancel,
    HandlerBeats, DeadlinePasses, ShellWakes, BeatAnswered, BeatMissed, Drain, CancelJob, Ended,
    vars, handlerVars, engineVars
<1>8. QED
  BY <1>1, <1>2, <1>3, <1>4, <1>5, <1>6, <1>7

\* One execution implements the lease contract: its record is closed at most
\* once, as completed only after the handler returned, as failed only when no
\* handler runs.
THEOREM ExecutionKeepsContract == Spec => KeepsContract
<1>1. QED
  BY ContractInit, ContractStep, JobInvAlways, PTL DEF Spec, KeepsContract, Contract!Spec

=============================================================================
