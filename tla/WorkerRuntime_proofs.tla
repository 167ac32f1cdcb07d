------------------------ MODULE WorkerRuntime_proofs ------------------------
(***************************************************************************)
(* What TLAPS proves of WorkerRuntime, for any finite set of assignments   *)
(* and any number of slots.                                                *)
(***************************************************************************)
EXTENDS WorkerRuntime, FiniteSetTheorems, TLAPS

\* What Worker.__init__ sets up is well typed.
LEMMA TypeInit == Init => TypeOK
<1> USE RuntimeAssumption DEF TypeOK
<1> SUFFICES ASSUME Init PROVE TypeOK
  OBVIOUS
<1>1. free \in 0..Slots /\ announced \in [free : 0..Slots, gpu : BOOLEAN]
  BY DEF Init
<1>2. /\ delivery \in [Jobs -> Deliveries]
      /\ dispatch \in [Jobs -> DispatchPhases]
      /\ helper \in [Jobs -> HelperPhases]
  BY DEF Init, Deliveries, DispatchPhases, HelperPhases, WaiterPhases
<1>3. phase \in Phases /\ generator \in Generators /\ probe \in {"off", "probing", "sleeping"}
  BY DEF Init, Phases, ClaimPhases, Generators
<1>4. QED
  BY <1>1, <1>2, <1>3 DEF Init

\* Every step of the worker keeps its variables typed.
LEMMA TypeStep ==
    ASSUME TypeOK, [Next]_vars
    PROVE  TypeOK'
<1> USE RuntimeAssumption DEF TypeOK, slotVars, taskVars, gateVars, streamVars, loopVars
<1>0. TypeOK /\ [Next]_vars
  OBVIOUS
<1>1. CASE ClaimLoopStep
  <2>1. CASE OpenStream \/ AfterStream \/ AuthExit \/ DrainReturns \/ CloseWorker
    BY <1>0, <2>1 DEF OpenStream, AfterStream, AuthExit, DrainReturns, CloseWorker, Phases,
       ClaimPhases, Generators
  <2>2. CASE StopExit
    BY <1>0, <2>2 DEF StopExit, LoseUnread, Deliveries, Phases, ClaimPhases, Generators
  <2>3. CASE BeginDrain
    BY <1>0, <2>3 DEF BeginDrain, Running, Phases, ClaimPhases
  <2>4. QED
    BY <1>1, <2>1, <2>2, <2>3 DEF ClaimLoopStep
<1>2. CASE GeneratorStep \/ AnnounceHeartbeat
  <2>1. CASE AnnounceChange \/ AnnounceHeartbeat
    <3>1. AnnounceFreeSlots \in 0..Slots
      BY <1>0 DEF AnnounceFreeSlots
    <3>2. QED
      BY <1>0, <2>1, <3>1 DEF AnnounceHeartbeat, AnnounceChange, Announce, Generators
  <2>2. CASE RequestWritten \/ GeneratorEnds
    BY <1>0, <2>2 DEF RequestWritten, GeneratorEnds, Generators
  <2>3. QED
    BY <1>2, <2>1, <2>2 DEF GeneratorStep
<1>3. ASSUME NEW how \in {"clean", "dropped", "authFailed"}, StreamEnds(how)
      PROVE  TypeOK'
  BY <1>0, <1>3 DEF StreamEnds, LoseUnread, Deliveries, Phases, ClaimPhases, Generators
<1>4. ASSUME NEW j \in Jobs, EngineAssigns(j) \/ ReadWhileStopped(j)
      PROVE  TypeOK'
  BY <1>0, <1>4 DEF EngineAssigns, ReadWhileStopped, LoseUnread, Deliveries, Phases,
     ClaimPhases, Generators
<1>5. ASSUME NEW j \in Jobs, HandleAssignment(j)
      PROVE  TypeOK'
  <2>1. free' \in 0..Slots /\ slotAvailable' \in BOOLEAN
    BY <1>0, <1>5 DEF HandleAssignment, AcquireSlot
  <2>2. /\ delivery' \in [Jobs -> Deliveries]
        /\ dispatch' \in [Jobs -> DispatchPhases]
        /\ helper' \in [Jobs -> HelperPhases]
    BY <1>0, <1>5 DEF HandleAssignment, AcquireSlot, Deliveries, DispatchPhases,
       HelperPhases, WaiterPhases
  <2>3. QED
    BY <1>0, <1>5, <2>1, <2>2 DEF HandleAssignment, AcquireSlot
<1>6. ASSUME NEW j \in Jobs, HelperStep(j)
      PROVE  TypeOK'
  <2>1. CASE WaiterTurn(j)
    <3>1. free' \in 0..Slots
      BY <1>0, <2>1 DEF WaiterTurn, AcquireSlot
    <3>2. dispatch' \in [Jobs -> DispatchPhases] /\ helper' \in [Jobs -> HelperPhases]
      BY <1>0, <2>1 DEF WaiterTurn, AcquireSlot, DispatchPhases, HelperPhases, WaiterPhases
    <3>3. slotAvailable' \in BOOLEAN /\ slotChanged' \in BOOLEAN /\ pendingSlotWaiter' \in BOOLEAN
      BY <1>0, <2>1 DEF WaiterTurn, AcquireSlot
    <3>4. QED
      BY <1>0, <2>1, <3>1, <3>2, <3>3 DEF WaiterTurn
  <2>2. CASE WaiterTimeout(j)
    BY <1>0, <2>2 DEF WaiterTimeout, HelperPhases, WaiterPhases
  <2>3. CASE HelperDone(j)
    BY <1>0, <2>3 DEF HelperDone, HelperPhases
  <2>4. CASE RejectReturns(j)
    <3>1. failedBack' \in SUBSET Jobs /\ pendingSlotWaiter' \in BOOLEAN
      BY <1>0, <2>4 DEF RejectReturns
    <3>2. helper' \in [Jobs -> HelperPhases]
      BY <1>0, <2>4 DEF RejectReturns, HelperPhases
    <3>3. QED
      BY <1>0, <2>4, <3>1, <3>2 DEF RejectReturns
  <2>5. QED
    BY <1>6, <2>1, <2>2, <2>3, <2>4 DEF HelperStep
<1>7. ASSUME NEW j \in Jobs, DispatchEnds(j) \/ DispatchDone(j)
      PROVE  TypeOK'
  <2>1. CASE DispatchEnds(j)
    BY <1>0, <2>1 DEF DispatchEnds, DispatchPhases
  <2>2. CASE DispatchDone(j)
    <3>1. free' \in 0..Slots
      BY <1>0, <2>2 DEF DispatchDone
    <3>a. slotAvailable' \in BOOLEAN
      BY <1>0, <2>2 DEF DispatchDone
    <3>2. dispatch' \in [Jobs -> DispatchPhases] /\ helper' \in [Jobs -> HelperPhases]
      BY <1>0, <2>2 DEF DispatchDone, Awaken, DispatchPhases, HelperPhases, WaiterPhases
    <3>3. QED
      BY <1>0, <2>2, <3>1, <3>a, <3>2 DEF DispatchDone
  <2>3. QED
    BY <1>7, <2>1, <2>2
<1>8. ASSUME NEW ok \in BOOLEAN, ProbeReturns(ok)
      PROVE  TypeOK'
  BY <1>0, <1>8 DEF ProbeReturns
<1>9. CASE ProbeAgain \/ OpenGpuCircuit
  BY <1>0, <1>9 DEF ProbeAgain, OpenGpuCircuit
<1>10. CASE Stop
  <2>1. free' \in 0..Slots
    BY <1>0, <1>10 DEF Stop
  <2>2. helper' \in [Jobs -> HelperPhases]
    BY <1>0, <1>10 DEF Stop, Awaken, HelperPhases, WaiterPhases
  <2>3. QED
    BY <1>0, <1>10, <2>1, <2>2 DEF Stop
<1>11. CASE DrainTimeout
  BY <1>0, <1>11 DEF DrainTimeout, DispatchPhases, HelperPhases, WaiterPhases, Phases
<1>12. CASE Closed \/ UNCHANGED vars
  BY <1>0, <1>12 DEF Closed, vars
<1>13. QED
  BY <1>0, <1>1, <1>2, <1>3, <1>4, <1>5, <1>6, <1>7, <1>8, <1>9, <1>10, <1>11, <1>12
     DEF Next

\* The variables keep their types: in particular the free-slot counter and the
\* capacity announced to the engine never leave 0..Slots.
THEOREM TypeCorrect == Spec => []TypeOK
BY TypeInit, TypeStep, PTL DEF Spec

-----------------------------------------------------------------------------
(* Slot accounting. The counter alone does not say why an acquisition takes *)
(* a slot for a task that did not hold one: TaskDiscipline does.            *)

\* A task exists only for an assignment that was taken, and the helper task
\* of an assignment is still at work only while no dispatch task exists.
TaskDiscipline ==
    \A j \in Jobs :
        /\ delivery[j] # "taken" => dispatch[j] = "none" /\ helper[j] = "none"
        /\ helper[j] \in WaiterPhases \cup {"rejecting"} => dispatch[j] = "none"

SlotInv == TypeOK /\ TaskDiscipline /\ SlotsConserved /\ NeverOvercommitted

\* There are finitely many assignments, so slot owners can be counted.
LEMMA OwnersFinite ==
    IsFiniteSet(SlotOwners) /\ Cardinality(SlotOwners) \in Nat
<1>1. SlotOwners \subseteq Jobs
  BY DEF SlotOwners
<1>2. QED
  BY <1>1, RuntimeAssumption, FS_Subset, FS_CardinalityType

\* Acquiring a slot for a job without a dispatch task keeps the books.
LEMMA AcquireKeepsBooks ==
    ASSUME TypeOK, SlotsConserved, NEW j \in Jobs, dispatch[j] = "none", AcquireSlot(j),
           UNCHANGED accepting
    PROVE  SlotsConserved' /\ NeverOvercommitted'
<1>1. SlotOwners' = SlotOwners \cup {j} /\ j \notin SlotOwners
  BY DEF TypeOK, AcquireSlot, SlotOwners
<1>2. Cardinality(SlotOwners') = Cardinality(SlotOwners) + 1
  BY <1>1, OwnersFinite, FS_AddElement
<1>3. QED
  BY <1>2, OwnersFinite, RuntimeAssumption DEF TypeOK, AcquireSlot, SlotsConserved,
     NeverOvercommitted

\* A step that leaves the dispatch tasks and the counter alone keeps them too.
LEMMA SameOwnersKeepBooks ==
    ASSUME SlotsConserved, NeverOvercommitted, SlotOwners' = SlotOwners,
           UNCHANGED free \/ ~accepting', accepting' => accepting
    PROVE  SlotsConserved' /\ NeverOvercommitted'
BY DEF SlotsConserved, NeverOvercommitted

\* Boot starts with every slot free and nobody owning one.
LEMMA SlotInvInit == Init => SlotInv
<1> SUFFICES ASSUME Init PROVE SlotInv
  OBVIOUS
<1>1. TaskDiscipline
  BY DEF Init, TaskDiscipline, WaiterPhases
<1>2. SlotOwners = {}
  BY DEF Init, SlotOwners
<1>3. SlotsConserved /\ NeverOvercommitted
  BY <1>2, FS_EmptySet, RuntimeAssumption DEF Init, SlotsConserved, NeverOvercommitted
<1>4. QED
  BY <1>1, <1>3, TypeInit DEF SlotInv

\* Every step keeps the slot accounts: acquiring and releasing pair up.
LEMMA SlotInvStep ==
    ASSUME SlotInv, [Next]_vars
    PROVE  SlotInv'
<1> USE DEF slotVars, taskVars, gateVars, streamVars, loopVars
<1>0. TypeOK /\ TaskDiscipline /\ SlotsConserved /\ NeverOvercommitted /\ TypeOK'
  BY TypeStep DEF SlotInv
<1>a. SUFFICES TaskDiscipline' /\ SlotsConserved' /\ NeverOvercommitted'
  BY <1>0 DEF SlotInv
<1>1. CASE ClaimLoopStep
  <2>1. UNCHANGED <<dispatch, helper, free, accepting>>
    BY <1>1 DEF ClaimLoopStep, OpenStream, AfterStream, AuthExit, StopExit, BeginDrain,
       DrainReturns, CloseWorker
  <2>2. \A j \in Jobs : delivery'[j] = "taken" <=> delivery[j] = "taken"
    BY <1>0, <1>1 DEF ClaimLoopStep, OpenStream, AfterStream, AuthExit, StopExit, BeginDrain,
       DrainReturns, CloseWorker, LoseUnread
  <2>3. QED
    BY <1>0, <2>1, <2>2, SameOwnersKeepBooks DEF TaskDiscipline, SlotOwners
<1>2. CASE GeneratorStep \/ AnnounceHeartbeat
  <2>1. UNCHANGED <<delivery, dispatch, helper, free, accepting>>
    BY <1>2 DEF GeneratorStep, AnnounceHeartbeat, AnnounceChange, Announce, RequestWritten,
       GeneratorEnds
  <2>2. QED
    BY <1>0, <2>1, SameOwnersKeepBooks DEF TaskDiscipline, SlotOwners
<1>3. ASSUME NEW how \in {"clean", "dropped", "authFailed"}, StreamEnds(how)
      PROVE  TaskDiscipline' /\ SlotsConserved' /\ NeverOvercommitted'
  <2>1. UNCHANGED <<dispatch, helper, free, accepting>>
    BY <1>3 DEF StreamEnds
  <2>2. \A j \in Jobs : delivery'[j] = "taken" <=> delivery[j] = "taken"
    BY <1>0, <1>3 DEF StreamEnds, LoseUnread
  <2>3. QED
    BY <1>0, <2>1, <2>2, SameOwnersKeepBooks DEF TaskDiscipline, SlotOwners
<1>4. ASSUME NEW j \in Jobs, EngineAssigns(j) \/ ReadWhileStopped(j)
      PROVE  TaskDiscipline' /\ SlotsConserved' /\ NeverOvercommitted'
  <2>1. UNCHANGED <<dispatch, helper, free, accepting>>
    BY <1>4 DEF EngineAssigns, ReadWhileStopped
  <2>2. \A k \in Jobs : delivery'[k] = "taken" <=> delivery[k] = "taken"
    BY <1>0, <1>4 DEF EngineAssigns, ReadWhileStopped, LoseUnread, TypeOK
  <2>3. QED
    BY <1>0, <2>1, <2>2, SameOwnersKeepBooks DEF TaskDiscipline, SlotOwners
<1>5. ASSUME NEW j \in Jobs, HandleAssignment(j)
      PROVE  TaskDiscipline' /\ SlotsConserved' /\ NeverOvercommitted'
  <2>1. dispatch[j] = "none" /\ helper[j] = "none" /\ UNCHANGED accepting
    BY <1>0, <1>5 DEF HandleAssignment, TaskDiscipline
  <2>2. delivery' = [delivery EXCEPT ![j] = "taken"]
    BY <1>5 DEF HandleAssignment
  <2>3. CASE AcquireSlot(j) /\ UNCHANGED helper
    BY <1>0, <2>1, <2>2, <2>3, AcquireKeepsBooks DEF AcquireSlot, TaskDiscipline, TypeOK, WaiterPhases
  <2>4. CASE UNCHANGED <<free, dispatch>> /\ \E h : helper' = [helper EXCEPT ![j] = h]
    BY <1>0, <2>1, <2>2, <2>4, SameOwnersKeepBooks DEF TaskDiscipline, TypeOK, SlotOwners
  <2>5. QED
    BY <1>5, <2>3, <2>4 DEF HandleAssignment
<1>6. ASSUME NEW j \in Jobs, HelperStep(j)
      PROVE  TaskDiscipline' /\ SlotsConserved' /\ NeverOvercommitted'
  <2>1. /\ helper[j] # "none"
        /\ UNCHANGED <<accepting, delivery>>
        /\ \E h : helper' = [helper EXCEPT ![j] = h]
    BY <1>6 DEF HelperStep, WaiterTurn, WaiterTimeout, RejectReturns, HelperDone
  <2>2. delivery[j] = "taken"
    BY <1>0, <2>1 DEF TaskDiscipline
  <2>3. CASE AcquireSlot(j) /\ helper[j] \in WaiterPhases /\ helper' = [helper EXCEPT ![j] = "finished"]
    <3>1. dispatch[j] = "none"
      BY <1>0, <2>3 DEF TaskDiscipline
    <3>2. TaskDiscipline'
      BY <1>0, <2>1, <2>2, <2>3, <3>1 DEF TaskDiscipline, TypeOK, AcquireSlot, WaiterPhases
    <3>3. QED
      BY <1>0, <2>1, <2>3, <3>1, <3>2, AcquireKeepsBooks
  <2>4. CASE /\ UNCHANGED <<free, dispatch>>
             /\ helper[j] \in WaiterPhases \cup {"rejecting"} \/ helper'[j] \in {"finished", "gone"}
    BY <1>0, <2>1, <2>2, <2>4, SameOwnersKeepBooks DEF TaskDiscipline, TypeOK, SlotOwners, WaiterPhases
  <2>5. QED
    BY <1>0, <1>6, <2>3, <2>4 DEF HelperStep, WaiterTurn, WaiterTimeout, RejectReturns, HelperDone,
       WaiterPhases, TypeOK
<1>7. ASSUME NEW j \in Jobs, DispatchEnds(j) \/ DispatchDone(j)
      PROVE  TaskDiscipline' /\ SlotsConserved' /\ NeverOvercommitted'
  <2>1. CASE DispatchEnds(j)
    <3>1. SlotOwners' = SlotOwners
      BY <1>0, <2>1 DEF DispatchEnds, SlotOwners, TypeOK
    <3>2. TaskDiscipline'
      BY <1>0, <2>1 DEF DispatchEnds, TaskDiscipline, TypeOK
    <3>3. QED
      BY <1>0, <2>1, <3>1, <3>2, SameOwnersKeepBooks DEF DispatchEnds
  <2>2. CASE DispatchDone(j)
    <3>1. TaskDiscipline'
      BY <1>0, <2>2 DEF DispatchDone, TaskDiscipline, TypeOK, Awaken, WaiterPhases
    <3>2. SlotOwners' = SlotOwners \ {j} /\ j \in SlotOwners
      BY <1>0, <2>2 DEF DispatchDone, SlotOwners, TypeOK
    <3>3. Cardinality(SlotOwners') = Cardinality(SlotOwners) - 1
      BY <3>2, OwnersFinite, FS_RemoveElement
    <3>4. NeverOvercommitted'
      BY <1>0, <3>3, OwnersFinite, RuntimeAssumption DEF NeverOvercommitted
    <3>5. SlotsConserved'
      <4>1. CASE ~accepting
        BY <2>2, <4>1 DEF DispatchDone, SlotsConserved
      <4>2. CASE accepting
        <5>1. Cardinality(SlotOwners) >= 1
          BY <3>2, OwnersFinite, FS_EmptySet, FS_CardinalityType
        <5>2. free' = free + 1
          BY <1>0, <2>2, <4>2, <5>1, OwnersFinite, RuntimeAssumption
             DEF DispatchDone, SlotsConserved, TypeOK
        <5>3. QED
          BY <1>0, <4>2, <5>2, <3>3, OwnersFinite, RuntimeAssumption
             DEF SlotsConserved, TypeOK
      <4>3. QED
        BY <4>1, <4>2
    <3>6. QED
      BY <3>1, <3>4, <3>5
  <2>3. QED
    BY <1>7, <2>1, <2>2
<1>8. ASSUME NEW ok \in BOOLEAN, ProbeReturns(ok)
      PROVE  TaskDiscipline' /\ SlotsConserved' /\ NeverOvercommitted'
  BY <1>0, <1>8, SameOwnersKeepBooks DEF ProbeReturns, TaskDiscipline, SlotOwners
<1>9. CASE ProbeAgain \/ OpenGpuCircuit
  BY <1>0, <1>9, SameOwnersKeepBooks DEF ProbeAgain, OpenGpuCircuit, TaskDiscipline, SlotOwners
<1>10. CASE Stop
  <2>1. TaskDiscipline'
    BY <1>0, <1>10 DEF Stop, Awaken, TaskDiscipline, WaiterPhases, TypeOK
  <2>2. QED
    BY <1>0, <1>10, <2>1, SameOwnersKeepBooks DEF Stop, SlotOwners
<1>11. CASE DrainTimeout
  <2>1. TaskDiscipline'
    BY <1>0, <1>11 DEF DrainTimeout, TaskDiscipline, WaiterPhases, TypeOK
  <2>2. SlotOwners' = SlotOwners
    BY <1>0, <1>11 DEF DrainTimeout, SlotOwners, TypeOK
  <2>3. QED
    BY <1>0, <1>11, <2>1, <2>2, SameOwnersKeepBooks DEF DrainTimeout
<1>12. CASE Closed \/ UNCHANGED vars
  BY <1>0, <1>12, SameOwnersKeepBooks DEF Closed, vars, TaskDiscipline, SlotOwners
<1>13. QED
  BY <1>1, <1>2, <1>3, <1>4, <1>5, <1>6, <1>7, <1>8, <1>9, <1>10, <1>11, <1>12 DEF Next

\* The slot accounts balance in every reachable state.
LEMMA SlotInvariant == Spec => []SlotInv
BY SlotInvInit, SlotInvStep, PTL DEF Spec

\* Slots are conserved while the worker accepts: whatever the order of starts,
\* hand-offs, rejections and done-callbacks, none leaks or is released twice.
THEOREM SlotsAlwaysConserved == Spec => []SlotsConserved
<1>1. SlotInv => SlotsConserved
  BY DEF SlotInv
<1>2. QED
  BY <1>1, SlotInvariant, PTL

\* The dispatch tasks never outnumber the slots, while draining too.
THEOREM CapacityRespected == Spec => []NeverOvercommitted
<1>1. SlotInv => NeverOvercommitted
  BY DEF SlotInv
<1>2. QED
  BY <1>1, SlotInvariant, PTL

-----------------------------------------------------------------------------
(* The hand-off event. It is cleared and set by different tasks; what makes *)
(* a blocked waiter safe is that the event never lies about the counter.    *)

WakeInv == AvailabilityHonest /\ WaiterNotStranded /\ (stopped <=> ~accepting)

\* Nobody waits for a slot at boot.
LEMMA WakeInvInit == Init => WakeInv
BY RuntimeAssumption DEF Init, WakeInv, AvailabilityHonest, WaiterNotStranded

\* Every step keeps the availability event and its sleepers consistent.
LEMMA WakeInvStep ==
    ASSUME TypeOK, WakeInv, [Next]_vars
    PROVE  WakeInv'
<1> USE DEF slotVars, taskVars, gateVars, streamVars, loopVars
<1>0. TypeOK /\ WakeInv /\ TypeOK'
  BY TypeStep
<1>1. CASE UNCHANGED <<accepting, free, slotAvailable, stopped, helper>>
  BY <1>0, <1>1 DEF WakeInv, AvailabilityHonest, WaiterNotStranded
<1>2. ASSUME NEW j \in Jobs, HandleAssignment(j)
      PROVE  WakeInv'
  <2>1. CASE AcquireSlot(j) /\ UNCHANGED helper
    BY <1>0, <1>2, <2>1 DEF HandleAssignment, AcquireSlot, WakeInv, AvailabilityHonest,
       WaiterNotStranded, TypeOK
  <2>2. CASE UNCHANGED <<free, slotAvailable>> /\ \E h \in {"ready", "rejecting"} : helper' = [helper EXCEPT ![j] = h]
    BY <1>0, <1>2, <2>2 DEF HandleAssignment, WakeInv, AvailabilityHonest, WaiterNotStranded,
       TypeOK
  <2>3. QED
    BY <1>2, <2>1, <2>2 DEF HandleAssignment
<1>3. ASSUME NEW j \in Jobs, HelperStep(j)
      PROVE  WakeInv'
  <2>1. UNCHANGED <<accepting, stopped>>
    BY <1>3 DEF HelperStep, WaiterTurn, WaiterTimeout, RejectReturns, HelperDone
  <2>2. CASE AcquireSlot(j) /\ helper' = [helper EXCEPT ![j] = "finished"]
    BY <1>0, <2>1, <2>2 DEF AcquireSlot, WakeInv, AvailabilityHonest, WaiterNotStranded, TypeOK
  <2>3. CASE /\ UNCHANGED <<free, slotAvailable>>
             /\ \E h \in HelperPhases \ {"blocked"} : helper' = [helper EXCEPT ![j] = h]
    BY <1>0, <2>1, <2>3 DEF WakeInv, AvailabilityHonest, WaiterNotStranded, TypeOK
  <2>4. CASE /\ accepting /\ free <= 0 /\ free' = free /\ slotAvailable' = FALSE
             /\ \E h \in HelperPhases : helper' = [helper EXCEPT ![j] = h]
    BY <1>0, <2>1, <2>4, RuntimeAssumption
       DEF WakeInv, AvailabilityHonest, WaiterNotStranded, TypeOK
  <2>5. QED
    BY <1>3, <2>2, <2>3, <2>4 DEF HelperStep, WaiterTurn, WaiterTimeout, RejectReturns,
       HelperDone, HelperPhases, WaiterPhases
<1>4. ASSUME NEW j \in Jobs, DispatchDone(j)
      PROVE  WakeInv'
  <2>1. CASE accepting
    <3>1. free' > 0 /\ slotAvailable' /\ accepting' /\ ~stopped'
      BY <1>0, <1>4, <2>1, RuntimeAssumption DEF DispatchDone, WakeInv, TypeOK
    <3>2. \A k \in Jobs : helper'[k] # "blocked"
      BY <1>0, <1>4, <2>1 DEF DispatchDone, Awaken, TypeOK
    <3>3. QED
      BY <3>1, <3>2 DEF WakeInv, AvailabilityHonest, WaiterNotStranded
  <2>2. CASE ~accepting
    BY <1>0, <1>4, <2>2 DEF DispatchDone, WakeInv, AvailabilityHonest, WaiterNotStranded
  <2>3. QED
    BY <2>1, <2>2
<1>5. CASE Stop
  BY <1>0, <1>5 DEF Stop, Awaken, WakeInv, AvailabilityHonest, WaiterNotStranded, TypeOK
<1>6. CASE DrainTimeout
  BY <1>0, <1>6 DEF DrainTimeout, WakeInv, AvailabilityHonest, WaiterNotStranded, TypeOK
<1>7. CASE \/ ClaimLoopStep \/ GeneratorStep \/ AnnounceHeartbeat \/ ProbeAgain
           \/ OpenGpuCircuit \/ Closed \/ UNCHANGED vars
  BY <1>1, <1>7 DEF ClaimLoopStep, OpenStream, AfterStream, AuthExit, StopExit, BeginDrain,
     DrainReturns, CloseWorker, GeneratorStep, AnnounceHeartbeat, AnnounceChange, Announce,
     RequestWritten, GeneratorEnds, ProbeAgain, OpenGpuCircuit, Closed, vars
<1>8. ASSUME NEW how \in {"clean", "dropped", "authFailed"}, StreamEnds(how)
      PROVE  WakeInv'
  BY <1>1, <1>8 DEF StreamEnds
<1>9. ASSUME NEW j \in Jobs, EngineAssigns(j) \/ ReadWhileStopped(j) \/ DispatchEnds(j)
      PROVE  WakeInv'
  BY <1>1, <1>9 DEF EngineAssigns, ReadWhileStopped, DispatchEnds
<1>10. ASSUME NEW ok \in BOOLEAN, ProbeReturns(ok)
       PROVE  WakeInv'
  BY <1>1, <1>10 DEF ProbeReturns
<1>11. QED
  BY <1>2, <1>3, <1>4, <1>5, <1>6, <1>7, <1>8, <1>9, <1>10 DEF Next

\* The availability event is never clear over a sleeper that could go on.
LEMMA WakeInvariant == Spec => []WakeInv
BY TypeInit, TypeStep, WakeInvInit, WakeInvStep, PTL DEF Spec

\* No lost wake-up: a waiter blocked on the hand-off event has no free slot to
\* take and no stop to notice, however starts, releases and clears interleave.
THEOREM WaitersNeverStranded == Spec => []WaiterNotStranded
<1>1. WakeInv => WaiterNotStranded
  BY DEF WakeInv
<1>2. QED
  BY <1>1, WakeInvariant, PTL

-----------------------------------------------------------------------------
(* The worker implements the ledger. The mapping reads three task phases    *)
(* and the set of delivered rejections; AnswerFinal is what makes an answer *)
(* final: once failed back, an assignment has no way to a dispatch task.    *)

AnswerFinal ==
    \A j \in failedBack : helper[j] \in {"finished", "gone"} /\ dispatch[j] = "none"

LedgerInv == SlotInv /\ WakeInv /\ AnswerFinal

\* No assignment has any task at boot.
LEMMA LedgerInvInit == Init => LedgerInv
BY SlotInvInit, WakeInvInit DEF LedgerInv, AnswerFinal, Init

\* Every step keeps each assignment with one task, and delivery in agreement with it.
LEMMA LedgerInvStep ==
    ASSUME LedgerInv, [Next]_vars
    PROVE  LedgerInv'
<1> USE DEF slotVars, taskVars, gateVars, streamVars, loopVars
<1>0. SlotInv /\ WakeInv /\ AnswerFinal /\ TypeOK /\ TaskDiscipline /\ SlotInv' /\ WakeInv'
  BY SlotInvStep, WakeInvStep DEF LedgerInv, SlotInv
<1>a. SUFFICES AnswerFinal'
  BY <1>0 DEF LedgerInv
<1>1. CASE UNCHANGED <<failedBack, helper, dispatch>>
  BY <1>0, <1>1 DEF AnswerFinal
<1>2. ASSUME NEW j \in Jobs, HandleAssignment(j)
      PROVE  AnswerFinal'
  <2>1. helper[j] = "none" /\ j \notin failedBack /\ UNCHANGED failedBack
    BY <1>0, <1>2 DEF HandleAssignment, TaskDiscipline, AnswerFinal
  <2>2. \A k \in Jobs \ {j} : helper'[k] = helper[k] /\ dispatch'[k] = dispatch[k]
    BY <1>0, <1>2 DEF HandleAssignment, AcquireSlot, TypeOK
  <2>3. QED
    BY <1>0, <2>1, <2>2 DEF AnswerFinal, TypeOK
<1>3. ASSUME NEW j \in Jobs, HelperStep(j)
      PROVE  AnswerFinal'
  <2>1. \A k \in Jobs \ {j} : helper'[k] = helper[k] /\ dispatch'[k] = dispatch[k]
    BY <1>0, <1>3 DEF HelperStep, WaiterTurn, WaiterTimeout, RejectReturns, HelperDone,
       AcquireSlot, TypeOK
  <2>2. CASE RejectReturns(j)
    <3>1. helper'[j] = "finished" /\ dispatch'[j] = "none"
      BY <1>0, <2>2 DEF RejectReturns, TaskDiscipline, WaiterPhases, TypeOK
    <3>2. failedBack' \subseteq failedBack \cup {j}
      BY <2>2 DEF RejectReturns
    <3>3. QED
      BY <1>0, <2>1, <3>1, <3>2 DEF AnswerFinal, TypeOK
  <2>3. CASE WaiterTurn(j) \/ WaiterTimeout(j)
    <3>1. j \notin failedBack /\ UNCHANGED failedBack
      BY <1>0, <2>3 DEF WaiterTurn, WaiterTimeout, AnswerFinal
    <3>2. QED
      BY <1>0, <2>1, <3>1 DEF AnswerFinal, TypeOK
  <2>4. CASE HelperDone(j)
    BY <1>0, <2>4 DEF HelperDone, AnswerFinal, TypeOK
  <2>5. QED
    BY <1>3, <2>2, <2>3, <2>4 DEF HelperStep
<1>4. ASSUME NEW j \in Jobs, DispatchEnds(j) \/ DispatchDone(j)
      PROVE  AnswerFinal'
  BY <1>0, <1>4 DEF DispatchEnds, DispatchDone, Awaken, AnswerFinal, TypeOK
<1>5. CASE Stop
  BY <1>0, <1>5 DEF Stop, Awaken, AnswerFinal, TypeOK
<1>6. CASE DrainTimeout
  BY <1>0, <1>6 DEF DrainTimeout, AnswerFinal, TypeOK, WaiterPhases
<1>7. CASE \/ ClaimLoopStep \/ GeneratorStep \/ AnnounceHeartbeat \/ ProbeAgain
           \/ OpenGpuCircuit \/ Closed \/ UNCHANGED vars
  BY <1>1, <1>7 DEF ClaimLoopStep, OpenStream, AfterStream, AuthExit, StopExit, BeginDrain,
     DrainReturns, CloseWorker, GeneratorStep, AnnounceHeartbeat, AnnounceChange, Announce,
     RequestWritten, GeneratorEnds, ProbeAgain, OpenGpuCircuit, Closed, vars
<1>8. ASSUME NEW how \in {"clean", "dropped", "authFailed"}, StreamEnds(how)
      PROVE  AnswerFinal'
  BY <1>1, <1>8 DEF StreamEnds
<1>9. ASSUME NEW j \in Jobs, EngineAssigns(j) \/ ReadWhileStopped(j)
      PROVE  AnswerFinal'
  BY <1>1, <1>9 DEF EngineAssigns, ReadWhileStopped
<1>10. ASSUME NEW ok \in BOOLEAN, ProbeReturns(ok)
       PROVE  AnswerFinal'
  BY <1>1, <1>10 DEF ProbeReturns
<1>11. QED
  BY <1>2, <1>3, <1>4, <1>5, <1>6, <1>7, <1>8, <1>9, <1>10 DEF Next

\* Cardinality as the ledger's instance sees it.
LEMMA LedgerCounts == ASSUME NEW S PROVE Ledger!Cardinality(S) = Cardinality(S)
BY DEF Ledger!Cardinality, Cardinality

\* The assignments the ledger sees running are the ones that own a slot.
LEMMA OwnersAreRunning ==
    ASSUME LedgerInv
    PROVE  Ledger!RunningJobs = SlotOwners
BY DEF Ledger!RunningJobs, AssignmentStatus, StatusOf, SlotOwners, LedgerInv, AnswerFinal

\* A step that changes at most the status of one assignment.
LEMMA OneStatusMoves ==
    ASSUME NEW j \in Jobs, \A k \in Jobs \ {j} : StatusOf(k)' = StatusOf(k)
    PROVE  AssignmentStatus' = [AssignmentStatus EXCEPT ![j] = StatusOf(j)']
BY DEF AssignmentStatus

\* Assignments that leave "offered" together are abandoned in one ledger step.
LEMMA SomeAbandoned ==
    ASSUME UNCHANGED accepting,
           \A j \in Jobs : \/ StatusOf(j)' = StatusOf(j)
                           \/ StatusOf(j) = "offered" /\ StatusOf(j)' = "abandoned"
    PROVE  Ledger!Abandon \/ AssignmentStatus' = AssignmentStatus
<1> DEFINE gone == {j \in Jobs : StatusOf(j) = "offered" /\ StatusOf(j)' = "abandoned"}
<1>1. AssignmentStatus' = [j \in Jobs |-> IF j \in gone THEN "abandoned" ELSE AssignmentStatus[j]]
  BY DEF AssignmentStatus
<1>2. gone \in SUBSET {j \in Jobs : AssignmentStatus[j] = "offered"}
  BY DEF AssignmentStatus
<1>3. CASE gone = {}
  BY <1>3 DEF AssignmentStatus
<1>4. CASE gone # {}
  BY <1>1, <1>2, <1>4 DEF Ledger!Abandon
<1>5. QED
  BY <1>3, <1>4

\* Every step of the worker is a step of the assignment ledger or stutters.
LEMMA LedgerStep ==
    ASSUME LedgerInv, [Next]_vars
    PROVE  [Ledger!Next]_(Ledger!ledgerVars)
<1> USE DEF slotVars, taskVars, gateVars, streamVars, loopVars
<1>0. /\ TypeOK /\ TaskDiscipline /\ SlotsConserved /\ AnswerFinal
      /\ stopped <=> ~accepting
  BY DEF LedgerInv, SlotInv, WakeInv
<1>a. SUFFICES Ledger!Next \/ (UNCHANGED accepting /\ AssignmentStatus' = AssignmentStatus)
  BY DEF Ledger!ledgerVars
<1>1. CASE UNCHANGED <<accepting, delivery, dispatch, helper, failedBack>>
  BY <1>1 DEF AssignmentStatus, StatusOf, SlotOwners
<1>2. CASE LoseUnread /\ UNCHANGED <<accepting, dispatch, helper, failedBack>>
  <2>1. \A j \in Jobs : \/ StatusOf(j)' = StatusOf(j)
                        \/ StatusOf(j) = "offered" /\ StatusOf(j)' = "abandoned"
    BY <1>0, <1>2 DEF LoseUnread, StatusOf, SlotOwners, TaskDiscipline, AnswerFinal, TypeOK
  <2>2. QED
    BY <1>2, <2>1, SomeAbandoned DEF Ledger!Next
<1>3. ASSUME NEW j \in Jobs, EngineAssigns(j)
      PROVE  Ledger!Next
  <2>1. StatusOf(j) = "idle" /\ StatusOf(j)' = "offered"
    BY <1>0, <1>3 DEF EngineAssigns, StatusOf, SlotOwners, TaskDiscipline, AnswerFinal, TypeOK
  <2>2. \A k \in Jobs \ {j} : StatusOf(k)' = StatusOf(k)
    BY <1>0, <1>3 DEF EngineAssigns, StatusOf, SlotOwners, TypeOK
  <2>3. Ledger!Offer(j)
    BY <1>3, <2>1, <2>2, OneStatusMoves
       DEF EngineAssigns, Ledger!Offer, Ledger!Move, AssignmentStatus
  <2>4. QED
    BY <2>3 DEF Ledger!Next
<1>4. ASSUME NEW j \in Jobs, AcquireSlot(j), UNCHANGED <<accepting, failedBack>>,
             StatusOf(j) = "offered", dispatch[j] = "none",
             \A k \in Jobs \ {j} : delivery'[k] = delivery[k] /\ helper'[k] = helper[k]
      PROVE  Ledger!Next
  <2>1. StatusOf(j)' = "running"
    BY <1>0, <1>4 DEF AcquireSlot, StatusOf, SlotOwners, TypeOK
  <2>2. \A k \in Jobs \ {j} : StatusOf(k)' = StatusOf(k)
    BY <1>0, <1>4 DEF AcquireSlot, StatusOf, SlotOwners, TypeOK
  <2>3. Cardinality(Ledger!RunningJobs) < Slots
    BY <1>0, <1>4, OwnersAreRunning, OwnersFinite, RuntimeAssumption
       DEF AcquireSlot, SlotsConserved, TypeOK
  <2>4. Ledger!Move(j, "offered", "running")
    BY <1>4, <2>1, <2>2, OneStatusMoves DEF Ledger!Move, AssignmentStatus
  <2>a. Ledger!Start(j)
    BY <1>4, <2>3, <2>4, LedgerCounts DEF AcquireSlot, Ledger!Start
  <2>5. QED
    BY <2>a DEF Ledger!Next
<1>5. ASSUME NEW j \in Jobs, HandleAssignment(j)
      PROVE  Ledger!Next \/ (UNCHANGED accepting /\ AssignmentStatus' = AssignmentStatus)
  <2>1. StatusOf(j) = "offered" /\ dispatch[j] = "none" /\ helper[j] = "none" /\ j \notin failedBack
    BY <1>0, <1>5 DEF HandleAssignment, StatusOf, SlotOwners, TaskDiscipline, AnswerFinal
  <2>2. CASE AcquireSlot(j) /\ UNCHANGED helper
    BY <1>0, <1>4, <1>5, <2>1, <2>2 DEF HandleAssignment, TypeOK
  <2>3. CASE UNCHANGED dispatch /\ \E h \in {"ready", "rejecting"} : helper' = [helper EXCEPT ![j] = h]
    <3>1. \A k \in Jobs : StatusOf(k)' = StatusOf(k)
      BY <1>0, <1>5, <2>1, <2>3 DEF HandleAssignment, StatusOf, SlotOwners, TypeOK
    <3>2. QED
      BY <1>5, <3>1 DEF HandleAssignment, AssignmentStatus
  <2>4. QED
    BY <1>5, <2>2, <2>3 DEF HandleAssignment
<1>6. ASSUME NEW j \in Jobs, HelperStep(j)
      PROVE  Ledger!Next \/ (UNCHANGED accepting /\ AssignmentStatus' = AssignmentStatus)
  <2>1. delivery[j] = "taken"
    BY <1>0, <1>6 DEF HelperStep, WaiterTurn, WaiterTimeout, RejectReturns, HelperDone,
       TaskDiscipline
  <2>2. CASE HelperDone(j)
    <3>1. \A k \in Jobs : StatusOf(k)' = StatusOf(k)
      BY <1>0, <2>1, <2>2 DEF HelperDone, StatusOf, SlotOwners, TypeOK
    <3>2. QED
      BY <2>2, <3>1 DEF HelperDone, AssignmentStatus
  <2>3. CASE ~HelperDone(j)
    <3>1. helper[j] \in WaiterPhases \cup {"rejecting"}
      BY <1>6, <2>3 DEF HelperStep, WaiterTurn, WaiterTimeout, RejectReturns, WaiterPhases
    <3>2. dispatch[j] = "none" /\ StatusOf(j) = "offered" /\ j \notin failedBack
      BY <1>0, <2>1, <3>1 DEF TaskDiscipline, AnswerFinal, StatusOf, SlotOwners, WaiterPhases
    <3>3. CASE RejectReturns(j)
      <4>1. StatusOf(j)' \in {"rejected", "abandoned"}
        BY <1>0, <2>1, <3>2, <3>3 DEF RejectReturns, StatusOf, SlotOwners, TypeOK
      <4>2. \A k \in Jobs \ {j} : StatusOf(k)' = StatusOf(k)
        BY <1>0, <3>3 DEF RejectReturns, StatusOf, SlotOwners, TypeOK
      <4>3. CASE StatusOf(j)' = "abandoned"
        BY <3>2, <3>3, <4>2, <4>3, SomeAbandoned DEF RejectReturns, Ledger!Next
      <4>4. CASE StatusOf(j)' = "rejected"
        <5>1. Ledger!Reject(j)
          BY <3>2, <3>3, <4>2, <4>4, OneStatusMoves
             DEF RejectReturns, Ledger!Reject, Ledger!Move, AssignmentStatus
        <5>2. QED
          BY <5>1 DEF Ledger!Next
      <4>5. QED
        BY <4>1, <4>3, <4>4
    <3>4. CASE (WaiterTurn(j) \/ WaiterTimeout(j)) /\ UNCHANGED dispatch
      <4>1. \A k \in Jobs : StatusOf(k)' = StatusOf(k)
        BY <1>0, <2>1, <3>2, <3>4 DEF WaiterTurn, WaiterTimeout, AcquireSlot, StatusOf, SlotOwners, TypeOK
      <4>2. QED
        BY <3>4, <4>1 DEF WaiterTurn, WaiterTimeout, AssignmentStatus
    <3>5. CASE WaiterTurn(j) /\ AcquireSlot(j)
      <4>1. /\ UNCHANGED <<accepting, failedBack>>
            /\ \A k \in Jobs \ {j} : delivery'[k] = delivery[k] /\ helper'[k] = helper[k]
        BY <1>0, <3>5 DEF WaiterTurn, TypeOK
      <4>2. QED
        BY <1>4, <3>2, <3>5, <4>1
    <3>6. QED
      BY <1>6, <2>3, <3>3, <3>4, <3>5 DEF HelperStep, WaiterTurn, WaiterTimeout
  <2>4. QED
    BY <2>2, <2>3
<1>7. ASSUME NEW j \in Jobs, DispatchEnds(j)
      PROVE  UNCHANGED accepting /\ AssignmentStatus' = AssignmentStatus
  <2>1. \A k \in Jobs : StatusOf(k)' = StatusOf(k)
    BY <1>0, <1>7 DEF DispatchEnds, StatusOf, SlotOwners, TypeOK
  <2>2. QED
    BY <1>7, <2>1 DEF DispatchEnds, AssignmentStatus
<1>8. ASSUME NEW j \in Jobs, DispatchDone(j)
      PROVE  Ledger!Next
  <2>1. StatusOf(j) = "running" /\ StatusOf(j)' = "done"
    BY <1>0, <1>8 DEF DispatchDone, StatusOf, SlotOwners, AnswerFinal, TypeOK
  <2>2. \A k \in Jobs \ {j} : StatusOf(k)' = StatusOf(k)
    BY <1>0, <1>8 DEF DispatchDone, Awaken, StatusOf, SlotOwners, TypeOK
  <2>3. Ledger!Finish(j)
    BY <1>8, <2>1, <2>2, OneStatusMoves
       DEF DispatchDone, Ledger!Finish, Ledger!Move, AssignmentStatus
  <2>4. QED
    BY <2>3 DEF Ledger!Next
<1>9. CASE Stop
  <2>1. \A k \in Jobs : StatusOf(k)' = StatusOf(k)
    BY <1>0, <1>9 DEF Stop, Awaken, StatusOf, SlotOwners, TypeOK
  <2>2. Ledger!Close
    BY <1>0, <1>9, <2>1 DEF Stop, Ledger!Close, AssignmentStatus
  <2>3. QED
    BY <2>2 DEF Ledger!Next
<1>10. CASE DrainTimeout
  <2>1. \A j \in Jobs : \/ StatusOf(j)' = StatusOf(j)
                        \/ StatusOf(j) = "offered" /\ StatusOf(j)' = "abandoned"
    BY <1>0, <1>10 DEF DrainTimeout, StatusOf, SlotOwners, TaskDiscipline, AnswerFinal,
       WaiterPhases, TypeOK
  <2>2. QED
    BY <1>10, <2>1, SomeAbandoned DEF DrainTimeout, Ledger!Next
<1>11. CASE \/ ClaimLoopStep \/ GeneratorStep \/ AnnounceHeartbeat \/ ProbeAgain
            \/ OpenGpuCircuit \/ Closed \/ UNCHANGED vars
  BY <1>1, <1>2, <1>11 DEF ClaimLoopStep, OpenStream, AfterStream, AuthExit, StopExit,
     BeginDrain, DrainReturns, CloseWorker, GeneratorStep, AnnounceHeartbeat, AnnounceChange,
     Announce, RequestWritten, GeneratorEnds, ProbeAgain, OpenGpuCircuit, Closed, vars
<1>12. ASSUME NEW how \in {"clean", "dropped", "authFailed"}, StreamEnds(how)
       PROVE  Ledger!Next \/ (UNCHANGED accepting /\ AssignmentStatus' = AssignmentStatus)
  BY <1>2, <1>12 DEF StreamEnds
<1>13. ASSUME NEW j \in Jobs, ReadWhileStopped(j)
       PROVE  Ledger!Next \/ (UNCHANGED accepting /\ AssignmentStatus' = AssignmentStatus)
  BY <1>2, <1>13 DEF ReadWhileStopped
<1>14. ASSUME NEW ok \in BOOLEAN, ProbeReturns(ok)
       PROVE  Ledger!Next \/ (UNCHANGED accepting /\ AssignmentStatus' = AssignmentStatus)
  BY <1>1, <1>14 DEF ProbeReturns
<1>15. QED
  BY <1>3, <1>5, <1>6, <1>7, <1>8, <1>9, <1>10, <1>11, <1>12, <1>13, <1>14 DEF Next

\* At boot the ledger has every assignment unseen.
LEMMA LedgerInitial == Init => Ledger!Init
BY DEF Init, Ledger!Init, AssignmentStatus, StatusOf, SlotOwners

\* The worker implements the assignment ledger for every set of assignments
\* and every number of slots: at most Slots run, none starts once draining, and
\* an assignment rejected or abandoned never runs.
THEOREM WorkerKeepsLedger == Spec => KeepsLedger
<1>1. Spec => []LedgerInv
  BY LedgerInvInit, LedgerInvStep, PTL DEF Spec
<1>2. LedgerInv /\ [Next]_vars => [Ledger!Next]_(Ledger!ledgerVars)
  BY LedgerStep
<1>3. QED
  BY <1>1, <1>2, LedgerInitial, PTL DEF Spec, KeepsLedger, Ledger!Spec

-----------------------------------------------------------------------------
(* Drain. _drain looks at _running once; after a stop nothing can join the  *)
(* set any more, so what it gathered is all there is.                       *)

DrainInv ==
    /\ exitCause = "none" <=> phase \in ClaimPhases
    /\ exitCause = "stop" => stopped
    /\ exitCause = "stop" /\ phase \in {"draining", "cancelling"} => Running \subseteq snapshot
    /\ GracefulDrainEmpties

\* A task that ends while no other changes can only shrink _running.
LEMMA RunningShrinks ==
    ASSUME TypeOK, WakeInv, [Next]_vars, stopped, phase \notin ClaimPhases
    PROVE  Running' \subseteq Running
<1> USE DEF slotVars, taskVars, gateVars, streamVars, loopVars
<1>0. TypeOK /\ ~accepting
  BY DEF WakeInv
<1>a. SUFFICES ASSUME NEW k \in Jobs
               PROVE  /\ dispatch[k] \in {"none", "gone"} => dispatch'[k] \in {"none", "gone"}
                      /\ helper[k] \in {"none", "gone"} => helper'[k] \in {"none", "gone"}
  BY <1>a DEF Running, Tasks
<1>1. CASE UNCHANGED <<dispatch, helper>>
  BY <1>1
<1>2. ASSUME NEW j \in Jobs, HelperStep(j)
      PROVE  /\ dispatch[k] \in {"none", "gone"} => dispatch'[k] \in {"none", "gone"}
             /\ helper[k] \in {"none", "gone"} => helper'[k] \in {"none", "gone"}
  BY <1>0, <1>2 DEF HelperStep, WaiterTurn, WaiterTimeout, RejectReturns, HelperDone,
     AcquireSlot, TypeOK
<1>3. ASSUME NEW j \in Jobs, DispatchEnds(j) \/ DispatchDone(j)
      PROVE  /\ dispatch[k] \in {"none", "gone"} => dispatch'[k] \in {"none", "gone"}
             /\ helper[k] \in {"none", "gone"} => helper'[k] \in {"none", "gone"}
  BY <1>0, <1>3 DEF DispatchEnds, DispatchDone, TypeOK
<1>4. CASE DrainTimeout
  BY <1>0, <1>4 DEF DrainTimeout, WaiterPhases, TypeOK
<1>5. CASE \/ ClaimLoopStep \/ GeneratorStep \/ AnnounceHeartbeat \/ ProbeAgain
           \/ OpenGpuCircuit \/ Closed \/ UNCHANGED vars
  BY <1>1, <1>5 DEF ClaimLoopStep, OpenStream, AfterStream, AuthExit, StopExit, BeginDrain,
     DrainReturns, CloseWorker, GeneratorStep, AnnounceHeartbeat, AnnounceChange, Announce,
     RequestWritten, GeneratorEnds, ProbeAgain, OpenGpuCircuit, Closed, vars
<1>6. ASSUME NEW ok \in BOOLEAN, ProbeReturns(ok)
      PROVE  UNCHANGED <<dispatch, helper>>
  BY <1>6 DEF ProbeReturns
<1>7. QED
  BY <1>1, <1>2, <1>3, <1>4, <1>5, <1>6
     DEF Next, Stop, StreamEnds, EngineAssigns, ReadWhileStopped, HandleAssignment, ClaimPhases

\* Every step keeps the drain of a stopped worker ahead of _running.
LEMMA DrainInvStep ==
    ASSUME TypeOK, WakeInv, DrainInv, [Next]_vars
    PROVE  DrainInv'
<1> USE DEF slotVars, taskVars, gateVars, streamVars, loopVars
<1>0. TypeOK /\ WakeInv /\ DrainInv
  OBVIOUS
<1>1. CASE UNCHANGED <<phase, exitCause, snapshot>> /\ (stopped => stopped')
  <2>1. exitCause = "stop" /\ phase \notin ClaimPhases => Running' \subseteq Running
    BY <1>0, RunningShrinks DEF DrainInv
  <2>2. QED
    BY <1>0, <1>1, <2>1 DEF DrainInv, GracefulDrainEmpties, ClaimPhases
<1>2. CASE ClaimLoopStep
  <2>1. UNCHANGED <<dispatch, helper, stopped>>
    BY <1>2 DEF ClaimLoopStep, OpenStream, AfterStream, AuthExit, StopExit, BeginDrain,
       DrainReturns, CloseWorker
  <2>2. Running' = Running
    BY <2>1 DEF Running
  <2>3. CASE OpenStream \/ AfterStream \/ AuthExit \/ StopExit
    BY <1>0, <2>1, <2>3 DEF OpenStream, AfterStream, AuthExit, StopExit, DrainInv,
       GracefulDrainEmpties, ClaimPhases
  <2>4. CASE BeginDrain
    BY <1>0, <2>1, <2>2, <2>4 DEF BeginDrain, DrainInv, GracefulDrainEmpties, ClaimPhases
  <2>5. CASE DrainReturns \/ CloseWorker
    BY <1>0, <2>1, <2>2, <2>5 DEF DrainReturns, CloseWorker, DrainInv, GracefulDrainEmpties,
       ClaimPhases
  <2>6. QED
    BY <1>2, <2>3, <2>4, <2>5 DEF ClaimLoopStep
<1>3. ASSUME NEW how \in {"clean", "dropped", "authFailed"}, StreamEnds(how)
      PROVE  DrainInv'
  BY <1>0, <1>3 DEF StreamEnds, DrainInv, GracefulDrainEmpties, ClaimPhases
<1>4. ASSUME NEW j \in Jobs, ReadWhileStopped(j)
      PROVE  DrainInv'
  BY <1>0, <1>4 DEF ReadWhileStopped, DrainInv, GracefulDrainEmpties, ClaimPhases
<1>5. CASE DrainTimeout
  <2>1. exitCause = "stop" => Running' \subseteq Running
    BY <1>0, <1>5, RunningShrinks DEF DrainInv, DrainTimeout, ClaimPhases
  <2>2. QED
    BY <1>0, <1>5, <2>1 DEF DrainTimeout, DrainInv, GracefulDrainEmpties, ClaimPhases
<1>6. ASSUME NEW j \in Jobs, EngineAssigns(j) \/ HandleAssignment(j) \/ HelperStep(j)
                             \/ DispatchEnds(j) \/ DispatchDone(j)
      PROVE  DrainInv'
  BY <1>1, <1>6 DEF EngineAssigns, HandleAssignment, HelperStep, WaiterTurn, WaiterTimeout,
     RejectReturns, HelperDone, DispatchEnds, DispatchDone
<1>7. CASE GeneratorStep \/ AnnounceHeartbeat \/ ProbeAgain \/ OpenGpuCircuit \/ Stop
           \/ Closed \/ UNCHANGED vars
  BY <1>1, <1>7 DEF GeneratorStep, AnnounceHeartbeat, AnnounceChange, Announce,
     RequestWritten, GeneratorEnds, ProbeAgain, OpenGpuCircuit, Stop, Closed, vars
<1>8. ASSUME NEW ok \in BOOLEAN, ProbeReturns(ok)
      PROVE  DrainInv'
  BY <1>1, <1>8 DEF ProbeReturns
<1>9. QED
  BY <1>2, <1>3, <1>4, <1>5, <1>6, <1>7, <1>8 DEF Next

\* After SIGTERM the single snapshot _drain takes of _running is enough: when
\* it returns, deadline or not, no dispatch, waiter or rejecter task is left.
THEOREM GracefulDrainComplete == Spec => []GracefulDrainEmpties
<1>1. Init => DrainInv
  BY DEF Init, DrainInv, GracefulDrainEmpties, ClaimPhases
<1>2. DrainInv => GracefulDrainEmpties
  BY DEF DrainInv
<1>3. QED
  BY <1>1, <1>2, TypeCorrect, WakeInvariant, DrainInvStep, PTL DEF Spec
=============================================================================
