------------------------- MODULE BoxOperationProofs -------------------------
(***************************************************************************)
(* Proofs about BoxOperation, for any sets of boxes, operations and types: *)
(* its type invariant, and, when the workflow component's own calls do not *)
(* fail, that a running workflow holds its box's lock and that the rows    *)
(* implement BoxLock.  Last, what BoxLock promises: that a box has at most *)
(* one holder, that statuses and holders agree, and that a deleted box     *)
(* stays deleted; with the implementation that is so of the real rows.     *)
(***************************************************************************)
EXTENDS BoxOperation, TLAPS

(* What the catalogue's table owes the lock: a running status is transient, an
   outcome is a resting status, and an operation whose outcome writes nothing
   had moved the box nowhere. *)
LEMMA CatalogueOutcomes ==
  ASSUME NEW t \in BoxOperationTypes
  PROVE  /\ During(t) \in DuringStatuses \cup {NoStatus}
         /\ OnFailure(t) \in RestingStatuses \cup {NoStatus}
         /\ OnSuccess(t) \in RestingStatuses \cup {NoStatus}
         /\ OnFailure(t) = NoStatus => During(t) = NoStatus
         /\ OnSuccess(t) = NoStatus => During(t) = NoStatus
  BY DEF BoxOperationTypes, During, OnFailure, OnSuccess, DuringStatuses,
         RestingStatuses, NoStatus

(* Transient, resting and null statuses are told apart. *)
LEMMA StatusesDisjoint ==
  /\ DuringStatuses \cap RestingStatuses = {}
  /\ NoStatus \notin BoxStatuses
  /\ Absent \notin BoxStatuses
  /\ NoStatus # Absent
  BY DEF DuringStatuses, RestingStatuses, BoxStatuses, NoStatus, Absent

(* The rows and the workflows exist together, only a row is cancelled, and only
   a workflow that is over has overturned its success. *)
Rows ==
  \A o \in Ops :
    /\ opStatus[o] # "none" => opBox[o] \in Boxes /\ opType[o] \in OpTypes
    /\ workflow[o] = "none" <=> opStatus[o] = "none"
    /\ cancel[o] # "idle" => opStatus[o] # "none"
    /\ o \in overturned => opStatus[o] = "failed" /\ pc[o] = "done"

TypeInv == TypeOK /\ Rows

(* Writing a status, or none, leaves statuses. *)
LEMMA MovedType ==
  ASSUME NEW s \in BoxStatuses \cup {Absent}, NEW t \in BoxOperationTypes
  PROVE  /\ Moved(s, During(t)) \in BoxStatuses \cup {Absent}
         /\ Moved(s, OnSuccess(t)) \in BoxStatuses \cup {Absent}
         /\ Moved(s, OnFailure(t)) \in BoxStatuses \cup {Absent}
  BY CatalogueOutcomes DEF Moved, BoxStatuses

(* Recording a failure is well typed for any existing operation. *)
LEMMA FailureType ==
  ASSUME TypeInv, NEW o \in Ops, opStatus[o] # "none", RecordFailure(o)
  PROVE  /\ status' \in [Boxes -> BoxStatuses \cup {Absent}]
         /\ opStatus' \in [Ops -> {"none", "pending", "running", "succeeded", "failed"}]
         /\ opStatus' = [opStatus EXCEPT ![o] = "failed"]
         /\ overturned' \in {overturned, overturned \cup {o}}
         /\ UNCHANGED <<opBox, opType>>
<1>1. opBox[o] \in Boxes /\ opType[o] \in BoxOperationTypes
  BY OpTypesAssumption DEF TypeInv, Rows
<1>2. Moved(status[opBox[o]], OnFailure(opType[o])) \in BoxStatuses \cup {Absent}
  BY <1>1, MovedType DEF TypeInv, TypeOK
<1> QED BY <1>1, <1>2 DEF RecordFailure, TypeInv, TypeOK

(* What the guarded recorder can do to the rows. *)
LEMMA FailIfActiveType ==
  ASSUME TypeInv, NEW o \in Ops, FailIfActive(o)
  PROVE  /\ status' \in [Boxes -> BoxStatuses \cup {Absent}]
         /\ opStatus' \in [Ops -> {"none", "pending", "running", "succeeded", "failed"}]
         /\ UNCHANGED <<opBox, opType, overturned>>
         /\ \A p \in Ops : opStatus'[p] = "none" <=> opStatus[p] = "none"
         /\ \A p \in Ops : opStatus[p] = "failed" => opStatus'[p] = "failed"
<1>1. CASE Active(o)
  <2>1. opStatus[o] # "none" /\ RecordFailure(o)
    BY <1>1 DEF Active, ActiveStatuses, FailIfActive
  <2>2. overturned' = overturned
    BY <1>1, <2>1 DEF Active, ActiveStatuses, RecordFailure
  <2> QED BY <2>1, <2>2, FailureType DEF TypeInv, TypeOK
<1>2. CASE ~Active(o)
  BY <1>2 DEF FailIfActive, opVars, TypeInv, TypeOK
<1> QED BY <1>1, <1>2

(* Starting an operation leaves every state typed. *)
LEMMA StartType ==
  ASSUME TypeInv, NEW o \in Ops, Start(o)
  PROVE  TypeInv'
<1>1. ASSUME NEW b \in Boxes, NEW t \in OpTypes, InsertOperation(b, o, t)
      PROVE  TypeInv'
  <2>1. Moved(status[b], During(t)) \in BoxStatuses \cup {Absent}
    BY OpTypesAssumption, MovedType DEF TypeInv, TypeOK
  <2> QED BY <1>1, <2>1 DEF InsertOperation, TypeInv, TypeOK, Rows, rescueVars, Ended
<1> QED BY <1>1 DEF Start, CreateBox, StartOperation

(* So does every step of a workflow ... *)
LEMMA WorkflowType ==
  ASSUME TypeInv, NEW o \in Ops, Workflow(o)
  PROVE  TypeInv'
<1> USE DEF TypeInv, TypeOK, Rows, rescueVars, opVars, At
<1>1. CASE MarkOperationRunning(o)
  BY <1>1 DEF MarkOperationRunning
<1>2. CASE BodyActs(o)
  BY <1>2 DEF BodyActs
<1>3. CASE ActionReturns(o)
  BY <1>3 DEF ActionReturns
<1>4. CASE BodySucceeds(o)
  <2>1. opBox[o] \in Boxes /\ opType[o] \in BoxOperationTypes
    BY <1>4, OpTypesAssumption DEF BodySucceeds
  <2>2. Moved(status[opBox[o]], OnSuccess(opType[o])) \in BoxStatuses \cup {Absent}
    BY <2>1, MovedType
  <2>3. pc' \in [Ops -> {"start", "body", "supersede", "catch", "settle", "done"}]
    BY <1>4 DEF BodySucceeds, AfterSuccess
  <2> QED BY <1>4, <2>1, <2>2, <2>3 DEF BodySucceeds
<1>5. CASE SnapshotReturns(o)
  BY <1>5 DEF SnapshotReturns
<1>6. CASE BodyThrows(o)
  BY <1>6 DEF BodyThrows
<1>7. CASE MarkOperationFailed(o)
  <2>1. opStatus[o] # "none" /\ RecordFailure(o)
    BY <1>7 DEF MarkOperationFailed
  <2> QED BY <1>7, <2>1, FailureType DEF MarkOperationFailed, EndWorkflow, Ended
<1>8. CASE SettleOperation(o)
  BY <1>8 DEF SettleOperation, EndWorkflow, Ended, Active, ActiveStatuses
<1>9. CASE WorkflowDies(o)
  BY <1>9 DEF WorkflowDies, EndWorkflow, Ended
<1>10. CASE Supersede(o)
  BY <1>10 DEF Supersede
<1> QED BY <1>1, <1>2, <1>3, <1>4, <1>5, <1>6, <1>7, <1>8, <1>9, <1>10 DEF Workflow

(* ... of the callback, the sweep and the cancellation. *)
LEMMA RescueType ==
  ASSUME TypeInv, NEW o \in Ops, Rescue(o)
  PROVE  TypeInv'
<1> USE DEF TypeInv, TypeOK, Rows, wfVars, opVars, rescueVars
<1>1. CASE FinishBoxOperation(o)
  BY <1>1, FailIfActiveType DEF FinishBoxOperation
<1>2. CASE LoseCallback(o)
  BY <1>2 DEF LoseCallback
<1>3. CASE ForgetWorkflow(o)
  BY <1>3 DEF ForgetWorkflow, Ended
<1>4. CASE SweepJudges(o)
  BY <1>4 DEF SweepJudges
<1>5. CASE SweepFails(o)
  BY <1>5, FailIfActiveType DEF SweepFails
<1>6. CASE SweepGivesUp(o)
  BY <1>6 DEF SweepGivesUp
<1>7. CASE CancelReads(o)
  BY <1>7 DEF CancelReads, Active, ActiveStatuses
<1>8. CASE CancelStopsWorkflow(o)
  BY <1>8 DEF CancelStopsWorkflow, EndWorkflow, Ended
<1>9. CASE CancelRecords(o)
  BY <1>9, FailIfActiveType DEF CancelRecords
<1>10. CASE CancelDies(o)
  BY <1>10 DEF CancelDies
<1> QED BY <1>1, <1>2, <1>3, <1>4, <1>5, <1>6, <1>7, <1>8, <1>9, <1>10 DEF Rescue

(* So does every step. *)
LEMMA TypeStep == TypeInv /\ [Next]_vars => TypeInv'
<1> SUFFICES ASSUME TypeInv, [Next]_vars PROVE TypeInv'
  OBVIOUS
<1>1. CASE SweepLists
  BY <1>1 DEF SweepLists, TypeInv, TypeOK, Rows, wfVars, opVars
<1>2. CASE UNCHANGED vars
  BY <1>2 DEF vars, TypeInv, TypeOK, Rows, wfVars, opVars, rescueVars
<1> QED BY <1>1, <1>2, StartType, WorkflowType, RescueType DEF Next

(* The typing always holds. *)
LEMMA TypeInvariant == Spec => []TypeInv
<1>1. Init => TypeInv
  BY DEF Init, TypeInv, TypeOK, Rows, BoxStatuses
<1> QED BY <1>1, TypeStep, PTL DEF Spec

(* Every reachable state is well typed: no status outside the vocabulary is
   ever written to a row, in particular never the catalogue's null. *)
THEOREM TypeCorrect == Spec => []TypeOK
BY TypeInvariant, PTL DEF TypeInv
-----------------------------------------------------------------------------
(* The inductive invariant of the lock.  WorkflowHoldsLock is not inductive: a
   rescue that has already made up its mind - the component owing its callback,
   a sweep that judged an operation orphaned, a cancellation past its first call -
   would fail the operation under a working body unless it is known to have seen
   the workflow ended, which is what RescuersSawTheEnd adds. *)
RescuersSawTheEnd ==
  \A o \in Ops :
    callback[o] \/ sweep[o] = "orphan" \/ cancel[o] = "stopped" => workflow[o] \in Ended

ClosedEarly(o) == opStatus[o] = "succeeded" /\ opType[o] \in Superseding

(* A workflow's row is open until its terminal mutation; in the catch it is
   open, or closed by a body that threw after it. *)
OwnsRow(o) ==
  /\ opStatus[o] = "none" => pc[o] = "start"
  /\ At(o, "start") \/ At(o, "body") => Active(o)
  /\ At(o, "supersede") => ClosedEarly(o)
  /\ At(o, "catch") => Active(o) \/ ClosedEarly(o)
  /\ ~At(o, "done")
  /\ At(o, "settle") /\ Active(o) => opType[o] = "snapshot"

WorkflowOwnsRow == \A o \in Ops : OwnsRow(o)

OneActive ==
  \A o, p \in Ops : Active(o) /\ Active(p) /\ opBox[o] = opBox[p] => o = p

ActiveBoxExists == \A o \in Ops : Active(o) => status[opBox[o]] # Absent

LockInv ==
  TypeInv /\ RescuersSawTheEnd /\ WorkflowOwnsRow /\ OneActive /\ ActiveBoxExists

(* Whatever an operation writes, its box goes on existing. *)
LEMMA MovedExists ==
  ASSUME NEW s \in BoxStatuses, NEW t \in BoxOperationTypes
  PROVE  /\ Moved(s, During(t)) # Absent
         /\ Moved(s, OnSuccess(t)) # Absent
         /\ Moved(s, OnFailure(t)) # Absent
  BY CatalogueOutcomes, StatusesDisjoint DEF Moved, BoxStatuses

(* Closing an operation, whatever closes it, leaves one active operation per
   box and every box it touches in existence. *)
LEMMA CloseKeepsOwnership ==
  ASSUME LockInv, TypeInv', NEW o \in Ops, Active(o),
         NEW outcome \in {"succeeded", "failed"},
         NEW target \in {OnSuccess(opType[o]), OnFailure(opType[o]), NoStatus},
         opStatus' = [opStatus EXCEPT ![o] = outcome],
         status' = [status EXCEPT ![opBox[o]] = Moved(@, target)],
         UNCHANGED <<opBox, opType>>
  PROVE  OneActive' /\ ActiveBoxExists'
<1> USE DEF LockInv, TypeInv, TypeOK
<1>1. opBox[o] \in Boxes /\ opType[o] \in BoxOperationTypes
  BY OpTypesAssumption DEF Rows, Active, ActiveStatuses
<1>2. \A p \in Ops : Active(p)' => p # o /\ Active(p) /\ opBox[p] # opBox[o]
  BY DEF Active, ActiveStatuses, OneActive
<1>3. OneActive'
  BY <1>2 DEF OneActive
<1>4. \A p \in Ops : Active(p)' => status'[opBox'[p]] = status[opBox[p]]
  BY <1>1, <1>2
<1>5. ActiveBoxExists'
  BY <1>2, <1>4 DEF ActiveBoxExists
<1> QED BY <1>3, <1>5

(* The guarded recorder, run by a rescuer that saw the workflow end *)
LEMMA RescueKeepsOwnership ==
  ASSUME LockInv, TypeInv', NEW o \in Ops, workflow[o] \in Ended, FailIfActive(o),
         UNCHANGED <<workflow, pc>>
  PROVE  WorkflowOwnsRow' /\ OneActive' /\ ActiveBoxExists'
<1>1. CASE Active(o)
  <2>1. RecordFailure(o)
    BY <1>1 DEF FailIfActive
  <2>2. OneActive' /\ ActiveBoxExists'
    BY <1>1, <2>1, CloseKeepsOwnership DEF RecordFailure
  <2>3. WorkflowOwnsRow'
    <3> SUFFICES ASSUME NEW p \in Ops
                 PROVE  OwnsRow(p)'
      BY DEF WorkflowOwnsRow, OwnsRow, ClosedEarly
    <3>1. CASE p = o
      BY <2>1, <3>1 DEF RecordFailure, LockInv, TypeInv, TypeOK, Ended, At, OwnsRow
    <3>2. CASE p # o
      BY <2>1, <3>2 DEF RecordFailure, LockInv, TypeInv, TypeOK, WorkflowOwnsRow, OwnsRow,
                        ClosedEarly, At, Active
    <3> QED BY <3>1, <3>2
  <2> QED BY <2>2, <2>3
<1>2. CASE ~Active(o)
  BY <1>2 DEF FailIfActive, opVars, LockInv, WorkflowOwnsRow, OwnsRow, ClosedEarly, OneActive, ActiveBoxExists, Active, At
<1> QED BY <1>1, <1>2

(* A success overturned, which opens nothing and leaves the box some status *)
LEMMA OverturnKeepsOwnership ==
  ASSUME LockInv, TypeInv', NEW o \in Ops, opStatus[o] = "succeeded", RecordFailure(o)
  PROVE  OneActive' /\ ActiveBoxExists'
<1> USE DEF LockInv, TypeInv, TypeOK, RecordFailure
<1>1. opBox[o] \in Boxes /\ opType[o] \in BoxOperationTypes
  BY OpTypesAssumption DEF Rows
<1>2. \A p \in Ops : Active(p)' => Active(p) /\ opBox[p] \in Boxes
  BY DEF Active, ActiveStatuses, Rows
<1>3. OneActive'
  BY <1>2 DEF OneActive
<1>4. ASSUME NEW p \in Ops, Active(p)'
      PROVE  status'[opBox'[p]] # Absent
  <2>1. status[opBox[p]] \in BoxStatuses
    BY <1>2, <1>4 DEF ActiveBoxExists
  <2>2. CASE opBox[p] = opBox[o]
    BY <1>1, <2>1, <2>2, MovedExists
  <2>3. CASE opBox[p] # opBox[o]
    BY <1>1, <1>2, <1>4, <2>1, <2>3, StatusesDisjoint
  <2> QED BY <2>2, <2>3
<1> QED BY <1>3, <1>4 DEF ActiveBoxExists

(* A new operation finds no other active one. *)
LEMMA StartKeepsLock ==
  ASSUME LockInv, TypeInv', NEW o \in Ops, Start(o)
  PROVE  LockInv'
<1> USE DEF LockInv, TypeInv, TypeOK, rescueVars
<1>1. ASSUME NEW b \in Boxes, NEW t \in OpTypes, InsertOperation(b, o, t), ~Busy(b),
             Moved(status[b], During(t)) # Absent
      PROVE  LockInv'
  <2> USE <1>1 DEF InsertOperation
  <2>1. \A p \in Ops : Active(p)' =>
          p = o \/ (Active(p) /\ opBox'[p] = opBox[p] /\ opBox[p] # b)
    BY DEF Active, Busy
  <2>2. OneActive'
    BY <2>1 DEF OneActive
  <2>3. ActiveBoxExists'
    BY <2>1 DEF ActiveBoxExists
  <2>4. RescuersSawTheEnd'
    BY DEF RescuersSawTheEnd, Rows, Ended
  <2>5. WorkflowOwnsRow'
    BY DEF WorkflowOwnsRow, OwnsRow, ClosedEarly, At, Active, ActiveStatuses
  <2> QED BY <2>2, <2>3, <2>4, <2>5
<1>2. ASSUME NEW b \in Boxes, CreateBox(b, o)
      PROVE  LockInv'
  <2>1. ~Busy(b)
    BY <1>2 DEF CreateBox, Busy, ActiveBoxExists
  <2>2. Moved(status[b], During("create")) # Absent
    BY DEF Moved, During, NoStatus, Absent
  <2> QED BY <1>1, <1>2, <2>1, <2>2 DEF CreateBox
<1>3. ASSUME NEW b \in Boxes, NEW t \in OpTypes, StartOperation(b, o, t)
      PROVE  LockInv'
  <2>1. Moved(status[b], During(t)) # Absent
    BY <1>3, OpTypesAssumption, MovedExists DEF StartOperation
  <2> QED BY <1>1, <1>3, <2>1 DEF StartOperation
<1> QED BY <1>2, <1>3 DEF Start

(* A workflow takes no row, and closes its own at most. *)
LEMMA WorkflowKeepsLock ==
  ASSUME LockInv, TypeInv', NEW o \in Ops, Workflow(o)
  PROVE  LockInv'
<1> USE DEF LockInv, TypeInv, TypeOK, rescueVars, opVars, At
<1>1. CASE MarkOperationRunning(o)
  <2>1. \A p \in Ops : Active(p)' <=> Active(p)
    BY <1>1 DEF MarkOperationRunning, Active, ActiveStatuses, WorkflowOwnsRow, OwnsRow, ClosedEarly
  <2>2. OneActive' /\ ActiveBoxExists'
    BY <1>1, <2>1 DEF MarkOperationRunning, OneActive, ActiveBoxExists
  <2>3. RescuersSawTheEnd'
    BY <1>1 DEF MarkOperationRunning, RescuersSawTheEnd
  <2>4. WorkflowOwnsRow'
    BY <1>1, <2>1 DEF MarkOperationRunning, WorkflowOwnsRow, OwnsRow, ClosedEarly
  <2> QED BY <2>2, <2>3, <2>4
<1>2. CASE BodyActs(o)
  BY <1>2 DEF BodyActs, RescuersSawTheEnd, WorkflowOwnsRow, OwnsRow, ClosedEarly, OneActive, ActiveBoxExists, Active
<1>3. CASE ActionReturns(o)
  BY <1>3 DEF ActionReturns, RescuersSawTheEnd, WorkflowOwnsRow, OwnsRow, ClosedEarly, OneActive, ActiveBoxExists, Active
<1>4. CASE BodySucceeds(o)
  <2>1. Active(o)
    BY <1>4 DEF BodySucceeds, WorkflowOwnsRow, OwnsRow, ClosedEarly
  <2>2. OneActive' /\ ActiveBoxExists'
    BY <1>4, <2>1, CloseKeepsOwnership DEF BodySucceeds
  <2>3. RescuersSawTheEnd'
    BY <1>4 DEF BodySucceeds, RescuersSawTheEnd
  <2>4. WorkflowOwnsRow'
    BY <1>4 DEF BodySucceeds, AfterSuccess, WorkflowOwnsRow, OwnsRow, ClosedEarly, Active, ActiveStatuses
  <2> QED BY <2>2, <2>3, <2>4
<1>5. CASE SnapshotReturns(o)
  BY <1>5 DEF SnapshotReturns, RescuersSawTheEnd, WorkflowOwnsRow, OwnsRow, ClosedEarly, OneActive, ActiveBoxExists, Active
<1>6. CASE BodyThrows(o)
  BY <1>6 DEF BodyThrows, RescuersSawTheEnd, WorkflowOwnsRow, OwnsRow, ClosedEarly, OneActive, ActiveBoxExists, Active
<1>7. CASE MarkOperationFailed(o)
  <2> USE <1>7 DEF MarkOperationFailed, RecordFailure, EndWorkflow
  <2>1. Active(o) \/ opStatus[o] = "succeeded"
    BY DEF WorkflowOwnsRow, OwnsRow, ClosedEarly
  <2>2. OneActive' /\ ActiveBoxExists'
    BY <2>1, CloseKeepsOwnership, OverturnKeepsOwnership
  <2>3. RescuersSawTheEnd'
    BY DEF RescuersSawTheEnd, Ended
  <2>4. WorkflowOwnsRow'
    BY DEF WorkflowOwnsRow, OwnsRow, ClosedEarly, Active, ActiveStatuses
  <2> QED BY <2>2, <2>3, <2>4
<1>8. CASE SettleOperation(o)
  <2> USE <1>8 DEF SettleOperation, EndWorkflow
  <2>1. OneActive' /\ ActiveBoxExists'
    <3>1. \A p \in Ops : Active(p)' => Active(p)
      BY DEF Active, ActiveStatuses
    <3> QED BY <3>1 DEF OneActive, ActiveBoxExists
  <2>2. RescuersSawTheEnd'
    BY DEF RescuersSawTheEnd, Ended
  <2>3. WorkflowOwnsRow'
    BY DEF WorkflowOwnsRow, OwnsRow, ClosedEarly, Active, ActiveStatuses
  <2> QED BY <2>1, <2>2, <2>3
<1>9. CASE WorkflowDies(o)
  BY <1>9 DEF WorkflowDies, EndWorkflow, RescuersSawTheEnd, WorkflowOwnsRow, OwnsRow, ClosedEarly, OneActive,
              ActiveBoxExists, Active, Ended, Rows
<1>10. CASE Supersede(o)
  BY <1>10 DEF Supersede, RescuersSawTheEnd, WorkflowOwnsRow, OwnsRow, ClosedEarly, OneActive, ActiveBoxExists, Active,
               ActiveStatuses
<1> QED BY <1>1, <1>2, <1>3, <1>4, <1>5, <1>6, <1>7, <1>8, <1>9, <1>10 DEF Workflow

(* Rescuers fail an operation only once its workflow has ended. *)
LEMMA RescueKeepsLock ==
  ASSUME ~ComponentCallsFail, LockInv, TypeInv', NEW o \in Ops, Rescue(o)
  PROVE  LockInv'
<1> USE DEF LockInv, TypeInv, TypeOK, wfVars, opVars, rescueVars
<1>1. CASE FinishBoxOperation(o)
  <2>1. workflow[o] \in Ended
    BY <1>1 DEF FinishBoxOperation, RescuersSawTheEnd
  <2>2. WorkflowOwnsRow' /\ OneActive' /\ ActiveBoxExists'
    BY <1>1, <2>1, RescueKeepsOwnership DEF FinishBoxOperation
  <2>3. RescuersSawTheEnd'
    BY <1>1 DEF FinishBoxOperation, RescuersSawTheEnd
  <2> QED BY <2>2, <2>3
<1>2. CASE LoseCallback(o)
  BY <1>2 DEF LoseCallback, RescuersSawTheEnd, WorkflowOwnsRow, OwnsRow, ClosedEarly, OneActive, ActiveBoxExists, Active, At
<1>3. CASE ForgetWorkflow(o)
  BY <1>3 DEF ForgetWorkflow, RescuersSawTheEnd, WorkflowOwnsRow, OwnsRow, ClosedEarly, OneActive, ActiveBoxExists,
              Active, At, Ended
<1>4. CASE SweepJudges(o)
  BY <1>4 DEF SweepJudges, OperationLiveness, RescuersSawTheEnd, WorkflowOwnsRow, OwnsRow, ClosedEarly, OneActive,
              ActiveBoxExists, Active, At
<1>5. CASE SweepFails(o)
  <2>1. workflow[o] \in Ended
    BY <1>5 DEF SweepFails, RescuersSawTheEnd
  <2>2. WorkflowOwnsRow' /\ OneActive' /\ ActiveBoxExists'
    BY <1>5, <2>1, RescueKeepsOwnership DEF SweepFails
  <2>3. RescuersSawTheEnd'
    BY <1>5 DEF SweepFails, RescuersSawTheEnd
  <2> QED BY <2>2, <2>3
<1>6. CASE SweepGivesUp(o)
  BY <1>6 DEF SweepGivesUp, RescuersSawTheEnd, WorkflowOwnsRow, OwnsRow, ClosedEarly, OneActive, ActiveBoxExists, Active, At
<1>7. CASE CancelReads(o)
  BY <1>7 DEF CancelReads, RescuersSawTheEnd, WorkflowOwnsRow, OwnsRow, ClosedEarly, OneActive, ActiveBoxExists, Active, At
<1>8. CASE CancelStopsWorkflow(o)
  <2>1. workflow'[o] \in Ended
    BY <1>8 DEF CancelStopsWorkflow, EndWorkflow, Ended, Active, ActiveStatuses, Rows
  <2> QED
    BY <1>8, <2>1 DEF CancelStopsWorkflow, EndWorkflow, RescuersSawTheEnd, WorkflowOwnsRow, OwnsRow, ClosedEarly,
                      OneActive, ActiveBoxExists, Active, At, Ended, Rows
<1>9. CASE CancelRecords(o)
  <2>1. workflow[o] \in Ended
    BY <1>9 DEF CancelRecords, RescuersSawTheEnd
  <2>2. WorkflowOwnsRow' /\ OneActive' /\ ActiveBoxExists'
    BY <1>9, <2>1, RescueKeepsOwnership DEF CancelRecords
  <2>3. RescuersSawTheEnd'
    BY <1>9 DEF CancelRecords, RescuersSawTheEnd
  <2> QED BY <2>2, <2>3
<1>10. CASE CancelDies(o)
  BY <1>10 DEF CancelDies, RescuersSawTheEnd, WorkflowOwnsRow, OwnsRow, ClosedEarly, OneActive, ActiveBoxExists, Active, At
<1> QED BY <1>1, <1>2, <1>3, <1>4, <1>5, <1>6, <1>7, <1>8, <1>9, <1>10 DEF Rescue

(* So the lock is always one workflow's. *)
LEMMA LockInvariant ==
  ASSUME ~ComponentCallsFail
  PROVE  Spec => []LockInv
<1>1. Init => LockInv
  <2> SUFFICES ASSUME Init PROVE LockInv
    OBVIOUS
  <2>1. TypeInv
    BY DEF Init, TypeInv, TypeOK, Rows, BoxStatuses
  <2> QED BY <2>1 DEF Init, LockInv, RescuersSawTheEnd, WorkflowOwnsRow, OwnsRow, ClosedEarly, OneActive,
                     ActiveBoxExists, Active, ActiveStatuses, At, Ended
<1>2. LockInv /\ TypeInv' /\ [Next]_vars => LockInv'
  <2> SUFFICES ASSUME LockInv, TypeInv', [Next]_vars
               PROVE  LockInv'
    OBVIOUS
  <2>1. CASE SweepLists
    BY <2>1 DEF SweepLists, LockInv, RescuersSawTheEnd, WorkflowOwnsRow, OwnsRow, ClosedEarly, OneActive,
                ActiveBoxExists, Active, At, wfVars, opVars
  <2>2. CASE UNCHANGED vars
    BY <2>2 DEF vars, LockInv, RescuersSawTheEnd, WorkflowOwnsRow, OwnsRow, ClosedEarly, OneActive,
                ActiveBoxExists, Active, At, wfVars, opVars, rescueVars
  <2> QED BY <2>1, <2>2, StartKeepsLock, WorkflowKeepsLock, RescueKeepsLock DEF Next
<1> QED BY <1>1, <1>2, TypeInvariant, PTL DEF Spec

(* While the component's calls do not fail, a workflow that is running its body
   is behind the one active operation of its box, whatever the callback, the
   sweep and any number of cancellations do meanwhile. *)
THEOREM WorkflowHoldsLockCorrect ==
  ASSUME ~ComponentCallsFail
  PROVE  Spec => []WorkflowHoldsLock
<1>1. LockInv => WorkflowHoldsLock
  BY DEF LockInv, WorkflowHoldsLock, WorkflowOwnsRow, OwnsRow, ClosedEarly, OneActive, At
<1> QED BY <1>1, LockInvariant, PTL
-----------------------------------------------------------------------------
(* Refinement: each step of the rows is a step of BoxLock, or none. *)

(* Both modules read the same table. *)
LEMMA SameCatalogue ==
  ASSUME NEW t, NEW s, NEW n
  PROVE  /\ Lock!During(t) = During(t)
         /\ Lock!From(t) = From(t)
         /\ Lock!OnSuccess(t) = OnSuccess(t)
         /\ Lock!OnFailure(t) = OnFailure(t)
         /\ Lock!Moved(s, n) = Moved(s, n)
         /\ Lock!Superseding = Superseding
  BY DEF Superseding, Lock!Superseding, During, From, OnSuccess, OnFailure, Moved, NoStatus, BoxStatuses, DuringStatuses,
         RestingStatuses, Lock!During, Lock!From, Lock!OnSuccess, Lock!OnFailure, Lock!Moved,
         Lock!NoStatus, Lock!BoxStatuses, Lock!DuringStatuses, Lock!RestingStatuses

(* What the mapping reads off a row. *)
LEMMA LockStateCases ==
  ASSUME TypeOK, NEW o \in Ops
  PROVE  /\ opStatus[o] = "none" <=> LockState(o) = "free"
         /\ Active(o) <=> LockState(o) = "held"
         /\ opStatus[o] \in {"succeeded", "failed"} /\ o \notin overturned
              => LockState(o) = opStatus[o]
  BY DEF LockState, Active, ActiveStatuses, TypeOK

(* A step that closes o, as the abstract lock sees it *)
LEMMA CloseIsRelease ==
  ASSUME TypeInv, NEW o \in Ops, Active(o),
         NEW outcome \in {"succeeded", "failed"}, NEW target,
         opStatus' = [opStatus EXCEPT ![o] = outcome],
         status' = [status EXCEPT ![opBox[o]] = Moved(@, target)],
         UNCHANGED <<opBox, opType, overturned>>
  PROVE  Lock!Release(o, outcome, target)
<1> USE DEF TypeInv
<1>1. rowLock[o] = "held"
  BY LockStateCases DEF rowLock
<1>2. rowLock' = [rowLock EXCEPT ![o] = outcome]
  <2>1. o \notin overturned
    BY DEF Rows, Active, ActiveStatuses
  <2> QED BY <2>1 DEF rowLock, LockState, Active, ActiveStatuses, TypeOK
<1>3. status' = [status EXCEPT ![opBox[o]] = Lock!Moved(@, target)]
  BY SameCatalogue
<1> QED BY <1>1, <1>2, <1>3 DEF Lock!Release

(* Failing an active operation is a release of the abstract lock. *)
LEMMA FailureIsRelease ==
  ASSUME TypeInv, NEW o \in Ops, Active(o), RecordFailure(o)
  PROVE  Lock!LockNext
<1>1. overturned' = overturned
  BY DEF RecordFailure, Active, ActiveStatuses
<1>2. Lock!Release(o, "failed", OnFailure(opType[o]))
  BY <1>1, CloseIsRelease DEF RecordFailure
<1> QED BY <1>2, SameCatalogue DEF Lock!LockNext

(* Failing one that had succeeded, with work left, overturns it. *)
LEMMA LateFailureIsOverturn ==
  ASSUME TypeInv, NEW o \in Ops, ClosedEarly(o), RecordFailure(o)
  PROVE  Lock!LockNext
<1> USE DEF TypeInv
<1>1. o \notin overturned
  BY DEF ClosedEarly, Rows
<1>2. rowLock[o] = "succeeded"
  BY <1>1 DEF ClosedEarly, rowLock, LockState, Active, ActiveStatuses
<1>3. rowLock' = [rowLock EXCEPT ![o] = "overturned"]
  BY <1>1 DEF ClosedEarly, RecordFailure, rowLock, LockState, Active, ActiveStatuses, TypeOK
<1>4. status' = [status EXCEPT ![opBox[o]] = Lock!Moved(@, Lock!OnFailure(opType[o]))]
  BY SameCatalogue DEF RecordFailure
<1>5. opType[o] \in Lock!Superseding
  BY SameCatalogue DEF ClosedEarly
<1>6. Lock!Overturn(o)
  BY <1>2, <1>3, <1>4, <1>5 DEF RecordFailure, Lock!Overturn
<1> QED BY <1>6 DEF Lock!LockNext

(* Failing it unless it is closed is that or a stutter. *)
LEMMA FailIfActiveImplements ==
  ASSUME TypeInv, NEW o \in Ops, FailIfActive(o)
  PROVE  [Lock!LockNext]_(Lock!lockVars)
<1>1. CASE Active(o)
  BY <1>1, FailureIsRelease DEF FailIfActive
<1>2. CASE ~Active(o)
  BY <1>2 DEF FailIfActive, opVars, Lock!lockVars, rowLock, LockState, Active
<1> QED BY <1>1, <1>2

(* Starting is acquiring. *)
LEMMA StartImplements ==
  ASSUME TypeInv, NEW o \in Ops, Start(o)
  PROVE  Lock!LockNext
<1> USE DEF TypeInv
<1>1. ASSUME NEW b \in Boxes, NEW t \in OpTypes, InsertOperation(b, o, t)
      PROVE  /\ rowLock[o] = "free"
             /\ rowLock' = [rowLock EXCEPT ![o] = "held"]
             /\ status' = [status EXCEPT ![b] = Lock!Moved(@, Lock!During(t))]
             /\ opBox' = [opBox EXCEPT ![o] = b]
             /\ opType' = [opType EXCEPT ![o] = t]
  <2>1. rowLock[o] = "free"
    BY <1>1 DEF InsertOperation, rowLock, LockState
  <2>2. rowLock' = [rowLock EXCEPT ![o] = "held"]
    BY <1>1 DEF InsertOperation, rowLock, LockState, Active, ActiveStatuses, TypeOK
  <2> QED BY <1>1, <2>1, <2>2, SameCatalogue DEF InsertOperation
<1>2. ASSUME NEW b \in Boxes, CreateBox(b, o)
      PROVE  Lock!LockNext
  <2>1. status' = [status EXCEPT ![b] = Lock!During("create")]
    <3>1. Moved(status[b], During("create")) = During("create")
      BY DEF Moved, During, NoStatus
    <3> QED BY <1>2, <3>1, SameCatalogue DEF CreateBox, InsertOperation
  <2>2. status[b] = Lock!Absent
    BY <1>2 DEF CreateBox, Absent, Lock!Absent
  <2>3. Lock!AcquireNew(b, o)
    BY <1>1, <1>2, <2>1, <2>2 DEF CreateBox, Lock!AcquireNew
  <2> QED BY <2>3 DEF Lock!LockNext
<1>3. ASSUME NEW b \in Boxes, NEW t \in OpTypes, StartOperation(b, o, t)
      PROVE  Lock!LockNext
  <2>1. ~Lock!Busy(b)
    BY <1>3, LockStateCases DEF StartOperation, Busy, Lock!Busy, rowLock
  <2>2. status[b] \in Lock!From(t)
    BY <1>3, SameCatalogue DEF StartOperation
  <2>3. Lock!Acquire(b, o, t)
    BY <1>1, <1>3, <2>1, <2>2 DEF StartOperation, Lock!Acquire
  <2>4. t \in Lock!BoxOperationTypes
    BY OpTypesAssumption DEF BoxOperationTypes, Lock!BoxOperationTypes
  <2> QED BY <2>3, <2>4 DEF Lock!LockNext
<1> QED BY <1>2, <1>3 DEF Start

(* A workflow's step is a release, an overturn or a stutter ... *)
LEMMA WorkflowImplements ==
  ASSUME LockInv, NEW o \in Ops, Workflow(o)
  PROVE  [Lock!LockNext]_(Lock!lockVars)
<1> USE DEF LockInv, TypeInv
<1>1. CASE MarkOperationRunning(o)
  <2>1. Active(o)
    BY <1>1 DEF MarkOperationRunning, At, WorkflowOwnsRow, OwnsRow, ClosedEarly
  <2>2. rowLock' = rowLock
    BY <1>1, <2>1 DEF MarkOperationRunning, rowLock, LockState, Active, ActiveStatuses, TypeOK
  <2> QED BY <1>1, <2>2 DEF MarkOperationRunning, Lock!lockVars
<1>2. CASE BodySucceeds(o)
  <2>1. Active(o)
    BY <1>2 DEF BodySucceeds, At, WorkflowOwnsRow, OwnsRow, ClosedEarly
  <2>2. Lock!Release(o, "succeeded", OnSuccess(opType[o]))
    BY <1>2, <2>1, CloseIsRelease DEF BodySucceeds
  <2> QED BY <2>2, SameCatalogue DEF Lock!LockNext
<1>3. CASE MarkOperationFailed(o)
  <2>1. Active(o) \/ ClosedEarly(o)
    BY <1>3 DEF MarkOperationFailed, WorkflowOwnsRow, OwnsRow
  <2> QED BY <1>3, <2>1, FailureIsRelease, LateFailureIsOverturn DEF MarkOperationFailed
<1>4. CASE SettleOperation(o) /\ Active(o)
  <2>1. OnSuccess(opType[o]) = NoStatus
    BY <1>4 DEF SettleOperation, WorkflowOwnsRow, OwnsRow, ClosedEarly, OnSuccess
  <2>2. status' = [status EXCEPT ![opBox[o]] = Moved(@, OnSuccess(opType[o]))]
    BY <1>4, <2>1 DEF SettleOperation, Moved, TypeOK
  <2>3. Lock!Release(o, "succeeded", OnSuccess(opType[o]))
    BY <1>4, <2>2, CloseIsRelease DEF SettleOperation
  <2> QED BY <2>3, SameCatalogue DEF Lock!LockNext
<1>5. CASE SettleOperation(o) /\ ~Active(o)
  BY <1>5 DEF SettleOperation, Lock!lockVars, rowLock, LockState, Active
<1>6. CASE \/ BodyActs(o) \/ ActionReturns(o) \/ SnapshotReturns(o) \/ Supersede(o)
           \/ BodyThrows(o) \/ WorkflowDies(o)
  BY <1>6 DEF Supersede, BodyActs, ActionReturns, SnapshotReturns, BodyThrows, WorkflowDies, opVars,
              Lock!lockVars, rowLock, LockState, Active
<1> QED BY <1>1, <1>2, <1>3, <1>4, <1>5, <1>6 DEF Workflow

(* ... and so is a rescuer's. *)
LEMMA RescueImplements ==
  ASSUME TypeInv, NEW o \in Ops, Rescue(o)
  PROVE  [Lock!LockNext]_(Lock!lockVars)
<1>1. CASE FinishBoxOperation(o) \/ SweepFails(o) \/ CancelRecords(o)
  BY <1>1, FailIfActiveImplements DEF FinishBoxOperation, SweepFails, CancelRecords
<1>2. CASE LoseCallback(o) \/ ForgetWorkflow(o)
  BY <1>2 DEF LoseCallback, ForgetWorkflow, opVars, Lock!lockVars, rowLock, LockState, Active
<1>3. CASE SweepJudges(o) \/ SweepGivesUp(o) \/ CancelReads(o) \/ CancelStopsWorkflow(o) \/ CancelDies(o)
  BY <1>3 DEF SweepJudges, SweepGivesUp, CancelReads, CancelStopsWorkflow, CancelDies, opVars,
              Lock!lockVars, rowLock, LockState, Active
<1> QED BY <1>1, <1>2, <1>3 DEF Rescue

(* While the component's calls do not fail, the rows implement the lock: a box
   is taken once and released once per operation, with the status its outcome
   decides, though four different mutations can release it; and what is recorded
   after that is the failure of a body that threw past its terminal mutation. *)
THEOREM ImplementsLockCorrect ==
  ASSUME ~ComponentCallsFail
  PROVE  Spec => ImplementsLock
<1>1. Init => Lock!LockInit
  BY DEF Init, Lock!LockInit, rowLock, LockState, RestingStatuses, Absent, NoStatus,
         Lock!RestingStatuses, Lock!Absent, Lock!NoStatus
<1>2. LockInv /\ [Next]_vars => [Lock!LockNext]_(Lock!lockVars)
  <2> SUFFICES ASSUME LockInv, [Next]_vars
               PROVE  [Lock!LockNext]_(Lock!lockVars)
    OBVIOUS
  <2>1. CASE SweepLists \/ UNCHANGED vars
    BY <2>1 DEF SweepLists, vars, opVars, Lock!lockVars, rowLock, LockState, Active
  <2> QED BY <2>1, StartImplements, WorkflowImplements, RescueImplements DEF Next, LockInv
<1> QED BY <1>1, <1>2, LockInvariant, PTL DEF Spec, ImplementsLock, Lock!LockSpec
-----------------------------------------------------------------------------
(* What the abstract lock promises, of any behaviour of it.  Its names are those
   of the instance the mapping makes. *)

(* What the catalogue's table owes the lock: a running status is transient, an
   outcome is a resting status, and an operation whose outcome writes nothing
   had moved the box nowhere. *)
LEMMA LockOutcomes ==
  ASSUME NEW t \in Lock!BoxOperationTypes
  PROVE  /\ Lock!During(t) \in Lock!DuringStatuses \cup {Lock!NoStatus}
         /\ Lock!OnFailure(t) \in Lock!RestingStatuses \cup {Lock!NoStatus}
         /\ Lock!OnSuccess(t) \in Lock!RestingStatuses \cup {Lock!NoStatus}
         /\ Lock!OnFailure(t) = Lock!NoStatus => Lock!During(t) = Lock!NoStatus
         /\ Lock!OnSuccess(t) = Lock!NoStatus => Lock!During(t) = Lock!NoStatus
         /\ t \in Lock!Superseding => Lock!OnFailure(t) \in Lock!RestingStatuses \ {"deleted"}
  BY DEF Lock!Superseding, Lock!BoxOperationTypes, Lock!During, Lock!OnFailure, Lock!OnSuccess, Lock!DuringStatuses,
         Lock!RestingStatuses, Lock!NoStatus

(* Transient, resting and null statuses are told apart. *)
LEMMA LockStatusesDisjoint ==
  /\ Lock!DuringStatuses \cap Lock!RestingStatuses = {}
  /\ Lock!NoStatus \notin Lock!BoxStatuses
  /\ Lock!Absent \notin Lock!BoxStatuses
  /\ Lock!NoStatus # Lock!Absent
  BY DEF Lock!DuringStatuses, Lock!RestingStatuses, Lock!BoxStatuses, Lock!NoStatus, Lock!Absent

(* The gate names statuses only, and never "deleted". *)
LEMMA LockGate ==
  ASSUME NEW t \in Lock!BoxOperationTypes
  PROVE  Lock!From(t) \subseteq Lock!BoxStatuses \ {"deleted"}
  <1>1. t = "delete" => Lock!From(t) \subseteq Lock!BoxStatuses \ {"deleted"}
    BY DEF Lock!From
  <1>2. t # "delete" => Lock!From(t) \subseteq Lock!BoxStatuses \ {"deleted"}
    BY DEF Lock!BoxOperationTypes, Lock!From, Lock!BoxStatuses, Lock!DuringStatuses, Lock!RestingStatuses
  <1> QED BY <1>1, <1>2

(* No status an operation takes a box with is "deleted". *)
LEMMA TakenStatus ==
  ASSUME NEW t \in Lock!BoxOperationTypes, NEW s \in Lock!BoxStatuses \ {"deleted"}
  PROVE  Lock!Moved(s, Lock!During(t)) \in Lock!BoxStatuses \ {"deleted"}
  BY LockOutcomes DEF Lock!Moved, Lock!BoxStatuses, Lock!DuringStatuses

(* Every reachable state is well typed, and a row names its box and type. *)
THEOREM LockTypeCorrect == Lock!LockSpec => []Lock!LockTypeOK
<1>1. Lock!LockInit => Lock!LockTypeOK
  BY DEF Lock!LockInit, Lock!LockTypeOK, Lock!BoxStatuses
<1>2. Lock!LockTypeOK /\ [Lock!LockNext]_(Lock!lockVars) => Lock!LockTypeOK'
  <2> SUFFICES ASSUME Lock!LockTypeOK, [Lock!LockNext]_(Lock!lockVars)
               PROVE  Lock!LockTypeOK'
    OBVIOUS
  <2> USE DEF Lock!LockTypeOK
  <2>1. ASSUME NEW o \in Ops, NEW b \in Boxes, Lock!AcquireNew(b, o)
        PROVE  Lock!LockTypeOK'
    <3>1. Lock!During("create") \in Lock!BoxStatuses
      BY DEF Lock!During, Lock!BoxStatuses, Lock!DuringStatuses
    <3>2. "create" \in Lock!BoxOperationTypes
      BY DEF Lock!BoxOperationTypes
    <3> QED BY <2>1, <3>1, <3>2 DEF Lock!AcquireNew
  <2>2. ASSUME NEW o \in Ops, NEW b \in Boxes, NEW t \in Lock!BoxOperationTypes, Lock!Acquire(b, o, t)
        PROVE  Lock!LockTypeOK'
    <3>1. Lock!Moved(status[b], Lock!During(t)) \in Lock!BoxStatuses \cup {Lock!Absent}
      BY LockOutcomes DEF Lock!Moved, Lock!BoxStatuses
    <3> QED BY <2>2, <3>1 DEF Lock!Acquire
  <2>3. ASSUME NEW o \in Ops, NEW outcome \in {"succeeded", "failed"}, NEW target,
               target \in Lock!RestingStatuses \cup {Lock!NoStatus},
               Lock!Release(o, outcome, target)
        PROVE  Lock!LockTypeOK'
    <3>1. opBox[o] \in Boxes
      BY <2>3 DEF Lock!Release
    <3>2. Lock!Moved(status[opBox[o]], target) \in Lock!BoxStatuses \cup {Lock!Absent}
      BY <2>3, <3>1 DEF Lock!Moved, Lock!BoxStatuses
    <3> QED BY <2>3, <3>1, <3>2 DEF Lock!Release
  <2>4. ASSUME NEW o \in Ops, Lock!Release(o, "succeeded", Lock!OnSuccess(opType[o]))
        PROVE  Lock!LockTypeOK'
    <3>1. opType[o] \in Lock!BoxOperationTypes
      BY <2>4 DEF Lock!Release
    <3> QED BY <2>3, <2>4, <3>1, LockOutcomes
  <2>5. ASSUME NEW o \in Ops, Lock!Release(o, "failed", Lock!OnFailure(opType[o]))
        PROVE  Lock!LockTypeOK'
    <3>1. opType[o] \in Lock!BoxOperationTypes
      BY <2>5 DEF Lock!Release
    <3> QED BY <2>3, <2>5, <3>1, LockOutcomes
  <2>6. ASSUME NEW o \in Ops, Lock!Overturn(o)
        PROVE  Lock!LockTypeOK'
    <3>1. opBox[o] \in Boxes /\ opType[o] \in Lock!BoxOperationTypes
      BY <2>6 DEF Lock!Overturn
    <3>2. Lock!Moved(status[opBox[o]], Lock!OnFailure(opType[o])) \in Lock!BoxStatuses \cup {Lock!Absent}
      BY <3>1, LockOutcomes DEF Lock!Moved, Lock!BoxStatuses
    <3> QED BY <2>6, <3>1, <3>2 DEF Lock!Overturn
  <2>7. CASE UNCHANGED Lock!lockVars
    BY <2>7 DEF Lock!lockVars
  <2> QED BY <2>1, <2>2, <2>4, <2>5, <2>6, <2>7 DEF Lock!LockNext
<1> QED BY <1>1, <1>2, PTL DEF Lock!LockSpec
-----------------------------------------------------------------------------
(* The inductive invariant.  StatusMatchesHolder is not inductive alone: that a
   release writes over its own transient status, and over no one else's, needs
   OneHolder; and that it never revives a deleted box needs HeldBoxIsLive,
   because the operations that write no status while they run are held over a
   box in a resting status. *)
HeldBoxIsLive ==
  \A o \in Ops : rowLock[o] = "held" => status[opBox[o]] \notin {"deleted", Lock!Absent}

(* The box of o shows the failure of an overturned operation. *)
Overwritten(o) ==
  \E p \in Ops : /\ rowLock[p] = "overturned"
                 /\ opBox[p] = opBox[o]
                 /\ status[opBox[o]] = Lock!OnFailure(opType[p])

HolderInv == Lock!LockTypeOK /\ Lock!OneHolder /\ Lock!StatusMatchesHolder /\ HeldBoxIsLive

(* While an operation holds a box, the box's status is transient only if it is
   that operation's own. *)
LEMMA HolderOwnsStatus ==
  ASSUME HolderInv, NEW o \in Ops, rowLock[o] = "held"
  PROVE  status[opBox[o]] \in Lock!DuringStatuses => Lock!During(opType[o]) = status[opBox[o]]
  BY DEF HolderInv, Lock!LockTypeOK, Lock!OneHolder, Lock!StatusMatchesHolder

(* Taking a box keeps the invariant: nobody held it, and it shows the new
   holder's transient status, or keeps a resting one. *)
LEMMA TakeKeepsInv ==
  ASSUME HolderInv, Lock!LockTypeOK',
         NEW o \in Ops, NEW b \in Boxes, NEW t \in Lock!BoxOperationTypes,
         rowLock[o] = "free", ~Lock!Busy(b),
         rowLock' = [rowLock EXCEPT ![o] = "held"],
         opBox' = [opBox EXCEPT ![o] = b],
         opType' = [opType EXCEPT ![o] = t],
         status' = [status EXCEPT ![b] = Lock!Moved(@, Lock!During(t))],
         status'[b] \notin {"deleted", Lock!Absent}
  PROVE  HolderInv'
<1> USE DEF HolderInv, Lock!LockTypeOK
<1>1. \A p \in Ops : rowLock'[p] = "held" /\ opBox'[p] = b => p = o
  BY DEF Lock!Busy
<1>2. \A p \in Ops \ {o} : rowLock'[p] = "held" =>
         rowLock[p] = "held" /\ opBox'[p] = opBox[p] /\ opType'[p] = opType[p]
           /\ opBox[p] # b /\ status'[opBox[p]] = status[opBox[p]]
  BY DEF Lock!Busy
<1>3. Lock!OneHolder'
  BY <1>1, <1>2 DEF Lock!OneHolder
<1>4. HeldBoxIsLive'
  BY <1>2 DEF HeldBoxIsLive
<1>5. status[b] \notin Lock!DuringStatuses
  BY DEF Lock!StatusMatchesHolder, Lock!Busy
<1>6. Lock!During(t) # Lock!NoStatus => status'[b] = Lock!During(t)
  BY DEF Lock!Moved
<1>7. Lock!During(t) = Lock!NoStatus => status'[b] = status[b]
  BY DEF Lock!Moved
<1>8. Lock!StatusMatchesHolder'
  <2>1. ASSUME NEW c \in Boxes, status'[c] \in Lock!DuringStatuses
        PROVE  \E p \in Ops : rowLock'[p] = "held" /\ opBox'[p] = c
                                /\ Lock!During(opType'[p]) = status'[c]
    <3>1. CASE c = b
      <4>1. status'[b] = Lock!During(t)
        BY <1>5, <1>6, <1>7, <2>1, <3>1
      <4> QED BY <3>1, <4>1
    <3>2. CASE c # b
      <4>1. status'[c] = status[c]
        BY <3>2
      <4>2. PICK p \in Ops : rowLock[p] = "held" /\ opBox[p] = c /\ Lock!During(opType[p]) = status[c]
        BY <2>1, <4>1 DEF Lock!StatusMatchesHolder
      <4>3. p # o
        BY <4>2
      <4> QED BY <1>2, <4>1, <4>2, <4>3
    <3> QED BY <3>1, <3>2
  <2>2. ASSUME NEW p \in Ops, rowLock'[p] = "held", Lock!During(opType'[p]) # Lock!NoStatus
        PROVE  \/ status'[opBox'[p]] = Lock!During(opType'[p])
               \/ Overwritten(p)'
    <3>1. CASE p = o
      BY <1>6, <2>2, <3>1
    <3>2. CASE p # o
      <4>1. status[opBox[p]] = Lock!During(opType[p]) \/ Overwritten(p)
        BY <1>2, <2>2, <3>2 DEF Lock!StatusMatchesHolder, Overwritten
      <4>2. CASE Overwritten(p)
        <5>1. PICK q \in Ops : rowLock[q] = "overturned" /\ opBox[q] = opBox[p]
                                /\ status[opBox[p]] = Lock!OnFailure(opType[q])
          BY <4>2 DEF Overwritten
        <5>2. q # o
          BY <5>1
        <5> QED BY <1>2, <2>2, <3>2, <5>1, <5>2 DEF Overwritten
      <4> QED BY <1>2, <2>2, <3>2, <4>1, <4>2
    <3> QED BY <3>1, <3>2
  <2> QED BY <2>1, <2>2 DEF Lock!StatusMatchesHolder, Overwritten
<1> QED BY <1>3, <1>4, <1>8

(* Releasing a box keeps the invariant, whatever resting status the outcome
   writes, when an outcome that writes none belongs to a type that moved the
   box nowhere. *)
LEMMA ReleaseKeepsInv ==
  ASSUME HolderInv, Lock!LockTypeOK',
         NEW o \in Ops, NEW outcome \in {"succeeded", "failed"},
         NEW target \in Lock!RestingStatuses \cup {Lock!NoStatus},
         target = Lock!NoStatus => Lock!During(opType[o]) = Lock!NoStatus,
         Lock!Release(o, outcome, target)
  PROVE  HolderInv'
<1> USE DEF HolderInv, Lock!LockTypeOK, Lock!Release
<1>1. opBox[o] \in Boxes /\ opType[o] \in Lock!BoxOperationTypes
  OBVIOUS
<1>2. \A p \in Ops : rowLock'[p] = "held" =>
         p # o /\ rowLock[p] = "held" /\ opBox[p] # opBox[o]
           /\ status'[opBox[p]] = status[opBox[p]]
  BY <1>1 DEF Lock!OneHolder
<1>3. Lock!OneHolder'
  BY <1>2 DEF Lock!OneHolder
<1>4. HeldBoxIsLive'
  BY <1>2 DEF HeldBoxIsLive
<1>5. status'[opBox[o]] \notin Lock!DuringStatuses
  <2>1. CASE target = Lock!NoStatus
    <3>1. Lock!During(opType[o]) \notin Lock!DuringStatuses
      BY <2>1, LockStatusesDisjoint DEF Lock!BoxStatuses
    <3>2. status[opBox[o]] \notin Lock!DuringStatuses
      BY <3>1, HolderOwnsStatus
    <3> QED BY <1>1, <2>1, <3>2 DEF Lock!Moved
  <2>2. CASE target # Lock!NoStatus
    BY <1>1, <2>2, LockStatusesDisjoint DEF Lock!Moved
  <2> QED BY <2>1, <2>2
<1>6. Lock!StatusMatchesHolder'
  <2>1. ASSUME NEW c \in Boxes, status'[c] \in Lock!DuringStatuses
        PROVE  \E p \in Ops : rowLock'[p] = "held" /\ opBox'[p] = c
                                /\ Lock!During(opType'[p]) = status'[c]
    <3>1. c # opBox[o] /\ status'[c] = status[c]
      BY <1>5, <2>1
    <3>2. PICK p \in Ops : rowLock[p] = "held" /\ opBox[p] = c /\ Lock!During(opType[p]) = status[c]
      BY <2>1, <3>1 DEF Lock!StatusMatchesHolder
    <3> QED BY <3>1, <3>2
  <2>2. ASSUME NEW p \in Ops, rowLock'[p] = "held", Lock!During(opType'[p]) # Lock!NoStatus
        PROVE  \/ status'[opBox'[p]] = Lock!During(opType'[p])
               \/ Overwritten(p)'
    <3>1. status[opBox[p]] = Lock!During(opType[p]) \/ Overwritten(p)
      BY <1>2, <2>2 DEF Lock!StatusMatchesHolder, Overwritten
    <3>2. CASE Overwritten(p)
      <4>1. PICK q \in Ops : rowLock[q] = "overturned" /\ opBox[q] = opBox[p]
                              /\ status[opBox[p]] = Lock!OnFailure(opType[q])
        BY <3>2 DEF Overwritten
      <4>2. rowLock'[q] = "overturned"
        BY <4>1
      <4> QED BY <1>2, <2>2, <4>1, <4>2 DEF Overwritten
    <3> QED BY <1>2, <2>2, <3>1, <3>2
  <2> QED BY <2>1, <2>2 DEF Lock!StatusMatchesHolder, Overwritten
<1> QED BY <1>3, <1>4, <1>6

(* Overturning a success keeps it too: it takes no box, it leaves a resting
   status, and a holder it hides is one it has written over. *)
LEMMA OverturnKeepsInv ==
  ASSUME HolderInv, Lock!LockTypeOK', NEW o \in Ops, Lock!Overturn(o)
  PROVE  HolderInv'
<1> USE DEF HolderInv, Lock!LockTypeOK, Lock!Overturn
<1>1. opBox[o] \in Boxes /\ opType[o] \in Lock!BoxOperationTypes
  OBVIOUS
<1>2. /\ Lock!OnFailure(opType[o]) \in Lock!RestingStatuses \ {"deleted"}
      /\ status' = [status EXCEPT ![opBox[o]] = Lock!OnFailure(opType[o])]
  <2>1. Lock!OnFailure(opType[o]) \in Lock!RestingStatuses \ {"deleted"}
    BY <1>1, LockOutcomes
  <2>2. Lock!OnFailure(opType[o]) # Lock!NoStatus
    BY <2>1, LockStatusesDisjoint DEF Lock!BoxStatuses
  <2> QED BY <2>1, <2>2 DEF Lock!Moved
<1>3. \A p \in Ops : rowLock'[p] = "held" <=> rowLock[p] = "held"
  OBVIOUS
<1>4. Lock!OneHolder'
  BY <1>3 DEF Lock!OneHolder
<1>5. HeldBoxIsLive'
  BY <1>1, <1>2, <1>3, LockStatusesDisjoint DEF HeldBoxIsLive, Lock!BoxStatuses
<1>6. Lock!StatusMatchesHolder'
  <2>1. ASSUME NEW c \in Boxes, status'[c] \in Lock!DuringStatuses
        PROVE  \E p \in Ops : rowLock'[p] = "held" /\ opBox'[p] = c
                                /\ Lock!During(opType'[p]) = status'[c]
    <3>1. c # opBox[o] /\ status'[c] = status[c]
      BY <1>1, <1>2, <2>1, LockStatusesDisjoint
    <3>2. PICK p \in Ops : rowLock[p] = "held" /\ opBox[p] = c /\ Lock!During(opType[p]) = status[c]
      BY <2>1, <3>1 DEF Lock!StatusMatchesHolder
    <3> QED BY <1>3, <3>1, <3>2
  <2>2. ASSUME NEW p \in Ops, rowLock'[p] = "held", Lock!During(opType'[p]) # Lock!NoStatus
        PROVE  \/ status'[opBox'[p]] = Lock!During(opType'[p])
               \/ Overwritten(p)'
    <3>1. CASE opBox[p] = opBox[o]
      BY <1>1, <1>2, <3>1 DEF Overwritten
    <3>2. CASE opBox[p] # opBox[o]
      <4>1. status'[opBox[p]] = status[opBox[p]]
        BY <1>2, <3>2, <1>3, <2>2
      <4>2. status[opBox[p]] = Lock!During(opType[p]) \/ Overwritten(p)
        BY <1>3, <2>2 DEF Lock!StatusMatchesHolder, Overwritten
      <4>3. CASE Overwritten(p)
        <5>1. PICK q \in Ops : rowLock[q] = "overturned" /\ opBox[q] = opBox[p]
                                /\ status[opBox[p]] = Lock!OnFailure(opType[q])
          BY <4>3 DEF Overwritten
        <5>2. rowLock'[q] = "overturned"
          BY <5>1
        <5> QED BY <4>1, <5>1, <5>2 DEF Overwritten
      <4> QED BY <4>1, <4>2, <4>3
    <3> QED BY <3>1, <3>2
  <2> QED BY <2>1, <2>2 DEF Lock!StatusMatchesHolder, Overwritten
<1> QED BY <1>4, <1>5, <1>6

(* A new box is nobody's: an operation's box has a row. *)
LEMMA AbsentBoxIsFree ==
  ASSUME HolderInv, NEW b \in Boxes, status[b] = Lock!Absent
  PROVE  ~Lock!Busy(b)
  BY DEF HolderInv, HeldBoxIsLive, Lock!Busy

(* Every step keeps the invariant. *)
LEMMA LockStepKeepsHolder ==
  ASSUME HolderInv, Lock!LockTypeOK', [Lock!LockNext]_(Lock!lockVars)
  PROVE  HolderInv'
<1>1. ASSUME NEW o \in Ops, NEW b \in Boxes, Lock!AcquireNew(b, o)
      PROVE  HolderInv'
  <2>1. Lock!During("create") = "creating"
    BY DEF Lock!During
  <2>2. Lock!Moved(status[b], Lock!During("create")) = Lock!During("create")
    BY <2>1 DEF Lock!Moved, Lock!NoStatus
  <2>3. status'[b] = "creating"
    BY <1>1, <2>1 DEF Lock!AcquireNew, HolderInv, Lock!LockTypeOK
  <2>4. ~Lock!Busy(b)
    BY <1>1, AbsentBoxIsFree DEF Lock!AcquireNew
  <2>5. "create" \in Lock!BoxOperationTypes
    BY DEF Lock!BoxOperationTypes
  <2> QED BY <1>1, <2>2, <2>3, <2>4, <2>5, TakeKeepsInv DEF Lock!AcquireNew, Lock!Absent
<1>2. ASSUME NEW o \in Ops, NEW b \in Boxes, NEW t \in Lock!BoxOperationTypes, Lock!Acquire(b, o, t)
      PROVE  HolderInv'
  <2>1. status[b] \in Lock!BoxStatuses \ {"deleted"}
    BY <1>2, LockGate DEF Lock!Acquire
  <2>2. status'[b] \notin {"deleted", Lock!Absent}
    BY <1>2, <2>1, TakenStatus, LockStatusesDisjoint DEF Lock!Acquire, HolderInv, Lock!LockTypeOK
  <2> QED BY <1>2, <2>2, TakeKeepsInv DEF Lock!Acquire
<1>3. ASSUME NEW o \in Ops, Lock!Release(o, "succeeded", Lock!OnSuccess(opType[o]))
      PROVE  HolderInv'
  <2>1. opType[o] \in Lock!BoxOperationTypes
    BY <1>3 DEF Lock!Release, HolderInv, Lock!LockTypeOK
  <2> QED BY <1>3, <2>1, LockOutcomes, ReleaseKeepsInv
<1>4. ASSUME NEW o \in Ops, Lock!Release(o, "failed", Lock!OnFailure(opType[o]))
      PROVE  HolderInv'
  <2>1. opType[o] \in Lock!BoxOperationTypes
    BY <1>4 DEF Lock!Release, HolderInv, Lock!LockTypeOK
  <2> QED BY <1>4, <2>1, LockOutcomes, ReleaseKeepsInv
<1>5. ASSUME NEW o \in Ops, Lock!Overturn(o)
      PROVE  HolderInv'
  BY <1>5, OverturnKeepsInv
<1>6. CASE UNCHANGED Lock!lockVars
  BY <1>6 DEF Lock!lockVars, HolderInv, Lock!OneHolder, Lock!StatusMatchesHolder, HeldBoxIsLive
<1> QED BY <1>1, <1>2, <1>3, <1>4, <1>5, <1>6 DEF Lock!LockNext

(* So it always holds. *)
LEMMA HolderInvariant == Lock!LockSpec => []HolderInv
<1>1. Lock!LockInit => HolderInv
  <2> SUFFICES ASSUME Lock!LockInit PROVE HolderInv
    OBVIOUS
  <2>1. Lock!LockTypeOK
    BY DEF Lock!LockInit, Lock!LockTypeOK, Lock!BoxStatuses
  <2>2. \A b \in Boxes : status[b] \notin Lock!DuringStatuses
    BY LockStatusesDisjoint DEF Lock!LockInit, Lock!BoxStatuses
  <2> QED BY <2>1, <2>2 DEF Lock!LockInit, HolderInv, Lock!OneHolder, Lock!StatusMatchesHolder, HeldBoxIsLive
<1>2. HolderInv /\ Lock!LockTypeOK' /\ [Lock!LockNext]_(Lock!lockVars) => HolderInv'
  BY LockStepKeepsHolder
<1> QED BY <1>1, <1>2, LockTypeCorrect, PTL DEF Lock!LockSpec

(* A box runs one operation at a time. *)
THEOREM OneHolderCorrect == Lock!LockSpec => []Lock!OneHolder
BY HolderInvariant, PTL DEF HolderInv

(* A transient status is on show only while its operation is open, and an open
   one's is hidden only by the failure of an operation that had succeeded. *)
THEOREM StatusMatchesHolderCorrect == Lock!LockSpec => []Lock!StatusMatchesHolder
BY HolderInvariant, PTL DEF HolderInv

(* A deleted box is never taken, and no older operation holds it: what brings
   its row back is an operation overturned that second. *)
THEOREM DeletedIsFinalCorrect == Lock!LockSpec => Lock!DeletedIsFinal
<1>1. ASSUME HolderInv, [Lock!LockNext]_(Lock!lockVars), NEW b \in Boxes, status[b] = "deleted"
      PROVE  \/ status'[b] = "deleted"
             \/ \E o \in Ops : opBox[o] = b /\ rowLock[o] = "succeeded" /\ rowLock'[o] = "overturned"
  <2> USE DEF HolderInv, Lock!LockTypeOK
  <2>1. ASSUME NEW o \in Ops, NEW c \in Boxes, Lock!AcquireNew(c, o)
        PROVE  status'[b] = "deleted"
    BY <1>1, <2>1 DEF Lock!AcquireNew, Lock!Absent
  <2>2. ASSUME NEW o \in Ops, NEW c \in Boxes, NEW t \in Lock!BoxOperationTypes, Lock!Acquire(c, o, t)
        PROVE  status'[b] = "deleted"
    BY <1>1, <2>2, LockGate DEF Lock!Acquire
  <2>3. ASSUME NEW o \in Ops, NEW outcome, NEW target, Lock!Release(o, outcome, target)
        PROVE  status'[b] = "deleted"
    BY <1>1, <2>3 DEF Lock!Release, HeldBoxIsLive
  <2>4. ASSUME NEW o \in Ops, Lock!Overturn(o)
        PROVE  status'[b] = "deleted" \/ (opBox[o] = b /\ rowLock[o] = "succeeded" /\ rowLock'[o] = "overturned")
    BY <1>1, <2>4 DEF Lock!Overturn
  <2>5. CASE UNCHANGED Lock!lockVars
    BY <1>1, <2>5 DEF Lock!lockVars
  <2> QED BY <1>1, <2>1, <2>2, <2>3, <2>4, <2>5 DEF Lock!LockNext
<1>2. HolderInv /\ [Lock!LockNext]_(Lock!lockVars) =>
        [\A b \in Boxes : status[b] = "deleted" /\ status'[b] # "deleted" =>
           \E o \in Ops : opBox[o] = b /\ rowLock[o] = "succeeded" /\ rowLock'[o] = "overturned"]_(Lock!lockVars)
  BY <1>1
<1> QED BY <1>2, HolderInvariant, PTL DEF Lock!LockSpec, Lock!DeletedIsFinal

(* A box shows a transient status only while the operation that owns it has an
   open row, and an open operation's status, unless a workflow that threw past its
   terminal mutation wrote over it: the abstract lock's law, carried over by the
   implementation. *)
THEOREM StatusMatchesOperationCorrect ==
  ASSUME ~ComponentCallsFail
  PROVE  Spec => []StatusMatchesOperation
BY ImplementsLockCorrect, StatusMatchesHolderCorrect, PTL
   DEF ImplementsLock, StatusMatchesOperation
=============================================================================
