---------------------------- MODULE BoxOperation ----------------------------
(***************************************************************************)
(* The operation lock of a box as the backend implements it.  An operation *)
(* is a row of `box_operations` and a durable workflow; the row is opened  *)
(* by startOperation, closed by the workflow's own last mutation, and, for *)
(* the outcomes the workflow cannot record, closed by one of three others: *)
(* the component's completion callback (finishBoxOperation), the sweep     *)
(* (sweepStuckOperations) and staff's cancelOperation.  All four run       *)
(* concurrently; every Convex mutation is one atomic step, and an action   *)
(* (the sweep, the cancellation) is as many steps as it has calls.         *)
(*                                                                         *)
(* The workflow component is external: workflow[o] is what its `status`    *)
(* call reports, callback[o] whether it still owes the onComplete call.    *)
(***************************************************************************)
EXTENDS BoxCatalogue

CONSTANTS Boxes,      \* identities of rows of the `boxes` table
          Ops,        \* identities of rows of the `box_operations` table; the bound
                      \* on how many operations are started
          OpTypes,    \* the operation types of this instance
          NoBox,      \* the box of an operation that does not exist yet
          ComponentCallsFail  \* whether `workflow.cancel` and `workflow.status` may
                              \* throw for a workflow that is still in progress

ASSUME OpTypesAssumption == OpTypes \subseteq BoxOperationTypes
ASSUME NoBoxAssumption == NoBox \notin Boxes
ASSUME ComponentCallsFailAssumption == ComponentCallsFail \in BOOLEAN

VARIABLES
  status,      \* status[b]: boxes.status, or Absent
  opStatus,    \* opStatus[o]: box_operations.status, or "none" before the insert
  opBox,       \* opBox[o]: box_operations.box_id
  opType,      \* opType[o]: box_operations.type
  overturned,  \* the operations failed after they had succeeded (history)
  workflow,    \* workflow[o]: the component's view of the workflow behind o
  pc,          \* pc[o]: where the handler of defineBoxWorkflow stands
  acting,      \* acting[o]: an external action of the body is executing on the box
  callback,    \* callback[o]: the component has yet to call finishBoxOperation
  sweep,       \* sweep[o]: where a sweep stands with o
  cancel       \* cancel[o]: where a staff cancellation of o stands

opVars == <<opStatus, opBox, opType, overturned>>
wfVars == <<workflow, pc, acting, callback>>
rescueVars == <<sweep, cancel>>
vars == <<status, opVars, wfVars, rescueVars>>

Ended == {"completed", "failed", "canceled", "gone"}

(* The type invariant: what a status, a row of `box_operations`, a workflow and
   each rescuer may hold *)
TypeOK ==
  /\ status \in [Boxes -> BoxStatuses \cup {Absent}]
  /\ opStatus \in [Ops -> {"none", "pending", "running", "succeeded", "failed"}]
  /\ opBox \in [Ops -> Boxes \cup {NoBox}]
  /\ opType \in [Ops -> OpTypes \cup {NoStatus}]
  /\ overturned \subseteq Ops
  /\ workflow \in [Ops -> {"none", "inProgress"} \cup Ended]
  /\ pc \in [Ops -> {"start", "body", "supersede", "catch", "settle", "done"}]
  /\ acting \in [Ops -> BOOLEAN]
  /\ callback \in [Ops -> BOOLEAN]
  /\ sweep \in [Ops -> {"idle", "listed", "orphan"}]
  /\ cancel \in [Ops -> {"idle", "read", "stopped"}]

(* isActiveOperationStatus *)
Active(o) == opStatus[o] \in ActiveStatuses

(* findActiveOperationForBox *)
Busy(b) == \E o \in Ops : Active(o) /\ opBox[o] = b

(* A box's row may hold any resting status when the model begins; the
   operations that brought it there are over. *)
Init ==
  /\ status \in [Boxes -> RestingStatuses \cup {Absent}]
  /\ opStatus = [o \in Ops |-> "none"]
  /\ opBox = [o \in Ops |-> NoBox]
  /\ opType = [o \in Ops |-> NoStatus]
  /\ overturned = {}
  /\ workflow = [o \in Ops |-> "none"]
  /\ pc = [o \in Ops |-> "start"]
  /\ acting = [o \in Ops |-> FALSE]
  /\ callback = [o \in Ops |-> FALSE]
  /\ sweep = [o \in Ops |-> "idle"]
  /\ cancel = [o \in Ops |-> "idle"]
-----------------------------------------------------------------------------
(* Starting *)

(* The row, the workflow and the workflow's id, in one transaction *)
InsertOperation(b, o, t) ==
  /\ opStatus[o] = "none"
  /\ status' = [status EXCEPT ![b] = Moved(@, During(t))]
  /\ opStatus' = [opStatus EXCEPT ![o] = "pending"]
  /\ opBox' = [opBox EXCEPT ![o] = b]
  /\ opType' = [opType EXCEPT ![o] = t]
  /\ workflow' = [workflow EXCEPT ![o] = "inProgress"]
  /\ UNCHANGED <<overturned, pc, acting, callback, rescueVars>>

(* convertCheckoutIntent and staff's create: the box is inserted as "creating"
   and its create operation started in the same mutation. *)
CreateBox(b, o) ==
  /\ "create" \in OpTypes
  /\ status[b] = Absent
  /\ InsertOperation(b, o, "create")

(* startOperation.  An idempotency key names its box, so a repeated key and a
   busy box both mean an active operation exists and both change nothing; so
   does a refused slug. *)
StartOperation(b, o, t) ==
  /\ status[b] # Absent
  /\ ~Busy(b)
  /\ status[b] \in From(t)
  /\ InsertOperation(b, o, t)
-----------------------------------------------------------------------------
(* The workflow: the handler of defineBoxWorkflow *)

At(o, label) == workflow[o] = "inProgress" /\ pc[o] = label

MarkOperationRunning(o) ==
  /\ At(o, "start")
  /\ opStatus' = [opStatus EXCEPT ![o] = "running"]
  /\ pc' = [pc EXCEPT ![o] = "body"]
  /\ UNCHANGED <<status, opBox, opType, overturned, workflow, acting, callback,
                 rescueVars>>

(* step.runAction: a call to a provider or over SSH to the box *)
BodyActs(o) ==
  /\ At(o, "body")
  /\ ~acting[o]
  /\ acting' = [acting EXCEPT ![o] = TRUE]
  /\ UNCHANGED <<status, opVars, workflow, pc, callback, rescueVars>>

(* An action runs to its end whatever has become of the workflow meanwhile. *)
ActionReturns(o) ==
  /\ acting[o]
  /\ acting' = [acting EXCEPT ![o] = FALSE]
  /\ UNCHANGED <<status, opVars, workflow, pc, callback, rescueVars>>

(* What a body does once its operation is closed: an update that found the box
   on its target already returns at once. *)
AfterSuccess(t) ==
  (IF t \in Superseding THEN {"supersede"} ELSE {"settle"})
    \cup (IF t = "update" THEN {"settle"} ELSE {})

(* The terminal mutation of every body but captureSnapshot: the box's status and
   the operation's outcome in one transaction, neither of them guarded. *)
BodySucceeds(o) ==
  /\ At(o, "body")
  /\ ~acting[o]
  /\ opType[o] # "snapshot"
  /\ status' = [status EXCEPT ![opBox[o]] = Moved(@, OnSuccess(opType[o]))]
  /\ opStatus' = [opStatus EXCEPT ![o] = "succeeded"]
  /\ \E next \in AfterSuccess(opType[o]) : pc' = [pc EXCEPT ![o] = next]
  /\ UNCHANGED <<opBox, opType, overturned, workflow, acting, callback,
                 rescueVars>>

(* supersedeRollbackSnapshots, with the operation closed and the box free *)
Supersede(o) ==
  /\ At(o, "supersede")
  /\ pc' = [pc EXCEPT ![o] = "settle"]
  /\ UNCHANGED <<status, opVars, workflow, acting, callback, rescueVars>>

(* captureSnapshot returns with its operation still open. *)
SnapshotReturns(o) ==
  /\ At(o, "body")
  /\ ~acting[o]
  /\ opType[o] = "snapshot"
  /\ pc' = [pc EXCEPT ![o] = "settle"]
  /\ UNCHANGED <<status, opVars, workflow, acting, callback, rescueVars>>

(* One `try` holds the whole body, its last call included. *)
BodyThrows(o) ==
  /\ At(o, "body") \/ At(o, "supersede")
  /\ ~acting[o]
  /\ pc' = [pc EXCEPT ![o] = "catch"]
  /\ UNCHANGED <<status, opVars, workflow, acting, callback, rescueVars>>

(* recordOperationFailure: the status a failure leaves the box in, and the
   operation closed, as it may have been before.  Every failure goes through
   it; the guards are the callers'. *)
RecordFailure(o) ==
  /\ status' = [status EXCEPT ![opBox[o]] = Moved(@, OnFailure(opType[o]))]
  /\ opStatus' = [opStatus EXCEPT ![o] = "failed"]
  /\ overturned' = IF opStatus[o] = "succeeded" THEN overturned \cup {o} ELSE overturned
  /\ UNCHANGED <<opBox, opType>>

(* The component ends the workflow, never resumes its handler, and now owes its
   onComplete. *)
EndWorkflow(o, kind) ==
  /\ workflow' = [workflow EXCEPT ![o] = kind]
  /\ pc' = [pc EXCEPT ![o] = "done"]
  /\ callback' = [callback EXCEPT ![o] = TRUE]

(* markOperationFailed in the catch, which asks nothing of the operation or the
   box, then the rethrow *)
MarkOperationFailed(o) ==
  /\ At(o, "catch")
  /\ RecordFailure(o)
  /\ EndWorkflow(o, "failed")
  /\ UNCHANGED <<acting, rescueVars>>

(* settleOperation, then the handler returns *)
SettleOperation(o) ==
  /\ At(o, "settle")
  /\ opStatus' = IF Active(o) THEN [opStatus EXCEPT ![o] = "succeeded"] ELSE opStatus
  /\ EndWorkflow(o, "completed")
  /\ UNCHANGED <<status, opBox, opType, overturned, acting, rescueVars>>

(* Failures that never reach the catch, or happen in it: its own mutation
   throws, the workpool runs out of retries, a replay no longer matches. *)
WorkflowDies(o) ==
  /\ workflow[o] = "inProgress"
  /\ ~acting[o]
  /\ EndWorkflow(o, "failed")
  /\ UNCHANGED <<status, opVars, acting, rescueVars>>
-----------------------------------------------------------------------------
(* The three rescues *)

(* A bug the runs must catch: the failure recorded over a closed operation *)
FailUnguarded(o) == opStatus[o] # "none" /\ RecordFailure(o)

(* The guard failOrphanedOperation and finishBoxOperation share *)
FailIfActive(o) ==
  IF Active(o) THEN RecordFailure(o) ELSE UNCHANGED <<status, opVars>>

FinishBoxOperation(o) ==
  /\ callback[o]
  /\ callback' = [callback EXCEPT ![o] = FALSE]
  /\ FailIfActive(o)
  /\ UNCHANGED <<workflow, pc, acting, rescueVars>>

(* The call the sweep exists for: one that never lands, or throws *)
LoseCallback(o) ==
  /\ callback[o]
  /\ callback' = [callback EXCEPT ![o] = FALSE]
  /\ UNCHANGED <<status, opVars, workflow, pc, acting, rescueVars>>

(* The component drops an ended workflow. *)
ForgetWorkflow(o) ==
  /\ workflow[o] \in Ended \ {"gone"}
  /\ ~callback[o]
  /\ workflow' = [workflow EXCEPT ![o] = "gone"]
  /\ UNCHANGED <<status, opVars, pc, acting, callback, rescueVars>>

(* activeOperationsBefore: one query lists the operations this run will look at
   one after the other.  The grace period only delays it. *)
SweepLists ==
  /\ \A o \in Ops : sweep[o] = "idle"
  /\ \E o \in Ops : Active(o)
  /\ sweep' = [o \in Ops |-> IF Active(o) THEN "listed" ELSE "idle"]
  /\ UNCHANGED <<status, opVars, wfVars, cancel>>

(* Bugs the runs must catch: an operation closed for its age alone, and one
   closed only when the component has dropped its workflow *)
LivenessByAge(o) == {TRUE}
LivenessOnlyGone(o) == {workflow[o] = "gone"}

(* What workflow.status answers: a throw is read as "no longer exists". *)
OperationLiveness(o) ==
  {workflow[o] \in Ended} \cup (IF ComponentCallsFail THEN {TRUE} ELSE {})

SweepJudges(o) ==
  /\ sweep[o] = "listed"
  /\ \A p \in Ops : sweep[p] # "orphan"
  /\ \E orphaned \in OperationLiveness(o) :
       sweep' = [sweep EXCEPT ![o] = IF orphaned THEN "orphan" ELSE "idle"]
  /\ UNCHANGED <<status, opVars, wfVars, cancel>>

SweepFails(o) ==
  /\ sweep[o] = "orphan"
  /\ sweep' = [sweep EXCEPT ![o] = "idle"]
  /\ FailIfActive(o)
  /\ UNCHANGED <<wfVars, cancel>>

(* The try around each operation: this run gives up on it. *)
SweepGivesUp(o) ==
  /\ sweep[o] # "idle"
  /\ sweep' = [sweep EXCEPT ![o] = "idle"]
  /\ UNCHANGED <<status, opVars, wfVars, cancel>>

CancelReads(o) ==
  /\ cancel[o] = "idle"
  /\ Active(o)
  /\ cancel' = [cancel EXCEPT ![o] = "read"]
  /\ UNCHANGED <<status, opVars, wfVars, sweep>>

(* workflow.cancel, whose error is swallowed *)
CancelStopsWorkflow(o) ==
  /\ cancel[o] = "read"
  /\ cancel' = [cancel EXCEPT ![o] = "stopped"]
  /\ \/ workflow[o] = "inProgress" /\ EndWorkflow(o, "canceled")
     \/ /\ workflow[o] # "inProgress" \/ ComponentCallsFail
        /\ UNCHANGED <<workflow, pc, callback>>
  /\ UNCHANGED <<status, opVars, acting, sweep>>

CancelRecords(o) ==
  /\ cancel[o] = "stopped"
  /\ cancel' = [cancel EXCEPT ![o] = "idle"]
  /\ FailIfActive(o)
  /\ UNCHANGED <<wfVars, sweep>>

(* The action dies between two of its calls. *)
CancelDies(o) ==
  /\ cancel[o] # "idle"
  /\ cancel' = [cancel EXCEPT ![o] = "idle"]
  /\ UNCHANGED <<status, opVars, wfVars, sweep>>
-----------------------------------------------------------------------------
Start(o) ==
  \/ \E b \in Boxes : CreateBox(b, o)
  \/ \E b \in Boxes, t \in OpTypes : StartOperation(b, o, t)

Workflow(o) ==
  \/ MarkOperationRunning(o)
  \/ BodyActs(o)
  \/ ActionReturns(o)
  \/ BodySucceeds(o)
  \/ Supersede(o)
  \/ SnapshotReturns(o)
  \/ BodyThrows(o)
  \/ MarkOperationFailed(o)
  \/ SettleOperation(o)
  \/ WorkflowDies(o)

Rescue(o) ==
  \/ FinishBoxOperation(o)
  \/ LoseCallback(o)
  \/ ForgetWorkflow(o)
  \/ SweepJudges(o)
  \/ SweepFails(o)
  \/ SweepGivesUp(o)
  \/ CancelReads(o)
  \/ CancelStopsWorkflow(o)
  \/ CancelRecords(o)
  \/ CancelDies(o)

Next ==
  \/ \E o \in Ops : Start(o) \/ Workflow(o) \/ Rescue(o)
  \/ SweepLists

Spec == Init /\ [][Next]_vars

(* The cron runs the sweep for ever and nothing stops it listing an active
   operation; the per-operation try may abandon a run, but not every run. *)
Fairness ==
  /\ WF_vars(SweepLists)
  /\ \A o \in Ops : SF_vars(SweepJudges(o)) /\ SF_vars(SweepFails(o))

FairSpec == Spec /\ Fairness
-----------------------------------------------------------------------------
(* Properties *)

(* "A box runs one operation at a time": while a workflow is in progress and
   has not yet closed its operation, that operation is the active one of its
   box and no other workflow's body runs against the same box - whatever the
   callback, the sweep and a cancellation of this or of an older operation do
   meanwhile. *)
WorkflowHoldsLock ==
  \A o \in Ops :
    /\ workflow[o] = "inProgress"
    /\ pc[o] \in {"start", "body", "catch"}
    /\ opStatus[o] # "succeeded"
    =>
      /\ Active(o)
      /\ \A p \in Ops \ {o} : ~(Active(p) /\ opBox[p] = opBox[o])

(* The lock abstraction: opening, closing and failing an operation through all
   the paths above is, seen from the rows, taking the box once and releasing
   it once with the status the outcome decides; only a workflow that throws
   after its terminal mutation overturns what it had recorded. *)
LockState(o) ==
  IF opStatus[o] = "none" THEN "free"
  ELSE IF Active(o) THEN "held"
  ELSE IF o \in overturned THEN "overturned" ELSE opStatus[o]

rowLock == [o \in Ops |-> LockState(o)]

Lock == INSTANCE BoxLock WITH lock <- rowLock

ImplementsLock == Lock!LockSpec

(* What BoxLock says of the status, of the real rows: a transient status is on
   show only while the operation that owns it is open, and nothing hides it but
   the failure of an operation that had succeeded. *)
StatusMatchesOperation == Lock!StatusMatchesHolder

(* finishBoxOperation's promise, "a finished workflow leaves no active
   operation", which a lost callback leaves to the sweep *)
FinishedWorkflowFreesBox ==
  \A o \in Ops : workflow[o] \in Ended ~> ~Active(o)

(* cancelOperation stops the workflow first "so a workflow that is somehow still
   alive cannot write the box's status after we have decided its operation
   failed": only the operation that takes or holds a box moves its status. *)
OnlyHolderMovesBox ==
  [][\A b \in Boxes : status'[b] # status[b] =>
       \E o \in Ops : /\ opBox'[o] = b
                      /\ opStatus'[o] # opStatus[o]
                      /\ opStatus[o] \notin {"succeeded", "failed"}]_vars

(* The lock "is what keeps a reset from racing a repair": two operations never
   have actions running against one box at once. *)
OneActorPerBox ==
  \A o, p \in Ops : acting[o] /\ acting[p] /\ opBox[o] = opBox[p] => o = p
=============================================================================
