------------------------- MODULE BoxSnapshotsProofs -------------------------
(***************************************************************************)
(* Proofs about a box's snapshots: the type invariant; that every complete *)
(* row can be restored; that, where the superseding pass of one operation  *)
(* comes before the next operation, promised copies exist and a copy comes *)
(* before anything its operation does; and that a capture fits the split   *)
(* when it begins.                                                         *)
(***************************************************************************)
EXTENDS BoxSnapshots, FiniteSetTheorems, TLAPS

(* What the catalogue's table owes the lock: a running status is transient, an
   outcome is a resting status, and an operation whose outcome writes nothing
   had moved the box nowhere. *)
LEMMA CatalogueOutcomes ==
  ASSUME NEW t \in BoxOperationTypes
  PROVE  /\ During(t) \in DuringStatuses \cup {NoStatus}
         /\ OnFailure(t) \in RestingStatuses \cup {NoStatus}
         /\ OnSuccess(t) \in RestingStatuses \cup {NoStatus}
         /\ OnFailure(t) = NoStatus => During(t) = NoStatus
         /\ OnSuccess(t) = NoStatus => During(t) = NoStatus
  BY DEF BoxOperationTypes, During, OnFailure, OnSuccess, DuringStatuses,
         RestingStatuses, NoStatus

(* The gate names statuses only, and never "deleted". *)
LEMMA CatalogueGate ==
  ASSUME NEW t \in BoxOperationTypes
  PROVE  From(t) \subseteq BoxStatuses \ {"deleted"}
  <1>1. t = "delete" => From(t) \subseteq BoxStatuses \ {"deleted"}
    BY DEF From
  <1>2. t # "delete" => From(t) \subseteq BoxStatuses \ {"deleted"}
    BY DEF BoxOperationTypes, From, BoxStatuses, DuringStatuses, RestingStatuses
  <1> QED BY <1>1, <1>2

(* No status an operation takes a box with is "deleted". *)
LEMMA TakenStatus ==
  ASSUME NEW t \in BoxOperationTypes, NEW s \in BoxStatuses \ {"deleted"}
  PROVE  Moved(s, During(t)) \in BoxStatuses \ {"deleted"}
  BY CatalogueOutcomes DEF Moved, BoxStatuses, DuringStatuses

CaptureSteps == {"create", "mark", "poll", "complete", "fail"}

(* A row that a deletion has taken, which no capture brings back *)
Gone(r) == row[r] \in {"deleting", "removed"}

(* Rows come one after the other, each as the newest. *)
RowsAreBegun ==
  \A r \in Rows :
    /\ r =< begun => row[r] # "none"
    /\ r > begun => row[r] = "none" /\ ~named[r] /\ deleter[r] = "idle"

(* The workflow of an operation is at a step of it, and captures the newest row. *)
WorkflowMatchesOp ==
  /\ op = "none" <=> pc = "idle"
  /\ op = "delete" <=> pc = "delete"
  /\ pc \in {"target", "destroy"} => op \in Operations
  /\ pc \in CaptureSteps \cup {"destroy"} => cur = begun /\ cur # 0
  /\ status = "deleted" => op = "none" /\ promised = {}

(* A deletion that is past its first call has marked its row. *)
DeletionsMark ==
  \A r \in Rows : deleter[r] \in {"claimed", "cleared"} => row[r] = "deleting"

(* At every step of a capture its row is as far as that step, or going. *)
CaptureIsAsFar ==
  /\ pc \in {"create", "mark"} => Gone(cur) \/ (row[cur] = "pending" /\ ~named[cur])
  /\ pc = "mark" => Gone(cur) \/ image[cur] # "none"
  /\ pc \in {"poll", "complete"} =>
       Gone(cur) \/ (row[cur] = "creating" /\ named[cur] /\ image[cur] # "none")
  /\ pc = "complete" => Gone(cur) \/ image[cur] = "available"
  /\ pc = "fail" => row[cur] # "complete"

CaptureInv ==
  /\ TypeOK
  /\ RowsAreBegun
  /\ WorkflowMatchesOp
  /\ DeletionsMark
  /\ CaptureIsAsFar
  /\ CompleteRowsAreRestorable

(* No deletion is after the row being captured unless its owner deleted it, which
   nobody can do to an undo point. *)
CaptureIsLeftAlone ==
  pc \in CaptureSteps \cup {"destroy"} =>
    \/ /\ ~Gone(cur)
       /\ deleter[cur] = "idle"
       /\ class[cur] = IF op \in Operations THEN "rollback" ELSE op
    \/ op \notin Operations /\ Gone(cur)

(* The superseding pass runs while the box is at rest, and then as on the last
   step of an operation the undo point the owner relies on is the newest row. *)
UndoPointIsNewest ==
  /\ tails > 0 => op = "none"
  /\ tails > 0 \/ (pc = "succeed" /\ op \in Operations) =>
       \A r \in promised : class[r] = "rollback" => r = begun

(* No deletion is after a copy the owner was promised. *)
PromisesAreKept ==
  /\ \A r \in promised :
       /\ row[r] = "complete"
       /\ deleter[r] = "idle"
       /\ class[r] \in {"manual", "rollback"}
  /\ pc = "destroy" => row[cur] = "complete"

PromiseInv ==
  /\ CaptureInv
  /\ CaptureIsLeftAlone
  /\ UndoPointIsNewest
  /\ PromisesAreKept
-----------------------------------------------------------------------------
(* The catalogue's word on the operations of this module: none of them ends in
   "deleted" but the deletion, and only by succeeding. *)
LEMMA OperationStatuses ==
  ASSUME NEW o \in {"manual", "scheduled", "delete"} \cup Operations,
         NEW s \in BoxStatuses
  PROVE  /\ TypeOf(o) \in BoxOperationTypes
         /\ Moved(s, OnFailure(TypeOf(o))) \in BoxStatuses
         /\ Moved(s, OnSuccess(TypeOf(o))) \in BoxStatuses
         /\ s \in From(TypeOf(o)) => s # "deleted"
         /\ s # "deleted" => /\ Moved(s, During(TypeOf(o))) \in BoxStatuses \ {"deleted"}
                             /\ Moved(s, OnFailure(TypeOf(o))) # "deleted"
                             /\ o # "delete" => Moved(s, OnSuccess(TypeOf(o))) # "deleted"
<1>1. TypeOf(o) \in BoxOperationTypes
  BY OperationsAssumption DEF TypeOf, BoxOperationTypes
<1>2. s \in From(TypeOf(o)) => s # "deleted"
  BY <1>1, CatalogueGate
<1>3. s # "deleted" => Moved(s, During(TypeOf(o))) \in BoxStatuses \ {"deleted"}
  BY <1>1, TakenStatus
<1>4. OnFailure(TypeOf(o)) \in BoxStatuses \cup {NoStatus} /\ OnSuccess(TypeOf(o)) \in BoxStatuses \cup {NoStatus}
  BY <1>1, CatalogueOutcomes DEF BoxStatuses
<1>5. OnFailure(TypeOf(o)) # "deleted"
  BY <1>1 DEF BoxOperationTypes, OnFailure, NoStatus
<1>6. o # "delete" => OnSuccess(TypeOf(o)) # "deleted"
  <2>1. o # "delete" => TypeOf(o) # "delete"
    BY OperationsAssumption DEF TypeOf
  <2> QED BY <1>1, <2>1 DEF BoxOperationTypes, OnSuccess, NoStatus
<1> QED BY <1>1, <1>2, <1>3, <1>4, <1>5, <1>6 DEF Moved, NoStatus

(* An operation is one of this module's, so the statuses it writes exist. *)
LEMMA StatusStep ==
  ASSUME TypeOK, WorkflowMatchesOp, [Next]_vars
  PROVE  status' \in BoxStatuses
<1> USE DEF TypeOK
<1>1. status \in BoxStatuses /\ Moved(status, "running") \in BoxStatuses
                             /\ Moved(status, "deleted") \in BoxStatuses
  BY DEF Moved, BoxStatuses, RestingStatuses
<1>2. ASSUME NEW o \in {"manual", "scheduled", "delete"} \cup Operations, NEW first,
             Start(o, first)
      PROVE  status' \in BoxStatuses
  BY <1>2, OperationStatuses DEF Start
<1>3. CASE Starts
  BY <1>2, <1>3 DEF Starts, StartManualSnapshot, StartAutomaticSnapshot,
     StartUpdateOrReset, StartRestore, StartDelete
<1>4. CASE Workflow
  <2>1. op # "none"
    BY <1>4 DEF WorkflowMatchesOp, Workflow, ReadRestoreTarget, UpdateSkipped,
       BeginSnapshot, CreateSnapshotImage, MarkCreating, ImageIsAvailable,
       CompleteSnapshot, CaptureThrows, FailSnapshot, Destroy, OperationSucceeds,
       BoxDeleted, OperationFails
  <2>2. /\ Moved(status, OnFailure(TypeOf(op))) \in BoxStatuses
        /\ Moved(status, OnSuccess(TypeOf(op))) \in BoxStatuses
    BY <2>1, OperationStatuses
  <2> QED
    BY <1>1, <1>4, <2>2 DEF Workflow, ReadRestoreTarget, UpdateSkipped,
       BeginSnapshot,
       CreateSnapshotImage, MarkCreating, ImageIsAvailable, CompleteSnapshot,
       CaptureThrows, FailSnapshot, Destroy, OperationSucceeds, BoxDeleted,
       OperationFails, Release
<1>5. CASE Requests
  BY <1>1, <1>5 DEF Requests, SupersedeRollbackSnapshots, SupersedeIsLost,
     SetSnapshotSplit, PurgeBox, DeleteSnapshot, ClaimExpiredSnapshot
<1>6. CASE Removal
  BY <1>1, <1>6 DEF Removal, DeleteClaims, DeleteImage, RemoveSnapshotRow,
     DeleteDies, ReconcileImage
<1>7. CASE UNCHANGED vars
  BY <1>1, <1>7 DEF vars
<1> QED BY <1>3, <1>4, <1>5, <1>6, <1>7 DEF Next

(* A step of a capture has its row. *)
LEMMA CapturedRow ==
  ASSUME TypeOK, WorkflowMatchesOp, pc \in CaptureSteps \cup {"destroy"}
  PROVE  cur \in Rows /\ cur = begun
BY MaxRowsAssumption DEF TypeOK, WorkflowMatchesOp, Rows

(* Typing is kept by every step. *)
LEMMA TypeStep ==
  ASSUME TypeOK, WorkflowMatchesOp, [Next]_vars
  PROVE  TypeOK'
<1>0. status' \in BoxStatuses
  BY StatusStep
<1> USE <1>0, MaxRowsAssumption, PlanCapAssumption, OperationsAssumption DEF TypeOK,
  Rows, Steps, Classes, Reserved, snapshotVars, workflowVars
<1>1. CASE Starts
  <2>1. CASE StartManualSnapshot
    BY <2>1 DEF StartManualSnapshot, Start
  <2>2. CASE StartAutomaticSnapshot
    BY <2>2 DEF StartAutomaticSnapshot, Start
  <2>3. CASE StartUpdateOrReset
    BY <2>3 DEF StartUpdateOrReset, Start
  <2>4. ASSUME NEW r \in Rows, StartRestore(r) PROVE TypeOK'
    BY <2>4 DEF StartRestore, Start
  <2>5. CASE StartDelete
    BY <2>5 DEF StartDelete, Start
  <2> QED BY <1>1, <2>1, <2>2, <2>3, <2>4, <2>5 DEF Starts
<1>2. CASE Workflow
  <2>1. CASE ReadRestoreTarget
    BY <2>1 DEF ReadRestoreTarget, Goto
  <2>2. CASE UpdateSkipped
    BY <2>2 DEF UpdateSkipped, Release
  <2>3. CASE BeginSnapshot
    BY <2>3 DEF BeginSnapshot, Queued, WorkflowMatchesOp, CaptureSteps
  <2>4. CASE CreateSnapshotImage
    BY <2>4 DEF CreateSnapshotImage, Goto
  <2>5. CASE MarkCreating
    BY <2>5 DEF MarkCreating, Goto
  <2>6. CASE ImageIsAvailable
    BY <2>6 DEF ImageIsAvailable, Goto
  <2>7. CASE CompleteSnapshot
    <3>1. cur \in Rows
      BY <2>7, CapturedRow DEF CompleteSnapshot, CaptureSteps
    <3>2. promised' = promised \/ promised' = promised \cup {cur}
      BY <2>7 DEF CompleteSnapshot
    <3>3. promised' \subseteq Rows
      BY <3>1, <3>2
    <3> QED BY <2>7, <3>1, <3>3 DEF CompleteSnapshot, Goto
  <2>8. CASE CaptureThrows
    BY <2>8 DEF CaptureThrows, Goto
  <2>9. CASE FailSnapshot
    BY <2>9 DEF FailSnapshot, Release, WorkflowMatchesOp, CaptureSteps
  <2>10. CASE Destroy
    <3>1. cur \in Rows
      BY <2>10, CapturedRow DEF Destroy
    <3>2. promised' \subseteq Rows
      BY <2>10, <3>1 DEF Destroy
    <3> QED BY <2>10, <3>1, <3>2 DEF Destroy, Goto
  <2>11. CASE OperationSucceeds
    BY <2>11 DEF OperationSucceeds, Release
  <2>12. CASE BoxDeleted
    BY <2>12 DEF BoxDeleted, Release, Queued
  <2>13. CASE OperationFails
    BY <2>13 DEF OperationFails, Release
  <2> QED BY <1>2, <2>1, <2>2, <2>3, <2>4, <2>5, <2>6, <2>7, <2>8, <2>9, <2>10,
    <2>11, <2>12, <2>13 DEF Workflow
<1>3. CASE Requests
  <2>1. CASE SupersedeRollbackSnapshots
    BY <2>1 DEF SupersedeRollbackSnapshots, Queued
  <2>2. CASE SupersedeIsLost
    BY <2>2 DEF SupersedeIsLost
  <2>3. CASE SetSnapshotSplit
    BY <2>3 DEF SetSnapshotSplit
  <2>4. CASE PurgeBox
    BY <2>4 DEF PurgeBox, Queued
  <2>5. ASSUME NEW r \in Rows, DeleteSnapshot(r) PROVE TypeOK'
    BY <2>5 DEF DeleteSnapshot, Queued, Condemn
  <2>6. ASSUME NEW r \in Rows, ClaimExpiredSnapshot(r) PROVE TypeOK'
    BY <2>6 DEF ClaimExpiredSnapshot, Queued, Condemn
  <2> QED BY <1>3, <2>1, <2>2, <2>3, <2>4, <2>5, <2>6 DEF Requests
<1>4. CASE Removal
  <2>1. ASSUME NEW r \in Rows, DeleteClaims(r) PROVE TypeOK'
    BY <2>1 DEF DeleteClaims
  <2>2. ASSUME NEW r \in Rows, DeleteImage(r) PROVE TypeOK'
    BY <2>2 DEF DeleteImage
  <2>3. ASSUME NEW r \in Rows, RemoveSnapshotRow(r) PROVE TypeOK'
    BY <2>3 DEF RemoveSnapshotRow
  <2>4. ASSUME NEW r \in Rows, DeleteDies(r) PROVE TypeOK'
    BY <2>4 DEF DeleteDies
  <2>5. ASSUME NEW r \in Rows, ReconcileImage(r) PROVE TypeOK'
    BY <2>5 DEF ReconcileImage
  <2> QED BY <1>4, <2>1, <2>2, <2>3, <2>4, <2>5 DEF Removal
<1>5. CASE UNCHANGED vars
  BY <1>5 DEF vars
<1> QED BY <1>1, <1>2, <1>3, <1>4, <1>5 DEF Next

(* Only rows of the daily class, complete and so there, are evicted. *)
LEMMA EvictedRows ==
  ASSUME NEW c, NEW r \in Evictions(c)
  PROVE  r \in Rows /\ class[r] = "scheduled" /\ row[r] = "complete"
BY DEF Evictions, Oldest, InClass

(* What an operation that starts, fails or succeeds does to a box that lives. *)
LEMMA LivingBoxLives ==
  ASSUME TypeOK, WorkflowMatchesOp
  PROVE  /\ \A o \in {"manual", "scheduled", "delete"} \cup Operations :
              status \in From(TypeOf(o)) => Moved(status, During(TypeOf(o))) # "deleted"
         /\ op # "none" => Moved(status, OnFailure(TypeOf(op))) # "deleted"
         /\ op \notin {"none", "delete"} => Moved(status, OnSuccess(TypeOf(op))) # "deleted"
         /\ Moved(status, "running") # "deleted"
<1> USE DEF TypeOK
<1>1. op # "none" => status # "deleted"
  BY DEF WorkflowMatchesOp
<1>2. Moved(status, "running") = "running"
  BY DEF Moved, NoStatus
<1> QED BY <1>1, <1>2, OperationStatuses

(* Rows are only ever begun as the newest, and no deletion or name precedes one. *)
LEMMA RowsStep ==
  ASSUME CaptureInv, [Next]_vars
  PROVE  RowsAreBegun'
<1> USE MaxRowsAssumption, CapturedRow DEF CaptureInv, TypeOK, Rows, CaptureSteps,
  Exists, Gone, snapshotVars, workflowVars
<1>1. CASE Starts
  BY <1>1 DEF Starts, StartManualSnapshot, Start, StartAutomaticSnapshot,
     StartUpdateOrReset, StartRestore, StartDelete, RowsAreBegun
<1>2. CASE Workflow
  <2>1. CASE ReadRestoreTarget
    BY <2>1 DEF ReadRestoreTarget, Goto, RowsAreBegun
  <2>2. CASE UpdateSkipped
    BY <2>2 DEF UpdateSkipped, Release, RowsAreBegun
  <2>3. CASE BeginSnapshot
    BY <2>3, EvictedRows DEF BeginSnapshot, Queued, RowsAreBegun
  <2>4. CASE CreateSnapshotImage
    BY <2>4 DEF CreateSnapshotImage, Goto, RowsAreBegun
  <2>5. CASE MarkCreating
    BY <2>5 DEF MarkCreating, Goto, RowsAreBegun
  <2>6. CASE ImageIsAvailable
    BY <2>6 DEF ImageIsAvailable, Goto, RowsAreBegun
  <2>7. CASE CompleteSnapshot
    BY <2>7 DEF CompleteSnapshot, Goto, RowsAreBegun
  <2>8. CASE CaptureThrows
    BY <2>8 DEF CaptureThrows, Goto, RowsAreBegun
  <2>9. CASE FailSnapshot
    BY <2>9 DEF FailSnapshot, Release, RowsAreBegun
  <2>10. CASE Destroy
    BY <2>10 DEF Destroy, Goto, RowsAreBegun
  <2>11. CASE OperationSucceeds
    BY <2>11 DEF OperationSucceeds, Release, RowsAreBegun
  <2>12. CASE BoxDeleted
    BY <2>12 DEF BoxDeleted, Release, Queued, RowsAreBegun
  <2>13. CASE OperationFails
    BY <2>13 DEF OperationFails, Release, RowsAreBegun
  <2> QED BY <1>2, <2>1, <2>2, <2>3, <2>4, <2>5, <2>6, <2>7, <2>8, <2>9, <2>10,
    <2>11, <2>12, <2>13 DEF Workflow
<1>3. CASE Requests
  <2>1. CASE SupersedeRollbackSnapshots
    BY <2>1 DEF SupersedeRollbackSnapshots, InClass, Queued, RowsAreBegun
  <2>2. CASE SupersedeIsLost
    BY <2>2 DEF SupersedeIsLost, RowsAreBegun
  <2>3. CASE SetSnapshotSplit
    BY <2>3 DEF SetSnapshotSplit, RowsAreBegun
  <2>4. CASE PurgeBox
    BY <2>4 DEF PurgeBox, Queued, RowsAreBegun
  <2>5. ASSUME NEW r \in Rows, DeleteSnapshot(r) PROVE RowsAreBegun'
    BY <2>5 DEF DeleteSnapshot, Queued, Condemn, RowsAreBegun
  <2>6. ASSUME NEW r \in Rows, ClaimExpiredSnapshot(r) PROVE RowsAreBegun'
    BY <2>6 DEF ClaimExpiredSnapshot, Expires, Queued, Condemn, RowsAreBegun
  <2> QED BY <1>3, <2>1, <2>2, <2>3, <2>4, <2>5, <2>6 DEF Requests
<1>4. CASE Removal
  BY <1>4 DEF Removal, DeleteClaims, DeleteImage, RemoveSnapshotRow, DeleteDies,
     ReconcileImage, RowsAreBegun
<1>5. CASE UNCHANGED vars
  BY <1>5 DEF vars, RowsAreBegun
<1> QED BY <1>1, <1>2, <1>3, <1>4, <1>5 DEF Next

(* Each step takes the workflow to a step of its own operation; only a finished
   deletion leaves "deleted", and then nothing is promised. *)
LEMMA OpStep ==
  ASSUME CaptureInv, [Next]_vars
  PROVE  WorkflowMatchesOp'
<1> USE MaxRowsAssumption, CapturedRow DEF CaptureInv, TypeOK, Rows, CaptureSteps,
  Exists, Gone, snapshotVars, workflowVars
<1>1. CASE Starts
  <2>1. CASE StartManualSnapshot
    BY <2>1, LivingBoxLives DEF StartManualSnapshot, Start, WorkflowMatchesOp
  <2>2. CASE StartAutomaticSnapshot
    BY <2>2, LivingBoxLives DEF StartAutomaticSnapshot, Start, WorkflowMatchesOp
  <2>3. CASE StartUpdateOrReset
    BY <2>3, LivingBoxLives, OperationsAssumption DEF StartUpdateOrReset, Start,
       WorkflowMatchesOp
  <2>4. ASSUME NEW r \in Rows, StartRestore(r) PROVE WorkflowMatchesOp'
    BY <2>4, LivingBoxLives DEF StartRestore, Start, WorkflowMatchesOp
  <2>5. CASE StartDelete
    BY <2>5, LivingBoxLives DEF StartDelete, Start, WorkflowMatchesOp
  <2> QED BY <1>1, <2>1, <2>2, <2>3, <2>4, <2>5 DEF Starts
<1>2. CASE Workflow
  <2>1. CASE ReadRestoreTarget
    BY <2>1 DEF ReadRestoreTarget, Goto, WorkflowMatchesOp
  <2>2. CASE UpdateSkipped
    BY <2>2, LivingBoxLives DEF UpdateSkipped, Release, WorkflowMatchesOp
  <2>3. CASE BeginSnapshot
    BY <2>3 DEF BeginSnapshot, Queued, WorkflowMatchesOp
  <2>4. CASE CreateSnapshotImage
    BY <2>4 DEF CreateSnapshotImage, Goto, WorkflowMatchesOp
  <2>5. CASE MarkCreating
    BY <2>5 DEF MarkCreating, Goto, WorkflowMatchesOp
  <2>6. CASE ImageIsAvailable
    BY <2>6 DEF ImageIsAvailable, Goto, WorkflowMatchesOp
  <2>7. CASE CompleteSnapshot
    BY <2>7 DEF CompleteSnapshot, Goto, WorkflowMatchesOp
  <2>8. CASE CaptureThrows
    BY <2>8 DEF CaptureThrows, Goto, WorkflowMatchesOp
  <2>9. CASE FailSnapshot
    BY <2>9, LivingBoxLives DEF FailSnapshot, Release, WorkflowMatchesOp
  <2>10. CASE Destroy
    BY <2>10 DEF Destroy, Goto, WorkflowMatchesOp
  <2>11. CASE OperationSucceeds
    BY <2>11, LivingBoxLives DEF OperationSucceeds, Release, WorkflowMatchesOp
  <2>12. CASE BoxDeleted
    BY <2>12 DEF BoxDeleted, Release, Queued, WorkflowMatchesOp
  <2>13. CASE OperationFails
    BY <2>13, LivingBoxLives DEF OperationFails, Release, WorkflowMatchesOp
  <2> QED BY <1>2, <2>1, <2>2, <2>3, <2>4, <2>5, <2>6, <2>7, <2>8, <2>9, <2>10,
    <2>11, <2>12, <2>13 DEF Workflow
<1>3. CASE Requests
  BY <1>3 DEF Requests, SupersedeRollbackSnapshots, Queued, SupersedeIsLost,
     SetSnapshotSplit, PurgeBox, DeleteSnapshot, Condemn, ClaimExpiredSnapshot,
     WorkflowMatchesOp
<1>4. CASE Removal
  BY <1>4 DEF Removal, DeleteClaims, DeleteImage, RemoveSnapshotRow, DeleteDies,
     ReconcileImage, WorkflowMatchesOp
<1>5. CASE UNCHANGED vars
  BY <1>5 DEF vars, WorkflowMatchesOp
<1> QED BY <1>1, <1>2, <1>3, <1>4, <1>5 DEF Next

(* A deletion past its first call has marked its row, which stays marked. *)
LEMMA DeletionsStep ==
  ASSUME CaptureInv, [Next]_vars
  PROVE  DeletionsMark'
<1> USE MaxRowsAssumption, CapturedRow DEF CaptureInv, TypeOK, Rows, CaptureSteps,
  Exists, Gone, snapshotVars, workflowVars
<1>1. CASE Starts
  BY <1>1 DEF Starts, StartManualSnapshot, Start, StartAutomaticSnapshot,
     StartUpdateOrReset, StartRestore, StartDelete, DeletionsMark
<1>2. CASE Workflow
  <2>1. CASE ReadRestoreTarget
    BY <2>1 DEF ReadRestoreTarget, Goto, DeletionsMark
  <2>2. CASE UpdateSkipped
    BY <2>2 DEF UpdateSkipped, Release, DeletionsMark
  <2>3. CASE BeginSnapshot
    BY <2>3, EvictedRows DEF BeginSnapshot, RowsAreBegun, Queued, DeletionsMark
  <2>4. CASE CreateSnapshotImage
    BY <2>4 DEF CreateSnapshotImage, Goto, DeletionsMark
  <2>5. CASE MarkCreating
    BY <2>5 DEF MarkCreating, Goto, DeletionsMark
  <2>6. CASE ImageIsAvailable
    BY <2>6 DEF ImageIsAvailable, Goto, DeletionsMark
  <2>7. CASE CompleteSnapshot
    BY <2>7 DEF CompleteSnapshot, Goto, DeletionsMark
  <2>8. CASE CaptureThrows
    BY <2>8 DEF CaptureThrows, Goto, DeletionsMark
  <2>9. CASE FailSnapshot
    BY <2>9 DEF FailSnapshot, Release, DeletionsMark
  <2>10. CASE Destroy
    BY <2>10 DEF Destroy, Goto, DeletionsMark
  <2>11. CASE OperationSucceeds
    BY <2>11 DEF OperationSucceeds, Release, DeletionsMark
  <2>12. CASE BoxDeleted
    BY <2>12 DEF BoxDeleted, Release, Queued, DeletionsMark
  <2>13. CASE OperationFails
    BY <2>13 DEF OperationFails, Release, DeletionsMark
  <2> QED BY <1>2, <2>1, <2>2, <2>3, <2>4, <2>5, <2>6, <2>7, <2>8, <2>9, <2>10,
    <2>11, <2>12, <2>13 DEF Workflow
<1>3. CASE Requests
  BY <1>3 DEF Requests, SupersedeRollbackSnapshots, Queued, SupersedeIsLost,
     SetSnapshotSplit, PurgeBox, DeleteSnapshot, Condemn, ClaimExpiredSnapshot,
     DeletionsMark
<1>4. CASE Removal
  BY <1>4 DEF Removal, DeleteClaims, DeleteImage, RemoveSnapshotRow, DeleteDies,
     ReconcileImage, DeletionsMark
<1>5. CASE UNCHANGED vars
  BY <1>5 DEF vars, DeletionsMark
<1> QED BY <1>1, <1>2, <1>3, <1>4, <1>5 DEF Next

(* The row of a capture is as far as its step: a deletion takes it for good, and
   the reconciliation leaves its image alone. *)
LEMMA CaptureStep ==
  ASSUME CaptureInv, [Next]_vars
  PROVE  CaptureIsAsFar'
<1> USE MaxRowsAssumption, CapturedRow DEF CaptureInv, TypeOK, Rows, CaptureSteps,
  Exists, Gone, snapshotVars, workflowVars
<1>1. CASE Starts
  BY <1>1 DEF Starts, StartManualSnapshot, Start, StartAutomaticSnapshot,
     StartUpdateOrReset, StartRestore, StartDelete, CaptureIsAsFar
<1>2. CASE Workflow
  <2>1. CASE ReadRestoreTarget
    BY <2>1 DEF ReadRestoreTarget, Goto, CaptureIsAsFar
  <2>2. CASE UpdateSkipped
    BY <2>2 DEF UpdateSkipped, Release, CaptureIsAsFar
  <2>3. CASE BeginSnapshot
    BY <2>3 DEF BeginSnapshot, RowsAreBegun, Queued, CaptureIsAsFar
  <2>4. CASE CreateSnapshotImage
    BY <2>4 DEF CreateSnapshotImage, Goto, CaptureIsAsFar
  <2>5. CASE MarkCreating
    BY <2>5 DEF MarkCreating, Goto, CaptureIsAsFar
  <2>6. CASE ImageIsAvailable
    BY <2>6 DEF ImageIsAvailable, Goto, CaptureIsAsFar
  <2>7. CASE CompleteSnapshot
    BY <2>7 DEF CompleteSnapshot, Goto, CaptureIsAsFar
  <2>8. CASE CaptureThrows
    BY <2>8 DEF CaptureThrows, Goto, CaptureIsAsFar
  <2>9. CASE FailSnapshot
    BY <2>9 DEF FailSnapshot, Release, CaptureIsAsFar
  <2>10. CASE Destroy
    BY <2>10 DEF Destroy, Goto, CaptureIsAsFar
  <2>11. CASE OperationSucceeds
    BY <2>11 DEF OperationSucceeds, Release, CaptureIsAsFar
  <2>12. CASE BoxDeleted
    BY <2>12 DEF BoxDeleted, Release, Queued, CaptureIsAsFar
  <2>13. CASE OperationFails
    BY <2>13 DEF OperationFails, Release, CaptureIsAsFar
  <2> QED BY <1>2, <2>1, <2>2, <2>3, <2>4, <2>5, <2>6, <2>7, <2>8, <2>9, <2>10,
    <2>11, <2>12, <2>13 DEF Workflow
<1>3. CASE Requests
  BY <1>3 DEF Requests, SupersedeRollbackSnapshots, Queued, SupersedeIsLost,
     SetSnapshotSplit, PurgeBox, DeleteSnapshot, Condemn, ClaimExpiredSnapshot,
     CaptureIsAsFar
<1>4. CASE Removal
  <2>1. ASSUME NEW r \in Rows, DeleteClaims(r) PROVE CaptureIsAsFar'
    BY <2>1 DEF DeleteClaims, CaptureIsAsFar
  <2>2. ASSUME NEW r \in Rows, DeleteImage(r) PROVE CaptureIsAsFar'
    BY <2>2 DEF DeleteImage, DeletionsMark, CaptureIsAsFar
  <2>3. ASSUME NEW r \in Rows, RemoveSnapshotRow(r) PROVE CaptureIsAsFar'
    BY <2>3 DEF RemoveSnapshotRow, CaptureIsAsFar
  <2>4. ASSUME NEW r \in Rows, DeleteDies(r) PROVE CaptureIsAsFar'
    BY <2>4 DEF DeleteDies, CaptureIsAsFar
  <2>5. ASSUME NEW r \in Rows, ReconcileImage(r) PROVE CaptureIsAsFar'
    BY <2>5 DEF ReconcileImage, Known, CaptureIsAsFar
  <2> QED BY <1>4, <2>1, <2>2, <2>3, <2>4, <2>5 DEF Removal
<1>5. CASE UNCHANGED vars
  BY <1>5 DEF vars, CaptureIsAsFar
<1> QED BY <1>1, <1>2, <1>3, <1>4, <1>5 DEF Next

(* A row becomes complete with its image there, and its image goes only after it
   has ceased to be. *)
LEMMA CompleteStep ==
  ASSUME CaptureInv, [Next]_vars
  PROVE  CompleteRowsAreRestorable'
<1> USE MaxRowsAssumption, CapturedRow DEF CaptureInv, TypeOK, Rows, CaptureSteps,
  Exists, Gone, snapshotVars, workflowVars
<1>1. CASE Starts
  BY <1>1 DEF Starts, StartManualSnapshot, Start, StartAutomaticSnapshot,
     StartUpdateOrReset, StartRestore, StartDelete, CompleteRowsAreRestorable
<1>2. CASE Workflow
  <2>1. CASE ReadRestoreTarget
    BY <2>1 DEF ReadRestoreTarget, Goto, CompleteRowsAreRestorable
  <2>2. CASE UpdateSkipped
    BY <2>2 DEF UpdateSkipped, Release, CompleteRowsAreRestorable
  <2>3. CASE BeginSnapshot
    BY <2>3 DEF BeginSnapshot, Queued, CompleteRowsAreRestorable
  <2>4. CASE CreateSnapshotImage
    BY <2>4 DEF CreateSnapshotImage, Goto, CompleteRowsAreRestorable
  <2>5. CASE MarkCreating
    BY <2>5 DEF MarkCreating, Goto, CompleteRowsAreRestorable
  <2>6. CASE ImageIsAvailable
    BY <2>6 DEF ImageIsAvailable, Goto, CompleteRowsAreRestorable
  <2>7. CASE CompleteSnapshot
    BY <2>7 DEF CompleteSnapshot, CaptureIsAsFar, Goto, CompleteRowsAreRestorable
  <2>8. CASE CaptureThrows
    BY <2>8 DEF CaptureThrows, Goto, CompleteRowsAreRestorable
  <2>9. CASE FailSnapshot
    BY <2>9 DEF FailSnapshot, Release, CompleteRowsAreRestorable
  <2>10. CASE Destroy
    BY <2>10 DEF Destroy, Goto, CompleteRowsAreRestorable
  <2>11. CASE OperationSucceeds
    BY <2>11 DEF OperationSucceeds, Release, CompleteRowsAreRestorable
  <2>12. CASE BoxDeleted
    BY <2>12 DEF BoxDeleted, Release, Queued, CompleteRowsAreRestorable
  <2>13. CASE OperationFails
    BY <2>13 DEF OperationFails, Release, CompleteRowsAreRestorable
  <2> QED BY <1>2, <2>1, <2>2, <2>3, <2>4, <2>5, <2>6, <2>7, <2>8, <2>9, <2>10,
    <2>11, <2>12, <2>13 DEF Workflow
<1>3. CASE Requests
  BY <1>3 DEF Requests, SupersedeRollbackSnapshots, Queued, SupersedeIsLost,
     SetSnapshotSplit, PurgeBox, DeleteSnapshot, Condemn, ClaimExpiredSnapshot,
     CompleteRowsAreRestorable
<1>4. CASE Removal
  <2>1. ASSUME NEW r \in Rows, DeleteClaims(r) PROVE CompleteRowsAreRestorable'
    BY <2>1 DEF DeleteClaims, CompleteRowsAreRestorable
  <2>2. ASSUME NEW r \in Rows, DeleteImage(r) PROVE CompleteRowsAreRestorable'
    BY <2>2 DEF DeleteImage, DeletionsMark, CompleteRowsAreRestorable
  <2>3. ASSUME NEW r \in Rows, RemoveSnapshotRow(r) PROVE CompleteRowsAreRestorable'
    BY <2>3 DEF RemoveSnapshotRow, CompleteRowsAreRestorable
  <2>4. ASSUME NEW r \in Rows, DeleteDies(r) PROVE CompleteRowsAreRestorable'
    BY <2>4 DEF DeleteDies, CompleteRowsAreRestorable
  <2>5. ASSUME NEW r \in Rows, ReconcileImage(r) PROVE CompleteRowsAreRestorable'
    BY <2>5 DEF ReconcileImage, Known, CompleteRowsAreRestorable
  <2> QED BY <1>4, <2>1, <2>2, <2>3, <2>4, <2>5 DEF Removal
<1>5. CASE UNCHANGED vars
  BY <1>5 DEF vars, CompleteRowsAreRestorable
<1> QED BY <1>1, <1>2, <1>3, <1>4, <1>5 DEF Next

(* Evictions, supersession, retention and owners keep off an undo point while its
   operation is in progress. *)
LEMMA AloneStep ==
  ASSUME ~SupersedeIsLate, PromiseInv, [Next]_vars
  PROVE  CaptureIsLeftAlone'
<1> USE MaxRowsAssumption, OperationsAssumption, CapturedRow DEF PromiseInv,
  CaptureInv, TypeOK, WorkflowMatchesOp, Rows, CaptureSteps, Exists, Gone,
  snapshotVars, workflowVars
<1>1. CASE Starts
  BY <1>1 DEF Starts, StartManualSnapshot, Start, StartAutomaticSnapshot,
     StartUpdateOrReset, StartRestore, StartDelete, CaptureIsLeftAlone
<1>2. CASE Workflow
  <2>1. CASE ReadRestoreTarget
    BY <2>1 DEF ReadRestoreTarget, Goto, CaptureIsLeftAlone
  <2>2. CASE UpdateSkipped
    BY <2>2 DEF UpdateSkipped, Release, CaptureIsLeftAlone
  <2>3. CASE BeginSnapshot
    BY <2>3, EvictedRows DEF BeginSnapshot, RowsAreBegun, Queued, CaptureIsLeftAlone
  <2>4. CASE CreateSnapshotImage
    BY <2>4 DEF CreateSnapshotImage, Goto, CaptureIsLeftAlone
  <2>5. CASE MarkCreating
    BY <2>5 DEF MarkCreating, Goto, CaptureIsLeftAlone
  <2>6. CASE ImageIsAvailable
    BY <2>6 DEF ImageIsAvailable, Goto, CaptureIsLeftAlone
  <2>7. CASE CompleteSnapshot
    BY <2>7 DEF CompleteSnapshot, Goto, CaptureIsLeftAlone
  <2>8. CASE CaptureThrows
    BY <2>8 DEF CaptureThrows, Goto, CaptureIsLeftAlone
  <2>9. CASE FailSnapshot
    BY <2>9 DEF FailSnapshot, Release, CaptureIsLeftAlone
  <2>10. CASE Destroy
    BY <2>10 DEF Destroy, Goto, CaptureIsLeftAlone
  <2>11. CASE OperationSucceeds
    BY <2>11 DEF OperationSucceeds, Release, CaptureIsLeftAlone
  <2>12. CASE BoxDeleted
    BY <2>12 DEF BoxDeleted, Release, Queued, CaptureIsLeftAlone
  <2>13. CASE OperationFails
    BY <2>13 DEF OperationFails, Release, CaptureIsLeftAlone
  <2> QED BY <1>2, <2>1, <2>2, <2>3, <2>4, <2>5, <2>6, <2>7, <2>8, <2>9, <2>10,
    <2>11, <2>12, <2>13 DEF Workflow
<1>3. CASE Requests
  <2>1. CASE SupersedeRollbackSnapshots
    BY <2>1 DEF SupersedeRollbackSnapshots, UndoPointIsNewest, Queued,
       CaptureIsLeftAlone
  <2>2. CASE SupersedeIsLost
    BY <2>2 DEF SupersedeIsLost, CaptureIsLeftAlone
  <2>3. CASE SetSnapshotSplit
    BY <2>3 DEF SetSnapshotSplit, CaptureIsLeftAlone
  <2>4. CASE PurgeBox
    BY <2>4 DEF PurgeBox, Queued, CaptureIsLeftAlone
  <2>5. ASSUME NEW r \in Rows, DeleteSnapshot(r) PROVE CaptureIsLeftAlone'
    BY <2>5 DEF DeleteSnapshot, Deletable, Reserved, Queued, Condemn, CaptureIsLeftAlone
  <2>6. ASSUME NEW r \in Rows, ClaimExpiredSnapshot(r) PROVE CaptureIsLeftAlone'
    BY <2>6 DEF ClaimExpiredSnapshot, Expires, Queued, Condemn, CaptureIsLeftAlone
  <2> QED BY <1>3, <2>1, <2>2, <2>3, <2>4, <2>5, <2>6 DEF Requests
<1>4. CASE Removal
  BY <1>4 DEF Removal, DeleteClaims, DeleteImage, RemoveSnapshotRow, DeleteDies,
     ReconcileImage, CaptureIsLeftAlone
<1>5. CASE UNCHANGED vars
  BY <1>5 DEF vars, CaptureIsLeftAlone
<1> QED BY <1>1, <1>2, <1>3, <1>4, <1>5 DEF Next

(* A superseding pass finds the undo point of the operation that left it. *)
LEMMA UndoStep ==
  ASSUME ~SupersedeIsLate, PromiseInv, [Next]_vars
  PROVE  UndoPointIsNewest'
<1> USE MaxRowsAssumption, OperationsAssumption, CapturedRow DEF PromiseInv,
  CaptureInv, TypeOK, WorkflowMatchesOp, Rows, CaptureSteps, Exists, Gone,
  snapshotVars, workflowVars
<1>1. CASE Starts
  BY <1>1 DEF Starts, StartManualSnapshot, Start, StartAutomaticSnapshot,
     StartUpdateOrReset, StartRestore, StartDelete, UndoPointIsNewest
<1>2. CASE Workflow
  BY <1>2 DEF Workflow, ReadRestoreTarget, Goto, UpdateSkipped, Release,
     BeginSnapshot, Queued, CreateSnapshotImage, MarkCreating, ImageIsAvailable,
     CompleteSnapshot, CaptureThrows, FailSnapshot, Destroy, OperationSucceeds,
     BoxDeleted, OperationFails, UndoPointIsNewest
<1>3. CASE Requests
  BY <1>3 DEF Requests, SupersedeRollbackSnapshots, Queued, SupersedeIsLost,
     SetSnapshotSplit, PurgeBox, DeleteSnapshot, Condemn, ClaimExpiredSnapshot,
     UndoPointIsNewest
<1>4. CASE Removal
  BY <1>4 DEF Removal, DeleteClaims, DeleteImage, RemoveSnapshotRow, DeleteDies,
     ReconcileImage, UndoPointIsNewest
<1>5. CASE UNCHANGED vars
  BY <1>5 DEF vars, UndoPointIsNewest
<1> QED BY <1>1, <1>2, <1>3, <1>4, <1>5 DEF Next

(* Nothing that removes rows reaches a promised one. *)
LEMMA PromiseStep ==
  ASSUME ~SupersedeIsLate, PromiseInv, [Next]_vars
  PROVE  PromisesAreKept'
<1> USE MaxRowsAssumption, OperationsAssumption, CapturedRow DEF PromiseInv,
  CaptureInv, TypeOK, WorkflowMatchesOp, Rows, CaptureSteps, Exists, Gone,
  snapshotVars, workflowVars
<1>1. CASE Starts
  BY <1>1 DEF Starts, StartManualSnapshot, Start, StartAutomaticSnapshot,
     StartUpdateOrReset, StartRestore, StartDelete, PromisesAreKept
<1>2. CASE Workflow
  <2>1. CASE ReadRestoreTarget
    BY <2>1 DEF ReadRestoreTarget, Goto, PromisesAreKept
  <2>2. CASE UpdateSkipped
    BY <2>2 DEF UpdateSkipped, Release, PromisesAreKept
  <2>3. CASE BeginSnapshot
    BY <2>3, EvictedRows DEF BeginSnapshot, RowsAreBegun, Queued, PromisesAreKept
  <2>4. CASE CreateSnapshotImage
    BY <2>4 DEF CreateSnapshotImage, Goto, PromisesAreKept
  <2>5. CASE MarkCreating
    BY <2>5 DEF MarkCreating, CaptureIsAsFar, Goto, PromisesAreKept
  <2>6. CASE ImageIsAvailable
    BY <2>6 DEF ImageIsAvailable, Goto, PromisesAreKept
  <2>7. CASE CompleteSnapshot
    <3>1. cur \in Rows
      BY <2>7 DEF CompleteSnapshot
    <3>2. CASE Gone(cur)
      <4>1. row' = row /\ promised' = promised /\ op \notin Operations
        BY <2>7, <3>2 DEF CompleteSnapshot, CaptureIsLeftAlone
      <4> QED BY <2>7, <4>1 DEF CompleteSnapshot, Goto, PromisesAreKept
    <3>3. CASE ~Gone(cur)
      <4>1. row' = [row EXCEPT ![cur] = "complete"]
        BY <2>7, <3>3 DEF CompleteSnapshot, CaptureIsAsFar
      <4>2. promised' = promised \/ (op = "manual" /\ promised' = promised \cup {cur})
        BY <2>7, <3>3 DEF CompleteSnapshot
      <4>3. op = "manual" => class[cur] = "manual" /\ deleter[cur] = "idle"
        BY <2>7, <3>3 DEF CompleteSnapshot, CaptureIsLeftAlone
      <4> QED BY <2>7, <3>1, <4>1, <4>2, <4>3 DEF CompleteSnapshot, Goto,
        PromisesAreKept
    <3> QED BY <3>2, <3>3
  <2>8. CASE CaptureThrows
    BY <2>8 DEF CaptureThrows, Goto, PromisesAreKept
  <2>9. CASE FailSnapshot
    BY <2>9 DEF FailSnapshot, CaptureIsAsFar, Release, PromisesAreKept
  <2>10. CASE Destroy
    BY <2>10 DEF Destroy, CaptureIsLeftAlone, Goto, PromisesAreKept
  <2>11. CASE OperationSucceeds
    BY <2>11 DEF OperationSucceeds, Release, PromisesAreKept
  <2>12. CASE BoxDeleted
    BY <2>12 DEF BoxDeleted, Release, Queued, PromisesAreKept
  <2>13. CASE OperationFails
    BY <2>13 DEF OperationFails, Release, PromisesAreKept
  <2> QED BY <1>2, <2>1, <2>2, <2>3, <2>4, <2>5, <2>6, <2>7, <2>8, <2>9, <2>10,
    <2>11, <2>12, <2>13 DEF Workflow
<1>3. CASE Requests
  <2>1. CASE SupersedeRollbackSnapshots
    BY <2>1 DEF SupersedeRollbackSnapshots, InClass, Kept, RowsAreBegun,
       UndoPointIsNewest, Queued, PromisesAreKept
  <2>2. CASE SupersedeIsLost
    BY <2>2 DEF SupersedeIsLost, PromisesAreKept
  <2>3. CASE SetSnapshotSplit
    BY <2>3 DEF SetSnapshotSplit, PromisesAreKept
  <2>4. CASE PurgeBox
    BY <2>4 DEF PurgeBox, Queued, PromisesAreKept
  <2>5. ASSUME NEW r \in Rows, DeleteSnapshot(r) PROVE PromisesAreKept'
    BY <2>5 DEF DeleteSnapshot, Deletable, Reserved, CaptureIsLeftAlone, Queued, Condemn,
       PromisesAreKept
  <2>6. ASSUME NEW r \in Rows, ClaimExpiredSnapshot(r) PROVE PromisesAreKept'
    BY <2>6 DEF ClaimExpiredSnapshot, Expires, CaptureIsLeftAlone, Queued, Condemn,
       PromisesAreKept
  <2> QED BY <1>3, <2>1, <2>2, <2>3, <2>4, <2>5, <2>6 DEF Requests
<1>4. CASE Removal
  <2>1. ASSUME NEW r \in Rows, DeleteClaims(r) PROVE PromisesAreKept'
    BY <2>1 DEF DeleteClaims, CaptureIsLeftAlone, PromisesAreKept
  <2>2. ASSUME NEW r \in Rows, DeleteImage(r) PROVE PromisesAreKept'
    BY <2>2 DEF DeleteImage, PromisesAreKept
  <2>3. ASSUME NEW r \in Rows, RemoveSnapshotRow(r) PROVE PromisesAreKept'
    BY <2>3 DEF RemoveSnapshotRow, DeletionsMark, CaptureIsLeftAlone,
       PromisesAreKept
  <2>4. ASSUME NEW r \in Rows, DeleteDies(r) PROVE PromisesAreKept'
    BY <2>4 DEF DeleteDies, PromisesAreKept
  <2>5. ASSUME NEW r \in Rows, ReconcileImage(r) PROVE PromisesAreKept'
    BY <2>5 DEF ReconcileImage, PromisesAreKept
  <2> QED BY <1>4, <2>1, <2>2, <2>3, <2>4, <2>5 DEF Removal
<1>5. CASE UNCHANGED vars
  BY <1>5 DEF vars, PromisesAreKept
<1> QED BY <1>1, <1>2, <1>3, <1>4, <1>5 DEF Next

(* The invariant of the captures holds at first ... *)
LEMMA CaptureInvInit == Init => CaptureInv
BY MaxRowsAssumption, PlanCapAssumption
   DEF Init, CaptureInv, TypeOK, RowsAreBegun, WorkflowMatchesOp, DeletionsMark,
       CaptureIsAsFar, CompleteRowsAreRestorable, Rows, Steps, CaptureSteps, Gone,
       BoxStatuses, RestingStatuses

(* ... and every step keeps it. *)
LEMMA CaptureInvStep == CaptureInv /\ [Next]_vars => CaptureInv'
<1> SUFFICES ASSUME CaptureInv, [Next]_vars PROVE CaptureInv'
  OBVIOUS
<1>1. TypeOK /\ WorkflowMatchesOp
  BY DEF CaptureInv
<1> QED BY <1>1, TypeStep, RowsStep, OpStep, DeletionsStep, CaptureStep,
  CompleteStep
         DEF CaptureInv

(* ... so always. *)
LEMMA CaptureInvHolds == Spec => []CaptureInv
BY CaptureInvInit, CaptureInvStep, PTL DEF Spec

(* The type invariant of box snapshots, for any plan, any number of rows and
   whichever operations. *)
THEOREM SnapshotsTypeCorrect == Spec => []TypeOK
<1>1. CaptureInv => TypeOK
  BY DEF CaptureInv
<1> QED BY <1>1, CaptureInvHolds, PTL

(* Whatever deletes images - a deletion that died half way and was asked for
   again, an eviction, the retention, the purge or the reconciliation - none goes
   while its row is complete, so what is offered for a restore can be restored. *)
THEOREM CompleteRowsStayRestorable == Spec => []CompleteRowsAreRestorable
<1>1. CaptureInv => CompleteRowsAreRestorable
  BY DEF CaptureInv
<1> QED BY <1>1, CaptureInvHolds, PTL

(* Where the superseding pass of one operation is over when the next one starts,
   the copies the owner was promised exist, and no operation that cannot be
   undone does anything before its copy is usable. *)
THEOREM PromisedCopiesStay ==
  ASSUME ~SupersedeIsLate
  PROVE  Spec => [](PromisedCopiesExist /\ CopyComesFirst)
<1>1. Init => PromiseInv
  BY CaptureInvInit DEF Init, PromiseInv, CaptureIsLeftAlone, UndoPointIsNewest,
     PromisesAreKept, CaptureSteps
<1>2. PromiseInv /\ [Next]_vars => PromiseInv'
  <2> SUFFICES ASSUME PromiseInv, [Next]_vars PROVE PromiseInv'
    OBVIOUS
  <2>1. CaptureInv'
    BY CaptureInvStep DEF PromiseInv
  <2> QED BY <2>1, AloneStep, UndoStep, PromiseStep DEF PromiseInv
<1>3. PromiseInv => PromisedCopiesExist /\ CopyComesFirst
  <2> SUFFICES ASSUME PromiseInv PROVE PromisedCopiesExist /\ CopyComesFirst
    OBVIOUS
  <2>1. CompleteRowsAreRestorable /\ promised \subseteq Rows
    BY DEF PromiseInv, CaptureInv, TypeOK
  <2>2. PromisedCopiesExist
    BY <2>1 DEF PromiseInv, PromisesAreKept, PromisedCopiesExist,
       CompleteRowsAreRestorable
  <2>3. pc = "destroy" => cur \in Rows
    BY CapturedRow DEF PromiseInv, CaptureInv
  <2>4. CopyComesFirst
    BY <2>1, <2>3 DEF PromiseInv, PromisesAreKept, CopyComesFirst,
       CompleteRowsAreRestorable
  <2> QED BY <2>2, <2>4
<1> QED BY <1>1, <1>2, <1>3, PTL DEF Spec
-----------------------------------------------------------------------------
(* The split *)

(* Sets of rows are finite. *)
LEMMA RowSets ==
  ASSUME NEW rs, rs \subseteq Rows
  PROVE  IsFiniteSet(rs) /\ Cardinality(rs) \in Nat
<1>1. IsFiniteSet(Rows)
  BY MaxRowsAssumption, FS_Interval DEF Rows
<1>2. IsFiniteSet(rs)
  BY <1>1, FS_Subset
<1> QED BY <1>2, FS_CardinalityType

(* Of a set of rows some are given up and one is added: it has as many fewer, and
   one more. *)
LEMMA OneForMany ==
  ASSUME NEW old, old \subseteq Rows, NEW out, out \subseteq old,
         NEW r \in Rows, NEW new, new \subseteq (old \ out) \cup {r}
  PROVE  Cardinality(new) <= Cardinality(old) - Cardinality(out) + 1
<1> DEFINE rest == old \ out
           more == rest \cup {r}
<1>1. /\ IsFiniteSet(old) /\ IsFiniteSet(rest)
      /\ Cardinality(rest) \in Nat /\ Cardinality(old) \in Nat
      /\ Cardinality(out) \in Nat
  BY RowSets
<1>2. Cardinality(rest) = Cardinality(old) - Cardinality(old \cap out)
  BY <1>1, FS_Difference
<1>3. old \cap out = out
  OBVIOUS
<1>4. Cardinality(rest) = Cardinality(old) - Cardinality(out)
  BY <1>2, <1>3
<1>5. more \subseteq Rows /\ new \subseteq more
  OBVIOUS
<1> HIDE DEF rest
<1>6. Cardinality(more) = IF r \in rest THEN Cardinality(rest) ELSE Cardinality(rest) + 1
  BY <1>1, FS_AddElement
<1> HIDE DEF more
<1>7. /\ IsFiniteSet(more) /\ Cardinality(more) \in Nat
      /\ new \subseteq Rows /\ Cardinality(new) \in Nat
  BY <1>5, RowSets
<1>8. Cardinality(new) <= Cardinality(more)
  BY <1>5, <1>7, FS_Subset
<1> QED BY <1>1, <1>4, <1>6, <1>7, <1>8

(* Rows that held a slot of a class before a capture began hold it still, but for
   those evicted to make room for it. *)
LEMMA HoldersOfBegin ==
  ASSUME CaptureInv, BeginSnapshot, NEW c \in {"manual", "scheduled"},
         class'[begun'] = c
  PROVE  /\ begun' \in Rows /\ CanInsert(c)
         /\ Evictions(c) \subseteq Counted(c)
         /\ Holding(c)' \subseteq (Counted(c) \ Evictions(c)) \cup {begun'}
<1> DEFINE k == IF op \in Operations THEN "rollback" ELSE op
           r == begun + 1
<1>0. /\ begun \in 0..MaxRows /\ class \in [Rows -> Classes \cup {"none"}]
      /\ row \in [Rows -> {"none", "pending", "creating", "complete", "failed",
                           "deleting", "removed"}]
      /\ deleter \in [Rows -> {"idle", "queued", "claimed", "cleared"}]
  BY DEF CaptureInv, TypeOK
<1>1. /\ begun < MaxRows /\ begun' = r /\ class' = [class EXCEPT ![r] = k]
      /\ row' = [row EXCEPT ![r] = "pending"] /\ CanInsert(k) /\ Queued(Evictions(k))
  BY DEF BeginSnapshot
<1>2. r \in Rows
  BY <1>0, <1>1, MaxRowsAssumption DEF Rows
<1>3. k = c
  BY <1>0, <1>1, <1>2
<1> HIDE DEF k, r
<1>4. Evictions(c) \subseteq Counted(c)
  <2>1. CASE c = "scheduled"
    BY <2>1 DEF Evictions, Oldest, Counted
  <2>2. CASE c # "scheduled"
    BY <2>2 DEF Evictions
  <2> QED BY <2>1, <2>2
<1>5. Holding(c)' \subseteq (Counted(c) \ Evictions(c)) \cup {r}
  <2> SUFFICES ASSUME NEW x \in Rows, x # r, row'[x] \notin {"none", "removed"},
                      class'[x] = c, row'[x] \in {"pending", "creating", "complete"},
                      deleter'[x] = "idle"
               PROVE  x \in Counted(c) /\ x \notin Evictions(c)
    BY DEF Holding, Counted, InClass, Exists
  <2>1. row'[x] = row[x] /\ class'[x] = class[x]
    BY <1>0, <1>1
  <2>2. x \in Counted(c)
    BY <2>1 DEF Counted, InClass, Exists
  <2>3. x \notin Evictions(c)
    BY <1>0, <1>1, <1>3 DEF Queued
  <2> QED BY <2>2, <2>3
<1> QED BY <1>1, <1>2, <1>3, <1>4, <1>5

(* However the split was moved since its operation was admitted, a capture that
   begins finds room in its class, or has asked for the eviction of as many rows
   as it takes, for any plan and any number of rows. *)
THEOREM CapturesFitTheSplitCorrect == Spec => CapturesFitTheSplit
<1>1. ASSUME CaptureInv, [Next]_vars, NEW c \in {"manual", "scheduled"},
             begun' # begun, class'[begun'] = c
      PROVE  Cardinality(Holding(c)') =< Cap(c)
  <2>1. BeginSnapshot
    BY <1>1 DEF Next, Starts, Workflow, Requests, Removal, vars, snapshotVars, Start,
       StartManualSnapshot, StartAutomaticSnapshot, StartUpdateOrReset, StartRestore,
       StartDelete, ReadRestoreTarget, UpdateSkipped, CreateSnapshotImage, MarkCreating,
       ImageIsAvailable, CompleteSnapshot, CaptureThrows, FailSnapshot, Destroy,
       OperationSucceeds, BoxDeleted, OperationFails, SupersedeRollbackSnapshots,
       SupersedeIsLost, SetSnapshotSplit, PurgeBox, DeleteSnapshot, ClaimExpiredSnapshot,
       DeleteClaims, DeleteImage, RemoveSnapshotRow, DeleteDies, ReconcileImage
  <2>2. /\ begun' \in Rows /\ CanInsert(c) /\ Evictions(c) \subseteq Counted(c)
        /\ Holding(c)' \subseteq (Counted(c) \ Evictions(c)) \cup {begun'}
    BY <1>1, <2>1, HoldersOfBegin
  <2>3. Counted(c) \subseteq Rows
    BY DEF Counted, InClass
  <2>4. Cardinality(Holding(c)') <= Cardinality(Counted(c)) - Cardinality(Evictions(c)) + 1
    BY <2>2, <2>3, OneForMany
  <2>5. Cap(c) \in Nat
    BY <1>1, PlanCapAssumption DEF CaptureInv, TypeOK, Cap
  <2>6. /\ Cardinality(Counted(c)) \in Nat /\ Cardinality(Evictions(c)) \in Nat
        /\ Cardinality(Holding(c)') \in Nat
    BY <2>2, <2>3, RowSets
  <2>7. CASE c = "manual"
    <3>1. Cardinality(Counted(c)) < Cap(c) /\ Evictions(c) = {}
      BY <2>2, <2>7 DEF CanInsert, Reserved, Evictions
    <3>2. Cardinality(Evictions(c)) = 0
      BY <3>1, FS_EmptySet
    <3> QED BY <2>4, <2>5, <2>6, <3>1, <3>2
  <2>8. CASE c = "scheduled"
    <3>1. Cardinality(Evictions(c)) = RequiredEvictions
      BY <2>2, <2>8 DEF CanInsert, Reserved
    <3>2. RequiredEvictions = IF Cardinality(Counted(c)) >= Cap(c)
                                THEN Cardinality(Counted(c)) - Cap(c) + 1 ELSE 0
      BY <2>8 DEF RequiredEvictions
    <3> QED BY <2>4, <2>5, <2>6, <3>1, <3>2
  <2> QED BY <2>7, <2>8
<1>2. CaptureInv /\ [Next]_vars =>
        [\A c \in {"manual", "scheduled"} :
           begun' # begun /\ class'[begun'] = c
             => Cardinality(Holding(c)') =< Cap(c)]_vars
  BY <1>1
<1> QED BY <1>2, CaptureInvHolds, PTL DEF Spec, CapturesFitTheSplit
=============================================================================
