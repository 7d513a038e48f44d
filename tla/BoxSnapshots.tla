---------------------------- MODULE BoxSnapshots ----------------------------
(***************************************************************************)
(* The snapshots of one box: rows of `box_snapshots`, the provider images  *)
(* behind them, and everything that creates or removes either.  A capture  *)
(* is an operation of its own (manual, scheduled) or the first part of one *)
(* that cannot be undone (update, reset, restore), whose copy is the box's *)
(* undo point.  Rows and images are removed by runDelete, an action that   *)
(* the scheduler runs at most once per request and that may die between    *)
(* any two of its calls; the daily reconciliation removes images no row    *)
(* names.                                                                  *)
(*                                                                         *)
(* The operation lock (module BoxOperation) gives one operation at a time. *)
(* The pass that supersedes old undo points runs after its operation has   *)
(* released the lock, so beside whatever the box does next.                *)
(***************************************************************************)
EXTENDS BoxCatalogue, FiniteSets, Naturals

CONSTANTS MaxRows,         \* bound on how many snapshots are ever begun
          PlanCap,         \* snapshotCap of the box's plan, which has manual ones
          Operations,      \* the operations of this instance that cannot be undone
          SupersedeIsLate  \* whether the superseding pass of one operation may
                           \* still be to come when the next operation starts

ASSUME MaxRowsAssumption == MaxRows \in Nat \ {0}
ASSUME PlanCapAssumption == PlanCap \in Nat \ {0}
ASSUME OperationsAssumption == Operations \subseteq {"update", "reset", "restore"}
ASSUME SupersedeIsLateAssumption == SupersedeIsLate \in BOOLEAN

VARIABLES
  status,     \* boxes.status
  manualCap,  \* boxes.manual_snapshot_cap
  begun,      \* how many rows were ever inserted: row r is the r-th by created_at
  class,      \* class[r]
  row,        \* row[r]: the row's status, "none" before it and "removed" after it
  named,      \* named[r]: the row's hetzner_image_id is set
  image,      \* image[r]: the provider's image labelled with r
  deleter,    \* deleter[r]: where runDelete stands with r
  op,         \* the operation in progress: a class of snapshot, or a type
  pc,         \* the next step of its workflow
  cur,        \* the row it captures, 0 for none yet
  source,     \* the row a restore restores from
  tails,      \* superseding passes still to run
  promised    \* the copies the owner has been promised (history)

snapshotVars == <<begun, class, row, named, image, deleter>>
workflowVars == <<op, pc, cur, source>>
vars == <<status, manualCap, snapshotVars, workflowVars, tails, promised>>

Rows == 1..MaxRows
(* SNAPSHOT_CLASSES.  Two are "reserved"; of these "duplicate" is declared for
   checkouts, and no capture of it is begun anywhere in the code yet. *)
Reserved == {"rollback", "duplicate"}
Classes == {"manual", "scheduled"} \cup Reserved

Steps ==
  {"idle", "target", "begin", "create", "mark", "poll", "complete", "fail",
   "destroy", "succeed", "delete"}

(* The type invariant: what each field of the rows, of the workflow and of the
   deletions may hold *)
TypeOK ==
  /\ status \in BoxStatuses
  /\ manualCap \in 0..PlanCap
  /\ begun \in 0..MaxRows
  /\ class \in [Rows -> Classes \cup {"none"}]
  /\ row \in [Rows -> {"none", "pending", "creating", "complete", "failed",
                       "deleting", "removed"}]
  /\ named \in [Rows -> BOOLEAN]
  /\ image \in [Rows -> {"none", "creating", "available"}]
  /\ deleter \in [Rows -> {"idle", "queued", "claimed", "cleared"}]
  /\ op \in {"none", "manual", "scheduled", "delete"} \cup Operations
  /\ pc \in Steps
  /\ cur \in 0..MaxRows
  /\ source \in 0..MaxRows
  /\ tails \in Nat
  /\ promised \subseteq Rows

Init ==
  /\ status = "running"
  /\ manualCap \in 0..PlanCap
  /\ begun = 0
  /\ class = [r \in Rows |-> "none"]
  /\ row = [r \in Rows |-> "none"]
  /\ named = [r \in Rows |-> FALSE]
  /\ image = [r \in Rows |-> "none"]
  /\ deleter = [r \in Rows |-> "idle"]
  /\ op = "none"
  /\ pc = "idle"
  /\ cur = 0
  /\ source = 0
  /\ tails = 0
  /\ promised = {}
-----------------------------------------------------------------------------
(* Rows *)

Exists(r) == row[r] \notin {"none", "removed"}

(* ACTIVE_SNAPSHOT_STATUSES *)
InClass(c) == {r \in Rows : Exists(r) /\ class[r] = c}
Counted(c) == {r \in InClass(c) : row[r] \in {"pending", "creating", "complete"}}

(* resolveSnapshotSplit *)
Cap(c) == IF c = "manual" THEN manualCap ELSE PlanCap - manualCap

(* SNAPSHOT_CLASSES[class].deletable *)
Deletable(r) == class[r] \notin Reserved

(* ctx.scheduler.runAfter(0, runDelete): a request while one is under way for
   the same row adds nothing. *)
Queued(rs) ==
  deleter' = [r \in Rows |-> IF r \in rs /\ deleter[r] = "idle" THEN "queued"
                                                                ELSE deleter[r]]

Oldest(rs, n) == {r \in rs : Cardinality({p \in rs : p < r}) < n}

(* A bug the run must catch: no second look at the split *)
CanInsertUnchecked(c) == TRUE

(* snapshotCapacityPlan.  "automatic" makes room by evicting its own oldest
   complete rows, "manual" refuses, "reserved" is always admitted. *)
RequiredEvictions ==
  LET count == Cardinality(Counted("scheduled"))
  IN  IF count >= Cap("scheduled") THEN count - Cap("scheduled") + 1 ELSE 0

Evictions(c) ==
  IF c # "scheduled" THEN {}
  ELSE Oldest({r \in InClass(c) : row[r] = "complete"}, RequiredEvictions)

CanInsert(c) ==
  CASE c \in Reserved -> TRUE
    [] c = "manual"   -> Cardinality(Counted(c)) < Cap(c)
    [] OTHER          -> /\ Cardinality(Counted(c)) =< 2 * Cap(c)
                         /\ Cardinality(Evictions(c)) = RequiredEvictions
-----------------------------------------------------------------------------
(* Operations *)

TypeOf(o) == IF o \in {"manual", "scheduled"} THEN "snapshot" ELSE o

(* startOperation, for an operation whose workflow begins at `first` *)
Start(o, first) ==
  /\ op = "none"
  /\ status \in From(TypeOf(o))
  /\ tails > 0 => SupersedeIsLate
  /\ status' = Moved(status, During(TypeOf(o)))
  /\ op' = o
  /\ pc' = first
  /\ cur' = 0
  /\ UNCHANGED <<manualCap, snapshotVars, tails, promised>>

(* startManualSnapshot: no capture may be in flight, whoever asked for it; the
   cooldown only delays the owner. *)
StartManualSnapshot ==
  /\ \A r \in Rows : Exists(r) /\ (\A p \in Rows : Exists(p) => p =< r)
       => row[r] \notin {"pending", "creating"}
  /\ Cardinality(Counted("manual")) < Cap("manual")
  /\ Start("manual", "begin")
  /\ UNCHANGED source

StartAutomaticSnapshot ==
  /\ Cap("scheduled") > 0
  /\ Start("scheduled", "begin")
  /\ UNCHANGED source

StartUpdateOrReset ==
  /\ \E t \in Operations \ {"restore"} : Start(t, "begin")
  /\ UNCHANGED source

StartRestore(r) ==
  /\ "restore" \in Operations
  /\ row[r] = "complete"
  /\ source' = r
  /\ Start("restore", "target")

StartDelete == Start("delete", "delete") /\ UNCHANGED source

(* The lock is released with the status the outcome decides. *)
Release(target) ==
  /\ status' = Moved(status, target)
  /\ op' = "none"
  /\ pc' = "idle"
  /\ cur' = 0
  /\ source' = 0

(* A step throws outside the capture's try, or the workflow dies or is
   cancelled at any step: the row it was capturing stays as it is. *)
OperationFails ==
  /\ op # "none"
  /\ Release(OnFailure(TypeOf(op)))
  /\ UNCHANGED <<manualCap, snapshotVars, tails, promised>>

Goto(step) == pc' = step /\ UNCHANGED <<op, cur, source>>

(* snapshotRestoreTarget, which throws unless the row is still restorable *)
ReadRestoreTarget ==
  /\ pc = "target"
  /\ row[source] = "complete"
  /\ named[source]
  /\ Goto("begin")
  /\ UNCHANGED <<status, manualCap, snapshotVars, tails, promised>>

(* updateAlreadyApplied *)
UpdateSkipped ==
  /\ pc = "begin"
  /\ op = "update"
  /\ Release("running")
  /\ UNCHANGED <<manualCap, snapshotVars, tails, promised>>

BeginSnapshot ==
  LET c == IF op \in Operations THEN "rollback" ELSE op
      r == begun + 1
  IN  /\ pc = "begin"
      /\ begun < MaxRows
      /\ CanInsert(c)
      /\ begun' = r
      /\ class' = [class EXCEPT ![r] = c]
      /\ row' = [row EXCEPT ![r] = "pending"]
      /\ Queued(Evictions(c))
      /\ cur' = r
      /\ pc' = "create"
      /\ UNCHANGED <<status, manualCap, named, image, op, source, tails, promised>>

(* createSnapshotImage, which first looks for an image with the row's label; its
   effect may be reported as a failure and is then tried again. *)
CreateSnapshotImage ==
  /\ pc = "create"
  /\ image' = [image EXCEPT ![cur] = IF @ = "none" THEN "creating" ELSE @]
  /\ \E step \in {"create", "mark"} : Goto(step)
  /\ UNCHANGED <<status, manualCap, begun, class, row, named, deleter, tails, promised>>

MarkCreating ==
  /\ pc = "mark"
  /\ IF Exists(cur) /\ row[cur] # "deleting"
       THEN /\ row' = [row EXCEPT ![cur] = "creating"]
            /\ named' = [named EXCEPT ![cur] = TRUE]
       ELSE UNCHANGED <<row, named>>
  /\ Goto("poll")
  /\ UNCHANGED <<status, manualCap, begun, class, image, deleter, tails, promised>>

(* getAction and getImage until the image is `available`, which the provider
   makes it in its own time *)
ImageIsAvailable ==
  /\ pc = "poll"
  /\ image[cur] # "none"
  /\ image' = [image EXCEPT ![cur] = "available"]
  /\ Goto("complete")
  /\ UNCHANGED <<status, manualCap, begun, class, row, named, deleter, tails, promised>>

(* completeSnapshot, silent when the row is gone or going; then the capture's
   caller goes on. *)
CompleteSnapshot ==
  /\ pc = "complete"
  /\ IF Exists(cur) /\ row[cur] # "deleting"
       THEN /\ row' = [row EXCEPT ![cur] = "complete"]
            /\ promised' = IF op = "manual" THEN promised \cup {cur} ELSE promised
       ELSE UNCHANGED <<row, promised>>
  /\ Goto(IF op \in Operations THEN "destroy" ELSE "succeed")
  /\ UNCHANGED <<status, manualCap, begun, class, named, image, deleter, tails>>

(* Any step inside the try throws: a call, a deadline, a failed action. *)
CaptureThrows ==
  /\ pc \in {"create", "mark", "poll", "complete"}
  /\ Goto("fail")
  /\ UNCHANGED <<status, manualCap, snapshotVars, tails, promised>>

(* failSnapshot, then the rethrow that fails the operation *)
FailSnapshot ==
  /\ pc = "fail"
  /\ row' = IF Exists(cur) /\ row[cur] # "deleting"
              THEN [row EXCEPT ![cur] = "failed"] ELSE row
  /\ Release(OnFailure(TypeOf(op)))
  /\ UNCHANGED <<manualCap, begun, class, named, image, deleter, tails, promised>>

(* rebuildServer or updateRuntime: from its first effect on, the copy just taken
   is the only way back, and the earlier undo points no longer are. *)
Destroy ==
  /\ pc = "destroy"
  /\ op = "restore" => image[source] = "available"
  /\ promised' = {r \in promised : class[r] # "rollback"} \cup {cur}
  /\ \E step \in {"destroy", "succeed"} : Goto(step)
  /\ UNCHANGED <<status, manualCap, snapshotVars, tails>>

(* markUpdateSucceeded, markResetSucceeded, markRestoreSucceeded, and a snapshot
   operation's settle.  The superseding pass is the workflow's next step. *)
OperationSucceeds ==
  /\ pc = "succeed"
  /\ Release(OnSuccess(TypeOf(op)))
  /\ tails' = IF op \in Operations THEN tails + 1 ELSE tails
  /\ UNCHANGED <<manualCap, snapshotVars, promised>>

(* A bug the run must catch: the first complete row from the wrong end *)
KeptOldest(r) ==
  /\ row[r] = "complete"
  /\ \A p \in InClass("rollback") : row[p] = "complete" => r =< p

(* The newest complete undo point, the one the pass keeps *)
Kept(r) ==
  /\ row[r] = "complete"
  /\ \A p \in InClass("rollback") : row[p] = "complete" => p =< r

SupersedeRollbackSnapshots ==
  /\ tails > 0
  /\ tails' = tails - 1
  /\ Queued({r \in InClass("rollback") : ~Kept(r)})
  /\ UNCHANGED <<status, manualCap, begun, class, row, named, image, workflowVars, promised>>

(* The workflow dies between its success mutation and this step. *)
SupersedeIsLost ==
  /\ tails > 0
  /\ tails' = tails - 1
  /\ UNCHANGED <<status, manualCap, snapshotVars, workflowVars, promised>>

(* deleteRuntime, then markDeleted and its cascade over the box's rows *)
BoxDeleted ==
  /\ pc = "delete"
  /\ Release("deleted")
  /\ Queued({r \in Rows : Exists(r)})
  /\ promised' = {}
  /\ UNCHANGED <<manualCap, begun, class, row, named, image, tails>>
-----------------------------------------------------------------------------
(* Requests from outside the workflows *)

SetSnapshotSplit ==
  /\ status # "deleted"
  /\ manualCap' \in (0..PlanCap) \ {manualCap}
  /\ UNCHANGED <<status, snapshotVars, workflowVars, tails, promised>>

(* markSnapshotDeleting and the request for runDelete, in one mutation *)
Condemn(r) ==
  /\ row' = [row EXCEPT ![r] = "deleting"]
  /\ promised' = promised \ {r}

DeleteSnapshot(r) ==
  /\ Exists(r)
  /\ Deletable(r)
  /\ Condemn(r)
  /\ Queued({r})
  /\ UNCHANGED <<status, manualCap, begun, class, named, image, workflowVars, tails>>

(* DELETABLE_SNAPSHOT_STATUSES with an expiry that has passed.  A complete
   manual row has none, and a capture is over, and its operation too, long
   before its row's day is. *)
Expires(r) ==
  /\ row[r] \in {"pending", "creating", "complete", "failed"}
  /\ ~(row[r] = "complete" /\ class[r] = "manual")
  /\ ~(op # "none" /\ cur = r)

(* claimExpiredSnapshots is a mutation, the requests for runDelete are made by
   the action that called it, which may die first. *)
ClaimExpiredSnapshot(r) ==
  /\ Expires(r)
  /\ Condemn(r)
  /\ Queued({r}) \/ UNCHANGED deleter
  /\ UNCHANGED <<status, manualCap, begun, class, named, image, workflowVars, tails>>

(* purgeBox, every minute until a deleted box has no snapshot left *)
PurgeBox ==
  /\ status = "deleted"
  /\ \E r \in Rows : Exists(r) /\ deleter[r] = "idle"
  /\ Queued({r \in Rows : Exists(r)})
  /\ UNCHANGED <<status, manualCap, begun, class, row, named, image, workflowVars,
                 tails, promised>>
-----------------------------------------------------------------------------
(* runDelete *)

(* claimSnapshotDelete *)
DeleteClaims(r) ==
  /\ deleter[r] = "queued"
  /\ IF Exists(r)
       THEN /\ row' = [row EXCEPT ![r] = "deleting"]
            /\ deleter' = [deleter EXCEPT ![r] = "claimed"]
       ELSE /\ deleter' = [deleter EXCEPT ![r] = "idle"]
            /\ UNCHANGED row
  /\ UNCHANGED <<status, manualCap, begun, class, named, image, workflowVars, tails,
                 promised>>

(* deleteImage, to which an image already gone is no error *)
DeleteImage(r) ==
  /\ deleter[r] = "claimed"
  /\ named[r]
  /\ image' = [image EXCEPT ![r] = "none"]
  /\ deleter' = [deleter EXCEPT ![r] = "cleared"]
  /\ UNCHANGED <<status, manualCap, begun, class, row, named, workflowVars, tails,
                 promised>>

(* A row that never reached the provider has no image to delete. *)
RemoveSnapshotRow(r) ==
  /\ \/ deleter[r] = "cleared"
     \/ deleter[r] = "claimed" /\ ~named[r]
  /\ row' = [row EXCEPT ![r] = "removed"]
  /\ class' = [class EXCEPT ![r] = "none"]
  /\ named' = [named EXCEPT ![r] = FALSE]
  /\ deleter' = [deleter EXCEPT ![r] = "idle"]
  /\ UNCHANGED <<status, manualCap, begun, image, workflowVars, tails, promised>>

(* One of its calls throws, or the action dies; nothing runs it again. *)
DeleteDies(r) ==
  /\ deleter[r] # "idle"
  /\ deleter' = [deleter EXCEPT ![r] = "idle"]
  /\ UNCHANGED <<status, manualCap, begun, class, row, named, image, workflowVars,
                 tails, promised>>
-----------------------------------------------------------------------------
(* reconcileHetznerResources *)

(* Bugs the run must catch: an image with a snapshot's label taken for known, and
   only captures in flight looked at *)
KnownByLabel(r) == r =< begun
KnownUntilComplete(r) == row[r] \in {"pending", "creating"} /\ named[r]

(* snapshotImageIsKnown *)
Known(r) == Exists(r) /\ named[r]

(* isReclaimable and deleteImage; the grace window covers the seconds between an
   image's creation and its row naming it. *)
ReconcileImage(r) ==
  /\ image[r] # "none"
  /\ ~Known(r)
  /\ ~(cur = r /\ pc \in {"create", "mark"})
  /\ image' = [image EXCEPT ![r] = "none"]
  /\ UNCHANGED <<status, manualCap, begun, class, row, named, deleter, workflowVars,
                 tails, promised>>
-----------------------------------------------------------------------------
Starts ==
  \/ StartManualSnapshot
  \/ StartAutomaticSnapshot
  \/ StartUpdateOrReset
  \/ \E r \in Rows : StartRestore(r)
  \/ StartDelete

Workflow ==
  \/ ReadRestoreTarget
  \/ UpdateSkipped
  \/ BeginSnapshot
  \/ CreateSnapshotImage
  \/ MarkCreating
  \/ ImageIsAvailable
  \/ CompleteSnapshot
  \/ CaptureThrows
  \/ FailSnapshot
  \/ Destroy
  \/ OperationSucceeds
  \/ BoxDeleted
  \/ OperationFails

Requests ==
  \/ SupersedeRollbackSnapshots
  \/ SupersedeIsLost
  \/ SetSnapshotSplit
  \/ PurgeBox
  \/ \E r \in Rows : DeleteSnapshot(r) \/ ClaimExpiredSnapshot(r)

Removal ==
  \E r \in Rows :
    \/ DeleteClaims(r)
    \/ DeleteImage(r)
    \/ RemoveSnapshotRow(r)
    \/ DeleteDies(r)
    \/ ReconcileImage(r)

Next == Starts \/ Workflow \/ Requests \/ Removal

Spec == Init /\ [][Next]_vars

(* No operation lasts for ever, its retries and waits being bounded; the purge
   comes back every minute, the reconciliation every day, and neither they nor
   the deletions they ask for die every time. *)
Fairness ==
  /\ WF_vars(OperationFails)
  /\ WF_vars(PurgeBox)
  /\ \A r \in Rows :
       /\ SF_vars(DeleteClaims(r))
       /\ SF_vars(DeleteImage(r))
       /\ WF_vars(ReconcileImage(r))

FairSpec == Spec /\ Fairness
-----------------------------------------------------------------------------
(* Properties *)

(* A copy the owner relies on is there: a manual snapshot until somebody deletes
   it, and the copy taken before the last step that could not be undone until a
   later one or its retention replaces it - a complete row, so one a restore
   accepts, with a usable image behind it. *)
PromisedCopiesExist ==
  \A r \in promised : row[r] = "complete" /\ named[r] /\ image[r] = "available"

(* "The capture runs first and must reach a usable provider image before the
   operation touches anything." *)
CopyComesFirst ==
  pc = "destroy" => row[cur] = "complete" /\ named[cur] /\ image[cur] = "available"

(* Every row offered for a restore can be restored: whatever deletes images,
   none goes while its row is complete. *)
CompleteRowsAreRestorable ==
  \A r \in Rows : row[r] = "complete" => named[r] /\ image[r] = "available"

(* Rows that fill a slot and are not about to give it back *)
Holding(c) == {r \in Counted(c) : deleter[r] = "idle"}

(* The split holds at the moment a capture begins, however it was moved since
   the operation was admitted: a class that was full has made room or refused. *)
CapturesFitTheSplit ==
  [][\A c \in {"manual", "scheduled"} :
       begun' # begun /\ class'[begun'] = c
         => Cardinality(Holding(c)') =< Cap(c)]_vars

(* An image that nothing can offer any more, because its row is gone or its box
   is deleted, does not stay at the provider - whichever of the capture and the
   deletion came first, and whatever deletions failed while the box lived. *)
Leftover(r) == image[r] # "none" /\ (row[r] = "removed" \/ status = "deleted")

LeftoversAreReclaimed ==
  (\E r \in Rows : Leftover(r)) ~> (\A r \in Rows : ~Leftover(r))

=============================================================================
