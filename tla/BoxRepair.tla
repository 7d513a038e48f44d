------------------------------ MODULE BoxRepair ------------------------------
(***************************************************************************)
(* Where one box's files are while it is repaired, reset, restored and     *)
(* deleted.  A repair that cannot heal the box in place copies its files   *)
(* onto a parking volume, has the provider rebuild the server's disk and   *)
(* copies them back; parking_volume_id and parking_volume_stage on the     *)
(* box's row are all that a later repair knows of an earlier one.  The     *)
(* daily reconciliation deletes volumes no live box points at.             *)
(*                                                                         *)
(* The operation lock (module BoxOperation) gives one operation at a time, *)
(* so the operation in progress is named by the box's status and pc is     *)
(* where its workflow stands.  A step that calls the provider or the host  *)
(* is retried, so its effect may happen again, and may be reported failed  *)
(* after it took effect; a step that is a mutation happens once.           *)
(***************************************************************************)
EXTENDS Naturals

CONSTANTS Volumes,    \* identities of parking volumes of the box
          NoVolume,   \* parking_volume_id is not set
          MaxWrites,  \* bound on how often the owner's files change
          Faults      \* what the world may do to the protocol, see below

(* "healed in place": a host whose disk an earlier repair has rebuilt may serve
   when the next repair only restarts its containers.  "late reconcile": a
   repair may take up a volume between the reconciliation's look and its call. *)
ASSUME FaultsAssumption == Faults \subseteq {"healed in place", "late reconcile"}
ASSUME NoVolumeAssumption == NoVolume \notin Volumes
ASSUME MaxWritesAssumption == MaxWrites \in Nat \ {0}

Blank == 0               \* the files of a freshly built box
Versions == 1..MaxWrites
Garbled == MaxWrites + 1 \* what an interrupted or unfaithful copy leaves
FileVersions == {Blank} \cup Versions
DiskContents == FileVersions \cup {Garbled}

VARIABLES
  status,    \* boxes.status
  pointer,   \* boxes.parking_volume_id
  stage,     \* boxes.parking_volume_stage, "none" when not set
  pc,        \* the next step of the operation's workflow
  taken,     \* volumeId, the workflow's own copy of the pointer
  host,      \* what runs on the server: the box, an idle host, nothing, rescue
  disk,      \* the files in the server's Docker volumes
  volumes,   \* the parking volumes that exist at the provider
  parked,    \* parked[v]: the files on volume v
  aged,      \* volumes past the reconciliation's grace window
  doomed,    \* volumes the reconciliation has found unreferenced
  owned,     \* the files the owner is entitled to (history)
  written    \* how often the owner's files have changed (history)

rowVars == <<status, pointer, stage>>
serverVars == <<host, disk>>
volumeVars == <<volumes, parked, aged>>
ownerVars == <<owned, written>>
repairVars == <<rowVars, pc, taken, serverVars, volumeVars, doomed, ownerVars>>

RepairSteps ==
  {"in place", "create volume", "record volume", "attach", "stop", "rescue",
   "copy", "verify", "gate", "rebuild", "attach back", "copy back",
   "verify back", "clear", "delete volume", "restart", "repaired"}
RebuildSteps == {"rollback", "replace", "bootstrap", "rebuilt"}
DeleteSteps == {"delete server", "deleted"}

Statuses ==
  {"running", "repairing", "repair_failed", "resetting", "reset_failed",
   "restoring", "restore_failed", "deleting", "delete_failed", "deleted"}

(* The type invariant: what the box, its volumes and the workflow may hold *)
RepairTypeOK ==
  /\ status \in Statuses
  /\ pointer \in Volumes \cup {NoVolume}
  /\ stage \in {"none", "parking", "restoring"}
  /\ pc \in {"idle"} \cup RepairSteps \cup RebuildSteps \cup DeleteSteps
  /\ taken \in Volumes \cup {NoVolume}
  /\ host \in {"serving", "idle", "off", "rescue", "gone"}
  /\ disk \in DiskContents
  /\ volumes \subseteq Volumes
  /\ parked \in [Volumes -> DiskContents]
  /\ aged \subseteq Volumes
  /\ doomed \subseteq Volumes
  /\ owned \in FileVersions
  /\ written \in 0..MaxWrites

RepairInit ==
  /\ status = "running"
  /\ pointer = NoVolume
  /\ stage = "none"
  /\ pc = "idle"
  /\ taken = NoVolume
  /\ host = "serving"
  /\ disk = 1
  /\ volumes = {}
  /\ parked = [v \in Volumes |-> Blank]
  /\ aged = {}
  /\ doomed = {}
  /\ owned = 1
  /\ written = 1
-----------------------------------------------------------------------------
(* Steps of a workflow *)

(* step.runAction with retries: the effect has happened, once more perhaps, and
   the step is over, runs again or throws. *)
Acts(here, next) == pc = here /\ pc' \in {next, here, "idle"}

(* step.runMutation: the effect and the step's end are one transaction. *)
Mutates(here, next) == pc = here /\ pc' = next

(* The status a throw leaves the box in: onFailure *)
FailedStatus ==
  CASE status = "repairing" -> "repair_failed"
    [] status = "resetting" -> "reset_failed"
    [] status = "restoring" -> "restore_failed"
    [] status = "deleting"  -> "delete_failed"
    [] OTHER                -> status

(* Whatever ends an operation before its last mutation ends it here. *)
StatusAfter == status' = IF pc' = "idle" THEN FailedStatus ELSE status

(* A step throws before it has any effect, or the workflow dies. *)
OperationFails ==
  /\ pc # "idle"
  /\ pc' = "idle"
  /\ StatusAfter
  /\ UNCHANGED <<pointer, stage, taken, serverVars, volumeVars, doomed, ownerVars>>

(* The files change while the box serves, whatever its row says. *)
OwnerWrites ==
  /\ host = "serving"
  /\ written < MaxWrites
  /\ written' = written + 1
  /\ disk' = written + 1
  /\ owned' = written + 1
  /\ UNCHANGED <<rowVars, pc, taken, host, volumeVars, doomed>>

(* A damaged host stops answering. *)
HostBreaks ==
  /\ host = "serving"
  /\ host' = "idle"
  /\ UNCHANGED <<rowVars, pc, taken, disk, volumeVars, doomed, ownerVars>>
-----------------------------------------------------------------------------
(* repairBox *)

StartRepair ==
  /\ pc = "idle"
  /\ status \in {"running", "reset_failed", "restore_failed", "repair_failed"}
  /\ status' = "repairing"
  /\ taken' = pointer
  /\ pc' = "in place"
  /\ UNCHANGED <<pointer, stage, serverVars, volumeVars, doomed, ownerVars>>

(* A host the installed system runs on, and one this repair may expect to
   serve, can be brought up by repairRuntime over SSH. *)
CanRestart ==
  /\ host \in {"serving", "idle"}
  /\ stage = "restoring" => "healed in place" \in Faults

(* repairRuntime and probeRuntime: when the box answers, the repair is over. *)
HealsInPlace ==
  /\ Mutates("in place", "idle")
  /\ CanRestart
  /\ status' = "running"
  /\ host' = "serving"
  /\ UNCHANGED <<pointer, stage, taken, disk, volumeVars, doomed, ownerVars>>

(* The containers may have been restarted all the same: only the probe failed.
   A repair past the gate goes on where the last one stopped. *)
FallsBackToRescue ==
  /\ pc = "in place"
  /\ IF stage = "restoring"
       THEN /\ taken # NoVolume
            /\ pc' = "rebuild"
       ELSE pc' = IF taken = NoVolume THEN "create volume" ELSE "attach"
  /\ \/ CanRestart /\ host' = "serving"
     \/ UNCHANGED host
  /\ UNCHANGED <<rowVars, taken, disk, volumeVars, doomed, ownerVars>>

(* createParkingVolume: the box's existing volume, or a new one.  A new id is
   one nothing remembers. *)
CreateParkingVolume ==
  /\ Acts("create volume", "record volume")
  /\ StatusAfter
  /\ \/ /\ volumes # {}
        /\ taken' \in volumes
        /\ taken' \in doomed => "late reconcile" \in Faults
        /\ UNCHANGED volumeVars
     \/ /\ volumes = {}
        /\ \E v \in Volumes \ (doomed \cup {pointer}) :
             /\ taken' = v
             /\ volumes' = {v}
             /\ parked' = [parked EXCEPT ![v] = Blank]
             /\ aged' = aged \ {v}
  /\ UNCHANGED <<pointer, stage, serverVars, doomed, ownerVars>>

RecordParkingVolume ==
  /\ Mutates("record volume", "attach")
  /\ pointer' = taken
  /\ stage' = "parking"
  /\ UNCHANGED <<status, taken, serverVars, volumeVars, doomed, ownerVars>>

(* attachParkingVolume: a volume the provider does not know is an error. *)
AttachParkingVolume ==
  /\ taken \in volumes
  /\ Acts("attach", "stop") \/ Acts("attach back", "copy back")
  /\ StatusAfter
  /\ UNCHANGED <<pointer, stage, taken, serverVars, volumeVars, doomed, ownerVars>>

StopServer ==
  /\ Acts("stop", "rescue")
  /\ StatusAfter
  /\ host' = "off"
  /\ UNCHANGED <<pointer, stage, taken, disk, volumeVars, doomed, ownerVars>>

BootServerInRescue ==
  /\ Acts("rescue", "copy")
  /\ StatusAfter
  /\ host' = "rescue"
  /\ UNCHANGED <<pointer, stage, taken, disk, volumeVars, doomed, ownerVars>>

(* A copy is right, or garbled whether or not it says so. *)
CopyToParking ==
  /\ host = "rescue"
  /\ taken \in volumes
  /\ Acts("copy", "verify")
  /\ StatusAfter
  /\ \E copied \in {disk, Garbled} : parked' = [parked EXCEPT ![taken] = copied]
  /\ UNCHANGED <<pointer, stage, taken, serverVars, volumes, aged, doomed, ownerVars>>

(* A bug the runs must catch: "rsync exited 0" taken as proof *)
VerifyTrusted ==
  /\ taken \in volumes
  /\ Acts("verify", "gate")
  /\ StatusAfter
  /\ UNCHANGED <<pointer, stage, taken, serverVars, volumeVars, doomed, ownerVars>>

(* verifyParkingCopy and the unmount after it *)
VerifyParkingCopy ==
  /\ taken \in volumes
  /\ parked[taken] = disk
  /\ Acts("verify", "gate")
  /\ StatusAfter
  /\ UNCHANGED <<pointer, stage, taken, serverVars, volumeVars, doomed, ownerVars>>

MarkParkingRestoring ==
  /\ Mutates("gate", "rebuild")
  /\ stage' = "restoring"
  /\ UNCHANGED <<status, pointer, taken, serverVars, volumeVars, doomed, ownerVars>>

(* The detach, rebuildServer and recordServerRebuilt *)
RebuildServer ==
  /\ Acts("rebuild", "attach back")
  /\ StatusAfter
  /\ host' = "idle"
  /\ disk' = Blank
  /\ UNCHANGED <<pointer, stage, taken, volumeVars, doomed, ownerVars>>

CopyFromParking ==
  /\ taken \in volumes
  /\ Acts("copy back", "verify back")
  /\ StatusAfter
  /\ disk' \in {parked[taken], Garbled}
  /\ UNCHANGED <<pointer, stage, taken, host, volumeVars, doomed, ownerVars>>

(* verifyParkingBack, the unmount and the detach *)
VerifyParkingBack ==
  /\ taken \in volumes
  /\ disk = parked[taken]
  /\ Acts("verify back", "clear")
  /\ StatusAfter
  /\ UNCHANGED <<pointer, stage, taken, serverVars, volumeVars, doomed, ownerVars>>

ClearParkingVolume ==
  /\ Mutates("clear", "delete volume")
  /\ pointer' = NoVolume
  /\ stage' = "none"
  /\ UNCHANGED <<status, taken, serverVars, volumeVars, doomed, ownerVars>>

DeleteParkingVolume ==
  /\ Acts("delete volume", "restart")
  /\ StatusAfter
  /\ volumes' = volumes \ {taken}
  /\ UNCHANGED <<pointer, stage, taken, serverVars, parked, aged, doomed, ownerVars>>

RestartRuntime ==
  /\ Acts("restart", "repaired")
  /\ StatusAfter
  /\ host' = "serving"
  /\ UNCHANGED <<pointer, stage, taken, disk, volumeVars, doomed, ownerVars>>

MarkRepairSucceeded ==
  /\ Mutates("repaired", "idle")
  /\ status' = "running"
  /\ UNCHANGED <<pointer, stage, taken, serverVars, volumeVars, doomed, ownerVars>>
-----------------------------------------------------------------------------
(* resetBox, restoreBox and deleteBox: none of the first two looks at the
   parking volume. *)

StartRebuild(during, from) ==
  /\ pc = "idle"
  /\ status \in from
  /\ status' = during
  /\ pc' = "rollback"
  /\ UNCHANGED <<pointer, stage, taken, serverVars, volumeVars, doomed, ownerVars>>

StartReset == StartRebuild("resetting", {"running", "reset_failed", "restore_failed"})
StartRestore == StartRebuild("restoring", {"running", "restore_failed"})

(* captureRollbackSnapshot aborts the operation when it fails. *)
CaptureRollback ==
  /\ Acts("rollback", "replace")
  /\ StatusAfter
  /\ UNCHANGED <<pointer, stage, taken, serverVars, volumeVars, doomed, ownerVars>>

(* From here on the owner is entitled to what the new disk holds: nothing, or
   the files of the snapshot, whose containers start by themselves. *)
ReplaceDisk ==
  /\ Acts("replace", "bootstrap")
  /\ StatusAfter
  /\ IF status = "resetting"
       THEN host' = "idle" /\ disk' = Blank
       ELSE host' \in {"idle", "serving"} /\ disk' \in 0..written
  /\ owned' = disk'
  /\ UNCHANGED <<pointer, stage, taken, volumeVars, doomed, written>>

BootstrapRuntime ==
  /\ Acts("bootstrap", "rebuilt")
  /\ StatusAfter
  /\ host' = "serving"
  /\ UNCHANGED <<pointer, stage, taken, disk, volumeVars, doomed, ownerVars>>

MarkRebuildSucceeded ==
  /\ Mutates("rebuilt", "idle")
  /\ status' = "running"
  /\ UNCHANGED <<pointer, stage, taken, serverVars, volumeVars, doomed, ownerVars>>

StartDelete ==
  /\ pc = "idle"
  /\ status \notin {"deleting", "deleted"}
  /\ status' = "deleting"
  /\ pc' = "delete server"
  /\ UNCHANGED <<pointer, stage, taken, serverVars, volumeVars, doomed, ownerVars>>

DeleteServer ==
  /\ Acts("delete server", "deleted")
  /\ StatusAfter
  /\ host' = "gone"
  /\ disk' = Garbled
  /\ UNCHANGED <<pointer, stage, taken, volumeVars, doomed, ownerVars>>

(* The row forgets the volume, and its deletion is scheduled, best effort. *)
MarkDeleted ==
  /\ Mutates("deleted", "idle")
  /\ status' = "deleted"
  /\ pointer' = NoVolume
  /\ stage' = "none"
  /\ volumes' \in {volumes, volumes \ {pointer}}
  /\ UNCHANGED <<taken, serverVars, parked, aged, doomed, ownerVars>>
-----------------------------------------------------------------------------
(* reconcileHetznerResources *)

(* A volume passes the grace window of two hours only when no workflow is
   between creating it and recording it. *)
VolumeAges(v) ==
  /\ v \in volumes \ aged
  /\ pc \notin {"create volume", "record volume"}
  /\ aged' = aged \cup {v}
  /\ UNCHANGED <<rowVars, pc, taken, serverVars, volumes, parked, doomed, ownerVars>>

(* A bug the runs must catch: a box that lives counts as pointing at any volume *)
ReferencedByAnyBox(v) == status # "deleted"

(* volumeReferencedByLiveBox *)
Referenced(v) == pointer = v /\ status # "deleted"

(* isReclaimable, of a volume the sweep has listed.  The deletion follows at
   once: no repair takes the volume up in between, unless it is late. *)
ReconcileJudges(v) ==
  /\ v \in (volumes \cap aged) \ doomed
  /\ ~Referenced(v)
  /\ pc = "record volume" /\ taken = v => "late reconcile" \in Faults
  /\ doomed' = doomed \cup {v}
  /\ UNCHANGED <<rowVars, pc, taken, serverVars, volumeVars, ownerVars>>

ReconcileDeletes(v) ==
  /\ v \in doomed
  /\ doomed' = doomed \ {v}
  /\ volumes' = volumes \ {v}
  /\ UNCHANGED <<rowVars, pc, taken, serverVars, parked, aged, ownerVars>>

(* The sweep stops at the first error, between any two calls. *)
ReconcileDies ==
  /\ doomed # {}
  /\ doomed' = {}
  /\ UNCHANGED <<rowVars, pc, taken, serverVars, volumeVars, ownerVars>>
-----------------------------------------------------------------------------
Repair ==
  \/ StartRepair
  \/ HealsInPlace
  \/ FallsBackToRescue
  \/ CreateParkingVolume
  \/ RecordParkingVolume
  \/ AttachParkingVolume
  \/ StopServer
  \/ BootServerInRescue
  \/ CopyToParking
  \/ VerifyParkingCopy
  \/ MarkParkingRestoring
  \/ RebuildServer
  \/ CopyFromParking
  \/ VerifyParkingBack
  \/ ClearParkingVolume
  \/ DeleteParkingVolume
  \/ RestartRuntime
  \/ MarkRepairSucceeded

Rebuild ==
  \/ StartReset
  \/ StartRestore
  \/ CaptureRollback
  \/ ReplaceDisk
  \/ BootstrapRuntime
  \/ MarkRebuildSucceeded

DeleteBox ==
  \/ StartDelete
  \/ DeleteServer
  \/ MarkDeleted

Reconcile ==
  \/ \E v \in Volumes : VolumeAges(v) \/ ReconcileJudges(v) \/ ReconcileDeletes(v)
  \/ ReconcileDies

RepairNext ==
  \/ Repair
  \/ Rebuild
  \/ DeleteBox
  \/ OperationFails
  \/ OwnerWrites
  \/ HostBreaks
  \/ Reconcile

RepairSpec == RepairInit /\ [][RepairNext]_repairVars

(* A durable workflow is always resumed and its retries are bounded, so a step
   is left at last; the daily reconciliation may die on any run, not on every. *)
Fairness ==
  /\ WF_repairVars((Repair \/ Rebuild \/ DeleteBox) /\ pc # "idle" /\ pc' # pc)
  /\ \A v \in Volumes :
       /\ SF_repairVars(VolumeAges(v))
       /\ SF_repairVars(ReconcileJudges(v))
       /\ SF_repairVars(ReconcileDeletes(v))

RepairFairSpec == RepairSpec /\ Fairness
-----------------------------------------------------------------------------
(* Properties *)

BoxLives == status \notin {"deleting", "delete_failed", "deleted"}

(* The owner's files are never only where nothing will look for them: through
   every failure of every step they are on the server, or on the volume the row
   names and at a stage from which a repair copies them back. *)
FilesKept ==
  BoxLives =>
    \/ disk = owned
    \/ stage = "restoring" /\ pointer \in volumes /\ parked[pointer] = owned

(* "Repair keeps the files": a box recorded as running has its owner's files on
   its disk. *)
RunningBoxHasItsFiles == status = "running" => disk = owned

(* Once past the gate "the copy direction is fixed at volume -> server": nothing
   writes to the parked copy or exchanges it for another volume. *)
ParkedCopyIsFixed ==
  [][stage = "restoring" /\ stage' = "restoring"
       => pointer' = pointer /\ parked'[pointer] = parked[pointer]]_repairVars

(* "No persisted pointer can ever name a volume that was already deleted." *)
PointerNamesVolume == pointer # NoVolume => pointer \in volumes

(* A volume no box points at is deleted, or taken up by the next repair. *)
OrphansAreReclaimed ==
  \A v \in Volumes : v \in volumes ~> v \notin volumes \/ pointer = v
=============================================================================
