---------------------------- MODULE BoxCatalogue ----------------------------
(***************************************************************************)
(* The vocabulary of a box: the statuses it can have and, per operation,   *)
(* the statuses the operation may begin from, the status the box has while *)
(* it runs and the status a failure or a success leaves it in.  It is the  *)
(* table BOX_OPERATIONS of model/box/operation.ts together with the        *)
(* terminal status each workflow's last mutation writes.                   *)
(***************************************************************************)

(* The `null` of the table: no status is written. *)
NoStatus == "null"

(* No row yet in the `boxes` table. *)
Absent == "absent"

DuringStatuses ==
  {"creating", "deleting", "resetting", "stopping", "starting", "suspending",
   "unsuspending", "restoring", "repairing", "updating"}

RestingStatuses ==
  {"create_failed", "running", "stopped", "reset_failed", "repair_failed",
   "update_failed", "restore_failed", "suspended", "delete_failed", "deleted"}

BoxStatuses == DuringStatuses \cup RestingStatuses

BoxOperationTypes ==
  {"create", "delete", "reset", "stop", "start", "change_password",
   "change_slug", "change_config", "suspend", "unsuspend", "restore",
   "snapshot", "repair", "update"}

(* BOX_OPERATIONS[t].critical *)
Critical(t) ==
  t \in {"create", "delete", "reset", "restore", "repair", "update"}

(* BOX_OPERATIONS[t].during, which BOX_OPERATION_PLANS repeats as targetStatus *)
During(t) ==
  CASE t = "create"    -> "creating"
    [] t = "delete"    -> "deleting"
    [] t = "reset"     -> "resetting"
    [] t = "stop"      -> "stopping"
    [] t = "start"     -> "starting"
    [] t = "suspend"   -> "suspending"
    [] t = "unsuspend" -> "unsuspending"
    [] t = "restore"   -> "restoring"
    [] t = "repair"    -> "repairing"
    [] t = "update"    -> "updating"
    [] OTHER           -> NoStatus

(* BOX_OPERATIONS[t].from: the gate isOperationAllowed reads *)
From(t) ==
  CASE t = "create"          -> {"creating", "create_failed"}
    [] t = "delete"          -> BoxStatuses \ {"deleting", "deleted"}
    [] t = "reset"           -> {"running", "reset_failed", "restore_failed",
                                 "update_failed"}
    [] t = "start"           -> {"stopped"}
    [] t = "change_password" -> {"running", "reset_failed"}
    [] t = "suspend"         -> {"running", "stopped"}
    [] t = "unsuspend"       -> {"suspended"}
    [] t = "restore"         -> {"running", "restore_failed"}
    [] t = "repair"          -> {"running", "reset_failed", "restore_failed",
                                 "repair_failed", "update_failed"}
    [] t = "update"          -> {"running", "update_failed"}
    [] OTHER                 -> {"running"}

(* BOX_OPERATIONS[t].onFailure *)
OnFailure(t) ==
  CASE t = "create"    -> "create_failed"
    [] t = "delete"    -> "delete_failed"
    [] t = "reset"     -> "reset_failed"
    [] t = "start"     -> "stopped"
    [] t = "unsuspend" -> "suspended"
    [] t = "restore"   -> "restore_failed"
    [] t = "repair"    -> "repair_failed"
    [] t = "update"    -> "update_failed"
    [] t = "snapshot"  -> NoStatus
    [] OTHER           -> "running"

(* The status the workflow's terminal mutation writes *)
OnSuccess(t) ==
  CASE t = "stop"    -> "stopped"
    [] t = "suspend" -> "suspended"
    [] t = "delete"  -> "deleted"
    [] t \in {"change_password", "change_config", "snapshot"} -> NoStatus
    [] OTHER         -> "running"

(* The types whose workflow goes on after its terminal mutation: it supersedes
   the box's older rollback snapshots before it returns. *)
Superseding == {"update", "reset", "restore"}

(* ACTIVE_OPERATION_STATUSES *)
ActiveStatuses == {"pending", "running"}

(* A patch of the box's status that the code makes only when it has one *)
Moved(old, new) == IF new = NoStatus THEN old ELSE new
=============================================================================
