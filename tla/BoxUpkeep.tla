----------------------------- MODULE BoxUpkeep ------------------------------
(***************************************************************************)
(* What keeps one box serving, and serving the release it should: the      *)
(* health sweep that probes it and repairs it when it has been down, the   *)
(* hourly sweep that updates it past the deadline of a minimum release,    *)
(* and the operations both of them, and people, start: update, repair,     *)
(* reset, restore, stop and start.                                         *)
(*                                                                         *)
(* Three things name a release here: the box's row, the compose file on    *)
(* its host and the container that runs.  An operation writes them one     *)
(* after the other and may stop between any two.                           *)
(*                                                                         *)
(* The operation lock (module BoxOperation) gives one operation at a time, *)
(* named by the box's status; where a repair keeps the files is module     *)
(* BoxRepair's subject.  Time is ages in ticks of the quiet window's       *)
(* length.  Everything that is not the fleet's own doing, a person's act,  *)
(* a failure or a new release, is an event, and events are bounded.        *)
(***************************************************************************)
EXTENDS Naturals, Sequences, BoxCatalogue

CONSTANTS Images,      \* digests a channel may name
          Broken,      \* those whose editor never answers
          NoImage,     \* no digest
          Sustained,   \* SUSTAINED_FAILURES
          Quiet,       \* OWNER_QUIET_WINDOW_MS, in ticks
          Window,      \* AUTO_REPAIR_WINDOW_MS, in ticks
          MaxRepairs,  \* MAX_AUTO_REPAIRS_PER_WINDOW
          MaxEvents    \* bound on events

ASSUME ImagesAssumption == Broken \subseteq Images /\ NoImage \notin Images
ASSUME TimesAssumption == {Sustained, Quiet, Window, MaxRepairs} \subseteq Nat \ {0}
ASSUME EventsAssumption == MaxEvents \in Nat

VARIABLES
  status, pc, target,    \* boxes.status, the operation's next step and its image
  row,                   \* boxes.runtime_image
  compose, container,    \* the image the host's compose file names, and runs
  fault,                 \* what keeps the editor from answering
  saved,                 \* runtime_image of the box's complete snapshots
  channel,               \* the digest the deployment's channel resolves to
  floor,                 \* minimum_runtime_image and its deadline
  failures,              \* box_health.consecutive_failures, up to Sustained
  ownerAge,              \* ticks since a person last started an operation
  repairs,               \* ages of the automatic repairs in the window
  hour,                  \* the tick of the calendar window
  alerted,               \* the window's auto-repair-exhausted alert exists
  sweep, floorSweep,     \* where the two sweeps stand with this box
  since,                 \* what the channel named since the floor was set (history)
  passedOver,            \* an update was skipped over another compose file (history)
  events

operation == <<status, pc, target>>
host == <<compose, container, fault>>
fleet == <<channel, floor, since>>
clock == <<ownerAge, repairs, hour>>
health == <<failures, alerted>>
sweeps == <<sweep, floorSweep>>
vars == <<operation, row, host, saved, fleet, clock, health, sweeps, passedOver, events>>

Types == {"update", "repair", "reset", "restore", "stop", "start"}

SweptStatuses == From("repair")

Serving == container \in Images \ Broken /\ fault = "none"

(* The type invariant: an operation is under way exactly in its status *)
TypeOK ==
  /\ status \in UNION {From(t) \cup {During(t), OnFailure(t), OnSuccess(t)} : t \in Types}
  /\ pc \in {"idle", "begin", "capture", "replace", "version", "runtime", "mark"}
  /\ pc = "idle" <=> status \notin {During(t) : t \in Types}
  /\ {target, compose, container} \subseteq Images \cup {NoImage}
  /\ {row, channel} \subseteq Images
  /\ fault \in {"none", "container", "files"}
  /\ saved \subseteq Images /\ since \subseteq Images
  /\ floor \in [image : Images \cup {NoImage}, deadline : {"none", "ahead", "passed"}]
  /\ failures \in 0..Sustained
  /\ ownerAge \in 0..Quiet
  /\ repairs \in Seq(0..Window - 1)
  /\ hour \in 0..Window - 1
  /\ {alerted, floorSweep, passedOver} \subseteq BOOLEAN
  /\ sweep \in {"idle", "listed", "counted", "repair", "alert"}
  /\ events \in 0..MaxEvents

(* A box that has served for a day, and has that day's snapshot *)
Init ==
  /\ status = "running" /\ pc = "idle" /\ target = NoImage
  /\ row \in Images \ Broken /\ compose = row /\ container = row /\ fault = "none"
  /\ saved = {row}
  /\ channel \in Images /\ floor = [image |-> NoImage, deadline |-> "none"] /\ since = {}
  /\ failures = 0 /\ ownerAge = Quiet /\ repairs = <<>>
  /\ hour = 0 /\ alerted = FALSE
  /\ sweep = "idle" /\ floorSweep = FALSE
  /\ passedOver = FALSE /\ events = 0

Event == events < MaxEvents /\ events' = events + 1
-----------------------------------------------------------------------------
(* Operations *)

(* A bug the runs must catch: every operation taken for the owner's *)
SinceAnyStart(by) == 0

(* The newest operation no system trigger started *)
SinceStart(by) == IF by = "person" THEN 0 ELSE ownerAge

(* startOperation *)
Start(t, by) ==
  /\ pc = "idle"
  /\ status \in From(t)
  /\ status' = During(t)
  /\ pc' = IF t \in {"repair", "stop", "start"} THEN "runtime" ELSE "begin"
  /\ ownerAge' = SinceStart(by)
  /\ repairs' = IF by = "auto_repair" THEN Append(repairs, 0) ELSE repairs
  /\ UNCHANGED <<target, row, host, saved, fleet, hour, health, passedOver>>

(* An owner, or staff for them *)
PersonStarts(t) == Start(t, "person") /\ Event /\ UNCHANGED sweeps

Goes(during, here, next) ==
  /\ status = during
  /\ pc = here
  /\ pc' = next

Ends(s) == status' = s /\ pc' = "idle" /\ target' = NoImage

(* markOperationFailed with the catalogue's onFailure *)
Fails == \E t \in Types : status = During(t) /\ Ends(OnFailure(t))

(* A step throws before it has any effect. *)
StepThrows ==
  /\ pc # "idle"
  /\ Fails
  /\ Event
  /\ UNCHANGED <<row, host, saved, fleet, clock, health, sweeps, passedOver>>

untouched == <<saved, fleet, clock, health, sweeps>>

(* updateAlreadyApplied *)
AlreadyApplied(image) == row = image

(* updateBox resolves the channel, and has nothing to do or goes on. *)
ResolveChannel ==
  /\ status = "updating" /\ pc = "begin"
  /\ IF AlreadyApplied(channel)
       THEN Ends("running") /\ passedOver' = (compose # row)
       ELSE pc' = "capture" /\ target' = channel /\ UNCHANGED <<status, passedOver>>
  /\ UNCHANGED <<row, host, untouched, events>>

(* snapshotRestoreTarget: the version of the snapshot, or of the floor. *)
ChooseTarget ==
  /\ Goes("restoring", "begin", "capture")
  /\ \E image \in saved :
       target' = IF floor.image \in Images \ {image} THEN floor.image ELSE image
  /\ UNCHANGED <<status, row, host, untouched, passedOver, events>>

BeginReset ==
  /\ Goes("resetting", "begin", "capture")
  /\ UNCHANGED <<status, target, row, host, untouched, passedOver, events>>

(* captureRollbackSnapshot records the row's image. *)
CaptureRollback ==
  /\ pc = "capture"
  /\ pc' = IF status = "updating" THEN "runtime" ELSE "replace"
  /\ saved' = saved \cup {row}
  /\ UNCHANGED <<status, target, row, host, fleet, clock, health, sweeps, passedOver, events>>

(* rebuildServer: an empty disk, or a snapshot's, whose containers start by
   themselves. *)
ReplaceDisk ==
  /\ pc = "replace"
  /\ \/ /\ status = "resetting"
        /\ pc' = "runtime"
        /\ compose' = NoImage /\ fault' = "none"
     \/ /\ status = "restoring"
        /\ pc' = "version"
        /\ compose' \in Images /\ fault' \in {"none", "files"}
  /\ container' = compose'
  /\ UNCHANGED <<status, target, row, untouched, passedOver, events>>

(* setRuntimeImage, before the bootstrap *)
SetRuntimeImage ==
  /\ Goes("restoring", "version", "runtime")
  /\ row' = target
  /\ UNCHANGED <<status, target, host, untouched, passedOver, events>>

(* Writing the compose file and bringing it up: whatever a fresh container heals
   is healed. *)
Recreated(image) ==
  /\ compose' = image
  /\ container' = image
  /\ fault' = IF fault = "files" THEN "files" ELSE "none"

Answers == container' \in Images \ Broken /\ fault' = "none"

(* updateRuntime: the step throws when the editor does not answer, and until it
   has answered the row names the old image. *)
UpdateRuntime ==
  /\ status = "updating" /\ pc = "runtime"
  /\ Recreated(target)
  /\ IF Answers THEN pc' = "mark" /\ UNCHANGED <<status, target>> ELSE Fails
  /\ passedOver' = FALSE
  /\ UNCHANGED <<row, untouched, events>>

(* The pull, or the wait, fails: the compose file names the new image and the
   old container may still run. *)
UpdateRuntimeFails ==
  /\ status = "updating" /\ pc = "runtime"
  /\ compose' = target
  /\ container' \in {container, target}
  /\ fault' \in {fault} \cup (IF container' = target THEN {"container"} \ {fault} ELSE {})
  /\ fault = "files" => fault' = "files"
  /\ Fails
  /\ Event
  /\ passedOver' = FALSE
  /\ UNCHANGED <<row, untouched>>

(* A bug the runs must catch: Repair brings up the compose file it finds *)
RepairImageFound == IF compose = NoImage THEN row ELSE compose

(* runtimeArtifactsForBox without an override *)
RepairImage == row

(* Both ends of repairBox, in place and after a rescue: the row's image is laid
   down and must answer. *)
RepairRuntime ==
  /\ status = "repairing" /\ pc = "runtime"
  /\ Recreated(RepairImage)
  /\ IF Answers THEN Ends("running") ELSE Fails
  /\ passedOver' = FALSE
  /\ UNCHANGED <<row, untouched, events>>

(* A repair stops part-way: container recreated in place, but neither its probe
   nor the rescue begun after it succeeding; files written and the container not
   recreated, the server off or in rescue; disk rebuilt and nothing on it yet. *)
RepairFails ==
  /\ status = "repairing" /\ pc = "runtime"
  /\ \/ Recreated(RepairImage)
     \/ /\ compose' = RepairImage /\ container' \in {container, NoImage}
        /\ UNCHANGED fault
     \/ compose' = NoImage /\ container' = NoImage /\ UNCHANGED fault
  /\ Fails
  /\ Event
  /\ passedOver' = FALSE
  /\ UNCHANGED <<row, untouched>>

(* bootstrapRuntime does not wait for the editor. *)
BootstrapRuntime ==
  /\ status \in {"resetting", "restoring"} /\ pc = "runtime"
  /\ pc' = "mark"
  /\ Recreated(row)
  /\ passedOver' = FALSE
  /\ UNCHANGED <<status, target, row, untouched, events>>

(* markUpdateSucceeded, markResetSucceeded and markRestoreSucceeded *)
MarkSucceeded ==
  /\ pc = "mark"
  /\ Ends("running")
  /\ row' = IF status = "updating" THEN target ELSE row
  /\ UNCHANGED <<host, untouched, passedOver, events>>

StopServer ==
  /\ status = "stopping" /\ pc = "runtime"
  /\ Ends("stopped")
  /\ container' = NoImage
  /\ UNCHANGED <<row, compose, fault, untouched, passedOver, events>>

(* The containers of a server that is switched on start by themselves. *)
StartServer ==
  /\ status = "starting" /\ pc = "runtime"
  /\ Ends("running")
  /\ container' = compose
  /\ fault' = IF fault = "files" THEN "files" ELSE "none"
  /\ UNCHANGED <<row, compose, untouched, passedOver, events>>
-----------------------------------------------------------------------------
(* The health sweep: list, probe and count, read the facts, act. *)

SweepLists ==
  /\ sweep = "idle"
  /\ status \in SweptStatuses
  /\ sweep' = "listed"
  /\ UNCHANGED <<operation, row, host, saved, fleet, clock, health, floorSweep, passedOver, events>>

(* probeRuntime and recordProbe *)
Probed(reachable) ==
  /\ sweep = "listed"
  /\ IF reachable
       THEN failures' = 0 /\ sweep' = "idle"
       ELSE /\ failures' = IF failures < Sustained THEN failures + 1 ELSE failures
            /\ sweep' = "counted"
  /\ UNCHANGED <<operation, row, host, saved, fleet, clock, alerted, floorSweep, passedOver>>

SweepProbes == Probed(Serving) /\ UNCHANGED events

(* A box that serves does not answer within five seconds. *)
ProbeTimesOut == Serving /\ Probed(FALSE) /\ Event

(* A bug the runs must catch: one read of the quiet window answers both questions *)
RecentRepairsInQuietWindow == SelectSeq(repairs, LAMBDA age : age < Quiet)

(* autoRepairFacts.recentAutoRepairs *)
RecentRepairs == repairs

(* autoRepairDecision, of the facts of this moment *)
Decision ==
  CASE failures < Sustained              -> "idle"
    [] status \notin From("repair")      -> "idle"
    [] ownerAge < Quiet                  -> "idle"
    [] Len(RecentRepairs) >= MaxRepairs  -> "alert"
    [] OTHER                             -> "repair"

SweepDecides ==
  /\ sweep = "counted"
  /\ sweep' = Decision
  /\ UNCHANGED <<operation, row, host, saved, fleet, clock, health, floorSweep, passedOver, events>>

SweepRepairs ==
  /\ sweep = "repair"
  /\ Start("repair", "auto_repair")
  /\ sweep' = "idle"
  /\ UNCHANGED <<floorSweep, events>>

(* alertRepairsExhausted, whose key is the box and the calendar window *)
SweepAlerts ==
  /\ sweep = "alert"
  /\ alerted' = TRUE
  /\ sweep' = "idle"
  /\ UNCHANGED <<operation, row, host, saved, fleet, clock, failures, floorSweep, passedOver, events>>

(* The box is busy, or may not be repaired any more. *)
SweepIsRefused ==
  /\ sweep = "repair"
  /\ pc # "idle" \/ status \notin From("repair")
  /\ sweep' = "idle"
  /\ UNCHANGED <<operation, row, host, saved, fleet, clock, health, floorSweep, passedOver, events>>

(* A call of the sweep throws; the next run starts over. *)
SweepThrows ==
  /\ sweep # "idle"
  /\ sweep' = "idle"
  /\ Event
  /\ UNCHANGED <<operation, row, host, saved, fleet, clock, health, floorSweep, passedOver>>
-----------------------------------------------------------------------------
(* The minimum release *)

(* runtimeStanding.required and floorDeadlinePassed *)
FloorPassed == floor.image \in Images \ {row} /\ floor.deadline = "passed"

(* A bug the runs must catch: only a running box is considered *)
FloorRunningOnly == {"running"}

(* FLOOR_UPDATE_STATUSES *)
FloorStatuses == From("update")

(* boxesPastFloorDeadline *)
FloorLists ==
  /\ ~floorSweep
  /\ FloorPassed
  /\ status \in FloorStatuses
  /\ floorSweep' = TRUE
  /\ UNCHANGED <<operation, row, host, saved, fleet, clock, health, sweep, passedOver, events>>

(* updateBoxesPastDeadline *)
FloorUpdates ==
  /\ floorSweep
  /\ Start("update", "floor")
  /\ floorSweep' = FALSE
  /\ UNCHANGED <<sweep, events>>

FloorIsRefused ==
  /\ floorSweep
  /\ pc # "idle" \/ status \notin From("update")
  /\ floorSweep' = FALSE
  /\ UNCHANGED <<operation, row, host, saved, fleet, clock, health, sweep, passedOver, events>>

(* A release is published, or taken back. *)
ChannelMoves ==
  /\ Event
  /\ channel' \in Images \ {channel}
  /\ since' = IF floor.image = NoImage THEN {} ELSE since \cup {channel'}
  /\ UNCHANGED <<operation, row, host, saved, floor, clock, health, sweeps, passedOver>>

(* setMinimumRuntimeToCurrent: announced, or with a deadline in the future *)
SetMinimumRuntime ==
  /\ Event
  /\ \E deadline \in {"none", "ahead"} :
       floor' = [image |-> channel, deadline |-> deadline]
  /\ since' = {channel}
  /\ UNCHANGED <<operation, row, host, saved, channel, clock, health, sweeps, passedOver>>

DeadlinePasses ==
  /\ floor.deadline = "ahead"
  /\ floor' = [floor EXCEPT !.deadline = "passed"]
  /\ UNCHANGED <<operation, row, host, saved, channel, since, clock, health, sweeps, passedOver, events>>
-----------------------------------------------------------------------------
(* The world *)

(* The owner breaks the container, or the files it starts with. *)
BoxBreaks ==
  /\ Serving
  /\ Event
  /\ fault' \in {"container", "files"}
  /\ UNCHANGED <<operation, row, compose, container, saved, fleet, clock, health, sweeps, passedOver>>

(* Ages grow, and the oldest repairs leave the window, which is all that is read. *)
Tick ==
  /\ ownerAge' = IF ownerAge < Quiet THEN ownerAge + 1 ELSE ownerAge
  /\ \E gone \in 0..Len(repairs) :
       /\ \A i \in DOMAIN repairs : repairs[i] + 1 >= Window <=> i <= gone
       /\ repairs' = [i \in 1..Len(repairs) - gone |-> repairs[i + gone] + 1]
  /\ hour' = (hour + 1) % Window
  /\ alerted' = (alerted /\ hour' # 0)
  /\ UNCHANGED <<operation, row, host, saved, fleet, failures, sweeps, passedOver, events>>
-----------------------------------------------------------------------------
OperationStep ==
  \/ ResolveChannel
  \/ ChooseTarget
  \/ BeginReset
  \/ CaptureRollback
  \/ ReplaceDisk
  \/ SetRuntimeImage
  \/ UpdateRuntime
  \/ RepairRuntime
  \/ BootstrapRuntime
  \/ MarkSucceeded
  \/ StopServer
  \/ StartServer

HealthSweep ==
  \/ SweepLists
  \/ SweepProbes
  \/ SweepDecides
  \/ SweepRepairs
  \/ SweepAlerts
  \/ SweepIsRefused

FloorSweep ==
  \/ FloorLists
  \/ FloorUpdates
  \/ FloorIsRefused

World ==
  \/ \E t \in Types : PersonStarts(t)
  \/ StepThrows
  \/ UpdateRuntimeFails
  \/ RepairFails
  \/ ProbeTimesOut
  \/ SweepThrows
  \/ ChannelMoves
  \/ SetMinimumRuntime
  \/ DeadlinePasses
  \/ BoxBreaks

Next == OperationStep \/ HealthSweep \/ FloorSweep \/ World \/ Tick

Spec == Init /\ [][Next]_vars

(* A durable workflow is resumed; crons run for ever.  Of the six runs of the
   health sweep in an hour, and of the hourly runs of the floor's, not every one
   meets the box in the middle of an operation. *)
Fairness ==
  /\ WF_vars(OperationStep)
  /\ WF_vars(HealthSweep) /\ WF_vars(FloorSweep)
  /\ SF_vars(SweepLists)
  /\ SF_vars(SweepProbes /\ status \in SweptStatuses)
  /\ SF_vars(SweepDecides /\ sweep' # "idle")
  /\ SF_vars(SweepRepairs)
  /\ SF_vars(FloorUpdates)
  /\ WF_vars(Tick)

FairSpec == Spec /\ Fairness
-----------------------------------------------------------------------------
(* Properties *)

(* Automatic repair is bounded: in no window are more repairs begun by the
   health sweep than the limit, whatever else runs on the box meanwhile. *)
RepairsAreBounded == Len(repairs) <= MaxRepairs

(* What an update that failed leaves on the host is put right by the operation
   that makes the box running again: a running box's compose file names the
   image its row does, unless an update was skipped: the skip goes by the row,
   which a failed update leaves behind its host. *)
RunningFollowsRow ==
  status \in {"running", "stopped"} /\ ~passedOver => compose = row

(* A box down while the sweep may repair it comes back, or somebody is told:
   repairs are exhausted, or one has failed, which alerts by itself. *)
DownIsHeard ==
  status \in SweptStatuses /\ ~Serving
    ~> Serving \/ alerted \/ status \in {"repair_failed", "stopped"}

(* A box whose release no channel has named since the floor was set crosses the
   floor after the deadline, through failed updates and repairs, unless it comes
   to rest where no update may begin, cannot serve what it is updated to, or
   staff set another floor. *)
FloorIsCrossed ==
  FloorPassed /\ row \notin since /\ status \in From("update")
    ~> \/ row \in since \/ ~FloorPassed
       \/ status \in RestingStatuses \ From("update")
       \/ fault = "files" \/ channel \in Broken
=============================================================================
