--------------------------- MODULE BoxUpkeepProofs --------------------------
(***************************************************************************)
(* Proofs about BoxUpkeep, for any images, limits and windows: its type    *)
(* invariant, that automatic repairs stay within their limit, and that a   *)
(* running box has the image its row names.                                *)
(***************************************************************************)
EXTENDS BoxUpkeep, SequenceTheorems, TLAPS

(* The statuses of an operation under way, and those a box rests in. *)
Busy == {"updating", "repairing", "resetting", "restoring", "stopping", "starting"}
AtRest == {"running", "stopped", "update_failed", "repair_failed", "reset_failed",
           "restore_failed"}

(* The catalogue's lines for the six operations *)
LEMMA Table ==
  /\ During("update") = "updating" /\ During("repair") = "repairing"
  /\ During("reset") = "resetting" /\ During("restore") = "restoring"
  /\ During("stop") = "stopping" /\ During("start") = "starting"
  /\ OnFailure("update") = "update_failed" /\ OnFailure("repair") = "repair_failed"
  /\ OnFailure("reset") = "reset_failed" /\ OnFailure("restore") = "restore_failed"
  /\ OnFailure("stop") = "running" /\ OnFailure("start") = "stopped"
  BY DEF During, OnFailure

(* The gates *)
LEMMA Gates ==
  /\ From("update") = {"running", "update_failed"}
  /\ From("repair") = {"running", "reset_failed", "restore_failed", "repair_failed",
                       "update_failed"}
  /\ From("reset") = {"running", "reset_failed", "restore_failed", "update_failed"}
  /\ From("restore") = {"running", "restore_failed"}
  /\ From("stop") = {"running"} /\ From("start") = {"stopped"}
  BY DEF From

(* The outcomes *)
LEMMA Outcomes ==
  /\ OnSuccess("update") = "running" /\ OnSuccess("repair") = "running"
  /\ OnSuccess("reset") = "running" /\ OnSuccess("restore") = "running"
  /\ OnSuccess("stop") = "stopped" /\ OnSuccess("start") = "running"
  BY DEF OnSuccess

(* What a status may be, and which of them are of an operation *)
LEMMA Statuses ==
  /\ {During(t) : t \in Types} = Busy
  /\ UNION {From(t) \cup {During(t), OnFailure(t), OnSuccess(t)} : t \in Types}
       = Busy \cup AtRest
<1>1. {During(t) : t \in Types} = Busy
  BY Table DEF Types, Busy
<1>2. \A t \in Types : From(t) \cup {During(t), OnFailure(t), OnSuccess(t)} \subseteq Busy \cup AtRest
  BY Table, Gates, Outcomes DEF Types, Busy, AtRest
<1>3. \A s \in Busy \cup AtRest :
        \E t \in Types : s \in From(t) \cup {During(t), OnFailure(t), OnSuccess(t)}
  <2>1. \A s \in Busy : \E t \in Types : s = During(t)
    BY Table DEF Types, Busy
  <2>2. \A s \in AtRest : \E t \in Types : s \in {OnFailure(t), OnSuccess(t)}
    BY Table, Outcomes DEF Types, AtRest
  <2> QED BY <2>1, <2>2
<1> QED BY <1>1, <1>2, <1>3

(* No status is of an operation and of none. *)
LEMMA BusyOrAtRest == Busy \cap AtRest = {}
  BY DEF Busy, AtRest
-----------------------------------------------------------------------------
(* The inductive invariant of the types and of the images *)

(* What an operation that replaces the image works with is known from its first
   step on. *)
TargetKnown ==
  status \in {"updating", "restoring"} /\ pc # "begin" => target \in Images

(* At the last step the host has what the row is about to name, or names. *)
MarkedAsHost ==
  pc = "mark" =>
    /\ status \in {"updating", "resetting", "restoring"}
    /\ compose = IF status = "updating" THEN target ELSE row

(* Stopping and starting leave the host's files alone, and may fail back to
   where they began. *)
SettledAsHost ==
  status \in {"running", "stopped", "stopping", "starting"} /\ ~passedOver
    => compose = row

RowInv == TypeOK /\ TargetKnown /\ MarkedAsHost /\ SettledAsHost

(* The type invariant of status and step, in words the provers know *)
LEMMA TypedStatus ==
  ASSUME TypeOK
  PROVE  status \in Busy \cup AtRest /\ (pc = "idle" <=> status \notin Busy)
  BY Statuses DEF TypeOK

(* An operation that begins *)
LEMMA StartEffect ==
  ASSUME RowInv, NEW t \in Types, NEW by, Start(t, by)
  PROVE  /\ status' \in Busy /\ pc' \in {"begin", "runtime"}
         /\ status' \in {"updating", "restoring"} => pc' = "begin"
         /\ status' \in {"stopping", "starting"} => status \in {"running", "stopped"}
         /\ pc = "idle" /\ status \in AtRest
<1>1. status \in From(t) /\ status' = During(t) /\ pc = "idle"
  BY DEF Start
<1>2. status \in AtRest
  BY <1>1, TypedStatus DEF RowInv
<1> QED BY <1>1, <1>2, Table, Gates DEF Start, Types, Busy

(* An operation that fails *)
LEMMA FailsEffect ==
  ASSUME RowInv, Fails
  PROVE  /\ status' \in AtRest /\ pc' = "idle" /\ target' = NoImage
         /\ status' \in {"running", "stopped"} => status \in {"stopping", "starting"}
         /\ status \in Busy
  BY Table DEF Fails, Ends, Types, Busy, AtRest

(* What neither changes status, step, target and images, nor skips an update,
   keeps what the invariant says of them. *)
LEMMA ImagesUntouched ==
  ASSUME RowInv, TypeOK', UNCHANGED <<operation, row, compose, passedOver>>
  PROVE  RowInv'
  BY DEF RowInv, TargetKnown, MarkedAsHost, SettledAsHost, operation

(* The type invariant in four parts, with the statuses spelled out *)
OperationType ==
  /\ status \in Busy \cup AtRest
  /\ pc = "idle" <=> status \notin Busy
  /\ pc \in {"idle", "begin", "capture", "replace", "version", "runtime", "mark"}
  /\ target \in Images \cup {NoImage}

HostType ==
  /\ compose \in Images \cup {NoImage} /\ container \in Images \cup {NoImage}
  /\ row \in Images
  /\ fault \in {"none", "container", "files"}
  /\ saved \subseteq Images

FleetType ==
  /\ channel \in Images /\ since \subseteq Images
  /\ floor \in [image : Images \cup {NoImage}, deadline : {"none", "ahead", "passed"}]
  /\ failures \in 0..Sustained /\ ownerAge \in 0..Quiet
  /\ repairs \in Seq(0..Window - 1) /\ hour \in 0..Window - 1
  /\ alerted \in BOOLEAN /\ floorSweep \in BOOLEAN
  /\ sweep \in {"idle", "listed", "counted", "repair", "alert"}

EventsType == passedOver \in BOOLEAN /\ events \in 0..MaxEvents

(* They are the type invariant. *)
LEMMA TypeParts == TypeOK <=> OperationType /\ HostType /\ FleetType /\ EventsType
<1>1. /\ status \in UNION {From(t) \cup {During(t), OnFailure(t), OnSuccess(t)} : t \in Types}
           <=> status \in Busy \cup AtRest
      /\ status \notin {During(t) : t \in Types} <=> status \notin Busy
  BY Statuses
<1>2. {alerted, floorSweep, passedOver} \subseteq BOOLEAN
        <=> alerted \in BOOLEAN /\ floorSweep \in BOOLEAN /\ passedOver \in BOOLEAN
  OBVIOUS
<1> QED BY <1>1, <1>2 DEF TypeOK, OperationType, HostType, FleetType, EventsType

(* And so after a step, too. *)
LEMMA TypePartsNext ==
  ASSUME OperationType', HostType', FleetType', EventsType'
  PROVE  TypeOK'
<1>1. /\ status' \in UNION {From(t) \cup {During(t), OnFailure(t), OnSuccess(t)} : t \in Types}
           <=> status' \in Busy \cup AtRest
      /\ status' \notin {During(t) : t \in Types} <=> status' \notin Busy
  BY Statuses
<1>2. {alerted', floorSweep', passedOver'} \subseteq BOOLEAN
  BY DEF FleetType, EventsType
<1> QED BY <1>1, <1>2 DEF TypeOK, OperationType, HostType, FleetType, EventsType

(* What no step of an operation touches *)
LEMMA FleetStays ==
  ASSUME FleetType, UNCHANGED <<fleet, clock, health, sweeps>>
  PROVE  FleetType'
  BY DEF FleetType, fleet, clock, health, sweeps

(* The steps of operations, one kind after the other, keep the invariant. *)
LEMMA BeginningsKeepRow ==
  ASSUME RowInv, ResolveChannel \/ ChooseTarget \/ BeginReset
  PROVE  RowInv'
<1> USE ImagesAssumption
<1>0. OperationType /\ HostType /\ FleetType /\ EventsType
  BY TypeParts DEF RowInv
<1>1. CASE ResolveChannel
  <2>1. status = "updating" /\ pc = "begin"
    BY <1>1 DEF ResolveChannel
  <2>2. UNCHANGED <<row, compose, container, fault, saved, fleet, clock, health, sweeps, events>>
    BY <1>1 DEF ResolveChannel, host, untouched
  <2>3. CASE AlreadyApplied(channel)
    <3>1. status' = "running" /\ pc' = "idle" /\ target' = NoImage /\ passedOver' = (compose # row)
      BY <1>1, <2>3 DEF ResolveChannel, Ends
    <3>2. TypeOK'
      <4>1. OperationType'
        BY <1>0, <2>2, <3>1, BusyOrAtRest DEF OperationType, Busy, AtRest
      <4>2. HostType'
        BY <1>0, <2>2, <3>1 DEF HostType
      <4>3. FleetType'
        BY <1>0, <2>2, <3>1, FleetStays
      <4>4. EventsType'
        BY <1>0, <2>2, <3>1 DEF EventsType
      <4> QED BY <4>1, <4>2, <4>3, <4>4, TypePartsNext
    <3> QED BY <2>2, <3>1, <3>2 DEF RowInv, TargetKnown, MarkedAsHost, SettledAsHost
  <2>4. CASE ~AlreadyApplied(channel)
    <3>1. pc' = "capture" /\ target' = channel /\ UNCHANGED <<status, passedOver>>
      BY <1>1, <2>4 DEF ResolveChannel
    <3>2. TypeOK'
      <4>1. OperationType'
        BY <1>0, <2>1, <2>2, <3>1, BusyOrAtRest DEF OperationType, FleetType, Busy, AtRest
      <4>2. HostType'
        BY <1>0, <2>1, <2>2, <3>1 DEF HostType
      <4>3. FleetType'
        BY <1>0, <2>1, <2>2, <3>1, FleetStays
      <4>4. EventsType'
        BY <1>0, <2>1, <2>2, <3>1 DEF EventsType
      <4> QED BY <4>1, <4>2, <4>3, <4>4, TypePartsNext
    <3> QED BY <2>1, <2>2, <3>1, <3>2 DEF RowInv, TypeOK, TargetKnown, MarkedAsHost, SettledAsHost
  <2> QED BY <2>3, <2>4
<1>2. CASE ChooseTarget
  <2>1. /\ status = "restoring" /\ pc = "begin" /\ pc' = "capture" /\ target' \in Images
        /\ UNCHANGED <<status, row, compose, container, fault, saved, fleet, clock, health,
                       sweeps, passedOver, events>>
    BY <1>2 DEF ChooseTarget, Goes, host, untouched, RowInv, TypeOK
  <2>2. TypeOK'
    <3>1. OperationType'
      BY <1>0, <2>1, BusyOrAtRest DEF OperationType, Busy, AtRest
    <3>2. HostType'
      BY <1>0, <2>1 DEF HostType
    <3>3. FleetType'
      BY <1>0, <2>1, FleetStays
    <3>4. EventsType'
      BY <1>0, <2>1 DEF EventsType
    <3> QED BY <3>1, <3>2, <3>3, <3>4, TypePartsNext
  <2> QED BY <2>1, <2>2 DEF RowInv, TargetKnown, MarkedAsHost, SettledAsHost
<1>3. CASE BeginReset
  <2>1. /\ status = "resetting" /\ pc = "begin" /\ pc' = "capture"
        /\ UNCHANGED <<status, target, row, compose, container, fault, saved, fleet, clock,
                       health, sweeps, passedOver, events>>
    BY <1>3 DEF BeginReset, Goes, host, untouched
  <2>2. TypeOK'
    <3>1. OperationType'
      BY <1>0, <2>1, BusyOrAtRest DEF OperationType, Busy, AtRest
    <3>2. HostType'
      BY <1>0, <2>1 DEF HostType
    <3>3. FleetType'
      BY <1>0, <2>1, FleetStays
    <3>4. EventsType'
      BY <1>0, <2>1 DEF EventsType
    <3> QED BY <3>1, <3>2, <3>3, <3>4, TypePartsNext
  <2> QED BY <2>1, <2>2 DEF RowInv, TargetKnown, MarkedAsHost, SettledAsHost
<1> QED BY <1>1, <1>2, <1>3

(* The copy of before, the new disk, the row named ahead of the runtime *)
LEMMA MiddlesKeepRow ==
  ASSUME RowInv, CaptureRollback \/ ReplaceDisk \/ SetRuntimeImage
  PROVE  RowInv'
<1> USE ImagesAssumption
<1>0. OperationType /\ HostType /\ FleetType /\ EventsType
  BY TypeParts DEF RowInv
<1>1. CASE CaptureRollback
  <2>1. /\ pc = "capture" /\ pc' \in {"runtime", "replace"} /\ saved' = saved \cup {row}
        /\ UNCHANGED <<status, target, row, compose, container, fault, fleet, clock, health,
                       sweeps, passedOver, events>>
    BY <1>1 DEF CaptureRollback, host
  <2>2. TypeOK'
    <3>1. OperationType'
      BY <1>0, <2>1, BusyOrAtRest DEF OperationType, Busy, AtRest
    <3>2. HostType'
      BY <1>0, <2>1 DEF HostType
    <3>3. FleetType'
      BY <1>0, <2>1, FleetStays
    <3>4. EventsType'
      BY <1>0, <2>1 DEF EventsType
    <3> QED BY <3>1, <3>2, <3>3, <3>4, TypePartsNext
  <2> QED BY <2>1, <2>2 DEF RowInv, TargetKnown, MarkedAsHost, SettledAsHost
<1>2. CASE ReplaceDisk
  <2>1. /\ pc = "replace" /\ status \in {"resetting", "restoring"}
        /\ pc' \in {"runtime", "version"} /\ compose' \in Images \cup {NoImage}
        /\ container' = compose' /\ fault' \in {"none", "files"}
        /\ UNCHANGED <<status, target, row, saved, fleet, clock, health, sweeps, passedOver,
                       events>>
    BY <1>2 DEF ReplaceDisk, untouched
  <2>2. TypeOK'
    <3>1. OperationType'
      BY <1>0, <2>1, BusyOrAtRest DEF OperationType, Busy, AtRest
    <3>2. HostType'
      BY <1>0, <2>1 DEF HostType
    <3>3. FleetType'
      BY <1>0, <2>1, FleetStays
    <3>4. EventsType'
      BY <1>0, <2>1 DEF EventsType
    <3> QED BY <3>1, <3>2, <3>3, <3>4, TypePartsNext
  <2> QED BY <2>1, <2>2 DEF RowInv, TargetKnown, MarkedAsHost, SettledAsHost
<1>3. CASE SetRuntimeImage
  <2>1. /\ status = "restoring" /\ pc = "version" /\ pc' = "runtime" /\ row' = target
        /\ UNCHANGED <<status, target, compose, container, fault, saved, fleet, clock, health,
                       sweeps, passedOver, events>>
    BY <1>3 DEF SetRuntimeImage, Goes, host, untouched
  <2>2. target \in Images
    BY <2>1 DEF RowInv, TargetKnown
  <2>3. TypeOK'
    <3>1. OperationType'
      BY <1>0, <2>1, <2>2, BusyOrAtRest DEF OperationType, Busy, AtRest
    <3>2. HostType'
      BY <1>0, <2>1, <2>2 DEF HostType
    <3>3. FleetType'
      BY <1>0, <2>1, <2>2, FleetStays
    <3>4. EventsType'
      BY <1>0, <2>1, <2>2 DEF EventsType
    <3> QED BY <3>1, <3>2, <3>3, <3>4, TypePartsNext
  <2> QED BY <2>1, <2>2, <2>3 DEF RowInv, TargetKnown, MarkedAsHost, SettledAsHost
<1> QED BY <1>1, <1>2, <1>3

(* Bringing the runtime up, for better or worse *)
LEMMA RuntimesKeepRow ==
  ASSUME RowInv,
         UpdateRuntime \/ UpdateRuntimeFails \/ RepairRuntime \/ RepairFails \/ BootstrapRuntime
  PROVE  RowInv'
<1> USE ImagesAssumption
<1>0. OperationType /\ HostType /\ FleetType /\ EventsType
  BY TypeParts DEF RowInv
<1>f. ASSUME Fails, compose' \in Images \cup {NoImage}, container' \in Images \cup {NoImage},
             fault' \in {"none", "container", "files"}, passedOver' = FALSE,
             status \notin {"stopping", "starting"}, events' \in 0..MaxEvents,
             UNCHANGED <<row, saved, fleet, clock, health, sweeps>>
      PROVE  RowInv'
  <2>1. /\ status' \in AtRest /\ pc' = "idle" /\ target' = NoImage
        /\ status' \notin {"running", "stopped"}
    BY <1>f, FailsEffect
  <2>2. TypeOK'
    <3>1. OperationType'
      BY <1>0, <1>f, <2>1, BusyOrAtRest DEF OperationType, Busy, AtRest
    <3>2. HostType'
      BY <1>0, <1>f, <2>1 DEF HostType
    <3>3. FleetType'
      BY <1>0, <1>f, <2>1, FleetStays
    <3>4. EventsType'
      BY <1>0, <1>f, <2>1 DEF EventsType
    <3> QED BY <3>1, <3>2, <3>3, <3>4, TypePartsNext
  <2> QED BY <2>1, <2>2 DEF RowInv, TargetKnown, MarkedAsHost, SettledAsHost, AtRest
<1>1. CASE UpdateRuntime
  <2>1. /\ status = "updating" /\ pc = "runtime" /\ compose' = target /\ container' = target
        /\ fault' \in {"none", "files"} /\ passedOver' = FALSE
        /\ UNCHANGED <<row, saved, fleet, clock, health, sweeps, events>>
    BY <1>1 DEF UpdateRuntime, Recreated, untouched
  <2>2. target \in Images
    BY <2>1 DEF RowInv, TargetKnown
  <2>3. CASE Answers
    <3>1. pc' = "mark" /\ UNCHANGED <<status, target>>
      BY <1>1, <2>3 DEF UpdateRuntime
    <3>2. TypeOK'
      <4>1. OperationType'
        BY <1>0, <2>1, <2>2, <3>1, BusyOrAtRest DEF OperationType, Busy, AtRest
      <4>2. HostType'
        BY <1>0, <2>1, <2>2, <3>1 DEF HostType
      <4>3. FleetType'
        BY <1>0, <2>1, <2>2, <3>1, FleetStays
      <4>4. EventsType'
        BY <1>0, <2>1, <2>2, <3>1 DEF EventsType
      <4> QED BY <4>1, <4>2, <4>3, <4>4, TypePartsNext
    <3> QED BY <2>1, <2>2, <3>1, <3>2 DEF RowInv, TargetKnown, MarkedAsHost, SettledAsHost
  <2>4. CASE ~Answers
    <3>1. Fails
      BY <1>1, <2>4 DEF UpdateRuntime
    <3> QED BY <1>f, <2>1, <2>2, <3>1 DEF RowInv, TypeOK
  <2> QED BY <2>3, <2>4
<1>2. CASE UpdateRuntimeFails
  <2>1. /\ status = "updating" /\ pc = "runtime" /\ compose' = target
        /\ container' \in {container, target} /\ Fails /\ Event /\ passedOver' = FALSE
        /\ UNCHANGED <<row, saved, fleet, clock, health, sweeps>>
    BY <1>2 DEF UpdateRuntimeFails, untouched
  <2>2. fault' \in {"none", "container", "files"}
    BY <1>2 DEF UpdateRuntimeFails, RowInv, TypeOK
  <2>3. events' \in 0..MaxEvents
    BY <2>1, EventsAssumption DEF Event, RowInv, TypeOK
  <2>4. compose' \in Images \cup {NoImage} /\ container' \in Images \cup {NoImage}
    BY <2>1 DEF RowInv, TypeOK
  <2> QED BY <1>f, <2>1, <2>2, <2>3, <2>4
<1>3. CASE RepairRuntime
  <2>1. /\ status = "repairing" /\ pc = "runtime" /\ compose' = row /\ container' = row
        /\ fault' \in {"none", "files"} /\ passedOver' = FALSE
        /\ UNCHANGED <<row, saved, fleet, clock, health, sweeps, events>>
    BY <1>3 DEF RepairRuntime, Recreated, RepairImage, untouched
  <2>2. CASE Answers
    <3>1. status' = "running" /\ pc' = "idle" /\ target' = NoImage
      BY <1>3, <2>2 DEF RepairRuntime, Ends
    <3>2. TypeOK'
      <4>1. OperationType'
        BY <1>0, <2>1, <3>1, BusyOrAtRest DEF OperationType, Busy, AtRest
      <4>2. HostType'
        BY <1>0, <2>1, <3>1 DEF HostType
      <4>3. FleetType'
        BY <1>0, <2>1, <3>1, FleetStays
      <4>4. EventsType'
        BY <1>0, <2>1, <3>1 DEF EventsType
      <4> QED BY <4>1, <4>2, <4>3, <4>4, TypePartsNext
    <3> QED BY <2>1, <3>1, <3>2 DEF RowInv, TargetKnown, MarkedAsHost, SettledAsHost
  <2>3. CASE ~Answers
    <3>1. Fails
      BY <1>3, <2>3 DEF RepairRuntime
    <3> QED BY <1>f, <2>1, <3>1 DEF RowInv, TypeOK
  <2> QED BY <2>2, <2>3
<1>4. CASE RepairFails
  <2>1. /\ status = "repairing" /\ compose' \in {row, NoImage}
        /\ container' \in {row, container, NoImage} /\ fault' \in {fault, "none", "files"}
        /\ Fails /\ Event /\ passedOver' = FALSE
        /\ UNCHANGED <<row, saved, fleet, clock, health, sweeps>>
    BY <1>4 DEF RepairFails, RepairImage, Recreated, untouched
  <2>2. events' \in 0..MaxEvents
    BY <2>1, EventsAssumption DEF Event, RowInv, TypeOK
  <2>3. compose' \in Images \cup {NoImage} /\ container' \in Images \cup {NoImage}
    BY <2>1 DEF RowInv, TypeOK
  <2> QED BY <1>f, <2>1, <2>2, <2>3 DEF RowInv, TypeOK
<1>5. CASE BootstrapRuntime
  <2>1. /\ status \in {"resetting", "restoring"} /\ pc = "runtime" /\ pc' = "mark"
        /\ compose' = row /\ container' = row /\ fault' \in {"none", "files"}
        /\ passedOver' = FALSE
        /\ UNCHANGED <<status, target, row, saved, fleet, clock, health, sweeps, events>>
    BY <1>5 DEF BootstrapRuntime, Recreated, untouched
  <2>2. TypeOK'
    <3>1. OperationType'
      BY <1>0, <2>1, BusyOrAtRest DEF OperationType, Busy, AtRest
    <3>2. HostType'
      BY <1>0, <2>1 DEF HostType
    <3>3. FleetType'
      BY <1>0, <2>1, FleetStays
    <3>4. EventsType'
      BY <1>0, <2>1 DEF EventsType
    <3> QED BY <3>1, <3>2, <3>3, <3>4, TypePartsNext
  <2> QED BY <2>1, <2>2 DEF RowInv, TargetKnown, MarkedAsHost, SettledAsHost
<1> QED BY <1>1, <1>2, <1>3, <1>4, <1>5

(* How operations end by themselves *)
LEMMA EndingsKeepRow ==
  ASSUME RowInv, MarkSucceeded \/ StopServer \/ StartServer \/ StepThrows
  PROVE  RowInv'
<1>0. OperationType /\ HostType /\ FleetType /\ EventsType
  BY TypeParts DEF RowInv
<1>1. CASE MarkSucceeded
  <2>1. /\ pc = "mark" /\ status' = "running" /\ pc' = "idle" /\ target' = NoImage
        /\ row' = (IF status = "updating" THEN target ELSE row)
        /\ UNCHANGED <<compose, container, fault, saved, fleet, clock, health, sweeps,
                       passedOver, events>>
    BY <1>1 DEF MarkSucceeded, Ends, host, untouched
  <2>2. row' = compose' /\ row' \in Images
    BY <1>0, <2>1 DEF RowInv, MarkedAsHost, TargetKnown, HostType
  <2>3. TypeOK'
    <3>1. OperationType'
      BY <1>0, <2>1 DEF OperationType, Busy, AtRest
    <3>2. HostType'
      BY <1>0, <2>1, <2>2 DEF HostType
    <3>3. FleetType'
      BY <1>0, <2>1, FleetStays
    <3>4. EventsType'
      BY <1>0, <2>1 DEF EventsType
    <3> QED BY <3>1, <3>2, <3>3, <3>4, TypePartsNext
  <2> QED BY <2>1, <2>2, <2>3 DEF RowInv, TargetKnown, MarkedAsHost, SettledAsHost
<1>2. CASE StopServer \/ StartServer
  <2>1. /\ status \in {"stopping", "starting"} /\ status' \in {"running", "stopped"}
        /\ pc' = "idle" /\ target' = NoImage
        /\ container' \in {NoImage, compose} /\ fault' \in {fault, "none", "files"}
        /\ UNCHANGED <<row, compose, saved, fleet, clock, health, sweeps, passedOver, events>>
    BY <1>2 DEF StopServer, StartServer, Ends, untouched
  <2>2. TypeOK'
    <3>1. OperationType'
      BY <1>0, <2>1 DEF OperationType, Busy, AtRest
    <3>2. HostType'
      BY <1>0, <2>1 DEF HostType
    <3>3. FleetType'
      BY <1>0, <2>1, FleetStays
    <3>4. EventsType'
      BY <1>0, <2>1 DEF EventsType
    <3> QED BY <3>1, <3>2, <3>3, <3>4, TypePartsNext
  <2> QED BY <2>1, <2>2 DEF RowInv, TargetKnown, MarkedAsHost, SettledAsHost
<1>3. CASE StepThrows
  <2>1. /\ Fails /\ Event
        /\ UNCHANGED <<row, compose, container, fault, saved, fleet, clock, health, sweeps,
                       passedOver>>
    BY <1>3 DEF StepThrows, host
  <2>2. /\ status' \in AtRest /\ pc' = "idle" /\ target' = NoImage
        /\ status' \in {"running", "stopped"} => status \in {"stopping", "starting"}
    BY <2>1, FailsEffect
  <2>3. TypeOK'
    <3>1. OperationType'
      BY <1>0, <2>2, BusyOrAtRest DEF OperationType
    <3>2. HostType'
      BY <1>0, <2>1 DEF HostType
    <3>3. FleetType'
      BY <1>0, <2>1, FleetStays
    <3>4. EventsType'
      BY <1>0, <2>1, EventsAssumption DEF EventsType, Event
    <3> QED BY <3>1, <3>2, <3>3, <3>4, TypePartsNext
  <2> QED BY <2>1, <2>2, <2>3 DEF RowInv, TargetKnown, MarkedAsHost, SettledAsHost, AtRest
<1> QED BY <1>1, <1>2, <1>3

(* An operation that begins, whoever begins it *)
LEMMA StartKeepsRow ==
  ASSUME RowInv, NEW t \in Types, NEW by, Start(t, by),
         sweep' \in {"idle", sweep}, floorSweep' \in BOOLEAN, events' \in 0..MaxEvents
  PROVE  RowInv'
<1>0. OperationType /\ HostType /\ FleetType /\ EventsType
  BY TypeParts DEF RowInv
<1>1. /\ status' \in Busy /\ pc' \in {"begin", "runtime"} /\ status \in AtRest
      /\ status' \in {"updating", "restoring"} => pc' = "begin"
      /\ status' \in {"stopping", "starting"} => status \in {"running", "stopped"}
  BY StartEffect
<1>2. UNCHANGED <<target, row, compose, container, fault, saved, channel, floor, since, hour,
                  failures, alerted, passedOver>>
  BY DEF Start, host, fleet, health
<1>3. ownerAge' \in 0..Quiet
  BY <1>0, TimesAssumption DEF Start, SinceStart, FleetType
<1>4. repairs' \in Seq(0..Window - 1)
  <2>1. 0 \in 0..Window - 1
    BY TimesAssumption
  <2>2. Append(repairs, 0) \in Seq(0..Window - 1)
    BY <1>0, <2>1 DEF FleetType
  <2> QED BY <1>0, <2>2 DEF Start, FleetType
<1>5. TypeOK'
  <2>1. OperationType'
    BY <1>0, <1>1, <1>2 DEF OperationType, Busy
  <2>2. HostType'
    BY <1>0, <1>2 DEF HostType
  <2>3. FleetType'
    BY <1>0, <1>2, <1>3, <1>4 DEF FleetType
  <2>4. EventsType'
    BY <1>0, <1>2 DEF EventsType
  <2> QED BY <2>1, <2>2, <2>3, <2>4, TypePartsNext
<1> QED BY <1>1, <1>2, <1>5 DEF RowInv, TargetKnown, MarkedAsHost, SettledAsHost, Busy

(* Neither what the sweeps do besides nor what happens to fleet and box touches
   status, row or compose file. *)
LEMMA OthersKeepRow ==
  ASSUME RowInv,
         UNCHANGED <<status, pc, target, row, compose, passedOver>>,
         container' = container, saved' = saved,
         fault' \in {"none", "container", "files"},
         events' \in 0..MaxEvents, FleetType'
  PROVE  RowInv'
<1>0. OperationType /\ HostType /\ FleetType /\ EventsType
  BY TypeParts DEF RowInv
<1>1. OperationType' /\ HostType' /\ EventsType'
  BY <1>0 DEF OperationType, HostType, EventsType
<1>2. TypeOK'
  BY <1>1, TypePartsNext
<1> QED BY <1>2 DEF RowInv, TargetKnown, MarkedAsHost, SettledAsHost

(* The limit bounds the counter of failures. *)
LEMMA CountStays ==
  ASSUME FleetType, failures' \in {0, IF failures < Sustained THEN failures + 1 ELSE failures}
  PROVE  failures' \in 0..Sustained
  BY TimesAssumption DEF FleetType

(* The calls of the health sweep, but the one that starts a repair *)
LEMMA HealthSweepKeepsRow ==
  ASSUME RowInv,
         SweepLists \/ SweepProbes \/ ProbeTimesOut \/ SweepDecides \/ SweepAlerts
           \/ SweepIsRefused \/ SweepThrows
  PROVE  RowInv'
<1>0. OperationType /\ HostType /\ FleetType /\ EventsType
  BY TypeParts DEF RowInv
<1>s. ASSUME UNCHANGED <<operation, row, host, saved, fleet, clock, floorSweep, passedOver>>,
             failures' \in 0..Sustained, alerted' \in BOOLEAN, events' \in 0..MaxEvents,
             sweep' \in {"idle", "listed", "counted", "repair", "alert"}
      PROVE  RowInv'
  <2>1. FleetType'
    BY <1>0, <1>s DEF FleetType, fleet, clock
  <2> QED BY <1>0, <1>s, <2>1, OthersKeepRow DEF operation, host, HostType
<1>e. ASSUME Event PROVE events' \in 0..MaxEvents
  BY <1>0, <1>e, EventsAssumption DEF Event, EventsType
<1>f. failures \in 0..Sustained /\ alerted \in BOOLEAN /\ events \in 0..MaxEvents
  BY <1>0 DEF FleetType, EventsType
<1>1. CASE SweepLists
  BY <1>1, <1>s, <1>f DEF SweepLists, health
<1>2. ASSUME NEW reachable \in BOOLEAN, Probed(reachable), events' \in 0..MaxEvents
      PROVE  RowInv'
  <2>1. failures' \in 0..Sustained
    BY <1>0, <1>2, CountStays DEF Probed
  <2> QED BY <1>2, <1>s, <1>f, <2>1 DEF Probed
<1>3. CASE SweepProbes
  BY <1>2, <1>3, <1>f DEF SweepProbes, Serving
<1>4. CASE ProbeTimesOut
  BY <1>2, <1>4, <1>e DEF ProbeTimesOut
<1>5. CASE SweepDecides
  <2>1. Decision \in {"idle", "alert", "repair"}
    BY DEF Decision
  <2> QED BY <1>5, <1>s, <1>f, <2>1 DEF SweepDecides, health
<1>6. CASE SweepAlerts
  BY <1>6, <1>s, <1>f DEF SweepAlerts
<1>7. CASE SweepIsRefused
  BY <1>7, <1>s, <1>f DEF SweepIsRefused, health
<1>8. CASE SweepThrows
  BY <1>8, <1>s, <1>e, <1>f DEF SweepThrows, health
<1> QED BY <1>1, <1>3, <1>4, <1>5, <1>6, <1>7, <1>8

(* Releases, floors, the other sweep's looks, breakages and time *)
LEMMA FleetKeepsRow ==
  ASSUME RowInv,
         FloorLists \/ FloorIsRefused \/ ChannelMoves \/ SetMinimumRuntime \/ DeadlinePasses
           \/ BoxBreaks
  PROVE  RowInv'
<1>0. OperationType /\ HostType /\ FleetType /\ EventsType
  BY TypeParts DEF RowInv
<1>e. ASSUME Event PROVE events' \in 0..MaxEvents
  BY <1>0, <1>e, EventsAssumption DEF Event, EventsType
<1>f. events \in 0..MaxEvents /\ fault \in {"none", "container", "files"}
  BY <1>0 DEF HostType, EventsType
<1>1. CASE FloorLists \/ FloorIsRefused
  <2>1. /\ UNCHANGED <<operation, row, host, saved, fleet, clock, health, sweep, passedOver,
                       events>>
        /\ floorSweep' \in BOOLEAN
    BY <1>1 DEF FloorLists, FloorIsRefused
  <2>2. FleetType'
    BY <1>0, <2>1 DEF FleetType, fleet, clock, health
  <2> QED BY <1>f, <2>1, <2>2, OthersKeepRow DEF operation, host
<1>2. CASE ChannelMoves
  <2>1. /\ UNCHANGED <<operation, row, host, saved, floor, clock, health, sweeps, passedOver>>
        /\ channel' \in Images /\ since' \subseteq Images
    BY <1>0, <1>2 DEF ChannelMoves, FleetType
  <2>2. FleetType'
    BY <1>0, <2>1 DEF FleetType, clock, health, sweeps
  <2> QED BY <1>2, <1>e, <1>f, <2>1, <2>2, OthersKeepRow DEF ChannelMoves, operation, host
<1>3. CASE SetMinimumRuntime
  <2>1. /\ UNCHANGED <<operation, row, host, saved, channel, clock, health, sweeps, passedOver>>
        /\ since' \subseteq Images
        /\ floor' \in [image : Images \cup {NoImage}, deadline : {"none", "ahead", "passed"}]
    BY <1>0, <1>3 DEF SetMinimumRuntime, FleetType
  <2>2. FleetType'
    BY <1>0, <2>1 DEF FleetType, clock, health, sweeps
  <2> QED BY <1>3, <1>e, <1>f, <2>1, <2>2, OthersKeepRow DEF SetMinimumRuntime, operation, host
<1>4. CASE DeadlinePasses
  <2>1. /\ UNCHANGED <<operation, row, host, saved, channel, since, clock, health, sweeps,
                       passedOver, events>>
        /\ floor' \in [image : Images \cup {NoImage}, deadline : {"none", "ahead", "passed"}]
    BY <1>0, <1>4 DEF DeadlinePasses, FleetType
  <2>2. FleetType'
    BY <1>0, <2>1 DEF FleetType, clock, health, sweeps
  <2> QED BY <1>f, <2>1, <2>2, OthersKeepRow DEF operation, host
<1>5. CASE BoxBreaks
  <2>1. /\ UNCHANGED <<operation, row, compose, container, saved, fleet, clock, health, sweeps,
                       passedOver>>
        /\ fault' \in {"none", "container", "files"}
    BY <1>5 DEF BoxBreaks
  <2>2. FleetType'
    BY <1>0, <2>1, FleetStays
  <2> QED BY <1>5, <1>e, <2>1, <2>2, OthersKeepRow DEF BoxBreaks, operation
<1> QED BY <1>1, <1>2, <1>3, <1>4, <1>5

(* What a tick makes of the repairs in the window: as many or fewer, each still in
   the window. *)
LEMMA TickEffect ==
  ASSUME FleetType, Tick
  PROVE  repairs' \in Seq(0..Window - 1) /\ Len(repairs') <= Len(repairs)
<1>1. PICK gone \in 0..Len(repairs) :
        /\ \A i \in DOMAIN repairs : repairs[i] + 1 >= Window <=> i <= gone
        /\ repairs' = [i \in 1..Len(repairs) - gone |-> repairs[i + gone] + 1]
  BY DEF Tick
<1>2. Len(repairs) \in Nat /\ Window \in Nat /\ DOMAIN repairs = 1..Len(repairs)
  BY TimesAssumption DEF FleetType
<1>3. Len(repairs) - gone \in Nat
  BY <1>2
<1>4. ASSUME NEW i \in 1..Len(repairs) - gone
      PROVE  repairs[i + gone] + 1 \in 0..Window - 1
  <2>1. i + gone \in DOMAIN repairs /\ ~(i + gone <= gone)
    BY <1>2, <1>3, <1>4
  <2>2. repairs[i + gone] \in 0..Window - 1
    BY <2>1, <1>2 DEF FleetType
  <2>3. ~(repairs[i + gone] + 1 >= Window)
    BY <1>1, <2>1
  <2> QED BY <1>2, <2>2, <2>3
<1>5. repairs' \in [1..Len(repairs) - gone -> 0..Window - 1]
  BY <1>1, <1>4
<1>6. repairs' \in Seq(0..Window - 1)
  <2> DEFINE n == Len(repairs) - gone
  <2>1. n \in Nat /\ repairs' = [i \in 1..n |-> repairs[i + gone] + 1]
    BY <1>1, <1>3
  <2>2. \A i \in 1..n : repairs[i + gone] + 1 \in 0..Window - 1
    BY <1>4
  <2> HIDE DEF n
  <2>3. [i \in 1..n |-> repairs[i + gone] + 1] \in Seq(0..Window - 1)
    BY <2>1, <2>2
  <2> QED BY <2>1, <2>3
<1>7. 1..Len(repairs') = 1..Len(repairs) - gone /\ Len(repairs') \in Nat
  BY <1>5, <1>6, LenProperties
<1>8. Len(repairs') = Len(repairs) - gone
  BY <1>3, <1>7
<1> QED BY <1>2, <1>6, <1>8

(* The hour stays one of the window's. *)
LEMMA HourStays == ASSUME hour \in 0..Window - 1 PROVE (hour + 1) % Window \in 0..Window - 1
  BY TimesAssumption

(* Time keeps the invariant. *)
LEMMA TickKeepsRow == ASSUME RowInv, Tick PROVE RowInv'
<1>0. OperationType /\ HostType /\ FleetType /\ EventsType
  BY TypeParts DEF RowInv
<1>1. UNCHANGED <<operation, row, host, saved, fleet, failures, sweeps, passedOver, events>>
  BY DEF Tick
<1>2. ownerAge' \in 0..Quiet
  BY <1>0, TimesAssumption DEF Tick, FleetType
<1>3. hour' \in 0..Window - 1
  BY <1>0, HourStays DEF Tick, FleetType
<1>4. alerted' \in BOOLEAN
  BY DEF Tick
<1>5. FleetType'
  BY <1>0, <1>1, <1>2, <1>3, <1>4, TickEffect DEF FleetType, fleet, sweeps
<1> QED BY <1>0, <1>1, <1>5, OthersKeepRow DEF operation, host, HostType, EventsType

(* Every step keeps the invariant. *)
LEMMA StepKeepsRow == ASSUME RowInv, [Next]_vars PROVE RowInv'
<1>0. OperationType /\ HostType /\ FleetType /\ EventsType
  BY TypeParts DEF RowInv
<1>1. CASE OperationStep
  BY <1>1, BeginningsKeepRow, MiddlesKeepRow, RuntimesKeepRow, EndingsKeepRow DEF OperationStep
<1>2. CASE HealthSweep
  <2>1. CASE SweepRepairs
    <3>1. Start("repair", "auto_repair") /\ sweep' = "idle" /\ UNCHANGED <<floorSweep, events>>
      BY <2>1 DEF SweepRepairs
    <3> QED BY <1>0, <3>1, StartKeepsRow DEF Types, FleetType, EventsType
  <2> QED BY <1>2, <2>1, HealthSweepKeepsRow DEF HealthSweep
<1>3. CASE FloorSweep
  <2>1. CASE FloorUpdates
    <3>1. Start("update", "floor") /\ floorSweep' = FALSE /\ UNCHANGED <<sweep, events>>
      BY <2>1 DEF FloorUpdates
    <3> QED BY <1>0, <3>1, StartKeepsRow DEF Types, EventsType
  <2> QED BY <1>3, <2>1, FleetKeepsRow DEF FloorSweep
<1>4. CASE World
  <2>1. ASSUME NEW t \in Types, PersonStarts(t)
        PROVE  RowInv'
    <3>1. Start(t, "person") /\ Event /\ UNCHANGED <<sweep, floorSweep>>
      BY <2>1 DEF PersonStarts, sweeps
    <3>2. events' \in 0..MaxEvents
      BY <1>0, <3>1, EventsAssumption DEF Event, EventsType
    <3> QED BY <1>0, <3>1, <3>2, StartKeepsRow DEF FleetType
  <2> QED BY <1>4, <2>1, EndingsKeepRow, RuntimesKeepRow, HealthSweepKeepsRow,
       FleetKeepsRow DEF World
<1>5. CASE Tick
  BY <1>5, TickKeepsRow
<1>6. CASE UNCHANGED vars
  <2>1. FleetType'
    BY <1>0, <1>6, FleetStays DEF vars
  <2> QED BY <1>0, <1>6, <2>1, OthersKeepRow DEF vars, operation, host, HostType, EventsType
<1> QED BY <1>1, <1>2, <1>3, <1>4, <1>5, <1>6 DEF Next

(* It holds at first. *)
LEMMA InitRow == ASSUME Init PROVE RowInv
<1>1. OperationType
  BY DEF Init, OperationType, Busy, AtRest
<1>2. HostType
  BY DEF Init, HostType
<1>3. repairs \in Seq(0..Window - 1)
  BY DEF Init
<1>4. alerted \in BOOLEAN /\ floorSweep \in BOOLEAN /\ passedOver \in BOOLEAN
  BY Zenon DEF Init
<1>5. events \in 0..MaxEvents
  BY EventsAssumption DEF Init
<1>7. FleetType
  BY <1>3, <1>4, TimesAssumption DEF Init, FleetType
<1>8. EventsType
  BY <1>4, <1>5 DEF EventsType
<1>6. TypeOK
  BY <1>1, <1>2, <1>7, <1>8, TypeParts
<1> QED BY <1>6 DEF Init, RowInv, TargetKnown, MarkedAsHost, SettledAsHost

(* So it always holds. *)
LEMMA RowInvariant == Spec => []RowInv
BY InitRow, StepKeepsRow, PTL DEF Spec

(* Every reachable state is well typed: in particular, an operation is under way
   exactly in its status. *)
THEOREM UpkeepTypeCorrect == Spec => []TypeOK
BY RowInvariant, PTL DEF RowInv

(* A running or stopped box has the compose file of the image its row names,
   unless an update was skipped over another, for any images and events. *)
THEOREM RunningFollowsRowCorrect == Spec => []RunningFollowsRow
<1>1. RowInv => RunningFollowsRow
  BY DEF RowInv, SettledAsHost, RunningFollowsRow
<1> QED BY <1>1, RowInvariant, PTL
-----------------------------------------------------------------------------
(* The limit is kept because the sweep counts before it starts, and nothing else
   adds to the window between the two; with a second repairing actor, or a sweep
   beside itself, the second conjunct would not be inductive. *)
RepairsInv ==
  /\ RepairsAreBounded
  /\ sweep = "repair" => Len(repairs) < MaxRepairs

(* Every step keeps it. *)
LEMMA StepKeepsRepairs ==
  ASSUME RowInv, RepairsInv, [Next]_vars
  PROVE  RepairsInv'
<1>0. FleetType /\ Len(repairs) \in Nat /\ MaxRepairs \in Nat \ {0}
  BY TypeParts, TimesAssumption DEF RowInv, FleetType
<1> USE DEF RepairsInv, RepairsAreBounded
<1>s. ASSUME UNCHANGED repairs, sweep' # "repair" \/ UNCHANGED sweep
      PROVE  RepairsInv'
  BY <1>s
<1>1. CASE OperationStep
  <2>1. UNCHANGED <<repairs, sweep>>
    BY <1>1 DEF OperationStep, ResolveChannel, ChooseTarget, BeginReset, CaptureRollback,
       ReplaceDisk, SetRuntimeImage, UpdateRuntime, RepairRuntime, BootstrapRuntime,
       MarkSucceeded, StopServer, StartServer, untouched, clock, sweeps
  <2> QED BY <1>s, <2>1
<1>2. CASE SweepRepairs
  <2>1. repairs' = Append(repairs, 0) /\ sweep = "repair" /\ sweep' = "idle"
    BY <1>2 DEF SweepRepairs, Start
  <2>2. Len(repairs') = Len(repairs) + 1
    BY <1>0, <2>1 DEF FleetType
  <2> QED BY <1>0, <2>1, <2>2
<1>3. CASE SweepDecides
  <2>1. UNCHANGED repairs /\ sweep' = Decision
    BY <1>3 DEF SweepDecides, clock
  <2>2. Decision = "repair" => ~(Len(repairs) >= MaxRepairs)
    BY DEF Decision, RecentRepairs
  <2> QED BY <1>0, <2>1, <2>2
<1>4. CASE SweepLists \/ SweepProbes \/ SweepAlerts \/ SweepIsRefused \/ ProbeTimesOut
             \/ SweepThrows
  <2>1. UNCHANGED repairs /\ sweep' \in {"idle", "listed", "counted"}
    BY <1>4 DEF SweepLists, SweepProbes, SweepAlerts, SweepIsRefused, ProbeTimesOut,
       SweepThrows, Probed, clock
  <2> QED BY <1>s, <2>1
<1>5. CASE FloorSweep
  <2>1. UNCHANGED <<repairs, sweep>>
    BY <1>5 DEF FloorSweep, FloorLists, FloorUpdates, FloorIsRefused, Start, clock
  <2> QED BY <1>s, <2>1
<1>6. CASE \E t \in Types : PersonStarts(t)
  <2>1. UNCHANGED <<repairs, sweep>>
    BY <1>6 DEF PersonStarts, Start, sweeps
  <2> QED BY <1>s, <2>1
<1>7. CASE StepThrows \/ UpdateRuntimeFails \/ RepairFails \/ ChannelMoves
             \/ SetMinimumRuntime \/ DeadlinePasses \/ BoxBreaks
  <2>1. UNCHANGED <<repairs, sweep>>
    BY <1>7 DEF StepThrows, UpdateRuntimeFails, RepairFails, ChannelMoves,
       SetMinimumRuntime, DeadlinePasses, BoxBreaks, untouched, clock, sweeps
  <2> QED BY <1>s, <2>1
<1>8. CASE Tick
  <2>1. UNCHANGED sweep
    BY <1>8 DEF Tick, sweeps
  <2>2. Len(repairs') <= Len(repairs) /\ Len(repairs') \in Nat
    BY <1>0, <1>8, TickEffect
  <2> QED BY <1>0, <2>1, <2>2
<1>9. CASE UNCHANGED vars
  BY <1>9, <1>s DEF vars, clock, sweeps
<1> QED BY <1>1, <1>2, <1>3, <1>4, <1>5, <1>6, <1>7, <1>8, <1>9 DEF Next, HealthSweep, World

(* In no window does the health sweep begin more repairs than its limit, however
   many operations, failures and people come between its calls. *)
THEOREM RepairsAreBoundedCorrect == Spec => []RepairsAreBounded
<1>1. Init => RepairsInv
  BY TimesAssumption DEF Init, RepairsInv, RepairsAreBounded
<1>2. RowInv /\ RepairsInv /\ [Next]_vars => RepairsInv'
  BY StepKeepsRepairs
<1>3. RepairsInv => RepairsAreBounded
  BY DEF RepairsInv
<1> QED BY <1>1, <1>2, <1>3, RowInvariant, PTL DEF Spec
=============================================================================
