----------------------------- MODULE Persistence -----------------------------
(***************************************************************************)
(* The copy engine of the host persistence daemon: what a container's user *)
(* changes in the root file system is copied, path by path, to the data    *)
(* volume, and replayed over the image when the container starts again.    *)
(* The volume holds three stores:                                          *)
(*                                                                         *)
(*   changed    a tree with a copy of every entry that is not the image's; *)
(*   removed    a marker for every entry of the image that is gone;        *)
(*   metadata   the facts (mode, owner, times) of entries whose content is *)
(*              the image's.                                               *)
(*                                                                         *)
(* A watcher (inotify, bounded, lossy) and an audit that compares the live *)
(* tree with the image's baseline both send paths to one bounded queue.    *)
(* One writer takes them off, compares the live entry with the baseline    *)
(* and brings the three stores in line, one file system call at a time.    *)
(*                                                                         *)
(* Entries are directories and regular files.  Two contents never share    *)
(* their facts: every write and every touch has its own modification time, *)
(* except that a file put back with its times has those of the image.  The *)
(* facts of directories are left out, and so are symlinks, hard links,     *)
(* sockets, devices and excluded paths.                                    *)
(***************************************************************************)
EXTENDS Naturals, Sequences, FiniteSets

CONSTANTS Paths,         \* the paths of the root file system
          Above,         \* Above[p]: the directories p lies in, at any depth
          Contents,      \* what users write into files
          ImageContents, \* what images hold in files
          NoContent,     \* of a directory or of no entry
          Images,        \* images the container is created from
          Base,          \* Base[i][p]: the entry of image i at p
          QueueBound,    \* DIRTY_QUEUE_BOUND
          MaxEdits,      \* bound on what users do
          MaxTroubles,   \* bound on restarts, crashes and failed calls
          MovesTrees,    \* whether users move whole directories away
          LosesNotices   \* whether the watcher may miss a change

Stamps == Contents \cup {"image", "touched", "raw"}

Nothing == [kind |-> "none", content |-> NoContent, facts |-> "image"]
Directory == [kind |-> "dir", content |-> NoContent, facts |-> "image"]
File(c, f) == [kind |-> "file", content |-> c, facts |-> f]

Files == {File(c, f) : c \in Contents \cup ImageContents, f \in Stamps}
Entries == {Nothing, Directory} \cup Files
Trees == [Paths -> Entries]

ASSUME AboveAssumption ==
  /\ Above \in [Paths -> SUBSET Paths]
  /\ \A p \in Paths : p \notin Above[p] /\ \A q \in Above[p] : Above[q] \subseteq Above[p]
ASSUME ContentsAssumption ==
  /\ NoContent \notin Contents \cup ImageContents
  /\ Contents \cap (ImageContents \cup {"image", "touched", "raw", "none"}) = {}
ASSUME BaseAssumption ==
  /\ Base \in [Images -> Trees]
  /\ \A i \in Images, p \in Paths :
       /\ Base[i][p] \in {Nothing, Directory} \cup {File(c, "image") : c \in ImageContents}
       /\ Base[i][p] # Nothing => \A q \in Above[p] : Base[i][q] = Directory
ASSUME BoundsAssumption ==
  QueueBound \in Nat /\ MaxEdits \in Nat /\ MaxTroubles \in Nat
ASSUME SwitchesAssumption == MovesTrees \in BOOLEAN /\ LosesNotices \in BOOLEAN

VARIABLES
  image,     \* the image the container runs, and its baseline database
  live,      \* the container's root file system
  changed,   \* the tree of copies on the volume
  removed,   \* where a marker file lies on the volume
  meta,      \* metadata.jsonl: the facts recorded for a path, or "none"
  store,     \* the writer's working set of it, equal to it between batches
  dirty,     \* the queue of paths
  batch,     \* the paths taken since the working set was loaded
  retry,     \* the paths to be queued again after this batch
  writer,    \* where the writer stands with the path it took last
  daemon,    \* whether the daemon runs
  phase,     \* "ready", or what is left of the replay at container start
  missed,    \* paths that changed after the last notice of them (history)
  touched,   \* paths ever changed by a user (history)
  edits,     \* how many changes users made
  troubles   \* how many restarts, crashes and failed calls there were

volume == <<changed, removed, meta>>
queues == <<dirty, batch, retry>>
history == <<missed, touched>>
bounds == <<edits, troubles>>
vars == <<image, live, volume, store, queues, writer, daemon, phase, history, bounds>>

Idle == [step |-> "idle", path |-> NoContent, was |-> Nothing, got |-> NoContent]

Steps == {"untree", "mark", "unentry", "copy", "read", "publish", "dress", "unmark"}

(* The type invariant: the three stores, the queue and the writer's place *)
TypeOK ==
  /\ image \in Images
  /\ live \in Trees
  /\ changed \in Trees
  /\ removed \subseteq Paths
  /\ meta \in [Paths -> Stamps \cup {"none"}]
  /\ store \in [Paths -> Stamps \cup {"none"}]
  /\ dirty \in Seq(Paths) /\ Len(dirty) =< QueueBound
  /\ batch \subseteq Paths
  /\ retry \subseteq Paths
  /\ \/ writer = Idle
     \/ writer \in [step : Steps, path : Paths, was : Entries,
                    got : Contents \cup ImageContents \cup {NoContent}]
  /\ daemon \in BOOLEAN
  /\ phase \in {"removing", "changing", "describing", "ready"}
  /\ missed \subseteq Paths
  /\ touched \subseteq Paths
  /\ edits \in 0..MaxEdits
  /\ troubles \in 0..MaxTroubles

Init ==
  /\ image \in Images
  /\ live = Base[image]
  /\ changed = [p \in Paths |-> Nothing]
  /\ removed = {}
  /\ meta = [p \in Paths |-> "none"]
  /\ store = meta
  /\ dirty = <<>>
  /\ batch = {}
  /\ retry = {}
  /\ writer = Idle
  /\ daemon = FALSE
  /\ phase = "ready"
  /\ missed = {}
  /\ touched = {}
  /\ edits = 0
  /\ troubles = 0
-----------------------------------------------------------------------------
(* Trees *)

base == Base[image]

Below(p) == {q \in Paths : p \in Above[q]}
AtOrBelow(p) == {p} \cup Below(p)

(* public::remove_path *)
Without(tree, p) == [q \in Paths |-> IF q \in AtOrBelow(p) THEN Nothing ELSE tree[q]]

(* ancestor_non_directory_exists *)
Blocked(tree, p) == \E q \in Above[p] : tree[q].kind = "file"

(* rootfs::ensure_safe_parent: the missing directories on the way to p are
   created, whatever becomes of p *)
Scaffold(tree, p) == [q \in Paths |-> IF q \in Above[p] THEN Directory ELSE tree[q]]

(* publish_temp_inner, ensure_directory_destination: only a directory over a
   directory keeps what lies below *)
Put(tree, p, e) ==
  [q \in Paths |-> IF q = p THEN e
                   ELSE IF q \in Below(p) /\ e # Directory THEN Nothing
                   ELSE tree[q]]
-----------------------------------------------------------------------------
(* The queue *)

HasRoom == Len(dirty) < QueueBound
Queued == {dirty[n] : n \in 1..Len(dirty)}

(* A change of p, and of what went with it without a notice of its own.  It is
   announced if the daemon runs, the watcher sees it and the queue has room;
   DirtySender::send drops it otherwise. *)
Announced(p, silent) ==
  \/ /\ daemon /\ HasRoom
     /\ dirty' = Append(dirty, p)
     /\ missed' = (missed \ {p}) \cup silent
  \/ /\ ~daemon \/ ~HasRoom \/ LosesNotices
     /\ missed' = missed \cup {p} \cup silent
     /\ UNCHANGED dirty
-----------------------------------------------------------------------------
(* The user *)

Reachable(p) == \A q \in Above[p] : live[q] = Directory
Empty(p) == \A q \in Below(p) : live[q] = Nothing

Changes(p, e) ==
  /\ phase = "ready" /\ edits < MaxEdits
  /\ live' = Put(live, p, e)
  /\ touched' = touched \cup {p}
  /\ edits' = edits + 1
  /\ Announced(p, {})
  /\ UNCHANGED <<image, volume, store, batch, retry, writer, daemon, phase, troubles>>

WriteFile(p, c) ==
  /\ Reachable(p) /\ live[p] # Directory
  /\ Changes(p, File(c, c))

TouchFile(p) ==
  /\ live[p].kind = "file" /\ live[p].facts # "touched"
  /\ Changes(p, File(live[p].content, "touched"))

(* cp -p, a package reinstalled, git checkout of a backup *)
PutBack(p) ==
  /\ Reachable(p) /\ live[p] # Directory
  /\ base[p].kind = "file" /\ live[p] # base[p]
  /\ Changes(p, base[p])

MakeDir(p) ==
  /\ Reachable(p) /\ live[p] = Nothing
  /\ Changes(p, Directory)

(* unlink and rmdir; rm -r is a sequence of these *)
Delete(p) ==
  /\ live[p] # Nothing /\ Empty(p)
  /\ Changes(p, Nothing)

(* mv of a directory to a place outside the model: inotify reports the
   directory alone *)
MoveAway(p) ==
  /\ MovesTrees
  /\ live[p] = Directory /\ ~Empty(p)
  /\ phase = "ready" /\ edits < MaxEdits
  /\ live' = Without(live, p)
  /\ LET gone == {q \in Below(p) : live[q] # Nothing}
     IN  touched' = touched \cup {p} \cup gone /\ Announced(p, gone)
  /\ edits' = edits + 1
  /\ UNCHANGED <<image, volume, store, batch, retry, writer, daemon, phase, troubles>>

Edit ==
  \E p \in Paths :
    \/ \E c \in Contents : WriteFile(p, c)
    \/ TouchFile(p) \/ PutBack(p) \/ MakeDir(p) \/ Delete(p) \/ MoveAway(p)
-----------------------------------------------------------------------------
(* The audit *)

(* candidate_needs_update, in a deep pass.  A directory made again has a time
   of its own; which directories those are is not tracked, and looking at an
   unchanged one does nothing. *)
Differs(p) == live[p] # base[p]

(* A bug the runs must catch: a walk of the live tree alone *)
AuditWalks(p) ==
  /\ daemon /\ HasRoom
  /\ \/ live[p] # Nothing /\ Differs(p)
     \/ live[p] = Directory
  /\ dirty' = Append(dirty, p)
  /\ UNCHANGED <<image, live, volume, store, batch, retry, writer, daemon, phase,
                 history, bounds>>

AuditFlags(p) ==
  /\ daemon /\ HasRoom
  /\ Differs(p) \/ live[p] = Directory
  /\ dirty' = Append(dirty, p)
  /\ UNCHANGED <<image, live, volume, store, batch, retry, writer, daemon, phase,
                 history, bounds>>
-----------------------------------------------------------------------------
(* The writer *)

Trouble == troubles < MaxTroubles /\ troubles' = troubles + 1

(* compare_to_baseline: the same kind and content *)
SameContent(e, b) == e.kind = b.kind /\ e.content = b.content

(* changed_copy_is_current.  Of a directory the facts decide, which are not
   modelled. *)
CopyIsCurrent(p) == changed[p] = live[p]

(* update_public_path up to its first change of a store *)
FirstStep(p) ==
  CASE live[p] = Nothing                   -> "untree"
    [] SameContent(live[p], base[p])       -> "unentry"
    [] OTHER                               -> "copy"

(* writer_loop takes a path off the queue.  The working set is loaded with the
   first path of a batch. *)
Takes ==
  /\ daemon /\ writer = Idle /\ dirty # <<>>
  /\ batch = {} => retry = {}
  /\ LET p == Head(dirty)
     IN  /\ batch' = batch \cup {p}
         /\ missed' = missed \ {p}
         /\ \/ /\ FirstStep(p) = "copy" /\ CopyIsCurrent(p)
               /\ writer' = Idle
            \/ /\ FirstStep(p) = "copy" /\ CopyIsCurrent(p) => live[p] = Directory
               /\ writer' = [step |-> FirstStep(p), path |-> p, was |-> live[p],
                             got |-> NoContent]
  /\ dirty' = Tail(dirty)
  /\ UNCHANGED <<image, live, volume, store, retry, daemon, phase, touched, bounds>>

(* MetadataStore::load fails: the path is queued again *)
LoadFails ==
  /\ Trouble
  /\ daemon /\ writer = Idle /\ dirty # <<>> /\ batch = {} /\ retry = {}
  /\ retry' = {Head(dirty)}
  /\ dirty' = Tail(dirty)
  /\ UNCHANGED <<image, live, volume, store, batch, writer, daemon, phase, history, edits>>

At(step) == daemon /\ writer.step = step
GoesTo(step) == writer' = [writer EXCEPT !.step = step]

StoresOnly == UNCHANGED <<image, live, queues, daemon, phase, history, bounds>>

(* remove_changed_tree *)
RemoveTree ==
  /\ At("untree")
  /\ LET p == writer.path
     IN  /\ changed' = IF Blocked(changed, p) THEN changed
                       ELSE Without(Scaffold(changed, p), p)
         /\ GoesTo(IF base[p] = Nothing THEN "unmark" ELSE "mark")
  /\ UNCHANGED <<removed, meta, store>> /\ StoresOnly

(* write_removed_marker, and the subtree's records forgotten.  A marker stands
   for all that lies below it. *)
Marked(p) ==
  IF Blocked(changed, p) \/ Above[p] \cap removed # {} THEN removed
  ELSE (removed \ Below(p)) \cup {p}

Forgotten(p) == [q \in Paths |-> IF q \in AtOrBelow(p) THEN "none" ELSE store[q]]

WriteMarker ==
  /\ At("mark")
  /\ removed' = Marked(writer.path)
  /\ store' = Forgotten(writer.path)
  /\ writer' = Idle
  /\ UNCHANGED <<changed, meta>> /\ StoresOnly

(* remove_changed_entry: a directory that is not empty stays *)
RemoveEntry ==
  /\ At("unentry")
  /\ LET p == writer.path
         hasChildren == \E q \in Below(p) : changed[q] # Nothing
     IN  changed' = IF Blocked(changed, p) THEN changed
                    ELSE LET tree == Scaffold(changed, p)
                         IN  IF hasChildren THEN tree ELSE Put(tree, p, Nothing)
  /\ GoesTo("unmark")
  /\ UNCHANGED <<removed, meta, store>> /\ StoresOnly

(* prepare_changed_destination, then the kind looked at again by
   copy_entry_atomic.  The entry may be gone by then. *)
PrepareCopy ==
  /\ At("copy")
  /\ LET p == writer.path
         tree == Scaffold(changed, p)
     IN  /\ changed' = IF live[p] = Directory THEN Put(tree, p, Directory) ELSE tree
         /\ \/ /\ live[p] = Nothing
               /\ writer' = Idle /\ missed' = missed \cup {p}
            \/ /\ live[p] # Nothing
               /\ writer' = [writer EXCEPT
                    !.step = IF live[p] = Directory THEN "unmark" ELSE "read",
                    !.was = live[p]]
               /\ UNCHANGED missed
  /\ UNCHANGED <<removed, meta, store>>
  /\ UNCHANGED <<image, live, queues, daemon, phase, touched, bounds>>

(* copy_regular_to_temp *)
ReadFile ==
  /\ At("read")
  /\ LET p == writer.path
     IN  \/ /\ live[p].kind = "file"
            /\ writer' = [writer EXCEPT !.step = "publish", !.got = live[p].content]
            /\ UNCHANGED missed
         \/ /\ live[p].kind # "file"
            /\ writer' = Idle
            /\ missed' = missed \cup {p}
  /\ UNCHANGED <<volume, store>>
  /\ UNCHANGED <<image, live, queues, daemon, phase, touched, bounds>>

(* A bug the runs must catch: only the hashes are compared *)
IsStableByHash ==
  live[writer.path].kind = "file" /\ live[writer.path].content = writer.got

(* facts_match_for_stable_copy and the two hashes: the file is still the one
   whose facts were read first, and the copy is its content *)
IsStable == live[writer.path] = writer.was /\ writer.got = writer.was.content

(* publish_temp_inner: the copy appears at its place with the facts of a file
   just written *)
Publish ==
  /\ At("publish") /\ IsStable
  /\ changed' = Put(changed, writer.path, File(writer.got, "raw"))
  /\ GoesTo("dress")
  /\ UNCHANGED <<removed, meta, store>> /\ StoresOnly

(* CopyUnstableError: the path is queued again after the batch *)
Unstable ==
  /\ At("publish") /\ ~IsStable
  /\ retry' = retry \cup {writer.path}
  /\ writer' = Idle
  /\ UNCHANGED <<image, live, volume, store, dirty, batch, daemon, phase, history, bounds>>

(* apply_facts on the copy; a record of the path is dropped *)
Dress ==
  /\ At("dress")
  /\ changed' = Put(changed, writer.path, File(writer.got, writer.was.facts))
  /\ store' = [store EXCEPT ![writer.path] = "none"]
  /\ GoesTo("unmark")
  /\ UNCHANGED <<removed, meta>> /\ StoresOnly

(* What the record of p becomes in the last step: facts that differ from those
   of the image's file are recorded, a copy needs no record *)
Recorded(p) ==
  IF writer.was = Nothing THEN Forgotten(p)
  ELSE [store EXCEPT ![p] =
          IF writer.was.kind = "file" /\ writer.got = NoContent /\ writer.was.facts # "image"
          THEN writer.was.facts ELSE "none"]

(* remove_removed_marker; below a marker it fails, and so does the update *)
RemoveMarker ==
  /\ At("unmark")
  /\ LET p == writer.path
     IN  IF Above[p] \cap removed # {}
         THEN missed' = missed \cup {p} /\ UNCHANGED <<removed, store>>
         ELSE removed' = removed \ {p} /\ store' = Recorded(p) /\ UNCHANGED missed
  /\ writer' = Idle
  /\ UNCHANGED <<changed, meta>>
  /\ UNCHANGED <<image, live, queues, daemon, phase, touched, bounds>>

(* Any other error is logged, and the path counts as processed *)
UpdateFails ==
  /\ Trouble
  /\ daemon /\ writer # Idle
  /\ missed' = missed \cup {writer.path}
  /\ writer' = Idle
  /\ UNCHANGED <<image, live, volume, store, queues, daemon, phase, touched, edits>>

(* The queue is found empty, or 256 paths were taken: store.flush() *)
FlushSucceeds ==
  /\ daemon /\ writer = Idle /\ batch # {}
  /\ meta' = store
  /\ batch' = {}
  /\ UNCHANGED <<image, live, changed, removed, store, dirty, retry, writer, daemon, phase,
                 history, bounds>>

(* A bug the runs must catch: a batch whose flush failed is not queued again *)
FlushForgets ==
  /\ Trouble
  /\ daemon /\ writer = Idle /\ batch # {} /\ store # meta
  /\ store' = meta
  /\ batch' = {}
  /\ UNCHANGED <<image, live, volume, dirty, retry, writer, daemon, phase, history, edits>>

FlushFails ==
  /\ Trouble
  /\ daemon /\ writer = Idle /\ batch # {} /\ store # meta
  /\ store' = meta
  /\ retry' = retry \cup batch
  /\ batch' = {}
  /\ UNCHANGED <<image, live, volume, dirty, writer, daemon, phase, history, edits>>

(* retry_paths is a BTreeSet: a directory comes before what lies in it *)
Requeues(p) ==
  /\ daemon /\ writer = Idle /\ batch = {}
  /\ p \in retry /\ Above[p] \cap retry = {}
  /\ retry' = retry \ {p}
  /\ IF HasRoom THEN dirty' = Append(dirty, p) /\ UNCHANGED missed
     ELSE missed' = missed \cup {p} /\ UNCHANGED dirty
  /\ UNCHANGED <<image, live, volume, store, batch, writer, daemon, phase, touched, bounds>>

Writer ==
  \/ Takes \/ RemoveTree \/ WriteMarker \/ RemoveEntry \/ PrepareCopy
  \/ ReadFile \/ Publish \/ Unstable \/ Dress \/ RemoveMarker \/ FlushSucceeds
  \/ \E p \in Paths : Requeues(p)
-----------------------------------------------------------------------------
(* The container and the daemon start and stop *)

Pending == Queued \cup batch \cup retry \cup (IF writer = Idle THEN {} ELSE {writer.path})

(* What the daemon held in memory is gone with it *)
DaemonIsGone ==
  /\ missed' = missed \cup Pending
  /\ dirty' = <<>> /\ batch' = {} /\ retry' = {}
  /\ writer' = Idle
  /\ store' = meta
  /\ daemon' = FALSE

DaemonDies ==
  /\ Trouble
  /\ daemon
  /\ DaemonIsGone
  /\ UNCHANGED <<image, live, volume, phase, touched, edits>>

(* A bug the runs must catch: the baseline database of the first image stays *)
ContainerKeepsBaseline(i) ==
  /\ Trouble
  /\ live' = Base[i]
  /\ phase' = "removing"
  /\ DaemonIsGone
  /\ UNCHANGED <<image, volume, touched, edits>>

(* The first thing a container does is the replay: a new one over its image, a
   restarted one over the file system it had. *)
ContainerIsCreated(i) ==
  /\ Trouble
  /\ image' = i
  /\ live' = Base[i]
  /\ phase' = "removing"
  /\ DaemonIsGone
  /\ UNCHANGED <<volume, touched, edits>>

ContainerRestarts ==
  /\ Trouble
  /\ phase' = "removing"
  /\ DaemonIsGone
  /\ UNCHANGED <<image, live, volume, touched, edits>>

ApplyStep(from, to) ==
  /\ phase = from /\ phase' = to
  /\ UNCHANGED <<image, changed, removed, queues, writer, daemon, touched, bounds>>

(* apply_removed *)
Pruned(tree) ==
  [p \in Paths |-> IF removed \cap ({p} \cup Above[p]) # {} THEN Nothing ELSE tree[p]]

ApplyRemoved ==
  /\ ApplyStep("removing", "changing")
  /\ live' = Pruned(live)
  /\ UNCHANGED <<meta, store, missed>>

(* apply_changed, parents first *)
Overlaid(tree) ==
  [p \in Paths |-> IF Blocked(changed, p) THEN Nothing
                   ELSE IF changed[p] # Nothing THEN changed[p]
                   ELSE tree[p]]

ApplyChanged ==
  /\ ApplyStep("changing", "describing")
  /\ live' = Overlaid(live)
  /\ UNCHANGED <<meta, store, missed>>

(* apply_metadata; a record whose file is gone is dropped.  The live tree is now
   what the volume says, so nothing is amiss any more. *)
Described(tree) ==
  [p \in Paths |-> IF meta[p] # "none" /\ tree[p].kind = "file"
                   THEN [tree[p] EXCEPT !.facts = meta[p]] ELSE tree[p]]

ApplyMetadata ==
  /\ ApplyStep("describing", "ready")
  /\ live' = Described(live)
  /\ meta' = [p \in Paths |-> IF live[p].kind = "file" THEN meta[p] ELSE "none"]
  /\ store' = meta'
  /\ missed' = {}

Replay == ApplyRemoved \/ ApplyChanged \/ ApplyMetadata

(* The daemon is started once the replay has succeeded *)
DaemonStarts ==
  /\ phase = "ready" /\ ~daemon
  /\ daemon' = TRUE
  /\ UNCHANGED <<image, live, volume, store, queues, writer, phase, history, bounds>>
-----------------------------------------------------------------------------
Next ==
  \/ Edit
  \/ \E p \in Paths : AuditFlags(p)
  \/ Writer
  \/ LoadFails \/ UpdateFails \/ FlushFails
  \/ DaemonDies \/ DaemonStarts
  \/ ContainerRestarts \/ \E i \in Images : ContainerIsCreated(i)
  \/ Replay

Spec == Init /\ [][Next]_vars

(* The writer thread and the audit run while the daemon does, and the init
   system starts the daemon again.  An audit meets every path again, and room
   for it in the queue again and again. *)
FairSpec ==
  /\ Spec
  /\ WF_vars(Writer) /\ SF_vars(FlushSucceeds)
  /\ WF_vars(Replay) /\ WF_vars(DaemonStarts)
  /\ \A p \in Paths : SF_vars(AuditFlags(p))
-----------------------------------------------------------------------------
(* What a new container of this image would hold *)
Restored(p) == Described(Overlaid(Pruned(base)))[p]

(* A path needs nothing from the writer: what would be restored is what is
   there.  A directory where nothing is, or the reverse, is not a difference. *)
Settled(p) ==
  \/ Restored(p) = live[p]
  \/ Restored(p) \in {Nothing, Directory} /\ live[p] \in {Nothing, Directory}

(* No copy on the volume, nor a file put in place from one, mixes two versions
   of its file: the facts of a version never come with the content of another,
   though the file changes under the copy. *)
NoTornCopy ==
  \A p \in Paths, tree \in {changed, live} :
    tree[p].kind = "file" =>
      /\ tree[p].facts \in Contents => tree[p].content = tree[p].facts
      /\ tree[p].facts = "image" => \E i \in Images : tree[p] = Base[i][p]

(* What the audit cannot find, because the live entry is the image's, is never
   wrong on the volume unless a notice of it, or of a directory it lies in, is on
   its way or was lost.  The exception are directories the writer made on its way
   to a path below. *)
LeftoversHaveANotice ==
  \A p \in Paths :
    phase = "ready" /\ ~Differs(p) /\ ~Settled(p) /\ changed[p] # Directory
      => ({p} \cup Above[p]) \cap (Pending \cup missed) # {}

(* A file no user has changed, in directories no user has removed or made, has
   neither copy nor marker nor record, so each new image brings its own version
   of it.  What is deleted with its directory stays deleted in every image. *)
UntouchedFollowImage ==
  \A p \in Paths : ({p} \cup Above[p]) \cap touched = {} =>
    changed[p].kind # "file" /\ p \notin removed /\ meta[p] = "none"

(* The content a new container would have at p, its facts aside *)
ContentSettled(p) ==
  \/ SameContent(Restored(p), live[p])
  \/ Restored(p) \in {Nothing, Directory} /\ live[p] \in {Nothing, Directory}

(* The audit is the recovery floor: whatever notices were lost and whatever
   calls failed, in the end the content of all that differs from the image is on
   the volume. *)
AuditRecovers ==
  <>[](\A p \in Paths : Differs(p) => ContentSettled(p))

(* "Anything not currently watched ... is still recovered by the next audit
   pass" *)
NothingIsMissedForGood ==
  <>[](\A p \in Paths : ContentSettled(p))
=============================================================================
