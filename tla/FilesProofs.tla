---------------------------- MODULE FilesProofs ----------------------------
(***************************************************************************)
(* Theorems about a box's files.                                           *)
(*                                                                         *)
(* About Persistence, for any tree of paths, any images and any bounds:    *)
(* its types, that no copy mixes two versions of a file, that a file no    *)
(* user has changed follows the image, and that what the audit cannot find *)
(* is not wrong on the volume without a notice.  Each of the three needs   *)
(* to say what the writer carries, or has found, at each of its steps.     *)
(*                                                                         *)
(* About BoxRepair, for any volumes, writes and faults: its types, and     *)
(* that the owner's files survive a repair and are where the row says.     *)
(*                                                                         *)
(* The two share nothing: no theorem here relates them.                    *)
(***************************************************************************)
EXTENDS Persistence, BoxRepair, TLAPS

(* Every step is one of these, or leaves the variables as they are. *)
LEMMA EveryStep ==
  ASSUME [Next]_vars
  PROVE  \/ \E p \in Paths : AuditFlags(p)
         \/ \E p \in Paths : Requeues(p)
         \/ \E i \in Images : ContainerIsCreated(i)
         \/ Edit
         \/ Takes
         \/ RemoveTree \/ WriteMarker \/ RemoveEntry \/ PrepareCopy \/ ReadFile
         \/ Publish \/ Unstable \/ Dress \/ RemoveMarker
         \/ FlushSucceeds \/ LoadFails \/ UpdateFails \/ FlushFails
         \/ DaemonDies \/ DaemonStarts \/ ContainerRestarts
         \/ ApplyRemoved \/ ApplyChanged \/ ApplyMetadata
         \/ UNCHANGED vars
  BY Zenon DEF Next, Writer, Replay
-----------------------------------------------------------------------------
(* Entries and trees *)

(* An entry is nothing, the directory, or a file. *)
LEMMA EntryKinds ==
  /\ {Nothing, Directory} \subseteq Entries
  /\ \A c \in Contents \cup ImageContents, f \in Stamps : File(c, f) \in Entries
  /\ \A e \in Entries : e.kind \in {"none", "dir", "file"}
  /\ \A e \in Entries : e.kind = "none" => e = Nothing
  /\ \A e \in Entries : e.kind = "dir" => e = Directory
  /\ \A e \in Entries : e.kind = "file" =>
       /\ e.content \in Contents \cup ImageContents /\ e.facts \in Stamps
       /\ e = File(e.content, e.facts)
  /\ Nothing.kind = "none" /\ Directory.kind = "dir"
  /\ \A c, f : File(c, f).kind = "file" /\ File(c, f).content = c /\ File(c, f).facts = f
<1>1. \A c, f : File(c, f).kind = "file" /\ File(c, f).content = c /\ File(c, f).facts = f
  BY DEF File
<1>2. /\ Nothing.kind = "none" /\ Directory.kind = "dir"
      /\ {Nothing, Directory} \subseteq Entries
  BY DEF Nothing, Directory, Entries
<1>3. \A c \in Contents \cup ImageContents, f \in Stamps : File(c, f) \in Entries
  BY DEF Entries, Files
<1>4. ASSUME NEW e \in Entries
      PROVE  \/ e = Nothing \/ e = Directory
             \/ \E c \in Contents \cup ImageContents, f \in Stamps : e = File(c, f)
  BY DEF Entries, Files
<1>5. QED BY <1>1, <1>2, <1>3, <1>4

(* An image's entries are entries, and its files have the image's facts. *)
LEMMA BaseKinds ==
  ASSUME NEW i \in Images, NEW p \in Paths
  PROVE  /\ Base[i][p] \in Entries
         /\ Base[i][p].kind = "file" => Base[i][p].content \in ImageContents
                                        /\ Base[i][p].facts = "image"
  <1>1. Base[i][p] \in Entries
    BY BaseAssumption DEF Trees
  <1>2. Base[i][p] \in {Nothing, Directory} \cup {File(c, "image") : c \in ImageContents}
    BY BaseAssumption
  <1>3. QED BY <1>1, <1>2, EntryKinds

(* What is done to a tree leaves a tree. *)
LEMMA TreesStay ==
  ASSUME NEW tree \in Trees, NEW p \in Paths, NEW e \in Entries
  PROVE  /\ Without(tree, p) \in Trees
         /\ Scaffold(tree, p) \in Trees
         /\ Put(tree, p, e) \in Trees
  BY EntryKinds DEF Trees, Without, Scaffold, Put

(* An edit puts one entry, of a version of its own, of the image, or none; or it
   takes a directory away. *)
LEMMA EditIs ==
  ASSUME Edit, live \in Trees, image \in Images
  PROVE  \E p \in Paths :
           \/ MoveAway(p)
           \/ \E e \in Entries :
                /\ Changes(p, e)
                /\ e.kind = "file" => \/ e.facts = e.content /\ e.content \in Contents
                                      \/ e.facts = "touched"
                                      \/ e = base[p]
<1> DEFINE Own(p, e) == e.kind = "file" => \/ e.facts = e.content /\ e.content \in Contents
                                           \/ e.facts = "touched"
                                           \/ e = base[p]
<1>1. PICK p \in Paths :
        \/ \E c \in Contents : WriteFile(p, c)
        \/ TouchFile(p) \/ PutBack(p) \/ MakeDir(p) \/ Delete(p) \/ MoveAway(p)
  BY Zenon DEF Edit
<1>2. ASSUME NEW c \in Contents, WriteFile(p, c) PROVE \E e \in Entries : Changes(p, e) /\ Own(p, e)
  <2>1. File(c, c) \in Entries /\ Own(p, File(c, c))
    BY EntryKinds DEF Stamps
  <2>2. Changes(p, File(c, c))
    BY <1>2 DEF WriteFile
  <2>3. QED BY <2>1, <2>2
<1>3. ASSUME TouchFile(p) PROVE \E e \in Entries : Changes(p, e) /\ Own(p, e)
  <2>1. live[p] \in Entries /\ live[p].kind = "file"
    BY <1>3 DEF TouchFile, Trees
  <2>2. File(live[p].content, "touched") \in Entries /\ Own(p, File(live[p].content, "touched"))
    BY <2>1, EntryKinds DEF Stamps
  <2>3. Changes(p, File(live[p].content, "touched"))
    BY <1>3 DEF TouchFile
  <2>4. QED BY <2>2, <2>3
<1>4. ASSUME PutBack(p) PROVE \E e \in Entries : Changes(p, e) /\ Own(p, e)
  <2>1. base[p] \in Entries
    BY BaseKinds DEF base
  <2>2. Changes(p, base[p])
    BY <1>4 DEF PutBack
  <2>3. QED BY <2>1, <2>2
<1>5. ASSUME MakeDir(p) \/ Delete(p) PROVE \E e \in Entries : Changes(p, e) /\ Own(p, e)
  <2>1. Own(p, Directory) /\ Own(p, Nothing) /\ Directory \in Entries /\ Nothing \in Entries
    BY EntryKinds
  <2>2. Changes(p, Directory) \/ Changes(p, Nothing)
    BY <1>5 DEF MakeDir, Delete
  <2>3. QED BY <2>1, <2>2
<1> HIDE DEF Own
<1>6. MoveAway(p) \/ \E e \in Entries : Changes(p, e) /\ Own(p, e)
  BY <1>1, <1>2, <1>3, <1>4, <1>5
<1>7. QED BY <1>6, Zenon DEF Own
-----------------------------------------------------------------------------
(* Types *)

(* A trouble keeps its bound. *)
LEMMA TroubleStays ==
  ASSUME troubles \in 0..MaxTroubles, Trouble
  PROVE  troubles' \in 0..MaxTroubles
  BY BoundsAssumption DEF Trouble

(* The queue keeps its bound. *)
LEMMA QueueStays ==
  ASSUME dirty \in Seq(Paths), Len(dirty) =< QueueBound, NEW p \in Paths
  PROVE  /\ HasRoom => Append(dirty, p) \in Seq(Paths) /\ Len(Append(dirty, p)) =< QueueBound
         /\ dirty # <<>> => /\ Head(dirty) \in Paths
                            /\ Tail(dirty) \in Seq(Paths) /\ Len(Tail(dirty)) =< QueueBound
         /\ <<>> \in Seq(Paths) /\ Len(<<>>) =< QueueBound
  BY BoundsAssumption DEF HasRoom

(* An announcement keeps the types of the queue and of the history. *)
LEMMA AnnouncedStays ==
  ASSUME dirty \in Seq(Paths), Len(dirty) =< QueueBound, missed \subseteq Paths,
         NEW p \in Paths, NEW silent \in SUBSET Paths, Announced(p, silent)
  PROVE  /\ missed' \subseteq Paths /\ dirty' \in Seq(Paths) /\ Len(dirty') =< QueueBound
<1>1. CASE UNCHANGED dirty /\ missed' = missed \cup {p} \cup silent
  BY <1>1
<1>2. CASE HasRoom /\ dirty' = Append(dirty, p) /\ missed' = (missed \ {p}) \cup silent
  BY <1>2, QueueStays
<1>3. QED BY <1>1, <1>2, Zenon DEF Announced

(* The writer carries a file where it copies one, and has read it where it dresses
   its copy. *)
CarriesAFile ==
  /\ writer.step \in {"read", "publish", "dress"} => writer.was.kind = "file"
  /\ writer.step = "dress" => writer.got = writer.was.content

(* The writer's place changes hands in these steps. *)
LEMMA WriterMoves ==
  ASSUME [Next]_vars
  PROVE  \/ UNCHANGED writer \/ writer' = Idle
         \/ Takes \/ RemoveTree \/ RemoveEntry \/ PrepareCopy \/ ReadFile \/ Publish \/ Dress
<1>1. ASSUME NEW p \in Paths, AuditFlags(p) \/ Requeues(p) PROVE UNCHANGED writer
  BY <1>1 DEF AuditFlags, Requeues
<1>2. ASSUME Edit PROVE UNCHANGED writer
  BY <1>2 DEF Edit, WriteFile, TouchFile, PutBack, MakeDir, Delete, MoveAway, Changes
<1>3. ASSUME \/ WriteMarker \/ Unstable \/ RemoveMarker \/ UpdateFails \/ DaemonDies
             \/ ContainerRestarts \/ \E i \in Images : ContainerIsCreated(i)
      PROVE writer' = Idle
  BY <1>3, Zenon DEF WriteMarker, Unstable, RemoveMarker, UpdateFails, DaemonDies,
     ContainerRestarts, ContainerIsCreated, DaemonIsGone
<1>4. ASSUME \/ FlushSucceeds \/ LoadFails \/ FlushFails \/ DaemonStarts \/ UNCHANGED vars
             \/ ApplyRemoved \/ ApplyChanged \/ ApplyMetadata
      PROVE UNCHANGED writer
  BY <1>4 DEF FlushSucceeds, LoadFails, FlushFails, DaemonStarts, ApplyRemoved, ApplyChanged,
     ApplyMetadata, ApplyStep, vars
<1>5. QED BY EveryStep, <1>1, <1>2, <1>3, <1>4

(* CarriesAFile is kept. *)
LEMMA CarriesStep == ASSUME TypeOK, CarriesAFile, [Next]_vars PROVE CarriesAFile'
<1> USE DEF CarriesAFile
<1>1. CASE UNCHANGED writer \/ writer' = Idle
  BY <1>1 DEF Idle
<1>2. CASE RemoveTree \/ RemoveEntry \/ Dress
  BY <1>2 DEF RemoveTree, RemoveEntry, Dress, GoesTo, TypeOK, Idle
<1>3. CASE Takes
  <2>1. writer' = Idle \/ \E p : writer'.step = FirstStep(p)
    BY <1>3 DEF Takes
  <2>2. QED BY <2>1, <1>1 DEF FirstStep
<1>4. CASE PrepareCopy
  <2>1. writer # Idle /\ writer.path \in Paths /\ live[writer.path] \in Entries
    BY <1>4 DEF PrepareCopy, At, Idle, TypeOK, Trees
  <2>2. QED BY <1>1, <1>4, <2>1, EntryKinds DEF PrepareCopy, TypeOK
<1>5. CASE ReadFile
  BY <1>1, <1>5 DEF ReadFile, At, TypeOK, Idle
<1>6. CASE Publish
  BY <1>6 DEF Publish, IsStable, GoesTo, At, TypeOK, Idle
<1>7. QED BY WriterMoves, <1>1, <1>2, <1>3, <1>4, <1>5, <1>6

(* The part of TypeOK about the writer's place *)
Writing ==
  \/ writer = Idle
  \/ writer \in [step : Steps, path : Paths, was : Entries,
                 got : Contents \cup ImageContents \cup {NoContent}]

(* TypeOK is kept. *)
LEMMA TypeStep == ASSUME TypeOK, CarriesAFile, [Next]_vars PROVE TypeOK'
<1> USE DEF TypeOK
<1>0. /\ image \in Images /\ live \in Trees /\ changed \in Trees
      /\ dirty \in Seq(Paths) /\ Len(dirty) =< QueueBound
      /\ Nothing \in Entries /\ Directory \in Entries
  BY EntryKinds
<1>1. ASSUME NEW p \in Paths, AuditFlags(p) PROVE TypeOK'
  BY <1>0, <1>1, QueueStays DEF AuditFlags, volume, history, bounds
<1>2. ASSUME NEW p \in Paths, Requeues(p) PROVE TypeOK'
  <2>1. missed' \subseteq Paths /\ dirty' \in Seq(Paths) /\ Len(dirty') =< QueueBound
    <3>1. CASE HasRoom
      <4>1. dirty' = Append(dirty, p) /\ UNCHANGED missed
        BY <1>2, <3>1 DEF Requeues
      <4>2. QED BY <1>0, <3>1, <4>1, QueueStays
    <3>2. CASE ~HasRoom
      BY <1>2, <3>2 DEF Requeues
    <3>3. QED BY <3>1, <3>2
  <2>2. QED BY <1>2, <2>1 DEF Requeues, volume, bounds
<1>3. CASE Edit
  <2>1. ASSUME NEW p \in Paths, MoveAway(p) PROVE TypeOK'
    <3>1. live' \in Trees
      BY <1>0, <2>1, TreesStay DEF MoveAway
    <3>2. touched' \subseteq Paths /\ edits' \in 0..MaxEdits
      BY <2>1, BoundsAssumption DEF MoveAway, Below
    <3>3. missed' \subseteq Paths /\ dirty' \in Seq(Paths) /\ Len(dirty') =< QueueBound
      BY <1>0, <2>1, QueueStays DEF MoveAway, Announced, Below
    <3>4. QED BY <2>1, <3>1, <3>2, <3>3 DEF MoveAway, volume
  <2>2. ASSUME NEW p \in Paths, NEW e \in Entries, Changes(p, e) PROVE TypeOK'
    <3>1. live' \in Trees
      BY <1>0, <2>2, TreesStay DEF Changes
    <3>2. touched' \subseteq Paths /\ edits' \in 0..MaxEdits
      BY <2>2, BoundsAssumption DEF Changes
    <3>3. missed' \subseteq Paths /\ dirty' \in Seq(Paths) /\ Len(dirty') =< QueueBound
      BY <1>0, <2>2, AnnouncedStays DEF Changes
    <3>4. QED BY <2>2, <3>1, <3>2, <3>3 DEF Changes, volume
  <2>3. QED BY <1>0, <1>3, <2>1, <2>2, EditIs
<1>4. CASE Takes
  <2>1. Head(dirty) \in Paths /\ dirty' \in Seq(Paths) /\ Len(dirty') =< QueueBound
    BY <1>0, <1>4, QueueStays DEF Takes
  <2>2. /\ live[Head(dirty)] \in Entries /\ FirstStep(Head(dirty)) \in Steps
    BY <1>0, <2>1 DEF Trees, FirstStep, Steps
  <2>3. Writing'
    BY <1>4, <2>1, <2>2 DEF Takes, Writing
  <2>4. QED BY <1>4, <2>1, <2>3 DEF Takes, Writing, volume, bounds
<1>5. CASE RemoveTree
  <2>1. writer # Idle /\ writer.path \in Paths
    BY <1>5 DEF RemoveTree, At, Idle
  <2>2. changed' \in Trees
    BY <1>0, <1>5, <2>1, TreesStay DEF RemoveTree
  <2>3. Writing'
    BY <1>5, <2>1 DEF RemoveTree, GoesTo, Writing, Steps
  <2>4. QED BY <1>5, <2>2, <2>3 DEF RemoveTree, StoresOnly, Writing, queues, history, bounds
<1>6. CASE WriteMarker
  <2>1. writer # Idle /\ writer.path \in Paths
    BY <1>6 DEF WriteMarker, At, Idle
  <2>2. removed' \subseteq Paths /\ store' \in [Paths -> Stamps \cup {"none"}]
    BY <1>6, <2>1 DEF WriteMarker, Marked, Forgotten
  <2>3. QED BY <1>6, <2>2 DEF WriteMarker, StoresOnly, queues, history, bounds
<1>7. CASE RemoveEntry
  <2>1. writer # Idle /\ writer.path \in Paths
    BY <1>7 DEF RemoveEntry, At, Idle
  <2>2. changed' \in Trees
    <3>1. Scaffold(changed, writer.path) \in Trees
      BY <1>0, <2>1, TreesStay
    <3>2. Put(Scaffold(changed, writer.path), writer.path, Nothing) \in Trees
      BY <1>0, <2>1, <3>1, TreesStay
    <3>3. QED BY <1>0, <1>7, <3>1, <3>2 DEF RemoveEntry
  <2>3. Writing'
    BY <1>7, <2>1 DEF RemoveEntry, GoesTo, Writing, Steps
  <2>4. QED BY <1>7, <2>2, <2>3 DEF RemoveEntry, StoresOnly, Writing, queues, history, bounds
<1>8. CASE PrepareCopy
  <2>1. writer # Idle /\ writer.path \in Paths
    BY <1>8 DEF PrepareCopy, At, Idle
  <2>2. changed' \in Trees
    <3>1. Scaffold(changed, writer.path) \in Trees
      BY <1>0, <2>1, TreesStay
    <3>2. Put(Scaffold(changed, writer.path), writer.path, Directory) \in Trees
      BY <1>0, <2>1, <3>1, TreesStay
    <3>3. QED BY <1>0, <1>8, <3>1, <3>2 DEF PrepareCopy
  <2>3. live[writer.path] \in Entries /\ live[writer.path].kind \in {"none", "dir", "file"}
    BY <1>0, <2>1, EntryKinds DEF Trees
  <2>4. Writing' /\ missed' \subseteq Paths
    BY <1>8, <2>1, <2>3 DEF PrepareCopy, Writing, Steps
  <2>5. QED BY <1>8, <2>2, <2>4 DEF PrepareCopy, Writing, queues, bounds
<1>9. CASE ReadFile
  <2>1. writer # Idle /\ writer.path \in Paths
    BY <1>9 DEF ReadFile, At, Idle
  <2>2. live[writer.path] \in Entries
    BY <1>0, <2>1 DEF Trees
  <2>3. Writing' /\ missed' \subseteq Paths
    BY <1>9, <2>1, <2>2, EntryKinds DEF ReadFile, Writing, Steps
  <2>4. QED BY <1>9, <2>3 DEF ReadFile, Writing, volume, queues, bounds
<1>10. CASE Publish \/ Dress
  <2>1. /\ writer # Idle /\ writer.path \in Paths /\ writer.was \in Entries
        /\ writer.was.kind = "file" /\ writer.got = writer.was.content
    BY <1>10 DEF Publish, Dress, At, IsStable, CarriesAFile, Idle
  <2>2. /\ File(writer.got, "raw") \in Entries /\ File(writer.got, writer.was.facts) \in Entries
    BY <2>1, EntryKinds DEF Stamps
  <2>3. changed' \in Trees
    BY <1>0, <1>10, <2>1, <2>2, TreesStay DEF Publish, Dress
  <2>4. store' \in [Paths -> Stamps \cup {"none"}]
    BY <1>10 DEF Publish, Dress
  <2>5. Writing'
    BY <1>10, <2>1 DEF Publish, Dress, GoesTo, Writing, Steps
  <2>6. QED BY <1>10, <2>3, <2>4, <2>5 DEF Publish, Dress, StoresOnly, Writing, queues, history, bounds
<1>11. CASE Unstable
  <2>1. writer # Idle /\ writer.path \in Paths
    BY <1>11 DEF Unstable, At, Idle
  <2>2. QED BY <1>11, <2>1 DEF Unstable, volume, history, bounds
<1>12. CASE RemoveMarker
  <2>1. writer # Idle /\ writer.path \in Paths /\ writer.was \in Entries
    BY <1>12 DEF RemoveMarker, At, Idle
  <2>2. Recorded(writer.path) \in [Paths -> Stamps \cup {"none"}]
    BY <2>1, EntryKinds DEF Recorded, Forgotten
  <2>3. removed' \subseteq Paths /\ store' \in [Paths -> Stamps \cup {"none"}]
        /\ missed' \subseteq Paths
    BY <1>12, <2>1, <2>2 DEF RemoveMarker
  <2>4. QED BY <1>12, <2>3 DEF RemoveMarker, queues, bounds
<1>13. CASE FlushSucceeds
  BY <1>13 DEF FlushSucceeds, history, bounds
<1>14. CASE LoadFails \/ UpdateFails \/ FlushFails
  <2>1. troubles' \in 0..MaxTroubles
    BY <1>14, TroubleStays DEF LoadFails, UpdateFails, FlushFails
  <2>2. CASE LoadFails
    BY <1>0, <2>1, <2>2, QueueStays DEF LoadFails, volume, history
  <2>3. CASE UpdateFails
    BY <2>1, <2>3 DEF UpdateFails, volume, queues
  <2>4. CASE FlushFails
    BY <2>1, <2>4 DEF FlushFails, volume, history
  <2>5. QED BY <1>14, <2>2, <2>3, <2>4
<1>15. CASE DaemonDies \/ ContainerRestarts \/ \E i \in Images : ContainerIsCreated(i)
  <2>1. troubles' \in 0..MaxTroubles
    BY <1>15, TroubleStays DEF DaemonDies, ContainerRestarts, ContainerIsCreated
  <2>2. Pending \subseteq Paths
    BY <1>0 DEF Pending, Queued
  <2>3. /\ missed' \subseteq Paths /\ dirty' = <<>> /\ batch' = {} /\ retry' = {}
        /\ writer' = Idle /\ store' = meta /\ daemon' = FALSE
    BY <1>15, <2>2 DEF DaemonDies, ContainerRestarts, ContainerIsCreated, DaemonIsGone
  <2>4. image' \in Images /\ live' \in Trees /\ phase' \in {phase, "removing"}
    BY <1>0, <1>15, BaseAssumption DEF DaemonDies, ContainerRestarts, ContainerIsCreated
  <2>5. UNCHANGED <<volume, touched, edits>>
    BY <1>15 DEF DaemonDies, ContainerRestarts, ContainerIsCreated
  <2>6. dirty' \in Seq(Paths) /\ Len(dirty') =< QueueBound
    BY <1>0, <2>3, QueueStays
  <2>7. daemon' \in BOOLEAN /\ phase' \in {"removing", "changing", "describing", "ready"}
    BY <2>3, <2>4
  <2>8. QED BY <2>1, <2>3, <2>4, <2>5, <2>6, <2>7 DEF volume
<1>16. CASE DaemonStarts
  BY <1>16 DEF DaemonStarts, volume, queues, history, bounds
<1>17. CASE ApplyRemoved
  <2>1. Pruned(live) \in Trees
    BY <1>0 DEF Trees, Pruned
  <2>2. QED BY <1>17, <2>1 DEF ApplyRemoved, ApplyStep, queues, bounds
<1>18. CASE ApplyChanged
  <2>1. Overlaid(live) \in Trees
    BY <1>0 DEF Trees, Overlaid
  <2>2. QED BY <1>18, <2>1 DEF ApplyChanged, ApplyStep, queues, bounds
<1>19. CASE ApplyMetadata
  <2>1. Described(live) \in Trees
    BY <1>0, EntryKinds DEF Trees, Described, File
  <2>2. QED BY <1>19, <2>1 DEF ApplyMetadata, ApplyStep, queues, bounds
<1>20. CASE UNCHANGED vars
  BY <1>20 DEF vars, volume, queues, history, bounds
<1>21. QED
  BY EveryStep, <1>1, <1>2, <1>3, <1>4, <1>5, <1>6, <1>7, <1>8, <1>9, <1>10, <1>11, <1>12,
     <1>13, <1>14, <1>15, <1>16, <1>17, <1>18, <1>19, <1>20

(* The initial state has the types. *)
LEMMA TypeInit == ASSUME Init PROVE TypeOK /\ CarriesAFile
<1> USE BoundsAssumption DEF Init
<1>1. live \in Trees /\ changed \in Trees
  BY BaseAssumption, EntryKinds DEF Trees
<1>2. dirty \in Seq(Paths) /\ Len(dirty) =< QueueBound
  OBVIOUS
<1>3. edits \in 0..MaxEdits /\ troubles \in 0..MaxTroubles
  OBVIOUS
<1>4. daemon \in BOOLEAN /\ phase \in {"removing", "changing", "describing", "ready"}
  OBVIOUS
<1>5. CarriesAFile
  BY DEF CarriesAFile, Idle
<1>6. QED BY <1>1, <1>2, <1>3, <1>4, <1>5 DEF TypeOK

(* The stores, the queue and the writer's place keep their types. *)
THEOREM PersistenceTypeCorrect == Spec => []TypeOK
<1>1. Init => TypeOK /\ CarriesAFile
  BY TypeInit
<1>2. TypeOK /\ CarriesAFile /\ [Next]_vars => (TypeOK /\ CarriesAFile)'
  BY TypeStep, CarriesStep
<1>3. QED BY <1>1, <1>2, PTL DEF Spec
-----------------------------------------------------------------------------
(* Torn copies *)

(* A file at p with the facts of a user's version has its content, and one with the
   image's facts is an image's at p. *)
Genuine(p, e) ==
  e.kind = "file" =>
    /\ e.facts \in Contents => e.content = e.facts
    /\ e.facts = "image" => \E i \in Images : e = Base[i][p]

(* Every file is genuine, on either side and in the writer's hands; and no facts that
   come with a content are recorded for a path without it. *)
TornInv ==
  /\ \A p \in Paths : Genuine(p, live[p])
  /\ \A p \in Paths : Genuine(p, changed[p])
  /\ writer # Idle => Genuine(writer.path, writer.was)
  /\ writer.step \in {"untree", "unentry", "unmark"} /\ writer.was.kind = "file"
       /\ writer.got = NoContent => writer.was.content \in ImageContents
  /\ \A p \in Paths : {meta[p], store[p]} \cap (Contents \cup {"image"}) = {}

(* The image's entries, and those that are no files, are genuine, and so is what is
   done to a tree of genuine ones. *)
LEMMA GenuineTrees ==
  /\ \A p : Genuine(p, Nothing) /\ Genuine(p, Directory)
  /\ \A i \in Images, p \in Paths : Genuine(p, Base[i][p])
  /\ \A tree, p, e : (\A q \in Paths : Genuine(q, tree[q])) /\ Genuine(p, e) =>
       \A q \in Paths : /\ Genuine(q, Put(tree, p, e)[q])
                        /\ Genuine(q, Without(tree, p)[q])
                        /\ Genuine(q, Scaffold(tree, p)[q])
<1>1. \A p : Genuine(p, Nothing) /\ Genuine(p, Directory)
  BY EntryKinds DEF Genuine
<1>2. ASSUME NEW i \in Images, NEW p \in Paths PROVE Genuine(p, Base[i][p])
  BY BaseKinds, ContentsAssumption DEF Genuine
<1>3. ASSUME NEW tree, NEW p, NEW e, \A q \in Paths : Genuine(q, tree[q]), Genuine(p, e),
             NEW q \in Paths
      PROVE  /\ Genuine(q, Put(tree, p, e)[q])
             /\ Genuine(q, Without(tree, p)[q])
             /\ Genuine(q, Scaffold(tree, p)[q])
  BY <1>1, <1>3 DEF Put, Without, Scaffold
<1>4. QED BY <1>1, <1>2, <1>3

(* TornInv is kept. *)
LEMMA TornStep ==
  ASSUME TypeOK, CarriesAFile, TornInv, [Next]_vars
  PROVE  TornInv'
<1> USE DEF TornInv
<1>0. /\ image \in Images /\ live \in Trees /\ changed \in Trees /\ Idle.step = "idle"
      /\ meta \in [Paths -> Stamps \cup {"none"}] /\ store \in [Paths -> Stamps \cup {"none"}]
      /\ "none" \notin Contents \cup {"image"}
  BY ContentsAssumption DEF TypeOK, Idle
<1>1. CASE UNCHANGED <<live, changed, writer>> /\ {meta', store'} \subseteq {meta, store}
  BY <1>1
<1>2. CASE writer' = Idle /\ UNCHANGED <<live, changed>> /\ {meta', store'} \subseteq {meta, store}
  BY <1>0, <1>2
<1>3. CASE Edit
  <2>1. UNCHANGED <<changed, meta, store, writer>>
    BY <1>3 DEF Edit, WriteFile, TouchFile, PutBack, MakeDir, Delete, MoveAway, Changes, volume
  <2>2. \A q \in Paths : Genuine(q, live'[q])
    <3>1. ASSUME NEW p \in Paths, MoveAway(p) PROVE \A q \in Paths : Genuine(q, live'[q])
      BY <3>1, GenuineTrees DEF MoveAway
    <3>2. ASSUME NEW p \in Paths, NEW e \in Entries, Changes(p, e),
                 e.kind = "file" => \/ e.facts = e.content /\ e.content \in Contents
                                    \/ e.facts = "touched"
                                    \/ e = base[p]
          PROVE  \A q \in Paths : Genuine(q, live'[q])
      <4>1. Genuine(p, base[p])
        BY <1>0, GenuineTrees DEF base
      <4>2. Genuine(p, e)
        BY <3>2, <4>1, ContentsAssumption DEF Genuine
      <4>3. QED BY <3>2, <4>2, GenuineTrees DEF Changes
    <3>3. QED BY <1>0, <1>3, <3>1, <3>2, EditIs
  <2>3. QED BY <2>1, <2>2
<1>4. CASE Takes
  <2>1. UNCHANGED <<live, changed, meta, store>>
    BY <1>4 DEF Takes, volume
  <2>2. CASE writer' = Idle
    BY <2>1, <2>2, <1>0
  <2>3. CASE writer' = [step |-> FirstStep(Head(dirty)), path |-> Head(dirty),
                        was |-> live[Head(dirty)], got |-> NoContent]
    <3>1. Head(dirty) \in Paths
      BY <1>4, QueueStays DEF Takes, TypeOK
    <3>2. ASSUME SameContent(live[Head(dirty)], base[Head(dirty)]),
                 live[Head(dirty)].kind = "file"
          PROVE live[Head(dirty)].content \in ImageContents
      BY <1>0, <3>1, <3>2, BaseKinds DEF SameContent, base
    <3>3. FirstStep(Head(dirty)) = "unentry" => SameContent(live[Head(dirty)], base[Head(dirty)])
      BY DEF FirstStep
    <3>4. FirstStep(Head(dirty)) # "unmark"
      BY DEF FirstStep
    <3>5. FirstStep(Head(dirty)) = "untree" => live[Head(dirty)].kind = "none"
      BY EntryKinds DEF FirstStep
    <3>6. QED BY <2>1, <2>3, <3>1, <3>2, <3>3, <3>4, <3>5
  <2>4. QED BY <1>4, <2>2, <2>3 DEF Takes
<1>5. CASE RemoveTree \/ RemoveEntry
  <2>1. /\ writer # Idle /\ writer.path \in Paths /\ writer.step \in {"untree", "unentry"}
        /\ writer'.step \in {"mark", "unmark"} /\ writer' # Idle
        /\ writer' = [writer EXCEPT !.step = writer'.step]
        /\ UNCHANGED <<live, meta, store>>
    BY <1>5 DEF RemoveTree, RemoveEntry, At, GoesTo, StoresOnly, TypeOK, Idle
  <2>2. /\ writer'.path = writer.path /\ writer'.was = writer.was /\ writer'.got = writer.got
    BY <2>1 DEF TypeOK
  <2>3. \A q \in Paths : Genuine(q, changed'[q])
    <3>1. \A q \in Paths : Genuine(q, Scaffold(changed, writer.path)[q])
      BY GenuineTrees
    <3>2. CASE RemoveTree
      <4>1. \A q \in Paths : Genuine(q, Without(Scaffold(changed, writer.path), writer.path)[q])
        BY <3>1, GenuineTrees
      <4>2. QED BY <3>2, <4>1 DEF RemoveTree
    <3>3. CASE RemoveEntry
      <4>1. \A q \in Paths : Genuine(q, Put(Scaffold(changed, writer.path), writer.path, Nothing)[q])
        BY <3>1, GenuineTrees
      <4>2. QED BY <3>1, <3>3, <4>1 DEF RemoveEntry
    <3>4. QED BY <1>5, <3>2, <3>3
  <2>4. QED BY <2>1, <2>2, <2>3
<1>6. CASE WriteMarker
  <2>1. /\ writer' = Idle /\ UNCHANGED <<live, changed, meta>> /\ store' = Forgotten(writer.path)
    BY <1>6 DEF WriteMarker, StoresOnly
  <2>2. QED BY <1>0, <2>1 DEF Forgotten
<1>7. CASE RemoveMarker
  <2>1. /\ writer' = Idle /\ UNCHANGED <<live, changed, meta>>
        /\ store' \in {store, Recorded(writer.path)}
        /\ writer # Idle /\ writer.step = "unmark" /\ writer.was \in Entries /\ writer.path \in Paths
    BY <1>7 DEF RemoveMarker, At, TypeOK, Idle
  <2>2. ASSUME writer.was.kind = "file", writer.got = NoContent, writer.was.facts # "image"
        PROVE  writer.was.facts \notin Contents \cup {"image"}
    BY <2>1, <2>2, ContentsAssumption DEF Genuine
  <2>3. \A q \in Paths : Recorded(writer.path)[q] \notin Contents \cup {"image"}
    BY <1>0, <2>1, <2>2 DEF Recorded, Forgotten
  <2>4. QED BY <1>0, <2>1, <2>3
<1>8. CASE PrepareCopy
  <2>1. /\ writer # Idle /\ writer.path \in Paths /\ live[writer.path] \in Entries
        /\ UNCHANGED <<live, meta, store>>
    BY <1>8 DEF PrepareCopy, At, TypeOK, Trees, Idle
  <2>2. \A q \in Paths : Genuine(q, changed'[q])
    <3>1. \A q \in Paths : Genuine(q, Scaffold(changed, writer.path)[q])
      BY GenuineTrees
    <3>2. \A q \in Paths : Genuine(q, Put(Scaffold(changed, writer.path), writer.path, Directory)[q])
      BY <3>1, GenuineTrees
    <3>3. QED BY <1>8, <3>1, <3>2 DEF PrepareCopy
  <2>3. CASE live[writer.path] = Nothing
    BY <1>0, <1>8, <2>1, <2>2, <2>3 DEF PrepareCopy
  <2>4. CASE live[writer.path] # Nothing
    <3>1. /\ writer'.path = writer.path /\ writer'.was = live[writer.path]
          /\ writer'.step = (IF live[writer.path] = Directory THEN "unmark" ELSE "read")
      BY <1>8, <2>1, <2>4 DEF PrepareCopy, TypeOK
    <3>2. QED BY <2>1, <2>2, <3>1, EntryKinds
  <2>5. QED BY <2>3, <2>4
<1>9. CASE ReadFile
  <2>1. /\ writer # Idle /\ UNCHANGED <<live, changed, meta, store>>
        /\ \/ writer' = Idle
           \/ /\ writer'.path = writer.path /\ writer'.was = writer.was
              /\ writer'.step = "publish"
    <3>1. writer # Idle /\ UNCHANGED <<live, changed, meta, store>>
      BY <1>9 DEF ReadFile, At, volume, Idle
    <3>2. \/ writer' = Idle
          \/ writer' = [writer EXCEPT !.step = "publish", !.got = live[writer.path].content]
      BY <1>9, Zenon DEF ReadFile
    <3>3. QED BY <3>1, <3>2 DEF TypeOK
  <2>2. QED BY <1>0, <2>1
<1>10. CASE Publish \/ Dress
  <2>1. /\ writer # Idle /\ writer.path \in Paths /\ writer.was \in Entries
        /\ writer.was.kind = "file" /\ writer.got = writer.was.content
        /\ UNCHANGED <<live, meta>>
    BY <1>10 DEF Publish, Dress, At, IsStable, CarriesAFile, StoresOnly, TypeOK, Idle
  <2>2. /\ writer'.path = writer.path /\ writer'.was = writer.was /\ writer'.got = writer.got
        /\ writer'.step \in {"dress", "unmark"}
    BY <1>10, <2>1 DEF Publish, Dress, GoesTo, TypeOK
  <2>3. writer.got # NoContent
    BY <2>1, EntryKinds, ContentsAssumption
  <2>4. /\ Genuine(writer.path, File(writer.got, "raw"))
        /\ Genuine(writer.path, File(writer.got, writer.was.facts))
    <3>1. File(writer.got, writer.was.facts) = writer.was
      BY <2>1, EntryKinds
    <3>2. Genuine(writer.path, File(writer.got, "raw"))
      BY EntryKinds, ContentsAssumption DEF Genuine
    <3>3. QED BY <2>1, <3>1, <3>2
  <2>5. \A q \in Paths : Genuine(q, changed'[q])
    <3>1. \/ changed' = Put(changed, writer.path, File(writer.got, "raw"))
          \/ changed' = Put(changed, writer.path, File(writer.got, writer.was.facts))
      BY <1>10 DEF Publish, Dress
    <3>2. QED BY <2>4, <3>1, GenuineTrees
  <2>6. \A q \in Paths : store'[q] \in {store[q], "none"}
    BY <1>0, <1>10, <2>1 DEF Publish, Dress
  <2>7. QED BY <1>0, <2>1, <2>2, <2>3, <2>5, <2>6
<1>11. ASSUME NEW i \in Images, ContainerIsCreated(i) PROVE TornInv'
  <2>1. /\ writer' = Idle /\ live' = Base[i] /\ UNCHANGED <<changed, meta>> /\ store' = meta
    BY <1>11 DEF ContainerIsCreated, DaemonIsGone, volume
  <2>2. QED BY <1>0, <2>1, GenuineTrees
<1>12. CASE ApplyRemoved \/ ApplyChanged
  <2>1. UNCHANGED <<changed, meta, store, writer>> /\ live' \in {Pruned(live), Overlaid(live)}
    BY <1>12 DEF ApplyRemoved, ApplyChanged, ApplyStep
  <2>2. \A q \in Paths : Genuine(q, Pruned(live)[q]) /\ Genuine(q, Overlaid(live)[q])
    BY GenuineTrees DEF Pruned, Overlaid
  <2>3. QED BY <2>1, <2>2
<1>13. CASE ApplyMetadata
  <2>1. /\ UNCHANGED <<changed, writer>> /\ live' = Described(live) /\ store' = meta'
        /\ \A q \in Paths : meta'[q] \in {meta[q], "none"}
    BY <1>13 DEF ApplyMetadata, ApplyStep
  <2>2. ASSUME NEW q \in Paths PROVE Genuine(q, Described(live)[q])
    <3>1. CASE meta[q] # "none" /\ live[q].kind = "file"
      <4>1. live[q] \in Entries /\ live[q] = File(live[q].content, live[q].facts)
        BY <1>0, <3>1, EntryKinds DEF Trees
      <4>2. Described(live)[q].facts = meta[q]
        BY <3>1, <4>1 DEF Described, File
      <4>3. QED BY <4>2 DEF Genuine
    <3>2. CASE ~(meta[q] # "none" /\ live[q].kind = "file")
      BY <3>2 DEF Described
    <3>3. QED BY <3>1, <3>2
  <2>3. QED BY <1>0, <2>1, <2>2
<1>14. ASSUME NEW p \in Paths, AuditFlags(p) \/ Requeues(p) PROVE TornInv'
  BY <1>1, <1>14 DEF AuditFlags, Requeues, volume
<1>15. CASE \/ LoadFails \/ FlushSucceeds \/ FlushFails \/ DaemonStarts \/ UNCHANGED vars
  BY <1>1, <1>15 DEF LoadFails, FlushSucceeds, FlushFails, DaemonStarts, volume, vars
<1>16. CASE Unstable \/ UpdateFails \/ DaemonDies \/ ContainerRestarts
  BY <1>2, <1>16 DEF Unstable, UpdateFails, DaemonDies, ContainerRestarts, DaemonIsGone, volume
<1>17. QED
  BY EveryStep, <1>3, <1>4, <1>5, <1>6, <1>7, <1>8, <1>9, <1>10, <1>11, <1>12, <1>13, <1>14,
     <1>15, <1>16

(* No copy on the volume, nor a file put in place from one, mixes two versions, for
   any tree, images and bounds. *)
THEOREM NoTornCopyCorrect == Spec => []NoTornCopy
<1>1. Init => TypeOK /\ CarriesAFile /\ TornInv
  <2>1. Init => TornInv
    BY GenuineTrees, EntryKinds, ContentsAssumption DEF Init, TornInv, Idle
  <2>2. QED BY <2>1, TypeInit
<1>2. TypeOK /\ CarriesAFile /\ TornInv /\ [Next]_vars
      => (TypeOK /\ CarriesAFile /\ TornInv)'
  BY TypeStep, CarriesStep, TornStep
<1>3. TornInv => NoTornCopy
  BY DEF TornInv, NoTornCopy, Genuine
<1>4. QED BY <1>1, <1>2, <1>3, PTL DEF Spec
-----------------------------------------------------------------------------
(* Untouched files *)

(* No user has changed p or a directory it lies in. *)
Clean(p) == ({p} \cup Above[p]) \cap touched = {}

(* What the volume and the container hold at a clean path: the image's entry, or a
   directory made on the way to a path below. *)
CleanPaths ==
  \A p \in Paths : Clean(p) =>
    /\ live[p] \in {base[p], Directory}
    /\ changed[p].kind # "file" /\ p \notin removed
    /\ meta[p] = "none" /\ store[p] = "none"

(* The writer finds nothing to copy, to mark or to record at a clean path. *)
CleanWriter ==
  writer # Idle /\ Clean(writer.path) =>
    /\ writer.step \notin {"mark", "read", "publish", "dress"}
    /\ writer.step = "untree" => base[writer.path] = Nothing
    /\ writer.step = "copy" => live[writer.path] = Directory
    /\ writer.was.kind = "file" => writer.was.facts = "image"

(* During the replay there is no writer. *)
QuietReplay == phase # "ready" => writer = Idle /\ ~daemon

CleanInv == CleanPaths /\ CleanWriter /\ QuietReplay

(* Directories above a clean path are clean, and touching leaves fewer of them. *)
LEMMA CleanAbove ==
  /\ \A p \in Paths : Clean(p) => \A q \in Above[p] : q \in Paths /\ Clean(q)
  /\ \A p : touched \subseteq touched' /\ Clean(p)' => Clean(p)
  BY AboveAssumption DEF Clean

(* QuietReplay is kept. *)
LEMMA QuietStep == ASSUME TypeOK, QuietReplay, [Next]_vars PROVE QuietReplay'
<1> USE DEF QuietReplay
<1>1. CASE UNCHANGED <<phase, daemon, writer>> \/ phase' = "ready"
  BY <1>1
<1>2. CASE writer' = Idle /\ ~daemon'
  BY <1>2
<1>3. CASE daemon /\ UNCHANGED phase
  BY <1>3
<1>4. ASSUME NEW p \in Paths, AuditFlags(p) \/ Requeues(p) PROVE QuietReplay'
  BY <1>3, <1>4 DEF AuditFlags, Requeues
<1>5. CASE Edit
  <2>1. phase' = "ready"
    BY <1>5, Zenon DEF Edit, WriteFile, TouchFile, PutBack, MakeDir, Delete, MoveAway, Changes
  <2>2. QED BY <1>1, <2>1
<1>6. CASE \/ Takes \/ RemoveTree \/ WriteMarker \/ RemoveEntry \/ PrepareCopy \/ ReadFile
           \/ Publish \/ Unstable \/ Dress \/ RemoveMarker
  BY <1>3, <1>6 DEF Takes, RemoveTree, WriteMarker, RemoveEntry, PrepareCopy, ReadFile, Publish,
     Unstable, Dress, RemoveMarker, At, StoresOnly
<1>7. CASE FlushSucceeds \/ LoadFails \/ UpdateFails \/ FlushFails
  BY <1>3, <1>7 DEF FlushSucceeds, LoadFails, UpdateFails, FlushFails
<1>8. CASE DaemonDies \/ ContainerRestarts \/ \E i \in Images : ContainerIsCreated(i)
  BY <1>2, <1>8 DEF DaemonDies, ContainerRestarts, ContainerIsCreated, DaemonIsGone
<1>9. CASE ApplyRemoved \/ ApplyChanged \/ ApplyMetadata
  BY <1>9 DEF ApplyRemoved, ApplyChanged, ApplyMetadata, ApplyStep
<1>10. CASE DaemonStarts \/ UNCHANGED vars
  BY <1>1, <1>10 DEF DaemonStarts, vars
<1>11. QED BY EveryStep, <1>4, <1>5, <1>6, <1>7, <1>8, <1>9, <1>10

(* CleanInv is kept. *)
LEMMA CleanStep ==
  ASSUME TypeOK, CarriesAFile, CleanInv, [Next]_vars
  PROVE  CleanInv'
<1> USE DEF CleanInv
<1>q. QuietReplay'
  BY QuietStep
<1>0. /\ image \in Images /\ live \in Trees /\ changed \in Trees /\ Idle.step = "idle"
      /\ meta \in [Paths -> Stamps \cup {"none"}] /\ store \in [Paths -> Stamps \cup {"none"}]
  BY DEF TypeOK, Idle
<1>t. ASSUME UNCHANGED touched, NEW p PROVE Clean(p)' <=> Clean(p)
  BY <1>t DEF Clean
<1>1. ASSUME UNCHANGED <<image, live, removed, touched>>,
             \A q \in Paths : Clean(q) => /\ changed'[q].kind # "file" 
                                         /\ meta'[q] = "none" /\ store'[q] = "none"
      PROVE CleanPaths'
  BY <1>1, <1>t DEF CleanPaths, base
<1>2. ASSUME UNCHANGED <<image, live, touched>>, UNCHANGED writer \/ writer' = Idle PROVE CleanWriter'
  BY <1>2, <1>t DEF CleanWriter, base, Idle
<1>3. CASE Edit
  <2>1. UNCHANGED <<image, changed, removed, meta, store, writer>> /\ touched \subseteq touched'
    BY <1>3, Zenon DEF Edit, WriteFile, TouchFile, PutBack, MakeDir, Delete, MoveAway,
       Changes, volume
  <2>2. ASSUME NEW q \in Paths, Clean(q)' PROVE live'[q] = live[q] /\ Clean(q)
    <3>1. ASSUME NEW p \in Paths, MoveAway(p) PROVE live'[q] = live[q]
      BY <2>2, <3>1 DEF MoveAway, Without, AtOrBelow, Below, Clean
    <3>2. ASSUME NEW p \in Paths, NEW e \in Entries, Changes(p, e) PROVE live'[q] = live[q]
      BY <2>2, <3>2 DEF Changes, Put, Below, Clean
    <3>3. live'[q] = live[q]
      BY <1>0, <1>3, <3>1, <3>2, EditIs
    <3>4. QED BY <2>1, <2>2, <3>3, CleanAbove
  <2>3. CleanPaths'
    BY <2>1, <2>2 DEF CleanPaths, base
  <2>4. CleanWriter'
    <3>1. writer # Idle => writer.path \in Paths
      BY DEF TypeOK
    <3>2. QED BY <2>1, <2>2, <3>1 DEF CleanWriter, base
  <2>5. QED BY <1>q, <2>3, <2>4
<1>4. CASE Takes
  <2>1. UNCHANGED <<image, live, changed, removed, meta, store, touched>>
    BY <1>4 DEF Takes, volume
  <2>2. CleanPaths'
    BY <1>1, <2>1 DEF CleanPaths
  <2>3. ASSUME writer' = [step |-> FirstStep(Head(dirty)), path |-> Head(dirty),
                          was |-> live[Head(dirty)], got |-> NoContent]
        PROVE CleanWriter'
    <3>0. PICK p : p = Head(dirty)
      OBVIOUS
    <3>1. p \in Paths /\ live[p] \in Entries /\ base[p] \in Entries
      BY <1>0, <1>4, <3>0, QueueStays, BaseKinds DEF Takes, TypeOK, Trees, base
    <3>2. Clean(p) => live[p] \in {base[p], Directory}
      BY <3>1 DEF CleanPaths
    <3>3. /\ FirstStep(p) \in {"untree", "unentry", "copy"}
          /\ FirstStep(p) = "untree" => live[p] = Nothing
          /\ FirstStep(p) = "copy" => live[p] # base[p]
      BY DEF FirstStep, SameContent
    <3>4. Clean(p) /\ live[p].kind = "file" => live[p].facts = "image"
      BY <1>0, <3>1, <3>2, BaseKinds, EntryKinds DEF base
    <3>5. Clean(p) /\ FirstStep(p) = "untree" => base[p] = Nothing
      BY <3>2, <3>3 DEF Nothing, Directory
    <3>6. base'[p] = base[p] /\ live' = live /\ (Clean(p)' <=> Clean(p))
      BY <1>t, <2>1 DEF base
    <3>7. writer'.path = p /\ writer'.step = FirstStep(p) /\ writer'.was = live[p]
      BY <2>3, <3>0
    <3>8. QED BY <3>2, <3>3, <3>4, <3>5, <3>6, <3>7 DEF CleanWriter
  <2>4. writer' = Idle \/ writer' = [step |-> FirstStep(Head(dirty)), path |-> Head(dirty),
                                     was |-> live[Head(dirty)], got |-> NoContent]
    BY <1>4, Zenon DEF Takes
  <2>5. QED BY <1>q, <1>2, <2>1, <2>2, <2>3, <2>4
<1>5. CASE RemoveTree \/ RemoveEntry
  <2>1. /\ writer # Idle /\ writer.path \in Paths
        /\ writer' = [writer EXCEPT !.step = writer'.step]
        /\ UNCHANGED <<image, live, removed, meta, store, touched>>
        /\ \/ writer'.step = "unmark"
           \/ writer.step = "untree" /\ base[writer.path] # Nothing
    BY <1>5 DEF RemoveTree, RemoveEntry, At, GoesTo, StoresOnly, TypeOK, history, Idle
  <2>2. writer'.path = writer.path /\ writer'.was = writer.was
    BY <2>1 DEF TypeOK
  <2>3. CleanPaths'
    <3>1. ASSUME NEW q \in Paths PROVE changed'[q].kind = "file" => changed[q].kind = "file"
      BY <1>5, EntryKinds DEF RemoveTree, RemoveEntry, Scaffold, Without, Put
    <3>2. QED BY <1>1, <2>1, <3>1 DEF CleanPaths
  <2>4. CleanWriter'
    BY <1>t, <2>1, <2>2 DEF CleanWriter
  <2>5. QED BY <1>q, <2>3, <2>4
<1>6. CASE WriteMarker
  <2>1. /\ writer # Idle /\ writer.step = "mark" /\ writer' = Idle
        /\ UNCHANGED <<image, live, changed, meta, touched>>
        /\ removed' = Marked(writer.path) /\ store' = Forgotten(writer.path)
    BY <1>6 DEF WriteMarker, At, StoresOnly, history, Idle
  <2>2. ~Clean(writer.path)
    BY <2>1 DEF CleanWriter
  <2>3. CleanPaths'
    BY <1>t, <2>1, <2>2 DEF CleanPaths, Marked, Forgotten, base
  <2>4. QED BY <1>q, <1>2, <2>1, <2>3
<1>7. CASE RemoveMarker
  <2>1. /\ writer # Idle /\ writer' = Idle /\ writer.path \in Paths
        /\ UNCHANGED <<image, live, changed, meta, touched>>
        /\ removed' \subseteq removed /\ store' \in {store, Recorded(writer.path)}
    BY <1>7 DEF RemoveMarker, At, TypeOK, Idle
  <2>2. \A q \in Paths : Clean(q) => store'[q] = "none"
    BY <1>0, <2>1 DEF CleanPaths, CleanWriter, Recorded, Forgotten
  <2>3. CleanPaths'
    BY <1>t, <2>1, <2>2 DEF CleanPaths, base
  <2>4. QED BY <1>q, <1>2, <2>1, <2>3
<1>8. CASE PrepareCopy
  <2>1. /\ writer # Idle /\ writer.step = "copy" /\ writer.path \in Paths
        /\ UNCHANGED <<image, live, removed, meta, store, touched>>
    BY <1>8 DEF PrepareCopy, At, TypeOK, Idle
  <2>2. CleanPaths'
    <3>1. ASSUME NEW q \in Paths PROVE changed'[q].kind = "file" => changed[q].kind = "file"
      BY <1>8, EntryKinds DEF PrepareCopy, Scaffold, Put
    <3>2. QED BY <1>1, <2>1, <3>1 DEF CleanPaths
  <2>3. CASE live[writer.path] = Nothing
    <3>1. writer' = Idle
      BY <1>8, <2>3 DEF PrepareCopy
    <3>2. QED BY <1>q, <1>2, <2>1, <2>2, <3>1
  <2>4. CASE live[writer.path] # Nothing
    <3>1. /\ writer'.path = writer.path /\ writer'.was = live[writer.path]
          /\ live[writer.path] = Directory => writer'.step = "unmark"
      BY <1>8, <2>1, <2>4 DEF PrepareCopy, TypeOK
    <3>2. CleanWriter'
      BY <1>t, <2>1, <3>1, EntryKinds DEF CleanWriter
    <3>3. QED BY <1>q, <2>2, <3>2
  <2>5. QED BY <2>3, <2>4
<1>9. CASE ReadFile \/ Publish \/ Dress
  <2>1. /\ writer # Idle /\ writer.step \in {"read", "publish", "dress"}
        /\ writer.path \in Paths
    BY <1>9 DEF ReadFile, Publish, Dress, At, TypeOK, Idle
  <2>2. ~Clean(writer.path)
    BY <2>1 DEF CleanWriter
  <2>3. UNCHANGED <<image, live, removed, meta, touched>>
    BY <1>9 DEF ReadFile, Publish, Dress, StoresOnly, volume, history
  <2>4. ASSUME NEW q \in Paths, q # writer.path
        PROVE  changed'[q] \in {changed[q], Nothing} /\ store'[q] \in {store[q], "none"}
    <3>1. CASE ReadFile
      BY <3>1 DEF ReadFile, volume
    <3>2. CASE Publish \/ Dress
      BY <1>0, <2>4, <3>2 DEF Publish, Dress, Put
    <3>3. QED BY <1>9, <3>1, <3>2
  <2>5. CleanPaths'
    BY <1>1, <2>2, <2>3, <2>4, EntryKinds DEF CleanPaths
  <2>6. writer' = Idle \/ writer'.path = writer.path
    BY <1>9, <2>1, Zenon DEF ReadFile, Publish, Dress, GoesTo, TypeOK
  <2>7. CleanWriter'
    BY <1>t, <2>2, <2>3, <2>6 DEF CleanWriter
  <2>8. QED BY <1>q, <2>5, <2>7
<1>11. ASSUME NEW i \in Images, ContainerIsCreated(i) PROVE CleanInv'
  <2>1. /\ writer' = Idle /\ live' = base' /\ UNCHANGED <<changed, removed, meta, touched>>
        /\ store' = meta
    BY <1>11 DEF ContainerIsCreated, DaemonIsGone, volume, base
  <2>2. QED BY <1>q, <1>t, <2>1 DEF CleanPaths, CleanWriter
<1>12. CASE ApplyRemoved \/ ApplyChanged
  <2>1. /\ writer = Idle /\ UNCHANGED <<image, changed, removed, meta, store, writer, touched>>
        /\ live' \in {Pruned(live), Overlaid(live)}
    BY <1>12 DEF ApplyRemoved, ApplyChanged, ApplyStep, QuietReplay
  <2>2. ASSUME NEW q \in Paths, Clean(q) PROVE live'[q] \in {live[q], Directory}
    <3>1. Pruned(live)[q] = live[q]
      BY <2>2, CleanAbove DEF Pruned, CleanPaths
    <3>2. Overlaid(live)[q] \in {live[q], Directory}
      <4>1. ~Blocked(changed, q)
        BY <2>2, CleanAbove DEF Blocked, CleanPaths
      <4>2. changed[q] \in Entries /\ changed[q].kind # "file"
        BY <1>0, <2>2 DEF CleanPaths, Trees
      <4>3. QED BY <4>1, <4>2, EntryKinds DEF Overlaid
    <3>3. QED BY <2>1, <3>1, <3>2
  <2>3. QED BY <1>q, <1>t, <2>1, <2>2 DEF CleanPaths, CleanWriter, base
<1>13. CASE ApplyMetadata
  <2>1. /\ writer = Idle /\ UNCHANGED <<image, changed, removed, writer, touched>>
        /\ live' = Described(live) /\ store' = meta'
        /\ \A q \in Paths : meta'[q] \in {meta[q], "none"}
    BY <1>13 DEF ApplyMetadata, ApplyStep, QuietReplay
  <2>2. ASSUME NEW q \in Paths, Clean(q) PROVE live'[q] = live[q]
    BY <2>1, <2>2 DEF CleanPaths, Described
  <2>3. QED BY <1>q, <1>t, <2>1, <2>2 DEF CleanPaths, CleanWriter, base
<1>14. ASSUME NEW p \in Paths, AuditFlags(p) \/ Requeues(p) PROVE CleanInv'
  <2>1. UNCHANGED <<image, live, changed, removed, meta, store, writer, touched>>
    BY <1>14 DEF AuditFlags, Requeues, volume, history
  <2>2. QED BY <1>q, <1>1, <1>2, <2>1 DEF CleanPaths
<1>15. CASE \/ LoadFails \/ FlushSucceeds \/ FlushFails \/ DaemonStarts \/ UNCHANGED vars
  <2>1. /\ UNCHANGED <<image, live, changed, removed, writer, touched>>
        /\ {meta', store'} \subseteq {meta, store}
    BY <1>15 DEF LoadFails, FlushSucceeds, FlushFails, DaemonStarts, volume, history, vars
  <2>2. QED BY <1>q, <1>1, <1>2, <2>1 DEF CleanPaths
<1>16. CASE Unstable \/ UpdateFails \/ DaemonDies \/ ContainerRestarts
  <2>1. /\ UNCHANGED <<image, live, changed, removed, touched>> /\ writer' = Idle
        /\ {meta', store'} \subseteq {meta, store}
    BY <1>16 DEF Unstable, UpdateFails, DaemonDies, ContainerRestarts, DaemonIsGone, volume,
       history
  <2>2. QED BY <1>q, <1>1, <1>2, <2>1 DEF CleanPaths
<1>17. QED
  BY EveryStep, <1>3, <1>4, <1>5, <1>6, <1>7, <1>8, <1>9, <1>11, <1>12, <1>13, <1>14,
     <1>15, <1>16

(* A file no user has changed has neither copy nor marker nor record, for any tree,
   images and bounds, so that it follows each new image. *)
THEOREM UntouchedFollowImageCorrect == Spec => []UntouchedFollowImage
<1>1. Init => TypeOK /\ CarriesAFile /\ CleanInv
  <2>1. Init => CleanInv
    BY EntryKinds DEF Init, CleanInv, CleanPaths, CleanWriter, QuietReplay, base
  <2>2. QED BY <2>1, TypeInit
<1>2. TypeOK /\ CarriesAFile /\ CleanInv /\ [Next]_vars
      => (TypeOK /\ CarriesAFile /\ CleanInv)'
  BY TypeStep, CarriesStep, CleanStep
<1>3. CleanInv => UntouchedFollowImage
  BY DEF CleanInv, CleanPaths, Clean, UntouchedFollowImage
<1>4. QED BY <1>1, <1>2, <1>3, PTL DEF Spec

-----------------------------------------------------------------------------
(* Leftovers *)

(* Paths of whose last change a notice is queued or was lost *)
Noted == Queued \cup missed

(* Paths the writer has still to see to, or is seeing to *)
Owing == Noted \cup retry \cup (IF writer = Idle THEN {} ELSE {writer.path})

(* What is in a tree is in directories of it. *)
WellKept(tree) == \A p \in Paths : tree[p] # Nothing => \A q \in Above[p] : tree[q] = Directory

(* There is no marker of p, nor of a directory it lies in. *)
Unmarked(p) == removed \cap ({p} \cup Above[p]) = {}

(* What the writer found when it took its path is still there, and what lies above
   and below is as that implies, unless it changed since, of which there is a notice;
   so what it makes of the path is right. *)
WriterSees ==
  writer # Idle =>
    LET p == writer.path IN
      /\ p \in batch
      /\ p \notin Noted => live[p] = writer.was
      /\ writer.was # Directory => \A q \in Below(p) : live[q] = Nothing \/ q \in Noted
      /\ writer.step = "copy" => \A q \in Above[p] : live[q] = Directory \/ q \in Noted
      /\ writer.step \in {"untree", "mark"} => writer.was = Nothing
      /\ writer.step = "mark" => base[p] # Nothing
      /\ writer.step \in {"copy", "read", "publish", "dress"} /\ p \notin Noted =>
           ~SameContent(writer.was, base[p])
      /\ writer.step \in {"read", "publish", "dress"} =>
           \A q \in Above[p] : changed[q] = Directory
      /\ writer.step = "unmark" /\ p \notin Noted /\ writer.was = base[p] =>
           changed[p].kind # "file"

(* A record in memory that is not the one on the volume is of a path whose batch is
   not flushed, or that has to be seen to anyway. *)
RecordsWait ==
  \A p \in Paths : store[p] # meta[p] /\ live[p] # Nothing => p \in batch \cup retry \cup Noted

(* Of a path that is as the image has it, and that the writer has not to see to, there
   is no copy of another version; a file of the image is neither marked nor recorded. *)
UpToDate ==
  phase = "ready" =>
    \A p \in Paths \ Owing : live[p] = base[p] =>
      /\ changed[p].kind = "file" => changed[p] = base[p]
      /\ base[p].kind = "file" => /\ store[p] = "none"
                                  /\ Unmarked(p) \/ changed[p] = base[p]

(* What the replay has put in place so far; nothing is in memory meanwhile. *)
ReplayComes ==
  /\ phase # "ready" => store = meta
  /\ phase = "changing" => \A p \in Paths : live[p] # Nothing => Unmarked(p)
  /\ phase = "describing" =>
       \A p \in Paths : /\ changed[p] # Nothing => live[p] = changed[p]
                        /\ changed[p] = Nothing /\ live[p] # Nothing => Unmarked(p)

LeftInv ==
  /\ WellKept(live) /\ WellKept(changed)
  /\ WriterSees /\ RecordsWait /\ UpToDate /\ ReplayComes

(* What is queued, when a path is added and when the first is taken *)
LEMMA QueueHolds ==
  ASSUME dirty \in Seq(Paths)
  PROVE  /\ \A p : dirty' = Append(dirty, p) => Queued' = Queued \cup {p}
         /\ dirty # <<>> /\ dirty' = Tail(dirty) => Queued = Queued' \cup {Head(dirty)}
         /\ UNCHANGED dirty => UNCHANGED Queued
<1>1. ASSUME NEW p, dirty' = Append(dirty, p) PROVE Queued' = Queued \cup {p}
  <2>1. /\ Len(dirty) \in Nat /\ Len(dirty') = Len(dirty) + 1
        /\ dirty'[Len(dirty) + 1] = p
        /\ \A n \in 1..Len(dirty) : dirty'[n] = dirty[n]
    BY <1>1
  <2>2. 1..Len(dirty') = (1..Len(dirty)) \cup {Len(dirty) + 1}
    BY <2>1
  <2>3. QED BY <2>1, <2>2 DEF Queued
<1>2. ASSUME dirty # <<>>, dirty' = Tail(dirty) PROVE Queued = Queued' \cup {Head(dirty)}
  <2>1. /\ Len(dirty) \in Nat \ {0} /\ Len(dirty') = Len(dirty) - 1
        /\ Head(dirty) = dirty[1]
        /\ \A n \in 1..Len(dirty') : dirty'[n] = dirty[n + 1]
    BY <1>2
  <2>2. \A n \in 1..Len(dirty) : n = 1 \/ \E m \in 1..Len(dirty') : n = m + 1
    <3>1. ASSUME NEW n \in 1..Len(dirty), n # 1 PROVE n - 1 \in 1..Len(dirty') /\ n = (n - 1) + 1
      BY <2>1, <3>1
    <3>2. QED BY <3>1
  <2>3. \A m \in 1..Len(dirty') : m + 1 \in 1..Len(dirty)
    BY <2>1
  <2>4. 1 \in 1..Len(dirty)
    BY <2>1
  <2>5. ASSUME NEW n \in 1..Len(dirty) PROVE dirty[n] \in Queued' \cup {Head(dirty)}
    <3>1. CASE n = 1
      BY <2>1, <3>1
    <3>2. ASSUME NEW m \in 1..Len(dirty'), n = m + 1 PROVE dirty[n] \in Queued'
      <4>1. dirty[n] = dirty'[m]
        BY <2>1, <3>2
      <4>2. QED BY <4>1 DEF Queued
    <3>3. QED BY <2>2, <3>1, <3>2
  <2>6. ASSUME NEW m \in 1..Len(dirty') PROVE dirty'[m] \in Queued
    BY <2>1, <2>3 DEF Queued
  <2>7. Head(dirty) \in Queued
    BY <2>1, <2>4 DEF Queued
  <2>8. Queued \subseteq Queued' \cup {Head(dirty)}
    BY <2>5, Zenon DEF Queued
  <2>9. Queued' \subseteq Queued
    BY <2>6, Zenon DEF Queued
  <2>10. QED BY <2>7, <2>8, <2>9
<1>3. UNCHANGED dirty => UNCHANGED Queued
  BY DEF Queued
<1>4. QED BY <1>1, <1>2, <1>3

(* Nothing lies above or below itself, nor both above and below the same. *)
LEMMA AboveBelow ==
  ASSUME NEW p \in Paths
  PROVE  /\ p \notin Above[p] /\ p \notin Below(p) /\ Above[p] \cap Below(p) = {}
         /\ Above[p] \subseteq Paths /\ Below(p) \subseteq Paths
         /\ \A q \in Above[p] : Above[q] \subseteq Above[p]
         /\ \A q \in Below(p) : p \in Above[q]
  BY AboveAssumption DEF Below

(* What is done to a tree keeps what is in it in directories. *)
LEMMA KeptTrees ==
  ASSUME NEW tree \in Trees, WellKept(tree), NEW p \in Paths
  PROVE  /\ WellKept(Without(tree, p)) /\ WellKept(Scaffold(tree, p))
         /\ WellKept(Put(tree, p, Nothing))
         /\ \A e \in Entries : (\A q \in Above[p] : tree[q] = Directory)
                                 => WellKept(Put(tree, p, e))
<1> USE DEF WellKept
<1>1. WellKept(Without(tree, p))
  <2>1. ASSUME NEW q \in Paths, q \notin AtOrBelow(p), NEW a \in Above[q]
        PROVE  a \in Paths /\ a \notin AtOrBelow(p)
    BY <2>1, AboveAssumption DEF AtOrBelow, Below
  <2>2. QED BY <2>1 DEF Without
<1>2. WellKept(Scaffold(tree, p))
  BY AboveAssumption DEF Scaffold
<1>3. WellKept(Put(tree, p, Nothing))
  BY AboveAssumption, EntryKinds DEF Put, Below
<1>4. ASSUME NEW e \in Entries, \A q \in Above[p] : tree[q] = Directory
      PROVE  WellKept(Put(tree, p, e))
  <2>1. ASSUME NEW q \in Paths, Put(tree, p, e)[q] # Nothing, NEW a \in Above[q]
        PROVE  Put(tree, p, e)[a] = Directory
    <3>1. a \in Paths /\ Above[a] \subseteq Above[q]
      BY AboveAssumption
    <3>2. CASE q = p
      BY <1>4, <3>1, <3>2, AboveBelow DEF Put
    <3>3. CASE q # p /\ e = Directory
      BY <2>1, <3>1, <3>3 DEF Put
    <3>4. CASE q # p /\ e # Directory
      BY <2>1, <3>1, <3>4 DEF Put, Below
    <3>5. QED BY <3>2, <3>3, <3>4
  <2>2. QED BY <2>1
<1>5. QED BY <1>1, <1>2, <1>3, <1>4

(* An edit changes the container at paths of which there is a notice after it, queued
   or lost, and nowhere else. *)
LEMMA EditNoted ==
  ASSUME TypeOK, WellKept(live), Edit
  PROVE  /\ WellKept(live') /\ Noted \subseteq Noted'
         /\ \A q \in Paths : live'[q] # live[q] => q \in Noted'
         /\ UNCHANGED <<image, changed, removed, meta, store, batch, retry, writer, phase>>
         /\ phase = "ready"
<1>0. live \in Trees /\ image \in Images /\ dirty \in Seq(Paths)
  BY DEF TypeOK
<1>1. PICK p \in Paths :
        \/ \E c \in Contents : WriteFile(p, c)
        \/ TouchFile(p) \/ PutBack(p) \/ MakeDir(p) \/ Delete(p) \/ MoveAway(p)
  BY <1>1, Zenon DEF Edit
<1>2. ASSUME NEW silent, Announced(p, silent)
      PROVE  Noted \cup {p} \cup silent \subseteq Noted'
  BY <1>0, <1>2, QueueHolds DEF Announced, Noted
<1>3. ASSUME NEW e \in Entries, Changes(p, e), e # Nothing => Reachable(p), e # Directory => Empty(p)
      PROVE  WellKept(live') /\ Noted \subseteq Noted'
             /\ \A q \in Paths : live'[q] # live[q] => q \in Noted'
  <2>1. Noted \cup {p} \subseteq Noted'
    BY <1>2, <1>3 DEF Changes
  <2>2. \A q \in Paths : q # p => live'[q] = live[q]
    BY <1>0, <1>3 DEF Changes, Put, Empty
  <2>3. WellKept(Put(live, p, e))
    BY <1>0, <1>3, KeptTrees DEF Reachable
  <2>4. QED BY <1>3, <2>1, <2>2, <2>3 DEF Changes
<1>4. ASSUME MoveAway(p)
      PROVE  WellKept(live') /\ Noted \subseteq Noted'
             /\ \A q \in Paths : live'[q] # live[q] => q \in Noted'
  <2>1. PICK gone : gone = {q \in Below(p) : live[q] # Nothing}
    OBVIOUS
  <2>2. Announced(p, gone) /\ live' = Without(live, p)
    BY <1>4, <2>1 DEF MoveAway
  <2>3. WellKept(live')
    BY <1>0, <2>2, KeptTrees
  <2>4. \A q \in Paths : live'[q] # live[q] => q \in {p} \cup gone
    BY <1>0, <2>1, <2>2 DEF Without, AtOrBelow
  <2>5. QED BY <1>2, <2>2, <2>3, <2>4
<1>5. live[p] # Directory => Empty(p)
  BY AboveBelow DEF WellKept, Empty
<1>6. ASSUME NEW c \in Contents, WriteFile(p, c) PROVE \E e \in Entries :
        Changes(p, e) /\ (e # Nothing => Reachable(p)) /\ (e # Directory => Empty(p))
  <2>1. File(c, c) \in Entries
    BY EntryKinds DEF Stamps
  <2>2. QED BY <1>5, <1>6, <2>1 DEF WriteFile
<1>7. ASSUME TouchFile(p) PROVE \E e \in Entries :
        Changes(p, e) /\ (e # Nothing => Reachable(p)) /\ (e # Directory => Empty(p))
  <2>1. live[p] \in Entries /\ live[p].kind = "file"
    BY <1>0, <1>7 DEF TouchFile, Trees
  <2>2. File(live[p].content, "touched") \in Entries
    BY <2>1, EntryKinds DEF Stamps
  <2>3. live[p] # Directory /\ Reachable(p)
    BY <2>1, EntryKinds DEF WellKept, Reachable
  <2>4. QED BY <1>5, <1>7, <2>2, <2>3 DEF TouchFile
<1>8. ASSUME PutBack(p) PROVE \E e \in Entries :
        Changes(p, e) /\ (e # Nothing => Reachable(p)) /\ (e # Directory => Empty(p))
  <2>1. base[p] \in Entries
    BY <1>0, BaseKinds DEF base
  <2>2. QED BY <1>5, <1>8, <2>1 DEF PutBack
<1>9. ASSUME MakeDir(p) PROVE \E e \in Entries :
        Changes(p, e) /\ (e # Nothing => Reachable(p)) /\ (e # Directory => Empty(p))
  BY <1>9, EntryKinds DEF MakeDir
<1>10. ASSUME Delete(p) PROVE \E e \in Entries :
        Changes(p, e) /\ (e # Nothing => Reachable(p)) /\ (e # Directory => Empty(p))
  BY <1>10, EntryKinds DEF Delete
<1>11. /\ UNCHANGED <<image, changed, removed, meta, store, batch, retry, writer, phase>>
       /\ phase = "ready"
  BY <1>1, Zenon DEF WriteFile, TouchFile, PutBack, MakeDir, Delete, MoveAway, Changes, volume
<1>12. QED BY <1>1, <1>3, <1>4, <1>6, <1>7, <1>8, <1>9, <1>10, <1>11

(* LeftInv is kept where only the container changes and the queue, and there is a
   notice of each change. *)
LEMMA LeftNoticed ==
  ASSUME TypeOK, LeftInv, WellKept(live'), Noted \subseteq Noted',
         UNCHANGED <<image, changed, removed, meta, store, batch, retry, writer, phase>>,
         \A q \in Paths : live'[q] # live[q] => q \in Noted',
         phase = "ready" \/ UNCHANGED live
  PROVE  LeftInv'
<1>0. /\ base' = base /\ Owing \subseteq Owing'
      /\ writer # Idle => writer.path \in Paths /\ Below(writer.path) \subseteq Paths
                          /\ Above[writer.path] \subseteq Paths
  BY AboveBelow DEF TypeOK, base, Owing
<1>1. WriterSees'
  <2> SUFFICES ASSUME writer # Idle PROVE WriterSees'
    BY DEF WriterSees
  <2>1. PICK p : p = writer.path
    OBVIOUS
  <2>2. \A q \in Paths : q \notin Noted' => q \notin Noted /\ live'[q] = live[q]
    OBVIOUS
  <2>3. p \in Paths /\ Below(p) \subseteq Paths /\ Above[p] \subseteq Paths
    BY <1>0, <2>1
  <2>4. QED BY <1>0, <2>1, <2>2, <2>3 DEF LeftInv, WriterSees
<1>2. RecordsWait'
  BY DEF LeftInv, RecordsWait
<1>3. UpToDate'
  <2>1. ASSUME NEW q \in Paths \ Owing' PROVE q \notin Owing /\ live'[q] = live[q]
    BY <1>0 DEF Owing
  <2>2. ASSUME NEW q PROVE Unmarked(q)' <=> Unmarked(q)
    BY DEF Unmarked
  <2>3. QED BY <1>0, <2>1, <2>2 DEF LeftInv, UpToDate
<1>4. ReplayComes'
  BY DEF LeftInv, ReplayComes, Unmarked
<1>5. WellKept(live)' /\ WellKept(changed)'
  BY DEF LeftInv, WellKept
<1>6. QED BY <1>1, <1>2, <1>3, <1>4, <1>5 DEF LeftInv

(* LeftInv is kept where the writer stays or becomes idle and what is no longer owed
   is not as the image has it. *)
LEMMA LeftIdle ==
  ASSUME TypeOK, LeftInv, UNCHANGED <<image, live, changed, removed, phase>>, writer' = Idle,
         phase = "ready" \/ UNCHANGED <<meta, store>>,
         \A q \in Paths : q \notin Owing' /\ live[q] = base[q] =>
           q \notin Owing /\ (live[q] # Nothing => store'[q] = store[q]),
         RecordsWait'
  PROVE  LeftInv'
<1>1. WriterSees'
  BY DEF WriterSees
<1>2. UpToDate'
  <2>1. ASSUME NEW q PROVE Unmarked(q)' <=> Unmarked(q)
    BY DEF Unmarked
  <2>2. base' = base
    BY DEF base
  <2>3. \A q \in Paths : base[q].kind = "file" => base[q] # Nothing
    BY EntryKinds
  <2>4. QED BY <2>1, <2>2, <2>3 DEF LeftInv, UpToDate
<1>3. ReplayComes'
  BY DEF LeftInv, ReplayComes, Unmarked
<1>4. WellKept(live)' /\ WellKept(changed)'
  BY DEF LeftInv, WellKept
<1>5. QED BY <1>1, <1>2, <1>3, <1>4 DEF LeftInv

(* LeftInv is kept when the writer takes a path. *)
LEMMA LeftTakes == ASSUME TypeOK, LeftInv, Takes PROVE LeftInv'
<1>1. PICK p : p = Head(dirty)
  OBVIOUS
<1>2. /\ writer = Idle /\ UNCHANGED <<image, live, changed, removed, meta, store, retry, phase>>
      /\ base' = base /\ batch' = batch \cup {p} /\ missed' = missed \ {p}
      /\ dirty # <<>> /\ dirty' = Tail(dirty)
  BY <1>1 DEF Takes, volume, base
<1>3. p \in Paths /\ Noted \subseteq Noted' \cup {p} /\ Noted' \subseteq Noted
  BY <1>1, <1>2, QueueStays, QueueHolds DEF TypeOK, Noted
<1>4. RecordsWait'
  BY <1>2, <1>3 DEF LeftInv, RecordsWait
<1>5. CASE writer' = Idle
  <2>1. FirstStep(p) = "copy"
    <3>1. writer' = [step |-> FirstStep(p), path |-> p, was |-> live[p], got |-> NoContent]
            => FirstStep(p) = "idle"
      BY <1>5 DEF Idle
    <3>2. FirstStep(p) # "idle"
      BY DEF FirstStep
    <3>3. QED BY <1>1, <3>1, <3>2 DEF Takes
  <2>2. live[p] # base[p]
    BY <2>1 DEF FirstStep, SameContent
  <2>3. \A q \in Paths : q \notin Owing' /\ live[q] = base[q] => q \notin Owing
    BY <1>2, <1>3, <1>5, <2>2 DEF Owing
  <2>4. QED BY <1>2, <1>4, <1>5, <2>3, LeftIdle
<1>6. CASE writer' = [step |-> FirstStep(p), path |-> p, was |-> live[p], got |-> NoContent]
  <2>1. writer'.path = p /\ writer'.was = live[p] /\ writer'.step = FirstStep(p)
    BY <1>6
  <2>2. /\ FirstStep(p) \in {"untree", "unentry", "copy"}
        /\ FirstStep(p) = "untree" => live[p] = Nothing
        /\ FirstStep(p) = "copy" => live[p] # Nothing /\ ~SameContent(live[p], base[p])
    BY DEF FirstStep
  <2>3. live[p] # Directory => \A q \in Below(p) : live[q] = Nothing
    BY <1>3, AboveBelow DEF LeftInv, WellKept
  <2>4. live[p] # Nothing => \A q \in Above[p] : live[q] = Directory
    BY <1>3 DEF LeftInv, WellKept
  <2>5. WriterSees'
    BY <1>2, <2>1, <2>2, <2>3, <2>4 DEF WriterSees
  <2>6. UpToDate'
    <3>1. writer' # Idle
      BY <2>1, <2>2 DEF Idle
    <3>2. Owing \subseteq Owing'
      BY <1>2, <1>3, <2>1, <3>1 DEF Owing
    <3>3. ASSUME NEW q PROVE Unmarked(q)' <=> Unmarked(q)
      BY <1>2 DEF Unmarked
    <3>4. QED BY <1>2, <3>2, <3>3 DEF LeftInv, UpToDate
  <2>7. ReplayComes'
    BY <1>2 DEF LeftInv, ReplayComes, Unmarked
  <2>8. WellKept(live)' /\ WellKept(changed)'
    BY <1>2 DEF LeftInv, WellKept
  <2>9. QED BY <1>4, <2>5, <2>6, <2>7, <2>8 DEF LeftInv
<1>7. QED BY <1>1, <1>5, <1>6 DEF Takes

(* LeftInv is kept by the steps between two paths, and by those that give one up. *)
LEMMA LeftBetween ==
  ASSUME TypeOK, LeftInv, QuietReplay,
         \/ \E p \in Paths : Requeues(p)
         \/ FlushSucceeds \/ FlushFails \/ LoadFails \/ UpdateFails \/ Unstable \/ DaemonDies
  PROVE  LeftInv'
<1>0. /\ dirty \in Seq(Paths) /\ phase = "ready" /\ writer' = Idle /\ base' = base
      /\ UNCHANGED <<image, live, changed, removed, phase>>
      /\ writer # Idle => writer.path \in Paths
      /\ \A q \in Paths : base[q].kind = "file" => base[q] # Nothing
  <2>1. daemon /\ writer' = Idle /\ UNCHANGED <<image, live, changed, removed, phase>>
    BY Zenon DEF Requeues, FlushSucceeds, FlushFails, LoadFails, UpdateFails, Unstable,
       DaemonDies, DaemonIsGone, At, volume
  <2>2. QED BY <2>1, EntryKinds DEF TypeOK, QuietReplay, base
<1>1. ASSUME NEW p \in Paths, Requeues(p) PROVE LeftInv'
  <2>1. /\ writer = Idle /\ batch = {} /\ retry' = retry \ {p}
        /\ UNCHANGED <<meta, store, batch>>
    BY <1>1 DEF Requeues, volume
  <2>2. Noted' = Noted \cup {p}
    BY <1>0, <1>1, QueueHolds DEF Requeues, Noted
  <2>3. RecordsWait'
    BY <1>0, <2>1, <2>2 DEF LeftInv, RecordsWait
  <2>4. \A q \in Paths : q \notin Owing' => q \notin Owing
    BY <1>0, <2>1, <2>2 DEF Owing
  <2>5. QED BY <1>0, <2>1, <2>3, <2>4, LeftIdle
<1>2. CASE FlushSucceeds
  <2>1. /\ writer = Idle /\ meta' = store /\ UNCHANGED <<store, dirty, missed, retry>>
    BY <1>2 DEF FlushSucceeds, history
  <2>2. RecordsWait'
    BY <2>1 DEF RecordsWait
  <2>3. UNCHANGED Owing
    BY <1>0, <2>1 DEF Owing, Noted, Queued
  <2>4. QED BY <1>0, <2>1, <2>2, <2>3, LeftIdle
<1>3. CASE FlushFails
  <2>1. /\ writer = Idle /\ store' = meta /\ retry' = retry \cup batch
        /\ UNCHANGED <<meta, dirty, missed>>
    BY <1>3 DEF FlushFails, history, volume
  <2>2. RecordsWait'
    BY <2>1 DEF RecordsWait
  <2>3. Owing' = Owing \cup batch
    BY <1>0, <2>1 DEF Owing, Noted, Queued
  <2>4. ASSUME NEW q \in Paths, q \notin Owing', live[q] # Nothing PROVE store'[q] = store[q]
    BY <2>1, <2>3, <2>4 DEF LeftInv, RecordsWait, Owing
  <2>5. QED BY <1>0, <2>2, <2>3, <2>4, LeftIdle
<1>4. CASE LoadFails
  <2>1. /\ writer = Idle /\ dirty # <<>> /\ retry = {} /\ retry' = {Head(dirty)}
        /\ dirty' = Tail(dirty) /\ UNCHANGED <<meta, store, batch, missed>>
    BY <1>4 DEF LoadFails, history, volume
  <2>2. Noted = Noted' \cup retry'
    BY <1>0, <2>1, QueueHolds DEF Noted
  <2>3. RecordsWait'
    BY <1>0, <2>1, <2>2 DEF LeftInv, RecordsWait
  <2>4. Owing' = Owing
    BY <1>0, <2>1, <2>2 DEF Owing
  <2>5. QED BY <1>0, <2>1, <2>3, <2>4, LeftIdle
<1>5. CASE UpdateFails \/ Unstable
  <2>1. /\ UNCHANGED <<meta, store, batch, dirty>> /\ writer # Idle
        /\ \/ UNCHANGED retry /\ missed' = missed \cup {writer.path}
           \/ UNCHANGED missed /\ retry' = retry \cup {writer.path}
    BY <1>5 DEF UpdateFails, Unstable, At, history, queues, volume, Idle
  <2>2. Noted \cup retry \subseteq Noted' \cup retry' /\ Owing' = Owing
    BY <1>0, <2>1 DEF Owing, Noted, Queued
  <2>3. RecordsWait'
    BY <1>0, <2>1, <2>2 DEF LeftInv, RecordsWait
  <2>4. QED BY <1>0, <2>1, <2>2, <2>3, LeftIdle
<1>6. CASE DaemonDies
  <2>1. store' = meta /\ UNCHANGED meta /\ missed' = missed \cup Pending
    BY <1>6 DEF DaemonDies, DaemonIsGone, volume
  <2>2. RecordsWait'
    BY <2>1 DEF RecordsWait
  <2>3. Owing \cup batch \subseteq Owing'
    BY <2>1 DEF Owing, Noted, Pending
  <2>4. ASSUME NEW q \in Paths, q \notin Owing', live[q] # Nothing PROVE store'[q] = store[q]
    BY <2>1, <2>3, <2>4 DEF LeftInv, RecordsWait, Owing
  <2>5. QED BY <1>0, <2>2, <2>3, <2>4, LeftIdle
<1>7. QED BY <1>1, <1>2, <1>3, <1>4, <1>5, <1>6

(* What every step that only works on the stores leaves alone *)
LEMMA StoresStep ==
  ASSUME TypeOK, StoresOnly, writer # Idle
  PROVE  /\ UNCHANGED <<image, live, dirty, batch, retry, missed, phase, base, Noted>>
         /\ writer.path \in Paths /\ writer.was \in Entries
  BY DEF TypeOK, StoresOnly, queues, history, base, Noted, Queued

(* LeftInv is kept by a step on the stores after which every path that is not owed,
   and none of whose notices is, is up to date. *)
LEMMA LeftStores ==
  ASSUME TypeOK, LeftInv, UNCHANGED <<image, live, phase>>, phase = "ready",
         WriterSees', RecordsWait', WellKept(changed'),
         \A q \in Paths \ Owing' : live[q] = base[q] =>
           /\ changed'[q].kind = "file" => changed'[q] = base[q]
           /\ base[q].kind = "file" => /\ store'[q] = "none"
                                       /\ Unmarked(q)' \/ changed'[q] = base[q]
  PROVE  LeftInv'
<1>1. UpToDate'
  BY DEF UpToDate, base
<1>2. ReplayComes'
  BY DEF ReplayComes
<1>3. WellKept(live)' /\ WellKept(changed)'
  BY DEF LeftInv, WellKept
<1>4. QED BY <1>1, <1>2, <1>3 DEF LeftInv

(* LeftInv is kept when the writer removes a copy, of an entry that is gone or is the
   image's again. *)
LEMMA LeftRemoves ==
  ASSUME TypeOK, LeftInv, QuietReplay, RemoveTree \/ RemoveEntry
  PROVE  LeftInv'
<1>1. PICK p : p = writer.path
  OBVIOUS
<1>2. /\ writer # Idle /\ writer.step \in {"untree", "unentry"} /\ phase = "ready" /\ p \in Paths
      /\ UNCHANGED <<image, live, dirty, batch, retry, missed, phase, base, Noted>>
      /\ UNCHANGED <<removed, meta, store>> /\ p \in batch
      /\ p \notin Noted => live[p] = writer.was
  <2>1. writer # Idle /\ writer.step \in {"untree", "unentry"} /\ daemon /\ StoresOnly
        /\ UNCHANGED <<removed, meta, store>>
    BY DEF RemoveTree, RemoveEntry, At, Idle
  <2>2. QED BY <1>1, <2>1, StoresStep DEF QuietReplay, LeftInv, WriterSees
<1>3. /\ writer' # Idle /\ writer'.path = p /\ writer'.was = writer.was
      /\ writer'.step \in {"mark", "unmark"}
      /\ writer'.step = "mark" => writer.step = "untree" /\ base[p] # Nothing
  BY <1>1, <1>2 DEF RemoveTree, RemoveEntry, GoesTo, At, TypeOK, Idle
<1>4. Owing' = Owing /\ p \in Owing
  BY <1>1, <1>2, <1>3 DEF Owing
<1>5. changed \in Trees /\ Scaffold(changed, p) \in Trees /\ WellKept(Scaffold(changed, p))
  BY <1>2, TreesStay, KeptTrees, EntryKinds DEF TypeOK, LeftInv
<1>6. WellKept(changed')
  <2>1. WellKept(changed) /\ WellKept(Without(Scaffold(changed, p), p))
        /\ WellKept(Put(Scaffold(changed, p), p, Nothing))
    BY <1>2, <1>5, KeptTrees DEF LeftInv
  <2>2. changed' \in {changed, Scaffold(changed, p), Without(Scaffold(changed, p), p),
                      Put(Scaffold(changed, p), p, Nothing)}
    BY <1>1 DEF RemoveTree, RemoveEntry
  <2>3. QED BY <1>5, <2>1, <2>2
<1>7. Blocked(changed, p) => changed[p] = Nothing
  BY <1>2, EntryKinds DEF Blocked, LeftInv, WellKept
<1>8. changed'[p].kind # "file"
  <2>1. CASE Blocked(changed, p)
    BY <1>1, <1>7, <2>1, EntryKinds DEF RemoveTree, RemoveEntry
  <2>2. CASE ~Blocked(changed, p) /\ RemoveTree
    BY <1>1, <1>2, <2>2, EntryKinds DEF RemoveTree, Without, AtOrBelow
  <2>3. CASE ~Blocked(changed, p) /\ RemoveEntry
    <3>1. CASE \E q \in Below(p) : changed[q] # Nothing
      <4>1. changed[p] = Directory
        BY <1>2, <3>1, AboveBelow DEF LeftInv, WellKept
      <4>2. changed'[p] = Directory
        BY <1>1, <1>2, <2>3, <3>1, <4>1 DEF RemoveEntry, Scaffold
      <4>3. QED BY <4>2, EntryKinds
    <3>2. CASE ~\E q \in Below(p) : changed[q] # Nothing
      BY <1>1, <1>2, <2>3, <3>2, EntryKinds DEF RemoveEntry, Put
    <3>3. QED BY <3>1, <3>2
  <2>4. QED BY <2>1, <2>2, <2>3
<1>9. WriterSees'
  BY <1>1, <1>2, <1>3, <1>8 DEF LeftInv, WriterSees
<1>10. RecordsWait'
  BY <1>2 DEF LeftInv, RecordsWait
<1>11. ASSUME NEW q \in Paths \ Owing', live[q] = base[q]
       PROVE  \/ changed'[q] = changed[q]
              \/ changed'[q].kind # "file" /\ changed[q].kind # "file"
              \/ changed'[q].kind # "file" /\ base[q].kind # "file"
  <2>1. q # p
    BY <1>4, <1>11
  <2>2. CASE changed' = changed
    BY <2>2
  <2>3. CASE ~Blocked(changed, p) /\ q \notin AtOrBelow(p)
    <3>1. changed'[q] \in {changed[q], Scaffold(changed, p)[q]}
      BY <1>1, <2>1, <2>3 DEF RemoveTree, RemoveEntry, Without, Put, AtOrBelow
    <3>2. QED BY <2>3, <3>1, EntryKinds DEF Scaffold, Blocked
  <2>4. CASE RemoveTree /\ ~Blocked(changed, p) /\ q \in Below(p)
    <3>1. changed'[q] = Nothing
      BY <1>1, <2>4 DEF RemoveTree, Without, AtOrBelow
    <3>2. writer.was = Nothing
      BY <1>2, <2>4 DEF LeftInv, WriterSees, RemoveTree, At
    <3>3. live[q] = Nothing
      BY <1>1, <1>2, <1>4, <1>11, <2>4, <3>2, EntryKinds DEF LeftInv, WriterSees, Owing
    <3>4. QED BY <1>11, <3>1, <3>3, EntryKinds
  <2>5. CASE RemoveEntry /\ ~Blocked(changed, p) /\ q \in Below(p)
    <3>1. Scaffold(changed, p)[q] = changed[q]
      BY <1>2, <2>5, AboveBelow DEF Scaffold
    <3>2. \/ changed' = Scaffold(changed, p)
          \/ changed[q] = Nothing /\ changed' = Put(Scaffold(changed, p), p, Nothing)
      BY <1>1, <2>5 DEF RemoveEntry
    <3>3. QED BY <1>11, <3>1, <3>2, EntryKinds DEF Put
  <2>6. QED BY <1>1, <2>1, <2>2, <2>3, <2>4, <2>5 DEF RemoveTree, RemoveEntry, AtOrBelow
<1>12. ASSUME NEW q \in Paths \ Owing', live[q] = base[q]
       PROVE  /\ changed'[q].kind = "file" => changed'[q] = base[q]
              /\ base[q].kind = "file" => /\ store'[q] = "none"
                                          /\ Unmarked(q)' \/ changed'[q] = base[q]
  <2>1. /\ changed[q].kind = "file" => changed[q] = base[q]
        /\ base[q].kind = "file" => store[q] = "none" /\ (Unmarked(q) \/ changed[q] = base[q])
    BY <1>2, <1>4, <1>12 DEF LeftInv, UpToDate
  <2>2. Unmarked(q)' <=> Unmarked(q)
    BY <1>2 DEF Unmarked
  <2>3. QED BY <1>2, <1>11, <1>12, <2>1, <2>2
<1>13. QED BY <1>2, <1>6, <1>9, <1>10, <1>12, LeftStores

(* LeftInv is kept when the writer marks a path. *)
LEMMA LeftMarks == ASSUME TypeOK, LeftInv, QuietReplay, WriteMarker PROVE LeftInv'
<1>1. PICK p : p = writer.path
  OBVIOUS
<1>2. /\ writer # Idle /\ writer.step = "mark" /\ phase = "ready" /\ p \in Paths
      /\ UNCHANGED <<image, live, dirty, batch, retry, missed, phase, base, Noted>>
      /\ UNCHANGED <<changed, meta>> /\ p \in batch /\ writer' = Idle
      /\ removed' = Marked(p) /\ store' = Forgotten(p)
  <2>1. writer # Idle /\ writer.step = "mark" /\ daemon /\ StoresOnly
    BY DEF WriteMarker, At, Idle
  <2>2. QED BY <1>1, <2>1, StoresStep DEF WriteMarker, QuietReplay, LeftInv, WriterSees
<1>3. /\ p \notin Noted => live[p] = Nothing
      /\ \A q \in Below(p) : live[q] = Nothing \/ q \in Noted
      /\ base[p] # Nothing
  BY <1>1, <1>2, EntryKinds DEF LeftInv, WriterSees
<1>4. WriterSees'
  BY <1>2 DEF WriterSees
<1>5. RecordsWait'
  BY <1>2, <1>3 DEF LeftInv, RecordsWait, Forgotten, AtOrBelow
<1>6. ASSUME NEW q \in Paths \ Owing', live[q] = base[q]
      PROVE  /\ changed'[q].kind = "file" => changed'[q] = base[q]
             /\ base[q].kind = "file" => /\ store'[q] = "none"
                                         /\ Unmarked(q)' \/ changed'[q] = base[q]
  <2>1. q \notin Noted \cup retry /\ q # p
    BY <1>2, <1>3, <1>6 DEF Owing
  <2>2. q \notin Owing
    BY <1>1, <2>1 DEF Owing
  <2>3. /\ changed[q].kind = "file" => changed[q] = base[q]
        /\ base[q].kind = "file" => store[q] = "none" /\ (Unmarked(q) \/ changed[q] = base[q])
    BY <1>2, <1>6, <2>2 DEF LeftInv, UpToDate
  <2>4. base[q].kind = "file" => q \notin Below(p)
    BY <1>3, <1>6, <2>1, EntryKinds
  <2>5. base[q].kind = "file" /\ Unmarked(q) => Unmarked(q)'
    BY <1>2, <2>1, <2>4 DEF Unmarked, Marked, Below
  <2>6. QED BY <1>2, <2>3, <2>5 DEF Forgotten
<1>7. WellKept(changed')
  BY <1>2 DEF LeftInv
<1>8. QED BY <1>2, <1>4, <1>5, <1>6, <1>7, LeftStores

(* LeftInv is kept when the writer makes room for a copy. *)
LEMMA LeftPrepares == ASSUME TypeOK, LeftInv, QuietReplay, PrepareCopy PROVE LeftInv'
<1>1. PICK p : p = writer.path
  OBVIOUS
<1>2. /\ writer # Idle /\ writer.step = "copy" /\ phase = "ready" /\ p \in Paths
      /\ UNCHANGED <<image, live, dirty, batch, retry, phase, base, removed, meta, store>>
      /\ p \in batch /\ live[p] \in Entries /\ missed \subseteq missed' /\ Noted \subseteq Noted'
      /\ changed' = IF live[p] = Directory THEN Put(Scaffold(changed, p), p, Directory)
                                           ELSE Scaffold(changed, p)
  <2>1. /\ writer # Idle /\ writer.step = "copy" /\ daemon /\ missed \subseteq missed'
        /\ UNCHANGED <<image, live, dirty, batch, retry, phase, removed, meta, store>>
    BY DEF PrepareCopy, At, Idle, queues
  <2>2. p \in Paths /\ live[p] \in Entries
    BY <1>1, <2>1 DEF TypeOK, Trees
  <2>3. Noted \subseteq Noted' /\ UNCHANGED base
    BY <2>1 DEF Noted, Queued, base
  <2>4. QED BY <1>1, <2>1, <2>2, <2>3 DEF PrepareCopy, QuietReplay, LeftInv, WriterSees
<1>3. \/ /\ writer' = Idle /\ p \in Noted'
      \/ /\ live[p] # Nothing /\ writer' # Idle /\ UNCHANGED Noted
         /\ writer'.path = p /\ writer'.was = live[p]
         /\ writer'.step = IF live[p] = Directory THEN "unmark" ELSE "read"
  <2>1. CASE live[p] = Nothing
    <3>1. writer' = Idle /\ missed' = missed \cup {p}
      BY <1>1, <2>1 DEF PrepareCopy
    <3>2. QED BY <3>1 DEF Noted
  <2>2. CASE live[p] # Nothing
    <3>1. /\ writer' = [writer EXCEPT !.step = IF live[p] = Directory THEN "unmark" ELSE "read",
                                      !.was = live[p]]
          /\ UNCHANGED missed
      BY <1>1, <2>2, Zenon DEF PrepareCopy
    <3>2. UNCHANGED Noted
      BY <1>2, <3>1 DEF Noted, Queued
    <3>3. QED BY <1>1, <1>2, <2>2, <3>1, <3>2 DEF TypeOK, Idle
  <2>3. QED BY <2>1, <2>2
<1>4. Owing \subseteq Owing' /\ p \in Owing'
  BY <1>1, <1>2, <1>3 DEF Owing
<1>5. /\ WellKept(changed') /\ \A q \in Above[p] : changed'[q] = Directory
      /\ live[p] = Directory => changed'[p] = Directory
  <2>1. Scaffold(changed, p) \in Trees /\ WellKept(Scaffold(changed, p))
    BY <1>2, TreesStay, KeptTrees, EntryKinds DEF TypeOK, LeftInv
  <2>2. \A q \in Above[p] : q \in Paths /\ q # p /\ Scaffold(changed, p)[q] = Directory
    BY <1>2, AboveBelow DEF Scaffold
  <2>3. WellKept(Put(Scaffold(changed, p), p, Directory))
    BY <1>2, <2>1, <2>2, KeptTrees, EntryKinds
  <2>4. QED BY <1>2, <2>1, <2>2, <2>3 DEF Put
<1>6. WriterSees'
  <2>1. CASE writer' = Idle
    BY <2>1 DEF WriterSees
  <2>2. CASE writer' # Idle
    <3>1. live[p] # Directory => \A q \in Below(p) : live[q] = Nothing
      BY <1>2, AboveBelow DEF LeftInv, WellKept
    <3>2. p \notin Noted => ~SameContent(live[p], base[p])
      BY <1>1, <1>2 DEF LeftInv, WriterSees
    <3>3. changed'[p].kind = "file" => live[p] # Directory
      BY <1>5, EntryKinds
    <3>4. QED BY <1>2, <1>3, <1>5, <2>2, <3>1, <3>2, <3>3 DEF WriterSees
  <2>3. QED BY <2>1, <2>2
<1>7. RecordsWait'
  BY <1>2 DEF LeftInv, RecordsWait
<1>8. ASSUME NEW q \in Paths \ Owing', live[q] = base[q]
      PROVE  /\ changed'[q].kind = "file" => changed'[q] = base[q]
             /\ base[q].kind = "file" => /\ store'[q] = "none"
                                         /\ Unmarked(q)' \/ changed'[q] = base[q]
  <2>1. /\ changed[q].kind = "file" => changed[q] = base[q]
        /\ base[q].kind = "file" => store[q] = "none" /\ (Unmarked(q) \/ changed[q] = base[q])
    BY <1>2, <1>4, <1>8 DEF LeftInv, UpToDate
  <2>2. Unmarked(q)' <=> Unmarked(q)
    BY <1>2 DEF Unmarked
  <2>3. CASE q \in Above[p]
    <3>1. q \notin Noted
      BY <1>4, <1>8 DEF Owing
    <3>2. live[q] = Directory
      BY <1>1, <1>2, <2>3, <3>1 DEF LeftInv, WriterSees
    <3>3. QED BY <1>5, <1>8, <2>3, <3>2, EntryKinds
  <2>4. CASE q \notin Above[p]
    <3>1. changed'[q] = changed[q]
      BY <1>2, <1>4, <1>8, <2>4 DEF Scaffold, Put
    <3>2. QED BY <1>2, <2>1, <2>2, <3>1
  <2>5. QED BY <2>3, <2>4
<1>9. QED BY <1>2, <1>5, <1>6, <1>7, <1>8, LeftStores

(* LeftInv is kept when the writer reads a file, or finds none. *)
LEMMA LeftReads == ASSUME TypeOK, LeftInv, QuietReplay, ReadFile PROVE LeftInv'
<1>1. /\ writer # Idle /\ writer.step = "read" /\ phase = "ready" /\ writer.path \in Paths
      /\ UNCHANGED <<image, live, dirty, batch, retry, phase, changed, removed, meta, store>>
  BY DEF ReadFile, At, TypeOK, Idle, volume, queues, QuietReplay
<1>2. UNCHANGED base
  BY <1>1 DEF base
<1>3. CASE writer' = Idle /\ missed' = missed \cup {writer.path}
  <2>1. Noted \subseteq Noted' /\ Owing' = Owing
    BY <1>1, <1>3 DEF Owing, Noted, Queued
  <2>2. RecordsWait'
    BY <1>1, <2>1 DEF LeftInv, RecordsWait
  <2>3. QED BY <1>1, <1>3, <2>1, <2>2, LeftIdle
<1>4. CASE /\ writer' = [writer EXCEPT !.step = "publish", !.got = live[writer.path].content]
           /\ UNCHANGED missed
  <2>1. /\ writer'.path = writer.path /\ writer'.was = writer.was /\ writer'.step = "publish"
        /\ writer' # Idle
    BY <1>1, <1>4 DEF TypeOK, Idle
  <2>2. UNCHANGED Noted /\ Owing' = Owing
    BY <1>1, <1>4, <2>1 DEF Owing, Noted, Queued
  <2>3. WriterSees'
    BY <1>1, <1>2, <2>1, <2>2 DEF LeftInv, WriterSees
  <2>4. RecordsWait' /\ WellKept(changed')
    BY <1>1, <2>2 DEF LeftInv, RecordsWait
  <2>5. ASSUME NEW q PROVE Unmarked(q)' <=> Unmarked(q)
    BY <1>1 DEF Unmarked
  <2>6. QED BY <1>1, <2>2, <2>3, <2>4, <2>5, LeftStores DEF LeftInv, UpToDate
<1>5. QED BY <1>3, <1>4 DEF ReadFile

(* LeftInv is kept when a copy appears, and when it gets its facts. *)
LEMMA LeftCopies ==
  ASSUME TypeOK, CarriesAFile, LeftInv, QuietReplay, Publish \/ Dress
  PROVE  LeftInv'
<1>1. PICK p, e : /\ p = writer.path /\ e \in Entries /\ e.kind = "file"
                  /\ changed' = Put(changed, p, e)
  <2>1. /\ writer # Idle /\ writer.was \in Entries /\ writer.was.kind = "file"
        /\ writer.got = writer.was.content
    BY DEF Publish, Dress, At, IsStable, CarriesAFile, TypeOK, Idle
  <2>2. \A f \in {"raw", writer.was.facts} :
          File(writer.got, f) \in Entries /\ File(writer.got, f).kind = "file"
    BY <2>1, EntryKinds DEF Stamps
  <2>3. QED BY <2>2 DEF Publish, Dress
<1>2. /\ writer # Idle /\ writer.step \in {"publish", "dress"} /\ phase = "ready" /\ p \in Paths
      /\ UNCHANGED <<image, live, dirty, batch, retry, missed, phase, base, Noted>>
      /\ UNCHANGED <<removed, meta>> /\ p \in batch
      /\ writer.was # Directory /\ changed \in Trees
  <2>1. /\ writer # Idle /\ writer.step \in {"publish", "dress"} /\ daemon /\ StoresOnly
        /\ UNCHANGED <<removed, meta>>
    BY DEF Publish, Dress, At, Idle
  <2>2. writer.was # Directory
    BY <2>1, EntryKinds DEF CarriesAFile
  <2>3. QED BY <1>1, <2>1, <2>2, StoresStep DEF TypeOK, QuietReplay, LeftInv, WriterSees
<1>3. /\ writer' # Idle /\ writer'.path = p /\ writer'.was = writer.was
      /\ writer'.step \in {"dress", "unmark"} 
  BY <1>1, <1>2 DEF Publish, Dress, GoesTo, TypeOK, Idle
<1>4. Owing' = Owing /\ p \in Owing
  BY <1>1, <1>2, <1>3 DEF Owing
<1>5. /\ \A q \in Paths : q # p /\ q \notin Below(p) => changed'[q] = changed[q]
      /\ \A q \in Below(p) : changed'[q] = Nothing
      /\ \A q \in Above[p] : changed[q] = Directory /\ changed'[q] = Directory
  BY <1>1, <1>2, AboveBelow, EntryKinds DEF LeftInv, WriterSees, Put
<1>6. WellKept(changed')
  BY <1>1, <1>2, <1>5, KeptTrees DEF LeftInv
<1>7. WriterSees'
  BY <1>1, <1>2, <1>3, <1>5 DEF LeftInv, WriterSees, SameContent
<1>8. \A q \in Paths : q # p => store'[q] = store[q]
  BY <1>1 DEF Publish, Dress, TypeOK
<1>9. RecordsWait'
  BY <1>2, <1>8 DEF LeftInv, RecordsWait
<1>10. ASSUME NEW q \in Paths \ Owing', live[q] = base[q]
       PROVE  /\ changed'[q].kind = "file" => changed'[q] = base[q]
              /\ base[q].kind = "file" => /\ store'[q] = "none"
                                          /\ Unmarked(q)' \/ changed'[q] = base[q]
  <2>1. /\ changed[q].kind = "file" => changed[q] = base[q]
        /\ base[q].kind = "file" => store[q] = "none" /\ (Unmarked(q) \/ changed[q] = base[q])
    BY <1>2, <1>4, <1>10 DEF LeftInv, UpToDate
  <2>2. Unmarked(q)' <=> Unmarked(q)
    BY <1>2 DEF Unmarked
  <2>3. q # p /\ q \notin Noted
    BY <1>4, <1>10 DEF Owing
  <2>4. CASE q \in Below(p)
    <3>1. live[q] = Nothing
      BY <1>1, <1>2, <2>3, <2>4 DEF LeftInv, WriterSees
    <3>2. QED BY <1>5, <1>10, <2>4, <3>1, EntryKinds
  <2>5. CASE q \notin Below(p)
    BY <1>5, <1>8, <2>1, <2>2, <2>3, <2>5
  <2>6. QED BY <2>4, <2>5
<1>11. QED BY <1>2, <1>6, <1>7, <1>9, <1>10, LeftStores

(* LeftInv is kept by the last step with a path. *)
LEMMA LeftUnmarks == ASSUME TypeOK, LeftInv, QuietReplay, RemoveMarker PROVE LeftInv'
<1>1. PICK p : p = writer.path
  OBVIOUS
<1>2. /\ writer # Idle /\ writer.step = "unmark" /\ phase = "ready" /\ p \in Paths
      /\ UNCHANGED <<image, live, dirty, batch, retry, phase, base, changed, meta>>
      /\ p \in batch /\ writer' = Idle
  <2>1. /\ writer # Idle /\ writer.step = "unmark" /\ daemon /\ writer' = Idle
        /\ UNCHANGED <<image, live, dirty, batch, retry, phase, changed, meta>>
    BY DEF RemoveMarker, At, Idle, queues
  <2>2. QED BY <1>1, <2>1 DEF TypeOK, QuietReplay, LeftInv, WriterSees, base
<1>3. CASE missed' = missed \cup {p} /\ UNCHANGED <<removed, store>>
  <2>1. Noted \subseteq Noted' /\ Owing' = Owing
    BY <1>1, <1>2, <1>3 DEF Owing, Noted, Queued
  <2>2. RecordsWait'
    BY <1>2, <1>3, <2>1 DEF LeftInv, RecordsWait
  <2>3. QED BY <1>2, <1>3, <2>1, <2>2, LeftIdle
<1>4. CASE /\ Above[p] \cap removed = {} /\ removed' = removed \ {p} /\ store' = Recorded(p)
           /\ UNCHANGED missed
  <2>1. UNCHANGED Noted /\ Owing \subseteq Owing' \cup {p}
    BY <1>1, <1>2, <1>4 DEF Owing, Noted, Queued
  <2>2. \A q \in Paths : q \notin AtOrBelow(p) => store'[q] = store[q]
    BY <1>4 DEF Recorded, Forgotten, AtOrBelow, TypeOK
  <2>3. \A q \in Below(p) : q \notin Noted /\ live[q] # Nothing => store'[q] = store[q]
    <3>1. CASE writer.was = Nothing
      BY <1>1, <1>2, <3>1, EntryKinds DEF LeftInv, WriterSees
    <3>2. CASE writer.was # Nothing
      BY <1>2, <1>4, <3>2, AboveBelow DEF Recorded, TypeOK
    <3>3. QED BY <3>1, <3>2
  <2>4. WriterSees'
    BY <1>2 DEF WriterSees
  <2>5. RecordsWait'
    BY <1>2, <2>1, <2>2, <2>3 DEF LeftInv, RecordsWait, AtOrBelow
  <2>6. ASSUME NEW q \in Paths \ Owing', live[q] = base[q]
        PROVE  /\ changed'[q].kind = "file" => changed'[q] = base[q]
               /\ base[q].kind = "file" => /\ store'[q] = "none"
                                           /\ Unmarked(q)' \/ changed'[q] = base[q]
    <3>1. q \notin Noted
      BY <2>1, <2>6 DEF Owing
    <3>2. CASE q = p
      <4>1. writer.was = base[p] /\ changed[p].kind # "file"
        BY <1>1, <1>2, <2>6, <3>1, <3>2 DEF LeftInv, WriterSees
      <4>2. base[p].kind = "file" => base[p].facts = "image" /\ base[p] # Nothing
        BY <1>2, BaseKinds, EntryKinds DEF TypeOK, base
      <4>3. base[p].kind = "file" => store'[p] = "none"
        BY <1>2, <1>4, <4>1, <4>2 DEF Recorded, TypeOK
      <4>4. Unmarked(p)'
        BY <1>4 DEF Unmarked
      <4>5. QED BY <1>2, <3>2, <4>1, <4>3, <4>4
    <3>3. CASE q # p
      <4>1. q \notin Owing
        BY <2>1, <2>6, <3>3
      <4>2. /\ changed[q].kind = "file" => changed[q] = base[q]
            /\ base[q].kind = "file" => store[q] = "none" /\ (Unmarked(q) \/ changed[q] = base[q])
        BY <1>2, <2>6, <4>1 DEF LeftInv, UpToDate
      <4>3. Unmarked(q) => Unmarked(q)'
        BY <1>4 DEF Unmarked
      <4>4. base[q].kind = "file" => store'[q] = store[q]
        BY <2>2, <2>3, <2>6, <3>1, <3>3, EntryKinds DEF AtOrBelow
      <4>5. QED BY <1>2, <4>2, <4>3, <4>4
    <3>4. QED BY <3>2, <3>3
  <2>7. WellKept(changed')
    BY <1>2 DEF LeftInv
  <2>8. QED BY <1>2, <2>4, <2>5, <2>6, <2>7, LeftStores
<1>5. QED BY <1>1, <1>3, <1>4 DEF RemoveMarker

(* LeftInv is kept when a container starts. *)
LEMMA LeftContainer ==
  ASSUME TypeOK, LeftInv, ContainerRestarts \/ \E i \in Images : ContainerIsCreated(i)
  PROVE  LeftInv'
<1>1. /\ writer' = Idle /\ store' = meta /\ phase' = "removing"
      /\ UNCHANGED <<changed, removed, meta>>
      /\ UNCHANGED live \/ \E i \in Images : live' = Base[i]
  BY DEF ContainerRestarts, ContainerIsCreated, DaemonIsGone, volume
<1>2. \A i \in Images : WellKept(Base[i])
  BY BaseAssumption DEF WellKept
<1>3. WellKept(live')
  BY <1>1, <1>2 DEF LeftInv
<1>4. WellKept(live)' /\ WellKept(changed)'
  BY <1>1, <1>3 DEF LeftInv, WellKept
<1>5. WriterSees' /\ RecordsWait' /\ UpToDate' /\ ReplayComes'
  BY <1>1 DEF WriterSees, RecordsWait, UpToDate, ReplayComes
<1>6. QED BY <1>4, <1>5 DEF LeftInv

(* LeftInv is kept by the first two steps of the replay. *)
LEMMA LeftReplays ==
  ASSUME TypeOK, LeftInv, QuietReplay, ApplyRemoved \/ ApplyChanged
  PROVE  LeftInv'
<1>1. /\ writer' = Idle /\ UNCHANGED <<image, changed, removed, meta, store>>
      /\ phase' \in {"changing", "describing"} /\ store = meta /\ phase # "ready"
      /\ live \in Trees /\ changed \in Trees
  BY DEF ApplyRemoved, ApplyChanged, ApplyStep, QuietReplay, LeftInv, ReplayComes, TypeOK
<1>2. WriterSees' /\ RecordsWait' /\ UpToDate'
  BY <1>1 DEF WriterSees, RecordsWait, UpToDate
<1>3. WellKept(changed)'
  BY <1>1 DEF LeftInv, WellKept
<1>4. CASE ApplyRemoved
  <2>1. /\ live' = [p \in Paths |-> IF Unmarked(p) THEN live[p] ELSE Nothing]
        /\ phase' = "changing"
    BY <1>4 DEF ApplyRemoved, ApplyStep, Pruned, Unmarked
  <2>2. \A p \in Paths : Unmarked(p) => \A q \in Above[p] : q \in Paths /\ Unmarked(q)
    BY AboveBelow DEF Unmarked
  <2>3. WellKept(live)'
    BY <2>1, <2>2 DEF LeftInv, WellKept
  <2>4. ReplayComes'
    BY <1>1, <2>1 DEF ReplayComes, Unmarked
  <2>5. QED BY <1>2, <1>3, <2>3, <2>4 DEF LeftInv
<1>5. CASE ApplyChanged
  <2>1. /\ live' = Overlaid(live) /\ phase = "changing" /\ phase' = "describing"
    BY <1>5 DEF ApplyChanged, ApplyStep
  <2>2. ASSUME NEW p \in Paths, changed[p] # Nothing PROVE live'[p] = changed[p]
    BY <2>1, <2>2, EntryKinds DEF Overlaid, Blocked, LeftInv, WellKept
  <2>3. ASSUME NEW p \in Paths, changed[p] = Nothing, live'[p] # Nothing
        PROVE  ~Blocked(changed, p) /\ live'[p] = live[p] /\ live[p] # Nothing /\ Unmarked(p)
    BY <2>1, <2>3 DEF Overlaid, LeftInv, ReplayComes
  <2>4. ASSUME NEW p \in Paths, live'[p] # Nothing, NEW q \in Above[p] PROVE live'[q] = Directory
    <3>1. q \in Paths
      BY AboveBelow
    <3>2. CASE changed[q] # Nothing
      <4>1. changed[q].kind # "file"
        <5>1. ~Blocked(changed, p)
          BY <2>1, <2>4 DEF Overlaid
        <5>2. QED BY <5>1 DEF Blocked
      <4>2. changed[q] \in Entries
        BY <1>1, <3>1 DEF Trees
      <4>3. QED BY <2>2, <3>1, <3>2, <4>1, <4>2, EntryKinds
    <3>3. CASE changed[q] = Nothing
      <4>1. changed[p] = Nothing
        BY <3>3, EntryKinds DEF LeftInv, WellKept
      <4>2. live[q] = Directory
        BY <2>3, <2>4, <4>1 DEF LeftInv, WellKept
      <4>3. ~Blocked(changed, q)
        BY <2>3, <2>4, <4>1, AboveBelow DEF Blocked
      <4>4. QED BY <2>1, <3>1, <3>3, <4>2, <4>3 DEF Overlaid
    <3>4. QED BY <3>2, <3>3
  <2>5. WellKept(live)'
    BY <2>4 DEF WellKept
  <2>6. ReplayComes'
    BY <1>1, <2>1, <2>2, <2>3 DEF ReplayComes, Unmarked
  <2>7. QED BY <1>2, <1>3, <2>5, <2>6 DEF LeftInv
<1>6. QED BY <1>4, <1>5

(* LeftInv is kept by the last step of the replay, after which all is up to date. *)
LEMMA LeftDescribes ==
  ASSUME TypeOK, LeftInv, TornInv, QuietReplay, ApplyMetadata
  PROVE  LeftInv'
<1>1. /\ writer' = Idle /\ UNCHANGED <<image, changed, removed, base>>
      /\ phase = "describing" /\ phase' = "ready" /\ live' = Described(live)
      /\ meta' = [p \in Paths |-> IF live[p].kind = "file" THEN meta[p] ELSE "none"]
      /\ store' = meta' /\ live \in Trees /\ changed \in Trees /\ image \in Images
  BY DEF ApplyMetadata, ApplyStep, QuietReplay, TypeOK, base
<1>2. WriterSees' /\ RecordsWait' /\ ReplayComes'
  BY <1>1 DEF WriterSees, RecordsWait, ReplayComes
<1>3. WellKept(changed)'
  BY <1>1 DEF LeftInv, WellKept
<1>4. ASSUME NEW p \in Paths
      PROVE  /\ live'[p].kind = live[p].kind
             /\ live[p].kind # "file" => live'[p] = live[p]
             /\ live[p].kind = "file" /\ meta[p] = "none" => live'[p] = live[p]
             /\ live[p].kind = "file" /\ meta[p] # "none" => live'[p].facts = meta[p]
  <2>1. CASE meta[p] # "none" /\ live[p].kind = "file"
    <3>1. live[p] = File(live[p].content, live[p].facts)
      BY <1>1, <2>1, EntryKinds DEF Trees
    <3>2. live'[p] = File(live[p].content, meta[p])
      BY <1>1, <2>1, <3>1 DEF Described, File
    <3>3. QED BY <2>1, <3>2, EntryKinds
  <2>2. CASE ~(meta[p] # "none" /\ live[p].kind = "file")
    BY <1>1, <2>2 DEF Described
  <2>3. QED BY <2>1, <2>2
<1>5. WellKept(live)'
  <2>1. ASSUME NEW p \in Paths, live'[p] # Nothing, NEW q \in Above[p] PROVE live'[q] = Directory
    <3>1. q \in Paths
      BY AboveBelow
    <3>2. live[p] # Nothing
      BY <1>4, <2>1, EntryKinds
    <3>3. live[q] = Directory
      BY <3>2 DEF LeftInv, WellKept
    <3>4. QED BY <1>4, <3>1, <3>3, EntryKinds
  <2>2. QED BY <2>1 DEF WellKept
<1>6. ASSUME NEW p \in Paths, live'[p] = base[p]
      PROVE  /\ changed[p].kind = "file" => changed[p] = base[p]
             /\ base[p].kind = "file" => /\ store'[p] = "none"
                                         /\ Unmarked(p) \/ changed[p] = base[p]
  <2>1. base[p].kind = "file" => base[p].facts = "image"
    BY <1>1, BaseKinds DEF base
  <2>2. live[p].kind = "file" => meta[p] = "none" /\ live[p] = base[p]
    BY <1>4, <1>6, <2>1 DEF TornInv
  <2>3. changed[p] # Nothing => live[p] = changed[p]
    BY <1>1 DEF LeftInv, ReplayComes
  <2>4. changed[p].kind = "file" => changed[p] = base[p]
    BY <2>2, <2>3, EntryKinds
  <2>5. base[p].kind = "file" => store'[p] = "none"
    BY <1>1, <1>4, <1>6, <2>2
  <2>6. base[p].kind = "file" /\ changed[p] # base[p] => Unmarked(p)
    <3>1. SUFFICES ASSUME base[p].kind = "file", changed[p] # base[p] PROVE Unmarked(p)
      OBVIOUS
    <3>2. live[p] = base[p] /\ live[p] # Nothing
      BY <1>4, <1>6, <2>2, <3>1, EntryKinds
    <3>3. changed[p] = Nothing
      BY <2>3, <3>1, <3>2
    <3>4. QED BY <1>1, <3>2, <3>3 DEF LeftInv, ReplayComes
  <2>7. QED BY <2>4, <2>5, <2>6
<1>7. UpToDate'
  BY <1>1, <1>6 DEF UpToDate, Unmarked
<1>8. QED BY <1>2, <1>3, <1>5, <1>7 DEF LeftInv

(* LeftInv is kept. *)
LEMMA LeftStep ==
  ASSUME TypeOK, CarriesAFile, TornInv, QuietReplay, LeftInv, [Next]_vars
  PROVE  LeftInv'
<1>1. CASE Edit
  <2>1. WellKept(live)
    BY DEF LeftInv
  <2>2. QED BY <1>1, <2>1, EditNoted, LeftNoticed
<1>2. ASSUME NEW p \in Paths, AuditFlags(p) PROVE LeftInv'
  <2>1. /\ UNCHANGED <<image, live, changed, removed, meta, store, batch, retry, writer, phase>>
        /\ UNCHANGED missed /\ dirty' = Append(dirty, p)
    BY <1>2 DEF AuditFlags, volume, history
  <2>2. Noted \subseteq Noted'
    BY <2>1, QueueHolds DEF TypeOK, Noted
  <2>3. WellKept(live')
    BY <2>1 DEF LeftInv
  <2>4. QED BY <2>1, <2>2, <2>3, LeftNoticed
<1>3. CASE DaemonStarts \/ UNCHANGED vars
  <2>1. UNCHANGED <<image, live, changed, removed, meta, store, batch, retry, writer, phase,
                    dirty, missed>>
    BY <1>3 DEF DaemonStarts, vars, volume, queues, history
  <2>2. Noted' = Noted
    BY <2>1 DEF Noted, Queued
  <2>3. WellKept(live')
    BY <2>1 DEF LeftInv
  <2>4. QED BY <2>1, <2>2, <2>3, LeftNoticed
<1>4. QED
  BY EveryStep, <1>1, <1>2, <1>3, LeftTakes, LeftBetween, LeftRemoves, LeftMarks, LeftPrepares,
     LeftReads, LeftCopies, LeftUnmarks, LeftContainer, LeftReplays, LeftDescribes

(* The initial state has it: the container is the image. *)
LEMMA LeftInit == ASSUME Init PROVE LeftInv
<1>1. /\ live = base /\ image \in Images /\ removed = {} /\ writer = Idle /\ store = meta
      /\ \A p \in Paths : changed[p] = Nothing /\ store[p] = "none"
      /\ phase = "ready"
  BY DEF Init, base
<1>2. WellKept(live) /\ WellKept(changed)
  BY <1>1, BaseAssumption DEF WellKept, base
<1>3. WriterSees /\ RecordsWait /\ ReplayComes
  BY <1>1 DEF WriterSees, RecordsWait, ReplayComes
<1>4. UpToDate
  BY <1>1, EntryKinds DEF UpToDate, Unmarked
<1>5. QED BY <1>2, <1>3, <1>4 DEF LeftInv

(* What LeftInv says of a path of which no notice is on its way, nor of the directories
   it lies in: a new container would hold what is there. *)
LEMMA LeftSettled ==
  ASSUME TypeOK, LeftInv, phase = "ready", NEW p \in Paths, ~Differs(p), changed[p] # Directory,
         ({p} \cup Above[p]) \cap (Pending \cup missed) = {}
  PROVE  Settled(p)
<1>1. /\ live \in Trees /\ changed \in Trees /\ image \in Images /\ live[p] = base[p]
      /\ base[p] \in Entries /\ changed[p] \in Entries
  BY BaseKinds DEF TypeOK, Differs, base, Trees
<1>2. \A q \in {p} \cup Above[p] : q \in Paths /\ q \notin Owing /\ q \notin batch \cup retry \cup Noted
  BY AboveBelow DEF Owing, Noted, Pending
<1>3. \A q \in {p} \cup Above[p] : live[q] = base[q] =>
        /\ changed[q].kind = "file" => changed[q] = base[q]
        /\ base[q].kind = "file" => store[q] = "none" /\ (Unmarked(q) \/ changed[q] = base[q])
  BY <1>2 DEF LeftInv, UpToDate
<1>4. PICK t : t = Overlaid(Pruned(base))
  OBVIOUS
<1>5. /\ t[p] = IF Blocked(changed, p) THEN Nothing
                ELSE IF changed[p] # Nothing THEN changed[p]
                ELSE Pruned(base)[p]
      /\ Pruned(base)[p] = IF Unmarked(p) THEN base[p] ELSE Nothing
      /\ Restored(p) = IF meta[p] # "none" /\ t[p].kind = "file"
                       THEN [t[p] EXCEPT !.facts = meta[p]] ELSE t[p]
  BY <1>4 DEF Overlaid, Pruned, Unmarked, Restored, Described
<1>6. CASE base[p].kind # "file"
  <2>1. base[p] \in {Nothing, Directory} /\ changed[p] = Nothing
    BY <1>1, <1>3, <1>6, EntryKinds
  <2>2. t[p] \in {Nothing, Directory}
    BY <1>5, <2>1
  <2>3. Restored(p) \in {Nothing, Directory}
    BY <1>5, <2>2, EntryKinds
  <2>4. QED BY <1>1, <2>1, <2>3 DEF Settled
<1>7. CASE base[p].kind = "file"
  <2>1. base[p] # Nothing /\ store[p] = "none" /\ (Unmarked(p) \/ changed[p] = base[p])
    BY <1>1, <1>3, <1>7, EntryKinds
  <2>2. meta[p] = "none"
    BY <1>1, <1>2, <2>1 DEF LeftInv, RecordsWait
  <2>3. ~Blocked(changed, p)
    <3>1. ASSUME NEW q \in Above[p], changed[q].kind = "file" PROVE FALSE
      <4>1. live[q] = Directory /\ base[q] = Directory
        BY <1>1, <2>1, BaseAssumption DEF LeftInv, WellKept, base
      <4>2. QED BY <1>3, <3>1, <4>1, EntryKinds
    <3>2. QED BY <3>1 DEF Blocked
  <2>4. changed[p] = Nothing \/ changed[p] = base[p]
    BY <1>1, <1>3, EntryKinds
  <2>5. t[p] = base[p]
    BY <1>5, <2>1, <2>3, <2>4
  <2>6. QED BY <1>1, <1>5, <2>2, <2>5 DEF Settled
<1>8. QED BY <1>6, <1>7

(* What the audit cannot find is never wrong on the volume without a notice on its way
   or lost, for any tree, images and bounds. *)
THEOREM LeftoversHaveANoticeCorrect == Spec => []LeftoversHaveANotice
<1> DEFINE IInv == TypeOK /\ CarriesAFile /\ TornInv /\ QuietReplay /\ LeftInv
<1>1. Init => IInv
  <2>1. Init => TornInv
    BY GenuineTrees, EntryKinds, ContentsAssumption DEF Init, TornInv, Idle
  <2>2. Init => QuietReplay
    BY DEF Init, QuietReplay
  <2>3. QED BY <2>1, <2>2, TypeInit, LeftInit
<1>2. IInv /\ [Next]_vars => IInv'
  BY TypeStep, CarriesStep, TornStep, QuietStep, LeftStep
<1>3. IInv => LeftoversHaveANotice
  <2>1. SUFFICES ASSUME IInv, NEW p \in Paths, phase = "ready", ~Differs(p), ~Settled(p),
                        changed[p] # Directory
                 PROVE  ({p} \cup Above[p]) \cap (Pending \cup missed) # {}
    BY DEF LeftoversHaveANotice
  <2>2. QED BY <2>1, LeftSettled
<1> HIDE DEF IInv
<1>4. QED BY <1>1, <1>2, <1>3, PTL DEF Spec
-----------------------------------------------------------------------------
(* The files on the server and on parking volumes: module BoxRepair *)

(* The steps of a repair by what the row says while they are taken. *)
UnparkedSteps == {"create volume", "record volume", "delete volume", "restart", "repaired"}
ParkingSteps == {"attach", "stop", "rescue", "copy", "verify", "gate"}
RestoringSteps == {"rebuild", "attach back", "copy back", "verify back", "clear"}

(* The operation in progress is the one the status names. *)
WorkflowMatchesStatus ==
  /\ pc \in RepairSteps <=> status = "repairing"
  /\ pc \in RebuildSteps <=> status \in {"resetting", "restoring"}
  /\ pc \in DeleteSteps <=> status = "deleting"

(* The workflow's copy of the pointer, and the stage it works under, agree with
   the row from the step that wrote them on. *)
WorkflowKnowsRow ==
  /\ stage = "none" <=> pointer = NoVolume
  /\ pc = "in place" => taken = pointer
  /\ pc \in UnparkedSteps => stage = "none"
  /\ pc \in ParkingSteps => stage = "parking" /\ taken = pointer
  /\ pc \in RestoringSteps => stage = "restoring" /\ taken = pointer

(* The reconciliation is after no volume that a box has, or is about to have. *)
NeededVolumesAreSafe ==
  /\ PointerNamesVolume
  /\ status = "deleted" => pointer = NoVolume
  /\ pointer \notin doomed
  /\ pc = "record volume" => taken \in volumes \ doomed

(* Once past the gate the box serves nobody until its files are back, and only
   a repair or a deletion gets at it. *)
RestoringBoxIsDown ==
  /\ stage = "restoring" =>
       /\ status \in {"repairing", "repair_failed", "deleting", "delete_failed"}
       /\ host # "serving"
  /\ pc \in {"copy", "verify", "gate"} => host = "rescue"

(* Before the gate the disk has the files, after it the volume has, and at the
   gate and before the pointer is cleared both have. *)
FilesAreWhereRowSays ==
  BoxLives =>
    /\ stage # "restoring" => disk = owned
    /\ stage = "restoring" => parked[pointer] = owned
    /\ pc = "gate" => parked[taken] = owned
    /\ pc = "clear" => disk = owned

RepairInv ==
  /\ RepairTypeOK
  /\ WorkflowMatchesStatus
  /\ WorkflowKnowsRow
  /\ NeededVolumesAreSafe
  /\ RestoringBoxIsDown
  /\ FilesAreWhereRowSays
-----------------------------------------------------------------------------
(* A workflow's step leaves a status that exists: the one it had, or the failure
   status of its operation. *)
LEMMA StatusAfterIsStatus ==
  ASSUME RepairTypeOK, StatusAfter
  PROVE  status' \in Statuses
BY DEF RepairTypeOK, StatusAfter, FailedStatus, Statuses

(* Typing is kept by every step. *)
LEMMA RepairTypeStep == RepairTypeOK /\ [RepairNext]_repairVars => RepairTypeOK'
<1> USE MaxWritesAssumption, NoVolumeAssumption
<1> SUFFICES ASSUME RepairTypeOK, [RepairNext]_repairVars PROVE RepairTypeOK'
  OBVIOUS
<1>1. /\ StatusAfter => status' \in Statuses
      /\ "idle" \in {"idle"} \cup RepairSteps \cup RebuildSteps \cup DeleteSteps
  BY StatusAfterIsStatus
<1>2. Blank \in DiskContents /\ Garbled \in DiskContents /\ Blank \in FileVersions /\ FileVersions \subseteq DiskContents
  BY DEF DiskContents, FileVersions, Garbled, Blank
<1> USE <1>1, <1>2 DEF RepairTypeOK, rowVars, serverVars, volumeVars, ownerVars, Acts, Mutates
<1>3. CASE Repair
  <2>1. CASE StartRepair
    BY <2>1 DEF StartRepair, Statuses, RepairSteps
  <2>2. CASE HealsInPlace
    BY <2>2 DEF HealsInPlace, Statuses, RepairSteps
  <2>3. CASE FallsBackToRescue
    BY <2>3 DEF FallsBackToRescue, RepairSteps
  <2>4. CASE CreateParkingVolume
    BY <2>4 DEF CreateParkingVolume, RepairSteps
  <2>5. CASE RecordParkingVolume
    BY <2>5 DEF RecordParkingVolume, RepairSteps
  <2>6. CASE AttachParkingVolume
    BY <2>6 DEF AttachParkingVolume, RepairSteps
  <2>7. CASE StopServer
    BY <2>7 DEF StopServer, RepairSteps
  <2>8. CASE BootServerInRescue
    BY <2>8 DEF BootServerInRescue, RepairSteps
  <2>9. CASE CopyToParking
    <3>1. PICK copied \in DiskContents : parked' = [parked EXCEPT ![taken] = copied]
      BY <2>9 DEF CopyToParking
    <3>2. parked' \in [Volumes -> DiskContents]
      BY <3>1
    <3> QED BY <2>9, <3>2 DEF CopyToParking, RepairSteps
  <2>10. CASE VerifyParkingCopy
    BY <2>10 DEF VerifyParkingCopy, RepairSteps
  <2>11. CASE MarkParkingRestoring
    BY <2>11 DEF MarkParkingRestoring, Statuses, RepairSteps
  <2>12. CASE RebuildServer
    BY <2>12 DEF RebuildServer, RepairSteps
  <2>13. CASE CopyFromParking
    BY <2>13 DEF CopyFromParking, RepairSteps
  <2>14. CASE VerifyParkingBack
    BY <2>14 DEF VerifyParkingBack, RepairSteps
  <2>15. CASE ClearParkingVolume
    BY <2>15 DEF ClearParkingVolume, RepairSteps
  <2>16. CASE DeleteParkingVolume
    BY <2>16 DEF DeleteParkingVolume, RepairSteps
  <2>17. CASE RestartRuntime
    BY <2>17 DEF RestartRuntime, RepairSteps
  <2>18. CASE MarkRepairSucceeded
    BY <2>18 DEF MarkRepairSucceeded, Statuses, RepairSteps
  <2> QED BY <1>3, <2>1, <2>2, <2>3, <2>4, <2>5, <2>6, <2>7, <2>8, <2>9, <2>10, <2>11,
         <2>12, <2>13, <2>14, <2>15, <2>16, <2>17, <2>18 DEF Repair
<1>4. CASE Rebuild
  <2>1. CASE StartReset
    BY <2>1 DEF StartReset, StartRebuild, Statuses, RebuildSteps
  <2>2. CASE StartRestore
    BY <2>2 DEF StartRestore, StartRebuild, Statuses, RebuildSteps
  <2>3. CASE CaptureRollback
    BY <2>3 DEF CaptureRollback, RebuildSteps
  <2>4. CASE ReplaceDisk
    <3>1. 0..written \subseteq FileVersions
      BY DEF FileVersions, Versions, Blank
    <3> QED BY <2>4, <3>1 DEF ReplaceDisk, RebuildSteps
  <2>5. CASE BootstrapRuntime
    BY <2>5 DEF BootstrapRuntime, RebuildSteps
  <2>6. CASE MarkRebuildSucceeded
    BY <2>6 DEF MarkRebuildSucceeded, Statuses, RebuildSteps
  <2> QED BY <1>4, <2>1, <2>2, <2>3, <2>4, <2>5, <2>6 DEF Rebuild
<1>5. CASE DeleteBox
  <2>1. CASE StartDelete
    BY <2>1 DEF StartDelete, Statuses, DeleteSteps
  <2>2. CASE DeleteServer
    BY <2>2 DEF DeleteServer, DeleteSteps
  <2>3. CASE MarkDeleted
    BY <2>3 DEF MarkDeleted, Statuses, DeleteSteps
  <2> QED BY <1>5, <2>1, <2>2, <2>3 DEF DeleteBox
<1>6. CASE OperationFails
  BY <1>6 DEF OperationFails
<1>7. CASE OwnerWrites
  BY <1>7 DEF OwnerWrites, FileVersions, DiskContents, Versions
<1>8. CASE HostBreaks
  BY <1>8 DEF HostBreaks
<1>9. CASE Reconcile
  BY <1>9 DEF Reconcile, VolumeAges, ReconcileJudges, ReconcileDeletes, ReconcileDies
<1>10. CASE UNCHANGED repairVars
  BY <1>10 DEF repairVars
<1> QED BY <1>3, <1>4, <1>5, <1>6, <1>7, <1>8, <1>9, <1>10 DEF RepairNext

(* Every reachable state is well typed. *)
THEOREM RepairTypeCorrect == RepairSpec => []RepairTypeOK
<1>1. RepairInit => RepairTypeOK
  BY MaxWritesAssumption DEF RepairInit, RepairTypeOK, Statuses, DiskContents, FileVersions,
     Versions, Blank
<1> QED BY <1>1, RepairTypeStep, PTL DEF RepairSpec
-----------------------------------------------------------------------------
(* The inductive invariant.  FilesKept alone is not inductive: a copy back needs
   the parked copy to be right (FilesAreWhereRowSays), which needs that nothing
   but this repair writes to the volume (NeededVolumesAreSafe,
   WorkflowKnowsRow), and that the box serves nobody meanwhile
   (RestoringBoxIsDown). *)
LEMMA RepairInvInit == RepairInit => RepairInv
BY NoVolumeAssumption, MaxWritesAssumption
   DEF RepairInit, RepairInv, RepairTypeOK, Statuses, DiskContents, FileVersions, Versions, Blank,
       WorkflowMatchesStatus, WorkflowKnowsRow, NeededVolumesAreSafe, PointerNamesVolume,
       RestoringBoxIsDown, FilesAreWhereRowSays, BoxLives,
       RepairSteps, RebuildSteps, DeleteSteps, UnparkedSteps, ParkingSteps, RestoringSteps

(* What a throw or a retry leaves of the operation in progress *)
LEMMA StatusAfterMatches ==
  ASSUME RepairInv, StatusAfter, pc # "idle",
         pc' = "idle" \/ (pc \in RepairSteps /\ pc' \in RepairSteps)
                     \/ (pc \in RebuildSteps /\ pc' \in RebuildSteps)
                     \/ (pc \in DeleteSteps /\ pc' \in DeleteSteps)
  PROVE  /\ WorkflowMatchesStatus'
         /\ BoxLives' <=> BoxLives
         /\ status \in {"repairing", "repair_failed", "deleting", "delete_failed"}
              => status' \in {"repairing", "repair_failed", "deleting", "delete_failed"}
BY DEF RepairInv, RepairTypeOK, Statuses, StatusAfter, FailedStatus, WorkflowMatchesStatus,
   BoxLives,
       RepairSteps, RebuildSteps, DeleteSteps


(* The reconciliation changes neither the row, nor any workflow, nor any file. *)
LEMMA ReconcileLeavesRow ==
  Reconcile => UNCHANGED <<status, pointer, stage, pc, taken, disk, parked, owned>>
BY DEF Reconcile, VolumeAges, ReconcileJudges, ReconcileDeletes, ReconcileDies,
       rowVars, serverVars, volumeVars, ownerVars

(* The status names the operation whose step is next: a step of a workflow keeps
   to its own steps or ends it, and StatusAfter is what ending it leaves. *)
LEMMA WorkflowMatchesStatusStep ==
  ASSUME RepairInv, Faults = {}, [RepairNext]_repairVars
  PROVE  WorkflowMatchesStatus'
<1> USE NoVolumeAssumption DEF RepairInv, WorkflowMatchesStatus, RepairTypeOK, Statuses,
        StatusAfter, FailedStatus, RepairSteps, RebuildSteps, DeleteSteps, Acts,
        Mutates, rowVars, serverVars, volumeVars, ownerVars
<1>1. CASE Repair
  BY <1>1 DEF Repair, StartRepair, HealsInPlace, CanRestart, FallsBackToRescue,
         CreateParkingVolume, RecordParkingVolume, AttachParkingVolume, StopServer,
         BootServerInRescue, CopyToParking, VerifyParkingCopy, MarkParkingRestoring,
         RebuildServer, CopyFromParking, VerifyParkingBack, ClearParkingVolume,
         DeleteParkingVolume, RestartRuntime, MarkRepairSucceeded
<1>2. CASE Rebuild
  BY <1>2 DEF Rebuild, StartReset, StartRestore, StartRebuild, CaptureRollback,
         ReplaceDisk, BootstrapRuntime, MarkRebuildSucceeded
<1>3. CASE DeleteBox
  BY <1>3 DEF DeleteBox, StartDelete, DeleteServer, MarkDeleted
<1>4. CASE Reconcile
  BY <1>4 DEF Reconcile, VolumeAges, ReconcileJudges, ReconcileDeletes, ReconcileDies
<1>5. CASE OperationFails \/ OwnerWrites \/ HostBreaks \/ UNCHANGED repairVars
  BY <1>5 DEF OperationFails, OwnerWrites, HostBreaks, repairVars
<1> QED BY <1>1, <1>2, <1>3, <1>4, <1>5 DEF RepairNext

(* The row changes under a workflow only where the workflow itself changes it. *)
LEMMA WorkflowKnowsRowStep ==
  ASSUME RepairInv, Faults = {}, [RepairNext]_repairVars
  PROVE  WorkflowKnowsRow'
<1> USE NoVolumeAssumption DEF RepairInv, WorkflowKnowsRow, NeededVolumesAreSafe,
        RepairTypeOK, UnparkedSteps, ParkingSteps, RestoringSteps, RepairSteps, RebuildSteps,
        DeleteSteps, Acts, Mutates, rowVars, serverVars, volumeVars, ownerVars
<1>1. CASE Repair
  <2>1. CASE StartRepair
    BY <2>1 DEF StartRepair
  <2>2. CASE HealsInPlace
    BY <2>2 DEF HealsInPlace, CanRestart
  <2>3. CASE FallsBackToRescue
    BY <2>3 DEF FallsBackToRescue, CanRestart
  <2>4. CASE CreateParkingVolume
    BY <2>4 DEF CreateParkingVolume
  <2>5. CASE RecordParkingVolume
    BY <2>5 DEF RecordParkingVolume
  <2>6. CASE AttachParkingVolume
    BY <2>6 DEF AttachParkingVolume
  <2>7. CASE StopServer
    BY <2>7 DEF StopServer
  <2>8. CASE BootServerInRescue
    BY <2>8 DEF BootServerInRescue
  <2>9. CASE CopyToParking
    BY <2>9 DEF CopyToParking
  <2>10. CASE VerifyParkingCopy
    BY <2>10 DEF VerifyParkingCopy
  <2>11. CASE MarkParkingRestoring
    BY <2>11 DEF MarkParkingRestoring
  <2>12. CASE RebuildServer
    BY <2>12 DEF RebuildServer
  <2>13. CASE CopyFromParking
    BY <2>13 DEF CopyFromParking
  <2>14. CASE VerifyParkingBack
    BY <2>14 DEF VerifyParkingBack
  <2>15. CASE ClearParkingVolume
    BY <2>15 DEF ClearParkingVolume
  <2>16. CASE DeleteParkingVolume
    BY <2>16 DEF DeleteParkingVolume
  <2>17. CASE RestartRuntime
    BY <2>17 DEF RestartRuntime
  <2>18. CASE MarkRepairSucceeded
    BY <2>18 DEF MarkRepairSucceeded
  <2> QED BY <1>1, <2>1, <2>2, <2>3, <2>4, <2>5, <2>6, <2>7, <2>8, <2>9, <2>10, <2>11,
            <2>12, <2>13, <2>14, <2>15, <2>16, <2>17, <2>18 DEF Repair
<1>2. CASE Rebuild
  BY <1>2 DEF Rebuild, StartReset, StartRestore, StartRebuild, CaptureRollback,
         ReplaceDisk, BootstrapRuntime, MarkRebuildSucceeded
<1>3. CASE DeleteBox
  BY <1>3 DEF DeleteBox, StartDelete, DeleteServer, MarkDeleted
<1>4. CASE Reconcile
  BY <1>4 DEF Reconcile, VolumeAges, ReconcileJudges, ReconcileDeletes, ReconcileDies
<1>5. CASE OperationFails \/ OwnerWrites \/ HostBreaks \/ UNCHANGED repairVars
  BY <1>5 DEF OperationFails, OwnerWrites, HostBreaks, repairVars
<1> QED BY <1>1, <1>2, <1>3, <1>4, <1>5 DEF RepairNext

(* A volume is judged while nothing refers to it, and a repair takes up none that
   is judged. *)
LEMMA NeededVolumesAreSafeStep ==
  ASSUME RepairInv, Faults = {}, [RepairNext]_repairVars
  PROVE  NeededVolumesAreSafe'
<1> USE NoVolumeAssumption DEF RepairInv, NeededVolumesAreSafe, PointerNamesVolume,
        Referenced, WorkflowKnowsRow, WorkflowMatchesStatus, StatusAfter, FailedStatus,
        RepairTypeOK, UnparkedSteps, ParkingSteps, RestoringSteps, RepairSteps, RebuildSteps,
        DeleteSteps, Acts, Mutates, rowVars, serverVars, volumeVars, ownerVars
<1>1. CASE Repair
  <2>1. CASE StartRepair
    BY <2>1 DEF StartRepair
  <2>2. CASE HealsInPlace
    BY <2>2 DEF HealsInPlace, CanRestart
  <2>3. CASE FallsBackToRescue
    BY <2>3 DEF FallsBackToRescue, CanRestart
  <2>4. CASE CreateParkingVolume
    BY <2>4 DEF CreateParkingVolume
  <2>5. CASE RecordParkingVolume
    BY <2>5 DEF RecordParkingVolume
  <2>6. CASE AttachParkingVolume
    BY <2>6 DEF AttachParkingVolume
  <2>7. CASE StopServer
    BY <2>7 DEF StopServer
  <2>8. CASE BootServerInRescue
    BY <2>8 DEF BootServerInRescue
  <2>9. CASE CopyToParking
    BY <2>9 DEF CopyToParking
  <2>10. CASE VerifyParkingCopy
    BY <2>10 DEF VerifyParkingCopy
  <2>11. CASE MarkParkingRestoring
    BY <2>11 DEF MarkParkingRestoring
  <2>12. CASE RebuildServer
    BY <2>12 DEF RebuildServer
  <2>13. CASE CopyFromParking
    BY <2>13 DEF CopyFromParking
  <2>14. CASE VerifyParkingBack
    BY <2>14 DEF VerifyParkingBack
  <2>15. CASE ClearParkingVolume
    BY <2>15 DEF ClearParkingVolume
  <2>16. CASE DeleteParkingVolume
    BY <2>16 DEF DeleteParkingVolume
  <2>17. CASE RestartRuntime
    BY <2>17 DEF RestartRuntime
  <2>18. CASE MarkRepairSucceeded
    BY <2>18 DEF MarkRepairSucceeded
  <2> QED BY <1>1, <2>1, <2>2, <2>3, <2>4, <2>5, <2>6, <2>7, <2>8, <2>9, <2>10, <2>11,
            <2>12, <2>13, <2>14, <2>15, <2>16, <2>17, <2>18 DEF Repair
<1>2. CASE Rebuild
  BY <1>2 DEF Rebuild, StartReset, StartRestore, StartRebuild, CaptureRollback,
         ReplaceDisk, BootstrapRuntime, MarkRebuildSucceeded
<1>3. CASE DeleteBox
  BY <1>3 DEF DeleteBox, StartDelete, DeleteServer, MarkDeleted
<1>4. CASE Reconcile
  BY <1>4 DEF Reconcile, VolumeAges, ReconcileJudges, ReconcileDeletes, ReconcileDies
<1>5. CASE OperationFails \/ OwnerWrites \/ HostBreaks \/ UNCHANGED repairVars
  BY <1>5 DEF OperationFails, OwnerWrites, HostBreaks, repairVars
<1> QED BY <1>1, <1>2, <1>3, <1>4, <1>5 DEF RepairNext

(* Between the rebuild and the verified copy back nothing starts the containers. *)
LEMMA RestoringBoxIsDownStep ==
  ASSUME RepairInv, Faults = {}, [RepairNext]_repairVars
  PROVE  RestoringBoxIsDown'
<1> USE NoVolumeAssumption DEF RepairInv, RestoringBoxIsDown, WorkflowKnowsRow,
        WorkflowMatchesStatus, StatusAfter, FailedStatus, RepairTypeOK, Statuses,
        UnparkedSteps, ParkingSteps, RestoringSteps, RepairSteps, RebuildSteps,
        DeleteSteps, Acts, Mutates, rowVars, serverVars, volumeVars, ownerVars
<1>1. CASE Repair
  <2>1. CASE StartRepair
    BY <2>1 DEF StartRepair
  <2>2. CASE HealsInPlace
    BY <2>2 DEF HealsInPlace, CanRestart
  <2>3. CASE FallsBackToRescue
    BY <2>3 DEF FallsBackToRescue, CanRestart
  <2>4. CASE CreateParkingVolume
    BY <2>4 DEF CreateParkingVolume
  <2>5. CASE RecordParkingVolume
    BY <2>5 DEF RecordParkingVolume
  <2>6. CASE AttachParkingVolume
    BY <2>6 DEF AttachParkingVolume
  <2>7. CASE StopServer
    BY <2>7 DEF StopServer
  <2>8. CASE BootServerInRescue
    BY <2>8 DEF BootServerInRescue
  <2>9. CASE CopyToParking
    BY <2>9 DEF CopyToParking
  <2>10. CASE VerifyParkingCopy
    BY <2>10 DEF VerifyParkingCopy
  <2>11. CASE MarkParkingRestoring
    BY <2>11 DEF MarkParkingRestoring
  <2>12. CASE RebuildServer
    BY <2>12 DEF RebuildServer
  <2>13. CASE CopyFromParking
    BY <2>13 DEF CopyFromParking
  <2>14. CASE VerifyParkingBack
    BY <2>14 DEF VerifyParkingBack
  <2>15. CASE ClearParkingVolume
    BY <2>15 DEF ClearParkingVolume
  <2>16. CASE DeleteParkingVolume
    BY <2>16 DEF DeleteParkingVolume
  <2>17. CASE RestartRuntime
    BY <2>17 DEF RestartRuntime
  <2>18. CASE MarkRepairSucceeded
    BY <2>18 DEF MarkRepairSucceeded
  <2> QED BY <1>1, <2>1, <2>2, <2>3, <2>4, <2>5, <2>6, <2>7, <2>8, <2>9, <2>10, <2>11,
            <2>12, <2>13, <2>14, <2>15, <2>16, <2>17, <2>18 DEF Repair
<1>2. CASE Rebuild
  BY <1>2 DEF Rebuild, StartReset, StartRestore, StartRebuild, CaptureRollback,
         ReplaceDisk, BootstrapRuntime, MarkRebuildSucceeded
<1>3. CASE DeleteBox
  BY <1>3 DEF DeleteBox, StartDelete, DeleteServer, MarkDeleted
<1>4. CASE Reconcile
  BY <1>4 DEF Reconcile, VolumeAges, ReconcileJudges, ReconcileDeletes, ReconcileDies
<1>5. CASE OperationFails \/ OwnerWrites \/ HostBreaks \/ UNCHANGED repairVars
  BY <1>5 DEF OperationFails, OwnerWrites, HostBreaks, repairVars
<1> QED BY <1>1, <1>2, <1>3, <1>4, <1>5 DEF RepairNext

(* The files change, move and are compared only where the row says they are. *)
LEMMA FilesAreWhereRowSaysStep ==
  ASSUME RepairInv, Faults = {}, [RepairNext]_repairVars
  PROVE  FilesAreWhereRowSays'
<1> USE NoVolumeAssumption DEF RepairInv, FilesAreWhereRowSays, BoxLives,
        NeededVolumesAreSafe, PointerNamesVolume, RestoringBoxIsDown, WorkflowKnowsRow,
        WorkflowMatchesStatus, StatusAfter, FailedStatus, RepairTypeOK, Statuses,
        UnparkedSteps, ParkingSteps, RestoringSteps, RepairSteps, RebuildSteps,
        DeleteSteps, Acts, Mutates, rowVars, serverVars, volumeVars, ownerVars
<1>1. CASE Repair
  <2>1. CASE StartRepair
    BY <2>1 DEF StartRepair
  <2>2. CASE HealsInPlace
    BY <2>2 DEF HealsInPlace, CanRestart
  <2>3. CASE FallsBackToRescue
    BY <2>3 DEF FallsBackToRescue, CanRestart
  <2>4. CASE CreateParkingVolume
    BY <2>4 DEF CreateParkingVolume
  <2>5. CASE RecordParkingVolume
    BY <2>5 DEF RecordParkingVolume
  <2>6. CASE AttachParkingVolume
    BY <2>6 DEF AttachParkingVolume
  <2>7. CASE StopServer
    BY <2>7 DEF StopServer
  <2>8. CASE BootServerInRescue
    BY <2>8 DEF BootServerInRescue
  <2>9. CASE CopyToParking
    BY <2>9 DEF CopyToParking
  <2>10. CASE VerifyParkingCopy
    BY <2>10 DEF VerifyParkingCopy
  <2>11. CASE MarkParkingRestoring
    BY <2>11 DEF MarkParkingRestoring
  <2>12. CASE RebuildServer
    BY <2>12 DEF RebuildServer
  <2>13. CASE CopyFromParking
    BY <2>13 DEF CopyFromParking
  <2>14. CASE VerifyParkingBack
    BY <2>14 DEF VerifyParkingBack
  <2>15. CASE ClearParkingVolume
    BY <2>15 DEF ClearParkingVolume
  <2>16. CASE DeleteParkingVolume
    BY <2>16 DEF DeleteParkingVolume
  <2>17. CASE RestartRuntime
    BY <2>17 DEF RestartRuntime
  <2>18. CASE MarkRepairSucceeded
    BY <2>18 DEF MarkRepairSucceeded
  <2> QED BY <1>1, <2>1, <2>2, <2>3, <2>4, <2>5, <2>6, <2>7, <2>8, <2>9, <2>10, <2>11,
            <2>12, <2>13, <2>14, <2>15, <2>16, <2>17, <2>18 DEF Repair
<1>2. CASE Rebuild
  BY <1>2 DEF Rebuild, StartReset, StartRestore, StartRebuild, CaptureRollback,
         ReplaceDisk, BootstrapRuntime, MarkRebuildSucceeded
<1>3. CASE DeleteBox
  BY <1>3 DEF DeleteBox, StartDelete, DeleteServer, MarkDeleted
<1>4. CASE Reconcile
  <2>1. UNCHANGED <<status, pointer, stage, pc, taken, disk, parked, owned>>
    BY <1>4, ReconcileLeavesRow
  <2> QED BY <2>1
<1>5. CASE OperationFails \/ OwnerWrites \/ HostBreaks \/ UNCHANGED repairVars
  BY <1>5 DEF OperationFails, OwnerWrites, HostBreaks, repairVars
<1> QED BY <1>1, <1>2, <1>3, <1>4, <1>5 DEF RepairNext

(* Without faults every step keeps the invariant. *)
LEMMA RepairInvStep == Faults = {} /\ RepairInv /\ [RepairNext]_repairVars => RepairInv'
<1> SUFFICES ASSUME Faults = {}, RepairInv, [RepairNext]_repairVars PROVE RepairInv'
  OBVIOUS
<1>1. RepairTypeOK'
  BY RepairTypeStep DEF RepairInv
<1> QED
  BY <1>1, WorkflowMatchesStatusStep, WorkflowKnowsRowStep, NeededVolumesAreSafeStep,
     RestoringBoxIsDownStep, FilesAreWhereRowSaysStep DEF RepairInv
-----------------------------------------------------------------------------
(* What the invariant says of the files *)
LEMMA RepairInvKeepsFiles ==
  ASSUME RepairInv
  PROVE  FilesKept /\ RunningBoxHasItsFiles /\ PointerNamesVolume
BY NoVolumeAssumption
   DEF RepairInv, RepairTypeOK, FilesKept, RunningBoxHasItsFiles, PointerNamesVolume, BoxLives,
       WorkflowKnowsRow, NeededVolumesAreSafe, RestoringBoxIsDown, FilesAreWhereRowSays

(* Through every failure of every step of repairs, resets and restores, the
   owner's files are on the server, or on the volume the row names at a stage
   from which a repair copies them back: unless an in-place attempt starts a
   rebuilt, empty host, or the reconciliation deletes a volume just taken up. *)
THEOREM FilesKeptCorrect ==
  ASSUME Faults = {}
  PROVE  RepairSpec => []FilesKept
<1>1. RepairInit => RepairInv
  BY RepairInvInit
<1>2. RepairInv /\ [RepairNext]_repairVars => RepairInv'
  BY RepairInvStep
<1>3. RepairInv => FilesKept
  BY RepairInvKeepsFiles
<1> QED BY <1>1, <1>2, <1>3, PTL DEF RepairSpec

(* A box recorded as running has its owner's files, in the same world. *)
THEOREM RunningBoxHasItsFilesCorrect ==
  ASSUME Faults = {}
  PROVE  RepairSpec => []RunningBoxHasItsFiles
<1>1. RepairInit => RepairInv
  BY RepairInvInit
<1>2. RepairInv /\ [RepairNext]_repairVars => RepairInv'
  BY RepairInvStep
<1>3. RepairInv => RunningBoxHasItsFiles
  BY RepairInvKeepsFiles
<1> QED BY <1>1, <1>2, <1>3, PTL DEF RepairSpec

(* The recorded pointer names a volume that exists, in the same world. *)
THEOREM PointerNamesVolumeCorrect ==
  ASSUME Faults = {}
  PROVE  RepairSpec => []PointerNamesVolume
<1>1. RepairInit => RepairInv
  BY RepairInvInit
<1>2. RepairInv /\ [RepairNext]_repairVars => RepairInv'
  BY RepairInvStep
<1>3. RepairInv => PointerNamesVolume
  BY RepairInvKeepsFiles
<1> QED BY <1>1, <1>2, <1>3, PTL DEF RepairSpec

(* Past the gate nothing writes to the parked copy or exchanges its volume: the
   steps that do are taken at other stages, or leave the stage. *)
LEMMA ParkedCopyStep ==
  ASSUME RepairInv, [RepairNext]_repairVars, stage = "restoring", stage' = "restoring"
  PROVE  pointer' = pointer /\ parked'[pointer] = parked[pointer]
<1> USE DEF RepairInv, RepairTypeOK, WorkflowKnowsRow, UnparkedSteps, ParkingSteps,
        RestoringSteps, Acts, Mutates, rowVars, serverVars, volumeVars
<1>1. CASE Repair
  BY <1>1 DEF Repair, StartRepair, HealsInPlace, FallsBackToRescue, CreateParkingVolume,
         RecordParkingVolume, AttachParkingVolume, StopServer, BootServerInRescue,
         CopyToParking, VerifyParkingCopy, MarkParkingRestoring, RebuildServer,
         CopyFromParking, VerifyParkingBack, ClearParkingVolume, DeleteParkingVolume,
         RestartRuntime, MarkRepairSucceeded
<1>2. CASE Rebuild
  BY <1>2 DEF Rebuild, StartReset, StartRestore, StartRebuild, CaptureRollback,
         ReplaceDisk, BootstrapRuntime, MarkRebuildSucceeded
<1>3. CASE DeleteBox
  BY <1>3 DEF DeleteBox, StartDelete, DeleteServer, MarkDeleted
<1>4. CASE Reconcile
  BY <1>4 DEF Reconcile, VolumeAges, ReconcileJudges, ReconcileDeletes, ReconcileDies
<1>5. CASE OperationFails \/ OwnerWrites \/ HostBreaks \/ UNCHANGED repairVars
  BY <1>5 DEF OperationFails, OwnerWrites, HostBreaks, repairVars
<1> QED BY <1>1, <1>2, <1>3, <1>4, <1>5 DEF RepairNext

(* Once a repair is past the gate, no failure, retry or later repair writes to the
   parked copy until it is back on the server. *)
THEOREM ParkedCopyIsFixedCorrect ==
  ASSUME Faults = {}
  PROVE  RepairSpec => ParkedCopyIsFixed
<1>1. RepairInit => RepairInv
  BY RepairInvInit
<1>2. RepairInv /\ [RepairNext]_repairVars => RepairInv'
  BY RepairInvStep
<1>3. RepairInv /\ [RepairNext]_repairVars =>
        [stage = "restoring" /\ stage' = "restoring"
           => pointer' = pointer /\ parked'[pointer] = parked[pointer]]_repairVars
  BY ParkedCopyStep
<1> QED BY <1>1, <1>2, <1>3, PTL DEF RepairSpec, ParkedCopyIsFixed
=============================================================================
