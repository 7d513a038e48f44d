---------------------------- MODULE NoticesProofs ----------------------------
(***************************************************************************)
(* Proofs about legal notices and the alerts of staff: the type invariant; *)
(* that a notice reaches those it is owed to and no others; that the       *)
(* evidence of it agrees with what was mailed; and that a failure is       *)
(* brought to staff's attention.                                           *)
(***************************************************************************)
EXTENDS Notices, FiniteSetTheorems, TLAPS

(* How far the walk of the notice has come: everyone up to here was its turn *)
Reached == IF notice.finished THEN notice.cutoff ELSE notice.cursor

(* There are rows of recipients only while there is a row of the notice, and only
   a notice grows old. *)
RowsOfANotice ==
  /\ notice = None => \A u \in Users : recipient[u] = None
  /\ aged => notice # None

(* Rows are of accounts the notice is owed to, and whoever was up has one. *)
WalkInv ==
  notice # None =>
    /\ \A u \in Users : recipient[u] # None => u <= notice.cutoff
    /\ ~aged => \A u \in (1..Reached) \ forgotten : recipient[u] # None

(* Nobody is mailed by one row of the notice before it is their turn, nor after. *)
MailedInv ==
  \A u \in Users :
    mailed[u] <= renewals + (IF notice # None /\ u <= Reached THEN 1 ELSE 0)

Queued == {u \in Users : recipient[u] = "queued"}

(* The count on the row *)
CountInv == notice # None /\ ~aged => notice.count = Cardinality(Queued)

NoticeInv == TypeOK /\ RowsOfANotice /\ WalkInv /\ MailedInv /\ CountInv
-----------------------------------------------------------------------------
(* Operators *)

(* Accounts are finitely many. *)
LEMMA UserSets ==
  ASSUME NEW us, us \subseteq Users
  PROVE  IsFiniteSet(us) /\ Cardinality(us) \in Nat
<1>1. IsFiniteSet(Users)
  BY BatchAssumption, FS_Interval DEF Users
<1>2. IsFiniteSet(us)
  BY <1>1, FS_Subset
<1> QED BY <1>2, FS_CardinalityType

(* Disjoint sets of accounts count for as much as their union. *)
LEMMA AddedUsers ==
  ASSUME NEW us, us \subseteq Users, NEW more, more \subseteq Users,
         us \cap more = {}
  PROVE  Cardinality(us \cup more) = Cardinality(us) + Cardinality(more)
<1>1. IsFiniteSet(us) /\ IsFiniteSet(more)
  BY UserSets
<1>2. Cardinality(us) \in Nat /\ Cardinality(more) \in Nat
  BY UserSets
<1>3. Cardinality(us \cup more)
        = Cardinality(us) + Cardinality(more) - Cardinality(us \cap more)
  BY <1>1, FS_Union
<1>4. Cardinality(us \cap more) = 0
  BY FS_EmptySet
<1> QED BY <1>2, <1>3, <1>4

(* What raising an alert does: the alert is there, and no other is lost. *)
LEMMA RaiseEffect ==
  ASSUME TypeOK, NEW k, RaiseAlert(k)
  PROVE  /\ alert' \in [Keys -> AlertStatuses \cup {None}]
         /\ \A j \in Keys : alert[j] # None => alert'[j] # None
         /\ k \in Keys => alert'[k] # None
<1>1. alert \in [Keys -> AlertStatuses \cup {None}]
  BY DEF TypeOK
<1>2. Enqueued \in AlertStatuses /\ None \notin AlertStatuses
  BY NoneAssumption DEF Enqueued, AlertStatuses
<1>3. CASE alert[k] # None
  BY <1>1, <1>3 DEF RaiseAlert, alerting
<1>4. CASE alert[k] = None
  <2>1. alert' = [alert EXCEPT ![k] = Enqueued]
    BY <1>4 DEF RaiseAlert
  <2> QED BY <1>1, <1>2, <2>1
<1> QED BY <1>3, <1>4

(* The row a walk works on *)
LEMMA TheNoticeRow ==
  ASSUME TypeOK
  PROVE  /\ NoticeRow \in NoticeRows
         /\ NoticeRow.cutoff \in 0..accounts /\ NoticeRow.cursor \in 0..NoticeRow.cutoff
         /\ notice # None => NoticeRow = notice
         /\ notice = None => /\ NoticeRow.cutoff = accounts /\ NoticeRow.cursor = 0
                             /\ NoticeRow.count = 0 /\ NoticeRow.finished = FALSE
         /\ PageEnd(NoticeRow) \in NoticeRow.cursor..NoticeRow.cutoff
<1>1. accounts \in Nat
  BY BatchAssumption DEF TypeOK
<1>2. /\ NoticeRow \in NoticeRows
      /\ NoticeRow.cutoff \in 0..accounts /\ NoticeRow.cursor \in 0..NoticeRow.cutoff
      /\ notice # None => NoticeRow = notice
      /\ notice = None => /\ NoticeRow.cutoff = accounts /\ NoticeRow.cursor = 0
                          /\ NoticeRow.count = 0 /\ NoticeRow.finished = FALSE
  <2>1. CASE notice = None
    BY <1>1, <2>1 DEF NoticeRow, NoticeRows
  <2>2. CASE notice # None
    BY <1>1, <2>2 DEF NoticeRow, NoticeRows, TypeOK
  <2> QED BY <2>1, <2>2
<1>3. PageEnd(NoticeRow) \in NoticeRow.cursor..NoticeRow.cutoff
  BY <1>1, <1>2, BatchAssumption DEF PageEnd, NoticeRows
<1> QED BY <1>2, <1>3

(* A page is of accounts there are. *)
LEMMA TheTold ==
  ASSUME TypeOK
  PROVE  /\ Told(NoticeRow) \subseteq Users
         /\ \A u \in Told(NoticeRow) : /\ u \in NoticeRow.cursor + 1..PageEnd(NoticeRow)
                                       /\ u \notin forgotten /\ recipient[u] = None
<1>1. \A u \in Told(NoticeRow) : /\ u \in NoticeRow.cursor + 1..PageEnd(NoticeRow)
                                 /\ u \notin forgotten /\ recipient[u] = None
  BY DEF Told
<1>2. /\ NoticeRow.cutoff \in 0..accounts /\ NoticeRow.cursor \in 0..NoticeRow.cutoff
      /\ PageEnd(NoticeRow) \in NoticeRow.cursor..NoticeRow.cutoff
  BY TheNoticeRow
<1>3. accounts \in 0..MaxUsers /\ MaxUsers \in Nat
  BY BatchAssumption DEF TypeOK
<1>4. NoticeRow.cursor + 1..PageEnd(NoticeRow) \subseteq Users
  BY <1>2, <1>3 DEF Users
<1> QED BY <1>1, <1>4

(* What walking a page does to the row of the notice ... *)
LEMMA PageEffect ==
  ASSUME TypeOK, SendPage
  PROVE  /\ ~NoticeRow.finished
         /\ notice' \in NoticeRows /\ notice' # None
         /\ notice'.cutoff = NoticeRow.cutoff
         /\ notice'.cursor \in 0..notice'.cutoff
         /\ Reached' = PageEnd(NoticeRow)
         /\ notice'.count = NoticeRow.count + Counted(Told(NoticeRow))
         /\ calls' \in 0..MaxCalls
<1> DEFINE row == NoticeRow
<1>1. /\ row \in NoticeRows
      /\ row.cutoff \in Nat /\ row.cursor \in 0..row.cutoff
      /\ PageEnd(row) \in row.cursor..row.cutoff
  BY TheNoticeRow, BatchAssumption DEF NoticeRows
<1>2. PICK done \in BOOLEAN :
        /\ IF done THEN PageEnd(row) = row.cutoff ELSE PageEnd(row) = row.cursor + PageSize
        /\ notice' = [AfterPage(row, done) EXCEPT !.count = @ + Counted(Told(row))]
        /\ calls' = IF done THEN calls - 1 ELSE calls
  BY DEF SendPage
<1>3. ~row.finished /\ calls > 0 /\ calls \in 0..MaxCalls
  BY DEF SendPage, TypeOK
<1>4. Counted(Told(row)) \in Nat
  BY TheTold, UserSets DEF Counted
<1> HIDE DEF row
<1>5. /\ notice' \in NoticeRows
      /\ notice'.cutoff = row.cutoff
      /\ notice'.cursor = IF done THEN 0 ELSE PageEnd(row)
      /\ notice'.finished = done
      /\ notice'.count = row.count + Counted(Told(row))
  <2>1. /\ AfterPage(row, done) \in NoticeRows
        /\ AfterPage(row, done).cutoff = row.cutoff
        /\ AfterPage(row, done).cursor = IF done THEN 0 ELSE PageEnd(row)
        /\ AfterPage(row, done).finished = done
        /\ AfterPage(row, done).count = row.count
        /\ row.count \in Nat
    <3>1. PageEnd(row) \in Nat
      BY <1>1
    <3>2. CASE done
      BY <1>1, <3>1, <3>2 DEF AfterPage, NoticeRows
    <3>3. CASE ~done
      BY <1>1, <3>1, <3>3 DEF AfterPage, NoticeRows
    <3> QED BY <3>2, <3>3
  <2> QED BY <1>2, <1>4, <2>1 DEF NoticeRows
<1>6. notice' # None
  BY <1>5, NoneAssumption DEF NoticeRows
<1>7. notice'.cursor \in 0..notice'.cutoff
  BY <1>1, <1>5
<1>8. Reached' = PageEnd(row)
  BY <1>2, <1>5 DEF Reached
<1>9. calls' \in 0..MaxCalls
  BY <1>2, <1>3, BatchAssumption
<1> QED BY <1>3, <1>5, <1>6, <1>7, <1>8, <1>9 DEF row

(* ... and to the rows of those it is the turn of. *)
LEMMA ToldEffect ==
  ASSUME TypeOK, SendPage
  PROVE  /\ Told(NoticeRow) \subseteq Users
         /\ \A u \in Told(NoticeRow) : /\ u \in NoticeRow.cursor + 1..PageEnd(NoticeRow)
                                       /\ u \notin forgotten /\ recipient[u] = None
         /\ \A u \in Users :
              recipient'[u] = IF u \in Told(NoticeRow)
                                THEN IF settings.mail THEN "queued" ELSE "queue_failed"
                                ELSE recipient[u]
         /\ \A u \in Users :
              mailed'[u] = IF u \in Told(NoticeRow) /\ settings.mail
                             THEN mailed[u] + 1 ELSE mailed[u]
         /\ recipient' \in [Users -> {None, "queued", "queue_failed"}]
         /\ mailed' \in [Users -> Nat]
         /\ UNCHANGED <<settings, people, undelivered, clock, troubles>>
<1> DEFINE told == Told(NoticeRow)
<1>1. /\ told \subseteq Users
      /\ \A u \in told : /\ u \in NoticeRow.cursor + 1..PageEnd(NoticeRow)
                         /\ u \notin forgotten /\ recipient[u] = None
  BY TheTold
<1>2. /\ recipient' = [u \in Users |->
            IF u \notin told THEN recipient[u]
            ELSE IF settings.mail THEN "queued" ELSE "queue_failed"]
      /\ mailed' = [u \in Users |-> mailed[u] + (IF u \in told /\ settings.mail THEN 1 ELSE 0)]
      /\ UNCHANGED <<settings, people, undelivered, clock, troubles>>
  BY DEF SendPage
<1>3. recipient \in [Users -> {None, "queued", "queue_failed"}] /\ mailed \in [Users -> Nat]
  BY DEF TypeOK
<1> HIDE DEF told
<1>4. \A u \in Users : mailed'[u] = IF u \in told /\ settings.mail
                                      THEN mailed[u] + 1 ELSE mailed[u]
  BY <1>2, <1>3
<1>5. recipient' \in [Users -> {None, "queued", "queue_failed"}] /\ mailed' \in [Users -> Nat]
  BY <1>2, <1>3
<1>6. \A u \in Users :
         recipient'[u] = IF u \in told THEN IF settings.mail THEN "queued" ELSE "queue_failed"
                         ELSE recipient[u]
  BY <1>2
<1> QED BY <1>1, <1>2, <1>4, <1>5, <1>6 DEF told

(* What a purge of old rows does: some rows go, and with the last of them the row
   of the notice. *)
LEMMA PurgeEffect ==
  ASSUME TypeOK, PurgeExpiredLegalNotices
  PROVE  /\ aged
         /\ recipient' \in [Users -> {None, "queued", "queue_failed"}]
         /\ \A u \in Users : recipient'[u] # None => recipient'[u] = recipient[u]
         /\ \/ UNCHANGED <<notice, aged, renewals>>
            \/ /\ notice' = None /\ aged' = FALSE /\ renewals' = renewals + 1
               /\ \A u \in Users : recipient'[u] = None
         /\ UNCHANGED <<settings, people, alerting, undelivered, troubles, calls, mailed, purges>>
<1>1. PICK expired \in SUBSET {u \in Users : recipient[u] # None} :
        /\ recipient' = [u \in Users |-> IF u \in expired THEN None ELSE recipient[u]]
        /\ IF \E u \in Users : recipient'[u] # None
           THEN UNCHANGED <<notice, aged, renewals>>
           ELSE notice' = None /\ aged' = FALSE /\ renewals' = renewals + 1
  BY DEF PurgeExpiredLegalNotices
<1>2. recipient \in [Users -> {None, "queued", "queue_failed"}]
  BY DEF TypeOK
<1>3. /\ recipient' \in [Users -> {None, "queued", "queue_failed"}]
      /\ \A u \in Users : recipient'[u] # None => recipient'[u] = recipient[u]
  BY <1>1, <1>2
<1> QED BY <1>1, <1>3 DEF PurgeExpiredLegalNotices
-----------------------------------------------------------------------------
(* Typing *)

(* It holds when the system starts ... *)
LEMMA TypeInit == Init => TypeOK
<1> SUFFICES ASSUME Init PROVE TypeOK
  OBVIOUS
<1>1. settings \in [Settings -> BOOLEAN]
  BY DEF Init
<1>2. recipient \in [Users -> {None, "queued", "queue_failed"}] /\ mailed \in [Users -> Nat]
  BY DEF Init
<1>3. alert \in [Keys -> AlertStatuses \cup {None}]
  BY DEF Init
<1>4. /\ calls \in 0..MaxCalls /\ troubles \in 0..MaxTroubles
      /\ purges \in Nat /\ renewals \in Nat /\ purges + renewals <= MaxPurges
      /\ ~aged
  BY BatchAssumption, BoundsAssumption DEF Init
<1>5. accounts \in 0..MaxUsers /\ forgotten \subseteq 1..accounts /\ undelivered \subseteq Users
  BY DEF Init
<1> QED BY <1>1, <1>2, <1>3, <1>4, <1>5 DEF Init, TypeOK

(* ... and after every step: what each action may have changed. *)
LEMMA TypeStep == TypeOK /\ [Next]_vars => TypeOK'
<1> SUFFICES ASSUME TypeOK, [Next]_vars PROVE TypeOK'
  OBVIOUS
<1>1. CASE SweepLegalNotices
  BY <1>1, BatchAssumption DEF SweepLegalNotices, TypeOK, people, alerting, clock
<1>2. CASE Unsendable
  <2>1. alert' \in [Keys -> AlertStatuses \cup {None}]
    BY <1>2, RaiseEffect DEF Unsendable
  <2>2. calls' \in 0..MaxCalls
    BY <1>2, BatchAssumption DEF Unsendable, TypeOK
  <2> QED BY <1>2, <2>1, <2>2 DEF Unsendable, TypeOK, people, clock
<1>3. CASE AlreadyFinished
  BY <1>3, BatchAssumption DEF AlreadyFinished, TypeOK, people, alerting, clock
<1>4. CASE SendPage
  <2>1. alert' \in [Keys -> AlertStatuses \cup {None}]
    <3>1. ReportFailures \/ UNCHANGED alerting
      BY <1>4 DEF SendPage
    <3>2. (\E k : RaiseAlert(k)) \/ UNCHANGED alerting
      BY <3>1 DEF ReportFailures
    <3> QED BY <3>2, RaiseEffect DEF TypeOK, alerting
  <2>2. /\ notice' \in NoticeRows /\ notice'.cutoff = NoticeRow.cutoff
        /\ notice'.cursor \in 0..notice'.cutoff /\ calls' \in 0..MaxCalls
    BY <1>4, PageEffect
  <2>3. notice'.cutoff \in 0..accounts
    BY <2>2, TheNoticeRow
  <2>4. /\ recipient' \in [Users -> {None, "queued", "queue_failed"}]
        /\ mailed' \in [Users -> Nat]
        /\ UNCHANGED <<settings, people, undelivered, clock, troubles>>
    BY <1>4, ToldEffect
  <2> QED BY <2>1, <2>2, <2>3, <2>4 DEF TypeOK, people, clock
<1>5. CASE RetryPending
  <2>1. alert' \in [Keys -> AlertStatuses \cup {None}]
    <3>1. PICK tried : alert' = [k \in Keys |-> IF k \in tried THEN Enqueued ELSE alert[k]]
      BY <1>5 DEF RetryPending
    <3>2. Enqueued \in AlertStatuses
      BY DEF Enqueued, AlertStatuses
    <3> QED BY <3>1, <3>2 DEF TypeOK
  <2> QED BY <1>5, <2>1 DEF RetryPending, TypeOK, people, mailing, clock
<1>6. CASE PurgeExpiredAlerts
  <2>1. alert' \in [Keys -> AlertStatuses \cup {None}] /\ undelivered' \subseteq Users
    BY <1>6 DEF PurgeExpiredAlerts, TypeOK
  <2>2. /\ purges' \in Nat /\ purges' + renewals' <= MaxPurges
        /\ aged' => purges' + renewals' < MaxPurges
    BY <1>6, BoundsAssumption DEF PurgeExpiredAlerts, HasPurge, TypeOK, clock
  <2> QED BY <1>6, <2>1, <2>2 DEF PurgeExpiredAlerts, TypeOK, people, mailing
<1>7. CASE SixYearsPass
  BY <1>7 DEF SixYearsPass, HasPurge, TypeOK, people, mailing, alerting
<1>8. CASE PurgeExpiredLegalNotices
  <2>1. recipient' \in [Users -> {None, "queued", "queue_failed"}]
    BY <1>8, PurgeEffect
  <2>2. /\ renewals' \in Nat /\ purges' + renewals' <= MaxPurges
        /\ aged' => purges' + renewals' < MaxPurges
    <3>1. purges' = purges /\ aged
      BY <1>8, PurgeEffect
    <3>2. MaxPurges \in Nat
      BY BoundsAssumption
    <3>3. /\ purges \in Nat /\ renewals \in Nat /\ purges + renewals < MaxPurges
      BY <3>1 DEF TypeOK
    <3>4. UNCHANGED renewals \/ (aged' = FALSE /\ renewals' = renewals + 1)
      BY <1>8, PurgeEffect
    <3> QED BY <3>1, <3>2, <3>3, <3>4
  <2>3. notice' # None => UNCHANGED notice
    BY <1>8, PurgeEffect
  <2>4. aged' \in BOOLEAN
    BY <1>8, PurgeEffect DEF TypeOK
  <2> QED BY <1>8, <2>1, <2>2, <2>3, <2>4, PurgeEffect DEF TypeOK, people, alerting
<1>9. CASE \E u \in Users, event \in EmailEvents :
             RecipientEvent(u, event)
  <2>1. PICK u \in Users, event \in EmailEvents :
          RecipientEvent(u, event)
    BY <1>9
  <2>2. alert' \in [Keys -> AlertStatuses \cup {None}]
    BY <2>1, RaiseEffect DEF RecipientEvent, TypeOK, alerting
  <2> QED BY <2>1, <2>2 DEF RecipientEvent, TypeOK, people, mailing, clock
<1>10. CASE \E m \in Streams : \/ NoticeNotSent(m)
                               \/ \E event \in EmailEvents :
                                    UnmatchedEvent(m, event)
  <2>1. PICK k : RaiseAlert(k) /\ UNCHANGED <<settings, people, mailing, undelivered, clock, troubles>>
    BY <1>10 DEF NoticeNotSent, UnmatchedEvent
  <2>2. alert' \in [Keys -> AlertStatuses \cup {None}]
    BY <2>1, RaiseEffect
  <2> QED BY <2>1, <2>2 DEF TypeOK, people, mailing, clock
<1>11. CASE SignUp
  <2>1. accounts' \in 0..MaxUsers /\ accounts < accounts'
    BY <1>11, BatchAssumption DEF SignUp, TypeOK
  <2>2. notice # None => notice.cutoff \in 0..accounts'
    BY <2>1, BatchAssumption DEF TypeOK, NoticeRows
  <2>3. forgotten' \subseteq 1..accounts'
    BY <1>11, <2>1, BatchAssumption DEF SignUp, TypeOK
  <2> QED BY <1>11, <2>1, <2>2, <2>3 DEF SignUp, TypeOK, mailing, alerting, clock
<1>12. CASE \E u \in Users : DeletionFinishes(u)
  BY <1>12 DEF DeletionFinishes, TypeOK, mailing, alerting, clock
<1>13. CASE Reconfigure
  <2>1. settings' \in [Settings -> BOOLEAN]
    BY <1>13 DEF Reconfigure, TypeOK
  <2>2. troubles' \in 0..MaxTroubles
    BY <1>13, BoundsAssumption DEF Reconfigure, TypeOK
  <2> QED BY <1>13, <2>1, <2>2 DEF Reconfigure, TypeOK, people, mailing, alerting, clock
<1>14. CASE UNCHANGED vars
  BY <1>14 DEF vars, TypeOK, people, mailing, alerting, clock
<1> QED BY <1>1, <1>2, <1>3, <1>4, <1>5, <1>6, <1>7, <1>8, <1>9, <1>10, <1>11, <1>12,
           <1>13, <1>14 DEF Next
-----------------------------------------------------------------------------
(* The walk *)

(* A step that leaves the notice and its rows alone: all but a page and what the
   years do. *)
Elsewhere == UNCHANGED <<notice, recipient, mailed, aged, renewals>>

(* Every step is a page, the years passing, a purge of old rows, or elsewhere; and
   no account is forgotten any less. *)
LEMMA WalkSteps ==
  ASSUME TypeOK, [Next]_vars
  PROVE  /\ SendPage \/ SixYearsPass \/ PurgeExpiredLegalNotices \/ Elsewhere
         /\ forgotten \subseteq forgotten'
<1>1. SendPage \/ SixYearsPass \/ PurgeExpiredLegalNotices \/ Elsewhere
  BY DEF Next, vars, Elsewhere, SweepLegalNotices, Unsendable, AlreadyFinished, RetryPending,
     PurgeExpiredAlerts, RecipientEvent, UnmatchedEvent, NoticeNotSent, SignUp,
     DeletionFinishes, Reconfigure, mailing, clock
<1>2. forgotten \subseteq forgotten'
  BY DEF Next, vars, SweepLegalNotices, Unsendable, AlreadyFinished, SendPage, SixYearsPass,
     PurgeExpiredLegalNotices, RetryPending, PurgeExpiredAlerts, RecipientEvent,
     UnmatchedEvent, NoticeNotSent, SignUp, DeletionFinishes, Reconfigure, people
<1> QED BY <1>1, <1>2

(* Nobody has a row while there is no row of the notice. *)
LEMMA RowsStep ==
  ASSUME TypeOK, RowsOfANotice, [Next]_vars
  PROVE  RowsOfANotice'
<1>1. CASE SendPage
  BY <1>1, PageEffect DEF RowsOfANotice
<1>2. CASE SixYearsPass
  BY <1>2 DEF SixYearsPass, RowsOfANotice, mailing
<1>3. CASE PurgeExpiredLegalNotices
  BY <1>3, PurgeEffect DEF RowsOfANotice
<1>4. CASE Elsewhere
  BY <1>4 DEF Elsewhere, RowsOfANotice
<1> QED BY <1>1, <1>2, <1>3, <1>4, WalkSteps

(* The walk comes to one account after another. *)
LEMMA WalkStep ==
  ASSUME TypeOK, RowsOfANotice, WalkInv, [Next]_vars
  PROVE  WalkInv'
<1>1. CASE SendPage
  <2>1. \A u \in Users : recipient'[u] # None => u <= notice'.cutoff
    <3> SUFFICES ASSUME NEW u \in Users, recipient'[u] # None PROVE u <= notice'.cutoff
      OBVIOUS
    <3>1. notice'.cutoff = NoticeRow.cutoff
      BY <1>1, PageEffect
    <3>2. CASE u \in Told(NoticeRow)
      <4>1. u \in NoticeRow.cursor + 1..PageEnd(NoticeRow)
        BY <1>1, <3>2, ToldEffect
      <4> QED BY <3>1, <4>1, TheNoticeRow, BatchAssumption DEF NoticeRows, Users
    <3>3. CASE u \notin Told(NoticeRow)
      <4>1. recipient[u] # None
        BY <1>1, <3>3, ToldEffect
      <4>2. notice # None /\ u <= notice.cutoff
        BY <4>1 DEF RowsOfANotice, WalkInv
      <4> QED BY <3>1, <4>2, TheNoticeRow
    <3> QED BY <3>2, <3>3
  <2>2. ASSUME ~aged', NEW u \in (1..Reached') \ forgotten' PROVE recipient'[u] # None
    <3>1. Reached' = PageEnd(NoticeRow) /\ ~NoticeRow.finished
      BY <1>1, PageEffect
    <3>2. ~aged /\ u \notin forgotten
      BY <1>1, <2>2 DEF SendPage, clock, people
    <3>3. PageEnd(NoticeRow) \in Nat /\ NoticeRow.cursor \in Nat /\ NoticeRow.cutoff <= MaxUsers
            /\ PageEnd(NoticeRow) <= NoticeRow.cutoff /\ NoticeRow.cutoff \in Nat
      <4>1. accounts \in 0..MaxUsers /\ MaxUsers \in Nat
        BY BatchAssumption DEF TypeOK
      <4> QED BY <4>1, TheNoticeRow
    <3>4. u \in Users
      BY <2>2, <3>1, <3>3, BatchAssumption DEF Users
    <3>5. CASE u \in Told(NoticeRow)
      BY <1>1, <3>4, <3>5, ToldEffect, NoneAssumption DEF AlertStatuses
    <3>6. CASE u \notin Told(NoticeRow)
      <4>1. recipient'[u] = recipient[u]
        BY <1>1, <3>4, <3>6, ToldEffect
      <4>2. CASE u > NoticeRow.cursor
        <5>1. u \in NoticeRow.cursor + 1..PageEnd(NoticeRow)
          BY <2>2, <3>1, <3>3, <4>2
        <5>2. recipient[u] # None
          BY <3>2, <3>6, <5>1 DEF Told
        <5> QED BY <4>1, <5>2
      <4>3. CASE u <= NoticeRow.cursor
        <5>0. u \in Nat \ {0}
          BY <3>4 DEF Users
        <5>1. notice # None /\ NoticeRow = notice
          <6>1. NoticeRow.cursor # 0
            BY <3>3, <4>3, <5>0
          <6> QED BY <6>1, TheNoticeRow
        <5>2. u \in 1..Reached
          BY <2>2, <3>1, <3>3, <4>3, <5>1 DEF Reached
        <5> QED BY <3>2, <4>1, <5>1, <5>2 DEF WalkInv
      <4> QED BY <2>2, <3>1, <3>3, <4>2, <4>3
    <3> QED BY <3>5, <3>6
  <2> QED BY <2>1, <2>2 DEF WalkInv
<1>2. CASE SixYearsPass
  BY <1>2 DEF SixYearsPass, WalkInv, mailing
<1>3. CASE PurgeExpiredLegalNotices
  <2> SUFFICES ASSUME notice' # None PROVE WalkInv'
    BY DEF WalkInv
  <2>1. UNCHANGED <<notice, aged>> /\ aged
    BY <1>3, PurgeEffect
  <2>2. \A u \in Users : recipient'[u] # None => recipient[u] # None
    BY <1>3, PurgeEffect
  <2> QED BY <2>1, <2>2 DEF WalkInv
<1>4. CASE Elsewhere
  BY <1>4, WalkSteps DEF Elsewhere, WalkInv, Reached
<1> QED BY <1>1, <1>2, <1>3, <1>4, WalkSteps

(* Whoever is mailed was not yet up. *)
LEMMA MailedStep ==
  ASSUME TypeOK, MailedInv, [Next]_vars
  PROVE  MailedInv'
<1>0. mailed \in [Users -> Nat] /\ renewals \in Nat
  BY DEF TypeOK
<1>1. CASE SendPage
  <2> SUFFICES ASSUME NEW u \in Users
               PROVE  mailed'[u] <= renewals' + (IF notice' # None /\ u <= Reached' THEN 1 ELSE 0)
    BY DEF MailedInv
  <2>1. /\ Reached' = PageEnd(NoticeRow) /\ ~NoticeRow.finished /\ notice' # None
    BY <1>1, PageEffect
  <2>2. PageEnd(NoticeRow) \in Nat /\ NoticeRow.cursor \in Nat
          /\ NoticeRow.cursor <= PageEnd(NoticeRow)
    BY TheNoticeRow, BatchAssumption DEF NoticeRows
  <2>3. u \in Nat /\ renewals' = renewals /\ mailed[u] \in Nat
    BY <1>0, <1>1 DEF Users, SendPage, clock
  <2>4. notice # None => NoticeRow = notice /\ Reached = NoticeRow.cursor
    BY <2>1, TheNoticeRow DEF Reached
  <2>5. mailed[u] <= renewals + (IF notice # None /\ u <= Reached THEN 1 ELSE 0)
    BY DEF MailedInv
  <2>6. CASE u \in Told(NoticeRow)
    <3>1. u > NoticeRow.cursor /\ u <= PageEnd(NoticeRow)
      BY <1>1, <2>2, <2>6, ToldEffect
    <3>2. mailed[u] <= renewals
      BY <1>0, <2>2, <2>3, <2>4, <2>5, <3>1
    <3>3. mailed'[u] <= mailed[u] + 1
      BY <1>1, <2>3, ToldEffect
    <3>4. mailed'[u] \in Nat
      BY <1>1, ToldEffect
    <3> QED BY <1>0, <2>1, <2>3, <3>1, <3>2, <3>3, <3>4
  <2>7. CASE u \notin Told(NoticeRow)
    <3>1. mailed'[u] = mailed[u]
      BY <1>1, <2>7, ToldEffect
    <3>2. notice # None /\ u <= Reached => u <= Reached'
      BY <2>1, <2>2, <2>3, <2>4
    <3> QED BY <1>0, <2>1, <2>3, <2>5, <3>1, <3>2
  <2> QED BY <2>6, <2>7
<1>2. CASE SixYearsPass
  BY <1>2 DEF SixYearsPass, MailedInv, mailing, Reached
<1>3. CASE PurgeExpiredLegalNotices
  <2>1. CASE UNCHANGED <<notice, aged, renewals>>
    BY <1>3, <2>1, PurgeEffect DEF MailedInv, Reached
  <2>2. CASE notice' = None /\ renewals' = renewals + 1
    <3> SUFFICES ASSUME NEW u \in Users PROVE mailed'[u] <= renewals'
      BY <1>0, <2>2 DEF MailedInv
    <3>1. mailed'[u] = mailed[u] /\ mailed[u] \in Nat
      BY <1>0, <1>3, PurgeEffect
    <3>2. mailed[u] <= renewals + 1
      BY <1>0, <3>1 DEF MailedInv
    <3> QED BY <2>2, <3>1, <3>2
  <2> QED BY <1>3, <2>1, <2>2, PurgeEffect
<1>4. CASE Elsewhere
  BY <1>4 DEF Elsewhere, MailedInv, Reached
<1> QED BY <1>1, <1>2, <1>3, <1>4, WalkSteps

(* A page counts what it mails. *)
LEMMA CountStep ==
  ASSUME TypeOK, RowsOfANotice, CountInv, [Next]_vars
  PROVE  CountInv'
<1>1. CASE SendPage
  <2> DEFINE told == Told(NoticeRow)
  <2>0. Queued' = IF settings.mail THEN Queued \cup told ELSE Queued
    <3>1. \A u \in told : recipient[u] = None /\ u \in Users
      BY <1>1, ToldEffect
    <3>2. \A u \in Users : recipient'[u] = IF u \in told
                                THEN IF settings.mail THEN "queued" ELSE "queue_failed"
                                ELSE recipient[u]
      BY <1>1, ToldEffect
    <3>3. None # "queued"
      BY NoneAssumption DEF AlertStatuses
    <3> HIDE DEF told
    <3> QED BY <3>1, <3>2, <3>3 DEF Queued
  <2>1. SUFFICES ASSUME ~aged PROVE notice'.count = Cardinality(Queued')
    BY <1>1 DEF CountInv, SendPage, clock
  <2>2. told \subseteq Users /\ Queued \subseteq Users /\ Queued \cap told = {}
    BY <1>1, ToldEffect, NoneAssumption DEF Queued, AlertStatuses
  <2>3. NoticeRow.count = Cardinality(Queued)
    <3>1. CASE notice # None
      BY <2>1, <3>1, TheNoticeRow DEF CountInv
    <3>2. CASE notice = None
      <4>1. Queued = {}
        BY <3>2, NoneAssumption DEF RowsOfANotice, Queued, AlertStatuses
      <4> QED BY <3>2, <4>1, TheNoticeRow, FS_EmptySet
    <3> QED BY <3>1, <3>2
  <2>4. notice'.count = NoticeRow.count + Counted(told)
    BY <1>1, PageEffect
  <2>5. Cardinality(Queued) \in Nat /\ Cardinality(told) \in Nat
    BY <2>2, UserSets
  <2>6. CASE settings.mail
    <3>1. Cardinality(Queued \cup told) = Cardinality(Queued) + Cardinality(told)
      BY <2>2, AddedUsers
    <3> QED BY <2>0, <2>3, <2>4, <2>6, <3>1 DEF Counted
  <2>7. CASE ~settings.mail
    <3>1. notice'.count = Cardinality(Queued) + 0
      BY <2>3, <2>4, <2>7 DEF Counted
    <3>2. Queued' = Queued
      BY <2>0, <2>7
    <3> QED BY <2>5, <3>1, <3>2
  <2> QED BY <2>6, <2>7
<1>2. CASE SixYearsPass
  BY <1>2 DEF SixYearsPass, CountInv
<1>3. CASE PurgeExpiredLegalNotices
  BY <1>3, PurgeEffect DEF CountInv
<1>4. CASE Elsewhere
  BY <1>4 DEF Elsewhere, CountInv, Queued
<1> QED BY <1>1, <1>2, <1>3, <1>4, WalkSteps

(* The invariant holds when the system starts ... *)
LEMMA NoticeInit == Init => NoticeInv
<1> SUFFICES ASSUME Init PROVE NoticeInv
  OBVIOUS
<1>1. RowsOfANotice /\ WalkInv /\ CountInv
  BY DEF Init, RowsOfANotice, WalkInv, CountInv
<1>2. MailedInv
  BY DEF Init, MailedInv
<1> QED BY <1>1, <1>2, TypeInit DEF NoticeInv

(* ... and always. *)
LEMMA NoticeInvHolds == Spec => []NoticeInv
<1>1. NoticeInv /\ [Next]_vars => NoticeInv'
  BY TypeStep, RowsStep, WalkStep, MailedStep, CountStep DEF NoticeInv
<1> QED BY <1>1, NoticeInit, PTL DEF Spec

(* The type invariant of notices and alerts, for any number of accounts and any
   size of page or batch. *)
THEOREM NoticesTypeCorrect == Spec => []TypeOK
<1>1. NoticeInv => TypeOK
  BY DEF NoticeInv
<1> QED BY <1>1, NoticeInvHolds, PTL

(* However many walks share the cursor, a notice reaches the accounts that existed
   when its send began, and no others. *)
THEOREM ReachesThoseOwedCorrect == Spec => []ReachesThoseOwed
<1>1. NoticeInv => ReachesThoseOwed
  <2> SUFFICES ASSUME NoticeInv, notice # None
               PROVE  /\ {u \in Users : recipient[u] # None} \subseteq 1..notice.cutoff
                      /\ notice.finished /\ ~aged =>
                           \A u \in (1..notice.cutoff) \ forgotten : recipient[u] # None
    BY DEF ReachesThoseOwed
  <2>1. {u \in Users : recipient[u] # None} \subseteq 1..notice.cutoff
    BY DEF NoticeInv, WalkInv, TypeOK, NoticeRows, Users
  <2>2. notice.finished => Reached = notice.cutoff
    BY DEF Reached
  <2> QED BY <2>1, <2>2 DEF NoticeInv, WalkInv
<1> QED BY <1>1, NoticeInvHolds, PTL

(* The evidence of a notice is what was mailed, and nobody is mailed twice for one
   row of the notice. *)
THEOREM EvidenceAgreesCorrect == Spec => []EvidenceAgrees
<1>1. NoticeInv => EvidenceAgrees
  <2> SUFFICES ASSUME NoticeInv PROVE EvidenceAgrees
    OBVIOUS
  <2>1. mailed \in [Users -> Nat] /\ renewals \in Nat
    BY DEF NoticeInv, TypeOK
  <2>2. \A u \in Users : mailed[u] <= 1 + renewals
    BY <2>1 DEF NoticeInv, MailedInv
  <2> QED BY <2>2 DEF NoticeInv, CountInv, Queued, EvidenceAgrees
<1> QED BY <1>1, NoticeInvHolds, PTL
-----------------------------------------------------------------------------
(* Alerts *)

(* Only their expiry deletes alerts. *)
LEMMA AlertsStay ==
  ASSUME TypeOK, [Next]_vars, ~PurgeExpiredAlerts
  PROVE  /\ \A j \in Keys : alert[j] # None => alert'[j] # None
         /\ purges' = purges
<1>1. CASE (\E k : RaiseAlert(k)) \/ UNCHANGED alerting
  <2>1. \A j \in Keys : alert[j] # None => alert'[j] # None
    BY <1>1, RaiseEffect DEF alerting
  <2>2. purges' = purges
    BY DEF Next, vars, SweepLegalNotices, Unsendable, AlreadyFinished, SendPage, SixYearsPass,
       PurgeExpiredLegalNotices, RetryPending, RecipientEvent, UnmatchedEvent, NoticeNotSent,
       SignUp, DeletionFinishes, Reconfigure, clock
  <2> QED BY <2>1, <2>2
<1>2. CASE RetryPending
  <2>1. PICK tried : alert' = [k \in Keys |-> IF k \in tried THEN Enqueued ELSE alert[k]]
    BY <1>2 DEF RetryPending
  <2>2. Enqueued # None
    BY NoneAssumption DEF Enqueued, AlertStatuses
  <2> QED BY <1>2, <2>1, <2>2 DEF RetryPending, clock
<1>3. (\E k : RaiseAlert(k)) \/ UNCHANGED alerting \/ RetryPending
  BY DEF Next, vars, SweepLegalNotices, Unsendable, AlreadyFinished, SendPage, ReportFailures,
     SixYearsPass, PurgeExpiredLegalNotices, RecipientEvent, UnmatchedEvent, NoticeNotSent,
     SignUp, DeletionFinishes, Reconfigure
<1> QED BY <1>1, <1>2, <1>3

(* A failure to deliver has an alert until that expires. *)
LEMMA UndeliveredStep ==
  ASSUME TypeOK, [Next]_vars, \A u \in undelivered : alert[UndeliveredKey(u)] # None
  PROVE  \A u \in undelivered' : alert'[UndeliveredKey(u)] # None
<1>1. \A u \in Users : UndeliveredKey(u) \in Keys
  BY DEF Keys
<1>2. undelivered \subseteq Users /\ undelivered' \subseteq Users
  BY TypeStep DEF TypeOK
<1>3. CASE PurgeExpiredAlerts
  <2>1. PICK expired : /\ alert' = [k \in Keys |-> IF k \in expired THEN None ELSE alert[k]]
                       /\ undelivered' = {u \in undelivered : UndeliveredKey(u) \notin expired}
    BY <1>3 DEF PurgeExpiredAlerts
  <2> QED BY <1>1, <1>2, <2>1
<1>4. CASE \E u \in Users, event \in EmailEvents :
             RecipientEvent(u, event)
  <2>1. PICK u \in Users, event \in EmailEvents :
          RecipientEvent(u, event)
    BY <1>4
  <2>2. \A v \in undelivered : alert'[UndeliveredKey(v)] # None
    BY <1>1, <1>2, <2>1, RaiseEffect DEF RecipientEvent, alerting
  <2>3. CASE DeliveryFailed(event)
    <3>1. alert'[UndeliveredKey(u)] # None
      BY <1>1, <2>1, <2>3, RaiseEffect DEF RecipientEvent
    <3> QED BY <2>1, <2>2, <2>3, <3>1 DEF RecipientEvent, DeliveryFailed
  <2>4. CASE ~DeliveryFailed(event)
    BY <2>1, <2>2, <2>4 DEF RecipientEvent, DeliveryFailed
  <2> QED BY <2>3, <2>4
<1>5. CASE ~PurgeExpiredAlerts /\ undelivered' = undelivered
  BY <1>1, <1>2, <1>5, AlertsStay
<1>6. \/ PurgeExpiredAlerts \/ undelivered' = undelivered
      \/ \E u \in Users, event \in EmailEvents :
           RecipientEvent(u, event)
  BY DEF Next, vars, SweepLegalNotices, Unsendable, AlreadyFinished, SendPage, SixYearsPass,
     PurgeExpiredLegalNotices, RetryPending, UnmatchedEvent, NoticeNotSent,
     SignUp, DeletionFinishes, Reconfigure
<1> QED BY <1>3, <1>4, <1>5, <1>6

(* When the walk has ended with rows that never went out there is an alert. *)
LEMMA FailedStep ==
  ASSUME TypeOK, RowsOfANotice, FailuresAreReported, [Next]_vars,
         purges' = 0, notice' # None, notice'.finished, ~aged',
         NEW u \in Users, recipient'[u] = "queue_failed"
  PROVE  alert'[<<"failed">>] # None
<1>1. <<"failed">> \in Keys
  BY DEF Keys
<1>2. ~PurgeExpiredAlerts
  <2>1. purges \in Nat
    BY DEF TypeOK
  <2>2. PurgeExpiredAlerts => purges' = purges + 1
    BY DEF PurgeExpiredAlerts
  <2> QED BY <2>1, <2>2
<1>3. purges = 0 /\ \A j \in Keys : alert[j] # None => alert'[j] # None
  BY <1>2, AlertsStay
<1>4. CASE SendPage
  <2>1. PICK done \in BOOLEAN :
          /\ notice' = [AfterPage(NoticeRow, done) EXCEPT !.count = @ + Counted(Told(NoticeRow))]
          /\ IF done THEN ReportFailures ELSE UNCHANGED alerting
    BY <1>4 DEF SendPage
  <2>2. notice'.finished = done
    BY <2>1, TheNoticeRow DEF AfterPage, NoticeRows
  <2>3. RaiseAlert(<<"failed">>)
    BY <2>1, <2>2 DEF ReportFailures
  <2> QED BY <1>1, <2>3, RaiseEffect
<1>5. CASE SixYearsPass
  BY <1>5 DEF SixYearsPass
<1>6. CASE PurgeExpiredLegalNotices
  BY <1>6, PurgeEffect
<1>7. CASE Elsewhere
  BY <1>1, <1>3, <1>7 DEF Elsewhere, FailuresAreReported
<1> QED BY <1>4, <1>5, <1>6, <1>7, WalkSteps

(* An account that is known not to have been reached is brought to staff's
   attention, whatever is retried, renewed or forgotten meanwhile. *)
THEOREM FailuresAreReportedCorrect == Spec => []FailuresAreReported
<1>1. Init => FailuresAreReported
  BY DEF Init, FailuresAreReported
<1>2. NoticeInv /\ FailuresAreReported /\ [Next]_vars => FailuresAreReported'
  <2> SUFFICES ASSUME NoticeInv, FailuresAreReported, [Next]_vars PROVE FailuresAreReported'
    OBVIOUS
  <2>1. TypeOK /\ RowsOfANotice
    BY DEF NoticeInv
  <2>2. \A u \in undelivered' : alert'[UndeliveredKey(u)] # None
    BY <2>1, UndeliveredStep DEF FailuresAreReported
  <2>3. purges' = 0 /\ notice' # None /\ notice'.finished /\ ~aged' =>
          ((\E u \in Users : recipient'[u] = "queue_failed") => alert'[<<"failed">>] # None)
    BY <2>1, FailedStep
  <2> QED BY <2>2, <2>3 DEF FailuresAreReported, UndeliveredKey
<1> QED BY <1>1, <1>2, NoticeInvHolds, PTL DEF Spec
=============================================================================
