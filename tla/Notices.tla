------------------------------ MODULE Notices -------------------------------
(***************************************************************************)
(* One legal notice on its way to every account, and the alerts that tell  *)
(* staff what went wrong.                                                  *)
(*                                                                         *)
(* A notice is walked over the accounts a page at a time, each page one    *)
(* transaction that schedules the next; a sweep schedules the first one    *)
(* again every 15 minutes whether or not a walk is under way.  Each        *)
(* account told has a row of its own, as each alert has, and later e-mail  *)
(* events are matched to a row by the message they are about.  Notices to  *)
(* the owner of a box and to an account holder leave no row.               *)
(*                                                                         *)
(* The mail component and the provider are seen as the code uses them: the *)
(* component takes a message or throws, and for a message it took events   *)
(* arrive in any order and any number of times.  An event that is kept on  *)
(* its row for staff to read changes nothing else and is left out, as are  *)
(* subjects, texts and severities.                                         *)
(***************************************************************************)
EXTENDS Naturals, FiniteSets, Sequences, SequencesExt

CONSTANTS MaxUsers,     \* bound on accounts, which are 1, 2, ... by created_at
          Streams,      \* mail that keeps no row: of "box", "account"
          None,         \* no row
          PageSize,     \* NOTICE_PAGE_SIZE
          RetryBatch,   \* RETRY_BATCH
          MaxCalls,     \* bound on scheduled runs of sendLegalNotice
          MaxTroubles,  \* bound on changes of the deployment's mail settings
          MaxPurges     \* bound on purges, of the notice or of alerts

ASSUME BatchAssumption == {PageSize, RetryBatch, MaxCalls, MaxUsers} \subseteq Nat \ {0}
ASSUME BoundsAssumption == {MaxTroubles, MaxPurges} \subseteq Nat
ASSUME StreamsAssumption == Streams \subseteq {"box", "account"}

VARIABLES
  settings,    \* accountsSender, alertsSender, staff to mail, a component that takes mail
  accounts,    \* how many accounts there are
  forgotten,   \* accounts whose deletion has finished
  calls,       \* runs of sendLegalNotice that are scheduled
  notice,      \* the row of legal_notices, or None
  recipient,   \* recipient[u]: status of the row of legal_notice_recipients, or None
  alert,       \* alert[k]: status of the row of staff_alerts with key k, or None
  waiting,     \* the keys of alerts not handed over, by created_at
  aged,        \* six years have passed since the notice began
  renewals,    \* how often its row has been deleted
  mailed,      \* mailed[u]: how often the notice went out to u (history)
  undelivered, \* accounts of whose notice a failure was reported (history)
  purges, troubles

mailing == <<calls, notice, recipient, mailed>>
alerting == <<alert, waiting>>
people == <<accounts, forgotten>>
clock == <<aged, renewals, purges>>
vars == <<settings, people, mailing, alerting, undelivered, clock, troubles>>

Users == 1..MaxUsers

Settings == {"accounts", "alerts", "staff", "mail"}

(* Alert keys: legal-notice-unsendable, legal-notice-failed,
   legal-notice-undelivered:<recipient>, owner-notice-undelivered:<message>, and
   customerEmailAlertKey, whose window of six hours is left out *)
UndeliveredKey(u) == <<"undelivered", u>>
UnmatchedKey(m) == <<"unmatched", m>>
NotSentKey(m) == <<"not_sent", m>>
Keys ==
  {<<"unsendable">>, <<"failed">>} \cup {UndeliveredKey(u) : u \in Users}
    \cup {UnmatchedKey(m) : m \in Streams} \cup {NotSentKey(m) : m \in Streams}

AlertStatuses == {"queued", "disabled", "no_recipients", "queue_failed"}

(* The row of legal_notices *)
NoticeRows == [cutoff : Nat, cursor : Nat, finished : BOOLEAN, count : Nat]

ASSUME NoneAssumption == None \notin AlertStatuses \cup NoticeRows

(* The type invariant: the row of the notice, and the bounds *)
TypeOK ==
  /\ settings \in [Settings -> BOOLEAN]
  /\ accounts \in 0..MaxUsers /\ forgotten \subseteq 1..accounts
  /\ calls \in 0..MaxCalls
  /\ notice # None => /\ notice \in NoticeRows
                      /\ notice.cutoff \in 0..accounts /\ notice.cursor \in 0..notice.cutoff
  /\ recipient \in [Users -> {None, "queued", "queue_failed"}]
  /\ alert \in [Keys -> AlertStatuses \cup {None}]
  /\ undelivered \subseteq Users
  /\ mailed \in [Users -> Nat]
  /\ aged \in BOOLEAN /\ purges \in Nat /\ renewals \in Nat
  /\ purges + renewals <= MaxPurges /\ (aged => purges + renewals < MaxPurges)
  /\ troubles \in 0..MaxTroubles

(* A deployment that has all it needs to send mail, but for one thing perhaps *)
Init ==
  /\ \E missing \in {{}} \cup {{s} : s \in Settings} :
       settings = [s \in Settings |-> s \notin missing]
  /\ accounts \in 0..MaxUsers
  /\ forgotten = {} /\ calls = 0 /\ notice = None
  /\ recipient = [u \in Users |-> None]
  /\ alert = [k \in Keys |-> None] /\ waiting = <<>>
  /\ undelivered = {} /\ mailed = [u \in Users |-> 0]
  /\ aged = FALSE /\ renewals = 0 /\ purges = 0 /\ troubles = 0
-----------------------------------------------------------------------------
(* Alerts *)

(* What enqueueAlert makes of an alert *)
Enqueued ==
  IF ~settings.alerts THEN "disabled"
  ELSE IF ~settings.staff THEN "no_recipients"
  ELSE IF ~settings.mail THEN "queue_failed"
  ELSE "queued"

(* raiseAlert: one row per key, and only its first raise is mailed. *)
RaiseAlert(k) ==
  IF alert[k] # None THEN UNCHANGED alerting
  ELSE /\ alert' = [alert EXCEPT ![k] = Enqueued]
       /\ waiting' = IF Enqueued = "queued" THEN waiting ELSE Append(waiting, k)

(* The oldest alerts of one status, as many as there is room for; those in tried
   have been enqueued again by then. *)
Oldest(status, tried, room) ==
  LET list == SelectSeq(waiting, LAMBDA k :
                (IF k \in tried THEN Enqueued ELSE alert[k]) = status)
  IN  ToSet(SubSeq(list, 1, IF Len(list) < room THEN Len(list) ELSE room))

(* A bug the runs must catch: alerts raised before there was a sender are not retried *)
RetriedWithoutDisabled ==
  LET noRecipients == Oldest("no_recipients", {}, RetryBatch)
  IN  noRecipients \cup Oldest("queue_failed", noRecipients, RetryBatch - Cardinality(noRecipients))

(* The alerts one run of the retry enqueues again: a batch in all, taken status by
   status.  One that moves to a later list is taken again there. *)
Retried ==
  LET disabled == Oldest("disabled", {}, RetryBatch)
      room == RetryBatch - Cardinality(disabled)
      noRecipients == Oldest("no_recipients", disabled, room)
  IN  disabled \cup noRecipients \cup
        Oldest("queue_failed", disabled \cup noRecipients, room - Cardinality(noRecipients))

RetryPending ==
  /\ settings.alerts
  /\ \E tried \in {Retried} :
       /\ alert' = [k \in Keys |-> IF k \in tried THEN Enqueued ELSE alert[k]]
       /\ waiting' = IF Enqueued = "queued" THEN SelectSeq(waiting, LAMBDA k : k \notin tried)
                     ELSE waiting
  /\ UNCHANGED <<settings, people, mailing, undelivered, clock, troubles>>

HasPurge == ~aged /\ purges + renewals < MaxPurges

(* Alerts are deleted 180 days after they were raised. *)
PurgeExpiredAlerts ==
  /\ HasPurge /\ purges' = purges + 1
  /\ \E expired \in SUBSET {k \in Keys : alert[k] # None} \ {{}} :
       /\ alert' = [k \in Keys |-> IF k \in expired THEN None ELSE alert[k]]
       /\ waiting' = SelectSeq(waiting, LAMBDA k : k \notin expired)
       /\ undelivered' = {u \in undelivered : UndeliveredKey(u) \notin expired}
  /\ UNCHANGED <<settings, people, mailing, aged, renewals, troubles>>
-----------------------------------------------------------------------------
(* The walk *)

(* sweepLegalNotices: a call is scheduled for every notice there is *)
SweepLegalNotices ==
  /\ calls < MaxCalls /\ calls' = calls + 1
  /\ UNCHANGED <<settings, people, alerting, undelivered, clock, troubles, notice, recipient, mailed>>

(* noticeRow: the row there is, or a new one whose cutoff is now *)
NoticeRow ==
  IF notice # None THEN notice
  ELSE [cutoff |-> accounts, cursor |-> 0, finished |-> FALSE, count |-> 0]

Unsendable ==
  /\ calls > 0 /\ ~settings.accounts
  /\ calls' = calls - 1
  /\ RaiseAlert(<<"unsendable">>)
  /\ UNCHANGED <<settings, people, undelivered, clock, troubles, notice, recipient, mailed>>

AlreadyFinished ==
  /\ calls > 0 /\ settings.accounts
  /\ NoticeRow.finished
  /\ calls' = calls - 1
  /\ UNCHANGED <<settings, people, alerting, undelivered, clock, troubles, notice, recipient, mailed>>

(* The last account of a page that begins at the cursor *)
PageEnd(row) ==
  IF row.cursor + PageSize < row.cutoff THEN row.cursor + PageSize ELSE row.cutoff

(* A bug the runs must catch: the cutoff read anew for each page, so that accounts
   created during the walk are mailed *)
ToldSinceThen(row) ==
  {u \in row.cursor + 1..accounts : u \notin forgotten /\ recipient[u] = None}

(* Those of a page who are mailed: reachable, and not recorded already *)
Told(row) ==
  {u \in row.cursor + 1..PageEnd(row) : u \notin forgotten /\ recipient[u] = None}

(* A bug the runs must catch: rows are counted, sent or not *)
CountedAll(told) == Cardinality(told)

(* mailRecipient: how many of them the component took *)
Counted(told) == IF settings.mail THEN Cardinality(told) ELSE 0

(* A bug the runs must catch: the end of the walk is not recorded *)
NeverDone(row, done) == [row EXCEPT !.cursor = IF done THEN 0 ELSE PageEnd(row)]

(* The row after a page *)
AfterPage(row, done) ==
  [row EXCEPT !.cursor = IF done THEN 0 ELSE PageEnd(row), !.finished = done]

(* reportFailures: asked once, when the walk ends *)
ReportFailures ==
  IF \E u \in Users : recipient'[u] = "queue_failed"
  THEN RaiseAlert(<<"failed">>) ELSE UNCHANGED alerting

(* sendLegalNotice with a page to walk.  A full page that ends at the cutoff may
   or may not know that it was the last. *)
SendPage ==
  /\ calls > 0 /\ settings.accounts
  /\ LET row == NoticeRow told == Told(NoticeRow) IN
       /\ ~row.finished
       /\ recipient' = [u \in Users |->
            IF u \notin told THEN recipient[u]
            ELSE IF settings.mail THEN "queued" ELSE "queue_failed"]
       /\ mailed' = [u \in Users |-> mailed[u] + (IF u \in told /\ settings.mail THEN 1 ELSE 0)]
       /\ \E done \in BOOLEAN :
            /\ IF done THEN PageEnd(row) = row.cutoff ELSE PageEnd(row) = row.cursor + PageSize
            /\ notice' = [AfterPage(row, done) EXCEPT !.count = @ + Counted(told)]
            /\ calls' = IF done THEN calls - 1 ELSE calls
            /\ IF done THEN ReportFailures ELSE UNCHANGED alerting
  /\ UNCHANGED <<settings, people, undelivered, clock, troubles>>

(* Six years after the walk began its rows may go: the recipients' first, a page
   at a time, and the notice's when none is left. *)
SixYearsPass ==
  /\ notice # None /\ HasPurge
  /\ aged' = TRUE
  /\ UNCHANGED <<settings, people, mailing, alerting, undelivered, troubles, renewals, purges>>

PurgeExpiredLegalNotices ==
  /\ aged
  /\ \E expired \in SUBSET {u \in Users : recipient[u] # None} :
       /\ Cardinality(expired) <= PageSize
       /\ recipient' = [u \in Users |-> IF u \in expired THEN None ELSE recipient[u]]
       /\ IF \E u \in Users : recipient'[u] # None
          THEN UNCHANGED <<notice, aged, renewals>>
          ELSE notice' = None /\ aged' = FALSE /\ renewals' = renewals + 1
  /\ UNCHANGED <<settings, people, alerting, undelivered, troubles, calls, mailed, purges>>
-----------------------------------------------------------------------------
(* E-mail events, matched by the message they are about *)

(* The events recordEmailEvent is called with *)
EmailEvents == {"delivered", "bounced", "failed", "complained"}

(* A bug the runs must catch: a complaint does not count as a failure *)
DeliveryBounced(event) == event = "bounced"

(* deliveryFailed *)
DeliveryFailed(event) == event \in {"bounced", "failed", "complained"}

RecipientEvent(u, event) ==
  /\ recipient[u] = "queued"
  /\ IF DeliveryFailed(event) THEN RaiseAlert(UndeliveredKey(u)) ELSE UNCHANGED alerting
  /\ undelivered' = IF event \in {"bounced", "failed", "complained"}
                      THEN undelivered \cup {u} ELSE undelivered
  /\ UNCHANGED <<settings, people, mailing, clock, troubles>>

(* No row: undeliveredNoticeAlert takes it for a notice to a box's owner.  Such
   mail has gone out at any time. *)
UnmatchedEvent(m, event) ==
  /\ DeliveryFailed(event)
  /\ RaiseAlert(UnmatchedKey(m))
  /\ UNCHANGED <<settings, people, mailing, undelivered, clock, troubles>>

(* sendOwnerNotice, sendAccountNotice: nothing is recorded of mail handed over, and
   mail the component does not take has an alert instead *)
NoticeNotSent(m) ==
  /\ ~settings.mail /\ (m = "account" => settings.accounts)
  /\ RaiseAlert(NotSentKey(m))
  /\ UNCHANGED <<settings, people, mailing, undelivered, clock, troubles>>
-----------------------------------------------------------------------------
(* The world *)

SignUp ==
  /\ accounts < MaxUsers
  /\ accounts' = accounts + 1
  /\ UNCHANGED <<settings, forgotten, mailing, alerting, undelivered, clock, troubles>>

DeletionFinishes(u) ==
  /\ u \in 1..accounts \ forgotten
  /\ forgotten' = forgotten \cup {u}
  /\ UNCHANGED <<settings, accounts, mailing, alerting, undelivered, clock, troubles>>

Reconfigure ==
  /\ troubles < MaxTroubles /\ troubles' = troubles + 1
  /\ \E what \in DOMAIN settings : settings' = [settings EXCEPT ![what] = ~@]
  /\ UNCHANGED <<people, mailing, alerting, undelivered, clock>>

Next ==
  \/ SweepLegalNotices \/ Unsendable \/ AlreadyFinished \/ SendPage
  \/ RetryPending \/ PurgeExpiredAlerts \/ SixYearsPass \/ PurgeExpiredLegalNotices
  \/ \E event \in EmailEvents :
       \/ \E u \in Users : RecipientEvent(u, event)
       \/ \E m \in Streams : UnmatchedEvent(m, event)
  \/ \E m \in Streams : NoticeNotSent(m)
  \/ SignUp \/ \E u \in Users : DeletionFinishes(u)
  \/ Reconfigure

Spec == Init /\ [][Next]_vars

(* The scheduler runs the sweep and the retry at their intervals, and every call
   that is due. *)
FairSpec ==
  /\ Spec
  /\ WF_vars(SweepLegalNotices) /\ WF_vars(RetryPending)
  /\ WF_vars(Unsendable \/ AlreadyFinished \/ SendPage)
-----------------------------------------------------------------------------
(* "A notice reaches the accounts that existed when its send began, and no
   others": when the walk has ended each of those has a row, or asked to be
   forgotten, and at no time has anyone else.  Accounts come and go, the sender
   comes and goes, and several walks run at once over one cursor. *)
ReachesThoseOwed ==
  notice # None =>
    LET owed == 1..notice.cutoff IN
      /\ {u \in Users : recipient[u] # None} \subseteq owed
      /\ notice.finished /\ ~aged => \A u \in owed \ forgotten : recipient[u] # None

(* The evidence agrees with what happened: the number of recipients on the row is
   the number of rows that say so, however many runs of the walk were under way,
   and no account was mailed twice while the notice's row was kept. *)
EvidenceAgrees ==
  /\ notice # None /\ ~aged =>
       notice.count = Cardinality({u \in Users : recipient[u] = "queued"})
  /\ \A u \in Users : mailed[u] <= 1 + renewals

(* An account that is known not to have been reached is brought to staff's
   attention: a failure to deliver has an alert until that expires, and when the
   walk has ended with rows that never went out there is, or was, one for it. *)
FailuresAreReported ==
  /\ \A u \in undelivered : alert[UndeliveredKey(u)] # None
  /\ purges = 0 /\ notice # None /\ notice.finished /\ ~aged =>
       ((\E u \in Users : recipient[u] = "queue_failed")
          => alert[<<"failed">>] # None)

(* With a sender in place for good the walk comes to its end. *)
NoticeFinishes == <>[]settings.accounts => <>(notice # None /\ notice.finished)

AlertsCanLeave == settings.alerts /\ settings.staff /\ settings.mail

(* With a sender, somebody to mail and a component that takes mail, all for
   good, no alert waits for ever, whatever kept it from leaving when it was
   raised and however many wait before it. *)
AlertsLeave ==
  <>[]AlertsCanLeave => \A k \in Keys : []<>(alert[k] \in {None, "queued"})

(* "Fix the sender, then re-run the notice sweep: it [...] picks up exactly the
   accounts that are missing" (what reportFailures tells staff): an account the
   component did not take is mailed once it takes mail again.  The code does not
   keep this. *)
MissedAccountIsPickedUp ==
  <>[](settings.accounts /\ settings.mail) =>
    \A u \in Users : []<>(recipient[u] # "queue_failed")

(* "A notice sends once per account, [...] and re-deploying is a no-op"
   (model/legal.ts).  The code does not keep this past the retention of its
   rows. *)
MailedOnce == \A u \in Users : mailed[u] <= 1

(* The fallback speaks of notices to a box's owner only (alerts.ts).  The code
   does not keep this: notices to an account holder leave no row either. *)
FallbackSpeaksOfOwnerNotices == \A m \in Streams : alert[UnmatchedKey(m)] # None => m = "box"
=============================================================================
