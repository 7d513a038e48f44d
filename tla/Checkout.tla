------------------------------ MODULE Checkout ------------------------------
(***************************************************************************)
(* How a payment becomes a box.  A customer reserves a slug (an intent),   *)
(* pays for it in a session the payment service, Polar, keeps, and is      *)
(* given a box when Polar's `order.paid` arrives.  Polar and this system   *)
(* share no transaction: webhooks come late, twice and in any order, the   *)
(* handlers stop between their calls, sessions and reservations end by     *)
(* clocks of their own, and slugs and servers are raced for meanwhile.     *)
(*                                                                         *)
(* A session opens at most one order and one subscription, so the three    *)
(* are one sale here, numbered by its session.  A box is numbered by the   *)
(* intent it was made from.  The metadata Polar hands back names the       *)
(* intent of a sale.                                                       *)
(***************************************************************************)
EXTENDS FiniteSets, Naturals

CONSTANTS
  Users, Slugs,
  NoUser, NoSlug,
  MaxIntents,     \* bound on reservations ever made
  MaxSales,       \* bound on sessions ever opened
  MaxTroubles,    \* bound on what comes in between, of every kind together
  ServerLimit,    \* packages the deployment may commit
  MaxActive,      \* maxActiveCheckoutIntentsPerUser
  PaysOnce,       \* whether a customer pays only one session of a reservation
  AttachRaces     \* whether an order may be handled while a session for its
                  \* reservation is still being opened

Intents == 1..MaxIntents
Sales == 1..MaxSales

ASSUME BoundsAssumption ==
  MaxIntents \in Nat /\ MaxSales \in Nat /\ MaxTroubles \in Nat
ASSUME LimitsAssumption == ServerLimit \in Nat /\ MaxActive \in Nat \ {0}
ASSUME NamesAssumption ==
  NoUser \notin Users /\ NoSlug \notin Slugs \cup Intents /\ Slugs \cap Intents = {}
ASSUME SwitchesAssumption == PaysOnce \in BOOLEAN /\ AttachRaces \in BOOLEAN

VARIABLES
  status,    \* status[i] of the intent, "none" before it exists
  owner,     \* owner[i]: its user_id, which its box inherits
  slug,      \* slug[i]; i itself stands for `deleted-<i>`
  session,   \* session[i]: polar_checkout_id, 0 for none
  order,     \* order[i]: polar_initial_order_id, 0 for none
  reason,    \* reason[i]: release_reason, "none" for those that decide nothing
  box,       \* box[i]: the box made from the intent
  boxSlug,   \* boxSlug[i]: its slug
  paidBy,    \* paidBy[i]: its polar_subscription_id
  reserved,  \* reserved[i]: reserved_slug of its slug change
  admitted,  \* leaving users with a createCheckout past its account check
  opening,   \* intents a createCheckout is opening a session for
  alerted,   \* sales an alert has asked staff to refund by hand
  polar,     \* polar[s]: the session at Polar
  intentOf,  \* intentOf[s]: the intent its metadata names
  money,     \* money[s]: the order
  sub,       \* sub[s]: the subscription
  events,    \* webhooks not acknowledged yet
  handler,   \* handler[s]: calls that handlers of the sale still have to make
  deletion,  \* deletion[u] of the account
  troubles   \* what came in between so far

intentVars == <<status, owner, slug, session, order, reason>>
boxVars == <<box, boxSlug, paidBy, reserved>>
callVars == <<admitted, opening, alerted>>
polarVars == <<polar, intentOf, money, sub>>
vars == <<intentVars, boxVars, callVars, polarVars, events, handler, deletion,
          troubles>>

(* The type invariant: what a row, a sale and a call may hold *)
TypeOK ==
  /\ status \in [Intents -> {"none", "active", "expired", "released", "converted"}]
  /\ owner \in [Intents -> Users \cup {NoUser}]
  /\ slug \in [Intents -> Slugs \cup Intents \cup {NoSlug}]
  /\ session \in [Intents -> 0..MaxSales]
  /\ order \in [Intents -> 0..MaxSales]
  /\ reason \in [Intents -> {"none", "account_deleted", "capacity_unavailable",
                            "order_fully_refunded", "slug_conflict"}]
  /\ box \in [Intents -> {"none", "creating", "refunding", "create_failed",
                          "idle", "renaming", "deleting", "deleted"}]
  /\ boxSlug \in [Intents -> Slugs \cup Intents \cup {NoSlug}]
  /\ paidBy \in [Intents -> 0..MaxSales]
  /\ reserved \in [Intents -> Slugs \cup {NoSlug}]
  /\ admitted \subseteq Users
  /\ opening \subseteq Intents
  /\ alerted \subseteq Sales
  /\ polar \in [Sales -> {"none", "created", "open", "closed", "paid", "flawed"}]
  /\ intentOf \in [Sales -> 0..MaxIntents]
  /\ money \in [Sales -> {"none", "paid", "refunded"}]
  /\ sub \in [Sales -> {"none", "active", "ended"}]
  /\ events \subseteq {"paid", "closed", "refunded", "revoked"} \X Sales
  /\ handler \in [Sales -> SUBSET {"convert", "refuse", "refund", "end"}]
  /\ deletion \in [Users -> {"no", "pending", "ready", "finished"}]
  /\ troubles \in 0..MaxTroubles

Init ==
  /\ status = [i \in Intents |-> "none"]
  /\ owner = [i \in Intents |-> NoUser]
  /\ slug = [i \in Intents |-> NoSlug]
  /\ session = [i \in Intents |-> 0]
  /\ order = [i \in Intents |-> 0]
  /\ reason = [i \in Intents |-> "none"]
  /\ box = [i \in Intents |-> "none"]
  /\ boxSlug = [i \in Intents |-> NoSlug]
  /\ paidBy = [i \in Intents |-> 0]
  /\ reserved = [i \in Intents |-> NoSlug]
  /\ admitted = {}
  /\ opening = {}
  /\ alerted = {}
  /\ polar = [s \in Sales |-> "none"]
  /\ intentOf = [s \in Sales |-> 0]
  /\ money = [s \in Sales |-> "none"]
  /\ sub = [s \in Sales |-> "none"]
  /\ events = {}
  /\ handler = [s \in Sales |-> {}]
  /\ deletion = [u \in Users |-> "no"]
  /\ troubles = 0
-----------------------------------------------------------------------------
(* What a sale can do without happens at most MaxTroubles times *)
Trouble ==
  /\ troubles < MaxTroubles
  /\ troubles' = troubles + 1
-----------------------------------------------------------------------------
(* Slugs and capacity *)

Live(i) == box[i] \notin {"none", "deleted"}
Held(i) == status[i] = "active" /\ box[i] = "none"

(* slugAvailability.ts: boxes, reservations and renames share one namespace *)
Holders(sl) ==
  {<<"box", i>> : i \in {j \in Intents : Live(j) /\ boxSlug[j] = sl}}
    \cup {<<"intent", i>> : i \in {j \in Intents : status[j] = "active" /\ slug[j] = sl}}
    \cup {<<"operation", i>> : i \in {j \in Intents : reserved[j] = sl}}

(* A bug the run must catch: renames not asked about *)
AvailableButForRenames(sl, mine) ==
  Holders(sl) \ ({"operation"} \X Intents) \subseteq mine

Available(sl, mine) == Holders(sl) \subseteq mine

(* readCapacityUsage, in whole packages *)
Committed ==
  Cardinality({i \in Intents : Live(i)}) + Cardinality({i \in Intents : Held(i)})

(* A bug the run must catch: one package too many *)
HasRoomForOneMore == Committed =< ServerLimit

HasRoom == Committed < ServerLimit
-----------------------------------------------------------------------------
(* Reservations *)

(* releaseIntentDoc, for every intent of a set *)
Release(is, st, why) ==
  /\ status' = [i \in Intents |-> IF i \in is THEN st ELSE status[i]]
  /\ reason' = [i \in Intents |-> IF i \in is THEN why ELSE reason[i]]
  /\ UNCHANGED <<owner, slug, session, order>>

(* createCheckout's account check, a transaction before the reservation: a call
   that made it in time goes on after the deletion was asked for *)
Admitted(u) == deletion[u] = "no" \/ u \in admitted

OwnReservation(u, sl) ==
  {i \in Intents : status[i] = "active" /\ owner[i] = u /\ slug[i] = sl}

ActiveOf(u) == {i \in Intents : status[i] = "active" /\ owner[i] = u}

(* reservationsToRelease: the oldest give way to the new one *)
Superseded(u) ==
  {i \in ActiveOf(u) :
     Cardinality({j \in ActiveOf(u) : j > i}) >= MaxActive - 1}

(* MaxSales: a session is left for one more call *)
SessionLeft ==
  Cardinality(opening) < Cardinality({s \in Sales : polar[s] = "none"})

(* reserveCheckoutIntent, without a reservation to resume *)
ReserveCheckoutIntent(u, sl) ==
  /\ Admitted(u)
  /\ SessionLeft
  /\ OwnReservation(u, sl) = {}
  /\ Available(sl, {})
  /\ HasRoom
  /\ \E i \in Intents :
       /\ status[i] = "none"
       /\ \A j \in Intents : j < i => status[j] # "none"
       /\ status' = [k \in Intents |-> CASE k = i -> "active"
                                         [] k \in Superseded(u) -> "released"
                                         [] OTHER -> status[k]]
       /\ owner' = [owner EXCEPT ![i] = u]
       /\ slug' = [slug EXCEPT ![i] = sl]
       /\ opening' = opening \cup {i}
  /\ admitted' = admitted \ {u}
  /\ UNCHANGED <<session, order, reason, boxVars, alerted, polarVars, events,
                 handler, deletion, troubles>>

(* checkoutResumption = "none": no order known of, and no session within its
   time.  The session's time is Polar's: past it nobody can pay any more, but
   may have paid before. *)
NeedsSession(i) ==
  /\ order[i] = 0
  /\ \A s \in Sales : session[i] = s => polar[s] \in {"closed", "paid", "flawed"}

(* reserveCheckoutIntent, with one that needs another session *)
ResumeCheckoutIntent(u, sl) ==
  /\ Admitted(u)
  /\ Available(sl, {<<"intent", i>> : i \in OwnReservation(u, sl)})
  /\ \E i \in OwnReservation(u, sl) :
       /\ NeedsSession(i)
       /\ SessionLeft
       /\ opening' = opening \cup {i}
  /\ admitted' = admitted \ {u}
  /\ UNCHANGED <<intentVars, boxVars, alerted, polarVars, events, handler,
                 deletion, troubles>>

(* Polar creates the session, and has told nobody yet *)
CreateCheckoutSession(i) ==
  /\ i \in opening
  /\ opening' = opening \ {i}
  /\ \E s \in Sales :
       /\ polar[s] = "none"
       /\ \A t \in Sales : t < s => polar[t] # "none"
       /\ polar' = [polar EXCEPT ![s] = "created"]
       /\ intentOf' = [intentOf EXCEPT ![s] = i]
  /\ UNCHANGED <<intentVars, boxVars, admitted, alerted, money, sub, events,
                 handler, deletion, troubles>>

(* attachPolarCheckout, which looks at nothing before it writes *)
AttachPolarCheckout(s) ==
  /\ polar[s] = "created"
  /\ polar' = [polar EXCEPT ![s] = "open"]
  /\ session' = [session EXCEPT ![intentOf[s]] = s]
  /\ UNCHANGED <<status, owner, slug, order, reason, boxVars, callVars, intentOf,
                 money, sub, events, handler, deletion, troubles>>

(* createCheckout's catch: Polar refused, or attaching failed *)
CheckoutCreationFails(i) ==
  /\ Trouble
  /\ \/ /\ i \in opening
        /\ opening' = opening \ {i}
        /\ UNCHANGED polar
     \/ \E s \in Sales :
          /\ polar[s] = "created"
          /\ intentOf[s] = i
          /\ polar' = [polar EXCEPT ![s] = "closed"]
          /\ UNCHANGED opening
  /\ Release({i} \cap {j \in Intents : Held(j)}, "released", "none")
  /\ UNCHANGED <<boxVars, admitted, alerted, intentOf, money, sub, events,
                 handler, deletion>>

(* createCheckout stops for good before it has attached a session *)
CheckoutDies(i) ==
  /\ Trouble
  /\ i \in opening
  /\ opening' = opening \ {i}
  /\ UNCHANGED <<intentVars, boxVars, admitted, alerted, polarVars, events,
                 handler, deletion>>

(* releaseCheckoutIntent, by staff *)
StaffReleaseCheckoutIntent(i) ==
  /\ Trouble
  /\ Held(i)
  /\ Release({i}, "released", "none")
  /\ UNCHANGED <<boxVars, callVars, polarVars, events, handler, deletion>>

(* releaseExpiredCheckoutIntents: any deadline may have passed *)
ReleaseExpiredCheckoutIntents(expired) ==
  /\ Trouble
  /\ expired # {}
  /\ \A i \in expired : status[i] = "active"
  /\ Release(expired, "expired", "none")
  /\ UNCHANGED <<boxVars, callVars, polarVars, events, handler, deletion>>
-----------------------------------------------------------------------------
(* Polar *)

(* A customer pays: a "flawed" order lacks the Terms or names a product that
   is not sold.  An order may, though it should not, open no
   subscription. *)
Pay(s) ==
  /\ polar[s] = "open"
  /\ PaysOnce => \A t \in Sales : intentOf[t] = intentOf[s] => money[t] = "none"
  /\ \E p \in {"paid", "flawed"} : polar' = [polar EXCEPT ![s] = p]
  /\ money' = [money EXCEPT ![s] = "paid"]
  /\ \/ sub' = [sub EXCEPT ![s] = "active"] /\ UNCHANGED troubles
     \/ Trouble /\ UNCHANGED sub
  /\ events' = events \cup {<<"paid", s>>}
  /\ UNCHANGED <<intentVars, boxVars, callVars, intentOf, handler, deletion>>

SessionCloses(s) ==
  /\ Trouble
  /\ polar[s] = "open"
  /\ polar' = [polar EXCEPT ![s] = "closed"]
  /\ events' = events \cup {<<"closed", s>>}
  /\ UNCHANGED <<intentVars, boxVars, callVars, intentOf, money, sub, handler,
                 deletion>>

(* A subscription ends, and Polar says so if it had not *)
EndSubscriptions(ss) ==
  /\ sub' = [s \in Sales |-> IF s \in ss /\ sub[s] = "active" THEN "ended" ELSE sub[s]]
  /\ events' = events \cup {<<"revoked", s>> : s \in {t \in ss : sub[t] = "active"}}

(* The customer cancels and the paid period is over, or renewals fail *)
SubscriptionRunsOut(s) ==
  /\ Trouble
  /\ sub[s] = "active"
  /\ EndSubscriptions({s})
  /\ UNCHANGED <<intentVars, boxVars, callVars, polar, intentOf, money, handler,
                 deletion>>

(* Staff, or Polar itself, refund the whole order *)
RefundFromOutside(s) ==
  /\ Trouble
  /\ money[s] = "paid"
  /\ money' = [money EXCEPT ![s] = "refunded"]
  /\ events' = events \cup {<<"refunded", s>>}
  /\ UNCHANGED <<intentVars, boxVars, callVars, polar, intentOf, sub, handler,
                 deletion>>

(* Every webhook whose occasion has come may be sent again *)
Sent ==
  {e \in {"paid", "closed", "refunded", "revoked"} \X Sales :
     CASE e[1] = "paid"     -> polar[e[2]] \in {"paid", "flawed"}
       [] e[1] = "closed"   -> polar[e[2]] = "closed"
       [] e[1] = "refunded" -> money[e[2]] = "refunded"
       [] OTHER             -> sub[e[2]] = "ended"}

Redeliver ==
  /\ Trouble
  /\ \E e \in Sent \ events : events' = events \cup {e}
  /\ UNCHANGED <<intentVars, boxVars, callVars, polarVars, handler, deletion>>

(* A handler stops before its next call, and its webhook stays unanswered *)
HandlerDies(s) ==
  /\ Trouble
  /\ handler[s] # {}
  /\ handler' = [handler EXCEPT ![s] = {}]
  /\ UNCHANGED <<intentVars, boxVars, callVars, polarVars, events, deletion>>
-----------------------------------------------------------------------------
(* Webhooks.  handler[s] holds what handlers of sale s have yet to call: they
   run side by side, and a handler of the same event twice is one that calls
   twice. *)

(* Polar delivers an event no handler is at work on, or impatiently once more *)
Deliver(kind, s, calls) ==
  /\ <<kind, s>> \in events
  /\ \/ handler[s] \cap calls = {} /\ UNCHANGED troubles
     \/ handler[s] \cap calls # {} /\ Trouble

BeingOpened(i) ==
  i \in opening \/ \E s \in Sales : polar[s] = "created" /\ intentOf[s] = i

(* A bug the run must catch: an order known of taken for another one *)
ContradictsItself(s, i) == session[i] \notin {0, s} \/ order[i] # 0

(* paidOrderRecordingStatus, but for intents that were never there *)
Contradicts(s, i) == session[i] \notin {0, s} \/ order[i] \notin {0, s}

(* handlePaidOrder up to recordInitialPaidOrder, and refuseOrder's first call *)
HandlePaidOrder(s) ==
  LET i == intentOf[s]
  IN  /\ sub[s] # "none"
      /\ Deliver("paid", s, {"convert", "refuse", "refund"})
      /\ AttachRaces \/ ~BeingOpened(i)
      /\ IF polar[s] = "flawed" \/ Contradicts(s, i)
         THEN /\ handler' = [handler EXCEPT ![s] = @ \cup {"refuse"}]
              /\ UNCHANGED <<session, order>>
         ELSE /\ handler' = [handler EXCEPT ![s] = @ \cup {"convert"}]
              /\ IF box[i] # "none"
                 THEN UNCHANGED <<session, order>>
                 ELSE /\ session' = [session EXCEPT ![i] = s]
                      /\ order' = [order EXCEPT ![i] = s]
      /\ UNCHANGED <<status, owner, slug, reason, boxVars, callVars,
                     polarVars, events, deletion>>

Answered(s) == events' = events \ {<<"paid", s>>}

(* handlePaidOrder of an order without a subscription raises an alert, and that
   is all *)
AlertUnsubscribedOrder(s) ==
  /\ sub[s] = "none"
  /\ <<"paid", s>> \in events
  /\ alerted' = alerted \cup {s}
  /\ Answered(s)
  /\ UNCHANGED <<intentVars, boxVars, admitted, opening, polarVars, handler, deletion,
                 troubles>>

(* A bug the run must catch: a refusal that is not repeated *)
MoneyIsBackAnyway == {"order_fully_refunded", "capacity_unavailable"}

(* UNFULFILLABLE: the reasons with nothing left to refund *)
MoneyIsBack == {"order_fully_refunded"}

(* convertCheckoutIntentToBox of a sale decided before *)
RepeatDecision(s) ==
  LET i == intentOf[s]
  IN  /\ "convert" \in handler[s]
      /\ box[i] # "none" \/ reason[i] # "none"
      /\ IF box[i] = "none" /\ reason[i] \notin MoneyIsBack
         THEN /\ handler' = [handler EXCEPT ![s] = (@ \ {"convert"}) \cup {"refuse"}]
              /\ UNCHANGED events
         ELSE /\ handler' = [handler EXCEPT ![s] = @ \ {"convert"}]
              /\ Answered(s)
      /\ UNCHANGED <<intentVars, boxVars, callVars, polarVars, deletion, troubles>>

(* A bug the run must catch: late orders passed over *)
UndecidedInTime(s) ==
  /\ "convert" \in handler[s]
  /\ box[intentOf[s]] = "none"
  /\ status[intentOf[s]] = "active"

Undecided(s) ==
  /\ "convert" \in handler[s]
  /\ box[intentOf[s]] = "none"
  /\ reason[intentOf[s]] = "none"

(* refuseSale.  Staff may have paused sales, so a late order may always be
   refused for want of capacity, and is when there is none. *)
RefuseSale(s) ==
  LET i == intentOf[s]
  IN  /\ Undecided(s)
      /\ \/ /\ status[i] # "active"
            /\ Release({i}, "released", "capacity_unavailable")
         \/ /\ status[i] = "active" \/ HasRoom
            /\ ~Available(slug[i], {<<"intent", i>>})
            /\ Release({i}, "released", "slug_conflict")
      /\ handler' = [handler EXCEPT ![s] = (@ \ {"convert"}) \cup {"refuse"}]
      /\ UNCHANGED <<boxVars, callVars, polarVars, events, deletion, troubles>>

(* convertCheckoutIntentToBox, with the create operation it starts *)
ConvertCheckoutIntentToBox(s) ==
  LET i == intentOf[s]
  IN  /\ Undecided(s)
      /\ status[i] = "active" \/ HasRoom
      /\ Available(slug[i], {<<"intent", i>>})
      /\ status' = [status EXCEPT ![i] = "converted"]
      /\ box' = [box EXCEPT ![i] = "creating"]
      /\ boxSlug' = [boxSlug EXCEPT ![i] = slug[i]]
      /\ paidBy' = [paidBy EXCEPT ![i] = s]
      /\ handler' = [handler EXCEPT ![s] = @ \ {"convert"}]
      /\ Answered(s)
      /\ UNCHANGED <<owner, slug, session, order, reason, reserved, callVars,
                     polarVars, deletion, troubles>>

(* revokeAndRefundPolarOrder: first the subscription ... *)
RevokeUnfulfilled(s) ==
  /\ "refuse" \in handler[s]
  /\ handler' = [handler EXCEPT ![s] = (@ \ {"refuse"}) \cup {"refund"}]
  /\ EndSubscriptions({s})
  /\ UNCHANGED <<intentVars, boxVars, callVars, polar, intentOf, money, deletion,
                 troubles>>

(* ... then what is left of the money *)
RefundUnfulfilled(s) ==
  /\ "refund" \in handler[s]
  /\ handler' = [handler EXCEPT ![s] = @ \ {"refund"}]
  /\ money' = [money EXCEPT ![s] = "refunded"]
  /\ events' = (events \ {<<"paid", s>>})
                 \cup IF money[s] = "paid" THEN {<<"refunded", s>>} ELSE {}
  /\ UNCHANGED <<intentVars, boxVars, callVars, polar, intentOf, sub, deletion,
                 troubles>>

(* handleRefundedOrder has nothing to end without a subscription *)
PassOverRefundedOrder(s) ==
  /\ sub[s] = "none"
  /\ <<"refunded", s>> \in events
  /\ events' = events \ {<<"refunded", s>>}
  /\ UNCHANGED <<intentVars, boxVars, callVars, polarVars, handler, deletion, troubles>>

(* handleRefundedOrder: the reservation, if it is still open ... *)
HandleRefundedOrder(s) ==
  /\ sub[s] # "none"
  /\ Deliver("refunded", s, {"end"})
  /\ Release({intentOf[s]} \cap {i \in Intents : Held(i)}, "released",
             "order_fully_refunded")
  /\ handler' = [handler EXCEPT ![s] = @ \cup {"end"}]
  /\ UNCHANGED <<boxVars, callVars, polarVars, events, deletion>>

(* A bug the run must catch: the subscription left to go on *)
RevokeNothing(s) ==
  /\ "end" \in handler[s]
  /\ handler' = [handler EXCEPT ![s] = @ \ {"end"}]
  /\ events' = events \ {<<"refunded", s>>}
  /\ UNCHANGED <<intentVars, boxVars, callVars, polarVars, deletion, troubles>>

(* ... then the subscription *)
RevokeRefunded(s) ==
  /\ "end" \in handler[s]
  /\ handler' = [handler EXCEPT ![s] = @ \ {"end"}]
  /\ sub' = [sub EXCEPT ![s] = "ended"]
  /\ events' = (events \ {<<"refunded", s>>})
                 \cup IF sub[s] = "active" THEN {<<"revoked", s>>} ELSE {}
  /\ UNCHANGED <<intentVars, boxVars, callVars, polar, intentOf, money, deletion,
                 troubles>>

(* handleClosedCheckout, releaseCheckoutIntentByPolarCheckout *)
HandleClosedCheckout(s) ==
  /\ <<"closed", s>> \in events
  /\ events' = events \ {<<"closed", s>>}
  /\ Release({i \in Intents : session[i] = s /\ Held(i)}, "expired", "none")
  /\ UNCHANGED <<boxVars, callVars, polarVars, handler, deletion, troubles>>
-----------------------------------------------------------------------------
(* Boxes.  The operation lock is module BoxOperation's: here an operation is
   what keeps the next one out. *)

Free(i) == box[i] \in {"idle", "create_failed"}
(* A bug the run must catch: a box that could not be created is not deleted *)
DeletableIdle(is) ==
  [i \in Intents |-> IF i \in is /\ box[i] = "idle" THEN "deleting" ELSE box[i]]
Deletable(is) == [i \in Intents |-> IF i \in is /\ Free(i) THEN "deleting" ELSE box[i]]

(* handleRevokedSubscription: a busy box makes it throw, and Polar try again *)
HandleRevokedSubscription(s) ==
  LET boxes == {i \in Intents : Live(i) /\ paidBy[i] = s}
  IN  /\ <<"revoked", s>> \in events
      /\ \A i \in boxes : Free(i) \/ box[i] = "deleting"
      /\ box' = Deletable(boxes)
      /\ events' = events \ {<<"revoked", s>>}
      /\ UNCHANGED <<intentVars, boxSlug, paidBy, reserved, callVars, polarVars,
                     handler, deletion, troubles>>

(* reconcileBoxDeletion, hourly: a busy box waits for the next sweep *)
ReconcileBoxDeletion(i) ==
  /\ Free(i)
  /\ sub[paidBy[i]] = "ended"
  /\ box' = Deletable({i})
  /\ UNCHANGED <<intentVars, boxSlug, paidBy, reserved, callVars, polarVars, events,
                 handler, deletion, troubles>>

SetBox(i, from, to) ==
  /\ box[i] = from
  /\ box' = [box EXCEPT ![i] = to]

CreateSucceeds(i) ==
  /\ SetBox(i, "creating", "idle")
  /\ UNCHANGED <<intentVars, boxSlug, paidBy, reserved, callVars, polarVars, events,
                 handler, deletion, troubles>>

GivenBack(s) == money[s] = "refunded" /\ sub[s] = "ended"

(* createBox's catch revokes and refunds the order on the intent
   (paidOrderForBox), retrying an attempt that dies ... *)
CreateFails(i) ==
  /\ \/ box[i] = "creating"
     \/ box[i] = "refunding" /\ ~GivenBack(order[i])
  /\ handler[order[i]] \cap {"refuse", "refund"} = {}
  /\ box' = [box EXCEPT ![i] = "refunding"]
  /\ handler' = [handler EXCEPT ![order[i]] = @ \cup {"refuse"}]
  /\ UNCHANGED <<intentVars, boxSlug, paidBy, reserved, callVars, polarVars, events,
                 deletion, troubles>>

(* ... and the operation fails once there is nothing more to give back *)
CreateFailed(i) ==
  /\ SetBox(i, "refunding", "create_failed")
  /\ handler[order[i]] \cap {"refuse", "refund"} = {}
  /\ GivenBack(order[i])
  /\ UNCHANGED <<intentVars, boxSlug, paidBy, reserved, callVars, polarVars, events,
                 handler, deletion, troubles>>

(* changeSlug, as far as startOperation *)
StartSlugChange(i, sl) ==
  /\ Trouble
  /\ SetBox(i, "idle", "renaming")
  /\ deletion[owner[i]] = "no"
  /\ Available(sl, {<<"box", i>>})
  /\ reserved' = [reserved EXCEPT ![i] = sl]
  /\ UNCHANGED <<intentVars, boxSlug, paidBy, callVars, polarVars, events, handler,
                 deletion>>

(* swapSlug *)
SwapSlug(i) ==
  /\ SetBox(i, "renaming", "idle")
  /\ Available(reserved[i], {<<"box", i>>, <<"operation", i>>})
  /\ boxSlug' = [boxSlug EXCEPT ![i] = reserved[i]]
  /\ reserved' = [reserved EXCEPT ![i] = NoSlug]
  /\ UNCHANGED <<intentVars, paidBy, callVars, polarVars, events, handler, deletion,
                 troubles>>

SlugChangeFails(i) ==
  /\ SetBox(i, "renaming", "idle")
  /\ reserved' = [reserved EXCEPT ![i] = NoSlug]
  /\ UNCHANGED <<intentVars, boxSlug, paidBy, callVars, polarVars, events, handler,
                 deletion, troubles>>

(* deleteBox, once one of its runs or finishFailedDeletions gets through *)
BoxIsDeleted(i) ==
  /\ SetBox(i, "deleting", "deleted")
  /\ UNCHANGED <<intentVars, boxSlug, paidBy, reserved, callVars, polarVars, events,
                 handler, deletion, troubles>>
-----------------------------------------------------------------------------
(* Accounts *)

BoxesOf(u) == {i \in Intents : Live(i) /\ owner[i] = u}

(* markAccountDeletionPending *)
MarkAccountDeletionPending(u) ==
  /\ Trouble
  /\ deletion[u] = "no"
  /\ deletion' = [deletion EXCEPT ![u] = "pending"]
  /\ Release({i \in ActiveOf(u) : box[i] = "none"}, "released", "account_deleted")
  /\ \E calls \in {{}, {u}} : admitted' = admitted \cup calls
  /\ UNCHANGED <<boxVars, opening, alerted, polarVars, events, handler>>

(* startDeletionWorkflows, for one of the boxes: the finalizer comes back to
   one that is busy *)
StartDeletionWorkflow(i) ==
  /\ Live(i)
  /\ deletion[owner[i]] = "pending"
  /\ box' = Deletable({i})
  /\ EndSubscriptions({paidBy[i]})
  /\ UNCHANGED <<intentVars, boxSlug, paidBy, reserved, callVars, polar, intentOf,
                 money, handler, deletion, troubles>>

(* accountDeletionReady, a transaction before ... *)
AccountDeletionReady(u) ==
  /\ deletion[u] = "pending"
  /\ BoxesOf(u) = {}
  /\ deletion' = [deletion EXCEPT ![u] = "ready"]
  /\ UNCHANGED <<intentVars, boxVars, callVars, polarVars, events, handler, troubles>>

(* ... finishAccountDeletion *)
FinishAccountDeletion(u) ==
  /\ deletion[u] = "ready"
  /\ deletion' = [deletion EXCEPT ![u] = "finished"]
  /\ slug' = [i \in Intents |-> IF owner[i] = u THEN i ELSE slug[i]]
  /\ UNCHANGED <<status, owner, session, order, reason, boxVars, callVars,
                 polarVars, events, handler, troubles>>
-----------------------------------------------------------------------------
(* Behaviours *)

CustomersAct ==
  \/ \E u \in Users : MarkAccountDeletionPending(u)
  \/ \E u \in Users, sl \in Slugs :
       ReserveCheckoutIntent(u, sl) \/ ResumeCheckoutIntent(u, sl)
  \/ \E s \in Sales : Pay(s) \/ SubscriptionRunsOut(s) \/ RefundFromOutside(s)
  \/ \E i \in Intents, sl \in Slugs : StartSlugChange(i, sl)

ThingsGoWrong ==
  \/ Redeliver
  \/ \E s \in Sales : HandlerDies(s) \/ SessionCloses(s)
  \/ \E i \in Intents :
       CheckoutDies(i) \/ StaffReleaseCheckoutIntent(i)
  \/ \E is \in SUBSET Intents : ReleaseExpiredCheckoutIntents(is)

CheckoutCalls ==
  \/ \E i \in Intents : CreateCheckoutSession(i) \/ CheckoutCreationFails(i)
  \/ \E s \in Sales : AttachPolarCheckout(s)

Webhooks ==
  \E s \in Sales :
    \/ HandlePaidOrder(s) \/ AlertUnsubscribedOrder(s) \/ PassOverRefundedOrder(s)
    \/ RepeatDecision(s) \/ RefuseSale(s)
    \/ ConvertCheckoutIntentToBox(s) \/ RevokeUnfulfilled(s) \/ RefundUnfulfilled(s)
    \/ HandleRefundedOrder(s) \/ RevokeRefunded(s) \/ HandleClosedCheckout(s)
    \/ HandleRevokedSubscription(s)

Workflows ==
  \E i \in Intents :
    CreateSucceeds(i) \/ CreateFails(i) \/ CreateFailed(i) \/ BoxIsDeleted(i)

Renames == \E i \in Intents : SwapSlug(i) \/ SlugChangeFails(i)

Sweeps ==
  \/ \E i \in Intents : ReconcileBoxDeletion(i) \/ StartDeletionWorkflow(i)
  \/ \E u \in Users : AccountDeletionReady(u) \/ FinishAccountDeletion(u)

Next ==
  \/ CustomersAct \/ ThingsGoWrong \/ CheckoutCalls \/ Webhooks \/ Workflows
  \/ Renames \/ Sweeps

Spec == Init /\ [][Next]_vars

(* Calls and workflows go on, Polar sends a webhook until it is answered, and
   the sweeps' crons fire; which of them comes first is left open. *)
Fairness ==
  /\ WF_vars(CheckoutCalls \/ Webhooks \/ Workflows \/ Sweeps)
  /\ WF_vars(Renames)

FairSpec == Spec /\ Fairness
-----------------------------------------------------------------------------
(* Properties *)

(* Two holders of one slug are a box and its own rename: the namespace is
   shared by boxes, reservations and renames, each checked and taken by a
   mutation of its own (slugAvailability.ts). *)
SlugsAreExclusive ==
  \A sl \in Slugs : \A h, g \in Holders(sl) : h[2] = g[2]

(* Late orders take back the package their reservation has lost, or none. *)
CapacityNotOversold == Committed =< ServerLimit

HasBox(s) == \E i \in Intents : paidBy[i] = s

(* An order whose webhook was answered has a box or has been given back, but
   for one that opened no subscription: staff have been told to refund it.
   webhooks.ts says of handlePaidOrder, without the exception, "There is no
   third outcome" (README, section 6). *)
OrdersAreAccountedFor ==
  \A s \in Sales :
    money[s] = "paid" /\ <<"paid", s>> \notin events
      => IF sub[s] = "none" THEN s \in alerted ELSE HasBox(s)

(* Whatever is delivered again, and however often, an order that has its box
   is not refused. *)
FulfilledOrdersAreKept ==
  \A i \in Intents :
    box[i] \in {"creating", "idle", "renaming"}
      => handler[paidBy[i]] \cap {"refuse", "refund"} = {}

(* No box outlives the account it belongs to. *)
DeletedAccountsOwnNoBox ==
  \A i \in Intents : Live(i) => deletion[owner[i]] # "finished"

(* A customer who paid has a box or the money in the end, or is on the list of
   those to whom staff owe it: only orders without a subscription are. *)
PaidOrdersSettle ==
  \A s \in Sales :
    money[s] = "paid"
      ~> (money[s] = "refunded" \/ HasBox(s) \/ (sub[s] = "none" /\ s \in alerted))

(* A box goes when its order was refunded or its subscription ended, also when
   the order is converted only after that. *)
BoxesFollowTheirSubscription ==
  \A i \in Intents :
    Live(i) /\ (money[paidBy[i]] = "refunded" \/ sub[paidBy[i]] = "ended")
      ~> box[i] = "deleted"

(* An account that asked to go is gone in the end, with the boxes that late
   payments still bring it. *)
AccountDeletionsFinish ==
  \A u \in Users : deletion[u] = "pending" ~> deletion[u] = "finished"
=============================================================================
