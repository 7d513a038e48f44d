--------------------------- MODULE CheckoutProofs ---------------------------
(***************************************************************************)
(* Theorems about Checkout, for any users, slugs, limits and bounds.       *)
(*                                                                         *)
(* What keeps an order from being decided twice is the order recorded on   *)
(* its reservation: once it is there it never changes (OrderIsTheIntents), *)
(* only a handler of that very order goes on to the conversion             *)
(* (ConvertersAreRecorded), and a handler that refuses an order has a      *)
(* reason nothing takes back (RefusalsAreFounded).                         *)
(***************************************************************************)
EXTENDS Checkout, FiniteSetTheorems, TLAPS

(* A session is opened for an intent that is there *)
SessionsHaveIntents ==
  /\ \A i \in opening : status[i] # "none"
  /\ \A s \in Sales :
       polar[s] # "none" => intentOf[s] \in Intents /\ status[intentOf[s]] # "none"

(* There is an order once a session was paid, and not before *)
OrdersArePaidFor ==
  \A s \in Sales : polar[s] \in {"paid", "flawed"} <=> money[s] # "none"

(* What has been sent, and is being handled, has happened *)
EventsAreReal ==
  \A s \in Sales :
    /\ <<"paid", s>> \in events => money[s] # "none"
    /\ <<"refunded", s>> \in events => money[s] = "refunded"

HandlersAreReal == \A s \in Sales : handler[s] # {} => money[s] # "none"

(* A box has a subscription *)
BoxIsPaid == \A i \in Intents : box[i] # "none" => paidBy[i] \in Sales

TypeInv == TypeOK /\ BoxIsPaid

(* The order recorded on a reservation is one of its own, and complete *)
OrderIsTheIntents ==
  \A i \in Intents :
    order[i] # 0 => intentOf[order[i]] = i /\ polar[order[i]] = "paid"

(* A box was bought with the order recorded on its reservation *)
BoxIsOrdered ==
  \A i \in Intents :
    IF box[i] = "none" THEN paidBy[i] = 0
    ELSE order[i] # 0 /\ paidBy[i] = order[i] /\ status[i] = "converted"

(* Only the recorded order is converted *)
ConvertersAreRecorded ==
  \A s \in Sales : "convert" \in handler[s] => order[intentOf[s]] = s

(* A reservation not made, still open, or turned into a box was not refused *)
OpenIsUnrefused ==
  \A i \in Intents : status[i] \in {"none", "active", "converted"} => reason[i] = "none"

(* A reservation ended by a refund has a refunded sale *)
RefundsAreReal ==
  \A i \in Intents :
    reason[i] = "order_fully_refunded"
      => \E s \in Sales : intentOf[s] = i /\ money[s] = "refunded"

(* What PaysOnce says of sales, of the whole past *)
PaidOnce ==
  \A s, t \in Sales :
    money[s] # "none" /\ money[t] # "none" /\ intentOf[s] = intentOf[t] => s = t

(* A recorded order came from the session the reservation names, and no other
   session is on its way *)
SessionIsTheOrders ==
  \A i \in Intents : order[i] # 0 => session[i] = order[i] /\ ~BeingOpened(i)

(* An order whose webhook was answered has its box or its alert *)
AnswersAreFinal ==
  \A s \in Sales :
    money[s] = "paid" /\ <<"paid", s>> \notin events => HasBox(s) \/ s \in alerted

(* An order without a subscription never gets as far as a handler's calls, nor
   one with it as far as the alert *)
OnlySubscribersAreHandled ==
  /\ \A s \in Sales : handler[s] # {} => sub[s] # "none"
  /\ \A i \in Intents : order[i] # 0 => sub[order[i]] # "none"
  /\ \A s \in alerted : sub[s] = "none" /\ money[s] # "none"

Refusing(s) == handler[s] \cap {"refuse", "refund"} # {}

(* Why an order is being given back, for good *)
Founded(s) ==
  LET i == intentOf[s]
  IN  \/ polar[s] = "flawed"
      \/ Contradicts(s, i)
      \/ box[i] = "none" /\ reason[i] # "none"
      \/ box[i] \in {"refunding", "create_failed", "deleting", "deleted"}

RefusalsAreFounded == \A s \in Sales : Refusing(s) => Founded(s)

SaleInv ==
  /\ TypeOK /\ SessionsHaveIntents /\ OrdersArePaidFor /\ EventsAreReal
  /\ HandlersAreReal /\ OrderIsTheIntents /\ BoxIsOrdered /\ ConvertersAreRecorded
  /\ OpenIsUnrefused
ThirdInv ==
  SaleInv /\ RefundsAreReal /\ PaidOnce /\ AnswersAreFinal /\ OnlySubscribersAreHandled
KeptInv == SaleInv /\ SessionIsTheOrders /\ RefusalsAreFounded

(* Sales and intents are numbered from 1; 0 stands for none. *)
LEMMA SalesAreNumbers == Sales \subseteq 0..MaxSales /\ Intents \subseteq 0..MaxIntents
BY BoundsAssumption DEF Sales, Intents

(* So no sale is taken for none. *)
LEMMA SalesAreNotZero == \A s \in Sales : s # 0
BY BoundsAssumption DEF Sales

(* What there is to a sale that was paid, or is being handled *)
LEMMA PaidSales ==
  ASSUME SaleInv, NEW s \in Sales, money[s] # "none" \/ handler[s] # {}
  PROVE  /\ polar[s] \in {"paid", "flawed"}
         /\ intentOf[s] \in Intents
         /\ money[s] \in {"paid", "refunded"}
<1>1. money[s] # "none"
  BY DEF SaleInv, HandlersAreReal
<1>2. polar[s] \in {"paid", "flawed"} /\ money[s] \in {"paid", "refunded"}
  BY <1>1 DEF SaleInv, TypeOK, OrdersArePaidFor
<1>3. intentOf[s] \in Intents
  BY <1>2 DEF SaleInv, SessionsHaveIntents
<1> QED BY <1>2, <1>3

(* Each step leaves everything typed, given that boxes have subscriptions. *)
LEMMA TypeOKStep ==
  ASSUME TypeOK, BoxIsPaid, [Next]_vars
  PROVE  TypeOK'
<1> USE DEF TypeOK, intentVars, boxVars, callVars, polarVars
<1>1. ASSUME NEW u \in Users, MarkAccountDeletionPending(u) PROVE TypeOK'
  <2>1. admitted' \subseteq Users
    BY <1>1 DEF MarkAccountDeletionPending, Release, ActiveOf
  <2> QED BY <1>1, <2>1, BoundsAssumption DEF MarkAccountDeletionPending,
          Release, Trouble, ActiveOf
<1>2. ASSUME NEW u \in Users, NEW sl \in Slugs, ReserveCheckoutIntent(u, sl)
      PROVE  TypeOK'
  <2>1. opening' \subseteq Intents
    BY <1>2 DEF ReserveCheckoutIntent
  <2>2. admitted' \subseteq Users
    BY <1>2 DEF ReserveCheckoutIntent
  <2> QED BY <1>2, <2>1, <2>2, BoundsAssumption DEF ReserveCheckoutIntent
<1>3. ASSUME NEW u \in Users, NEW sl \in Slugs, ResumeCheckoutIntent(u, sl)
      PROVE  TypeOK'
  <2>1. opening' \subseteq Intents
    BY <1>3 DEF ResumeCheckoutIntent, OwnReservation
  <2>2. admitted' \subseteq Users
    BY <1>3 DEF ResumeCheckoutIntent, OwnReservation
  <2> QED BY <1>3, <2>1, <2>2, BoundsAssumption DEF ResumeCheckoutIntent,
          OwnReservation
<1>4. ASSUME NEW s \in Sales, Pay(s) PROVE TypeOK'
  <2>1. events' \subseteq {"paid", "closed", "refunded", "revoked"} \X Sales
    BY <1>4 DEF Pay
  <2>2. polar' \in [Sales -> {"none", "created", "open", "closed", "paid", "flawed"}]
    BY <1>4 DEF Pay
  <2>3. troubles' \in 0..MaxTroubles /\ sub' \in [Sales -> {"none", "active", "ended"}]
    BY <1>4, BoundsAssumption DEF Pay, Trouble
  <2> QED BY <1>4, <2>1, <2>2, <2>3, BoundsAssumption DEF Pay
<1>5. ASSUME NEW s \in Sales, SubscriptionRunsOut(s) PROVE TypeOK'
  <2>1. events' \subseteq {"paid", "closed", "refunded", "revoked"} \X Sales
    BY <1>5 DEF SubscriptionRunsOut, EndSubscriptions
  <2> QED BY <1>5, <2>1, BoundsAssumption DEF SubscriptionRunsOut,
          EndSubscriptions, Trouble
<1>6. ASSUME NEW s \in Sales, RefundFromOutside(s) PROVE TypeOK'
  <2>1. events' \subseteq {"paid", "closed", "refunded", "revoked"} \X Sales
    BY <1>6 DEF RefundFromOutside
  <2> QED BY <1>6, <2>1, BoundsAssumption DEF RefundFromOutside, Trouble
<1>7. ASSUME Redeliver PROVE TypeOK'
  <2>1. events' \subseteq {"paid", "closed", "refunded", "revoked"} \X Sales
    BY <1>7 DEF Redeliver, Sent
  <2> QED BY <1>7, <2>1, BoundsAssumption DEF Redeliver, Sent, Trouble
<1>8. ASSUME NEW s \in Sales, HandlerDies(s) PROVE TypeOK'
  <2>1. handler' \in [Sales -> SUBSET {"convert", "refuse", "refund", "end"}]
    BY <1>8 DEF HandlerDies
  <2> QED BY <1>8, <2>1, BoundsAssumption DEF HandlerDies, Trouble
<1>9. ASSUME NEW s \in Sales, SessionCloses(s) PROVE TypeOK'
  <2>1. events' \subseteq {"paid", "closed", "refunded", "revoked"} \X Sales
    BY <1>9 DEF SessionCloses
  <2> QED BY <1>9, <2>1, BoundsAssumption DEF SessionCloses, Trouble
<1>10. ASSUME NEW i \in Intents, CheckoutDies(i) PROVE TypeOK'
  <2>1. opening' \subseteq Intents
    BY <1>10 DEF CheckoutDies
  <2> QED BY <1>10, <2>1, BoundsAssumption DEF CheckoutDies, Trouble
<1>11. ASSUME NEW i \in Intents, CreateCheckoutSession(i) PROVE TypeOK'
  <2>1. opening' \subseteq Intents
    BY <1>11 DEF CreateCheckoutSession
  <2>2. polar' \in [Sales -> {"none", "created", "open", "closed", "paid", "flawed"}]
    BY <1>11 DEF CreateCheckoutSession
  <2>3. intentOf' \in [Sales -> 0..MaxIntents]
    BY <1>11, SalesAreNumbers DEF CreateCheckoutSession
  <2> QED BY <1>11, <2>1, <2>2, <2>3, BoundsAssumption DEF
          CreateCheckoutSession
<1>12. ASSUME NEW i \in Intents, CheckoutCreationFails(i) PROVE TypeOK'
  <2>1. opening' \subseteq Intents
    BY <1>12 DEF CheckoutCreationFails, Release, Held
  <2> QED BY <1>12, <2>1, BoundsAssumption DEF CheckoutCreationFails, Release,
          Held, Trouble
<1>13. ASSUME NEW s \in Sales, AttachPolarCheckout(s) PROVE TypeOK'
  <2>1. polar' \in [Sales -> {"none", "created", "open", "closed", "paid", "flawed"}]
    BY <1>13 DEF AttachPolarCheckout
  <2>2. session' \in [Intents -> 0..MaxSales]
    BY <1>13, SalesAreNumbers DEF AttachPolarCheckout
  <2> QED BY <1>13, <2>1, <2>2, BoundsAssumption DEF AttachPolarCheckout
<1>14. ASSUME NEW s \in Sales, HandlePaidOrder(s) PROVE TypeOK'
  <2>1. handler' \in [Sales -> SUBSET {"convert", "refuse", "refund", "end"}]
    BY <1>14 DEF HandlePaidOrder
  <2>2. session' \in [Intents -> 0..MaxSales]
    BY <1>14, SalesAreNumbers DEF HandlePaidOrder
  <2>3. order' \in [Intents -> 0..MaxSales]
    BY <1>14, SalesAreNumbers DEF HandlePaidOrder
  <2>4. troubles' \in 0..MaxTroubles
    BY <1>14, BoundsAssumption DEF HandlePaidOrder, Deliver, Trouble,
       Contradicts
  <2> QED BY <1>14, <2>1, <2>2, <2>3, <2>4, BoundsAssumption DEF
          HandlePaidOrder
<1>15. ASSUME NEW s \in Sales, RepeatDecision(s) PROVE TypeOK'
  <2>1. handler' \in [Sales -> SUBSET {"convert", "refuse", "refund", "end"}]
    BY <1>15 DEF RepeatDecision, Answered, MoneyIsBack
  <2>2. events' \subseteq {"paid", "closed", "refunded", "revoked"} \X Sales
    BY <1>15 DEF RepeatDecision, Answered, MoneyIsBack
  <2> QED BY <1>15, <2>1, <2>2, BoundsAssumption DEF RepeatDecision, Answered,
          MoneyIsBack
<1>16. ASSUME NEW s \in Sales, RefuseSale(s) PROVE TypeOK'
  <2>1. handler' \in [Sales -> SUBSET {"convert", "refuse", "refund", "end"}]
    BY <1>16 DEF RefuseSale, Undecided, Release
  <2> QED BY <1>16, <2>1, BoundsAssumption DEF RefuseSale, Undecided, Release
<1>17. ASSUME NEW s \in Sales, ConvertCheckoutIntentToBox(s) PROVE TypeOK'
  <2>1. status' \in [Intents -> {"none", "active", "expired", "released", "converted"}]
    BY <1>17 DEF ConvertCheckoutIntentToBox
  <2>2. box' \in [Intents -> {"none", "creating", "refunding", "create_failed",
                               "idle", "renaming", "deleting", "deleted"}]
    BY <1>17 DEF ConvertCheckoutIntentToBox
  <2>3. boxSlug' \in [Intents -> Slugs \cup Intents \cup {NoSlug}]
    <3>1. boxSlug' =
            [j \in Intents |-> IF j = intentOf[s] THEN slug[j] ELSE boxSlug[j]]
      BY <1>17 DEF ConvertCheckoutIntentToBox
    <3> QED BY <3>1
  <2>4. paidBy' \in [Intents -> 0..MaxSales]
    BY <1>17, SalesAreNumbers DEF ConvertCheckoutIntentToBox
  <2>5. handler' \in [Sales -> SUBSET {"convert", "refuse", "refund", "end"}]
    BY <1>17 DEF ConvertCheckoutIntentToBox
  <2>6. events' \subseteq {"paid", "closed", "refunded", "revoked"} \X Sales
    BY <1>17 DEF ConvertCheckoutIntentToBox, Undecided, Answered
  <2> QED BY <1>17, <2>1, <2>2, <2>3, <2>4, <2>5, <2>6, BoundsAssumption DEF
          ConvertCheckoutIntentToBox, Undecided, Answered
<1>18. ASSUME NEW s \in Sales, RevokeUnfulfilled(s) PROVE TypeOK'
  <2>1. handler' \in [Sales -> SUBSET {"convert", "refuse", "refund", "end"}]
    BY <1>18 DEF RevokeUnfulfilled, EndSubscriptions
  <2>2. events' \subseteq {"paid", "closed", "refunded", "revoked"} \X Sales
    BY <1>18 DEF RevokeUnfulfilled, EndSubscriptions
  <2> QED BY <1>18, <2>1, <2>2, BoundsAssumption DEF RevokeUnfulfilled,
          EndSubscriptions
<1>19. ASSUME NEW s \in Sales, RefundUnfulfilled(s) PROVE TypeOK'
  <2>1. handler' \in [Sales -> SUBSET {"convert", "refuse", "refund", "end"}]
    BY <1>19 DEF RefundUnfulfilled
  <2>2. events' \subseteq {"paid", "closed", "refunded", "revoked"} \X Sales
    BY <1>19 DEF RefundUnfulfilled
  <2> QED BY <1>19, <2>1, <2>2, BoundsAssumption DEF RefundUnfulfilled
<1>20. ASSUME NEW s \in Sales, HandleRefundedOrder(s) PROVE TypeOK'
  <2>1. handler' \in [Sales -> SUBSET {"convert", "refuse", "refund", "end"}]
    BY <1>20 DEF HandleRefundedOrder, Deliver, Release, Held
  <2> QED BY <1>20, <2>1, BoundsAssumption DEF HandleRefundedOrder, Deliver,
          Trouble, Release, Held
<1>21. ASSUME NEW s \in Sales, RevokeRefunded(s) PROVE TypeOK'
  <2>1. handler' \in [Sales -> SUBSET {"convert", "refuse", "refund", "end"}]
    BY <1>21 DEF RevokeRefunded
  <2>2. events' \subseteq {"paid", "closed", "refunded", "revoked"} \X Sales
    BY <1>21 DEF RevokeRefunded
  <2> QED BY <1>21, <2>1, <2>2, BoundsAssumption DEF RevokeRefunded
<1>22. ASSUME NEW s \in Sales, HandleClosedCheckout(s) PROVE TypeOK'
  <2>1. events' \subseteq {"paid", "closed", "refunded", "revoked"} \X Sales
    BY <1>22 DEF HandleClosedCheckout, Release, Held
  <2> QED BY <1>22, <2>1, BoundsAssumption DEF HandleClosedCheckout, Release,
          Held
<1>23. ASSUME NEW s \in Sales, HandleRevokedSubscription(s) PROVE TypeOK'
  <2>1. events' \subseteq {"paid", "closed", "refunded", "revoked"} \X Sales
    BY <1>23 DEF HandleRevokedSubscription, Deletable, Free, Live
  <2> QED BY <1>23, <2>1, BoundsAssumption DEF HandleRevokedSubscription,
          Deletable, Free, Live
<1>24. ASSUME NEW i \in Intents, CreateFails(i) PROVE TypeOK'
  <2>1. handler' \in [Sales -> SUBSET {"convert", "refuse", "refund", "end"}]
    BY <1>24 DEF CreateFails
  <2> QED BY <1>24, <2>1, BoundsAssumption DEF CreateFails
<1>25. ASSUME NEW i \in Intents, StartDeletionWorkflow(i) PROVE TypeOK'
  <2>1. box' \in [Intents -> {"none", "creating", "refunding", "create_failed",
                               "idle", "renaming", "deleting", "deleted"}]
    BY <1>25 DEF StartDeletionWorkflow, Deletable, Free, EndSubscriptions,
       Live
  <2>2. sub' \in [Sales -> {"none", "active", "ended"}]
    BY <1>25 DEF StartDeletionWorkflow, Deletable, Free, EndSubscriptions,
       Live
  <2>3. events' \subseteq {"paid", "closed", "refunded", "revoked"} \X Sales
    BY <1>25 DEF StartDeletionWorkflow, BoxIsPaid, Deletable, Free,
       EndSubscriptions, Live
  <2> QED BY <1>25, <2>1, <2>2, <2>3, BoundsAssumption DEF
          StartDeletionWorkflow, Deletable, Free, EndSubscriptions, Live
<1>26. ASSUME NEW i \in Intents, NEW sl \in Slugs, StartSlugChange(i, sl)
      PROVE  TypeOK'
  BY <1>26, BoundsAssumption DEF StartSlugChange, SetBox, Trouble
<1>27. ASSUME NEW i \in Intents, StaffReleaseCheckoutIntent(i) \/
              CreateSucceeds(i) \/ CreateFailed(i) \/ BoxIsDeleted(i) PROVE TypeOK'
  BY <1>27, BoundsAssumption DEF StaffReleaseCheckoutIntent, Release, Held,
     Trouble, CreateSucceeds, SetBox, CreateFailed, BoxIsDeleted
<1>28. ASSUME NEW i \in Intents, SwapSlug(i) \/ SlugChangeFails(i) \/
              ReconcileBoxDeletion(i) PROVE TypeOK'
  BY <1>28, BoundsAssumption DEF SwapSlug, SetBox, SlugChangeFails,
     ReconcileBoxDeletion, Deletable, Free
<1>29. ASSUME NEW is \in SUBSET Intents, ReleaseExpiredCheckoutIntents(is)
      PROVE  TypeOK'
  BY <1>29, BoundsAssumption DEF ReleaseExpiredCheckoutIntents, Release,
     Trouble
<1>30. ASSUME NEW u \in Users, AccountDeletionReady(u) PROVE TypeOK'
  BY <1>30, BoundsAssumption DEF AccountDeletionReady
<1>31. ASSUME NEW u \in Users, FinishAccountDeletion(u) PROVE TypeOK'
  BY <1>31, BoundsAssumption DEF FinishAccountDeletion
<1>32. ASSUME NEW s \in Sales, AlertUnsubscribedOrder(s) \/ PassOverRefundedOrder(s)
      PROVE  TypeOK'
  <2>1. events' \subseteq {"paid", "closed", "refunded", "revoked"} \X Sales
    BY <1>32 DEF AlertUnsubscribedOrder, PassOverRefundedOrder, Answered
  <2>2. alerted' \subseteq Sales
    BY <1>32 DEF AlertUnsubscribedOrder, PassOverRefundedOrder
  <2> QED BY <1>32, <2>1, <2>2, BoundsAssumption DEF AlertUnsubscribedOrder,
          PassOverRefundedOrder
<1>33. CASE UNCHANGED vars
  BY <1>33 DEF vars
<1> QED BY <1>1, <1>2, <1>3, <1>4, <1>5, <1>6, <1>7, <1>8, <1>9, <1>10, <1>11,
    <1>12, <1>13, <1>14, <1>15, <1>16, <1>17, <1>18, <1>19, <1>20, <1>21,
    <1>22, <1>23, <1>24, <1>25, <1>26, <1>27, <1>28, <1>29, <1>30, <1>31,
    <1>32, <1>33
    DEF Next, CustomersAct, ThingsGoWrong, CheckoutCalls, Webhooks, Workflows,
        Renames, Sweeps

(* A box is made with its subscription, which nothing changes later. *)
LEMMA BoxIsPaidStep ==
  ASSUME TypeOK, BoxIsPaid, [Next]_vars
  PROVE  BoxIsPaid'
<1> USE DEF BoxIsPaid, TypeOK, intentVars, boxVars, callVars, polarVars
<1>1. ASSUME NEW i \in Intents, NEW sl \in Slugs, StartSlugChange(i, sl)
      PROVE  BoxIsPaid'
  BY <1>1 DEF StartSlugChange, SetBox, Trouble
<1>2. ASSUME NEW s \in Sales, ConvertCheckoutIntentToBox(s) \/
             HandleRevokedSubscription(s) PROVE BoxIsPaid'
  BY <1>2 DEF ConvertCheckoutIntentToBox, Undecided, Answered,
     HandleRevokedSubscription, Deletable, Free, Live
<1>3. ASSUME NEW i \in Intents, CreateSucceeds(i) \/ CreateFails(i) \/
             CreateFailed(i) \/ BoxIsDeleted(i) PROVE BoxIsPaid'
  BY <1>3 DEF CreateSucceeds, SetBox, CreateFails, CreateFailed, BoxIsDeleted
<1>4. ASSUME NEW i \in Intents, SwapSlug(i) \/ SlugChangeFails(i) \/
             ReconcileBoxDeletion(i) \/ StartDeletionWorkflow(i) PROVE BoxIsPaid'
  BY <1>4 DEF SwapSlug, SetBox, SlugChangeFails, ReconcileBoxDeletion,
     Deletable, Free, StartDeletionWorkflow, EndSubscriptions, Live
<1>5. ASSUME NEW s \in Sales, Pay(s) \/ SubscriptionRunsOut(s) \/
             RefundFromOutside(s) \/ HandlerDies(s) \/ SessionCloses(s) \/
             AttachPolarCheckout(s) \/ HandlePaidOrder(s) \/ RepeatDecision(s) \/
             RefuseSale(s) \/ RevokeUnfulfilled(s) \/ RefundUnfulfilled(s) \/
             HandleRefundedOrder(s) \/ RevokeRefunded(s) \/ HandleClosedCheckout(s)
      PROVE  BoxIsPaid'
  <2>1. UNCHANGED <<box, paidBy>>
    BY <1>5 DEF Pay, SubscriptionRunsOut, EndSubscriptions, RefundFromOutside,
       HandlerDies, SessionCloses, AttachPolarCheckout, HandlePaidOrder,
       RepeatDecision, RefuseSale, Release, RevokeUnfulfilled,
       RefundUnfulfilled, HandleRefundedOrder, RevokeRefunded,
       HandleClosedCheckout
  <2> QED BY <2>1
<1>6. ASSUME NEW i \in Intents, CheckoutDies(i) \/ StaffReleaseCheckoutIntent(i) \/
             CreateCheckoutSession(i) \/ CheckoutCreationFails(i)
      PROVE  BoxIsPaid'
  <2>1. UNCHANGED <<box, paidBy>>
    BY <1>6 DEF CheckoutDies, StaffReleaseCheckoutIntent, Release,
       CreateCheckoutSession, CheckoutCreationFails
  <2> QED BY <2>1
<1>7. ASSUME (\E u \in Users : MarkAccountDeletionPending(u)) \/
             (\E u \in Users, sl \in Slugs : ReserveCheckoutIntent(u, sl)) \/
             (\E u \in Users, sl \in Slugs : ResumeCheckoutIntent(u, sl)) \/
             Redeliver \/
             (\E is \in SUBSET Intents : ReleaseExpiredCheckoutIntents(is)) \/
             (\E u \in Users : AccountDeletionReady(u)) \/
             (\E u \in Users : FinishAccountDeletion(u))
      PROVE  BoxIsPaid'
  <2>1. UNCHANGED <<box, paidBy>>
    BY <1>7 DEF MarkAccountDeletionPending, Release, ReserveCheckoutIntent,
       ResumeCheckoutIntent, Redeliver, ReleaseExpiredCheckoutIntents,
       AccountDeletionReady, FinishAccountDeletion
  <2> QED BY <2>1
<1>8. ASSUME NEW s \in Sales, AlertUnsubscribedOrder(s) \/ PassOverRefundedOrder(s)
      PROVE  BoxIsPaid'
  <2>1. UNCHANGED <<box, paidBy>>
    BY <1>8 DEF AlertUnsubscribedOrder, PassOverRefundedOrder
  <2> QED BY <2>1
<1>9. CASE UNCHANGED vars
  BY <1>9 DEF vars
<1> QED BY <1>1, <1>2, <1>3, <1>4, <1>5, <1>6, <1>7, <1>8, <1>9
    DEF Next, CustomersAct, ThingsGoWrong, CheckoutCalls, Webhooks, Workflows,
        Renames, Sweeps

(* Every row, sale and call has its type, whatever the limits and bounds:
   in particular a subscription is only ever ended for a box that has one. *)
THEOREM CheckoutTypeCorrect == Spec => []TypeOK
<1>1. Init => TypeInv
  BY BoundsAssumption DEF Init, TypeInv, TypeOK, BoxIsPaid
<1>2. TypeInv /\ [Next]_vars => TypeInv'
  BY TypeOKStep, BoxIsPaidStep DEF TypeInv
<1>3. TypeInv => TypeOK
  BY DEF TypeInv
<1> QED BY <1>1, <1>2, <1>3, PTL DEF Spec

(* Who takes a slug, whatever as *)
TakenBy(i, sl) ==
  \/ Live(i) /\ boxSlug[i] = sl
  \/ status[i] = "active" /\ slug[i] = sl
  \/ reserved[i] = sl

OneTaker ==
  \A sl \in Slugs : \A i, j \in Intents :
    TakenBy(i, sl) /\ TakenBy(j, sl) => i = j

(* TakenBy and Holders say the same. *)
LEMMA TakersAreHolders ==
  ASSUME NEW sl, NEW i \in Intents
  PROVE  TakenBy(i, sl) <=>
           \E k \in {"box", "intent", "operation"} : <<k, i>> \in Holders(sl)
BY DEF TakenBy, Holders

(* ... and the other way round. *)
LEMMA HoldersAreTakers ==
  ASSUME NEW sl, NEW h \in Holders(sl)
  PROVE  h[2] \in Intents /\ TakenBy(h[2], sl)
BY DEF TakenBy, Holders

(* So SlugsAreExclusive can be shown of TakenBy. *)
LEMMA OneTakerIsExclusive == OneTaker <=> SlugsAreExclusive
<1>1. ASSUME OneTaker, NEW sl \in Slugs, NEW h \in Holders(sl), NEW g \in Holders(sl)
      PROVE  h[2] = g[2]
  BY <1>1, HoldersAreTakers DEF OneTaker
<1>2. ASSUME SlugsAreExclusive, NEW sl \in Slugs, NEW i \in Intents, NEW j \in Intents,
             TakenBy(i, sl), TakenBy(j, sl)
      PROVE  i = j
  <2>1. PICK k \in {"box", "intent", "operation"} : <<k, i>> \in Holders(sl)
    BY <1>2, TakersAreHolders
  <2>2. PICK l \in {"box", "intent", "operation"} : <<l, j>> \in Holders(sl)
    BY <1>2, TakersAreHolders
  <2>3. <<k, i>>[2] = <<l, j>>[2]
    BY <1>2, <2>1, <2>2 DEF SlugsAreExclusive
  <2> QED BY <2>3
<1> QED BY <1>1, <1>2 DEF OneTaker, SlugsAreExclusive

(* slugAvailable leaves nobody but the caller *)
LEMMA AvailableIsAlone ==
  ASSUME NEW sl, NEW mine, NEW i, \A h \in mine : h[2] = i, Available(sl, mine),
         NEW j \in Intents, TakenBy(j, sl)
  PROVE  j = i
<1>1. PICK k \in {"box", "intent", "operation"} : <<k, j>> \in Holders(sl)
  BY TakersAreHolders
<1>2. <<k, j>> \in mine
  BY <1>1 DEF Available
<1> QED BY <1>2

(* A reservation, a conversion and a rename ask for the slug before they take it,
   a swap before it moves it; every other step only gives slugs up. *)
LEMMA OneTakerStep ==
  ASSUME TypeOK, OneTaker, [Next]_vars
  PROVE  OneTaker'
<1> USE DEF OneTaker, TakenBy, Live, TypeOK, intentVars, boxVars, callVars,
    polarVars
<1>1. ASSUME NEW u \in Users, NEW sl \in Slugs, ReserveCheckoutIntent(u, sl)
      PROVE  OneTaker'
  <2>1. \A j \in Intents : ~TakenBy(j, sl)
    BY <1>1, TakersAreHolders DEF ReserveCheckoutIntent, Available
  <2> QED BY <1>1, <2>1 DEF ReserveCheckoutIntent
<1>2. ASSUME NEW i \in Intents, NEW sl \in Slugs, StartSlugChange(i, sl)
      PROVE  OneTaker'
  <2>1. \A j \in Intents : TakenBy(j, sl) => j = i
    <3>1. \A h \in {<<"box", i>>} : h[2] = i
      OBVIOUS
    <3>2. Available(sl, {<<"box", i>>})
      BY <1>2 DEF StartSlugChange
    <3> QED BY <3>1, <3>2, AvailableIsAlone
  <2> QED BY <1>2, <2>1 DEF StartSlugChange, SetBox, Trouble
<1>3. ASSUME NEW s \in Sales, ConvertCheckoutIntentToBox(s) PROVE OneTaker'
  <2> DEFINE i == intentOf[s]
  <2>1. \A j \in Intents : TakenBy(j, slug[i]) => j = i
    <3> DEFINE mine == {<<"intent", i>>}
    <3>1. \A h \in mine : h[2] = i
      OBVIOUS
    <3>2. Available(slug[i], mine)
      BY <1>3 DEF ConvertCheckoutIntentToBox
    <3> HIDE DEF mine, i, TakenBy, Live, OneTaker, TypeOK
    <3> QED BY <3>1, <3>2, AvailableIsAlone
  <2> QED BY <1>3, <2>1 DEF ConvertCheckoutIntentToBox, Undecided, Answered
<1>4. ASSUME NEW i \in Intents, SwapSlug(i) PROVE OneTaker'
  <2>1. \A j \in Intents : TakenBy(j, reserved[i]) => j = i
    <3> DEFINE mine == {<<"box", i>>, <<"operation", i>>}
    <3>1. \A h \in mine : h[2] = i
      OBVIOUS
    <3>2. Available(reserved[i], mine)
      BY <1>4 DEF SwapSlug
    <3> HIDE DEF mine, TakenBy, Live, OneTaker, TypeOK
    <3> QED BY <3>1, <3>2, AvailableIsAlone
  <2> QED BY <1>4, <2>1, NamesAssumption DEF SwapSlug, SetBox
<1>5. ASSUME NEW u \in Users, MarkAccountDeletionPending(u) PROVE OneTaker'
  BY <1>5 DEF MarkAccountDeletionPending, Release, Trouble, ActiveOf
<1>6. ASSUME NEW i \in Intents, StaffReleaseCheckoutIntent(i) \/
             CheckoutCreationFails(i) \/ CreateSucceeds(i) \/ CreateFails(i)
      PROVE  OneTaker'
  BY <1>6 DEF StaffReleaseCheckoutIntent, Release, Held, Trouble,
     CheckoutCreationFails, CreateSucceeds, SetBox, CreateFails
<1>7. ASSUME NEW i \in Intents, CreateFailed(i) \/ BoxIsDeleted(i) \/
             ReconcileBoxDeletion(i) \/ StartDeletionWorkflow(i) PROVE OneTaker'
  BY <1>7 DEF CreateFailed, SetBox, BoxIsDeleted, ReconcileBoxDeletion,
     Deletable, Free, StartDeletionWorkflow, EndSubscriptions
<1>8. ASSUME NEW is \in SUBSET Intents, ReleaseExpiredCheckoutIntents(is)
      PROVE  OneTaker'
  BY <1>8 DEF ReleaseExpiredCheckoutIntents, Release, Trouble
<1>9. ASSUME NEW s \in Sales, RefuseSale(s) \/ HandleRefundedOrder(s) \/
             HandleClosedCheckout(s) \/ HandleRevokedSubscription(s) PROVE OneTaker'
  BY <1>9 DEF RefuseSale, Undecided, Release, HandleRefundedOrder, Deliver,
     Trouble, Held, HandleClosedCheckout, HandleRevokedSubscription,
     Deletable, Free
<1>10. ASSUME NEW i \in Intents, SlugChangeFails(i) PROVE OneTaker'
  BY <1>10, NamesAssumption DEF SlugChangeFails, SetBox
<1>11. ASSUME NEW u \in Users, FinishAccountDeletion(u) PROVE OneTaker'
  BY <1>11, NamesAssumption DEF FinishAccountDeletion
<1>12. ASSUME NEW s \in Sales, Pay(s) \/ SubscriptionRunsOut(s) \/
              RefundFromOutside(s) \/ HandlerDies(s) \/ SessionCloses(s) \/
              AttachPolarCheckout(s) \/ HandlePaidOrder(s) \/ RepeatDecision(s) \/
              RevokeUnfulfilled(s) \/ RefundUnfulfilled(s) \/ RevokeRefunded(s)
      PROVE  OneTaker'
  <2>1. UNCHANGED <<status, slug, box, boxSlug, reserved>>
    BY <1>12 DEF Pay, SubscriptionRunsOut, EndSubscriptions,
       RefundFromOutside, HandlerDies, SessionCloses, AttachPolarCheckout,
       HandlePaidOrder, RepeatDecision, RevokeUnfulfilled, RefundUnfulfilled,
       RevokeRefunded
  <2> QED BY <2>1
<1>13. ASSUME NEW i \in Intents, CheckoutDies(i) \/ CreateCheckoutSession(i)
      PROVE  OneTaker'
  <2>1. UNCHANGED <<status, slug, box, boxSlug, reserved>>
    BY <1>13 DEF CheckoutDies, CreateCheckoutSession
  <2> QED BY <2>1
<1>14. ASSUME (\E u \in Users, sl \in Slugs : ResumeCheckoutIntent(u, sl)) \/
              Redeliver \/ (\E u \in Users : AccountDeletionReady(u))
      PROVE  OneTaker'
  <2>1. UNCHANGED <<status, slug, box, boxSlug, reserved>>
    BY <1>14 DEF ResumeCheckoutIntent, Redeliver, AccountDeletionReady
  <2> QED BY <2>1
<1>15. ASSUME NEW s \in Sales, AlertUnsubscribedOrder(s) \/ PassOverRefundedOrder(s)
      PROVE  OneTaker'
  <2>1. UNCHANGED <<status, slug, box, boxSlug, reserved>>
    BY <1>15 DEF AlertUnsubscribedOrder, PassOverRefundedOrder
  <2> QED BY <2>1
<1>16. CASE UNCHANGED vars
  BY <1>16 DEF vars
<1> QED BY <1>1, <1>2, <1>3, <1>4, <1>5, <1>6, <1>7, <1>8, <1>9, <1>10, <1>11,
    <1>12, <1>13, <1>14, <1>15, <1>16
    DEF Next, CustomersAct, ThingsGoWrong, CheckoutCalls, Webhooks, Workflows,
        Renames, Sweeps

(* Boxes, reservations and renames never share a slug (slugAvailability.ts),
   however many of each there are and however payments, renames and account
   deletions interleave. *)
THEOREM SlugsStayExclusive == Spec => []SlugsAreExclusive
<1>1. Init => TypeInv /\ OneTaker
  <2> SUFFICES ASSUME Init PROVE TypeInv /\ OneTaker
    OBVIOUS
  <2>1. TypeInv
    BY BoundsAssumption DEF Init, TypeInv, TypeOK, BoxIsPaid
  <2>2. OneTaker
    BY NamesAssumption DEF Init, OneTaker, TakenBy, Live
  <2> QED BY <2>1, <2>2
<1>2. TypeInv /\ OneTaker /\ [Next]_vars => (TypeInv /\ OneTaker)'
  BY TypeOKStep, BoxIsPaidStep, OneTakerStep DEF TypeInv
<1>3. OneTaker => SlugsAreExclusive
  BY OneTakerIsExclusive
<1> QED BY <1>1, <1>2, <1>3, PTL DEF Spec

(* What is committed, as one set: the packages with these boxes and statuses *)
PackagesOf(b, st) ==
  {i \in Intents : b[i] \notin {"none", "deleted"} \/ (st[i] = "active" /\ b[i] = "none")}

Packages == PackagesOf(box, status)

(* No package is counted as a box and as a reservation. *)
LEMMA PackagesAreCounted ==
  ASSUME NEW b, NEW st
  PROVE  /\ IsFiniteSet(PackagesOf(b, st))
         /\ Cardinality(PackagesOf(b, st))
              = Cardinality({i \in Intents : b[i] \notin {"none", "deleted"}})
                  + Cardinality({i \in Intents : st[i] = "active" /\ b[i] = "none"})
<1> DEFINE L == {i \in Intents : b[i] \notin {"none", "deleted"}}
           H == {i \in Intents : st[i] = "active" /\ b[i] = "none"}
<1>1. IsFiniteSet(Intents)
  BY FS_Interval, BoundsAssumption DEF Intents
<1>2. L \subseteq Intents /\ H \subseteq Intents /\ L \cap H = {}
  OBVIOUS
<1>3. PackagesOf(b, st) = L \cup H
  BY DEF PackagesOf
<1> SUFFICES IsFiniteSet(L \cup H) /\ Cardinality(L \cup H) = Cardinality(L) + Cardinality(H)
  BY <1>3
<1> HIDE DEF L, H
<1>4. IsFiniteSet(L) /\ IsFiniteSet(H)
  BY <1>1, <1>2, FS_Subset
<1>5. /\ IsFiniteSet(L \cup H)
      /\ Cardinality(L \cup H) = Cardinality(L) + Cardinality(H) - Cardinality({})
  BY <1>2, <1>4, FS_Union
<1>6. Cardinality(L) \in Nat /\ Cardinality(H) \in Nat
  BY <1>4, FS_CardinalityType
<1> QED BY <1>5, <1>6, FS_EmptySet

(* Committed counts the packages, before a step and after it. *)
LEMMA CommittedArePackages ==
  /\ IsFiniteSet(Packages) /\ Committed = Cardinality(Packages)
  /\ IsFiniteSet(Packages') /\ Committed' = Cardinality(Packages')
BY PackagesAreCounted DEF Packages, Committed, Live, Held

(* A step that commits nothing, or one package while there is room, oversells
   nothing. *)
LEMMA CapacityStep ==
  ASSUME CapacityNotOversold, NEW i,
         Packages' \subseteq Packages \/ (HasRoom /\ Packages' \subseteq Packages \cup {i})
  PROVE  CapacityNotOversold'
<1>1. Cardinality(Packages) \in Nat /\ Cardinality(Packages') \in Nat
  BY CommittedArePackages, FS_CardinalityType
<1>2. CASE Packages' \subseteq Packages
  <2>1. Cardinality(Packages') <= Cardinality(Packages)
    BY <1>2, CommittedArePackages, FS_Subset
  <2> QED BY <1>1, <2>1, CommittedArePackages,
      LimitsAssumption DEF CapacityNotOversold
<1>3. CASE HasRoom /\ Packages' \subseteq Packages \cup {i}
  <2>1. /\ IsFiniteSet(Packages \cup {i})
        /\ \/ Cardinality(Packages \cup {i}) = Cardinality(Packages)
           \/ Cardinality(Packages \cup {i}) = Cardinality(Packages) + 1
    BY CommittedArePackages, FS_AddElement
  <2>2. Cardinality(Packages') <= Cardinality(Packages \cup {i})
    BY <1>3, <2>1, FS_Subset
  <2>3. Cardinality(Packages) < ServerLimit
    BY <1>3, CommittedArePackages DEF HasRoom
  <2> QED BY <1>1, <2>1, <2>2, <2>3, CommittedArePackages,
      LimitsAssumption DEF CapacityNotOversold
<1> QED BY <1>2, <1>3

PackagesGrow ==
  \/ Packages' \subseteq Packages
  \/ HasRoom /\ \E i \in Intents : Packages' \subseteq Packages \cup {i}

(* A reservation and a late order's conversion ask for room; an order in time
   is given the package its reservation held. *)
LEMMA PackagesStep ==
  ASSUME TypeOK, [Next]_vars
  PROVE  PackagesGrow
<1> USE DEF PackagesGrow, Packages, PackagesOf, TypeOK, intentVars, boxVars,
    callVars, polarVars
<1>1. ASSUME NEW u \in Users, NEW sl \in Slugs, ReserveCheckoutIntent(u, sl)
      PROVE  PackagesGrow
  <2>1. HasRoom /\ UNCHANGED box
    BY <1>1 DEF ReserveCheckoutIntent
  <2>2. PICK i \in Intents :
          status' = [k \in Intents |-> CASE k = i -> "active"
                                           [] k \in Superseded(u) -> "released"
                                           [] OTHER -> status[k]]
    BY <1>1 DEF ReserveCheckoutIntent
  <2>3. \A k \in Intents : k # i /\ status'[k] = "active" => status[k] = "active"
    BY <2>2
  <2>4. Packages' \subseteq Packages \cup {i}
    BY <2>1, <2>3
  <2> QED BY <2>1, <2>2, <2>4
<1>2. ASSUME NEW s \in Sales, ConvertCheckoutIntentToBox(s) PROVE PackagesGrow
  <2>1. \A k \in Intents : k # intentOf[s] => status'[k] = status[k] /\ box'[k] = box[k]
    BY <1>2 DEF ConvertCheckoutIntentToBox
  <2>2. CASE status[intentOf[s]] = "active"
    BY <1>2, <2>1, <2>2 DEF ConvertCheckoutIntentToBox, Undecided
  <2>3. CASE HasRoom /\ intentOf[s] \in Intents
    BY <1>2, <2>1, <2>3
  <2>4. CASE intentOf[s] \notin Intents
    BY <2>1, <2>4
  <2> QED BY <1>2, <2>2, <2>3, <2>4 DEF ConvertCheckoutIntentToBox
<1>3. ASSUME NEW u \in Users, MarkAccountDeletionPending(u) PROVE PackagesGrow
  BY <1>3 DEF MarkAccountDeletionPending, Release, Trouble, ActiveOf
<1>4. ASSUME NEW i \in Intents, NEW sl \in Slugs, StartSlugChange(i, sl) PROVE PackagesGrow
  BY <1>4 DEF StartSlugChange, SetBox, Trouble
<1>5. ASSUME NEW i \in Intents, StaffReleaseCheckoutIntent(i) \/
             CheckoutCreationFails(i) \/ CreateSucceeds(i) \/ CreateFails(i)
      PROVE  PackagesGrow
  BY <1>5 DEF StaffReleaseCheckoutIntent, Release, Held, Trouble,
     CheckoutCreationFails, CreateSucceeds, SetBox, CreateFails
<1>6. ASSUME NEW i \in Intents, CreateFailed(i) \/ BoxIsDeleted(i) \/ SwapSlug(i) \/
             SlugChangeFails(i) PROVE PackagesGrow
  BY <1>6 DEF CreateFailed, SetBox, BoxIsDeleted, SwapSlug, SlugChangeFails
<1>7. ASSUME NEW i \in Intents, ReconcileBoxDeletion(i) \/ StartDeletionWorkflow(i)
      PROVE  PackagesGrow
  BY <1>7 DEF ReconcileBoxDeletion, Deletable, Free, StartDeletionWorkflow,
     EndSubscriptions, Live
<1>8. ASSUME NEW is \in SUBSET Intents, ReleaseExpiredCheckoutIntents(is) PROVE PackagesGrow
  BY <1>8 DEF ReleaseExpiredCheckoutIntents, Release, Trouble
<1>9. ASSUME NEW s \in Sales, RefuseSale(s) \/ HandleRefundedOrder(s) \/
             HandleClosedCheckout(s) \/ HandleRevokedSubscription(s) PROVE PackagesGrow
  BY <1>9 DEF RefuseSale, Undecided, Release, HandleRefundedOrder, Deliver,
     Trouble, Held, HandleClosedCheckout, HandleRevokedSubscription,
     Deletable, Free, Live
<1>10. ASSUME NEW s \in Sales, Pay(s) \/ SubscriptionRunsOut(s) \/
              RefundFromOutside(s) \/ HandlerDies(s) \/ SessionCloses(s) \/
              AttachPolarCheckout(s) \/ HandlePaidOrder(s) \/ RepeatDecision(s) \/
              RevokeUnfulfilled(s) \/ RefundUnfulfilled(s) \/ RevokeRefunded(s)
      PROVE  PackagesGrow
  <2>1. UNCHANGED <<status, box>>
    BY <1>10 DEF Pay, SubscriptionRunsOut, EndSubscriptions,
       RefundFromOutside, HandlerDies, SessionCloses, AttachPolarCheckout,
       HandlePaidOrder, RepeatDecision, RevokeUnfulfilled, RefundUnfulfilled,
       RevokeRefunded
  <2> QED BY <2>1
<1>11. ASSUME NEW i \in Intents, CheckoutDies(i) \/ CreateCheckoutSession(i)
      PROVE  PackagesGrow
  <2>1. UNCHANGED <<status, box>>
    BY <1>11 DEF CheckoutDies, CreateCheckoutSession
  <2> QED BY <2>1
<1>12. ASSUME (\E u \in Users, sl \in Slugs : ResumeCheckoutIntent(u, sl)) \/
              Redeliver \/ (\E u \in Users : AccountDeletionReady(u)) \/
              (\E u \in Users : FinishAccountDeletion(u))
      PROVE  PackagesGrow
  <2>1. UNCHANGED <<status, box>>
    BY <1>12 DEF ResumeCheckoutIntent, Redeliver, AccountDeletionReady,
       FinishAccountDeletion
  <2> QED BY <2>1
<1>13. ASSUME NEW s \in Sales, AlertUnsubscribedOrder(s) \/ PassOverRefundedOrder(s)
      PROVE  PackagesGrow
  <2>1. UNCHANGED <<status, box>>
    BY <1>13 DEF AlertUnsubscribedOrder, PassOverRefundedOrder
  <2> QED BY <2>1
<1>14. CASE UNCHANGED vars
  BY <1>14 DEF vars
<1> QED BY <1>1, <1>2, <1>3, <1>4, <1>5, <1>6, <1>7, <1>8, <1>9, <1>10, <1>11,
    <1>12, <1>13, <1>14
    DEF Next, CustomersAct, ThingsGoWrong, CheckoutCalls, Webhooks, Workflows,
        Renames, Sweeps

(* Reservations and boxes together never exceed the packages the deployment may
   run (capacity.ts), however late orders come and reservations lapse. *)
THEOREM CapacityIsKept == Spec => []CapacityNotOversold
<1>1. Init => TypeInv /\ CapacityNotOversold
  <2> SUFFICES ASSUME Init PROVE TypeInv /\ CapacityNotOversold
    OBVIOUS
  <2>1. TypeInv
    BY BoundsAssumption DEF Init, TypeInv, TypeOK, BoxIsPaid
  <2>2. Packages = {}
    BY DEF Init, Packages, PackagesOf
  <2> QED BY <2>1, <2>2, CommittedArePackages, FS_EmptySet, LimitsAssumption
        DEF CapacityNotOversold
<1>2. TypeInv /\ CapacityNotOversold /\ [Next]_vars => (TypeInv /\ CapacityNotOversold)'
  BY TypeOKStep, BoxIsPaidStep, PackagesStep, CapacityStep DEF TypeInv, PackagesGrow
<1> QED BY <1>1, <1>2, PTL DEF Spec, TypeInv

(* Sessions are opened for reservations that were made, which never go. *)
LEMMA SessionsHaveIntentsStep ==
  ASSUME SaleInv, [Next]_vars
  PROVE  SessionsHaveIntents'
<1> USE DEF SaleInv, TypeOK, SessionsHaveIntents, intentVars, boxVars,
    callVars, polarVars
<1>1. ASSUME NEW u \in Users, MarkAccountDeletionPending(u)
      PROVE  SessionsHaveIntents'
  BY <1>1 DEF MarkAccountDeletionPending, Release, Trouble, ActiveOf
<1>2. ASSUME NEW u \in Users, NEW sl \in Slugs, ReserveCheckoutIntent(u, sl)
      PROVE  SessionsHaveIntents'
  BY <1>2 DEF ReserveCheckoutIntent
<1>3. ASSUME NEW u \in Users, NEW sl \in Slugs, ResumeCheckoutIntent(u, sl)
      PROVE  SessionsHaveIntents'
  BY <1>3 DEF ResumeCheckoutIntent, OwnReservation
<1>4. ASSUME NEW s \in Sales, Pay(s) \/ SessionCloses(s) \/
             AttachPolarCheckout(s) \/ RefuseSale(s) PROVE SessionsHaveIntents'
  BY <1>4 DEF Pay, SessionCloses, Trouble, AttachPolarCheckout, RefuseSale,
     Undecided, Release
<1>5. ASSUME NEW s \in Sales, ConvertCheckoutIntentToBox(s) \/
             HandleRefundedOrder(s) \/ HandleClosedCheckout(s)
      PROVE  SessionsHaveIntents'
  BY <1>5 DEF ConvertCheckoutIntentToBox, Undecided, Answered,
     HandleRefundedOrder, Deliver, Trouble, Release, Held,
     HandleClosedCheckout
<1>6. ASSUME NEW i \in Intents, CheckoutDies(i) \/ StaffReleaseCheckoutIntent(i) \/
             CreateCheckoutSession(i) \/ CheckoutCreationFails(i)
      PROVE  SessionsHaveIntents'
  BY <1>6 DEF CheckoutDies, Trouble, StaffReleaseCheckoutIntent, Release,
     Held, CreateCheckoutSession, CheckoutCreationFails
<1>7. ASSUME NEW is \in SUBSET Intents, ReleaseExpiredCheckoutIntents(is)
      PROVE  SessionsHaveIntents'
  BY <1>7 DEF ReleaseExpiredCheckoutIntents, Release, Trouble
<1>8. ASSUME NEW s \in Sales, SubscriptionRunsOut(s) \/ RefundFromOutside(s) \/
             HandlerDies(s) \/ HandlePaidOrder(s) \/ RepeatDecision(s) \/
             RevokeUnfulfilled(s) \/ RefundUnfulfilled(s) \/ RevokeRefunded(s) \/
             HandleRevokedSubscription(s)
      PROVE  SessionsHaveIntents'
  <2>1. UNCHANGED <<status, opening, polar, intentOf>>
    BY <1>8 DEF SubscriptionRunsOut, EndSubscriptions, RefundFromOutside,
       HandlerDies, HandlePaidOrder, RepeatDecision, RevokeUnfulfilled,
       RefundUnfulfilled, RevokeRefunded, HandleRevokedSubscription
  <2> QED BY <2>1
<1>9. ASSUME NEW i \in Intents, CreateSucceeds(i) \/ CreateFails(i) \/
             CreateFailed(i) \/ BoxIsDeleted(i) \/ SwapSlug(i) \/
             SlugChangeFails(i) \/ ReconcileBoxDeletion(i) \/
             StartDeletionWorkflow(i)
      PROVE  SessionsHaveIntents'
  <2>1. UNCHANGED <<status, opening, polar, intentOf>>
    BY <1>9 DEF CreateSucceeds, SetBox, CreateFails, CreateFailed,
       BoxIsDeleted, SwapSlug, SlugChangeFails, ReconcileBoxDeletion,
       StartDeletionWorkflow, EndSubscriptions
  <2> QED BY <2>1
<1>10. ASSUME (\E i \in Intents, sl \in Slugs : StartSlugChange(i, sl)) \/
              Redeliver \/ (\E u \in Users : AccountDeletionReady(u)) \/
              (\E u \in Users : FinishAccountDeletion(u))
      PROVE  SessionsHaveIntents'
  <2>1. UNCHANGED <<status, opening, polar, intentOf>>
    BY <1>10 DEF StartSlugChange, SetBox, Redeliver, AccountDeletionReady,
       FinishAccountDeletion
  <2> QED BY <2>1
<1>11. ASSUME NEW s \in Sales, AlertUnsubscribedOrder(s) \/ PassOverRefundedOrder(s)
      PROVE  SessionsHaveIntents'
  <2>1. UNCHANGED <<status, opening, polar, intentOf>>
    BY <1>11 DEF AlertUnsubscribedOrder, PassOverRefundedOrder
  <2> QED BY <2>1
<1>12. CASE UNCHANGED vars
  BY <1>12 DEF vars
<1> QED BY <1>1, <1>2, <1>3, <1>4, <1>5, <1>6, <1>7, <1>8, <1>9, <1>10, <1>11,
    <1>12
    DEF Next, CustomersAct, ThingsGoWrong, CheckoutCalls, Webhooks, Workflows,
        Renames, Sweeps

(* Polar makes the order when the session is paid, and its order stays. *)
LEMMA OrdersArePaidForStep ==
  ASSUME SaleInv, [Next]_vars
  PROVE  OrdersArePaidFor'
<1> USE DEF SaleInv, TypeOK, OrdersArePaidFor, HandlersAreReal, intentVars,
    boxVars, callVars, polarVars
<1>1. ASSUME NEW s \in Sales, Pay(s) \/ RefundFromOutside(s) \/ SessionCloses(s) \/
             AttachPolarCheckout(s) PROVE OrdersArePaidFor'
  BY <1>1 DEF Pay, RefundFromOutside, Trouble, SessionCloses,
     AttachPolarCheckout
<1>2. ASSUME NEW s \in Sales, RefundUnfulfilled(s) PROVE OrdersArePaidFor'
  BY <1>2 DEF RefundUnfulfilled
<1>3. ASSUME NEW i \in Intents, CreateCheckoutSession(i) \/ CheckoutCreationFails(i)
      PROVE  OrdersArePaidFor'
  BY <1>3 DEF CreateCheckoutSession, CheckoutCreationFails, Release, Held,
     Trouble
<1>4. ASSUME NEW s \in Sales, SubscriptionRunsOut(s) \/ HandlerDies(s) \/
             HandlePaidOrder(s) \/ RepeatDecision(s) \/ RefuseSale(s) \/
             ConvertCheckoutIntentToBox(s) \/ RevokeUnfulfilled(s) \/
             HandleRefundedOrder(s) \/ RevokeRefunded(s) \/
             HandleClosedCheckout(s) \/ HandleRevokedSubscription(s)
      PROVE  OrdersArePaidFor'
  <2>1. UNCHANGED <<polar, money>>
    BY <1>4 DEF SubscriptionRunsOut, EndSubscriptions, HandlerDies,
       HandlePaidOrder, RepeatDecision, RefuseSale, Release,
       ConvertCheckoutIntentToBox, RevokeUnfulfilled, HandleRefundedOrder,
       RevokeRefunded, HandleClosedCheckout, HandleRevokedSubscription
  <2> QED BY <2>1
<1>5. ASSUME NEW i \in Intents, CheckoutDies(i) \/ StaffReleaseCheckoutIntent(i) \/
             CreateSucceeds(i) \/ CreateFails(i) \/ CreateFailed(i) \/
             BoxIsDeleted(i) \/ SwapSlug(i) \/ SlugChangeFails(i) \/
             ReconcileBoxDeletion(i) \/ StartDeletionWorkflow(i)
      PROVE  OrdersArePaidFor'
  <2>1. UNCHANGED <<polar, money>>
    BY <1>5 DEF CheckoutDies, StaffReleaseCheckoutIntent, Release,
       CreateSucceeds, SetBox, CreateFails, CreateFailed, BoxIsDeleted,
       SwapSlug, SlugChangeFails, ReconcileBoxDeletion, StartDeletionWorkflow,
       EndSubscriptions
  <2> QED BY <2>1
<1>6. ASSUME (\E u \in Users : MarkAccountDeletionPending(u)) \/
             (\E u \in Users, sl \in Slugs : ReserveCheckoutIntent(u, sl)) \/
             (\E u \in Users, sl \in Slugs : ResumeCheckoutIntent(u, sl)) \/
             (\E i \in Intents, sl \in Slugs : StartSlugChange(i, sl)) \/
             Redeliver \/
             (\E is \in SUBSET Intents : ReleaseExpiredCheckoutIntents(is)) \/
             (\E u \in Users : AccountDeletionReady(u)) \/
             (\E u \in Users : FinishAccountDeletion(u))
      PROVE  OrdersArePaidFor'
  <2>1. UNCHANGED <<polar, money>>
    BY <1>6 DEF MarkAccountDeletionPending, Release, ReserveCheckoutIntent,
       ResumeCheckoutIntent, StartSlugChange, SetBox, Redeliver,
       ReleaseExpiredCheckoutIntents, AccountDeletionReady,
       FinishAccountDeletion
  <2> QED BY <2>1
<1>7. ASSUME NEW s \in Sales, AlertUnsubscribedOrder(s) \/ PassOverRefundedOrder(s)
      PROVE  OrdersArePaidFor'
  <2>1. UNCHANGED <<polar, money>>
    BY <1>7 DEF AlertUnsubscribedOrder, PassOverRefundedOrder
  <2> QED BY <2>1
<1>8. CASE UNCHANGED vars
  BY <1>8 DEF vars
<1> QED BY <1>1, <1>2, <1>3, <1>4, <1>5, <1>6, <1>7, <1>8
    DEF Next, CustomersAct, ThingsGoWrong, CheckoutCalls, Webhooks, Workflows,
        Renames, Sweeps

(* An event is sent when its occasion comes, or again after that. *)
LEMMA EventsAreRealStep ==
  ASSUME SaleInv, [Next]_vars
  PROVE  EventsAreReal'
<1> USE DEF SaleInv, TypeOK, OrdersArePaidFor, EventsAreReal, HandlersAreReal,
    BoxIsOrdered, intentVars, boxVars, callVars, polarVars
<1>1. ASSUME NEW s \in Sales, Pay(s) PROVE EventsAreReal'
  <2>1. ASSUME NEW t \in Sales, <<"paid", t>> \in events'
        PROVE  <<"paid", t>> \in events \/ t = s
    BY <1>1, <2>1 DEF Pay
  <2>2. ASSUME NEW t \in Sales, <<"refunded", t>> \in events'
        PROVE  <<"refunded", t>> \in events
    BY <1>1, <2>2 DEF Pay
  <2>3. ASSUME NEW t \in Sales
        PROVE  /\ money[t] # "none" => money'[t] # "none"
               /\ money[t] = "refunded" => money'[t] = "refunded"
               /\ t = s => money'[t] # "none" /\ money[t] = "none"
    BY <1>1 DEF Pay
  <2> QED BY <2>1, <2>2, <2>3
<1>2. ASSUME NEW s \in Sales, SubscriptionRunsOut(s) PROVE EventsAreReal'
  <2>1. ASSUME NEW t \in Sales, <<"paid", t>> \in events'
        PROVE  <<"paid", t>> \in events
    BY <1>2, <2>1 DEF SubscriptionRunsOut, EndSubscriptions
  <2>2. ASSUME NEW t \in Sales, <<"refunded", t>> \in events'
        PROVE  <<"refunded", t>> \in events
    BY <1>2, <2>2 DEF SubscriptionRunsOut, EndSubscriptions
  <2>3. ASSUME NEW t \in Sales
        PROVE  /\ money[t] # "none" => money'[t] # "none"
               /\ money[t] = "refunded" => money'[t] = "refunded"
    BY <1>2 DEF SubscriptionRunsOut
  <2> QED BY <2>1, <2>2, <2>3
<1>3. ASSUME NEW s \in Sales, RefundFromOutside(s) PROVE EventsAreReal'
  <2>1. ASSUME NEW t \in Sales, <<"paid", t>> \in events'
        PROVE  <<"paid", t>> \in events
    BY <1>3, <2>1 DEF RefundFromOutside
  <2>2. ASSUME NEW t \in Sales, <<"refunded", t>> \in events'
        PROVE  <<"refunded", t>> \in events \/ t = s
    BY <1>3, <2>2 DEF RefundFromOutside
  <2>3. ASSUME NEW t \in Sales
        PROVE  /\ money[t] # "none" => money'[t] # "none"
               /\ money[t] = "refunded" => money'[t] = "refunded"
               /\ t = s => money'[t] = "refunded"
    BY <1>3 DEF RefundFromOutside
  <2> QED BY <2>1, <2>2, <2>3
<1>4. ASSUME Redeliver PROVE EventsAreReal'
  <2>1. ASSUME NEW t \in Sales, <<"paid", t>> \in events'
        PROVE  <<"paid", t>> \in events \/ polar[t] \in {"paid", "flawed"}
    BY <1>4, <2>1 DEF Redeliver, Sent
  <2>2. ASSUME NEW t \in Sales, <<"refunded", t>> \in events'
        PROVE  <<"refunded", t>> \in events \/ money[t] = "refunded"
    BY <1>4, <2>2 DEF Redeliver, Sent
  <2>3. ASSUME NEW t \in Sales
        PROVE  /\ money[t] # "none" => money'[t] # "none"
               /\ money[t] = "refunded" => money'[t] = "refunded"
    BY <1>4 DEF Redeliver
  <2> QED BY <2>1, <2>2, <2>3
<1>5. ASSUME NEW s \in Sales, SessionCloses(s) PROVE EventsAreReal'
  <2>1. ASSUME NEW t \in Sales, <<"paid", t>> \in events'
        PROVE  <<"paid", t>> \in events
    BY <1>5, <2>1 DEF SessionCloses
  <2>2. ASSUME NEW t \in Sales, <<"refunded", t>> \in events'
        PROVE  <<"refunded", t>> \in events
    BY <1>5, <2>2 DEF SessionCloses
  <2>3. ASSUME NEW t \in Sales
        PROVE  /\ money[t] # "none" => money'[t] # "none"
               /\ money[t] = "refunded" => money'[t] = "refunded"
    BY <1>5 DEF SessionCloses
  <2> QED BY <2>1, <2>2, <2>3
<1>6. ASSUME NEW s \in Sales, RepeatDecision(s) PROVE EventsAreReal'
  <2>1. ASSUME NEW t \in Sales, <<"paid", t>> \in events'
        PROVE  <<"paid", t>> \in events
    BY <1>6, <2>1 DEF RepeatDecision, Answered, MoneyIsBack
  <2>2. ASSUME NEW t \in Sales, <<"refunded", t>> \in events'
        PROVE  <<"refunded", t>> \in events
    BY <1>6, <2>2 DEF RepeatDecision, Answered, MoneyIsBack
  <2>3. ASSUME NEW t \in Sales
        PROVE  /\ money[t] # "none" => money'[t] # "none"
               /\ money[t] = "refunded" => money'[t] = "refunded"
    BY <1>6 DEF RepeatDecision
  <2> QED BY <2>1, <2>2, <2>3
<1>7. ASSUME NEW s \in Sales, ConvertCheckoutIntentToBox(s) PROVE EventsAreReal'
  <2>1. ASSUME NEW t \in Sales, <<"paid", t>> \in events'
        PROVE  <<"paid", t>> \in events
    BY <1>7, <2>1 DEF ConvertCheckoutIntentToBox, Undecided, Answered
  <2>2. ASSUME NEW t \in Sales, <<"refunded", t>> \in events'
        PROVE  <<"refunded", t>> \in events
    BY <1>7, <2>2 DEF ConvertCheckoutIntentToBox, Undecided, Answered
  <2>3. ASSUME NEW t \in Sales
        PROVE  /\ money[t] # "none" => money'[t] # "none"
               /\ money[t] = "refunded" => money'[t] = "refunded"
    BY <1>7 DEF ConvertCheckoutIntentToBox
  <2> QED BY <2>1, <2>2, <2>3
<1>8. ASSUME NEW s \in Sales, RevokeUnfulfilled(s) PROVE EventsAreReal'
  <2>1. ASSUME NEW t \in Sales, <<"paid", t>> \in events'
        PROVE  <<"paid", t>> \in events
    BY <1>8, <2>1 DEF RevokeUnfulfilled, EndSubscriptions
  <2>2. ASSUME NEW t \in Sales, <<"refunded", t>> \in events'
        PROVE  <<"refunded", t>> \in events
    BY <1>8, <2>2 DEF RevokeUnfulfilled, EndSubscriptions
  <2>3. ASSUME NEW t \in Sales
        PROVE  /\ money[t] # "none" => money'[t] # "none"
               /\ money[t] = "refunded" => money'[t] = "refunded"
    BY <1>8 DEF RevokeUnfulfilled
  <2> QED BY <2>1, <2>2, <2>3
<1>9. ASSUME NEW s \in Sales, RefundUnfulfilled(s) PROVE EventsAreReal'
  <2>1. ASSUME NEW t \in Sales, <<"paid", t>> \in events'
        PROVE  <<"paid", t>> \in events
    BY <1>9, <2>1 DEF RefundUnfulfilled
  <2>2. ASSUME NEW t \in Sales, <<"refunded", t>> \in events'
        PROVE  <<"refunded", t>> \in events \/ t = s
    BY <1>9, <2>2 DEF RefundUnfulfilled
  <2>3. ASSUME NEW t \in Sales
        PROVE  /\ money[t] # "none" => money'[t] # "none"
               /\ money[t] = "refunded" => money'[t] = "refunded"
               /\ t = s => money'[t] = "refunded"
    BY <1>9 DEF RefundUnfulfilled
  <2> QED BY <2>1, <2>2, <2>3
<1>10. ASSUME NEW s \in Sales, RevokeRefunded(s) PROVE EventsAreReal'
  <2>1. ASSUME NEW t \in Sales, <<"paid", t>> \in events'
        PROVE  <<"paid", t>> \in events
    BY <1>10, <2>1 DEF RevokeRefunded
  <2>2. ASSUME NEW t \in Sales, <<"refunded", t>> \in events'
        PROVE  <<"refunded", t>> \in events
    BY <1>10, <2>2 DEF RevokeRefunded
  <2>3. ASSUME NEW t \in Sales
        PROVE  /\ money[t] # "none" => money'[t] # "none"
               /\ money[t] = "refunded" => money'[t] = "refunded"
    BY <1>10 DEF RevokeRefunded
  <2> QED BY <2>1, <2>2, <2>3
<1>11. ASSUME NEW i \in Intents, StartDeletionWorkflow(i) PROVE EventsAreReal'
  <2>1. ASSUME NEW t \in Sales, <<"paid", t>> \in events'
        PROVE  <<"paid", t>> \in events
    BY <1>11, <2>1 DEF StartDeletionWorkflow, Deletable, Free,
       EndSubscriptions
  <2>2. ASSUME NEW t \in Sales, <<"refunded", t>> \in events'
        PROVE  <<"refunded", t>> \in events
    BY <1>11, <2>2 DEF StartDeletionWorkflow, Deletable, Free,
       EndSubscriptions
  <2>3. ASSUME NEW t \in Sales
        PROVE  /\ money[t] # "none" => money'[t] # "none"
               /\ money[t] = "refunded" => money'[t] = "refunded"
    BY <1>11 DEF StartDeletionWorkflow
  <2> QED BY <2>1, <2>2, <2>3
<1>12. ASSUME NEW s \in Sales, HandleClosedCheckout(s) PROVE EventsAreReal'
  BY <1>12 DEF HandleClosedCheckout, Release, Held
<1>13. ASSUME NEW s \in Sales, HandleRevokedSubscription(s) PROVE EventsAreReal'
  BY <1>13 DEF HandleRevokedSubscription, Deletable, Free, Live
<1>14. ASSUME NEW s \in Sales, HandlerDies(s) \/ AttachPolarCheckout(s) \/
              HandlePaidOrder(s) \/ RefuseSale(s) \/ HandleRefundedOrder(s)
      PROVE  EventsAreReal'
  <2>1. UNCHANGED <<money, events>>
    BY <1>14 DEF HandlerDies, AttachPolarCheckout, HandlePaidOrder,
       RefuseSale, Release, HandleRefundedOrder
  <2> QED BY <2>1
<1>15. ASSUME NEW i \in Intents, CheckoutDies(i) \/ StaffReleaseCheckoutIntent(i) \/
              CreateCheckoutSession(i) \/ CheckoutCreationFails(i) \/
              CreateSucceeds(i) \/ CreateFails(i) \/ CreateFailed(i) \/
              BoxIsDeleted(i) \/ SwapSlug(i) \/ SlugChangeFails(i) \/
              ReconcileBoxDeletion(i)
      PROVE  EventsAreReal'
  <2>1. UNCHANGED <<money, events>>
    BY <1>15 DEF CheckoutDies, StaffReleaseCheckoutIntent, Release,
       CreateCheckoutSession, CheckoutCreationFails, CreateSucceeds, SetBox,
       CreateFails, CreateFailed, BoxIsDeleted, SwapSlug, SlugChangeFails,
       ReconcileBoxDeletion
  <2> QED BY <2>1
<1>16. ASSUME (\E u \in Users : MarkAccountDeletionPending(u)) \/
              (\E u \in Users, sl \in Slugs : ReserveCheckoutIntent(u, sl)) \/
              (\E u \in Users, sl \in Slugs : ResumeCheckoutIntent(u, sl)) \/
              (\E i \in Intents, sl \in Slugs : StartSlugChange(i, sl)) \/
              (\E is \in SUBSET Intents : ReleaseExpiredCheckoutIntents(is)) \/
              (\E u \in Users : AccountDeletionReady(u)) \/
              (\E u \in Users : FinishAccountDeletion(u))
      PROVE  EventsAreReal'
  <2>1. UNCHANGED <<money, events>>
    BY <1>16 DEF MarkAccountDeletionPending, Release, ReserveCheckoutIntent,
       ResumeCheckoutIntent, StartSlugChange, SetBox,
       ReleaseExpiredCheckoutIntents, AccountDeletionReady,
       FinishAccountDeletion
  <2> QED BY <2>1
<1>17. ASSUME NEW s \in Sales, AlertUnsubscribedOrder(s) \/ PassOverRefundedOrder(s)
      PROVE  EventsAreReal'
  <2>1. events' \subseteq events /\ UNCHANGED money
    BY <1>17 DEF AlertUnsubscribedOrder, PassOverRefundedOrder, Answered
  <2> QED BY <2>1
<1>18. CASE UNCHANGED vars
  BY <1>18 DEF vars
<1> QED BY <1>1, <1>2, <1>3, <1>4, <1>5, <1>6, <1>7, <1>8, <1>9, <1>10, <1>11,
    <1>12, <1>13, <1>14, <1>15, <1>16, <1>17, <1>18
    DEF Next, CustomersAct, ThingsGoWrong, CheckoutCalls, Webhooks, Workflows,
        Renames, Sweeps

(* Handlers begin with an event, and order the calls they make themselves. *)
LEMMA HandlersAreRealStep ==
  ASSUME SaleInv, [Next]_vars
  PROVE  HandlersAreReal'
<1> USE DEF SaleInv, TypeOK, OrdersArePaidFor, EventsAreReal, HandlersAreReal,
    OrderIsTheIntents, BoxIsOrdered, intentVars, boxVars, callVars, polarVars
<1>1. ASSUME NEW s \in Sales, HandlePaidOrder(s) PROVE HandlersAreReal'
  <2>1. money[s] # "none"
    BY <1>1 DEF HandlePaidOrder, Deliver
  <2>2. \A t \in Sales : t # s => handler'[t] = handler[t]
    BY <1>1 DEF HandlePaidOrder
  <2> QED BY <1>1, <2>1, <2>2 DEF HandlePaidOrder
<1>2. ASSUME NEW s \in Sales, HandleRefundedOrder(s) PROVE HandlersAreReal'
  <2>1. money[s] # "none"
    BY <1>2 DEF HandleRefundedOrder, Deliver
  <2>2. \A t \in Sales : t # s => handler'[t] = handler[t]
    BY <1>2 DEF HandleRefundedOrder
  <2> QED BY <1>2, <2>1, <2>2 DEF HandleRefundedOrder
<1>3. ASSUME NEW s \in Sales, Pay(s) \/ RefundFromOutside(s) \/ HandlerDies(s) \/
             RepeatDecision(s) PROVE HandlersAreReal'
  BY <1>3 DEF Pay, RefundFromOutside, Trouble, HandlerDies, RepeatDecision,
     Answered, MoneyIsBack
<1>4. ASSUME NEW s \in Sales, RefuseSale(s) \/ ConvertCheckoutIntentToBox(s) \/
             RevokeUnfulfilled(s) \/ RefundUnfulfilled(s) PROVE HandlersAreReal'
  BY <1>4 DEF RefuseSale, Undecided, Release, ConvertCheckoutIntentToBox,
     Answered, RevokeUnfulfilled, EndSubscriptions, RefundUnfulfilled
<1>5. ASSUME NEW s \in Sales, RevokeRefunded(s) PROVE HandlersAreReal'
  BY <1>5 DEF RevokeRefunded
<1>6. ASSUME NEW i \in Intents, CreateFails(i) PROVE HandlersAreReal'
  BY <1>6 DEF CreateFails
<1>7. ASSUME NEW s \in Sales, SubscriptionRunsOut(s) \/ SessionCloses(s) \/
             AttachPolarCheckout(s) \/ HandleClosedCheckout(s) \/
             HandleRevokedSubscription(s)
      PROVE  HandlersAreReal'
  <2>1. UNCHANGED <<money, handler>>
    BY <1>7 DEF SubscriptionRunsOut, EndSubscriptions, SessionCloses,
       AttachPolarCheckout, HandleClosedCheckout, Release,
       HandleRevokedSubscription
  <2> QED BY <2>1
<1>8. ASSUME NEW i \in Intents, CheckoutDies(i) \/ StaffReleaseCheckoutIntent(i) \/
             CreateCheckoutSession(i) \/ CheckoutCreationFails(i) \/
             CreateSucceeds(i) \/ CreateFailed(i) \/ BoxIsDeleted(i) \/
             SwapSlug(i) \/ SlugChangeFails(i) \/ ReconcileBoxDeletion(i) \/
             StartDeletionWorkflow(i)
      PROVE  HandlersAreReal'
  <2>1. UNCHANGED <<money, handler>>
    BY <1>8 DEF CheckoutDies, StaffReleaseCheckoutIntent, Release,
       CreateCheckoutSession, CheckoutCreationFails, CreateSucceeds, SetBox,
       CreateFailed, BoxIsDeleted, SwapSlug, SlugChangeFails,
       ReconcileBoxDeletion, StartDeletionWorkflow, EndSubscriptions
  <2> QED BY <2>1
<1>9. ASSUME (\E u \in Users : MarkAccountDeletionPending(u)) \/
             (\E u \in Users, sl \in Slugs : ReserveCheckoutIntent(u, sl)) \/
             (\E u \in Users, sl \in Slugs : ResumeCheckoutIntent(u, sl)) \/
             (\E i \in Intents, sl \in Slugs : StartSlugChange(i, sl)) \/
             Redeliver \/
             (\E is \in SUBSET Intents : ReleaseExpiredCheckoutIntents(is)) \/
             (\E u \in Users : AccountDeletionReady(u)) \/
             (\E u \in Users : FinishAccountDeletion(u))
      PROVE  HandlersAreReal'
  <2>1. UNCHANGED <<money, handler>>
    BY <1>9 DEF MarkAccountDeletionPending, Release, ReserveCheckoutIntent,
       ResumeCheckoutIntent, StartSlugChange, SetBox, Redeliver,
       ReleaseExpiredCheckoutIntents, AccountDeletionReady,
       FinishAccountDeletion
  <2> QED BY <2>1
<1>10. ASSUME NEW s \in Sales, AlertUnsubscribedOrder(s) \/ PassOverRefundedOrder(s)
      PROVE  HandlersAreReal'
  <2>1. UNCHANGED <<money, handler>>
    BY <1>10 DEF AlertUnsubscribedOrder, PassOverRefundedOrder
  <2> QED BY <2>1
<1>11. CASE UNCHANGED vars
  BY <1>11 DEF vars
<1> QED BY <1>1, <1>2, <1>3, <1>4, <1>5, <1>6, <1>7, <1>8, <1>9, <1>10,
    <1>11
    DEF Next, CustomersAct, ThingsGoWrong, CheckoutCalls, Webhooks, Workflows,
        Renames, Sweeps

(* recordInitialPaidOrder writes orders of complete sales only, and never over
   another one. *)
LEMMA OrderIsTheIntentsStep ==
  ASSUME SaleInv, [Next]_vars
  PROVE  OrderIsTheIntents'
<1> USE DEF SaleInv, TypeOK, SessionsHaveIntents, OrdersArePaidFor,
    HandlersAreReal, EventsAreReal, OrderIsTheIntents, intentVars, boxVars,
    callVars, polarVars
<1>1. ASSUME NEW i \in Intents, CheckoutCreationFails(i) PROVE OrderIsTheIntents'
  <2>1. UNCHANGED <<order, intentOf>>
    BY <1>1 DEF CheckoutCreationFails, Release
  <2>2. \A t \in Sales : polar[t] = "paid" => polar'[t] = "paid"
    <3>1. CASE UNCHANGED polar
      BY <3>1
    <3>2. CASE \E t \in Sales :
                polar[t] = "created" /\ polar' = [polar EXCEPT ![t] = "closed"]
      BY <3>2
    <3> QED BY <1>1, <3>1, <3>2 DEF CheckoutCreationFails
  <2>3. \A i_1 \in Intents : order[i_1] # 0 => order[i_1] \in Sales
    BY SalesAreNumbers, BoundsAssumption DEF Sales
  <2> QED BY <2>1, <2>2, <2>3
<1>2. ASSUME NEW s \in Sales, HandlePaidOrder(s) PROVE OrderIsTheIntents'
  <2>1. money[s] # "none"
    BY <1>2 DEF HandlePaidOrder, Deliver
  <2>2. intentOf[s] \in Intents /\ (polar[s] = "flawed" \/ polar[s] = "paid")
    BY <2>1
  <2>3. UNCHANGED <<polar, intentOf>>
    BY <1>2 DEF HandlePaidOrder
  <2>4. \/ UNCHANGED order
        \/ polar[s] # "flawed" /\ order' = [order EXCEPT ![intentOf[s]] = s]
    BY <1>2 DEF HandlePaidOrder
  <2> QED BY <2>2, <2>3, <2>4
<1>3. ASSUME NEW s \in Sales, Pay(s) PROVE OrderIsTheIntents'
  BY <1>3 DEF Pay
<1>4. ASSUME NEW s \in Sales, SessionCloses(s) PROVE OrderIsTheIntents'
  BY <1>4 DEF SessionCloses, Trouble
<1>5. ASSUME NEW s \in Sales, AttachPolarCheckout(s) PROVE OrderIsTheIntents'
  BY <1>5 DEF AttachPolarCheckout
<1>6. ASSUME NEW i \in Intents, CreateCheckoutSession(i) PROVE OrderIsTheIntents'
  BY <1>6 DEF CreateCheckoutSession
<1>7. ASSUME NEW s \in Sales, SubscriptionRunsOut(s) \/ RefundFromOutside(s) \/
             HandlerDies(s) \/ RepeatDecision(s) \/ RefuseSale(s) \/
             ConvertCheckoutIntentToBox(s) \/ RevokeUnfulfilled(s) \/
             RefundUnfulfilled(s) \/ HandleRefundedOrder(s) \/ RevokeRefunded(s) \/
             HandleClosedCheckout(s) \/ HandleRevokedSubscription(s)
      PROVE  OrderIsTheIntents'
  <2>1. UNCHANGED <<order, polar, intentOf>>
    BY <1>7 DEF SubscriptionRunsOut, EndSubscriptions, RefundFromOutside,
       HandlerDies, RepeatDecision, RefuseSale, Release,
       ConvertCheckoutIntentToBox, RevokeUnfulfilled, RefundUnfulfilled,
       HandleRefundedOrder, RevokeRefunded, HandleClosedCheckout,
       HandleRevokedSubscription
  <2> QED BY <2>1
<1>8. ASSUME NEW i \in Intents, CheckoutDies(i) \/ StaffReleaseCheckoutIntent(i) \/
             CreateSucceeds(i) \/ CreateFails(i) \/ CreateFailed(i) \/
             BoxIsDeleted(i) \/ SwapSlug(i) \/ SlugChangeFails(i) \/
             ReconcileBoxDeletion(i) \/ StartDeletionWorkflow(i)
      PROVE  OrderIsTheIntents'
  <2>1. UNCHANGED <<order, polar, intentOf>>
    BY <1>8 DEF CheckoutDies, StaffReleaseCheckoutIntent, Release,
       CreateSucceeds, SetBox, CreateFails, CreateFailed, BoxIsDeleted,
       SwapSlug, SlugChangeFails, ReconcileBoxDeletion, StartDeletionWorkflow,
       EndSubscriptions
  <2> QED BY <2>1
<1>9. ASSUME (\E u \in Users : MarkAccountDeletionPending(u)) \/
             (\E u \in Users, sl \in Slugs : ReserveCheckoutIntent(u, sl)) \/
             (\E u \in Users, sl \in Slugs : ResumeCheckoutIntent(u, sl)) \/
             (\E i \in Intents, sl \in Slugs : StartSlugChange(i, sl)) \/
             Redeliver \/
             (\E is \in SUBSET Intents : ReleaseExpiredCheckoutIntents(is)) \/
             (\E u \in Users : AccountDeletionReady(u)) \/
             (\E u \in Users : FinishAccountDeletion(u))
      PROVE  OrderIsTheIntents'
  <2>1. UNCHANGED <<order, polar, intentOf>>
    BY <1>9 DEF MarkAccountDeletionPending, Release, ReserveCheckoutIntent,
       ResumeCheckoutIntent, StartSlugChange, SetBox, Redeliver,
       ReleaseExpiredCheckoutIntents, AccountDeletionReady,
       FinishAccountDeletion
  <2> QED BY <2>1
<1>10. ASSUME NEW s \in Sales, AlertUnsubscribedOrder(s) \/ PassOverRefundedOrder(s)
      PROVE  OrderIsTheIntents'
  <2>1. UNCHANGED <<order, polar, intentOf>>
    BY <1>10 DEF AlertUnsubscribedOrder, PassOverRefundedOrder
  <2> QED BY <2>1
<1>11. CASE UNCHANGED vars
  BY <1>11 DEF vars
<1> QED BY <1>1, <1>2, <1>3, <1>4, <1>5, <1>6, <1>7, <1>8, <1>9, <1>10,
    <1>11
    DEF Next, CustomersAct, ThingsGoWrong, CheckoutCalls, Webhooks, Workflows,
        Renames, Sweeps

(* A conversion is the recorded order's, and a converted reservation stays so. *)
LEMMA BoxIsOrderedStep ==
  ASSUME SaleInv, [Next]_vars
  PROVE  BoxIsOrdered'
<1> USE DEF SaleInv, TypeOK, SessionsHaveIntents, OrdersArePaidFor,
    HandlersAreReal, OrderIsTheIntents, BoxIsOrdered, ConvertersAreRecorded,
    intentVars, boxVars, callVars, polarVars
<1>1. ASSUME NEW u \in Users, NEW sl \in Slugs, ReserveCheckoutIntent(u, sl)
      PROVE  BoxIsOrdered'
  <2>1. PICK i \in Intents : status[i] = "none" /\
          status' = [k \in Intents |-> CASE k = i -> "active"
                                           [] k \in Superseded(u) -> "released"
                                           [] OTHER -> status[k]]
    BY <1>1 DEF ReserveCheckoutIntent
  <2>2. \A k \in Superseded(u) : status[k] = "active"
    BY DEF Superseded, ActiveOf
  <2>3. \A k \in Intents : status[k] = "converted" => status'[k] = "converted"
    BY <2>1, <2>2
  <2> QED BY <1>1, <2>3 DEF ReserveCheckoutIntent
<1>2. ASSUME NEW s \in Sales, ConvertCheckoutIntentToBox(s) PROVE BoxIsOrdered'
  <2>1. "convert" \in handler[s]
    BY <1>2 DEF ConvertCheckoutIntentToBox, Undecided
  <2>2. intentOf[s] \in Intents /\ order[intentOf[s]] = s /\ s # 0
    BY <2>1, PaidSales, SalesAreNotZero
  <2> QED BY <1>2, <2>2 DEF ConvertCheckoutIntentToBox, Undecided
<1>3. ASSUME NEW u \in Users, MarkAccountDeletionPending(u) PROVE BoxIsOrdered'
  BY <1>3 DEF MarkAccountDeletionPending, Release, Trouble, ActiveOf
<1>4. ASSUME NEW i \in Intents, NEW sl \in Slugs, StartSlugChange(i, sl)
      PROVE  BoxIsOrdered'
  BY <1>4 DEF StartSlugChange, SetBox, Trouble
<1>5. ASSUME NEW i \in Intents, StaffReleaseCheckoutIntent(i) \/
             CheckoutCreationFails(i) \/ CreateSucceeds(i) \/ CreateFails(i)
      PROVE  BoxIsOrdered'
  BY <1>5 DEF StaffReleaseCheckoutIntent, Release, Held, Trouble,
     CheckoutCreationFails, CreateSucceeds, SetBox, CreateFails
<1>6. ASSUME NEW i \in Intents, CreateFailed(i) \/ BoxIsDeleted(i) \/ SwapSlug(i) \/
             SlugChangeFails(i) PROVE BoxIsOrdered'
  BY <1>6 DEF CreateFailed, SetBox, BoxIsDeleted, SwapSlug, SlugChangeFails
<1>7. ASSUME NEW i \in Intents, ReconcileBoxDeletion(i) \/ StartDeletionWorkflow(i)
      PROVE  BoxIsOrdered'
  BY <1>7 DEF ReconcileBoxDeletion, Deletable, Free, StartDeletionWorkflow,
     EndSubscriptions, Live
<1>8. ASSUME NEW is \in SUBSET Intents, ReleaseExpiredCheckoutIntents(is)
      PROVE  BoxIsOrdered'
  BY <1>8 DEF ReleaseExpiredCheckoutIntents, Release, Trouble
<1>9. ASSUME NEW s \in Sales, HandlePaidOrder(s) \/ RefuseSale(s) \/
             HandleRefundedOrder(s) \/ HandleClosedCheckout(s) PROVE BoxIsOrdered'
  BY <1>9 DEF HandlePaidOrder, Deliver, Trouble, Contradicts, RefuseSale,
     Undecided, Release, HandleRefundedOrder, Held, HandleClosedCheckout
<1>10. ASSUME NEW s \in Sales, HandleRevokedSubscription(s) PROVE BoxIsOrdered'
  BY <1>10 DEF HandleRevokedSubscription, Deletable, Free, Live
<1>11. ASSUME NEW s \in Sales, Pay(s) \/ SubscriptionRunsOut(s) \/
              RefundFromOutside(s) \/ HandlerDies(s) \/ SessionCloses(s) \/
              AttachPolarCheckout(s) \/ RepeatDecision(s) \/ RevokeUnfulfilled(s) \/
              RefundUnfulfilled(s) \/ RevokeRefunded(s)
      PROVE  BoxIsOrdered'
  <2>1. UNCHANGED <<status, order, box, paidBy>>
    BY <1>11 DEF Pay, SubscriptionRunsOut, EndSubscriptions,
       RefundFromOutside, HandlerDies, SessionCloses, AttachPolarCheckout,
       RepeatDecision, RevokeUnfulfilled, RefundUnfulfilled, RevokeRefunded
  <2> QED BY <2>1
<1>12. ASSUME NEW i \in Intents, CheckoutDies(i) \/ CreateCheckoutSession(i)
      PROVE  BoxIsOrdered'
  <2>1. UNCHANGED <<status, order, box, paidBy>>
    BY <1>12 DEF CheckoutDies, CreateCheckoutSession
  <2> QED BY <2>1
<1>13. ASSUME (\E u \in Users, sl \in Slugs : ResumeCheckoutIntent(u, sl)) \/
              Redeliver \/ (\E u \in Users : AccountDeletionReady(u)) \/
              (\E u \in Users : FinishAccountDeletion(u))
      PROVE  BoxIsOrdered'
  <2>1. UNCHANGED <<status, order, box, paidBy>>
    BY <1>13 DEF ResumeCheckoutIntent, Redeliver, AccountDeletionReady,
       FinishAccountDeletion
  <2> QED BY <2>1
<1>14. ASSUME NEW s \in Sales, AlertUnsubscribedOrder(s) \/ PassOverRefundedOrder(s)
      PROVE  BoxIsOrdered'
  <2>1. UNCHANGED <<status, order, box, paidBy>>
    BY <1>14 DEF AlertUnsubscribedOrder, PassOverRefundedOrder
  <2> QED BY <2>1
<1>15. CASE UNCHANGED vars
  BY <1>15 DEF vars
<1> QED BY <1>1, <1>2, <1>3, <1>4, <1>5, <1>6, <1>7, <1>8, <1>9, <1>10, <1>11,
    <1>12, <1>13, <1>14, <1>15
    DEF Next, CustomersAct, ThingsGoWrong, CheckoutCalls, Webhooks, Workflows,
        Renames, Sweeps

(* Another sale's handler would have to get past Contradicts to change the order. *)
LEMMA ConvertersAreRecordedStep ==
  ASSUME SaleInv, [Next]_vars
  PROVE  ConvertersAreRecorded'
<1> USE DEF SaleInv, TypeOK, SessionsHaveIntents, OrdersArePaidFor,
    HandlersAreReal, EventsAreReal, OrderIsTheIntents, BoxIsOrdered,
    ConvertersAreRecorded, intentVars, boxVars, callVars, polarVars
<1>1. ASSUME NEW s \in Sales, HandlePaidOrder(s) PROVE ConvertersAreRecorded'
  <2>1. money[s] # "none"
    BY <1>1 DEF HandlePaidOrder, Deliver
  <2>2. intentOf[s] \in Intents
    BY <2>1, PaidSales
  <2>3. UNCHANGED intentOf
    BY <1>1 DEF HandlePaidOrder
  <2>4. CASE polar[s] = "flawed" \/ Contradicts(s, intentOf[s])
    BY <1>1, <2>3, <2>4 DEF HandlePaidOrder
  <2>5. CASE ~(polar[s] = "flawed" \/ Contradicts(s, intentOf[s]))
    <3>1. order'[intentOf[s]] = s
      BY <1>1, <2>2, <2>5 DEF HandlePaidOrder, Contradicts
    <3>2. \A i \in Intents :
            order'[i] = order[i] \/ (i = intentOf[s] /\ order[i] \in {0, s})
      <4>1. order[intentOf[s]] \in {0, s}
        BY <2>5 DEF Contradicts
      <4>2. order' = order \/ order' = [order EXCEPT ![intentOf[s]] = s]
        BY <1>1, <2>5 DEF HandlePaidOrder
      <4> QED BY <4>1, <4>2, <2>2
    <3>3. \A t \in Sales : t # s => handler'[t] = handler[t]
      BY <1>1, <2>5 DEF HandlePaidOrder
    <3>4. \A t \in Sales : "convert" \in handler[t] => intentOf[t] \in Intents /\ t # 0
      BY PaidSales, SalesAreNotZero
    <3> QED BY <2>3, <3>1, <3>2, <3>3, <3>4
  <2> QED BY <2>4, <2>5
<1>2. ASSUME NEW s \in Sales, HandlerDies(s) \/ RepeatDecision(s) \/
             RefuseSale(s) \/ ConvertCheckoutIntentToBox(s)
      PROVE  ConvertersAreRecorded'
  BY <1>2 DEF HandlerDies, Trouble, RepeatDecision, Answered, MoneyIsBack,
     RefuseSale, Undecided, Release, ConvertCheckoutIntentToBox
<1>3. ASSUME NEW s \in Sales, RevokeUnfulfilled(s) \/ RefundUnfulfilled(s) \/
             HandleRefundedOrder(s) \/ RevokeRefunded(s)
      PROVE  ConvertersAreRecorded'
  BY <1>3 DEF RevokeUnfulfilled, EndSubscriptions, RefundUnfulfilled,
     HandleRefundedOrder, Deliver, Trouble, Release, Held, RevokeRefunded
<1>4. ASSUME NEW i \in Intents, CreateCheckoutSession(i) \/ CreateFails(i)
      PROVE  ConvertersAreRecorded'
  BY <1>4 DEF CreateCheckoutSession, CreateFails
<1>5. ASSUME NEW s \in Sales, Pay(s) \/ SubscriptionRunsOut(s) \/
             RefundFromOutside(s) \/ SessionCloses(s) \/ AttachPolarCheckout(s) \/
             HandleClosedCheckout(s) \/ HandleRevokedSubscription(s)
      PROVE  ConvertersAreRecorded'
  <2>1. UNCHANGED <<order, intentOf, handler>>
    BY <1>5 DEF Pay, SubscriptionRunsOut, EndSubscriptions, RefundFromOutside,
       SessionCloses, AttachPolarCheckout, HandleClosedCheckout, Release,
       HandleRevokedSubscription
  <2> QED BY <2>1
<1>6. ASSUME NEW i \in Intents, CheckoutDies(i) \/ StaffReleaseCheckoutIntent(i) \/
             CheckoutCreationFails(i) \/ CreateSucceeds(i) \/ CreateFailed(i) \/
             BoxIsDeleted(i) \/ SwapSlug(i) \/ SlugChangeFails(i) \/
             ReconcileBoxDeletion(i) \/ StartDeletionWorkflow(i)
      PROVE  ConvertersAreRecorded'
  <2>1. UNCHANGED <<order, intentOf, handler>>
    BY <1>6 DEF CheckoutDies, StaffReleaseCheckoutIntent, Release,
       CheckoutCreationFails, CreateSucceeds, SetBox, CreateFailed,
       BoxIsDeleted, SwapSlug, SlugChangeFails, ReconcileBoxDeletion,
       StartDeletionWorkflow, EndSubscriptions
  <2> QED BY <2>1
<1>7. ASSUME (\E u \in Users : MarkAccountDeletionPending(u)) \/
             (\E u \in Users, sl \in Slugs : ReserveCheckoutIntent(u, sl)) \/
             (\E u \in Users, sl \in Slugs : ResumeCheckoutIntent(u, sl)) \/
             (\E i \in Intents, sl \in Slugs : StartSlugChange(i, sl)) \/
             Redeliver \/
             (\E is \in SUBSET Intents : ReleaseExpiredCheckoutIntents(is)) \/
             (\E u \in Users : AccountDeletionReady(u)) \/
             (\E u \in Users : FinishAccountDeletion(u))
      PROVE  ConvertersAreRecorded'
  <2>1. UNCHANGED <<order, intentOf, handler>>
    BY <1>7 DEF MarkAccountDeletionPending, Release, ReserveCheckoutIntent,
       ResumeCheckoutIntent, StartSlugChange, SetBox, Redeliver,
       ReleaseExpiredCheckoutIntents, AccountDeletionReady,
       FinishAccountDeletion
  <2> QED BY <2>1
<1>8. ASSUME NEW s \in Sales, AlertUnsubscribedOrder(s) \/ PassOverRefundedOrder(s)
      PROVE  ConvertersAreRecorded'
  <2>1. UNCHANGED <<order, intentOf, handler>>
    BY <1>8 DEF AlertUnsubscribedOrder, PassOverRefundedOrder
  <2> QED BY <2>1
<1>9. CASE UNCHANGED vars
  BY <1>9 DEF vars
<1> QED BY <1>1, <1>2, <1>3, <1>4, <1>5, <1>6, <1>7, <1>8, <1>9
    DEF Next, CustomersAct, ThingsGoWrong, CheckoutCalls, Webhooks, Workflows,
        Renames, Sweeps

(* A reason comes with the end of a reservation. *)
LEMMA OpenIsUnrefusedStep ==
  ASSUME SaleInv, [Next]_vars
  PROVE  OpenIsUnrefused'
<1> USE DEF SaleInv, TypeOK, OpenIsUnrefused, intentVars, boxVars, callVars,
    polarVars
<1>1. ASSUME NEW u \in Users, NEW sl \in Slugs, ReserveCheckoutIntent(u, sl)
      PROVE  OpenIsUnrefused'
  <2>1. \A k \in Intents : status'[k] = "active" => status[k] \in {"none", "active"}
    BY <1>1 DEF ReserveCheckoutIntent
  <2> QED BY <1>1, <2>1 DEF ReserveCheckoutIntent
<1>2. ASSUME NEW u \in Users, MarkAccountDeletionPending(u) PROVE OpenIsUnrefused'
  BY <1>2 DEF MarkAccountDeletionPending, Release, Trouble, ActiveOf
<1>3. ASSUME NEW i \in Intents, StaffReleaseCheckoutIntent(i) \/
             CheckoutCreationFails(i) PROVE OpenIsUnrefused'
  BY <1>3 DEF StaffReleaseCheckoutIntent, Release, Held, Trouble,
     CheckoutCreationFails
<1>4. ASSUME NEW is \in SUBSET Intents, ReleaseExpiredCheckoutIntents(is)
      PROVE  OpenIsUnrefused'
  BY <1>4 DEF ReleaseExpiredCheckoutIntents, Release, Trouble
<1>5. ASSUME NEW s \in Sales, RefuseSale(s) \/ ConvertCheckoutIntentToBox(s) \/
             HandleRefundedOrder(s) \/ HandleClosedCheckout(s)
      PROVE  OpenIsUnrefused'
  BY <1>5 DEF RefuseSale, Undecided, Release, ConvertCheckoutIntentToBox,
     Answered, HandleRefundedOrder, Deliver, Trouble, Held,
     HandleClosedCheckout
<1>6. ASSUME NEW s \in Sales, Pay(s) \/ SubscriptionRunsOut(s) \/
             RefundFromOutside(s) \/ HandlerDies(s) \/ SessionCloses(s) \/
             AttachPolarCheckout(s) \/ HandlePaidOrder(s) \/ RepeatDecision(s) \/
             RevokeUnfulfilled(s) \/ RefundUnfulfilled(s) \/ RevokeRefunded(s) \/
             HandleRevokedSubscription(s)
      PROVE  OpenIsUnrefused'
  <2>1. UNCHANGED <<status, reason>>
    BY <1>6 DEF Pay, SubscriptionRunsOut, EndSubscriptions, RefundFromOutside,
       HandlerDies, SessionCloses, AttachPolarCheckout, HandlePaidOrder,
       RepeatDecision, RevokeUnfulfilled, RefundUnfulfilled, RevokeRefunded,
       HandleRevokedSubscription
  <2> QED BY <2>1
<1>7. ASSUME NEW i \in Intents, CheckoutDies(i) \/ CreateCheckoutSession(i) \/
             CreateSucceeds(i) \/ CreateFails(i) \/ CreateFailed(i) \/
             BoxIsDeleted(i) \/ SwapSlug(i) \/ SlugChangeFails(i) \/
             ReconcileBoxDeletion(i) \/ StartDeletionWorkflow(i)
      PROVE  OpenIsUnrefused'
  <2>1. UNCHANGED <<status, reason>>
    BY <1>7 DEF CheckoutDies, CreateCheckoutSession, CreateSucceeds, SetBox,
       CreateFails, CreateFailed, BoxIsDeleted, SwapSlug, SlugChangeFails,
       ReconcileBoxDeletion, StartDeletionWorkflow, EndSubscriptions
  <2> QED BY <2>1
<1>8. ASSUME (\E u \in Users, sl \in Slugs : ResumeCheckoutIntent(u, sl)) \/
             (\E i \in Intents, sl \in Slugs : StartSlugChange(i, sl)) \/
             Redeliver \/ (\E u \in Users : AccountDeletionReady(u)) \/
             (\E u \in Users : FinishAccountDeletion(u))
      PROVE  OpenIsUnrefused'
  <2>1. UNCHANGED <<status, reason>>
    BY <1>8 DEF ResumeCheckoutIntent, StartSlugChange, SetBox, Redeliver,
       AccountDeletionReady, FinishAccountDeletion
  <2> QED BY <2>1
<1>9. ASSUME NEW s \in Sales, AlertUnsubscribedOrder(s) \/ PassOverRefundedOrder(s)
      PROVE  OpenIsUnrefused'
  <2>1. UNCHANGED <<status, reason>>
    BY <1>9 DEF AlertUnsubscribedOrder, PassOverRefundedOrder
  <2> QED BY <2>1
<1>10. CASE UNCHANGED vars
  BY <1>10 DEF vars
<1> QED BY <1>1, <1>2, <1>3, <1>4, <1>5, <1>6, <1>7, <1>8, <1>9, <1>10
    DEF Next, CustomersAct, ThingsGoWrong, CheckoutCalls, Webhooks, Workflows,
        Renames, Sweeps

(* What there is to a recorded order ... *)
LEMMA RecordedOrders ==
  ASSUME SaleInv, NEW i \in Intents, order[i] # 0
  PROVE  /\ order[i] \in Sales
         /\ intentOf[order[i]] = i
         /\ polar[order[i]] = "paid"
         /\ status[i] # "none"
<1>1. order[i] \in Sales
  BY BoundsAssumption DEF SaleInv, TypeOK, Sales
<1> QED BY <1>1 DEF SaleInv, OrderIsTheIntents, SessionsHaveIntents

(* ... and to a box. *)
LEMMA PaidBoxes ==
  ASSUME SaleInv, NEW i \in Intents, box[i] # "none"
  PROVE  order[i] # 0 /\ paidBy[i] = order[i]
BY DEF SaleInv, BoxIsOrdered

(* What holds of sales without further assumptions. *)
LEMMA SaleInvHolds ==
  /\ Init => SaleInv
  /\ SaleInv /\ [Next]_vars => SaleInv'
<1>1. ASSUME Init PROVE SaleInv
  <2>1. TypeOK
    BY <1>1, BoundsAssumption DEF Init, TypeOK
  <2> QED BY <1>1, <2>1 DEF Init, SaleInv, SessionsHaveIntents, OrdersArePaidFor,
        EventsAreReal, HandlersAreReal, OrderIsTheIntents, BoxIsOrdered,
        ConvertersAreRecorded, OpenIsUnrefused
<1>2. ASSUME SaleInv, [Next]_vars PROVE SaleInv'
  <2>1. BoxIsPaid
    BY <1>2, RecordedOrders, PaidBoxes DEF BoxIsPaid
  <2>2. TypeOK'
    BY <1>2, <2>1, TypeOKStep DEF SaleInv
  <2> QED BY <1>2, <2>2, SessionsHaveIntentsStep, OrdersArePaidForStep,
      EventsAreRealStep,
        HandlersAreRealStep, OrderIsTheIntentsStep, BoxIsOrderedStep,
        ConvertersAreRecordedStep, OpenIsUnrefusedStep DEF SaleInv
<1> QED BY <1>1, <1>2

(* Only a refunded order releases a reservation as refunded. *)
LEMMA RefundsAreRealStep ==
  ASSUME ThirdInv, [Next]_vars
  PROVE  RefundsAreReal'
<1> USE DEF ThirdInv, SaleInv, TypeOK, SessionsHaveIntents, OrdersArePaidFor,
    HandlersAreReal, RefundsAreReal, intentVars, boxVars, callVars, polarVars
<1>1. ASSUME NEW s \in Sales, HandleRefundedOrder(s) PROVE RefundsAreReal'
  <2>1. money[s] = "refunded"
    BY <1>1 DEF HandleRefundedOrder, Deliver, EventsAreReal
  <2>2. \A i \in Intents : reason'[i] = reason[i] \/ i = intentOf[s]
    BY <1>1 DEF HandleRefundedOrder, Release
  <2> QED BY <1>1, <2>1, <2>2 DEF HandleRefundedOrder
<1>2. ASSUME NEW u \in Users, MarkAccountDeletionPending(u) PROVE RefundsAreReal'
  BY <1>2 DEF MarkAccountDeletionPending, Release, Trouble, ActiveOf
<1>3. ASSUME NEW s \in Sales, Pay(s) \/ RefundFromOutside(s) \/ RefuseSale(s) \/
             RefundUnfulfilled(s) PROVE RefundsAreReal'
  BY <1>3 DEF Pay, RefundFromOutside, Trouble, RefuseSale, Undecided, Release,
     RefundUnfulfilled
<1>4. ASSUME NEW s \in Sales, HandleClosedCheckout(s) PROVE RefundsAreReal'
  BY <1>4 DEF HandleClosedCheckout, Release, Held
<1>5. ASSUME NEW i \in Intents, StaffReleaseCheckoutIntent(i) \/
             CreateCheckoutSession(i) \/ CheckoutCreationFails(i)
      PROVE  RefundsAreReal'
  BY <1>5 DEF StaffReleaseCheckoutIntent, Release, Held, Trouble,
     CreateCheckoutSession, CheckoutCreationFails
<1>6. ASSUME NEW is \in SUBSET Intents, ReleaseExpiredCheckoutIntents(is)
      PROVE  RefundsAreReal'
  BY <1>6 DEF ReleaseExpiredCheckoutIntents, Release, Trouble
<1>7. ASSUME NEW s \in Sales, SubscriptionRunsOut(s) \/ HandlerDies(s) \/
             SessionCloses(s) \/ AttachPolarCheckout(s) \/ HandlePaidOrder(s) \/
             RepeatDecision(s) \/ ConvertCheckoutIntentToBox(s) \/
             RevokeUnfulfilled(s) \/ RevokeRefunded(s) \/
             HandleRevokedSubscription(s)
      PROVE  RefundsAreReal'
  <2>1. UNCHANGED <<reason, intentOf, money>>
    BY <1>7 DEF SubscriptionRunsOut, EndSubscriptions, HandlerDies,
       SessionCloses, AttachPolarCheckout, HandlePaidOrder, RepeatDecision,
       ConvertCheckoutIntentToBox, RevokeUnfulfilled, RevokeRefunded,
       HandleRevokedSubscription
  <2> QED BY <2>1
<1>8. ASSUME NEW i \in Intents, CheckoutDies(i) \/ CreateSucceeds(i) \/
             CreateFails(i) \/ CreateFailed(i) \/ BoxIsDeleted(i) \/ SwapSlug(i) \/
             SlugChangeFails(i) \/ ReconcileBoxDeletion(i) \/
             StartDeletionWorkflow(i)
      PROVE  RefundsAreReal'
  <2>1. UNCHANGED <<reason, intentOf, money>>
    BY <1>8 DEF CheckoutDies, CreateSucceeds, SetBox, CreateFails,
       CreateFailed, BoxIsDeleted, SwapSlug, SlugChangeFails,
       ReconcileBoxDeletion, StartDeletionWorkflow, EndSubscriptions
  <2> QED BY <2>1
<1>9. ASSUME (\E u \in Users, sl \in Slugs : ReserveCheckoutIntent(u, sl)) \/
             (\E u \in Users, sl \in Slugs : ResumeCheckoutIntent(u, sl)) \/
             (\E i \in Intents, sl \in Slugs : StartSlugChange(i, sl)) \/
             Redeliver \/ (\E u \in Users : AccountDeletionReady(u)) \/
             (\E u \in Users : FinishAccountDeletion(u))
      PROVE  RefundsAreReal'
  <2>1. UNCHANGED <<reason, intentOf, money>>
    BY <1>9 DEF ReserveCheckoutIntent, ResumeCheckoutIntent, StartSlugChange,
       SetBox, Redeliver, AccountDeletionReady, FinishAccountDeletion
  <2> QED BY <2>1
<1>10. ASSUME NEW s \in Sales, AlertUnsubscribedOrder(s) \/ PassOverRefundedOrder(s)
      PROVE  RefundsAreReal'
  <2>1. UNCHANGED <<reason, intentOf, money>>
    BY <1>10 DEF AlertUnsubscribedOrder, PassOverRefundedOrder
  <2> QED BY <2>1
<1>11. CASE UNCHANGED vars
  BY <1>11 DEF vars
<1> QED BY <1>1, <1>2, <1>3, <1>4, <1>5, <1>6, <1>7, <1>8, <1>9, <1>10,
    <1>11
    DEF Next, CustomersAct, ThingsGoWrong, CheckoutCalls, Webhooks, Workflows,
        Renames, Sweeps

(* The assumption on customers, of the whole past. *)
LEMMA PaidOnceStep ==
  ASSUME PaysOnce, ThirdInv, [Next]_vars
  PROVE  PaidOnce'
<1> USE DEF ThirdInv, SaleInv, TypeOK, OrdersArePaidFor, HandlersAreReal,
    PaidOnce, intentVars, boxVars, callVars, polarVars
<1>1. ASSUME NEW s \in Sales, Pay(s) \/ RefundFromOutside(s) \/ RefundUnfulfilled(s)
      PROVE  PaidOnce'
  BY <1>1 DEF Pay, RefundFromOutside, Trouble, RefundUnfulfilled
<1>2. ASSUME NEW i \in Intents, CreateCheckoutSession(i) PROVE PaidOnce'
  BY <1>2 DEF CreateCheckoutSession
<1>3. ASSUME NEW s \in Sales, SubscriptionRunsOut(s) \/ HandlerDies(s) \/
             SessionCloses(s) \/ AttachPolarCheckout(s) \/ HandlePaidOrder(s) \/
             RepeatDecision(s) \/ RefuseSale(s) \/ ConvertCheckoutIntentToBox(s) \/
             RevokeUnfulfilled(s) \/ HandleRefundedOrder(s) \/ RevokeRefunded(s) \/
             HandleClosedCheckout(s) \/ HandleRevokedSubscription(s)
      PROVE  PaidOnce'
  <2>1. UNCHANGED <<intentOf, money>>
    BY <1>3 DEF SubscriptionRunsOut, EndSubscriptions, HandlerDies,
       SessionCloses, AttachPolarCheckout, HandlePaidOrder, RepeatDecision,
       RefuseSale, Release, ConvertCheckoutIntentToBox, RevokeUnfulfilled,
       HandleRefundedOrder, RevokeRefunded, HandleClosedCheckout,
       HandleRevokedSubscription
  <2> QED BY <2>1
<1>4. ASSUME NEW i \in Intents, CheckoutDies(i) \/ StaffReleaseCheckoutIntent(i) \/
             CheckoutCreationFails(i) \/ CreateSucceeds(i) \/ CreateFails(i) \/
             CreateFailed(i) \/ BoxIsDeleted(i) \/ SwapSlug(i) \/
             SlugChangeFails(i) \/ ReconcileBoxDeletion(i) \/
             StartDeletionWorkflow(i)
      PROVE  PaidOnce'
  <2>1. UNCHANGED <<intentOf, money>>
    BY <1>4 DEF CheckoutDies, StaffReleaseCheckoutIntent, Release,
       CheckoutCreationFails, CreateSucceeds, SetBox, CreateFails,
       CreateFailed, BoxIsDeleted, SwapSlug, SlugChangeFails,
       ReconcileBoxDeletion, StartDeletionWorkflow, EndSubscriptions
  <2> QED BY <2>1
<1>5. ASSUME (\E u \in Users : MarkAccountDeletionPending(u)) \/
             (\E u \in Users, sl \in Slugs : ReserveCheckoutIntent(u, sl)) \/
             (\E u \in Users, sl \in Slugs : ResumeCheckoutIntent(u, sl)) \/
             (\E i \in Intents, sl \in Slugs : StartSlugChange(i, sl)) \/
             Redeliver \/
             (\E is \in SUBSET Intents : ReleaseExpiredCheckoutIntents(is)) \/
             (\E u \in Users : AccountDeletionReady(u)) \/
             (\E u \in Users : FinishAccountDeletion(u))
      PROVE  PaidOnce'
  <2>1. UNCHANGED <<intentOf, money>>
    BY <1>5 DEF MarkAccountDeletionPending, Release, ReserveCheckoutIntent,
       ResumeCheckoutIntent, StartSlugChange, SetBox, Redeliver,
       ReleaseExpiredCheckoutIntents, AccountDeletionReady,
       FinishAccountDeletion
  <2> QED BY <2>1
<1>6. ASSUME NEW s \in Sales, AlertUnsubscribedOrder(s) \/ PassOverRefundedOrder(s)
      PROVE  PaidOnce'
  <2>1. UNCHANGED <<intentOf, money>>
    BY <1>6 DEF AlertUnsubscribedOrder, PassOverRefundedOrder
  <2> QED BY <2>1
<1>7. CASE UNCHANGED vars
  BY <1>7 DEF vars
<1> QED BY <1>1, <1>2, <1>3, <1>4, <1>5, <1>6, <1>7
    DEF Next, CustomersAct, ThingsGoWrong, CheckoutCalls, Webhooks, Workflows,
        Renames, Sweeps

(* An order is answered with its box, after its refund, because the refund that
   decided it was its own, or with an alert. *)
LEMMA AnswersAreFinalStep ==
  ASSUME ThirdInv, [Next]_vars
  PROVE  AnswersAreFinal'
<1> USE DEF ThirdInv, SaleInv, TypeOK, AnswersAreFinal, HasBox, intentVars,
    boxVars, callVars, polarVars
<1>1. ASSUME NEW s \in Sales, Pay(s) PROVE AnswersAreFinal'
  <2>1. ASSUME NEW t \in Sales, <<"paid", t>> \notin events'
        PROVE  <<"paid", t>> \notin events
    BY <1>1, <2>1 DEF Pay
  <2>2. ASSUME NEW t \in Sales, money'[t] = "paid"
        PROVE  <<"paid", s>> \in events' /\ (t = s \/ money[t] = "paid")
    BY <1>1, <2>2 DEF Pay
  <2>3. UNCHANGED <<paidBy, alerted>>
    BY <1>1 DEF Pay
  <2> QED BY <2>1, <2>2, <2>3
<1>2. ASSUME NEW s \in Sales, SubscriptionRunsOut(s) PROVE AnswersAreFinal'
  <2>1. ASSUME NEW t \in Sales, <<"paid", t>> \notin events'
        PROVE  <<"paid", t>> \notin events
    BY <1>2, <2>1 DEF SubscriptionRunsOut, EndSubscriptions
  <2>2. ASSUME NEW t \in Sales, money'[t] = "paid"
        PROVE  money[t] = "paid"
    BY <1>2, <2>2 DEF SubscriptionRunsOut
  <2>3. UNCHANGED <<paidBy, alerted>>
    BY <1>2 DEF SubscriptionRunsOut
  <2> QED BY <2>1, <2>2, <2>3
<1>3. ASSUME NEW s \in Sales, RefundFromOutside(s) PROVE AnswersAreFinal'
  <2>1. ASSUME NEW t \in Sales, <<"paid", t>> \notin events'
        PROVE  <<"paid", t>> \notin events
    BY <1>3, <2>1 DEF RefundFromOutside
  <2>2. ASSUME NEW t \in Sales, money'[t] = "paid"
        PROVE  money[t] = "paid"
    BY <1>3, <2>2 DEF RefundFromOutside
  <2>3. UNCHANGED <<paidBy, alerted>>
    BY <1>3 DEF RefundFromOutside
  <2> QED BY <2>1, <2>2, <2>3
<1>4. ASSUME Redeliver PROVE AnswersAreFinal'
  <2>1. ASSUME NEW t \in Sales, <<"paid", t>> \notin events'
        PROVE  <<"paid", t>> \notin events
    BY <1>4, <2>1 DEF Redeliver, Sent
  <2>2. ASSUME NEW t \in Sales, money'[t] = "paid"
        PROVE  money[t] = "paid"
    BY <1>4, <2>2 DEF Redeliver
  <2>3. UNCHANGED <<paidBy, alerted>>
    BY <1>4 DEF Redeliver
  <2> QED BY <2>1, <2>2, <2>3
<1>5. ASSUME NEW s \in Sales, SessionCloses(s) PROVE AnswersAreFinal'
  <2>1. ASSUME NEW t \in Sales, <<"paid", t>> \notin events'
        PROVE  <<"paid", t>> \notin events
    BY <1>5, <2>1 DEF SessionCloses
  <2>2. ASSUME NEW t \in Sales, money'[t] = "paid"
        PROVE  money[t] = "paid"
    BY <1>5, <2>2 DEF SessionCloses
  <2>3. UNCHANGED <<paidBy, alerted>>
    BY <1>5 DEF SessionCloses
  <2> QED BY <2>1, <2>2, <2>3
<1>6. ASSUME NEW s \in Sales, RepeatDecision(s) PROVE AnswersAreFinal'
  <2> DEFINE i == intentOf[s]
  <2>1. UNCHANGED <<money, paidBy, alerted>>
    BY <1>6 DEF RepeatDecision
  <2>2. i \in Intents /\ order[i] = s
    BY <1>6, PaidSales DEF ConvertersAreRecorded, RepeatDecision
  <2>3. \/ events' = events
        \/ /\ events' = events \ {<<"paid", s>>}
           /\ box[i] # "none" \/ reason[i] = "order_fully_refunded"
    BY <1>6 DEF RepeatDecision, Answered, MoneyIsBack
  <2>4. CASE events' = events
    BY <2>1, <2>4
  <2>5. CASE box[i] # "none" /\ events' = events \ {<<"paid", s>>}
    <3>1. HasBox(s)
      BY <2>2, <2>5 DEF BoxIsOrdered
    <3>2. \A t \in Sales :
          t # s /\ <<"paid", t>> \notin events' => <<"paid", t>> \notin events
      BY <2>5
    <3> QED BY <2>1, <3>1, <3>2
  <2>6. CASE reason[i] = "order_fully_refunded" /\ events' = events \ {<<"paid", s>>}
    <3>1. PICK t \in Sales : intentOf[t] = i /\ money[t] = "refunded"
      BY <2>2, <2>6 DEF RefundsAreReal
    <3>2. money[s] # "none"
      BY <1>6 DEF RepeatDecision, HandlersAreReal
    <3>3. t = s
      BY <3>1, <3>2 DEF PaidOnce
    <3>4. \A r \in Sales :
          r # s /\ <<"paid", r>> \notin events' => <<"paid", r>> \notin events
      BY <2>6
    <3> QED BY <2>1, <3>1, <3>3, <3>4
  <2> QED BY <2>3, <2>4, <2>5, <2>6
<1>7. ASSUME NEW s \in Sales, ConvertCheckoutIntentToBox(s) PROVE AnswersAreFinal'
  <2> DEFINE i == intentOf[s]
  <2>1. i \in Intents /\ box[i] = "none" /\ UNCHANGED <<money, alerted>>
    BY <1>7, PaidSales DEF ConvertCheckoutIntentToBox, Undecided
  <2>2. paidBy' = [paidBy EXCEPT ![i] = s] /\ paidBy[i] = 0
    BY <1>7, <2>1 DEF BoxIsOrdered, ConvertCheckoutIntentToBox
  <2>3. HasBox(s)' /\ \A t \in Sales : HasBox(t) => HasBox(t)'
    BY <2>1, <2>2, SalesAreNotZero
  <2>4. \A t \in Sales :
          t # s /\ <<"paid", t>> \notin events' => <<"paid", t>> \notin events
    BY <1>7 DEF ConvertCheckoutIntentToBox, Answered
  <2> QED BY <2>1, <2>3, <2>4
<1>8. ASSUME NEW s \in Sales, RevokeUnfulfilled(s) PROVE AnswersAreFinal'
  <2>1. ASSUME NEW t \in Sales, <<"paid", t>> \notin events'
        PROVE  <<"paid", t>> \notin events
    BY <1>8, <2>1 DEF RevokeUnfulfilled, EndSubscriptions
  <2>2. ASSUME NEW t \in Sales, money'[t] = "paid"
        PROVE  money[t] = "paid"
    BY <1>8, <2>2 DEF RevokeUnfulfilled
  <2>3. UNCHANGED <<paidBy, alerted>>
    BY <1>8 DEF RevokeUnfulfilled
  <2> QED BY <2>1, <2>2, <2>3
<1>9. ASSUME NEW s \in Sales, RefundUnfulfilled(s) PROVE AnswersAreFinal'
  <2>1. ASSUME NEW t \in Sales, <<"paid", t>> \notin events'
        PROVE  <<"paid", t>> \notin events \/ t = s
    BY <1>9, <2>1 DEF RefundUnfulfilled
  <2>2. ASSUME NEW t \in Sales, money'[t] = "paid"
        PROVE  t # s /\ money[t] = "paid"
    BY <1>9, <2>2 DEF RefundUnfulfilled
  <2>3. UNCHANGED <<paidBy, alerted>>
    BY <1>9 DEF RefundUnfulfilled
  <2> QED BY <2>1, <2>2, <2>3
<1>10. ASSUME NEW s \in Sales, RevokeRefunded(s) PROVE AnswersAreFinal'
  <2>1. ASSUME NEW t \in Sales, <<"paid", t>> \notin events'
        PROVE  <<"paid", t>> \notin events
    BY <1>10, <2>1 DEF RevokeRefunded
  <2>2. ASSUME NEW t \in Sales, money'[t] = "paid"
        PROVE  money[t] = "paid"
    BY <1>10, <2>2 DEF RevokeRefunded
  <2>3. UNCHANGED <<paidBy, alerted>>
    BY <1>10 DEF RevokeRefunded
  <2> QED BY <2>1, <2>2, <2>3
<1>11. ASSUME NEW s \in Sales, HandleClosedCheckout(s) PROVE AnswersAreFinal'
  <2>1. ASSUME NEW t \in Sales, <<"paid", t>> \notin events'
        PROVE  <<"paid", t>> \notin events
    BY <1>11, <2>1 DEF HandleClosedCheckout
  <2>2. ASSUME NEW t \in Sales, money'[t] = "paid"
        PROVE  money[t] = "paid"
    BY <1>11, <2>2 DEF HandleClosedCheckout
  <2>3. UNCHANGED <<paidBy, alerted>>
    BY <1>11 DEF HandleClosedCheckout
  <2> QED BY <2>1, <2>2, <2>3
<1>12. ASSUME NEW s \in Sales, HandleRevokedSubscription(s) PROVE AnswersAreFinal'
  <2>1. ASSUME NEW t \in Sales, <<"paid", t>> \notin events'
        PROVE  <<"paid", t>> \notin events
    BY <1>12, <2>1 DEF HandleRevokedSubscription
  <2>2. ASSUME NEW t \in Sales, money'[t] = "paid"
        PROVE  money[t] = "paid"
    BY <1>12, <2>2 DEF HandleRevokedSubscription
  <2>3. UNCHANGED <<paidBy, alerted>>
    BY <1>12 DEF HandleRevokedSubscription
  <2> QED BY <2>1, <2>2, <2>3
<1>13. ASSUME NEW i \in Intents, StartDeletionWorkflow(i) PROVE AnswersAreFinal'
  <2>1. ASSUME NEW t \in Sales, <<"paid", t>> \notin events'
        PROVE  <<"paid", t>> \notin events
    BY <1>13, <2>1 DEF StartDeletionWorkflow, EndSubscriptions
  <2>2. ASSUME NEW t \in Sales, money'[t] = "paid"
        PROVE  money[t] = "paid"
    BY <1>13, <2>2 DEF StartDeletionWorkflow
  <2>3. UNCHANGED <<paidBy, alerted>>
    BY <1>13 DEF StartDeletionWorkflow
  <2> QED BY <2>1, <2>2, <2>3
<1>14. ASSUME NEW s \in Sales, HandlerDies(s) \/ AttachPolarCheckout(s) \/
              HandlePaidOrder(s) \/ RefuseSale(s) \/ HandleRefundedOrder(s)
      PROVE  AnswersAreFinal'
  <2>1. UNCHANGED <<paidBy, money, events, alerted>>
    BY <1>14 DEF HandlerDies, AttachPolarCheckout, HandlePaidOrder,
       RefuseSale, Release, HandleRefundedOrder
  <2> QED BY <2>1
<1>15. ASSUME NEW i \in Intents, CheckoutDies(i) \/ StaffReleaseCheckoutIntent(i) \/
              CreateCheckoutSession(i) \/ CheckoutCreationFails(i) \/
              CreateSucceeds(i) \/ CreateFails(i) \/ CreateFailed(i) \/
              BoxIsDeleted(i) \/ SwapSlug(i) \/ SlugChangeFails(i) \/
              ReconcileBoxDeletion(i)
      PROVE  AnswersAreFinal'
  <2>1. UNCHANGED <<paidBy, money, events, alerted>>
    BY <1>15 DEF CheckoutDies, StaffReleaseCheckoutIntent, Release,
       CreateCheckoutSession, CheckoutCreationFails, CreateSucceeds, SetBox,
       CreateFails, CreateFailed, BoxIsDeleted, SwapSlug, SlugChangeFails,
       ReconcileBoxDeletion
  <2> QED BY <2>1
<1>16. ASSUME (\E u \in Users : MarkAccountDeletionPending(u)) \/
              (\E u \in Users, sl \in Slugs : ReserveCheckoutIntent(u, sl)) \/
              (\E u \in Users, sl \in Slugs : ResumeCheckoutIntent(u, sl)) \/
              (\E i \in Intents, sl \in Slugs : StartSlugChange(i, sl)) \/
              (\E is \in SUBSET Intents : ReleaseExpiredCheckoutIntents(is)) \/
              (\E u \in Users : AccountDeletionReady(u)) \/
              (\E u \in Users : FinishAccountDeletion(u))
      PROVE  AnswersAreFinal'
  <2>1. UNCHANGED <<paidBy, money, events, alerted>>
    BY <1>16 DEF MarkAccountDeletionPending, Release, ReserveCheckoutIntent,
       ResumeCheckoutIntent, StartSlugChange, SetBox,
       ReleaseExpiredCheckoutIntents, AccountDeletionReady,
       FinishAccountDeletion
  <2> QED BY <2>1
<1>17. ASSUME NEW s \in Sales, AlertUnsubscribedOrder(s) PROVE AnswersAreFinal'
  <2>1. ASSUME NEW t \in Sales, <<"paid", t>> \notin events', t # s
        PROVE  <<"paid", t>> \notin events
    BY <1>17, <2>1 DEF AlertUnsubscribedOrder, Answered
  <2>2. UNCHANGED <<money, paidBy>> /\ alerted' = alerted \cup {s}
    BY <1>17 DEF AlertUnsubscribedOrder
  <2> QED BY <2>1, <2>2
<1>18. ASSUME NEW s \in Sales, PassOverRefundedOrder(s) PROVE AnswersAreFinal'
  <2>1. ASSUME NEW t \in Sales, <<"paid", t>> \notin events'
        PROVE  <<"paid", t>> \notin events
    BY <1>18, <2>1 DEF PassOverRefundedOrder
  <2>2. UNCHANGED <<money, paidBy, alerted>>
    BY <1>18 DEF PassOverRefundedOrder
  <2> QED BY <2>1, <2>2
<1>19. CASE UNCHANGED vars
  BY <1>19 DEF vars
<1> QED BY <1>1, <1>2, <1>3, <1>4, <1>5, <1>6, <1>7, <1>8, <1>9, <1>10, <1>11,
    <1>12, <1>13, <1>14, <1>15, <1>16, <1>17, <1>18, <1>19
    DEF Next, CustomersAct, ThingsGoWrong, CheckoutCalls, Webhooks, Workflows,
        Renames, Sweeps

(* A subscription, once there, is never unmade, and an order without one is
   never handled. *)
LEMMA OnlySubscribersAreHandledStep ==
  ASSUME ThirdInv, [Next]_vars
  PROVE  OnlySubscribersAreHandled'
<1> USE DEF ThirdInv, SaleInv, TypeOK, OrdersArePaidFor, HandlersAreReal,
    EventsAreReal, OnlySubscribersAreHandled, intentVars, boxVars, callVars,
    polarVars
<1>1. \A i \in Intents : order[i] # 0 => order[i] \in Sales
  BY SalesAreNumbers, BoundsAssumption DEF Sales
<1>2. ASSUME NEW s \in Sales, Pay(s) PROVE OnlySubscribersAreHandled'
  <2>1. money[s] = "none" /\ \A t \in Sales : t # s => sub'[t] = sub[t]
    BY <1>2 DEF Pay, Trouble
  <2>2. sub[s] # "none" => sub'[s] # "none"
    BY <1>2 DEF Pay, Trouble
  <2>3. UNCHANGED <<order, handler, alerted>>
    BY <1>2 DEF Pay
  <2>4. \A t \in Sales : money[t] # "none" => money'[t] # "none"
    BY <1>2 DEF Pay
  <2> QED BY <1>1, <2>1, <2>2, <2>3, <2>4
<1>3. ASSUME NEW s \in Sales, HandlePaidOrder(s) PROVE OnlySubscribersAreHandled'
  <2>1. sub[s] # "none" /\ UNCHANGED <<sub, money, alerted>>
    BY <1>3 DEF HandlePaidOrder
  <2>2. \A t \in Sales : t # s => handler'[t] = handler[t]
    BY <1>3 DEF HandlePaidOrder
  <2>3. UNCHANGED order \/ order' = [order EXCEPT ![intentOf[s]] = s]
    BY <1>3 DEF HandlePaidOrder
  <2> QED BY <2>1, <2>2, <2>3
<1>4. ASSUME NEW s \in Sales, HandleRefundedOrder(s)
      PROVE  OnlySubscribersAreHandled'
  <2>1. sub[s] # "none" /\ UNCHANGED <<sub, money, alerted, order>>
    BY <1>4 DEF HandleRefundedOrder, Release
  <2>2. \A t \in Sales : t # s => handler'[t] = handler[t]
    BY <1>4 DEF HandleRefundedOrder
  <2> QED BY <2>1, <2>2
<1>5. ASSUME NEW i \in Intents, CreateFails(i) PROVE OnlySubscribersAreHandled'
  <2>1. order[i] \in Sales => sub[order[i]] # "none"
    BY SalesAreNotZero
  <2>2. \A t \in Sales : t # order[i] => handler'[t] = handler[t]
    BY <1>5 DEF CreateFails
  <2>3. UNCHANGED <<sub, money, alerted, order>>
    BY <1>5 DEF CreateFails
  <2> QED BY <2>1, <2>2, <2>3
<1>6. ASSUME NEW s \in Sales, RevokeRefunded(s) PROVE OnlySubscribersAreHandled'
  <2>1. sub[s] # "none" /\ sub' = [sub EXCEPT ![s] = "ended"]
    BY <1>6 DEF RevokeRefunded
  <2>2. \A t \in Sales : handler'[t] \subseteq handler[t]
    BY <1>6 DEF RevokeRefunded
  <2>3. UNCHANGED <<money, alerted, order>>
    BY <1>6 DEF RevokeRefunded
  <2> QED BY <1>1, <2>1, <2>2, <2>3
<1>7. ASSUME NEW s \in Sales, SubscriptionRunsOut(s) \/ RevokeUnfulfilled(s)
      PROVE  OnlySubscribersAreHandled'
  <2>1. \A t \in Sales : sub'[t] = "none" <=> sub[t] = "none"
    BY <1>7 DEF SubscriptionRunsOut, RevokeUnfulfilled, EndSubscriptions
  <2>2. \A t \in Sales : handler'[t] # {} => handler[t] # {}
    BY <1>7 DEF SubscriptionRunsOut, RevokeUnfulfilled
  <2>3. UNCHANGED <<money, alerted, order>>
    BY <1>7 DEF SubscriptionRunsOut, RevokeUnfulfilled
  <2> QED BY <1>1, <2>1, <2>2, <2>3
<1>8. ASSUME NEW i \in Intents, StartDeletionWorkflow(i)
      PROVE  OnlySubscribersAreHandled'
  <2>1. \A t \in Sales : sub'[t] = "none" <=> sub[t] = "none"
    BY <1>8 DEF StartDeletionWorkflow, EndSubscriptions
  <2>2. UNCHANGED <<handler, money, alerted, order>>
    BY <1>8 DEF StartDeletionWorkflow
  <2> QED BY <1>1, <2>1, <2>2
<1>9. ASSUME NEW s \in Sales, AlertUnsubscribedOrder(s)
      PROVE  OnlySubscribersAreHandled'
  <2>1. sub[s] = "none" /\ money[s] # "none"
    BY <1>9 DEF AlertUnsubscribedOrder
  <2>2. UNCHANGED <<sub, money, handler, order>> /\ alerted' = alerted \cup {s}
    BY <1>9 DEF AlertUnsubscribedOrder
  <2> QED BY <2>1, <2>2
<1>10. ASSUME NEW s \in Sales, HandlerDies(s) \/ RepeatDecision(s) \/ RefuseSale(s) \/
              ConvertCheckoutIntentToBox(s)
      PROVE  OnlySubscribersAreHandled'
  <2>1. \A t \in Sales : handler'[t] # {} => handler[t] # {}
    BY <1>10 DEF HandlerDies, RepeatDecision, RefuseSale, Undecided,
       ConvertCheckoutIntentToBox
  <2>2. UNCHANGED <<sub, money, alerted, order>>
    BY <1>10 DEF HandlerDies, RepeatDecision, RefuseSale, Release,
       ConvertCheckoutIntentToBox
  <2> QED BY <2>1, <2>2
<1>11. ASSUME NEW s \in Sales, RefundFromOutside(s) \/ RefundUnfulfilled(s)
      PROVE  OnlySubscribersAreHandled'
  <2>1. \A t \in Sales : handler'[t] # {} => handler[t] # {}
    BY <1>11 DEF RefundFromOutside, RefundUnfulfilled
  <2>2. \A t \in Sales : money[t] # "none" => money'[t] # "none"
    BY <1>11 DEF RefundFromOutside, RefundUnfulfilled
  <2>3. UNCHANGED <<sub, alerted, order>>
    BY <1>11 DEF RefundFromOutside, RefundUnfulfilled
  <2> QED BY <2>1, <2>2, <2>3
<1>12. ASSUME NEW s \in Sales, SessionCloses(s) \/ AttachPolarCheckout(s) \/
              PassOverRefundedOrder(s) \/ HandleClosedCheckout(s) \/
              HandleRevokedSubscription(s)
      PROVE  OnlySubscribersAreHandled'
  <2>1. UNCHANGED <<sub, money, handler, alerted, order>>
    BY <1>12 DEF SessionCloses, AttachPolarCheckout, PassOverRefundedOrder,
       HandleClosedCheckout, Release, HandleRevokedSubscription
  <2> QED BY <2>1
<1>13. ASSUME NEW i \in Intents, CheckoutDies(i) \/ StaffReleaseCheckoutIntent(i) \/
              CreateCheckoutSession(i) \/ CheckoutCreationFails(i) \/
              CreateSucceeds(i) \/ CreateFailed(i) \/ BoxIsDeleted(i) \/
              SwapSlug(i) \/ SlugChangeFails(i) \/ ReconcileBoxDeletion(i)
      PROVE  OnlySubscribersAreHandled'
  <2>1. UNCHANGED <<sub, money, handler, alerted, order>>
    BY <1>13 DEF CheckoutDies, StaffReleaseCheckoutIntent, Release,
       CreateCheckoutSession, CheckoutCreationFails, CreateSucceeds, SetBox,
       CreateFailed, BoxIsDeleted, SwapSlug, SlugChangeFails,
       ReconcileBoxDeletion
  <2> QED BY <2>1
<1>14. ASSUME (\E u \in Users : MarkAccountDeletionPending(u)) \/
              (\E u \in Users, sl \in Slugs : ReserveCheckoutIntent(u, sl)) \/
              (\E u \in Users, sl \in Slugs : ResumeCheckoutIntent(u, sl)) \/
              (\E i \in Intents, sl \in Slugs : StartSlugChange(i, sl)) \/
              Redeliver \/
              (\E is \in SUBSET Intents : ReleaseExpiredCheckoutIntents(is)) \/
              (\E u \in Users : AccountDeletionReady(u)) \/
              (\E u \in Users : FinishAccountDeletion(u))
      PROVE  OnlySubscribersAreHandled'
  <2>1. UNCHANGED <<sub, money, handler, alerted, order>>
    BY <1>14 DEF MarkAccountDeletionPending, Release, ReserveCheckoutIntent,
       ResumeCheckoutIntent, StartSlugChange, SetBox, Redeliver,
       ReleaseExpiredCheckoutIntents, AccountDeletionReady,
       FinishAccountDeletion
  <2> QED BY <2>1
<1>15. CASE UNCHANGED vars
  BY <1>15 DEF vars
<1> QED BY <1>2, <1>3, <1>4, <1>5, <1>6, <1>7, <1>8, <1>9, <1>10, <1>11, <1>12,
    <1>13, <1>14, <1>15
    DEF Next, CustomersAct, ThingsGoWrong, CheckoutCalls, Webhooks, Workflows,
        Renames, Sweeps

(* What the alert is for: a box is only ever made for a subscription, so of what
   AnswersAreFinal leaves open the order decides. *)
LEMMA ThirdInvAccounts == ThirdInv => OrdersAreAccountedFor
<1> SUFFICES ASSUME ThirdInv, NEW s \in Sales, money[s] = "paid",
                    <<"paid", s>> \notin events
             PROVE  IF sub[s] = "none" THEN s \in alerted ELSE HasBox(s)
  BY DEF OrdersAreAccountedFor
<1> USE DEF ThirdInv, SaleInv
<1>1. HasBox(s) \/ s \in alerted
  BY DEF AnswersAreFinal
<1>2. ASSUME HasBox(s) PROVE sub[s] # "none"
  <2>1. PICK i \in Intents : paidBy[i] = s
    BY <1>2 DEF HasBox
  <2>2. order[i] = s /\ order[i] # 0
    BY <2>1, SalesAreNotZero DEF BoxIsOrdered
  <2> QED BY <2>2 DEF OnlySubscribersAreHandled
<1>3. s \in alerted => sub[s] = "none"
  BY DEF OnlySubscribersAreHandled
<1> QED BY <1>1, <1>2, <1>3

(* webhooks.ts, handlePaidOrder: where customers pay one session of a
   reservation, an order whose webhook was answered has its box or has been
   given back, whatever dies, is repeated or comes late, but for the orders
   that opened no subscription: those staff have been told of. *)
THEOREM OrdersHaveAnOutcome ==
  ASSUME PaysOnce PROVE Spec => []OrdersAreAccountedFor
<1>1. Init => ThirdInv
  BY SaleInvHolds DEF Init, ThirdInv, RefundsAreReal, PaidOnce, AnswersAreFinal,
     OnlySubscribersAreHandled
<1>2. ThirdInv /\ [Next]_vars => ThirdInv'
  BY SaleInvHolds, RefundsAreRealStep, PaidOnceStep, AnswersAreFinalStep,
     OnlySubscribersAreHandledStep DEF ThirdInv
<1>3. ThirdInv => OrdersAreAccountedFor
  BY ThirdInvAccounts
<1> QED BY <1>1, <1>2, <1>3, PTL DEF Spec

(* While the order is recorded no session is opened or attached. *)
LEMMA SessionIsTheOrdersStep ==
  ASSUME ~AttachRaces, KeptInv, [Next]_vars
  PROVE  SessionIsTheOrders'
<1> USE DEF KeptInv, SaleInv, TypeOK, SessionIsTheOrders, BeingOpened,
    intentVars, boxVars, callVars, polarVars
<1>1. ASSUME NEW u \in Users, NEW sl \in Slugs, ReserveCheckoutIntent(u, sl)
      PROVE  SessionIsTheOrders'
  <2>1. PICK i \in Intents : status[i] = "none" /\ opening' = opening \cup {i}
    BY <1>1 DEF ReserveCheckoutIntent
  <2>2. order[i] = 0
    BY <2>1, RecordedOrders
  <2> QED BY <1>1, <2>1, <2>2 DEF ReserveCheckoutIntent
<1>2. ASSUME NEW u \in Users, NEW sl \in Slugs, ResumeCheckoutIntent(u, sl)
      PROVE  SessionIsTheOrders'
  <2>1. PICK i \in Intents : order[i] = 0 /\ opening' = opening \cup {i}
    BY <1>2 DEF ResumeCheckoutIntent, OwnReservation, NeedsSession
  <2> QED BY <1>2, <2>1 DEF ResumeCheckoutIntent
<1>3. ASSUME NEW i \in Intents, CreateCheckoutSession(i) PROVE SessionIsTheOrders'
  <2>1. \A j \in Intents : BeingOpened(j)' => BeingOpened(j)
    BY <1>3 DEF CreateCheckoutSession
  <2> QED BY <1>3, <2>1 DEF CreateCheckoutSession
<1>4. ASSUME NEW i \in Intents, CheckoutCreationFails(i) PROVE SessionIsTheOrders'
  <2>1. \A j \in Intents : BeingOpened(j)' => BeingOpened(j)
    BY <1>4 DEF CheckoutCreationFails
  <2> QED BY <1>4, <2>1 DEF CheckoutCreationFails, Release
<1>5. ASSUME NEW s \in Sales, AttachPolarCheckout(s) PROVE SessionIsTheOrders'
  <2>1. \A j \in Intents : BeingOpened(j)' => BeingOpened(j)
    BY <1>5 DEF AttachPolarCheckout
  <2>2. /\ BeingOpened(intentOf[s])
        /\ \A j \in Intents : j # intentOf[s] => session'[j] = session[j]
    BY <1>5 DEF AttachPolarCheckout
  <2> QED BY <1>5, <2>1, <2>2 DEF AttachPolarCheckout
<1>6. ASSUME NEW s \in Sales, HandlePaidOrder(s) PROVE SessionIsTheOrders'
  <2> DEFINE i == intentOf[s]
  <2>1. i \in Intents
    BY <1>6, PaidSales DEF EventsAreReal, HandlePaidOrder, Deliver
  <2>2. ~BeingOpened(i) /\ UNCHANGED <<opening, polar, intentOf>>
    BY <1>6 DEF HandlePaidOrder
  <2>3. \/ UNCHANGED <<session, order>>
        \/ session' = [session EXCEPT ![i] = s] /\ order' = [order EXCEPT ![i] = s]
    BY <1>6 DEF HandlePaidOrder
  <2> QED BY <2>1, <2>2, <2>3
<1>7. ASSUME NEW s \in Sales, Pay(s) \/ SessionCloses(s) PROVE SessionIsTheOrders'
  BY <1>7 DEF Pay, SessionCloses, Trouble
<1>8. ASSUME NEW i \in Intents, CheckoutDies(i) PROVE SessionIsTheOrders'
  BY <1>8 DEF CheckoutDies, Trouble
<1>9. ASSUME NEW s \in Sales, SubscriptionRunsOut(s) \/ RefundFromOutside(s) \/
             HandlerDies(s) \/ RepeatDecision(s) \/ RefuseSale(s) \/
             ConvertCheckoutIntentToBox(s) \/ RevokeUnfulfilled(s) \/
             RefundUnfulfilled(s) \/ HandleRefundedOrder(s) \/ RevokeRefunded(s) \/
             HandleClosedCheckout(s) \/ HandleRevokedSubscription(s)
      PROVE  SessionIsTheOrders'
  <2>1. UNCHANGED <<session, order, opening, polar, intentOf>>
    BY <1>9 DEF SubscriptionRunsOut, EndSubscriptions, RefundFromOutside,
       HandlerDies, RepeatDecision, RefuseSale, Release,
       ConvertCheckoutIntentToBox, RevokeUnfulfilled, RefundUnfulfilled,
       HandleRefundedOrder, RevokeRefunded, HandleClosedCheckout,
       HandleRevokedSubscription
  <2> QED BY <2>1
<1>10. ASSUME NEW i \in Intents, StaffReleaseCheckoutIntent(i) \/
              CreateSucceeds(i) \/ CreateFails(i) \/ CreateFailed(i) \/
              BoxIsDeleted(i) \/ SwapSlug(i) \/ SlugChangeFails(i) \/
              ReconcileBoxDeletion(i) \/ StartDeletionWorkflow(i)
      PROVE  SessionIsTheOrders'
  <2>1. UNCHANGED <<session, order, opening, polar, intentOf>>
    BY <1>10 DEF StaffReleaseCheckoutIntent, Release, CreateSucceeds, SetBox,
       CreateFails, CreateFailed, BoxIsDeleted, SwapSlug, SlugChangeFails,
       ReconcileBoxDeletion, StartDeletionWorkflow, EndSubscriptions
  <2> QED BY <2>1
<1>11. ASSUME (\E u \in Users : MarkAccountDeletionPending(u)) \/
              (\E i \in Intents, sl \in Slugs : StartSlugChange(i, sl)) \/
              Redeliver \/
              (\E is \in SUBSET Intents : ReleaseExpiredCheckoutIntents(is)) \/
              (\E u \in Users : AccountDeletionReady(u)) \/
              (\E u \in Users : FinishAccountDeletion(u))
      PROVE  SessionIsTheOrders'
  <2>1. UNCHANGED <<session, order, opening, polar, intentOf>>
    BY <1>11 DEF MarkAccountDeletionPending, Release, StartSlugChange, SetBox,
       Redeliver, ReleaseExpiredCheckoutIntents, AccountDeletionReady,
       FinishAccountDeletion
  <2> QED BY <2>1
<1>12. ASSUME NEW s \in Sales, AlertUnsubscribedOrder(s) \/ PassOverRefundedOrder(s)
      PROVE  SessionIsTheOrders'
  <2>1. UNCHANGED <<session, order, opening, polar, intentOf>>
    BY <1>12 DEF AlertUnsubscribedOrder, PassOverRefundedOrder
  <2> QED BY <2>1
<1>13. CASE UNCHANGED vars
  BY <1>13 DEF vars
<1> QED BY <1>1, <1>2, <1>3, <1>4, <1>5, <1>6, <1>7, <1>8, <1>9, <1>10, <1>11,
    <1>12, <1>13
    DEF Next, CustomersAct, ThingsGoWrong, CheckoutCalls, Webhooks, Workflows,
        Renames, Sweeps

(* What founds a refusal stays while handlers of the sale are at work: a reason is
   not overwritten, a contradiction not resolved, a failed box not revived. *)
LEMMA RefusalsAreFoundedStep ==
  ASSUME KeptInv, [Next]_vars
  PROVE  RefusalsAreFounded'
<1> USE DEF KeptInv, SaleInv, TypeOK, RefusalsAreFounded, Refusing, Founded,
    Contradicts, intentVars, boxVars, callVars, polarVars
<1>1. ASSUME NEW u \in Users, MarkAccountDeletionPending(u)
      PROVE  RefusalsAreFounded'
  <2>1. ASSUME NEW t \in Sales, handler[t] # {}, Founded(t)
        PROVE  Founded(t)'
    BY <1>1, <2>1, PaidSales, SalesAreNotZero DEF OpenIsUnrefused,
       MarkAccountDeletionPending, Release, Trouble, ActiveOf
  <2>2. \A t \in Sales : Refusing(t)' => Refusing(t) /\ handler[t] # {}
    BY <1>1 DEF MarkAccountDeletionPending
  <2> QED BY <2>1, <2>2
<1>2. ASSUME NEW s \in Sales, Pay(s) PROVE RefusalsAreFounded'
  <2>1. ASSUME NEW t \in Sales, handler[t] # {}, Founded(t)
        PROVE  Founded(t)'
    BY <1>2, <2>1, PaidSales, SalesAreNotZero DEF Pay
  <2>2. \A t \in Sales : Refusing(t)' => Refusing(t) /\ handler[t] # {}
    BY <1>2 DEF Pay
  <2> QED BY <2>1, <2>2
<1>3. ASSUME NEW i \in Intents, NEW sl \in Slugs, StartSlugChange(i, sl)
      PROVE  RefusalsAreFounded'
  <2>1. ASSUME NEW t \in Sales, handler[t] # {}, Founded(t)
        PROVE  Founded(t)'
    BY <1>3, <2>1, PaidSales, SalesAreNotZero DEF StartSlugChange, SetBox,
       Trouble
  <2>2. \A t \in Sales : Refusing(t)' => Refusing(t) /\ handler[t] # {}
    BY <1>3 DEF StartSlugChange
  <2> QED BY <2>1, <2>2
<1>4. ASSUME NEW s \in Sales, HandlerDies(s) PROVE RefusalsAreFounded'
  <2>1. ASSUME NEW t \in Sales, handler[t] # {}, Founded(t)
        PROVE  Founded(t)'
    BY <1>4, <2>1, PaidSales, SalesAreNotZero DEF HandlerDies, Trouble
  <2>2. \A t \in Sales : Refusing(t)' => Refusing(t) /\ handler[t] # {}
    BY <1>4 DEF HandlerDies
  <2> QED BY <2>1, <2>2
<1>5. ASSUME NEW s \in Sales, SessionCloses(s) PROVE RefusalsAreFounded'
  <2>1. ASSUME NEW t \in Sales, handler[t] # {}, Founded(t)
        PROVE  Founded(t)'
    BY <1>5, <2>1, PaidSales, SalesAreNotZero DEF SessionCloses, Trouble
  <2>2. \A t \in Sales : Refusing(t)' => Refusing(t) /\ handler[t] # {}
    BY <1>5 DEF SessionCloses
  <2> QED BY <2>1, <2>2
<1>6. ASSUME NEW i \in Intents, StaffReleaseCheckoutIntent(i)
      PROVE  RefusalsAreFounded'
  <2>1. ASSUME NEW t \in Sales, handler[t] # {}, Founded(t)
        PROVE  Founded(t)'
    BY <1>6, <2>1, PaidSales, SalesAreNotZero DEF OpenIsUnrefused,
       StaffReleaseCheckoutIntent, Release, Held, Trouble
  <2>2. \A t \in Sales : Refusing(t)' => Refusing(t) /\ handler[t] # {}
    BY <1>6 DEF StaffReleaseCheckoutIntent
  <2> QED BY <2>1, <2>2
<1>7. ASSUME NEW is \in SUBSET Intents, ReleaseExpiredCheckoutIntents(is)
      PROVE  RefusalsAreFounded'
  <2>1. ASSUME NEW t \in Sales, handler[t] # {}, Founded(t)
        PROVE  Founded(t)'
    BY <1>7, <2>1, PaidSales, SalesAreNotZero DEF OpenIsUnrefused,
       ReleaseExpiredCheckoutIntents, Release, Trouble
  <2>2. \A t \in Sales : Refusing(t)' => Refusing(t) /\ handler[t] # {}
    BY <1>7 DEF ReleaseExpiredCheckoutIntents
  <2> QED BY <2>1, <2>2
<1>8. ASSUME NEW i \in Intents, CreateCheckoutSession(i) PROVE RefusalsAreFounded'
  <2>1. ASSUME NEW t \in Sales, handler[t] # {}, Founded(t)
        PROVE  Founded(t)'
    BY <1>8, <2>1, PaidSales, SalesAreNotZero DEF CreateCheckoutSession
  <2>2. \A t \in Sales : Refusing(t)' => Refusing(t) /\ handler[t] # {}
    BY <1>8 DEF CreateCheckoutSession
  <2> QED BY <2>1, <2>2
<1>9. ASSUME NEW i \in Intents, CheckoutCreationFails(i) PROVE RefusalsAreFounded'
  <2>1. ASSUME NEW t \in Sales, handler[t] # {}, Founded(t)
        PROVE  Founded(t)'
    BY <1>9, <2>1, PaidSales, SalesAreNotZero DEF OpenIsUnrefused,
       CheckoutCreationFails, Release, Held, Trouble
  <2>2. \A t \in Sales : Refusing(t)' => Refusing(t) /\ handler[t] # {}
    BY <1>9 DEF CheckoutCreationFails
  <2> QED BY <2>1, <2>2
<1>10. ASSUME NEW s \in Sales, AttachPolarCheckout(s) PROVE RefusalsAreFounded'
  <2>1. ASSUME NEW t \in Sales, handler[t] # {}, Founded(t)
        PROVE  Founded(t)'
    BY <1>10, <2>1, PaidSales, SalesAreNotZero DEF AttachPolarCheckout
  <2>2. \A t \in Sales : Refusing(t)' => Refusing(t) /\ handler[t] # {}
    BY <1>10 DEF AttachPolarCheckout
  <2> QED BY <2>1, <2>2
<1>11. ASSUME NEW s \in Sales, HandlePaidOrder(s) PROVE RefusalsAreFounded'
  <2>0. intentOf[s] \in Intents
    BY <1>11, PaidSales DEF EventsAreReal, HandlePaidOrder, Deliver
  <2>1. ASSUME NEW t \in Sales, handler[t] # {}, Founded(t)
        PROVE  Founded(t)'
    BY <1>11, <2>0, <2>1, PaidSales, SalesAreNotZero DEF HandlePaidOrder,
       Deliver, Trouble
  <2>2. ASSUME NEW t \in Sales, Refusing(t)'
        PROVE  Founded(t)' \/ (Refusing(t) /\ handler[t] # {})
    BY <1>11, <2>0, <2>2, SalesAreNotZero DEF HandlePaidOrder, Deliver,
       Trouble
  <2> QED BY <2>1, <2>2
<1>12. ASSUME NEW s \in Sales, RepeatDecision(s) PROVE RefusalsAreFounded'
  <2>0. intentOf[s] \in Intents
    BY <1>12, PaidSales DEF RepeatDecision
  <2>1. ASSUME NEW t \in Sales, handler[t] # {}, Founded(t)
        PROVE  Founded(t)'
    BY <1>12, <2>0, <2>1, PaidSales, SalesAreNotZero DEF RepeatDecision,
       Answered, MoneyIsBack
  <2>2. ASSUME NEW t \in Sales, Refusing(t)'
        PROVE  Founded(t)' \/ (Refusing(t) /\ handler[t] # {})
    BY <1>12, <2>0, <2>2, SalesAreNotZero DEF RepeatDecision, Answered,
       MoneyIsBack
  <2> QED BY <2>1, <2>2
<1>13. ASSUME NEW s \in Sales, RefuseSale(s) PROVE RefusalsAreFounded'
  <2>0. intentOf[s] \in Intents
    BY <1>13, PaidSales DEF RefuseSale, Undecided
  <2>1. ASSUME NEW t \in Sales, handler[t] # {}, Founded(t)
        PROVE  Founded(t)'
    BY <1>13, <2>0, <2>1, PaidSales, SalesAreNotZero DEF RefuseSale,
       Undecided, Release
  <2>2. ASSUME NEW t \in Sales, Refusing(t)'
        PROVE  Founded(t)' \/ (Refusing(t) /\ handler[t] # {})
    BY <1>13, <2>0, <2>2, SalesAreNotZero DEF RefuseSale, Undecided, Release
  <2> QED BY <2>1, <2>2
<1>14. ASSUME NEW s \in Sales, ConvertCheckoutIntentToBox(s)
      PROVE  RefusalsAreFounded'
  <2>1. ASSUME NEW t \in Sales, handler[t] # {}, Founded(t)
        PROVE  Founded(t)'
    BY <1>14, <2>1, PaidSales, SalesAreNotZero DEF ConvertCheckoutIntentToBox,
       Undecided, Answered
  <2>2. \A t \in Sales : Refusing(t)' => Refusing(t) /\ handler[t] # {}
    BY <1>14 DEF ConvertCheckoutIntentToBox
  <2> QED BY <2>1, <2>2
<1>15. ASSUME NEW s \in Sales, RevokeUnfulfilled(s) PROVE RefusalsAreFounded'
  <2>0. intentOf[s] \in Intents
    BY <1>15, PaidSales DEF RevokeUnfulfilled
  <2>1. ASSUME NEW t \in Sales, handler[t] # {}, Founded(t)
        PROVE  Founded(t)'
    BY <1>15, <2>0, <2>1, PaidSales, SalesAreNotZero DEF RevokeUnfulfilled,
       EndSubscriptions
  <2>2. ASSUME NEW t \in Sales, Refusing(t)'
        PROVE  Founded(t)' \/ (Refusing(t) /\ handler[t] # {})
    BY <1>15, <2>0, <2>2, SalesAreNotZero DEF RevokeUnfulfilled,
       EndSubscriptions
  <2> QED BY <2>1, <2>2
<1>16. ASSUME NEW s \in Sales, RefundUnfulfilled(s) PROVE RefusalsAreFounded'
  <2>0. intentOf[s] \in Intents
    BY <1>16, PaidSales DEF RefundUnfulfilled
  <2>1. ASSUME NEW t \in Sales, handler[t] # {}, Founded(t)
        PROVE  Founded(t)'
    BY <1>16, <2>0, <2>1, PaidSales, SalesAreNotZero DEF RefundUnfulfilled
  <2>2. ASSUME NEW t \in Sales, Refusing(t)'
        PROVE  Founded(t)' \/ (Refusing(t) /\ handler[t] # {})
    BY <1>16, <2>0, <2>2, SalesAreNotZero DEF RefundUnfulfilled
  <2> QED BY <2>1, <2>2
<1>17. ASSUME NEW s \in Sales, HandleRefundedOrder(s) PROVE RefusalsAreFounded'
  <2>1. ASSUME NEW t \in Sales, handler[t] # {}, Founded(t)
        PROVE  Founded(t)'
    BY <1>17, <2>1, PaidSales, SalesAreNotZero DEF OpenIsUnrefused,
       HandleRefundedOrder, Deliver, Trouble, Release, Held
  <2>2. \A t \in Sales : Refusing(t)' => Refusing(t) /\ handler[t] # {}
    BY <1>17 DEF HandleRefundedOrder
  <2> QED BY <2>1, <2>2
<1>18. ASSUME NEW s \in Sales, RevokeRefunded(s) PROVE RefusalsAreFounded'
  <2>1. ASSUME NEW t \in Sales, handler[t] # {}, Founded(t)
        PROVE  Founded(t)'
    BY <1>18, <2>1, PaidSales, SalesAreNotZero DEF RevokeRefunded
  <2>2. \A t \in Sales : Refusing(t)' => Refusing(t) /\ handler[t] # {}
    BY <1>18 DEF RevokeRefunded
  <2> QED BY <2>1, <2>2
<1>19. ASSUME NEW s \in Sales, HandleClosedCheckout(s) PROVE RefusalsAreFounded'
  <2>1. ASSUME NEW t \in Sales, handler[t] # {}, Founded(t)
        PROVE  Founded(t)'
    BY <1>19, <2>1, PaidSales, SalesAreNotZero DEF OpenIsUnrefused,
       HandleClosedCheckout, Release, Held
  <2>2. \A t \in Sales : Refusing(t)' => Refusing(t) /\ handler[t] # {}
    BY <1>19 DEF HandleClosedCheckout
  <2> QED BY <2>1, <2>2
<1>20. ASSUME NEW s \in Sales, HandleRevokedSubscription(s)
      PROVE  RefusalsAreFounded'
  <2>1. ASSUME NEW t \in Sales, handler[t] # {}, Founded(t)
        PROVE  Founded(t)'
    BY <1>20, <2>1, PaidSales, SalesAreNotZero DEF HandleRevokedSubscription,
       Deletable, Free, Live
  <2>2. \A t \in Sales : Refusing(t)' => Refusing(t) /\ handler[t] # {}
    BY <1>20 DEF HandleRevokedSubscription
  <2> QED BY <2>1, <2>2
<1>21. ASSUME NEW i \in Intents, CreateSucceeds(i) PROVE RefusalsAreFounded'
  <2>1. ASSUME NEW t \in Sales, handler[t] # {}, Founded(t)
        PROVE  Founded(t)'
    BY <1>21, <2>1, PaidSales, SalesAreNotZero DEF CreateSucceeds, SetBox
  <2>2. \A t \in Sales : Refusing(t)' => Refusing(t) /\ handler[t] # {}
    BY <1>21 DEF CreateSucceeds
  <2> QED BY <2>1, <2>2
<1>22. ASSUME NEW i \in Intents, CreateFails(i) PROVE RefusalsAreFounded'
  <2>0. order[i] \in Sales /\ intentOf[order[i]] = i
    BY <1>22, RecordedOrders, PaidBoxes DEF CreateFails
  <2>1. ASSUME NEW t \in Sales, handler[t] # {}, Founded(t)
        PROVE  Founded(t)'
    BY <1>22, <2>0, <2>1, PaidSales, SalesAreNotZero DEF CreateFails
  <2>2. ASSUME NEW t \in Sales, Refusing(t)'
        PROVE  Founded(t)' \/ (Refusing(t) /\ handler[t] # {})
    BY <1>22, <2>0, <2>2, SalesAreNotZero DEF CreateFails
  <2> QED BY <2>1, <2>2
<1>23. ASSUME NEW i \in Intents, CreateFailed(i) PROVE RefusalsAreFounded'
  <2>1. ASSUME NEW t \in Sales, handler[t] # {}, Founded(t)
        PROVE  Founded(t)'
    BY <1>23, <2>1, PaidSales, SalesAreNotZero DEF CreateFailed, SetBox
  <2>2. \A t \in Sales : Refusing(t)' => Refusing(t) /\ handler[t] # {}
    BY <1>23 DEF CreateFailed
  <2> QED BY <2>1, <2>2
<1>24. ASSUME NEW i \in Intents, BoxIsDeleted(i) PROVE RefusalsAreFounded'
  <2>1. ASSUME NEW t \in Sales, handler[t] # {}, Founded(t)
        PROVE  Founded(t)'
    BY <1>24, <2>1, PaidSales, SalesAreNotZero DEF BoxIsDeleted, SetBox
  <2>2. \A t \in Sales : Refusing(t)' => Refusing(t) /\ handler[t] # {}
    BY <1>24 DEF BoxIsDeleted
  <2> QED BY <2>1, <2>2
<1>25. ASSUME NEW i \in Intents, SwapSlug(i) PROVE RefusalsAreFounded'
  <2>1. ASSUME NEW t \in Sales, handler[t] # {}, Founded(t)
        PROVE  Founded(t)'
    BY <1>25, <2>1, PaidSales, SalesAreNotZero DEF SwapSlug, SetBox
  <2>2. \A t \in Sales : Refusing(t)' => Refusing(t) /\ handler[t] # {}
    BY <1>25 DEF SwapSlug
  <2> QED BY <2>1, <2>2
<1>26. ASSUME NEW i \in Intents, SlugChangeFails(i) PROVE RefusalsAreFounded'
  <2>1. ASSUME NEW t \in Sales, handler[t] # {}, Founded(t)
        PROVE  Founded(t)'
    BY <1>26, <2>1, PaidSales, SalesAreNotZero DEF SlugChangeFails, SetBox
  <2>2. \A t \in Sales : Refusing(t)' => Refusing(t) /\ handler[t] # {}
    BY <1>26 DEF SlugChangeFails
  <2> QED BY <2>1, <2>2
<1>27. ASSUME NEW i \in Intents, ReconcileBoxDeletion(i) PROVE RefusalsAreFounded'
  <2>1. ASSUME NEW t \in Sales, handler[t] # {}, Founded(t)
        PROVE  Founded(t)'
    BY <1>27, <2>1, PaidSales, SalesAreNotZero DEF ReconcileBoxDeletion,
       Deletable, Free
  <2>2. \A t \in Sales : Refusing(t)' => Refusing(t) /\ handler[t] # {}
    BY <1>27 DEF ReconcileBoxDeletion
  <2> QED BY <2>1, <2>2
<1>28. ASSUME NEW i \in Intents, StartDeletionWorkflow(i) PROVE RefusalsAreFounded'
  <2>1. ASSUME NEW t \in Sales, handler[t] # {}, Founded(t)
        PROVE  Founded(t)'
    BY <1>28, <2>1, PaidSales, SalesAreNotZero DEF StartDeletionWorkflow,
       Deletable, Free, EndSubscriptions, Live
  <2>2. \A t \in Sales : Refusing(t)' => Refusing(t) /\ handler[t] # {}
    BY <1>28 DEF StartDeletionWorkflow
  <2> QED BY <2>1, <2>2
<1>29. ASSUME NEW s \in Sales, SubscriptionRunsOut(s) \/ RefundFromOutside(s)
      PROVE  RefusalsAreFounded'
  <2>1. UNCHANGED <<session, order, reason, box, polar, intentOf, handler>>
    BY <1>29 DEF SubscriptionRunsOut, EndSubscriptions, RefundFromOutside
  <2> QED BY <2>1
<1>30. ASSUME NEW i \in Intents, CheckoutDies(i)
      PROVE  RefusalsAreFounded'
  <2>1. UNCHANGED <<session, order, reason, box, polar, intentOf, handler>>
    BY <1>30 DEF CheckoutDies
  <2> QED BY <2>1
<1>31. ASSUME (\E u \in Users, sl \in Slugs : ReserveCheckoutIntent(u, sl)) \/
              (\E u \in Users, sl \in Slugs : ResumeCheckoutIntent(u, sl)) \/
              Redeliver \/ (\E u \in Users : AccountDeletionReady(u)) \/
              (\E u \in Users : FinishAccountDeletion(u))
      PROVE  RefusalsAreFounded'
  <2>1. UNCHANGED <<session, order, reason, box, polar, intentOf, handler>>
    BY <1>31 DEF ReserveCheckoutIntent, ResumeCheckoutIntent, Redeliver,
       AccountDeletionReady, FinishAccountDeletion
  <2> QED BY <2>1
<1>32. ASSUME NEW s \in Sales, AlertUnsubscribedOrder(s) \/ PassOverRefundedOrder(s)
      PROVE  RefusalsAreFounded'
  <2>1. UNCHANGED <<session, order, reason, box, polar, intentOf, handler>>
    BY <1>32 DEF AlertUnsubscribedOrder, PassOverRefundedOrder
  <2> QED BY <2>1
<1>33. CASE UNCHANGED vars
  BY <1>33 DEF vars
<1> QED BY <1>1, <1>2, <1>3, <1>4, <1>5, <1>6, <1>7, <1>8, <1>9, <1>10, <1>11,
    <1>12, <1>13, <1>14, <1>15, <1>16, <1>17, <1>18, <1>19, <1>20, <1>21,
    <1>22, <1>23, <1>24, <1>25, <1>26, <1>27, <1>28, <1>29, <1>30, <1>31,
    <1>32, <1>33
    DEF Next, CustomersAct, ThingsGoWrong, CheckoutCalls, Webhooks, Workflows,
        Renames, Sweeps

(* An order that has its box is never given back by a handler, whatever is
   delivered again and however often, if a session is attached to its
   reservation before Polar can report it paid: the test "buys one box for a
   webhook delivered twice" (webhooks.test.ts), for every schedule. *)
THEOREM DeliveredOrdersAreKept ==
  ASSUME ~AttachRaces PROVE Spec => []FulfilledOrdersAreKept
<1>1. Init => KeptInv
  BY SaleInvHolds DEF Init, KeptInv, SessionIsTheOrders, RefusalsAreFounded,
      Refusing
<1>2. KeptInv /\ [Next]_vars => KeptInv'
  BY SaleInvHolds, SessionIsTheOrdersStep, RefusalsAreFoundedStep DEF KeptInv
<1>3. KeptInv => FulfilledOrdersAreKept
  <2> SUFFICES ASSUME KeptInv, NEW i \in Intents,
                      box[i] \in {"creating", "idle", "renaming"}
               PROVE  handler[paidBy[i]] \cap {"refuse", "refund"} = {}
    BY DEF FulfilledOrdersAreKept
  <2>1. /\ paidBy[i] \in Sales /\ intentOf[paidBy[i]] = i
        /\ polar[paidBy[i]] = "paid" /\ order[i] = paidBy[i]
    BY PaidBoxes, RecordedOrders DEF KeptInv
  <2>2. session[i] = paidBy[i]
    BY <2>1, SalesAreNotZero DEF KeptInv, SessionIsTheOrders
  <2>3. ~Founded(paidBy[i])
    BY <2>1, <2>2 DEF Founded, Contradicts
  <2> QED BY <2>1, <2>3 DEF KeptInv, RefusalsAreFounded, Refusing
<1> QED BY <1>1, <1>2, <1>3, PTL DEF Spec

=============================================================================
