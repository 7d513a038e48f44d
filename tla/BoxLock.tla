------------------------------ MODULE BoxLock -------------------------------
(***************************************************************************)
(* What the operation lock promises, with none of its machinery: a box is  *)
(* taken by one operation at a time, from a status the catalogue allows,   *)
(* and that operation is closed exactly once, in one step with the box     *)
(* status its outcome decides - but for the types that have work left when *)
(* they close: a throw in that work overturns the success, and writes the  *)
(* failure's status over a box that may be another operation's by then.    *)
(* Workflows, completion callbacks, sweeps and cancellations do not appear *)
(* here; module BoxOperation, which has them, is shown to implement this   *)
(* one.                                                                    *)
(***************************************************************************)
EXTENDS BoxCatalogue

CONSTANTS Boxes,      \* identities of rows of the `boxes` table
          Ops,        \* identities of rows of the `box_operations` table
          NoBox       \* the box of an operation that does not exist yet

VARIABLES status,     \* status[b]: the box's status, or Absent
          lock,       \* lock[o]: "free" (no row), "held", "succeeded", "failed",
                      \* or "overturned", failed after it had succeeded
          opBox,      \* opBox[o]: the box the operation is for
          opType      \* opType[o]: its type

lockVars == <<status, lock, opBox, opType>>

(* The type invariant of the abstract lock *)
LockTypeOK ==
  /\ status \in [Boxes -> BoxStatuses \cup {Absent}]
  /\ lock \in [Ops -> {"free", "held", "succeeded", "failed", "overturned"}]
  /\ opBox \in [Ops -> Boxes \cup {NoBox}]
  /\ opType \in [Ops -> BoxOperationTypes \cup {NoStatus}]
  /\ \A o \in Ops : lock[o] # "free" => opBox[o] \in Boxes /\ opType[o] \in BoxOperationTypes

Busy(b) == \E o \in Ops : lock[o] = "held" /\ opBox[o] = b

LockInit ==
  /\ status \in [Boxes -> RestingStatuses \cup {Absent}]
  /\ lock = [o \in Ops |-> "free"]
  /\ opBox = [o \in Ops |-> NoBox]
  /\ opType = [o \in Ops |-> NoStatus]

(* A new box is inserted as "creating" together with its create operation. *)
AcquireNew(b, o) ==
  /\ lock[o] = "free"
  /\ status[b] = Absent
  /\ status' = [status EXCEPT ![b] = During("create")]
  /\ lock' = [lock EXCEPT ![o] = "held"]
  /\ opBox' = [opBox EXCEPT ![o] = b]
  /\ opType' = [opType EXCEPT ![o] = "create"]

Acquire(b, o, t) ==
  /\ lock[o] = "free"
  /\ status[b] \in From(t)
  /\ ~Busy(b)
  /\ status' = [status EXCEPT ![b] = Moved(@, During(t))]
  /\ lock' = [lock EXCEPT ![o] = "held"]
  /\ opBox' = [opBox EXCEPT ![o] = b]
  /\ opType' = [opType EXCEPT ![o] = t]

Release(o, outcome, target) ==
  /\ lock[o] = "held"
  /\ lock' = [lock EXCEPT ![o] = outcome]
  /\ status' = [status EXCEPT ![opBox[o]] = Moved(@, target)]
  /\ UNCHANGED <<opBox, opType>>

(* Nothing asks who holds the box meanwhile. *)
Overturn(o) ==
  /\ lock[o] = "succeeded"
  /\ opType[o] \in Superseding
  /\ lock' = [lock EXCEPT ![o] = "overturned"]
  /\ status' = [status EXCEPT ![opBox[o]] = Moved(@, OnFailure(opType[o]))]
  /\ UNCHANGED <<opBox, opType>>

LockNext ==
  \E o \in Ops :
    \/ \E b \in Boxes : AcquireNew(b, o)
    \/ \E b \in Boxes, t \in BoxOperationTypes : Acquire(b, o, t)
    \/ Release(o, "succeeded", OnSuccess(opType[o]))
    \/ Release(o, "failed", OnFailure(opType[o]))
    \/ Overturn(o)

LockSpec == LockInit /\ [][LockNext]_lockVars
-----------------------------------------------------------------------------
(* "A box runs one operation at a time": no two active operations name the
   same box. *)
OneHolder ==
  \A o, p \in Ops :
    lock[o] = "held" /\ lock[p] = "held" /\ opBox[o] = opBox[p] => o = p

(* The status a reader sees and the lock agree: a box shows a transient status
   only while an active operation of the type that owns it is open, so no box
   is left "repairing" with nothing repairing it; and it shows its holder's,
   unless the failure of an overturned operation was written over it. *)
StatusMatchesHolder ==
  /\ \A b \in Boxes : status[b] \in DuringStatuses =>
       \E o \in Ops : lock[o] = "held" /\ opBox[o] = b /\ During(opType[o]) = status[b]
  /\ \A o \in Ops : lock[o] = "held" /\ During(opType[o]) # NoStatus =>
       \/ status[opBox[o]] = During(opType[o])
       \/ \E p \in Ops : /\ lock[p] = "overturned"
                        /\ opBox[p] = opBox[o]
                        /\ status[opBox[o]] = OnFailure(opType[p])

(* No operation takes a deleted box: only one that had succeeded before, and is
   overturned now, brings its row back. *)
DeletedIsFinal ==
  [][\A b \in Boxes :
       status[b] = "deleted" /\ status'[b] # "deleted" =>
         \E o \in Ops : opBox[o] = b /\ lock[o] = "succeeded" /\ lock'[o] = "overturned"]_lockVars
=============================================================================
