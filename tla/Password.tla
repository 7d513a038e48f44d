------------------------------ MODULE Password ------------------------------
(***************************************************************************)
(* The password of one box, in the four places that hold it:               *)
(*                                                                         *)
(*   held     boxes.runtime_auth_hash, what the service believes;          *)
(*   env      COMPOSERY_HASHED_PASSWORD, what the container was created    *)
(*            with;                                                        *)
(*   config   the editor's own config file;                                *)
(*   args     what the running editor checks a sign-in against: at its     *)
(*            start the environment's hash if there is one, else the       *)
(*            config's, and from then on whatever was written last.        *)
(*                                                                         *)
(* The editor sets a password in two ways: with a setup grant, which the   *)
(* website gives out for an authorization code (register), or over the     *)
(* current password (change-password).  In both it tells the service       *)
(* first and writes locally after.  The service takes the hash into the    *)
(* box's row and schedules reconcilePassword, which starts a               *)
(* change_password operation that carries the hash into the container's    *)
(* environment.  Other operations render the environment too, from the     *)
(* row.                                                                    *)
(*                                                                         *)
(* A hash stands for one submission of a form: it is salted, so no two     *)
(* are alike.  Codes and grants are bound to their box, type and verifier; *)
(* requests that fail those checks change nothing and are left out, and so *)
(* are codes that mint a session.                                          *)
(***************************************************************************)
EXTENDS Naturals, FiniteSets

CONSTANTS Hashes,       \* submissions of a new password, each with its hash
          NoHash,       \* no password
          Codes,        \* authorization codes
          Grants,       \* setup grants
          NoGrant,      \* of a submission over the current password
          MaxAttempts,  \* PASSWORD_RECONCILE_MAX_ATTEMPTS
          MaxTroubles   \* bound on lost and failed calls

ASSUME NamesAssumption ==
  /\ NoHash \notin Hashes /\ NoGrant \notin Grants
  /\ {"none", "live", "gone"} \cap Hashes = {}
ASSUME PasswordBounds == MaxAttempts \in Nat \ {0} /\ MaxTroubles \in Nat

VARIABLES
  held, env, config, args,
  code,       \* code[k]: the row of box_auth_codes, "gone" once it has expired
  grant,      \* grant[g]: the row of box_auth_grants
  mintedBy,   \* mintedBy[g]: the codes exchanged for g (history)
  spentOn,    \* spentOn[g]: the hashes installed with g (history)
  cookie,     \* the grants in the owner's browser
  request,    \* request[h]: where the handler of submission h stands
  proof,      \* proof[h]: the grant or the current hash sent along with it
  due,        \* due[h]: the attempt of reconcilePassword that is scheduled, or 0
  sawHeld,    \* sawHeld[h]: that attempt has read the row and found h
  op,         \* the operation of the box: its type, step and hash
  usable,     \* the box's status lets change_password begin
  last,       \* the hash the service took last (history)
  overlapped, \* a hash was taken while another's operation was under way (history)
  abandoned,  \* hashes whose operation failed, or that were given up (history)
  troubles

capabilities == <<code, grant, mintedBy, spentOn, cookie>>
editor == <<config, args, request, proof>>
service == <<due, sawHeld, op, usable>>
history == <<last, overlapped, abandoned>>
passwordVars == <<held, env, capabilities, editor, service, history, troubles>>

MaybeHash == Hashes \cup {NoHash}

NoOperation == [type |-> "none", step |-> "none", hash |-> NoHash]

(* The type invariant: the four places, the tokens, a submission's way, and the
   operation in progress *)
PasswordTypeOK ==
  /\ {held, env, config, args, last} \subseteq MaybeHash
  /\ code \in [Codes -> {"none", "live", "consumed", "gone"}]
  /\ grant \in [Grants -> {"none", "live", "gone"} \cup Hashes]
  /\ mintedBy \in [Grants -> SUBSET Codes]
  /\ spentOn \in [Grants -> SUBSET Hashes]
  /\ cookie \subseteq Grants
  /\ request \in [Hashes -> {"none", "proved", "asked", "orphan", "recorded", "written", "over"}]
  /\ proof \in [Hashes -> MaybeHash \cup Grants \cup {NoGrant}]
  /\ due \in [Hashes -> 0..MaxAttempts]
  /\ sawHeld \in [Hashes -> BOOLEAN]
  /\ op \in [type : {"none", "render", "change_password"},
             step : {"none", "begun", "read", "recreated"}, hash : MaybeHash]
  /\ usable \in BOOLEAN
  /\ overlapped \in BOOLEAN
  /\ abandoned \subseteq Hashes
  /\ troubles \in 0..MaxTroubles

(* A box without a password, or with one that is in all its places *)
PasswordInit ==
  /\ held \in MaybeHash
  /\ env = held /\ args = held /\ last = held
  /\ config = NoHash
  /\ code = [k \in Codes |-> "none"]
  /\ grant = [g \in Grants |-> "none"]
  /\ mintedBy = [g \in Grants |-> {}]
  /\ spentOn = [g \in Grants |-> {}]
  /\ cookie = {}
  /\ request = [h \in Hashes |-> IF h = held THEN "over" ELSE "none"]
  /\ proof = [h \in Hashes |-> NoGrant]
  /\ due = [h \in Hashes |-> 0]
  /\ sawHeld = [h \in Hashes |-> FALSE]
  /\ op = NoOperation
  /\ usable = TRUE
  /\ overlapped = FALSE
  /\ abandoned = {}
  /\ troubles = 0

Trouble == troubles < MaxTroubles /\ troubles' = troubles + 1
-----------------------------------------------------------------------------
(* Codes and grants *)

(* createAuthorizationCode and storeAuthorizationCode, for the signed-in owner *)
StoreAuthorizationCode(k) ==
  /\ code[k] = "none"
  /\ code' = [code EXCEPT ![k] = "live"]
  /\ UNCHANGED <<held, env, grant, mintedBy, spentOn, cookie, editor, service, history, troubles>>

CanExchange(k) == code[k] = "live"

(* The editor's callback and exchangeCode.  The callback's page may be loaded
   twice, and the answer lost on its way to the browser. *)
ExchangeCode(k, g) ==
  /\ CanExchange(k) /\ grant[g] = "none"
  /\ code' = [code EXCEPT ![k] = "consumed"]
  /\ grant' = [grant EXCEPT ![g] = "live"]
  /\ mintedBy' = [mintedBy EXCEPT ![g] = @ \cup {k}]
  /\ \/ cookie' = cookie \cup {g} /\ UNCHANGED troubles
     \/ UNCHANGED cookie /\ Trouble
  /\ UNCHANGED <<held, env, spentOn, editor, service, history>>

(* expires_at, and deleteExpiredAuthRecords after it *)
CodeExpires(k) ==
  /\ code[k] \in {"live", "consumed"}
  /\ code' = [code EXCEPT ![k] = "gone"]
  /\ UNCHANGED <<held, env, grant, mintedBy, spentOn, cookie, editor, service, history, troubles>>

GrantExpires(g) ==
  /\ grant[g] \notin {"none", "gone"}
  /\ grant' = [grant EXCEPT ![g] = "gone"]
  /\ UNCHANGED <<held, env, code, mintedBy, spentOn, cookie, editor, service, history, troubles>>
-----------------------------------------------------------------------------
(* The editor *)

Moves(h, stage) == request' = [request EXCEPT ![h] = stage]

EditorOnly == UNCHANGED <<held, env, capabilities, service, history, troubles>>

(* POST /register with the setup cookie *)
Register(h, g) ==
  /\ request[h] = "none" /\ g \in cookie
  /\ Moves(h, "asked")
  /\ proof' = [proof EXCEPT ![h] = g]
  /\ UNCHANGED <<config, args>> /\ EditorOnly

(* POST /change-password: the current password is checked, then the new one is
   hashed, which takes a while *)
ProveCurrent(h) ==
  /\ request[h] = "none" /\ args # NoHash
  /\ Moves(h, "proved")
  /\ UNCHANGED <<config, args, proof>> /\ EditorOnly

(* changeCloudPassword with the hash held by now *)
ChangeCloudPassword(h) ==
  /\ request[h] = "proved"
  /\ Moves(h, "asked")
  /\ proof' = [proof EXCEPT ![h] = args]
  /\ UNCHANGED <<config, args>> /\ EditorOnly

(* The call is given up after 30 seconds; it may arrive all the same. *)
CallTimesOut(h) ==
  /\ Trouble
  /\ \/ request[h] = "asked" /\ Moves(h, "orphan")
     \/ request[h] = "recorded" /\ Moves(h, "over")
  /\ cookie' = cookie \ {proof[h]}
  /\ UNCHANGED <<held, env, code, grant, mintedBy, spentOn, config, args, proof, service, history>>

(* writeHashedPassword, one at a time: the file, then the running editor *)
WriteConfig(h) ==
  /\ request[h] = "recorded"
  /\ \A i \in Hashes : request[i] # "written"
  /\ config' = h
  /\ Moves(h, "written")
  /\ UNCHANGED <<args, proof>> /\ EditorOnly

WriteArgs(h) ==
  /\ request[h] = "written"
  /\ args' = h
  /\ Moves(h, "over")
  /\ cookie' = cookie \ {proof[h]}
  /\ UNCHANGED <<held, env, code, grant, mintedBy, spentOn, config, proof, service, history, troubles>>

(* A bug the runs must catch: the file before the environment *)
BootsFromFile(hash, file) ==
  /\ args' = IF file # NoHash THEN file ELSE hash
  /\ request' = [h \in Hashes |->
       CASE request[h] = "none"                -> "none"
         [] request[h] \in {"asked", "orphan"} -> "orphan"
         [] OTHER                              -> "over"]
  /\ UNCHANGED proof

(* setDefaults: a new process takes the environment's hash, or the file's, and
   knows nothing of the old one's requests. *)
Boots(hash, file) ==
  /\ args' = IF hash # NoHash THEN hash ELSE file
  /\ request' = [h \in Hashes |->
       CASE request[h] = "none"                -> "none"
         [] request[h] \in {"asked", "orphan"} -> "orphan"
         [] OTHER                              -> "over"]
  /\ UNCHANGED proof

EditorRestarts ==
  /\ Boots(env, config)
  /\ UNCHANGED config /\ EditorOnly
-----------------------------------------------------------------------------
(* The service *)

(* Another hash is on its way into the box's environment *)
AnotherUnderWay(h) ==
  \/ op.type = "change_password" /\ op.hash # h
  \/ \E i \in Hashes \ {h} : sawHeld[i]

(* The row is patched and reconcilePassword scheduled, in one transaction *)
Takes(h) ==
  /\ held' = h
  /\ due' = [due EXCEPT ![h] = 1]
  /\ last' = h
  /\ overlapped' = (overlapped \/ AnotherUnderWay(h))
  /\ UNCHANGED <<env, sawHeld, op, usable, abandoned>>

Lands(h) == Moves(h, IF request[h] = "asked" THEN "recorded" ELSE "over")

(* claimGrantForPassword *)
ClaimGrantForPassword(h, g) ==
  /\ request[h] \in {"asked", "orphan"} /\ proof[h] = g
  /\ grant[g] \in {"live", h}
  /\ grant' = [grant EXCEPT ![g] = h]
  /\ spentOn' = [spentOn EXCEPT ![g] = @ \cup {h}]
  /\ Takes(h) /\ Lands(h)
  /\ UNCHANGED <<code, mintedBy, cookie, config, args, proof, troubles>>

(* applyPasswordChange *)
ApplyPasswordChange(h) ==
  /\ request[h] \in {"asked", "orphan"}
  /\ proof[h] = held /\ held # NoHash
  /\ Takes(h) /\ Lands(h)
  /\ UNCHANGED <<capabilities, config, args, proof, troubles>>

(* Either of them refuses, or the call never arrives. *)
CallRefused(h) ==
  /\ request[h] \in {"asked", "orphan"}
  /\ IF proof[h] \in Grants
     THEN grant[proof[h]] \notin {"live", h}
     ELSE proof[h] # held
  /\ Moves(h, "over")
  /\ cookie' = cookie \ {proof[h]}
  /\ UNCHANGED <<held, env, code, grant, mintedBy, spentOn, config, args, proof,
                 service, history, troubles>>

CallLost(h) ==
  /\ Trouble
  /\ request[h] = "orphan"
  /\ Moves(h, "over")
  /\ UNCHANGED <<held, env, capabilities, config, args, proof, service, history>>

(* A bug the runs must catch: an attempt that never looks at the row *)
IsStillWantedAlways(h) == TRUE

IsStillWanted(h) == held = h

(* reconcilePassword: a query, then the mutation that starts the operation *)
ReconcileReads(h) ==
  /\ due[h] > 0 /\ ~sawHeld[h]
  /\ IF IsStillWanted(h)
     THEN sawHeld' = [sawHeld EXCEPT ![h] = TRUE] /\ UNCHANGED due
     ELSE due' = [due EXCEPT ![h] = 0] /\ UNCHANGED sawHeld
  /\ UNCHANGED <<held, env, capabilities, editor, op, usable, history, troubles>>

CanStart == op = NoOperation /\ usable

ReconcileStarts(h) ==
  /\ sawHeld[h] /\ CanStart
  /\ op' = [type |-> "change_password", step |-> "read", hash |-> h]
  /\ due' = [due EXCEPT ![h] = 0]
  /\ sawHeld' = [sawHeld EXCEPT ![h] = FALSE]
  /\ UNCHANGED <<held, env, capabilities, editor, usable, history, troubles>>

(* A bug the runs must catch: no second attempt *)
NoNextAttempt(h) == 0

NextAttempt(h) == IF due[h] < MaxAttempts THEN due[h] + 1 ELSE 0

ReconcileIsRefused(h) ==
  /\ sawHeld[h] /\ ~CanStart
  /\ due' = [due EXCEPT ![h] = NextAttempt(h)]
  /\ sawHeld' = [sawHeld EXCEPT ![h] = FALSE]
  /\ abandoned' = IF due[h] = MaxAttempts THEN abandoned \cup {h} ELSE abandoned
  /\ UNCHANGED <<held, env, capabilities, editor, op, usable, last, overlapped, troubles>>

(* A scheduled action runs at most once. *)
ReconcileDies(h) ==
  /\ Trouble
  /\ due[h] > 0
  /\ due' = [due EXCEPT ![h] = 0]
  /\ sawHeld' = [sawHeld EXCEPT ![h] = FALSE]
  /\ abandoned' = abandoned \cup {h}
  /\ UNCHANGED <<held, env, capabilities, editor, op, usable, last, overlapped>>
-----------------------------------------------------------------------------
(* Operations *)

OperationOnly == UNCHANGED <<held, capabilities, due, sawHeld, last, overlapped>>

(* Any operation that renders the environment from the row: an update, a repair,
   a configuration, a reset *)
RenderBegins ==
  /\ op = NoOperation
  /\ op' = [type |-> "render", step |-> "begun", hash |-> NoHash]
  /\ UNCHANGED <<env, editor, usable, abandoned, troubles>> /\ OperationOnly

RenderReads ==
  /\ op.step = "begun"
  /\ op' = [op EXCEPT !.step = "read", !.hash = held]
  /\ UNCHANGED <<env, editor, usable, abandoned, troubles>> /\ OperationOnly

(* The environment file is written and the container recreated.  A reset leaves
   no config file. *)
Recreates ==
  /\ op.step = "read"
  /\ env' = op.hash
  /\ \/ UNCHANGED config
     \/ op.type = "render" /\ config' = NoHash
  /\ Boots(env', config')
  /\ op' = [op EXCEPT !.step = "recreated"]
  /\ UNCHANGED <<usable, abandoned, troubles>> /\ OperationOnly

(* step.runAction retries: rewritePasswordAndRestart with the hash it was given,
   the others from the row again. *)
ActionIsRetried ==
  /\ Trouble
  /\ op.step = "recreated"
  /\ op' = [op EXCEPT !.step = IF op.type = "render" THEN "begun" ELSE "read"]
  /\ UNCHANGED <<env, editor, usable, abandoned>> /\ OperationOnly

RenderSucceeds ==
  /\ op.step = "recreated" /\ op.type = "render"
  /\ op' = NoOperation
  /\ usable' = TRUE
  /\ UNCHANGED <<env, editor, abandoned, troubles>> /\ OperationOnly

(* updateRuntimeAuthHash *)
UpdateRuntimeAuthHash ==
  /\ op.step = "recreated" /\ op.type = "change_password"
  /\ held' = op.hash
  /\ op' = NoOperation
  /\ UNCHANGED <<env, capabilities, editor, due, sawHeld, usable, history, troubles>>

(* A change_password operation that fails is not tried again; another may leave
   the box in a status that lets nothing but a repair begin. *)
OperationFails ==
  /\ Trouble
  /\ op # NoOperation
  /\ op' = NoOperation
  /\ IF op.type = "change_password"
     THEN abandoned' = abandoned \cup {op.hash} /\ UNCHANGED usable
     ELSE usable' \in {usable, FALSE} /\ UNCHANGED abandoned
  /\ UNCHANGED <<env, editor>> /\ OperationOnly
-----------------------------------------------------------------------------
TokenSteps ==
  \/ \E k \in Codes : StoreAuthorizationCode(k) \/ CodeExpires(k)
  \/ \E k \in Codes, g \in Grants : ExchangeCode(k, g)
  \/ \E g \in Grants : GrantExpires(g)

Submission(h) ==
  \/ \E g \in Grants : Register(h, g) \/ ClaimGrantForPassword(h, g)
  \/ ProveCurrent(h) \/ ChangeCloudPassword(h) \/ ApplyPasswordChange(h)
  \/ CallTimesOut(h) \/ CallRefused(h) \/ CallLost(h)
  \/ WriteConfig(h) \/ WriteArgs(h)

Reconciliation(h) == ReconcileReads(h) \/ ReconcileStarts(h) \/ ReconcileIsRefused(h)

Operation == RenderReads \/ Recreates \/ RenderSucceeds \/ UpdateRuntimeAuthHash

PasswordNext ==
  \/ TokenSteps
  \/ \E h \in Hashes : Submission(h) \/ Reconciliation(h) \/ ReconcileDies(h)
  \/ EditorRestarts
  \/ RenderBegins \/ Operation \/ ActionIsRetried \/ OperationFails

PasswordSpec == PasswordInit /\ [][PasswordNext]_passwordVars

(* What is scheduled runs, and an operation that has begun ends. *)
PasswordFairSpec ==
  /\ PasswordSpec
  /\ \A h \in Hashes : WF_passwordVars(Reconciliation(h))
  /\ WF_passwordVars(Operation)
-----------------------------------------------------------------------------
(* An authorization code gives one grant, and a grant installs one hash, however
   often and in whatever order the calls arrive. *)
CapabilitiesAreSpentOnce ==
  /\ \A g, i \in Grants : mintedBy[g] \cap mintedBy[i] # {} => g = i
  /\ \A g \in Grants : Cardinality(spentOn[g]) =< 1

(* The service's word is the last hash it took: reconciliations of earlier ones,
   late, retried or overtaken, never bring theirs back - unless theirs was
   already under way when the last was taken. *)
RowKeepsLast == held = last \/ overlapped

(* Whatever operations, restarts, time-outs and refusals fell where, the
   container has the hash the service believes in, or an attempt or an operation
   that will bring it is there - unless an operation with one of the two failed,
   or its attempts ran out. *)
HeldIsOnItsWay ==
  \/ env = held
  \/ held \in Hashes /\ due[held] > 0
  \/ op.type = "change_password"
  \/ {env, held} \cap abandoned # {}

(* "Convex has to record that or the next bootstrap would restore the old one":
   in the end the last password taken is the one the editor asks for, and will ask
   for after any restart, with the exceptions of both. *)
LastPasswordSettles ==
  <>[](({held, env, args} = {last}) \/ overlapped \/ last \in abandoned)

(* "Both local paths that write a password record the new hash there first, so
   the reconcile carries the change back into the environment": the same without
   the exception of RowKeepsLast *)
LastPasswordWins == <>[](env = last \/ last \in abandoned)
=============================================================================
