---------------------------- MODULE AccessProofs ----------------------------
(***************************************************************************)
(* Theorems about who gets into an instance.                               *)
(*                                                                         *)
(* About InstanceAccess, for any commands, requests, keys, tokens and      *)
(* bounds: its type invariant; that a copied disk lets nobody in; that     *)
(* commands keep each other's keys; and, where the server does not read    *)
(* and write across a command or another request, that revocations reach.  *)
(*                                                                         *)
(* About Password, for any submissions, codes, grants, attempts and        *)
(* troubles: its type invariant and its three safety invariants, each      *)
(* strengthened by what it says while a reconciliation or an operation is  *)
(* half way.                                                               *)
(*                                                                         *)
(* The two share nothing: no theorem here relates them.                    *)
(***************************************************************************)
EXTENDS InstanceAccess, Password, FiniteSetTheorems, TLAPS

(* Processes run only while the container serves; an idle command has no work
   and a busy one has; a revocation that has written the list, and an issued
   certificate, had an authority. *)
Processes ==
  /\ ~Serving => /\ \A c \in Commands : cli[c] = NoCommand
                 /\ \A r \in Requests : req[r] = NoRequest
                 /\ cache = NoCache
  /\ \A c \in Commands :
       /\ cli[c].at = "idle" => cli[c] = NoCommand
       /\ cli[c].at # "idle" => cli[c].work \in Work
       /\ cli[c].at \in {"half", "saved"} /\ cli[c].work.verb = "revoke" => ca # 0
  /\ \A r \in Requests :
       /\ req[r].at # "idle" => req[r].token \in Tokens
       /\ req[r].at = "issued" => req[r].ca # 0

TypeInv == TypeOK /\ Processes

(* A command's work names what its verb is about. *)
LEMMA WorkHasItsArgument ==
  ASSUME NEW w \in Work
  PROVE  /\ w.verb \in {"create", "revokeKey", "mint", "revoke"}
         /\ w.verb \in {"create", "revokeKey"} => w.arg \in Keys
         /\ w.verb = "mint" => w.arg \in Tokens
         /\ w.verb = "revoke" => w.arg \in Serials
         /\ FileOf(w) = "keys" <=> w.verb \in {"create", "revokeKey"}
         /\ FileOf(w) = "tokens" <=> w.verb = "mint"
         /\ FileOf(w) = "records" <=> w.verb = "revoke"
  BY DEF Work, FileOf

(* The list comes first. *)
LEMMA ListComesFirst ==
  ASSUME NEW c \in Commands
  PROVE  /\ Comes(c, "list") <=> cli[c].work.verb = "revoke" /\ cli[c].at = "loaded"
         /\ Comes(c, "record") <=> cli[c].work.verb = "revoke" /\ cli[c].at = "half"
  BY DEF Comes, RevokeOrder

(* One command moves, to a place and copies of its own, with its work *)
Advances(c, place, ks, ts, rs) ==
  /\ cli' \in [Commands -> CommandStates]
  /\ cli'[c].at = place /\ cli'[c].work = cli[c].work
  /\ cli'[c].keys = ks /\ cli'[c].tokens = ts /\ cli'[c].records = rs
  /\ \A d \in Commands : d # c => cli'[d] = cli[d]

(* One command ends *)
Leaves(c) ==
  /\ cli' \in [Commands -> CommandStates]
  /\ cli'[c] = NoCommand
  /\ \A d \in Commands : d # c => cli'[d] = cli[d]

(* One command begins *)
Begins(c, w) ==
  /\ cli' \in [Commands -> CommandStates]
  /\ cli'[c].at = "locked" /\ cli'[c].work = w
  /\ cli'[c].keys = {} /\ cli'[c].tokens = {} /\ cli'[c].records = {}
  /\ \A d \in Commands : d # c => cli'[d] = cli[d]

(* What an update of the commands comes to, action by action. *)
LEMMA StartCommandBegins ==
  ASSUME NEW c \in Commands, NEW w \in Work, TypeInv, StartCommand(c, w)
  PROVE  Begins(c, w)
<1>1. CommandAt("locked", w) \in CommandStates
  BY DEF CommandAt, CommandStates
<1> QED BY <1>1 DEF Begins, StartCommand, CommandAt, TypeInv, TypeOK

(* A step that only goes on moves its command. *)
LEMMA GoesMoves ==
  ASSUME NEW c \in Commands, NEW a \in {"locked", "loaded", "half", "saved"}, TypeInv, Goes(c, a)
  PROVE  Advances(c, a, cli[c].keys, cli[c].tokens, cli[c].records)
<1>1. cli[c] \in CommandStates
  BY DEF TypeInv, TypeOK
<1>2. cli'[c] = [cli[c] EXCEPT !.at = a]
  BY DEF Goes, TypeInv, TypeOK
<1>3. cli'[c] \in CommandStates
  BY <1>1, <1>2 DEF CommandStates
<1>4. cli' \in [Commands -> CommandStates]
  BY <1>3 DEF Goes, TypeInv, TypeOK
<1> QED BY <1>1, <1>2, <1>4 DEF Advances, Goes, CommandStates, TypeInv, TypeOK

(* Loading keys moves the command, with the store to write, or none. *)
LEMMA LoadKeysMoves ==
  ASSUME NEW c \in Commands, TypeInv, LoadKeys(c)
  PROVE  \/ /\ cli[c].work.verb = "create"
            /\ Advances(c, "loaded", keys \cup {cli[c].work.arg}, cli[c].tokens, cli[c].records)
         \/ /\ cli[c].work.verb = "revokeKey"
            /\ Advances(c, IF cli[c].work.arg \in keys THEN "loaded" ELSE "saved",
                     keys \ {cli[c].work.arg}, cli[c].tokens, cli[c].records)
<1>1. cli[c] \in CommandStates /\ keys \subseteq Keys
  BY DEF TypeInv, TypeOK
<1>2. cli[c].work \in Work
  BY DEF TypeInv, Processes, LoadKeys
<1>3. ASSUME NEW a \in {"loaded", "saved"}, NEW K \in SUBSET Keys,
             cli' = [cli EXCEPT ![c].at = a, ![c].keys = K]
      PROVE  Advances(c, a, K, cli[c].tokens, cli[c].records)
  <2>1. cli'[c] = [cli[c] EXCEPT !.at = a, !.keys = K]
    BY <1>3 DEF TypeInv, TypeOK
  <2>2. cli'[c] \in CommandStates
    BY <1>1, <2>1 DEF CommandStates
  <2>3. cli' \in [Commands -> CommandStates]
    BY <1>3, <2>2 DEF TypeInv, TypeOK
  <2> QED BY <1>1, <1>3, <2>1, <2>3 DEF Advances, CommandStates, TypeInv, TypeOK
<1>4. CASE cli[c].work.verb = "create"
  BY <1>1, <1>2, <1>3, <1>4, WorkHasItsArgument DEF LoadKeys
<1>5. CASE cli[c].work.verb = "revokeKey"
  BY <1>1, <1>2, <1>3, <1>5, WorkHasItsArgument DEF LoadKeys
<1> QED BY <1>4, <1>5 DEF LoadKeys

(* So does loading tokens, *)
LEMMA LoadTokensMoves ==
  ASSUME NEW c \in Commands, TypeInv, LoadTokens(c)
  PROVE  Advances(c, "loaded", cli[c].keys, (tokens \ expired) \cup {cli[c].work.arg}, cli[c].records)
<1>1. cli[c] \in CommandStates /\ tokens \subseteq Tokens
  BY DEF TypeInv, TypeOK
<1>2. (tokens \ expired) \cup {cli[c].work.arg} \in SUBSET Tokens
  BY <1>1, WorkHasItsArgument DEF TypeInv, Processes, LoadTokens
<1>3. cli'[c] = [cli[c] EXCEPT !.at = "loaded", !.tokens = (tokens \ expired) \cup {cli[c].work.arg}]
  BY DEF LoadTokens, TypeInv, TypeOK
<1>4. cli'[c] \in CommandStates
  BY <1>1, <1>2, <1>3 DEF CommandStates
<1>5. cli' \in [Commands -> CommandStates]
  BY <1>4 DEF LoadTokens, TypeInv, TypeOK
<1> QED BY <1>1, <1>3, <1>5 DEF Advances, LoadTokens, CommandStates, TypeInv, TypeOK

(* and loading records, one of them then marked. *)
LEMMA MarkRevokedMoves ==
  ASSUME NEW c \in Commands, TypeInv, MarkRevoked(c)
  PROVE  \E marked \in Marked(records, cli[c].work.arg) :
           Advances(c, "loaded", cli[c].keys, cli[c].tokens, marked)
<1>1. cli[c] \in CommandStates /\ records \subseteq Records
  BY DEF TypeInv, TypeOK
<1>2. PICK marked \in Marked(records, cli[c].work.arg) :
        cli' = [cli EXCEPT ![c].at = "loaded", ![c].records = marked]
  BY DEF MarkRevoked
<1>3. marked \in SUBSET Records
  BY <1>1, <1>2 DEF Marked, Records
<1>4. cli'[c] = [cli[c] EXCEPT !.at = "loaded", !.records = marked]
  BY <1>2 DEF TypeInv, TypeOK
<1>5. cli'[c] \in CommandStates
  BY <1>1, <1>3, <1>4 DEF CommandStates
<1>6. cli' \in [Commands -> CommandStates]
  BY <1>2, <1>5 DEF TypeInv, TypeOK
<1>7. Advances(c, "loaded", cli[c].keys, cli[c].tokens, marked)
  BY <1>1, <1>2, <1>4, <1>6 DEF Advances, CommandStates, TypeInv, TypeOK
<1> QED BY <1>2, <1>7

(* Done or not, a command ends. *)
LEMMA LeavesAtItsEnd ==
  ASSUME NEW c \in Commands, TypeInv, Report(c) \/ CommandEnds(c)
  PROVE  Leaves(c)
<1>1. NoCommand \in CommandStates
  BY DEF NoCommand, CommandAt, CommandStates
<1> QED BY <1>1 DEF Leaves, Report, CommandEnds, TypeInv, TypeOK

(* An action of the boot keeps the types. *)
LEMMA BootKeepsTypes == TypeInv /\ Boot => TypeInv'
<1> SUFFICES ASSUME TypeInv, Boot PROVE TypeInv'
  OBVIOUS
<1> USE BoundsAssumption DEF TypeInv, TypeOK, Boxes, Serving, BootSteps
<1>1. CASE ApplyIdentity
  BY <1>1 DEF ApplyIdentity, RecordOnSight, Processes
<1>2. CASE Rotate
  BY <1>2 DEF Rotate, Processes, NoCommand, CommandAt, NoRequest, RequestAt
<1>3. CASE RecordIdentity
  BY <1>3 DEF RecordIdentity, Processes
<1>4. CASE PrepareAuthority
  BY <1>4 DEF PrepareAuthority, Processes
<1>5. CASE Stop
  BY <1>5 DEF Stop, Processes, CommandStates, RequestStates, NoCommand, CommandAt,
     NoRequest, RequestAt, NoWork, NoCache
<1>6. CASE CopyDisk
  BY <1>6 DEF CopyDisk, Processes
<1> QED BY <1>1, <1>2, <1>3, <1>4, <1>5, <1>6 DEF Boot

(* A busy command is in a serving container. *)
LEMMA BusyServes ==
  ASSUME NEW c \in Commands, TypeInv, cli[c].at # "idle"
  PROVE  Serving /\ cli[c].work \in Work
  BY DEF TypeInv, Processes, NoCommand, CommandAt

(* A command that moves keeps the processes in order. *)
LEMMA MovingKeepsProcesses ==
  ASSUME TypeInv, NEW c \in Commands, cli[c].at # "idle",
         NEW place \in {"loaded", "half", "saved"}, NEW ks, NEW ts, NEW rs,
         Advances(c, place, ks, ts, rs), UNCHANGED <<boot, ca, req>>,
         place \in {"half", "saved"} /\ cli[c].work.verb = "revoke" => ca # 0
  PROVE  Processes'
<1>1. Serving /\ cli[c].work \in Work
  BY BusyServes
<1>2. Serving'
  BY <1>1 DEF Serving
<1> QED BY <1>1, <1>2 DEF Advances, Processes, TypeInv

(* A command's action keeps the types. *)
LEMMA CommandKeepsTypes ==
  ASSUME NEW c \in Commands, TypeInv, Command(c)
  PROVE  TypeInv'
<1> USE DEF TypeInv, identityVars
<1>1. ASSUME NEW w \in Work, StartCommand(c, w)
      PROVE  TypeInv'
  <2>1. Begins(c, w)
    BY <1>1, StartCommandBegins
  <2>2. w.verb \in {"create", "mint"} => w.arg \in Keys \cup Tokens
    BY WorkHasItsArgument
  <2>3. TypeOK'
    BY <1>1, <2>1, <2>2 DEF StartCommand, Begins, TypeOK, Serving
  <2>4. Processes'
    BY <1>1, <2>1 DEF StartCommand, Begins, Processes, Serving
  <2> QED BY <2>3, <2>4
<1>2. CASE LoadKeys(c)
  <2>1. TypeOK'
    BY <1>2, LoadKeysMoves DEF LoadKeys, Advances, TypeOK
  <2>2. Processes'
    BY <1>2, LoadKeysMoves, MovingKeepsProcesses DEF LoadKeys
  <2> QED BY <2>1, <2>2
<1>3. CASE LoadTokens(c)
  <2>1. TypeOK'
    BY <1>3, LoadTokensMoves DEF LoadTokens, Advances, TypeOK
  <2>2. Processes'
    BY <1>3, LoadTokensMoves, MovingKeepsProcesses DEF LoadTokens
  <2> QED BY <2>1, <2>2
<1>4. CASE SaveKeys(c)
  <2>1. Advances(c, "saved", cli[c].keys, cli[c].tokens, cli[c].records)
    BY <1>4, GoesMoves DEF SaveKeys
  <2>2. cli[c].keys \subseteq Keys
    BY DEF TypeOK, CommandStates
  <2>3. cli[c].work.verb # "revoke"
    BY <1>4, WorkHasItsArgument DEF SaveKeys, Processes
  <2>4. TypeOK'
    BY <1>4, <2>1, <2>2 DEF SaveKeys, Passes, Advances, TypeOK
  <2>5. Processes'
    BY <1>4, <2>1, <2>3, MovingKeepsProcesses DEF SaveKeys
  <2> QED BY <2>4, <2>5
<1>5. CASE SaveTokens(c)
  <2>1. Advances(c, "saved", cli[c].keys, cli[c].tokens, cli[c].records)
    BY <1>5, GoesMoves DEF SaveTokens
  <2>2. cli[c].tokens \subseteq Tokens
    BY DEF TypeOK, CommandStates
  <2>3. cli[c].work.verb # "revoke"
    BY <1>5, WorkHasItsArgument DEF SaveTokens, Processes
  <2>4. TypeOK'
    BY <1>5, <2>1, <2>2 DEF SaveTokens, Advances, TypeOK
  <2>5. Processes'
    BY <1>5, <2>1, <2>3, MovingKeepsProcesses DEF SaveTokens
  <2> QED BY <2>4, <2>5
<1>6. CASE MarkRevoked(c)
  <2>1. TypeOK'
    BY <1>6, MarkRevokedMoves DEF MarkRevoked, Advances, TypeOK
  <2>2. Processes'
    BY <1>6, MarkRevokedMoves, MovingKeepsProcesses DEF MarkRevoked
  <2> QED BY <2>1, <2>2
<1>7. CASE WriteRevocationList(c)
  <2>1. After(c) \in {"half", "saved"}
    BY DEF After
  <2>2. Advances(c, After(c), cli[c].keys, cli[c].tokens, cli[c].records)
    BY <1>7, <2>1, GoesMoves DEF WriteRevocationList
  <2>3. Listed(cli[c].records) \subseteq Serials
    BY DEF Listed, Records, TypeOK, CommandStates
  <2>4. TypeOK'
    BY <1>7, <2>2, <2>3 DEF WriteRevocationList, Advances, TypeOK
  <2>5. Processes'
    BY <1>7, <2>1, <2>2, ListComesFirst, MovingKeepsProcesses DEF WriteRevocationList
  <2> QED BY <2>4, <2>5
<1>8. CASE SaveRecords(c)
  <2>1. After(c) \in {"half", "saved"}
    BY DEF After
  <2>2. Advances(c, After(c), cli[c].keys, cli[c].tokens, cli[c].records)
    BY <1>8, <2>1, GoesMoves DEF SaveRecords
  <2>3. cli[c].records \subseteq Records
    BY DEF TypeOK, CommandStates
  <2>4. TypeOK'
    BY <1>8, <2>2, <2>3 DEF SaveRecords, Advances, TypeOK
  <2>5. Processes'
    BY <1>8, <2>1, <2>2, ListComesFirst, MovingKeepsProcesses DEF SaveRecords, Processes
  <2> QED BY <2>4, <2>5
<1>9. CASE Report(c)
  <2>1. Leaves(c)
    BY <1>9, LeavesAtItsEnd
  <2>2. cli[c].work \in Work
    BY <1>9 DEF Report, Processes
  <2>3. told' \in [Keys -> {"nothing", "created", "asked", "revoked"}]
    BY <1>9, <2>2, WorkHasItsArgument DEF Report, TypeOK
  <2>4. refused' \subseteq Serials \X Boxes
    <3>1. CASE cli[c].work.verb = "revoke"
      <4>1. cli[c].work.arg \in Serials /\ ca \in Boxes
        BY <1>9, <2>2, <3>1, WorkHasItsArgument DEF Report, Processes, TypeOK
      <4> QED BY <1>9, <3>1, <4>1 DEF Report, TypeOK
    <3>2. CASE cli[c].work.verb # "revoke"
      BY <1>9, <3>2 DEF Report, TypeOK
    <3> QED BY <3>1, <3>2
  <2>5. TypeOK'
    BY <1>9, <2>1, <2>3, <2>4 DEF Report, Leaves, TypeOK
  <2>6. Processes'
    BY <1>9, <2>1 DEF Report, Leaves, Processes, Serving, NoCommand, CommandAt
  <2> QED BY <2>5, <2>6
<1>10. CASE CommandEnds(c)
  <2>1. Leaves(c)
    BY <1>10, LeavesAtItsEnd
  <2>2. TypeOK'
    BY <1>10, <2>1 DEF CommandEnds, Leaves, TypeOK
  <2>3. Processes'
    BY <1>10, <2>1 DEF CommandEnds, Leaves, Processes, Serving, NoCommand, CommandAt
  <2> QED BY <2>2, <2>3
<1> QED BY <1>1, <1>2, <1>3, <1>4, <1>5, <1>6, <1>7, <1>8, <1>9, <1>10 DEF Command

(* One request moves, with its token *)
Turns(r, place, token, ts, rs, authority) ==
  /\ req' \in [Requests -> RequestStates]
  /\ req'[r].at = place /\ req'[r].token = token
  /\ req'[r].tokens = ts /\ req'[r].records = rs /\ req'[r].ca = authority
  /\ \A q \in Requests : q # r => req'[q] = req[q]

(* One request ends *)
Drops(r) ==
  /\ req' \in [Requests -> RequestStates]
  /\ req'[r] = NoRequest
  /\ \A q \in Requests : q # r => req'[q] = req[q]

(* What an update of the requests comes to, action by action. *)
LEMMA RedeemReadsTurns ==
  ASSUME NEW r \in Requests, NEW t \in Tokens, TypeInv, RedeemReads(r, t)
  PROVE  Turns(r, "redeeming", t, tokens \ expired, {}, 0)
<1>1. RequestAt("redeeming", t, tokens \ expired) \in RequestStates
  BY DEF RequestAt, RequestStates, TypeInv, TypeOK
<1> QED BY <1>1 DEF Turns, RedeemReads, RequestAt, TypeInv, TypeOK

(* The idle request is one of the request states. *)
LEMMA NoRequestTyped == NoRequest \in RequestStates
  BY DEF NoRequest, RequestAt, RequestStates

(* A token found goes on, one not found ends the request. *)
LEMMA RedeemWritesTurns ==
  ASSUME NEW r \in Requests, TypeInv, RedeemWrites(r)
  PROVE  \/ /\ req[r].token \in req[r].tokens
            /\ Turns(r, "redeemed", req[r].token, {}, req[r].records, req[r].ca)
         \/ /\ req[r].token \notin req[r].tokens
            /\ Drops(r)
<1>1. req[r] \in RequestStates
  BY DEF TypeInv, TypeOK
<1>2. CASE req[r].token \in req[r].tokens
  <2>1. req' = [req EXCEPT ![r].at = "redeemed", ![r].tokens = {}]
    BY <1>2 DEF RedeemWrites
  <2>2. req'[r] = [req[r] EXCEPT !.at = "redeemed", !.tokens = {}]
    BY <2>1 DEF TypeInv, TypeOK
  <2>3. req'[r] \in RequestStates
    BY <1>1, <2>2 DEF RequestStates
  <2>4. req' \in [Requests -> RequestStates]
    BY <2>1, <2>3 DEF TypeInv, TypeOK
  <2> QED BY <1>1, <1>2, <2>1, <2>2, <2>4 DEF Turns, RequestStates, TypeInv, TypeOK
<1>3. CASE req[r].token \notin req[r].tokens
  BY <1>3, NoRequestTyped DEF RedeemWrites, Drops, TypeInv, TypeOK
<1> QED BY <1>2, <1>3

(* Issuing starts with the records on disk in hand. *)
LEMMA IssueReadsTurns ==
  ASSUME NEW r \in Requests, TypeInv, IssueReads(r)
  PROVE  Turns(r, "issuing", req[r].token, req[r].tokens, records, req[r].ca)
<1>1. req[r] \in RequestStates /\ records \subseteq Records
  BY DEF TypeInv, TypeOK
<1>2. req'[r] = [req[r] EXCEPT !.at = "issuing", !.records = records]
  BY DEF IssueReads, TypeInv, TypeOK
<1>3. req'[r] \in RequestStates
  BY <1>1, <1>2 DEF RequestStates
<1>4. req' \in [Requests -> RequestStates]
  BY <1>3 DEF IssueReads, TypeInv, TypeOK
<1> QED BY <1>1, <1>2, <1>4 DEF IssueReads, Turns, RequestStates, TypeInv, TypeOK

(* The record of a new certificate *)
NewRecord(r, serial) == [serial |-> serial, token |-> req[r].token, revoked |-> FALSE]

(* It goes on with the new record in hand, under the authority there is. *)
LEMMA IssueWritesTurns ==
  ASSUME NEW r \in Requests, TypeInv, IssueWrites(r)
  PROVE  \E serial \in Serials :
           /\ IsNextSerial(req[r].records, serial)
           /\ NewRecord(r, serial) \in Records
           /\ records' = req[r].records \cup {NewRecord(r, serial)}
           /\ Turns(r, "issued", req[r].token, req[r].tokens, {NewRecord(r, serial)}, ca)
<1>1. req[r] \in RequestStates /\ ca \in Boxes \cup {0}
  BY DEF TypeInv, TypeOK
<1>2. PICK serial \in Serials :
        /\ IsNextSerial(req[r].records, serial)
        /\ records' = req[r].records \cup {NewRecord(r, serial)}
        /\ req' = [req EXCEPT ![r].at = "issued", ![r].records = {NewRecord(r, serial)},
                              ![r].ca = ca]
  BY DEF IssueWrites, NewRecord
<1>3. req[r].token \in Tokens
  BY DEF IssueWrites, TypeInv, Processes
<1>4. NewRecord(r, serial) \in Records
  BY <1>3 DEF NewRecord, Records
<1> DEFINE new == {NewRecord(r, serial)}
<1>5. new \in SUBSET Records
  BY <1>4
<1>6. req'[r] = [req[r] EXCEPT !.at = "issued", !.records = new, !.ca = ca]
  BY <1>2 DEF TypeInv, TypeOK
<1>7. req'[r] \in RequestStates
  <2> HIDE DEF new
  <2> QED BY <1>1, <1>6, <1>5 DEF RequestStates
<1>8. req' \in [Requests -> RequestStates]
  BY <1>2, <1>7 DEF TypeInv, TypeOK
<1>9. Turns(r, "issued", req[r].token, req[r].tokens, {NewRecord(r, serial)}, ca)
  BY <1>1, <1>2, <1>6, <1>8 DEF Turns, RequestStates, TypeInv, TypeOK
<1> QED BY <1>2, <1>4, <1>9

(* Answered or failed, a request ends. *)
LEMMA DropsAtItsEnd ==
  ASSUME NEW r \in Requests, TypeInv, Answer(r) \/ RequestFails(r)
  PROVE  Drops(r)
<1>1. req' = [req EXCEPT ![r] = NoRequest]
  BY DEF Answer, RequestFails
<1> QED BY <1>1, NoRequestTyped DEF Drops, TypeInv, TypeOK

(* A busy request is in a serving container. *)
LEMMA PendingServes ==
  ASSUME NEW r \in Requests, TypeInv, req[r].at # "idle"
  PROVE  Serving /\ req[r].token \in Tokens
  BY DEF TypeInv, Processes, NoRequest, RequestAt

(* A request's action keeps the types, *)
LEMMA RequestKeepsTypes ==
  ASSUME NEW r \in Requests, TypeInv, Request(r)
  PROVE  TypeInv'
<1> USE DEF TypeInv, identityVars
<1>1. ASSUME NEW t \in Tokens, RedeemReads(r, t)
      PROVE  TypeInv'
  <2>1. TypeOK'
    BY <1>1, RedeemReadsTurns DEF RedeemReads, Turns, TypeOK
  <2>2. Processes'
    BY <1>1, RedeemReadsTurns DEF RedeemReads, Turns, Processes, Serving
  <2> QED BY <2>1, <2>2
<1>2. CASE RedeemWrites(r)
  <2>1. tokens' \subseteq Tokens
    BY <1>2 DEF RedeemWrites, Remaining, TypeOK, RequestStates
  <2>2. bought' \in [Tokens -> Nat]
    BY <1>2, PendingServes DEF RedeemWrites, TypeOK
  <2>3. TypeOK'
    BY <1>2, <2>1, <2>2, RedeemWritesTurns DEF RedeemWrites, Turns, Drops, TypeOK
  <2>4. Serving /\ req[r].token \in Tokens /\ Serving'
    BY <1>2, PendingServes DEF RedeemWrites, Serving
  <2>5. Processes'
    BY <1>2, <2>4, RedeemWritesTurns DEF RedeemWrites, Turns, Drops, Processes, NoRequest,
       RequestAt
  <2> QED BY <2>3, <2>5
<1>3. CASE IssueReads(r)
  <2>1. TypeOK'
    BY <1>3, IssueReadsTurns DEF IssueReads, Turns, TypeOK
  <2>2. Serving /\ req[r].token \in Tokens /\ Serving'
    BY <1>3, PendingServes DEF IssueReads, Serving
  <2>3. Processes'
    BY <1>3, <2>2, IssueReadsTurns DEF IssueReads, Turns, Processes
  <2> QED BY <2>1, <2>3
<1>4. CASE IssueWrites(r)
  <2>1. req[r].records \subseteq Records
    BY DEF TypeOK, RequestStates
  <2>2. PICK serial \in Serials :
          /\ NewRecord(r, serial) \in Records
          /\ records' = req[r].records \cup {NewRecord(r, serial)}
          /\ Turns(r, "issued", req[r].token, req[r].tokens, {NewRecord(r, serial)}, ca)
    BY <1>4, IssueWritesTurns
  <2>3. TypeOK'
    BY <1>4, <2>1, <2>2 DEF IssueWrites, Turns, TypeOK
  <2>4. Serving /\ req[r].token \in Tokens /\ Serving' /\ ca # 0
    BY <1>4, PendingServes DEF IssueWrites, Serving
  <2>5. UNCHANGED <<cli, ca>>
    BY <1>4 DEF IssueWrites
  <2>6. Processes'
    BY <2>2, <2>4, <2>5 DEF Turns, Processes
  <2> QED BY <2>3, <2>6
<1>5. CASE Answer(r)
  <2>1. delivered' \subseteq Certificates
    <3>1. req[r].records \subseteq Records /\ req[r].ca \in Boxes \cup {0} /\ req[r].ca # 0
      BY <1>5 DEF Answer, Processes, TypeOK, RequestStates
    <3>2. ASSUME NEW rec \in req[r].records
          PROVE  [serial |-> rec.serial, token |-> rec.token, ca |-> req[r].ca] \in Certificates
      BY <3>1 DEF Certificates, Records
    <3> QED BY <1>5, <3>2 DEF Answer, TypeOK
  <2>2. TypeOK'
    BY <1>5, <2>1, DropsAtItsEnd DEF Answer, Drops, TypeOK
  <2>3. Processes'
    BY <1>5, DropsAtItsEnd, PendingServes DEF Answer, Drops, Processes, Serving, NoRequest,
       RequestAt
  <2> QED BY <2>2, <2>3
<1>6. CASE RequestFails(r)
  <2>1. TypeOK'
    BY <1>6, DropsAtItsEnd DEF RequestFails, Drops, TypeOK
  <2>2. Processes'
    BY <1>6, DropsAtItsEnd DEF RequestFails, Drops, Processes, Serving, NoRequest, RequestAt
  <2> QED BY <2>1, <2>2
<1> QED BY <1>1, <1>2, <1>3, <1>4, <1>5, <1>6 DEF Request

(* and so does every step. *)
LEMMA StepKeepsTypes == TypeInv /\ [Next]_vars => TypeInv'
<1> SUFFICES ASSUME TypeInv, [Next]_vars PROVE TypeInv'
  OBVIOUS
<1>1. CASE VerifyKey
  BY <1>1 DEF VerifyKey, TypeInv, TypeOK, Processes, Serving, identityVars
<1>2. ASSUME NEW t \in Tokens, TokenExpires(t)
      PROVE  TypeInv'
  BY <1>2 DEF TokenExpires, TypeInv, TypeOK, Processes, Serving, identityVars
<1>3. CASE UNCHANGED vars
  BY <1>3 DEF vars, TypeInv, TypeOK, Processes, Serving
<1> QED BY <1>1, <1>2, <1>3, BootKeepsTypes, CommandKeepsTypes, RequestKeepsTypes DEF Next

(* At first nothing is on disk or in hand. *)
LEMMA InitTyped == Init => TypeInv
  BY BoundsAssumption DEF Init, TypeInv, TypeOK, Processes, Serving, Boxes, BootSteps,
     CommandStates, RequestStates, NoCommand, CommandAt, NoRequest, RequestAt, NoCache, NoWork

(* Whatever is read, written, stopped or copied, the files, the processes and
   the histories keep their types. *)
THEOREM AccessTypeCorrect == Spec => []TypeOK
<1>1. TypeInv => TypeOK
  BY DEF TypeInv
<1> QED BY <1>1, InitTyped, StepKeepsTypes, PTL DEF Spec
-----------------------------------------------------------------------------
(* A copied disk *)

Rotating == {"ca", "krl", "records", "tokens", "keys", "record"}

(* What is recorded is this box or one before it; a rotation is under way only
   for another's disk, and what is this box's was made once it was recorded. *)
Lineage ==
  /\ recorded =< box
  /\ boot \in Rotating => recorded # 0 /\ recorded # box
  /\ boot = "truncated" => recorded = 0
  /\ Serving => recorded = box
  /\ \A x \in Keys \cup Tokens : made[x] =< box /\ (made[x] = box => recorded = box)

TokensOf(rs) == {q.token : q \in rs}

(* A disk recorded as this box's holds only what was made on it, an unrecorded
   one nothing, and a rotation is as far as it says. *)
DiskIsOwn ==
  /\ recorded = box =>
       /\ ca \in {0, box}
       /\ \A x \in keys \cup tokens \cup TokensOf(records) : made[x] = box
  /\ recorded = 0 => ca = 0 /\ keys = {} /\ tokens = {} /\ records = {}
  /\ boot \in Rotating \ {"ca"} => ca = 0
  /\ boot \in {"tokens", "keys", "record"} => records = {}
  /\ boot \in {"keys", "record"} => tokens = {}
  /\ boot = "record" => keys = {}

(* So is what commands and requests have in hand. *)
HandsAreOwn ==
  /\ \A c \in Commands :
       /\ cli[c].at # "idle" /\ cli[c].work.verb \in {"create", "mint"} => made[cli[c].work.arg] = box
       /\ \A x \in cli[c].keys \cup cli[c].tokens \cup TokensOf(cli[c].records) : made[x] = box
  /\ \A r \in Requests :
       /\ req[r].at \in {"redeemed", "issuing", "issued"} => made[req[r].token] = box
       /\ \A x \in req[r].tokens \cup TokensOf(req[r].records) : made[x] = box

OwnInv == TypeInv /\ Lineage /\ DiskIsOwn /\ HandsAreOwn

(* Marking a record changes neither its serial nor its token. *)
LEMMA MarkedKeepsTokens ==
  ASSUME NEW rs \in SUBSET Records, NEW s \in Serials, NEW marked \in Marked(rs, s)
  PROVE  TokensOf(marked) \subseteq TokensOf(rs)
<1>1. PICK p \in rs : marked = (rs \ {p}) \cup {[p EXCEPT !.revoked = TRUE]}
  BY DEF Marked
<1>2. [p EXCEPT !.revoked = TRUE].token = p.token
  BY <1>1 DEF Records
<1> QED BY <1>1, <1>2 DEF TokensOf

(* The boot keeps a disk its box's own, *)
LEMMA BootKeepsOwn == OwnInv /\ Boot => OwnInv'
<1> SUFFICES ASSUME OwnInv, Boot PROVE OwnInv'
  OBVIOUS
<1>a. TypeInv' /\ TypeInv
  BY BootKeepsTypes DEF OwnInv
<1>b. box \in Nat /\ recorded \in Nat /\ \A x \in Keys \cup Tokens : made[x] \in Nat
  BY <1>a, BoundsAssumption DEF TypeInv, TypeOK, Boxes
<1> USE DEF OwnInv, Lineage, DiskIsOwn, HandsAreOwn, Serving, Rotating
<1>1. CASE ApplyIdentity
  BY <1>1, <1>a, <1>b DEF ApplyIdentity, RecordOnSight
<1>2. CASE Rotate
  BY <1>2, <1>a, <1>b DEF Rotate, TokensOf
<1>3. CASE RecordIdentity
  <2>1. box # 0 /\ TokensOf({}) = {}
    BY <1>a DEF TypeInv, TypeOK, Boxes, TokensOf
  <2>2. UNCHANGED <<box, ca, keys, tokens, records, cli, req, made>>
    BY <1>3 DEF RecordIdentity
  <2>3. CASE boot = "record" /\ recorded' = 0 /\ boot' = "truncated"
    BY <1>a, <1>b, <2>1, <2>2, <2>3
  <2>4. CASE boot = "truncated" /\ recorded' = box /\ boot' = "prepare"
    BY <1>a, <1>b, <2>1, <2>2, <2>4
  <2> QED BY <1>3, <2>3, <2>4 DEF RecordIdentity
<1>4. CASE PrepareAuthority
  BY <1>4, <1>a, <1>b DEF PrepareAuthority
<1>5. CASE Stop
  BY <1>5, <1>a, <1>b DEF Stop, NoCommand, CommandAt, NoRequest, RequestAt, TokensOf
<1>6. CASE CopyDisk
  <2>1. \A x \in Keys \cup Tokens : made[x] # box'
    BY <1>6, <1>b DEF CopyDisk
  <2>2. recorded # box' /\ recorded =< box'
    BY <1>6, <1>b DEF CopyDisk
  <2>3. Lineage' /\ DiskIsOwn'
    BY <1>6, <1>b, <2>1, <2>2 DEF CopyDisk
  <2>4. HandsAreOwn'
    BY <1>6, <1>a DEF CopyDisk, TypeInv, Processes, NoCommand, CommandAt, NoRequest,
       RequestAt, TokensOf
  <2> QED BY <1>a, <2>3, <2>4
<1> QED BY <1>1, <1>2, <1>3, <1>4, <1>5, <1>6 DEF Boot

(* and so do commands *)
LEMMA CommandKeepsOwn ==
  ASSUME NEW c \in Commands, OwnInv, Command(c)
  PROVE  OwnInv'
<1>a. TypeInv' /\ TypeInv
  BY CommandKeepsTypes DEF OwnInv
<1>b. box \in Nat /\ box # 0 /\ \A x \in Keys \cup Tokens : made[x] \in Nat
  BY <1>a DEF TypeInv, TypeOK, Boxes
<1>c. Serving /\ recorded = box /\ box # 0
  <2>1. cli[c].at = "idle" => Serving
    BY DEF Command, StartCommand, LoadKeys, LoadTokens, MarkRevoked, SaveKeys, SaveTokens,
           WriteRevocationList, SaveRecords, Comes, Report, CommandEnds
  <2> QED BY <1>a, <1>b, <2>1, BusyServes DEF OwnInv, Lineage
<1>d. UNCHANGED <<box, boot, recorded, ca, req>>
  BY DEF Command, StartCommand, LoadKeys, LoadTokens, MarkRevoked, SaveKeys, SaveTokens,
         WriteRevocationList, SaveRecords, Report, CommandEnds, identityVars
<1>e. boot \notin Rotating \cup {"truncated"}
  BY <1>c DEF Serving, Rotating
<1>f. cli[c].at # "idle" => cli[c].work \in Work
  BY <1>a DEF TypeInv, Processes
<1> USE DEF OwnInv
<1>1. ASSUME NEW w \in Work, StartCommand(c, w)
      PROVE  OwnInv'
  <2>1. /\ \A x \in Keys \cup Tokens : made'[x] = made[x] \/ made'[x] = box
        /\ w.verb \in {"create", "mint"} => made'[w.arg] = box
    BY <1>1, WorkHasItsArgument DEF StartCommand, TypeInv, TypeOK
  <2>2. Lineage'
    BY <1>b, <1>c, <1>d, <1>e, <2>1 DEF Lineage, Serving
  <2>3. \A x : made[x] = box /\ x \in Keys \cup Tokens => made'[x] = box
    BY <2>1
  <2>4. UNCHANGED <<keys, tokens, records>>
    BY <1>1 DEF StartCommand
  <2>5. keys \cup tokens \cup TokensOf(records) \subseteq Keys \cup Tokens
    BY DEF TypeInv, TypeOK, TokensOf, Records
  <2>6. DiskIsOwn'
    BY <1>c, <1>d, <1>e, <2>3, <2>4, <2>5 DEF DiskIsOwn, Rotating
  <2>7. \A d \in Commands : cli[d].keys \cup cli[d].tokens \cup TokensOf(cli[d].records) \subseteq Keys \cup Tokens
    BY DEF TypeInv, TypeOK, CommandStates, TokensOf, Records
  <2>8. \A r \in Requests : req[r].tokens \cup TokensOf(req[r].records) \subseteq Keys \cup Tokens
    BY DEF TypeInv, TypeOK, RequestStates, TokensOf, Records
  <2>9. \A d \in Commands : cli[d].at # "idle" /\ cli[d].work.verb \in {"create", "mint"} => cli[d].work.arg \in Keys \cup Tokens
    BY WorkHasItsArgument DEF TypeInv, Processes
  <2>10. \A r \in Requests : req[r].at # "idle" => req[r].token \in Tokens
    BY DEF TypeInv, Processes
  <2>11. ASSUME NEW r \in Requests
         PROVE  /\ req'[r].at \in {"redeemed", "issuing", "issued"} => made'[req'[r].token] = box
                /\ \A x \in req'[r].tokens \cup TokensOf(req'[r].records) : made'[x] = box
    BY <1>d, <2>3, <2>8, <2>10 DEF HandsAreOwn
  <2>12. ASSUME NEW d \in Commands
         PROVE  /\ cli'[d].at # "idle" /\ cli'[d].work.verb \in {"create", "mint"} => made'[cli'[d].work.arg] = box
                /\ \A x \in cli'[d].keys \cup cli'[d].tokens \cup TokensOf(cli'[d].records) : made'[x] = box
    <3>1. CASE d = c
      BY <1>1, <2>1, <3>1, StartCommandBegins DEF Begins, TokensOf
    <3>2. CASE d # c
      BY <1>1, <2>3, <2>7, <2>9, <3>2, StartCommandBegins DEF Begins, HandsAreOwn
    <3> QED BY <3>1, <3>2
  <2>13. HandsAreOwn'
    BY <1>d, <2>11, <2>12 DEF HandsAreOwn
  <2> QED BY <1>a, <2>2, <2>6, <2>13
<1>2. ASSUME NEW place, NEW ks, NEW ts, NEW rs, Advances(c, place, ks, ts, rs), cli[c].at # "idle",
             made' = made, \A x \in ks \cup ts \cup TokensOf(rs) : made[x] = box
      PROVE  HandsAreOwn'
  BY <1>2, <1>d DEF Advances, HandsAreOwn
<1>3. ASSUME made' = made PROVE Lineage'
  BY <1>3, <1>d DEF Lineage, Serving
<1>4. ASSUME made' = made, \A x \in keys' \cup tokens' \cup TokensOf(records') : made[x] = box
      PROVE  DiskIsOwn'
  BY <1>4, <1>c, <1>d, <1>e DEF DiskIsOwn, Rotating
<1>5. /\ \A x \in keys \cup tokens \cup TokensOf(records) : made[x] = box
      /\ \A x \in cli[c].keys \cup cli[c].tokens \cup TokensOf(cli[c].records) : made[x] = box
      /\ cli[c].at # "idle" /\ cli[c].work.verb \in {"create", "mint"} => made[cli[c].work.arg] = box
  BY <1>c DEF DiskIsOwn, HandsAreOwn
<1>6. CASE LoadKeys(c)
  <2>1. DiskIsOwn' /\ Lineage' /\ made' = made /\ cli[c].at # "idle"
    BY <1>3, <1>4, <1>5, <1>6 DEF LoadKeys
  <2> QED BY <1>2, <1>5, <1>6, <1>a, <2>1, LoadKeysMoves
<1>7. CASE LoadTokens(c)
  <2>1. DiskIsOwn' /\ Lineage' /\ made' = made /\ cli[c].at # "idle"
    BY <1>3, <1>4, <1>5, <1>7 DEF LoadTokens
  <2>2. cli[c].work.verb = "mint"
    BY <1>7 DEF LoadTokens
  <2> QED BY <1>2, <1>5, <1>7, <1>a, <2>1, <2>2, LoadTokensMoves
<1>8. CASE MarkRevoked(c)
  <2>1. DiskIsOwn' /\ Lineage' /\ made' = made /\ cli[c].at # "idle"
    BY <1>3, <1>4, <1>5, <1>8 DEF MarkRevoked
  <2>2. records \in SUBSET Records /\ cli[c].work.arg \in Serials
    BY <1>8, <1>f, WorkHasItsArgument DEF MarkRevoked, TypeInv, TypeOK
  <2>3. PICK marked \in Marked(records, cli[c].work.arg) :
          Advances(c, "loaded", cli[c].keys, cli[c].tokens, marked)
    BY <1>8, <1>a, MarkRevokedMoves
  <2>4. TokensOf(marked) \subseteq TokensOf(records)
    BY <2>2, <2>3, MarkedKeepsTokens
  <2>5. HandsAreOwn'
    BY <1>2, <1>5, <2>1, <2>3, <2>4
  <2> QED BY <1>a, <2>1, <2>5
<1>9. CASE SaveKeys(c) \/ SaveTokens(c) \/ WriteRevocationList(c) \/ SaveRecords(c)
  <2>1. made' = made /\ cli[c].at # "idle"
    BY <1>9 DEF SaveKeys, SaveTokens, WriteRevocationList, SaveRecords, Comes
  <2>2. \E a \in {"saved", "half"} : Goes(c, a)
    BY <1>9 DEF SaveKeys, SaveTokens, WriteRevocationList, SaveRecords, After
  <2>3. HandsAreOwn'
    BY <1>2, <1>5, <1>a, <2>1, <2>2, GoesMoves
  <2>4. keys' \in {keys, cli[c].keys} /\ tokens' \in {tokens, cli[c].tokens} /\ records' \in {records, cli[c].records}
    BY <1>9 DEF SaveKeys, SaveTokens, WriteRevocationList, SaveRecords
  <2>5. DiskIsOwn'
    BY <1>4, <1>5, <2>1, <2>4
  <2> QED BY <1>3, <1>a, <2>1, <2>3, <2>5
<1>10. CASE Report(c) \/ CommandEnds(c)
  <2>1. made' = made /\ UNCHANGED <<keys, tokens, records>>
    BY <1>10 DEF Report, CommandEnds
  <2>2. HandsAreOwn'
    BY <1>10, <1>a, <1>d, <2>1, LeavesAtItsEnd DEF Leaves, HandsAreOwn, NoCommand, CommandAt,
       TokensOf
  <2> QED BY <1>3, <1>4, <1>5, <1>a, <2>1, <2>2
<1> QED BY <1>1, <1>6, <1>7, <1>8, <1>9, <1>10 DEF Command

(* and requests, *)
LEMMA RequestKeepsOwn ==
  ASSUME NEW r \in Requests, OwnInv, Request(r)
  PROVE  OwnInv'
<1>a. TypeInv' /\ TypeInv
  BY RequestKeepsTypes DEF OwnInv
<1>b. Serving /\ recorded = box /\ box # 0
  <2>1. req[r].at = "idle" => Serving
    BY DEF Request, RedeemReads, RedeemWrites, IssueReads, IssueWrites, Answer, RequestFails
  <2> QED BY <1>a, <2>1, PendingServes DEF OwnInv, Lineage, TypeInv, TypeOK, Boxes
<1>c. UNCHANGED <<box, boot, recorded, ca, cli, made, keys>>
  BY DEF Request, RedeemReads, RedeemWrites, IssueReads, IssueWrites, Answer, RequestFails,
     identityVars
<1>d. boot \notin Rotating \cup {"truncated"}
  BY <1>b DEF Serving, Rotating
<1>e. Lineage'
  BY <1>c DEF OwnInv, Lineage, Serving
<1>f. /\ \A x \in keys \cup tokens \cup TokensOf(records) : made[x] = box
      /\ \A x \in req[r].tokens \cup TokensOf(req[r].records) : made[x] = box
      /\ req[r].at \in {"redeemed", "issuing", "issued"} => made[req[r].token] = box
  BY <1>b DEF OwnInv, DiskIsOwn, HandsAreOwn
<1>g. ASSUME \A x \in tokens' \cup TokensOf(records') : made[x] = box
      PROVE  DiskIsOwn'
  BY <1>b, <1>c, <1>d, <1>f, <1>g DEF OwnInv, DiskIsOwn, Rotating
<1>h. ASSUME NEW place, NEW token, NEW ts, NEW rs, NEW authority, Turns(r, place, token, ts, rs, authority),
             place \in {"redeemed", "issuing", "issued"} => made[token] = box,
             \A x \in ts \cup TokensOf(rs) : made[x] = box
      PROVE  HandsAreOwn'
  BY <1>c, <1>h DEF OwnInv, Turns, HandsAreOwn
<1>i. Drops(r) => HandsAreOwn'
  BY <1>c DEF OwnInv, Drops, HandsAreOwn, NoRequest, RequestAt, TokensOf
<1>1. ASSUME NEW t \in Tokens, RedeemReads(r, t)
      PROVE  OwnInv'
  <2>1. UNCHANGED <<tokens, records>>
    BY <1>1 DEF RedeemReads
  <2>2. HandsAreOwn'
    BY <1>1, <1>a, <1>f, <1>h, RedeemReadsTurns DEF TokensOf
  <2> QED BY <1>a, <1>e, <1>f, <1>g, <2>1, <2>2 DEF OwnInv
<1>2. CASE RedeemWrites(r)
  <2>1. records' = records /\ tokens' \subseteq req[r].tokens
    BY <1>2 DEF RedeemWrites, Remaining
  <2>2. HandsAreOwn'
    BY <1>2, <1>a, <1>f, <1>h, <1>i, RedeemWritesTurns
  <2> QED BY <1>a, <1>e, <1>f, <1>g, <2>1, <2>2 DEF OwnInv
<1>3. CASE IssueReads(r)
  <2>1. UNCHANGED <<tokens, records>> /\ req[r].at = "redeemed"
    BY <1>3 DEF IssueReads
  <2>2. HandsAreOwn'
    BY <1>3, <1>a, <1>f, <1>h, <2>1, IssueReadsTurns
  <2> QED BY <1>a, <1>e, <1>f, <1>g, <2>1, <2>2 DEF OwnInv
<1>4. CASE IssueWrites(r)
  <2>1. tokens' = tokens /\ req[r].at = "issuing"
    BY <1>4 DEF IssueWrites
  <2>2. PICK serial \in Serials :
          /\ records' = req[r].records \cup {NewRecord(r, serial)}
          /\ Turns(r, "issued", req[r].token, req[r].tokens, {NewRecord(r, serial)}, ca)
    BY <1>4, <1>a, IssueWritesTurns
  <2>3. TokensOf({NewRecord(r, serial)}) = {req[r].token}
    BY DEF TokensOf, NewRecord
  <2>4. TokensOf(records') = TokensOf(req[r].records) \cup TokensOf({NewRecord(r, serial)})
    BY <2>2 DEF TokensOf
  <2>5. HandsAreOwn'
    BY <1>f, <1>h, <2>1, <2>2, <2>3
  <2> QED BY <1>a, <1>e, <1>f, <1>g, <2>1, <2>3, <2>4, <2>5 DEF OwnInv
<1>5. CASE Answer(r) \/ RequestFails(r)
  <2>1. UNCHANGED <<tokens, records>>
    BY <1>5 DEF Answer, RequestFails
  <2>2. HandsAreOwn'
    BY <1>5, <1>a, <1>i, DropsAtItsEnd
  <2> QED BY <1>a, <1>e, <1>f, <1>g, <2>1, <2>2 DEF OwnInv
<1> QED BY <1>1, <1>2, <1>3, <1>4, <1>5 DEF Request

(* so every step does. *)
LEMMA StepKeepsOwn == OwnInv /\ [Next]_vars => OwnInv'
<1> SUFFICES ASSUME OwnInv, [Next]_vars PROVE OwnInv'
  OBVIOUS
<1>1. TypeInv'
  BY StepKeepsTypes DEF OwnInv
<1>2. CASE VerifyKey
  BY <1>1, <1>2 DEF VerifyKey, identityVars, OwnInv, Lineage, DiskIsOwn, HandsAreOwn, Serving
<1>3. ASSUME NEW t \in Tokens, TokenExpires(t)
      PROVE  OwnInv'
  BY <1>1, <1>3 DEF TokenExpires, identityVars, OwnInv, Lineage, DiskIsOwn, HandsAreOwn, Serving
<1>4. CASE UNCHANGED vars
  BY <1>1, <1>4 DEF vars, OwnInv, Lineage, DiskIsOwn, HandsAreOwn, Serving
<1> QED BY <1>2, <1>3, <1>4, BootKeepsOwn, CommandKeepsOwn, RequestKeepsOwn DEF Next

(* A first disk holds nothing. *)
LEMMA InitOwn == Init => OwnInv
<1> SUFFICES ASSUME Init PROVE OwnInv
  OBVIOUS
<1>1. TypeInv
  BY InitTyped
<1>2. Lineage
  BY DEF Init, Lineage, Rotating, Serving
<1>3. DiskIsOwn
  BY DEF Init, DiskIsOwn, Rotating
<1>4. HandsAreOwn
  BY DEF Init, HandsAreOwn, NoCommand, CommandAt, NoRequest, RequestAt, TokensOf
<1> QED BY <1>1, <1>2, <1>3, <1>4 DEF OwnInv

(* However often rotations are cut short and disks copied, whatever commands
   and requests were about when the container stopped, a container that serves
   has nothing another box's owner was let in by. *)
THEOREM CopyHoldsNothingCorrect == Spec => []CopyHoldsNothing
<1>1. OwnInv => CopyHoldsNothing
  BY DEF OwnInv, Lineage, DiskIsOwn, CopyHoldsNothing, TokensOf
<1> QED BY <1>1, InitOwn, StepKeepsOwn, PTL DEF Spec

-----------------------------------------------------------------------------
(* The lock, and the keys *)

(* One command holds a file at a time. *)
LockHolds ==
  \A c, d \in Commands, file \in {"keys", "tokens", "records"} :
    Holds(c, file) /\ Holds(d, file) => c = d

(* A command about a key has the store it will write, and nobody has been told
   otherwise yet. *)
KeysInHand ==
  \A c \in Commands :
    cli[c].at # "idle" =>
      /\ cli[c].work.verb = "create" =>
           /\ told[cli[c].work.arg] = "nothing"
           /\ cli[c].at = "loaded" => cli[c].keys = keys \cup {cli[c].work.arg}
           /\ cli[c].at = "saved" => cli[c].work.arg \in keys
      /\ cli[c].work.verb = "revokeKey" =>
           /\ told[cli[c].work.arg] = "asked"
           /\ cli[c].at = "loaded" => cli[c].keys = keys \ {cli[c].work.arg}
           /\ cli[c].at = "saved" => cli[c].work.arg \notin keys

KeysInv ==
  /\ OwnInv /\ LockHolds /\ KeysInHand /\ KeysFollowCommands
  /\ \A k \in Keys : told[k] # "nothing" => made[k] # 0

(* What a command holds it holds until it ends. *)
LEMMA MovingHolds ==
  ASSUME NEW c \in Commands, cli[c].at # "idle", NEW place \in {"loaded", "half", "saved"},
         NEW ks, NEW ts, NEW rs, Advances(c, place, ks, ts, rs)
  PROVE  \A d \in Commands, file \in {"keys", "tokens", "records"} : Holds(d, file)' <=> Holds(d, file)
  BY DEF Advances, Holds

(* An ended command holds nothing, and the others what they held. *)
LEMMA LeavingHolds ==
  ASSUME NEW c \in Commands, Leaves(c)
  PROVE  \A d \in Commands, file \in {"keys", "tokens", "records"} :
           Holds(d, file)' <=> d # c /\ Holds(d, file)
  BY DEF Leaves, Holds, NoCommand, CommandAt

(* A beginning one holds its file besides. *)
LEMMA BeginningHolds ==
  ASSUME NEW c \in Commands, NEW w \in Work, Begins(c, w), cli[c].at = "idle"
  PROVE  \A d \in Commands, file \in {"keys", "tokens", "records"} :
           Holds(d, file)' <=> Holds(d, file) \/ (d = c /\ file = FileOf(w))
  BY DEF Begins, Holds

(* A command that is not beginning moves or leaves. *)
LEMMA CommandMovesOrLeaves ==
  ASSUME NEW c \in Commands, TypeInv, Command(c)
  PROVE  \/ \E w \in Work : StartCommand(c, w) /\ Begins(c, w)
         \/ /\ cli[c].at # "idle"
            /\ \E place \in {"loaded", "half", "saved"} : \E ks, ts, rs : Advances(c, place, ks, ts, rs)
         \/ Leaves(c)
<1>1. ASSUME NEW w \in Work, StartCommand(c, w) PROVE Begins(c, w)
  BY <1>1, StartCommandBegins
<1>2. CASE LoadKeys(c)
  BY <1>2, LoadKeysMoves DEF LoadKeys
<1>3. CASE LoadTokens(c)
  BY <1>3, LoadTokensMoves DEF LoadTokens
<1>4. CASE MarkRevoked(c)
  BY <1>4, MarkRevokedMoves DEF MarkRevoked
<1>5. CASE SaveKeys(c) \/ SaveTokens(c) \/ WriteRevocationList(c) \/ SaveRecords(c)
  <2>1. \E a \in {"saved", "half"} : Goes(c, a)
    BY <1>5 DEF SaveKeys, SaveTokens, WriteRevocationList, SaveRecords, After
  <2>2. cli[c].at # "idle"
    BY <1>5 DEF SaveKeys, SaveTokens, WriteRevocationList, SaveRecords, Comes
  <2> QED BY <2>1, <2>2, GoesMoves
<1>6. CASE Report(c) \/ CommandEnds(c)
  BY <1>6, LeavesAtItsEnd
<1> QED BY <1>1, <1>2, <1>3, <1>4, <1>5, <1>6 DEF Command

(* The lock keeps commands apart. *)
LEMMA StepKeepsLock == TypeInv /\ LockHolds /\ [Next]_vars => LockHolds'
<1> SUFFICES ASSUME TypeInv, LockHolds, [Next]_vars PROVE LockHolds'
  OBVIOUS
<1>1. ASSUME NEW c \in Commands, Command(c)
      PROVE  LockHolds'
  <2>1. ASSUME NEW w \in Work, StartCommand(c, w), Begins(c, w)
        PROVE  LockHolds'
    <3>1. LockIsFree(FileOf(w)) /\ cli[c].at = "idle"
      BY <2>1 DEF StartCommand, Lock
    <3> QED BY <2>1, <3>1, BeginningHolds DEF LockHolds, LockIsFree
  <2>2. ASSUME cli[c].at # "idle", NEW place \in {"loaded", "half", "saved"}, NEW ks, NEW ts, NEW rs,
               Advances(c, place, ks, ts, rs)
        PROVE  LockHolds'
    BY <2>2, MovingHolds DEF LockHolds
  <2>3. CASE Leaves(c)
    BY <2>3, LeavingHolds DEF LockHolds
  <2> QED BY <1>1, <2>1, <2>2, <2>3, CommandMovesOrLeaves
<1>2. CASE Boot
  <2>1. cli' = cli \/ cli' = [c \in Commands |-> NoCommand]
    BY <1>2 DEF Boot, ApplyIdentity, Rotate, RecordIdentity, PrepareAuthority, Stop, CopyDisk
  <2> QED BY <2>1 DEF LockHolds, Holds, NoCommand, CommandAt
<1>3. ASSUME NEW r \in Requests, Request(r)
      PROVE  LockHolds'
  <2>1. cli' = cli
    BY <1>3 DEF Request, RedeemReads, RedeemWrites, IssueReads, IssueWrites, Answer,
       RequestFails
  <2> QED BY <2>1 DEF LockHolds, Holds
<1>4. CASE cli' = cli
  BY <1>4 DEF LockHolds, Holds
<1> QED BY <1>1, <1>2, <1>3, <1>4 DEF Next, VerifyKey, TokenExpires, vars

(* Commands keep the keys and what was told of them together. *)
LEMMA CommandKeepsKeys ==
  ASSUME "tick" \notin Faults, KeysInv, NEW c \in Commands, Command(c)
  PROVE  KeysInHand' /\ KeysFollowCommands' /\ \A k \in Keys : told'[k] # "nothing" => made'[k] # 0
<1>a. TypeInv /\ OwnInv /\ LockHolds /\ KeysInHand /\ KeysFollowCommands
  BY DEF KeysInv, OwnInv
<1>b. Serving /\ box # 0
  <2>1. cli[c].at = "idle" => Serving
    BY DEF Command, StartCommand, LoadKeys, LoadTokens, MarkRevoked, SaveKeys, SaveTokens,
           WriteRevocationList, SaveRecords, Comes, Report, CommandEnds
  <2>2. Serving
    BY <1>a, <2>1, BusyServes
  <2>3. TypeInv
    BY <1>a
  <2>4. box # 0
    BY <2>3 DEF TypeInv, TypeOK, Boxes
  <2> QED BY <2>2, <2>4
<1>c. box' = box
  BY DEF Command, StartCommand, LoadKeys, LoadTokens, MarkRevoked, SaveKeys, SaveTokens,
         WriteRevocationList, SaveRecords, Report, CommandEnds, identityVars
<1>d. \A d \in Commands : cli[d].at # "idle" =>
        /\ cli[d].work \in Work
        /\ cli[d].work.verb \in {"create", "revokeKey"} => cli[d].work.arg \in Keys /\ Holds(d, "keys")
        /\ cli[d].work.verb \notin {"create", "revokeKey"} => ~Holds(d, "keys")
  BY <1>a, WorkHasItsArgument DEF TypeInv, Processes, Holds
<1>e. \A d \in Commands : cli[d].at # "idle" /\ cli[d].work.verb \in {"create", "mint"} => made[cli[d].work.arg] = box
  BY <1>a DEF OwnInv, HandsAreOwn
<1>f. ASSUME NEW d \in Commands, Holds(c, "keys"), d # c, cli[d].at # "idle"
      PROVE  cli[d].work.verb \notin {"create", "revokeKey"}
  BY <1>a, <1>d, <1>f DEF LockHolds
<1>g. ASSUME UNCHANGED <<keys, cache, made, told>>
      PROVE  KeysFollowCommands' /\ \A k \in Keys : told'[k] # "nothing" => made'[k] # 0
  BY <1>a, <1>c, <1>g DEF KeysInv, KeysFollowCommands
<1>1. ASSUME NEW w \in Work, StartCommand(c, w)
      PROVE  KeysInHand' /\ KeysFollowCommands' /\ \A k \in Keys : told'[k] # "nothing" => made'[k] # 0
  <2>1. Begins(c, w) /\ cli[c].at = "idle" /\ UNCHANGED <<keys, cache>>
    BY <1>1, <1>a, StartCommandBegins DEF StartCommand
  <2>2. CASE w.verb = "revokeKey"
    <3>1. w.arg \in Keys /\ FileOf(w) = "keys"
      BY <2>2, WorkHasItsArgument
    <3>2. made' = made /\ told' = [told EXCEPT ![w.arg] = "asked"] /\ made[w.arg] # 0
      BY <1>1, <2>2 DEF StartCommand
    <3>3. told'[w.arg] = "asked" /\ \A k \in Keys : k # w.arg => told'[k] = told[k]
      BY <3>1, <3>2, <1>a DEF TypeInv, TypeOK
    <3>4. KeysFollowCommands'
      BY <1>a, <1>c, <2>1, <3>2, <3>3 DEF KeysFollowCommands
    <3>5. \A d \in Commands : cli[d].at # "idle" => cli[d].work.verb \notin {"create", "revokeKey"}
      BY <1>1, <1>d, <3>1 DEF StartCommand, Lock, LockIsFree
    <3>6. KeysInHand'
      BY <2>1, <2>2, <3>3, <3>5 DEF KeysInHand, Begins
    <3> QED BY <1>a, <3>2, <3>3, <3>4, <3>6 DEF KeysInv
  <2>3. CASE w.verb = "create"
    <3>1. w.arg \in Keys /\ FileOf(w) = "keys"
      BY <2>3, WorkHasItsArgument
    <3>2. told' = told /\ made' = [made EXCEPT ![w.arg] = box] /\ made[w.arg] = 0
      BY <1>1, <2>3 DEF StartCommand
    <3>3. told[w.arg] = "nothing"
      BY <3>1, <3>2 DEF KeysInv
    <3>4. made'[w.arg] = box /\ \A k \in Keys : k # w.arg => made'[k] = made[k]
      BY <3>1, <3>2, <1>a DEF TypeInv, TypeOK
    <3>5. KeysFollowCommands'
      BY <1>a, <1>c, <2>1, <3>2, <3>3, <3>4 DEF KeysFollowCommands
    <3>6. \A d \in Commands : cli[d].at # "idle" => cli[d].work.verb \notin {"create", "revokeKey"}
      BY <1>1, <1>d, <3>1 DEF StartCommand, Lock, LockIsFree
    <3>7. KeysInHand'
      BY <2>1, <2>3, <3>2, <3>3, <3>6 DEF KeysInHand, Begins
    <3> QED BY <1>b, <3>2, <3>4, <3>5, <3>7 DEF KeysInv
  <2>4. CASE w.verb \notin {"create", "revokeKey"}
    <3>1. told' = told /\ \A k \in Keys : made'[k] = made[k] \/ (made'[k] = box /\ made[k] = 0)
      BY <1>1, <1>a, <2>4, WorkHasItsArgument DEF StartCommand, TypeInv, TypeOK
    <3>2. KeysFollowCommands'
      BY <1>a, <1>c, <2>1, <3>1 DEF KeysFollowCommands, KeysInv
    <3>3. KeysInHand'
      BY <1>a, <2>1, <2>4, <3>1 DEF KeysInHand, Begins
    <3> QED BY <1>b, <3>1, <3>2, <3>3 DEF KeysInv
  <2> QED BY <2>2, <2>3, <2>4
<1>2. CASE LoadKeys(c)
  <2>1. UNCHANGED <<keys, cache, made, told>> /\ cli[c].at # "idle"
    BY <1>2 DEF LoadKeys
  <2>2. KeysInHand'
    <3>1. CASE cli[c].work.verb = "create"
      <4>1. Advances(c, "loaded", keys \cup {cli[c].work.arg}, cli[c].tokens, cli[c].records)
        BY <1>2, <1>a, <3>1, LoadKeysMoves
      <4> QED BY <1>a, <2>1, <3>1, <4>1 DEF Advances, KeysInHand
    <3>2. CASE cli[c].work.verb = "revokeKey"
      <4>1. Advances(c, IF cli[c].work.arg \in keys THEN "loaded" ELSE "saved",
                  keys \ {cli[c].work.arg}, cli[c].tokens, cli[c].records)
        BY <1>2, <1>a, <3>2, LoadKeysMoves
      <4>2. CASE cli[c].work.arg \in keys
        BY <1>a, <2>1, <3>2, <4>1, <4>2 DEF Advances, KeysInHand
      <4>3. CASE cli[c].work.arg \notin keys
        BY <1>a, <2>1, <3>2, <4>1, <4>3 DEF Advances, KeysInHand
      <4> QED BY <4>2, <4>3
    <3> QED BY <1>2, <3>1, <3>2 DEF LoadKeys
  <2> QED BY <1>g, <2>1, <2>2
<1>3. CASE LoadTokens(c) \/ MarkRevoked(c) \/ SaveTokens(c) \/ WriteRevocationList(c) \/ SaveRecords(c)
  <2>1. UNCHANGED <<keys, cache, made, told>> /\ cli[c].at # "idle"
    BY <1>3 DEF LoadTokens, MarkRevoked, SaveTokens, WriteRevocationList, SaveRecords, Comes
  <2>2. cli[c].work.verb \notin {"create", "revokeKey"}
    BY <1>3, <1>d, <2>1, WorkHasItsArgument DEF LoadTokens, MarkRevoked, SaveTokens,
       WriteRevocationList, SaveRecords, Comes
  <2>3. cli'[c].work = cli[c].work /\ \A d \in Commands : d # c => cli'[d] = cli[d]
    <3>1. CASE LoadTokens(c)
      BY <3>1, <1>a, LoadTokensMoves DEF Advances
    <3>2. CASE MarkRevoked(c)
      BY <3>2, <1>a, MarkRevokedMoves DEF Advances
    <3>3. CASE SaveTokens(c) \/ WriteRevocationList(c) \/ SaveRecords(c)
      <4>1. \E a \in {"saved", "half"} : Goes(c, a)
        BY <3>3 DEF SaveTokens, WriteRevocationList, SaveRecords, After
      <4> QED BY <1>a, <4>1, GoesMoves DEF Advances
    <3> QED BY <1>3, <3>1, <3>2, <3>3
  <2>4. KeysInHand'
    BY <1>a, <2>1, <2>2, <2>3 DEF KeysInHand
  <2> QED BY <1>g, <2>1, <2>4
<1>4. CASE SaveKeys(c)
  <2>1. /\ Advances(c, "saved", cli[c].keys, cli[c].tokens, cli[c].records)
        /\ keys' = cli[c].keys /\ UNCHANGED <<made, told>> /\ cli[c].at = "loaded"
    BY <1>4, <1>a, GoesMoves DEF SaveKeys
  <2>2. cache'.current = FALSE
    BY <1>4, <1>a DEF SaveKeys, Passes, TypeInv, TypeOK
  <2>3. cli[c].work.verb \in {"create", "revokeKey"} /\ Holds(c, "keys") /\ cli[c].work.arg \in Keys
    BY <1>4, <1>d, <2>1 DEF SaveKeys, Holds
  <2>4. \/ cli[c].work.verb = "create" /\ keys' = keys \cup {cli[c].work.arg} /\ told[cli[c].work.arg] = "nothing"
        \/ cli[c].work.verb = "revokeKey" /\ keys' = keys \ {cli[c].work.arg} /\ told[cli[c].work.arg] = "asked"
    BY <1>a, <2>1, <2>3 DEF KeysInHand
  <2>5. KeysFollowCommands'
    BY <1>a, <1>c, <2>1, <2>2, <2>4 DEF KeysFollowCommands
  <2>6. KeysInHand'
    BY <1>a, <1>f, <2>1, <2>3, <2>4 DEF KeysInHand, Advances
  <2> QED BY <2>1, <2>5, <2>6 DEF KeysInv
<1>5. CASE Report(c)
  <2>1. UNCHANGED <<keys, cache, made>> /\ cli[c].at = "saved" /\ cli[c].work \in Work
    BY <1>5, <1>a, <1>d DEF Report
  <2>2. cli'[c].at = "idle" /\ \A d \in Commands : d # c => cli'[d] = cli[d]
    <3>1. Leaves(c)
      BY <1>5, <1>a, LeavesAtItsEnd
    <3> QED BY <3>1 DEF Leaves, NoCommand, CommandAt
  <2>3. CASE cli[c].work.verb = "create"
    <3>1. cli[c].work.arg \in Keys /\ Holds(c, "keys") /\ cli[c].work.arg \in keys /\ made[cli[c].work.arg] = box
      BY <1>a, <1>d, <1>e, <2>1, <2>3 DEF KeysInHand
    <3>2. told' = [told EXCEPT ![cli[c].work.arg] = "created"]
      BY <1>5, <2>3 DEF Report
    <3>3. told'[cli[c].work.arg] = "created" /\ \A k \in Keys : k # cli[c].work.arg => told'[k] = told[k]
      BY <1>a, <3>1, <3>2 DEF TypeInv, TypeOK
    <3>4. KeysFollowCommands'
      BY <1>a, <1>c, <2>1, <3>1, <3>3 DEF KeysFollowCommands
    <3>5. KeysInHand'
      BY <1>a, <1>f, <2>1, <2>2, <3>1 DEF KeysInHand
    <3> QED BY <1>b, <2>1, <3>1, <3>3, <3>4, <3>5 DEF KeysInv
  <2>4. CASE cli[c].work.verb = "revokeKey"
    <3>1. cli[c].work.arg \in Keys /\ Holds(c, "keys") /\ cli[c].work.arg \notin keys
      BY <1>a, <1>d, <2>1, <2>4 DEF KeysInHand
    <3>2. told' = [told EXCEPT ![cli[c].work.arg] = "revoked"] /\ told[cli[c].work.arg] = "asked"
      BY <1>5, <1>a, <2>1, <2>4 DEF Report, KeysInHand
    <3>3. told'[cli[c].work.arg] = "revoked" /\ \A k \in Keys : k # cli[c].work.arg => told'[k] = told[k]
      BY <1>a, <3>1, <3>2 DEF TypeInv, TypeOK
    <3>4. KeysFollowCommands'
      BY <1>a, <1>c, <2>1, <3>1, <3>3 DEF KeysFollowCommands
    <3>5. KeysInHand'
      BY <1>a, <1>f, <2>1, <2>2, <3>1 DEF KeysInHand
    <3> QED BY <2>1, <3>1, <3>2, <3>3, <3>4, <3>5 DEF KeysInv
  <2>5. CASE cli[c].work.verb \notin {"create", "revokeKey"}
    <3>1. told' = told
      BY <1>5, <2>5 DEF Report
    <3>2. KeysInHand'
      BY <1>a, <2>1, <2>2, <3>1 DEF KeysInHand
    <3> QED BY <1>g, <2>1, <3>1, <3>2
  <2> QED BY <2>3, <2>4, <2>5
<1>6. CASE CommandEnds(c)
  <2>1. UNCHANGED <<keys, cache, made, told>>
    BY <1>6 DEF CommandEnds
  <2>2. cli'[c].at = "idle" /\ \A d \in Commands : d # c => cli'[d] = cli[d]
    <3>1. Leaves(c)
      BY <1>6, <1>a, LeavesAtItsEnd
    <3> QED BY <3>1 DEF Leaves, NoCommand, CommandAt
  <2>3. KeysInHand'
    BY <1>a, <2>1, <2>2 DEF KeysInHand
  <2> QED BY <1>g, <2>1, <2>3
<1> QED BY <1>1, <1>2, <1>3, <1>4, <1>5, <1>6 DEF Command

(* A step that touches neither commands nor keys does too. *)
LEMMA OthersKeepKeys ==
  ASSUME KeysInv, UNCHANGED <<box, cli, keys, made, told>>,
         cache' = cache \/ cache' = [known |-> keys, current |-> TRUE]
  PROVE  KeysInHand' /\ KeysFollowCommands' /\ \A k \in Keys : told'[k] # "nothing" => made'[k] # 0
  BY DEF KeysInv, KeysInHand, KeysFollowCommands

(* The boot keeps the keys and what was told of them together. *)
LEMMA BootKeepsKeys ==
  ASSUME KeysInv, Boot
  PROVE  KeysInHand' /\ KeysFollowCommands' /\ \A k \in Keys : told'[k] # "nothing" => made'[k] # 0
<1>a. TypeInv /\ Lineage /\ KeysInHand /\ KeysFollowCommands
  BY DEF KeysInv, OwnInv
<1>b. UNCHANGED <<made, told>>
  BY DEF Boot, ApplyIdentity, Rotate, RecordIdentity, PrepareAuthority, Stop, CopyDisk
<1>c. \A k \in Keys : told'[k] # "nothing" => made'[k] # 0
  BY <1>b DEF KeysInv
<1>d. ~Serving => cache.current = FALSE /\ \A c \in Commands : cli[c].at = "idle"
  BY <1>a DEF TypeInv, Processes, NoCache, NoCommand, CommandAt
<1>1. CASE ApplyIdentity \/ RecordIdentity \/ PrepareAuthority
  <2>1. UNCHANGED <<box, cli, keys, made, told, cache>>
    BY <1>1 DEF ApplyIdentity, RecordIdentity, PrepareAuthority
  <2> QED BY <2>1, OthersKeepKeys
<1>2. CASE Rotate
  <2>1. boot \in Rotating /\ ~Serving
    BY <1>2 DEF Rotate, Rotating, Serving
  <2>2. \A k \in Keys : made[k] # box
    BY <1>a, <2>1 DEF Lineage
  <2>3. UNCHANGED <<box, cli, cache>> /\ keys' \subseteq keys
    BY <1>2 DEF Rotate
  <2>4. KeysInHand'
    BY <1>d, <2>1, <2>3 DEF KeysInHand
  <2>5. KeysFollowCommands'
    BY <1>a, <1>b, <1>d, <2>1, <2>2, <2>3 DEF KeysFollowCommands
  <2> QED BY <1>c, <2>4, <2>5
<1>3. CASE Stop
  <2>1. UNCHANGED <<box, keys>> /\ cache'.current = FALSE /\ \A c \in Commands : cli'[c].at = "idle"
    BY <1>3 DEF Stop, NoCache, NoCommand, CommandAt
  <2>2. KeysInHand'
    BY <2>1 DEF KeysInHand
  <2>3. KeysFollowCommands'
    BY <1>a, <1>b, <2>1 DEF KeysFollowCommands
  <2> QED BY <1>c, <2>2, <2>3
<1>4. CASE CopyDisk
  <2>1. UNCHANGED <<keys, cli, cache>> /\ box' = box + 1 /\ box \in Nat
    BY <1>4, <1>a, BoundsAssumption DEF CopyDisk, TypeInv, TypeOK, Boxes
  <2>2. \A k \in Keys : made[k] \in Nat /\ made[k] =< box
    BY <1>a, BoundsAssumption DEF TypeInv, TypeOK, Boxes, Lineage
  <2>3. \A k \in Keys : made'[k] # box'
    BY <1>b, <2>1, <2>2
  <2>4. KeysInHand'
    BY <1>a, <1>b, <2>1 DEF KeysInHand
  <2>5. KeysFollowCommands'
    BY <1>a, <1>b, <2>1, <2>3 DEF KeysFollowCommands
  <2> QED BY <1>c, <2>4, <2>5
<1> QED BY <1>1, <1>2, <1>3, <1>4 DEF Boot

(* So every step keeps the keys and what was told together. *)
LEMMA StepKeepsKeys ==
  ASSUME "tick" \notin Faults
  PROVE  KeysInv /\ [Next]_vars => KeysInv'
<1> SUFFICES ASSUME KeysInv, [Next]_vars
             PROVE  KeysInHand' /\ KeysFollowCommands' /\ \A k \in Keys : told'[k] # "nothing" => made'[k] # 0
  <2>1. KeysInv /\ [Next]_vars => OwnInv' /\ LockHolds'
    BY StepKeepsOwn, StepKeepsLock DEF KeysInv, OwnInv
  <2> QED BY <2>1 DEF KeysInv
<1>1. ASSUME NEW r \in Requests, Request(r)
      PROVE  UNCHANGED <<box, cli, keys, made, told, cache>>
  BY <1>1 DEF Request, RedeemReads, RedeemWrites, IssueReads, IssueWrites, Answer,
     RequestFails, identityVars
<1>2. CASE VerifyKey
  BY <1>2, OthersKeepKeys DEF VerifyKey, identityVars
<1>3. ASSUME NEW t \in Tokens, TokenExpires(t)
      PROVE  UNCHANGED <<box, cli, keys, made, told, cache>>
  BY <1>3 DEF TokenExpires, identityVars
<1>4. CASE UNCHANGED vars
  BY <1>4, OthersKeepKeys DEF vars
<1> QED BY <1>1, <1>2, <1>3, <1>4, BootKeepsKeys, CommandKeepsKeys, OthersKeepKeys DEF Next

(* It holds at first. *)
LEMMA InitKeys == Init => KeysInv
<1> SUFFICES ASSUME Init PROVE KeysInv
  OBVIOUS
<1>1. OwnInv
  BY InitOwn
<1>2. LockHolds
  BY DEF Init, LockHolds, Holds, NoCommand, CommandAt
<1>3. KeysInHand
  BY DEF Init, KeysInHand, NoCommand, CommandAt
<1>4. KeysFollowCommands
  BY DEF Init, KeysFollowCommands, NoCache
<1> QED BY <1>1, <1>2, <1>3, <1>4 DEF Init, KeysInv

(* Any number of commands making and revoking keys side by side, each cut short
   wherever, none undoes what another reported; and the server takes no store
   for the present one that is not, where saves do not share a time. *)
THEOREM KeysFollowCommandsCorrect ==
  ASSUME "tick" \notin Faults
  PROVE  Spec => []KeysFollowCommands
<1>1. KeysInv => KeysFollowCommands
  BY DEF KeysInv
<1> QED BY <1>1, InitKeys, StepKeepsKeys, PTL DEF Spec

-----------------------------------------------------------------------------
(* Certificates, where the server stays out of a command's way *)

NoOverlap == "overlap" \notin Faults

(* While somebody is between the read and the write of a file, nobody else is. *)
ServerWaits ==
  \A file \in {"tokens", "records"}, r \in Requests :
    Issuing(r, file) =>
      /\ \A c \in Commands : ~Holds(c, file)
      /\ \A q \in Requests : Issuing(q, file) => q = r

(* What a command or a request of one moves leaves who holds what as it was. *)
LEMMA StepKeepsWaits ==
  ASSUME NoOverlap
  PROVE  TypeInv /\ ServerWaits /\ [Next]_vars => ServerWaits'
<1> SUFFICES ASSUME TypeInv, ServerWaits, [Next]_vars PROVE ServerWaits'
  OBVIOUS
<1> USE DEF Issuing
<1>1. ASSUME NEW c \in Commands, Command(c)
      PROVE  ServerWaits'
  <2>1. req' = req
    BY <1>1 DEF Command, StartCommand, LoadKeys, LoadTokens, MarkRevoked, SaveKeys, SaveTokens,
         WriteRevocationList, SaveRecords, Report, CommandEnds
  <2>2. ASSUME NEW w \in Work, StartCommand(c, w), Begins(c, w)
        PROVE  ServerWaits'
    <3>1. cli[c].at = "idle" /\ \A r \in Requests : ~Issuing(r, FileOf(w))
      BY <2>2 DEF StartCommand, Lock, ServerIsOut, NoOverlap
    <3>2. \A d \in Commands, file \in {"keys", "tokens", "records"} :
            Holds(d, file)' <=> Holds(d, file) \/ (d = c /\ file = FileOf(w))
      BY <2>2, <3>1, BeginningHolds
    <3> QED BY <2>1, <3>1, <3>2 DEF ServerWaits
  <2>3. ASSUME cli[c].at # "idle", NEW place \in {"loaded", "half", "saved"}, NEW ks, NEW ts, NEW rs,
               Advances(c, place, ks, ts, rs)
        PROVE  ServerWaits'
    <3>1. \A d \in Commands, file \in {"keys", "tokens", "records"} : Holds(d, file)' <=> Holds(d, file)
      BY <2>3, MovingHolds
    <3> QED BY <2>1, <3>1 DEF ServerWaits
  <2>4. CASE Leaves(c)
    <3>1. \A d \in Commands, file \in {"keys", "tokens", "records"} : Holds(d, file)' => Holds(d, file)
      BY <2>4, LeavingHolds
    <3> QED BY <2>1, <3>1 DEF ServerWaits
  <2> QED BY <1>1, <2>2, <2>3, <2>4, CommandMovesOrLeaves
<1>2. ASSUME NEW r \in Requests, Request(r)
      PROVE  ServerWaits'
  <2>1. cli' = cli
    BY <1>2 DEF Request, RedeemReads, RedeemWrites, IssueReads, IssueWrites, Answer,
       RequestFails
  <2>2. \A d \in Commands, file \in {"keys", "tokens", "records"} : Holds(d, file)' <=> Holds(d, file)
    BY <2>1 DEF Holds
  <2>3. ASSUME NEW t \in Tokens, RedeemReads(r, t)
        PROVE  ServerWaits'
    <3>1. Turns(r, "redeeming", t, tokens \ expired, {}, 0)
      BY <2>3, RedeemReadsTurns
    <3>2. (\A q \in Requests : req[q].at # "redeeming") /\ \A c \in Commands : ~Holds(c, "tokens")
      BY <2>3 DEF RedeemReads, ServerIsOut, CommandsAreOut, LockIsFree, NoOverlap
    <3> QED BY <2>2, <3>1, <3>2 DEF Turns, ServerWaits
  <2>4. CASE IssueReads(r)
    <3>1. Turns(r, "issuing", req[r].token, req[r].tokens, records, req[r].ca)
      BY <2>4, IssueReadsTurns
    <3>2. (\A q \in Requests : req[q].at # "issuing") /\ \A c \in Commands : ~Holds(c, "records")
      BY <2>4 DEF IssueReads, ServerIsOut, CommandsAreOut, LockIsFree, NoOverlap
    <3> QED BY <2>2, <3>1, <3>2 DEF Turns, ServerWaits
  <2>5. CASE RedeemWrites(r) \/ IssueWrites(r) \/ Answer(r) \/ RequestFails(r)
    <3>1. req'[r].at \in {"idle", "redeemed", "issued"} /\ \A q \in Requests : q # r => req'[q] = req[q]
      <4>1. CASE RedeemWrites(r)
        BY <4>1, RedeemWritesTurns DEF Turns, Drops, NoRequest, RequestAt
      <4>2. CASE IssueWrites(r)
        BY <4>2, IssueWritesTurns DEF Turns
      <4>3. CASE Answer(r) \/ RequestFails(r)
        BY <4>3, DropsAtItsEnd DEF Drops, NoRequest, RequestAt
      <4> QED BY <2>5, <4>1, <4>2, <4>3
    <3> QED BY <2>2, <3>1 DEF ServerWaits
  <2> QED BY <1>2, <2>3, <2>4, <2>5 DEF Request
<1>3. CASE Boot
  <2>1. \/ cli' = cli /\ req' = req
        \/ cli' = [c \in Commands |-> NoCommand] /\ req' = [r \in Requests |-> NoRequest]
    BY <1>3 DEF Boot, ApplyIdentity, Rotate, RecordIdentity, PrepareAuthority, Stop, CopyDisk
  <2> QED BY <2>1 DEF ServerWaits, Holds, NoRequest, RequestAt
<1>4. CASE UNCHANGED <<cli, req>>
  BY <1>4 DEF ServerWaits, Holds
<1> QED BY <1>1, <1>2, <1>3, <1>4 DEF Next, VerifyKey, TokenExpires, vars

(* Serials tell records apart. *)
SerialsDiffer == \A p, q \in records : p.serial = q.serial => p = q

OnRecord(serial, token) == \E q \in records : q.serial = serial /\ q.token = token

(* A revocation has the records it will write, one more of them marked; then
   the list has them, then the disk. *)
RevocationsInHand ==
  \A c \in Commands :
    cli[c].at # "idle" /\ cli[c].work.verb = "revoke" =>
      /\ cli[c].at \in {"loaded", "half"} => cli[c].records \in Marked(records, cli[c].work.arg)
      /\ cli[c].at = "half" => krl = Listed(cli[c].records)
      /\ cli[c].at = "saved" => cli[c].work.arg \in Listed(records)

CertificatesInHand ==
  \A r \in Requests :
    /\ req[r].at = "issuing" => req[r].records = records
    /\ req[r].at = "issued" =>
         req[r].ca = box /\ \A p \in req[r].records : OnRecord(p.serial, p.token)

(* Every certificate of this box's authority is on record, and every revocation
   reported under it is listed and refused. *)
Accounted ==
  /\ recorded = box => Listed(records) \subseteq krl
  /\ boot = "up" => ca = box
  /\ \A s \in Serials, b \in Boxes : <<s, b>> \in refused =>
       b =< box /\ (b = box => recorded = box /\ s \in Listed(records))
  /\ \A d \in delivered :
       d.ca =< box /\ (d.ca = box => recorded = box /\ OnRecord(d.serial, d.token))

RevocationInv ==
  /\ OwnInv /\ LockHolds /\ ServerWaits
  /\ SerialsDiffer /\ RevocationsInHand /\ CertificatesInHand /\ Accounted

(* Marking a record revoked lists its serial, unlists none, and leaves serials
   and tokens as they are. *)
LEMMA MarkedLists ==
  ASSUME NEW rs \in SUBSET Records, NEW s \in Serials, NEW marked \in Marked(rs, s)
  PROVE  /\ marked \in SUBSET Records
         /\ s \in Listed(marked) /\ Listed(rs) \subseteq Listed(marked)
         /\ \A p \in rs : \E q \in marked : q.serial = p.serial /\ q.token = p.token
         /\ (\A p, q \in rs : p.serial = q.serial => p = q) =>
              \A p, q \in marked : p.serial = q.serial => p = q
<1>1. PICK p \in rs : p.serial = s /\ ~p.revoked /\ marked = (rs \ {p}) \cup {[p EXCEPT !.revoked = TRUE]}
  BY DEF Marked
<1> DEFINE new == [p EXCEPT !.revoked = TRUE]
<1>2. new \in Records /\ new.serial = p.serial /\ new.token = p.token /\ new.revoked
  BY <1>1 DEF Records
<1>3. marked = (rs \ {p}) \cup {new}
  BY <1>1
<1> HIDE DEF new
<1>4. marked \in SUBSET Records
  BY <1>2, <1>3
<1>5. s \in Listed(marked)
  BY <1>1, <1>2, <1>3 DEF Listed
<1>6. Listed(rs) \subseteq Listed(marked)
  BY <1>1, <1>2, <1>3 DEF Listed
<1>7. \A q \in rs : \E m \in marked : m.serial = q.serial /\ m.token = q.token
  BY <1>1, <1>2, <1>3
<1>8. (\A q, m \in rs : q.serial = m.serial => q = m) =>
        \A q, m \in marked : q.serial = m.serial => q = m
  BY <1>1, <1>2, <1>3
<1> QED BY <1>4, <1>5, <1>6, <1>7, <1>8

(* What is accounted for stays so while records only gain and the list has
   them. *)
LEMMA AccountedStays ==
  ASSUME Accounted, UNCHANGED <<box, recorded>>, boot' = "up" => ca' = box,
         Listed(records) \subseteq Listed(records'),
         \A s, t : OnRecord(s, t) => OnRecord(s, t)',
         recorded = box => Listed(records') \subseteq krl',
         \A x \in refused' : x \in refused \/ (x[2] = box /\ recorded = box /\ x[1] \in Listed(records')),
         \A d \in delivered' : d \in delivered \/ (d.ca = box /\ recorded = box /\ OnRecord(d.serial, d.token)'),
         box \in Nat
  PROVE  Accounted'
<1>1. (recorded = box => Listed(records) \subseteq krl)' /\ (boot = "up" => ca = box)'
  BY DEF Accounted
<1>2. ASSUME NEW s \in Serials, NEW b \in Boxes, <<s, b>> \in refused'
      PROVE  b =< box /\ (b = box => recorded = box /\ s \in Listed(records'))
  BY <1>2 DEF Accounted
<1>3. ASSUME NEW d \in delivered'
      PROVE  d.ca =< box /\ (d.ca = box => recorded = box /\ OnRecord(d.serial, d.token)')
  BY <1>3 DEF Accounted
<1> QED BY <1>1, <1>2, <1>3 DEF Accounted

(* Commands keep certificates on record and revocations listed: but one about
   the records leaves them alone, and that one lists before it saves; *)
LEMMA CommandKeepsRevocations ==
  ASSUME RevocationInv, NEW c \in Commands, Command(c)
  PROVE  SerialsDiffer' /\ RevocationsInHand' /\ CertificatesInHand' /\ Accounted'
<1>a. /\ TypeInv /\ OwnInv /\ LockHolds /\ ServerWaits
      /\ SerialsDiffer /\ RevocationsInHand /\ CertificatesInHand /\ Accounted
  BY DEF RevocationInv, OwnInv
<1>b. Serving /\ recorded = box /\ ca \in {0, box} /\ box \in Nat
  <2>1. cli[c].at = "idle" => Serving
    BY DEF Command, StartCommand, LoadKeys, LoadTokens, MarkRevoked, SaveKeys, SaveTokens,
           WriteRevocationList, SaveRecords, Comes, Report, CommandEnds
  <2>2. Serving
    BY <1>a, <2>1, BusyServes
  <2> QED BY <1>a, <2>2, BoundsAssumption DEF OwnInv, Lineage, DiskIsOwn, TypeInv, TypeOK, Boxes
<1>c. UNCHANGED <<box, boot, recorded, ca, req, delivered>>
  BY DEF Command, StartCommand, LoadKeys, LoadTokens, MarkRevoked, SaveKeys, SaveTokens,
         WriteRevocationList, SaveRecords, Report, CommandEnds, identityVars
<1>d. boot' = "up" => ca' = box
  BY <1>a, <1>c DEF Accounted
<1>e. \A d \in Commands : cli[d].at # "idle" /\ cli[d].work.verb = "revoke" => Holds(d, "records") /\ cli[d].work.arg \in Serials
  BY <1>a, WorkHasItsArgument DEF TypeInv, Processes, Holds
<1>f. records \in SUBSET Records
  BY <1>a DEF TypeInv, TypeOK
<1>g. ASSUME UNCHANGED <<records, krl, refused>>
      PROVE  SerialsDiffer' /\ CertificatesInHand' /\ Accounted'
  <2>1. SerialsDiffer' /\ CertificatesInHand' /\ \A s, t : OnRecord(s, t) => OnRecord(s, t)'
    BY <1>a, <1>c, <1>g DEF SerialsDiffer, CertificatesInHand, OnRecord
  <2>2. Listed(records) \subseteq Listed(records') /\ (recorded = box => Listed(records') \subseteq krl')
    BY <1>a, <1>g DEF Accounted
  <2>3. Accounted'
    BY <1>a, <1>b, <1>c, <1>d, <1>g, <2>1, <2>2, AccountedStays
  <2> QED BY <2>1, <2>3
<1>h. ASSUME UNCHANGED <<records, krl>>, \A d \in Commands : d # c => cli'[d] = cli[d],
             cli'[c].at \in {"idle", "locked"} \/ cli'[c].work.verb # "revoke"
      PROVE  RevocationsInHand'
  BY <1>a, <1>h DEF RevocationsInHand
<1>i. ASSUME cli[c].at # "idle", cli[c].work.verb = "revoke", NEW d \in Commands, d # c, cli[d].at # "idle"
      PROVE  cli[d].work.verb # "revoke"
  BY <1>a, <1>e, <1>i DEF LockHolds
<1>1. ASSUME NEW w \in Work, StartCommand(c, w)
      PROVE  SerialsDiffer' /\ RevocationsInHand' /\ CertificatesInHand' /\ Accounted'
  <2>1. UNCHANGED <<records, krl, refused>> /\ Begins(c, w)
    BY <1>1, <1>a, StartCommandBegins DEF StartCommand
  <2> QED BY <1>g, <1>h, <2>1 DEF Begins
<1>2. CASE LoadKeys(c) \/ LoadTokens(c) \/ SaveKeys(c) \/ SaveTokens(c)
  <2>1. UNCHANGED <<records, krl, refused>> /\ cli[c].at # "idle"
    BY <1>2 DEF LoadKeys, LoadTokens, SaveKeys, SaveTokens
  <2>2. cli[c].work.verb # "revoke"
    BY <1>2 DEF LoadKeys, LoadTokens, SaveKeys, SaveTokens, FileOf
  <2>3. cli'[c].work = cli[c].work /\ \A d \in Commands : d # c => cli'[d] = cli[d]
    <3>1. CASE LoadKeys(c)
      BY <3>1, <1>a, LoadKeysMoves DEF Advances
    <3>2. CASE LoadTokens(c)
      BY <3>2, <1>a, LoadTokensMoves DEF Advances
    <3>3. CASE SaveKeys(c) \/ SaveTokens(c)
      <4>1. Goes(c, "saved")
        BY <3>3 DEF SaveKeys, SaveTokens
      <4> QED BY <1>a, <4>1, GoesMoves DEF Advances
    <3> QED BY <1>2, <3>1, <3>2, <3>3
  <2> QED BY <1>g, <1>h, <2>1, <2>2, <2>3
<1>3. CASE MarkRevoked(c)
  <2>1. UNCHANGED <<records, krl, refused>> /\ cli[c].at # "idle" /\ cli[c].work.verb = "revoke"
    BY <1>3 DEF MarkRevoked
  <2>2. PICK marked \in Marked(records, cli[c].work.arg) :
          Advances(c, "loaded", cli[c].keys, cli[c].tokens, marked)
    BY <1>3, <1>a, MarkRevokedMoves
  <2>3. cli'[c].at = "loaded" /\ cli'[c].records \in Marked(records, cli'[c].work.arg)
    BY <2>2 DEF Advances
  <2>4. \A d \in Commands : d # c => cli'[d] = cli[d] /\ (cli[d].at = "idle" \/ cli[d].work.verb # "revoke")
    BY <1>i, <2>1, <2>2 DEF Advances
  <2>5. RevocationsInHand'
    BY <2>1, <2>3, <2>4 DEF RevocationsInHand
  <2> QED BY <1>g, <2>1, <2>5
<1>4. CASE WriteRevocationList(c)
  <2>1. /\ UNCHANGED <<records, refused>> /\ krl' = Listed(cli[c].records)
        /\ cli[c].at = "loaded" /\ cli[c].work.verb = "revoke" /\ Goes(c, "half")
    BY <1>4, ListComesFirst DEF WriteRevocationList, After
  <2>2. cli[c].records \in Marked(records, cli[c].work.arg)
    BY <1>a, <2>1 DEF RevocationsInHand
  <2>3. Listed(records) \subseteq krl'
    BY <1>e, <1>f, <2>1, <2>2, MarkedLists
  <2>4. Advances(c, "half", cli[c].keys, cli[c].tokens, cli[c].records)
    BY <1>a, <2>1, GoesMoves
  <2>5. \A d \in Commands : d # c => cli'[d] = cli[d] /\ (cli[d].at = "idle" \/ cli[d].work.verb # "revoke")
    BY <1>i, <2>1, <2>4 DEF Advances
  <2>6. cli'[c].at = "half" /\ cli'[c].work = cli[c].work /\ cli'[c].records = cli[c].records
    BY <2>4 DEF Advances
  <2>7. RevocationsInHand'
    BY <2>1, <2>2, <2>5, <2>6 DEF RevocationsInHand
  <2>8. SerialsDiffer' /\ CertificatesInHand' /\ \A s, t : OnRecord(s, t) => OnRecord(s, t)'
    BY <1>a, <1>c, <2>1 DEF SerialsDiffer, CertificatesInHand, OnRecord
  <2>9. Accounted'
    BY <1>a, <1>b, <1>c, <1>d, <2>1, <2>3, <2>8, AccountedStays
  <2> QED BY <2>7, <2>8, <2>9
<1>5. CASE SaveRecords(c)
  <2>1. /\ UNCHANGED <<krl, refused>> /\ records' = cli[c].records
        /\ cli[c].at = "half" /\ cli[c].work.verb = "revoke" /\ Goes(c, "saved")
    BY <1>5, ListComesFirst DEF SaveRecords, After
  <2>2. cli[c].records \in Marked(records, cli[c].work.arg) /\ krl = Listed(cli[c].records)
    BY <1>a, <2>1 DEF RevocationsInHand
  <2>3. /\ cli[c].work.arg \in Listed(records') /\ Listed(records) \subseteq Listed(records')
        /\ \A p \in records : \E q \in records' : q.serial = p.serial /\ q.token = p.token
        /\ SerialsDiffer'
    BY <1>a, <1>e, <1>f, <2>1, <2>2, MarkedLists DEF SerialsDiffer
  <2>4. \A s, t : OnRecord(s, t) => OnRecord(s, t)'
    BY <2>3 DEF OnRecord
  <2>5. Advances(c, "saved", cli[c].keys, cli[c].tokens, cli[c].records)
    BY <1>a, <2>1, GoesMoves
  <2>6. \A d \in Commands : d # c => cli'[d] = cli[d] /\ (cli[d].at = "idle" \/ cli[d].work.verb # "revoke")
    BY <1>i, <2>1, <2>5 DEF Advances
  <2>7. cli'[c].at = "saved" /\ cli'[c].work = cli[c].work
    BY <2>5 DEF Advances
  <2>8. RevocationsInHand'
    BY <2>3, <2>6, <2>7 DEF RevocationsInHand
  <2>9. \A r \in Requests : req[r].at # "issuing"
    BY <1>a, <1>e, <2>1 DEF ServerWaits, Issuing
  <2>10. CertificatesInHand'
    BY <1>a, <1>c, <2>4, <2>9 DEF CertificatesInHand
  <2>11. Accounted'
    BY <1>a, <1>b, <1>c, <1>d, <2>1, <2>2, <2>3, <2>4, AccountedStays
  <2> QED BY <2>3, <2>8, <2>10, <2>11
<1>6. CASE Report(c)
  <2>1. UNCHANGED <<records, krl>> /\ cli[c].at = "saved"
    BY <1>6 DEF Report
  <2>2. Leaves(c)
    BY <1>6, <1>a, LeavesAtItsEnd
  <2>3. cli'[c].at = "idle"
    BY <2>2 DEF Leaves, NoCommand, CommandAt
  <2>4. RevocationsInHand'
    BY <1>h, <2>1, <2>2, <2>3 DEF Leaves
  <2>5. SerialsDiffer' /\ CertificatesInHand' /\ \A s, t : OnRecord(s, t) => OnRecord(s, t)'
    BY <1>a, <1>c, <2>1 DEF SerialsDiffer, CertificatesInHand, OnRecord
  <2>6. cli[c].work.verb = "revoke" => cli[c].work.arg \in Listed(records) /\ ca = box
    BY <1>a, <1>b, <2>1 DEF RevocationsInHand, TypeInv, Processes
  <2>7. \A x \in refused' : x \in refused \/ (x[2] = box /\ recorded = box /\ x[1] \in Listed(records'))
    BY <1>6, <1>b, <2>1, <2>6 DEF Report
  <2>8. Listed(records) \subseteq Listed(records') /\ (recorded = box => Listed(records') \subseteq krl')
    BY <1>a, <2>1 DEF Accounted
  <2>9. Accounted'
    BY <1>a, <1>b, <1>c, <1>d, <2>1, <2>5, <2>7, <2>8, AccountedStays
  <2> QED BY <2>4, <2>5, <2>9
<1>7. CASE CommandEnds(c)
  <2>1. UNCHANGED <<records, krl, refused>>
    BY <1>7 DEF CommandEnds
  <2>2. Leaves(c)
    BY <1>7, <1>a, LeavesAtItsEnd
  <2>3. cli'[c].at = "idle" /\ \A d \in Commands : d # c => cli'[d] = cli[d]
    BY <2>2 DEF Leaves, NoCommand, CommandAt
  <2> QED BY <1>g, <1>h, <2>1, <2>3
<1> QED BY <1>1, <1>2, <1>3, <1>4, <1>5, <1>6, <1>7 DEF Command

(* so do requests, *)
LEMMA RequestKeepsRevocations ==
  ASSUME RevocationInv, NEW r \in Requests, Request(r)
  PROVE  SerialsDiffer' /\ RevocationsInHand' /\ CertificatesInHand' /\ Accounted'
<1>a. /\ TypeInv /\ OwnInv /\ ServerWaits
      /\ SerialsDiffer /\ RevocationsInHand /\ CertificatesInHand /\ Accounted
  BY DEF RevocationInv, OwnInv
<1>b. Serving /\ recorded = box /\ ca \in {0, box} /\ box \in Nat
  <2>1. req[r].at = "idle" => Serving
    BY DEF Request, RedeemReads, RedeemWrites, IssueReads, IssueWrites, Answer, RequestFails
  <2>2. Serving
    BY <1>a, <2>1, PendingServes
  <2> QED BY <1>a, <2>2, BoundsAssumption DEF OwnInv, Lineage, DiskIsOwn, TypeInv, TypeOK, Boxes
<1>c. UNCHANGED <<box, boot, recorded, ca, cli, krl, refused>>
  BY DEF Request, RedeemReads, RedeemWrites, IssueReads, IssueWrites, Answer, RequestFails,
     identityVars
<1>d. boot' = "up" => ca' = box
  BY <1>a, <1>c DEF Accounted
<1>e. records \in SUBSET Records
  BY <1>a DEF TypeInv, TypeOK
<1>f. ASSUME UNCHANGED records
      PROVE  /\ SerialsDiffer' /\ RevocationsInHand' /\ Listed(records) \subseteq Listed(records')
             /\ \A s, t : OnRecord(s, t) => OnRecord(s, t)'
  BY <1>a, <1>c, <1>f DEF SerialsDiffer, RevocationsInHand, OnRecord
<1>g. ASSUME UNCHANGED records,
             \A d \in delivered' : d \in delivered \/ (d.ca = box /\ recorded = box /\ OnRecord(d.serial, d.token)')
      PROVE  Accounted'
  <2>1. recorded = box => Listed(records') \subseteq krl'
    BY <1>a, <1>c, <1>g DEF Accounted
  <2> QED BY <1>a, <1>b, <1>c, <1>d, <1>f, <1>g, <2>1, AccountedStays
<1>h. ASSUME UNCHANGED records, \A q \in Requests : q # r => req'[q] = req[q],
             req'[r].at \in {"idle", "redeeming", "redeemed"}
      PROVE  CertificatesInHand'
  BY <1>a, <1>c, <1>h DEF CertificatesInHand, OnRecord
<1>1. CASE (\E t \in Tokens : RedeemReads(r, t)) \/ RedeemWrites(r) \/ RequestFails(r)
  <2>1. UNCHANGED <<records, delivered>>
    BY <1>1 DEF RedeemReads, RedeemWrites, RequestFails
  <2>2. req'[r].at \in {"idle", "redeeming", "redeemed"} /\ \A q \in Requests : q # r => req'[q] = req[q]
    <3>1. ASSUME NEW t \in Tokens, RedeemReads(r, t)
          PROVE  req'[r].at = "redeeming" /\ \A q \in Requests : q # r => req'[q] = req[q]
      BY <3>1, <1>a, RedeemReadsTurns DEF Turns
    <3>2. CASE RedeemWrites(r)
      BY <3>2, <1>a, RedeemWritesTurns DEF Turns, Drops, NoRequest, RequestAt
    <3>3. CASE RequestFails(r)
      BY <3>3, <1>a, DropsAtItsEnd DEF Drops, NoRequest, RequestAt
    <3> QED BY <1>1, <3>1, <3>2, <3>3
  <2>3. Accounted'
    BY <1>g, <2>1
  <2> QED BY <1>f, <1>h, <2>1, <2>2, <2>3
<1>2. CASE IssueReads(r)
  <2>1. UNCHANGED <<records, delivered>>
    BY <1>2 DEF IssueReads
  <2>2. Turns(r, "issuing", req[r].token, req[r].tokens, records, req[r].ca)
    BY <1>2, <1>a, IssueReadsTurns
  <2>3. CertificatesInHand'
    BY <1>a, <1>c, <2>1, <2>2 DEF Turns, CertificatesInHand, OnRecord
  <2>4. Accounted'
    BY <1>g, <2>1
  <2> QED BY <1>f, <2>1, <2>3, <2>4
<1>3. CASE IssueWrites(r)
  <2>1. req[r].at = "issuing" /\ ca = box /\ UNCHANGED delivered
    BY <1>3, <1>b DEF IssueWrites
  <2>2. req[r].records = records /\ (\A c \in Commands : ~Holds(c, "records"))
        /\ \A q \in Requests : req[q].at = "issuing" => q = r
    BY <1>a, <2>1 DEF CertificatesInHand, ServerWaits, Issuing
  <2>3. PICK serial \in Serials :
          /\ IsNextSerial(req[r].records, serial)
          /\ NewRecord(r, serial) \in Records
          /\ records' = req[r].records \cup {NewRecord(r, serial)}
          /\ Turns(r, "issued", req[r].token, req[r].tokens, {NewRecord(r, serial)}, ca)
    BY <1>3, <1>a, IssueWritesTurns
  <2> DEFINE new == NewRecord(r, serial)
  <2>4. new.serial = serial /\ ~new.revoked /\ records' = records \cup {new}
    BY <2>2, <2>3 DEF NewRecord
  <2>5. \A p \in records : p.serial < serial /\ p.serial \in Int
    BY <1>e, <2>2, <2>3 DEF IsNextSerial, Records, Serials
  <2> HIDE DEF new
  <2>6. SerialsDiffer'
    <3>1. serial \in Int
      BY DEF Serials
    <3>2. \A p \in records : p.serial # new.serial
      BY <2>4, <2>5, <3>1
    <3> QED BY <1>a, <2>4, <3>2 DEF SerialsDiffer
  <2>7. Listed(records') = Listed(records)
    BY <2>4 DEF Listed
  <2>8. \A s, t : OnRecord(s, t) => OnRecord(s, t)'
    BY <2>4 DEF OnRecord
  <2>9. RevocationsInHand'
    <3>1. ASSUME NEW c \in Commands, cli[c].at # "idle" PROVE cli[c].work.verb # "revoke"
      BY <2>2, <3>1 DEF Holds, FileOf
    <3> QED BY <1>c, <3>1 DEF RevocationsInHand
  <2>10. CertificatesInHand'
    <3>1. req'[r].at = "issued" /\ req'[r].ca = box /\ req'[r].records = {new}
      BY <2>1, <2>3 DEF Turns, new
    <3>2. \A p \in {new} : OnRecord(p.serial, p.token)'
      BY <2>4 DEF OnRecord
    <3>3. \A q \in Requests : q # r => req'[q] = req[q] /\ req[q].at # "issuing"
      BY <2>2, <2>3 DEF Turns
    <3> QED BY <1>a, <1>c, <2>8, <3>1, <3>2, <3>3 DEF CertificatesInHand
  <2>11. recorded = box => Listed(records') \subseteq krl'
    BY <1>a, <1>c, <2>7 DEF Accounted
  <2>12. Accounted'
    BY <1>a, <1>b, <1>c, <1>d, <2>1, <2>7, <2>8, <2>11, AccountedStays
  <2> QED BY <2>6, <2>9, <2>10, <2>12
<1>4. CASE Answer(r)
  <2>1. /\ UNCHANGED records /\ req[r].at = "issued"
        /\ delivered' = delivered \cup
             {[serial |-> rec.serial, token |-> rec.token, ca |-> req[r].ca] : rec \in req[r].records}
    BY <1>4 DEF Answer
  <2>2. Drops(r)
    BY <1>4, <1>a, DropsAtItsEnd
  <2>3. CertificatesInHand'
    BY <1>h, <2>1, <2>2 DEF Drops, NoRequest, RequestAt
  <2>4. req[r].ca = box /\ \A p \in req[r].records : OnRecord(p.serial, p.token)
    BY <1>a, <2>1 DEF CertificatesInHand
  <2>5. \A d \in delivered' : d \in delivered \/ (d.ca = box /\ OnRecord(d.serial, d.token))
    BY <2>1, <2>4
  <2>6. \A s, t : OnRecord(s, t) => OnRecord(s, t)'
    BY <1>f, <2>1
  <2>7. Accounted'
    BY <1>b, <1>g, <2>1, <2>5, <2>6
  <2> QED BY <1>f, <2>1, <2>3, <2>7
<1> QED BY <1>1, <1>2, <1>3, <1>4 DEF Request

(* and so does the boot, which takes another box's records, or none, away. *)
LEMMA BootKeepsRevocations ==
  ASSUME RevocationInv, Boot
  PROVE  SerialsDiffer' /\ RevocationsInHand' /\ CertificatesInHand' /\ Accounted'
<1>a. /\ TypeInv /\ OwnInv /\ Lineage /\ DiskIsOwn
      /\ SerialsDiffer /\ RevocationsInHand /\ CertificatesInHand /\ Accounted
  BY DEF RevocationInv, OwnInv
<1>b. box \in Nat /\ box # 0 /\ recorded \in Nat
  BY <1>a, BoundsAssumption DEF TypeInv, TypeOK, Boxes
<1>c. UNCHANGED <<refused, delivered>> /\ records' \subseteq records
  BY DEF Boot, ApplyIdentity, Rotate, RecordIdentity, PrepareAuthority, Stop, CopyDisk
<1>d. SerialsDiffer'
  BY <1>a, <1>c DEF SerialsDiffer
<1>e. ~Serving => (\A c \in Commands : cli[c].at = "idle") /\ \A r \in Requests : req[r].at = "idle"
  BY <1>a DEF TypeInv, Processes, NoCommand, CommandAt, NoRequest, RequestAt
<1>f. ASSUME \A c \in Commands : cli'[c].at = "idle", \A r \in Requests : req'[r].at = "idle"
      PROVE  RevocationsInHand' /\ CertificatesInHand'
  BY <1>f DEF RevocationsInHand, CertificatesInHand
<1>g. ASSUME UNCHANGED <<box, recorded, records, krl>>, boot' = "up" => ca' = box
      PROVE  Accounted'
  <2>1. Listed(records) \subseteq Listed(records') /\ \A s, t : OnRecord(s, t) => OnRecord(s, t)'
    BY <1>g DEF OnRecord
  <2>2. recorded = box => Listed(records') \subseteq krl'
    BY <1>a, <1>g DEF Accounted
  <2> QED BY <1>a, <1>b, <1>c, <1>g, <2>1, <2>2, AccountedStays
<1>h. ASSUME recorded # box, boot' # "up", box' >= box, box' \in Nat,
             recorded' = box' => Listed(records') \subseteq krl'
      PROVE  Accounted'
  <2>1. \A s \in Serials, b \in Boxes : <<s, b>> \in refused => b \in Nat /\ b < box
    BY <1>a, <1>b, <1>h, BoundsAssumption DEF Accounted, Boxes
  <2>2. \A d \in delivered : d.ca \in Nat /\ d.ca < box
    BY <1>a, <1>b, <1>h DEF Accounted, TypeInv, TypeOK, Certificates, Boxes
  <2> QED BY <1>b, <1>c, <1>h, <2>1, <2>2 DEF Accounted
<1>1. CASE ApplyIdentity
  <2>1. UNCHANGED <<box, recorded, records, krl, cli, req>> /\ boot' # "up" /\ ~Serving
    BY <1>1 DEF ApplyIdentity, RecordOnSight, Serving
  <2> QED BY <1>d, <1>e, <1>f, <1>g, <2>1
<1>2. CASE Rotate
  <2>1. boot \in Rotating /\ ~Serving /\ UNCHANGED <<box, recorded, cli, req>> /\ boot' # "up"
    BY <1>2 DEF Rotate, Rotating, Serving
  <2>2. recorded # box
    BY <1>a, <2>1 DEF Lineage
  <2> QED BY <1>b, <1>d, <1>e, <1>f, <1>h, <2>1, <2>2
<1>3. CASE RecordIdentity
  <2>1. /\ UNCHANGED <<box, records, krl, cli, req>> /\ ~Serving /\ boot' # "up"
        /\ \/ boot = "record" /\ recorded' = 0
           \/ boot = "truncated" /\ recorded' = box
    BY <1>3 DEF RecordIdentity, Serving
  <2>2. recorded # box
    BY <1>a, <1>b, <2>1 DEF Lineage, Rotating
  <2>3. boot = "truncated" => records = {}
    BY <1>a DEF Lineage, DiskIsOwn
  <2>4. recorded' = box' => Listed(records') \subseteq krl'
    BY <1>b, <2>1, <2>3 DEF Listed
  <2> QED BY <1>b, <1>d, <1>e, <1>f, <1>h, <2>1, <2>2, <2>4
<1>4. CASE PrepareAuthority
  <2>1. UNCHANGED <<box, recorded, records, krl, cli, req>> /\ Serving /\ ca' = IF ca = 0 THEN box ELSE ca
    BY <1>4 DEF PrepareAuthority, Serving
  <2>2. ca \in {0, box}
    BY <1>a, <2>1 DEF Lineage, DiskIsOwn
  <2>3. Accounted'
    BY <1>g, <2>1, <2>2
  <2>4. RevocationsInHand' /\ CertificatesInHand'
    BY <1>a, <2>1 DEF RevocationsInHand, CertificatesInHand, OnRecord
  <2> QED BY <1>d, <2>3, <2>4
<1>5. CASE Stop
  <2>1. /\ UNCHANGED <<box, recorded, records, krl>> /\ boot' = "down"
        /\ \A c \in Commands : cli'[c].at = "idle"
        /\ \A r \in Requests : req'[r].at = "idle"
    BY <1>5 DEF Stop, NoCommand, CommandAt, NoRequest, RequestAt
  <2> QED BY <1>d, <1>f, <1>g, <2>1
<1>6. CASE CopyDisk
  <2>1. UNCHANGED <<recorded, cli, req>> /\ boot' = "down" /\ box' = box + 1 /\ ~Serving
    BY <1>6 DEF CopyDisk, Serving
  <2>2. recorded # box'
    BY <1>a, <1>b, <2>1 DEF Lineage
  <2>3. \A s \in Serials, b \in Boxes : <<s, b>> \in refused => b \in Nat /\ b < box'
    BY <1>a, <1>b, <2>1, BoundsAssumption DEF Accounted, Boxes
  <2>4. \A d \in delivered : d.ca \in Nat /\ d.ca < box'
    BY <1>a, <1>b, <2>1 DEF Accounted, TypeInv, TypeOK, Certificates, Boxes
  <2>5. Accounted'
    BY <1>b, <1>c, <2>1, <2>2, <2>3, <2>4 DEF Accounted
  <2> QED BY <1>d, <1>e, <1>f, <2>1, <2>5
<1> QED BY <1>1, <1>2, <1>3, <1>4, <1>5, <1>6 DEF Boot

(* So every step keeps certificates on record and revocations listed. *)
LEMMA StepKeepsRevocations ==
  ASSUME NoOverlap
  PROVE  RevocationInv /\ [Next]_vars => RevocationInv'
<1> SUFFICES ASSUME RevocationInv, [Next]_vars
             PROVE  SerialsDiffer' /\ RevocationsInHand' /\ CertificatesInHand' /\ Accounted'
  <2>1. RevocationInv /\ [Next]_vars => OwnInv' /\ LockHolds' /\ ServerWaits'
    BY StepKeepsOwn, StepKeepsLock, StepKeepsWaits DEF RevocationInv, OwnInv
  <2> QED BY <2>1 DEF RevocationInv
<1>1. CASE UNCHANGED <<box, boot, recorded, ca, krl, records, cli, req, delivered, refused>>
  BY <1>1 DEF RevocationInv, SerialsDiffer, RevocationsInHand, CertificatesInHand, OnRecord,
     Accounted
<1>2. CASE VerifyKey
  BY <1>1, <1>2 DEF VerifyKey, identityVars
<1>3. ASSUME NEW t \in Tokens, TokenExpires(t)
      PROVE  UNCHANGED <<box, boot, recorded, ca, krl, records, cli, req, delivered, refused>>
  BY <1>3 DEF TokenExpires, identityVars
<1>4. CASE UNCHANGED vars
  BY <1>1, <1>4 DEF vars
<1> QED BY <1>1, <1>2, <1>3, <1>4, BootKeepsRevocations, CommandKeepsRevocations,
        RequestKeepsRevocations DEF Next

(* There are none at first. *)
LEMMA InitRevocations == Init => RevocationInv
<1> SUFFICES ASSUME Init PROVE RevocationInv
  OBVIOUS
<1>1. OwnInv /\ LockHolds
  BY InitOwn, InitKeys DEF KeysInv
<1>2. ServerWaits
  BY DEF Init, ServerWaits, Issuing, NoRequest, RequestAt
<1>3. SerialsDiffer /\ Accounted
  BY DEF Init, SerialsDiffer, Accounted, Listed
<1>4. RevocationsInHand /\ CertificatesInHand
  BY DEF Init, RevocationsInHand, CertificatesInHand, NoCommand, CommandAt, NoRequest, RequestAt
<1> QED BY <1>1, <1>2, <1>3, <1>4 DEF RevocationInv

(* Where the server does not read the records across a command or another
   enrollment, whoever was let in can be shut out: each certificate that sshd's
   authority signed has its own serial and record, sshd refuses what a record
   calls revoked, and all that was reported so. *)
THEOREM RevocationReachesCorrect ==
  ASSUME NoOverlap
  PROVE  Spec => []RevocationReaches
<1>1. RevocationInv => RevocationReaches
  <2> SUFFICES ASSUME RevocationInv, boot = "up" PROVE
        /\ \A d \in delivered : d.ca = ca =>
             /\ \E r \in records : r.serial = d.serial /\ r.token = d.token
             /\ \A e \in delivered : e.ca = ca /\ e.serial = d.serial => e = d
        /\ Listed(records) \subseteq krl
        /\ \A s \in Serials : <<s, ca>> \in refused => s \in krl
    BY DEF RevocationReaches
  <2>1. TypeInv /\ Accounted /\ SerialsDiffer
    BY DEF RevocationInv, OwnInv
  <2>2. ca = box /\ recorded = box /\ Listed(records) \subseteq krl
    BY <2>1 DEF RevocationInv, OwnInv, Lineage, Serving, Accounted
  <2>3. \A d \in delivered : d.ca = ca => OnRecord(d.serial, d.token)
    BY <2>1, <2>2 DEF Accounted
  <2>4. \A d \in delivered : d = [serial |-> d.serial, token |-> d.token, ca |-> d.ca]
    BY <2>1 DEF TypeInv, TypeOK, Certificates
  <2>5. ASSUME NEW d \in delivered, NEW e \in delivered, d.ca = ca, e.ca = ca, e.serial = d.serial
        PROVE  e = d
    <3>1. PICK p \in records : p.serial = d.serial /\ p.token = d.token
      BY <2>3, <2>5 DEF OnRecord
    <3>2. PICK q \in records : q.serial = e.serial /\ q.token = e.token
      BY <2>3, <2>5 DEF OnRecord
    <3>3. e.token = d.token
      BY <2>1, <2>5, <3>1, <3>2 DEF SerialsDiffer
    <3> QED BY <2>4, <2>5, <3>3
  <2>6. \A s \in Serials : <<s, ca>> \in refused => s \in krl
    BY <2>1, <2>2 DEF Accounted, TypeInv, TypeOK
  <2> QED BY <2>2, <2>3, <2>5, <2>6 DEF OnRecord
<1> QED BY <1>1, InitRevocations, StepKeepsRevocations, PTL DEF Spec

-----------------------------------------------------------------------------
(* The password: module Password *)

(* The actions, named for what they touch, so that a leaf opens a few *)
SubmissionSteps(h) ==
  \/ \E g \in Grants : Register(h, g)
  \/ ProveCurrent(h) \/ ChangeCloudPassword(h)
  \/ CallTimesOut(h) \/ CallRefused(h) \/ CallLost(h)
  \/ WriteConfig(h) \/ WriteArgs(h)

(* Every step is one of these, or leaves the variables as they are. *)
LEMMA PasswordSteps ==
  ASSUME [PasswordNext]_passwordVars
  PROVE  \/ \E k \in Codes : StoreAuthorizationCode(k) \/ CodeExpires(k)
         \/ \E k \in Codes, g \in Grants : ExchangeCode(k, g)
         \/ \E g \in Grants : GrantExpires(g)
         \/ \E h \in Hashes : SubmissionSteps(h)
         \/ \E h \in Hashes, g \in Grants : ClaimGrantForPassword(h, g)
         \/ \E h \in Hashes : ApplyPasswordChange(h)
         \/ \E h \in Hashes : ReconcileReads(h)
         \/ \E h \in Hashes : ReconcileStarts(h)
         \/ \E h \in Hashes : ReconcileIsRefused(h) \/ ReconcileDies(h)
         \/ EditorRestarts
         \/ RenderBegins
         \/ RenderReads
         \/ Recreates
         \/ ActionIsRetried
         \/ RenderSucceeds
         \/ UpdateRuntimeAuthHash
         \/ OperationFails
         \/ UNCHANGED passwordVars
  BY Zenon DEF PasswordNext, TokenSteps, Submission, Reconciliation, Operation, SubmissionSteps

(* A change_password operation carries a submission's hash from its start. *)
CarriesAHash ==
  op.type = "change_password" => op.hash \in Hashes /\ op.step \in {"read", "recreated"}

(* What the editor and the tokens do leaves the service's side alone, except for a
   hash it takes. *)
LEMMA ServiceMoves ==
  ASSUME [PasswordNext]_passwordVars
  PROVE  \/ UNCHANGED <<held, env, due, sawHeld, op, last, overlapped, abandoned>>
         \/ \E h \in Hashes : Takes(h)
         \/ \E h \in Hashes : ReconcileReads(h)
         \/ \E h \in Hashes : ReconcileStarts(h)
         \/ \E h \in Hashes : ReconcileIsRefused(h) \/ ReconcileDies(h)
         \/ RenderBegins \/ RenderReads \/ Recreates \/ ActionIsRetried
         \/ RenderSucceeds \/ UpdateRuntimeAuthHash \/ OperationFails
<1> DEFINE Same == UNCHANGED <<held, env, due, sawHeld, op, last, overlapped, abandoned>>
<1> USE DEF service, history
<1>1. ASSUME NEW k \in Codes, StoreAuthorizationCode(k) \/ CodeExpires(k) PROVE Same
  BY <1>1 DEF StoreAuthorizationCode, CodeExpires
<1>2. ASSUME NEW k \in Codes, NEW g \in Grants, ExchangeCode(k, g) PROVE Same
  BY <1>2 DEF ExchangeCode
<1>3. ASSUME NEW g \in Grants, GrantExpires(g) PROVE Same
  BY <1>3 DEF GrantExpires
<1>4. ASSUME NEW h \in Hashes, SubmissionSteps(h) PROVE Same
  BY <1>4 DEF SubmissionSteps, Register, ProveCurrent, ChangeCloudPassword, CallTimesOut,
     CallRefused, CallLost, WriteConfig, WriteArgs, EditorOnly
<1>5. ASSUME NEW h \in Hashes, NEW g \in Grants, ClaimGrantForPassword(h, g) PROVE Takes(h)
  BY <1>5 DEF ClaimGrantForPassword
<1>6. ASSUME NEW h \in Hashes, ApplyPasswordChange(h) PROVE Takes(h)
  BY <1>6 DEF ApplyPasswordChange
<1>7. ASSUME EditorRestarts PROVE Same
  BY <1>7 DEF EditorRestarts, EditorOnly
<1>8. ASSUME UNCHANGED passwordVars PROVE Same
  BY <1>8 DEF passwordVars
<1> HIDE DEF Same
<1>9. \/ Same
      \/ \E h \in Hashes : Takes(h)
      \/ \E h \in Hashes : ReconcileReads(h)
      \/ \E h \in Hashes : ReconcileStarts(h)
      \/ \E h \in Hashes : ReconcileIsRefused(h) \/ ReconcileDies(h)
      \/ RenderBegins \/ RenderReads \/ Recreates \/ ActionIsRetried
      \/ RenderSucceeds \/ UpdateRuntimeAuthHash \/ OperationFails
  <2>1. (\E k \in Codes : StoreAuthorizationCode(k) \/ CodeExpires(k)) => Same
    BY <1>1
  <2>2. (\E k \in Codes, g \in Grants : ExchangeCode(k, g)) => Same
    BY <1>2
  <2>3. (\E g \in Grants : GrantExpires(g)) => Same
    BY <1>3
  <2>4. (\E h \in Hashes : SubmissionSteps(h)) => Same
    BY <1>4
  <2>5. (\E h \in Hashes, g \in Grants : ClaimGrantForPassword(h, g)) => \E h \in Hashes : Takes(h)
    BY <1>5
  <2>6. (\E h \in Hashes : ApplyPasswordChange(h)) => \E h \in Hashes : Takes(h)
    BY <1>6
  <2>7. QED BY PasswordSteps, <1>7, <1>8, <2>1, <2>2, <2>3, <2>4, <2>5, <2>6, Zenon
<1>10. QED BY <1>9, Zenon DEF Same

(* CarriesAHash is kept: rendering, which takes whatever the row has, is for the
   other operations. *)
LEMMA CarriesStep ==
  ASSUME PasswordTypeOK, CarriesAHash, [PasswordNext]_passwordVars
  PROVE  CarriesAHash'
<1> USE DEF CarriesAHash
<1>1. ASSUME NEW h \in Hashes,
             Takes(h) \/ ReconcileReads(h) \/ ReconcileIsRefused(h) \/ ReconcileDies(h)
      PROVE CarriesAHash'
  BY <1>1 DEF Takes, ReconcileReads, ReconcileIsRefused, ReconcileDies
<1>2. ASSUME NEW h \in Hashes, ReconcileStarts(h) PROVE CarriesAHash'
  BY <1>2 DEF ReconcileStarts
<1>3. CASE RenderBegins \/ RenderSucceeds \/ UpdateRuntimeAuthHash \/ OperationFails
  <2>1. \/ op' = NoOperation
        \/ op' = [type |-> "render", step |-> "begun", hash |-> NoHash]
    BY <1>3, Zenon DEF RenderBegins, RenderSucceeds, UpdateRuntimeAuthHash, OperationFails
  <2>2. QED BY <2>1 DEF NoOperation
<1>4. CASE RenderReads \/ Recreates \/ ActionIsRetried
  BY <1>4 DEF RenderReads, Recreates, ActionIsRetried, PasswordTypeOK
<1>5. QED
  BY ServiceMoves, <1>1, <1>2, <1>3, <1>4

(* TypeOK is kept. *)
LEMMA PasswordTypeStep ==
  ASSUME PasswordTypeOK, CarriesAHash, [PasswordNext]_passwordVars
  PROVE  PasswordTypeOK'
<1> USE NamesAssumption, PasswordBounds DEF PasswordTypeOK, MaybeHash
<1>1. ASSUME NEW k \in Codes, StoreAuthorizationCode(k) \/ CodeExpires(k) PROVE PasswordTypeOK'
  BY <1>1 DEF StoreAuthorizationCode, CodeExpires, editor, service, history
<1>2. ASSUME NEW k \in Codes, NEW g \in Grants, ExchangeCode(k, g) PROVE PasswordTypeOK'
  BY <1>2 DEF ExchangeCode, Trouble, editor, service, history
<1>3. ASSUME NEW g \in Grants, GrantExpires(g) PROVE PasswordTypeOK'
  BY <1>3 DEF GrantExpires, editor, service, history
<1>4. ASSUME NEW h \in Hashes, SubmissionSteps(h) PROVE PasswordTypeOK'
  <2> USE DEF Moves, EditorOnly, Trouble, capabilities, service, history
  <2>1. ASSUME NEW g \in Grants, Register(h, g) PROVE PasswordTypeOK'
    BY <2>1 DEF Register
  <2>2. CASE ProveCurrent(h) \/ ChangeCloudPassword(h)
    BY <2>2 DEF ProveCurrent, ChangeCloudPassword
  <2>3. CASE CallTimesOut(h) \/ CallRefused(h) \/ CallLost(h)
    BY <2>3 DEF CallTimesOut, CallRefused, CallLost
  <2>4. CASE WriteConfig(h) \/ WriteArgs(h)
    BY <2>4 DEF WriteConfig, WriteArgs
  <2>5. QED BY <1>4, <2>1, <2>2, <2>3, <2>4 DEF SubmissionSteps
<1>5. ASSUME NEW h \in Hashes, NEW g \in Grants, ClaimGrantForPassword(h, g) PROVE PasswordTypeOK'
  BY <1>5 DEF ClaimGrantForPassword, Takes, Lands, Moves, AnotherUnderWay
<1>6. ASSUME NEW h \in Hashes, ApplyPasswordChange(h) PROVE PasswordTypeOK'
  BY <1>6 DEF ApplyPasswordChange, Takes, Lands, Moves, AnotherUnderWay, capabilities
<1>7. ASSUME NEW h \in Hashes, ReconcileReads(h) PROVE PasswordTypeOK'
  <2>1. CASE IsStillWanted(h)
    BY <1>7, <2>1 DEF ReconcileReads, capabilities, editor, history
  <2>2. CASE ~IsStillWanted(h)
    BY <1>7, <2>2 DEF ReconcileReads, capabilities, editor, history
  <2>3. QED BY <2>1, <2>2
<1>8. ASSUME NEW h \in Hashes, ReconcileStarts(h) PROVE PasswordTypeOK'
  BY <1>8 DEF ReconcileStarts, capabilities, editor, history
<1>9. ASSUME NEW h \in Hashes, ReconcileIsRefused(h) \/ ReconcileDies(h) PROVE PasswordTypeOK'
  <2>1. NextAttempt(h) \in 0..MaxAttempts
    BY DEF NextAttempt
  <2>2. CASE ReconcileIsRefused(h)
    BY <2>1, <2>2 DEF ReconcileIsRefused, capabilities, editor
  <2>3. CASE ReconcileDies(h)
    BY <2>3 DEF ReconcileDies, Trouble, capabilities, editor
  <2>4. QED BY <1>9, <2>2, <2>3
<1>10. CASE EditorRestarts
  BY <1>10 DEF EditorRestarts, Boots, EditorOnly, capabilities, service, history
<1>11. CASE RenderBegins
  BY <1>11 DEF RenderBegins, OperationOnly, capabilities, editor
<1>12. CASE RenderReads
  BY <1>12 DEF RenderReads, OperationOnly, capabilities, editor
<1>13. CASE Recreates
  BY <1>13 DEF Recreates, Boots, OperationOnly, capabilities
<1>14. CASE ActionIsRetried
  BY <1>14 DEF ActionIsRetried, Trouble, OperationOnly, capabilities, editor
<1>15. CASE RenderSucceeds
  BY <1>15 DEF RenderSucceeds, NoOperation, OperationOnly, capabilities, editor
<1>16. CASE UpdateRuntimeAuthHash
  BY <1>16 DEF UpdateRuntimeAuthHash, NoOperation, capabilities, editor, history
<1>17. CASE OperationFails
  <2> USE <1>17 DEF OperationFails, NoOperation, Trouble, OperationOnly, capabilities, editor
  <2>1. CASE op.type = "change_password"
    BY <2>1 DEF CarriesAHash
  <2>2. CASE op.type # "change_password"
    <3>1. usable' \in BOOLEAN
      BY <2>2, Zenon
    <3>2. QED BY <2>2, <3>1
  <2>3. QED BY <2>1, <2>2
<1>18. CASE UNCHANGED passwordVars
  BY <1>18 DEF passwordVars, capabilities, editor, service, history
<1>19. QED
  BY PasswordSteps, <1>1, <1>2, <1>3, <1>4, <1>5, <1>6, <1>7, <1>8, <1>9, <1>10, <1>11,
     <1>12, <1>13, <1>14, <1>15, <1>16, <1>17, <1>18

(* The initial state has the types. *)
LEMMA PasswordTypeInit == ASSUME PasswordInit PROVE PasswordTypeOK /\ CarriesAHash
<1> USE NamesAssumption, PasswordBounds DEF PasswordInit, MaybeHash, NoOperation
<1>1. request \in [Hashes -> {"none", "proved", "asked", "orphan", "recorded", "written", "over"}]
  OBVIOUS
<1>2. proof \in [Hashes -> MaybeHash \cup Grants \cup {NoGrant}]
  OBVIOUS
<1>3. due \in [Hashes -> 0..MaxAttempts] /\ sawHeld \in [Hashes -> BOOLEAN]
  OBVIOUS
<1>4. /\ code \in [Codes -> {"none", "live", "consumed", "gone"}]
      /\ grant \in [Grants -> {"none", "live", "gone"} \cup Hashes]
      /\ mintedBy \in [Grants -> SUBSET Codes] /\ spentOn \in [Grants -> SUBSET Hashes]
  OBVIOUS
<1>5. op \in [type : {"none", "render", "change_password"},
             step : {"none", "begun", "read", "recreated"}, hash : MaybeHash]
  OBVIOUS
<1>6. {held, env, config, args, last} \subseteq MaybeHash /\ cookie \subseteq Grants
  OBVIOUS
<1>7. usable \in BOOLEAN /\ overlapped \in BOOLEAN
  BY Zenon
<1>8. abandoned \subseteq Hashes /\ troubles \in 0..MaxTroubles
  OBVIOUS
<1>9. CarriesAHash
  BY DEF CarriesAHash
<1>10. QED BY <1>1, <1>2, <1>3, <1>4, <1>5, <1>6, <1>7, <1>8, <1>9 DEF PasswordTypeOK

(* The four places, the tokens and the operation keep their types. *)
THEOREM PasswordTypeCorrect == PasswordSpec => []PasswordTypeOK
<1>1. PasswordInit => PasswordTypeOK /\ CarriesAHash
  BY PasswordTypeInit
<1>2. PasswordTypeOK /\ CarriesAHash /\ [PasswordNext]_passwordVars
      => (PasswordTypeOK /\ CarriesAHash)'
  BY PasswordTypeStep, CarriesStep
<1>3. QED BY <1>1, <1>2, PTL DEF PasswordSpec
-----------------------------------------------------------------------------
(* Codes and grants *)

(* A grant is out of a code that can give no other, and installs what it has
   installed before or, while it is live, a first hash. *)
CapabilityInv ==
  /\ \A g \in Grants : \A k \in mintedBy[g] : code[k] \in {"consumed", "gone"}
  /\ \A g, i \in Grants : mintedBy[g] \cap mintedBy[i] # {} => g = i
  /\ \A g \in Grants : grant[g] \in {"none", "live"} => spentOn[g] = {}
  /\ \A g \in Grants : grant[g] \in Hashes => spentOn[g] \subseteq {grant[g]}
  /\ \A g \in Grants : \A h, i \in spentOn[g] : h = i

(* TokenInv is kept. *)
LEMMA CapabilityStep ==
  ASSUME PasswordTypeOK, CapabilityInv, [PasswordNext]_passwordVars
  PROVE  CapabilityInv'
<1> USE NamesAssumption DEF CapabilityInv
<1>0. /\ code \in [Codes -> {"none", "live", "consumed", "gone"}]
      /\ grant \in [Grants -> {"none", "live", "gone"} \cup Hashes]
      /\ mintedBy \in [Grants -> SUBSET Codes] /\ spentOn \in [Grants -> SUBSET Hashes]
  BY DEF PasswordTypeOK
<1>1. CASE UNCHANGED <<code, grant, mintedBy, spentOn>>
  BY <1>1
<1>2. ASSUME NEW k \in Codes, StoreAuthorizationCode(k) \/ CodeExpires(k) PROVE CapabilityInv'
  BY <1>0, <1>2 DEF StoreAuthorizationCode, CodeExpires
<1>3. ASSUME NEW k \in Codes, NEW g \in Grants, ExchangeCode(k, g) PROVE CapabilityInv'
  BY <1>0, <1>3 DEF ExchangeCode, CanExchange
<1>4. ASSUME NEW g \in Grants, GrantExpires(g) PROVE CapabilityInv'
  BY <1>0, <1>4 DEF GrantExpires
<1>5. ASSUME NEW h \in Hashes, NEW g \in Grants, ClaimGrantForPassword(h, g) PROVE CapabilityInv'
  BY <1>0, <1>5 DEF ClaimGrantForPassword
<1>6. ASSUME NEW h \in Hashes,
             \/ SubmissionSteps(h) \/ ApplyPasswordChange(h) \/ ReconcileReads(h)
             \/ ReconcileStarts(h) \/ ReconcileIsRefused(h) \/ ReconcileDies(h)
      PROVE UNCHANGED <<code, grant, mintedBy, spentOn>>
  BY <1>6 DEF SubmissionSteps, Register, ProveCurrent, ChangeCloudPassword, CallTimesOut,
     CallRefused, CallLost, WriteConfig, WriteArgs, EditorOnly, ApplyPasswordChange,
     ReconcileReads, ReconcileStarts, ReconcileIsRefused, ReconcileDies, capabilities
<1>7. ASSUME \/ EditorRestarts \/ RenderBegins \/ RenderReads \/ Recreates \/ ActionIsRetried
             \/ RenderSucceeds \/ UpdateRuntimeAuthHash \/ OperationFails \/ UNCHANGED passwordVars
      PROVE UNCHANGED <<code, grant, mintedBy, spentOn>>
  BY <1>7 DEF EditorRestarts, EditorOnly, RenderBegins, RenderReads, Recreates, ActionIsRetried,
     RenderSucceeds, UpdateRuntimeAuthHash, OperationFails, OperationOnly, capabilities,
        passwordVars
<1>8. QED BY PasswordSteps, <1>1, <1>2, <1>3, <1>4, <1>5, <1>6, <1>7

(* At most one element, so a cardinality of at most one *)
LEMMA AtMostOne ==
  ASSUME NEW S, \A x, y \in S : x = y
  PROVE  Cardinality(S) =< 1
<1>1. CASE S = {}
  BY <1>1, FS_EmptySet
<1>2. ASSUME NEW x \in S PROVE Cardinality(S) =< 1
  <2>1. S = {x}
    BY <1>2
  <2>2. QED BY <2>1, FS_Singleton
<1>3. QED BY <1>1, <1>2

(* An authorization code gives one grant and a grant installs one hash, for any
   number of codes, grants and submissions. *)
THEOREM TokensCorrect == PasswordSpec => []CapabilitiesAreSpentOnce
<1>1. PasswordInit => PasswordTypeOK /\ CarriesAHash /\ CapabilityInv
  BY PasswordTypeInit, NamesAssumption DEF PasswordInit, CapabilityInv
<1>2. PasswordTypeOK /\ CarriesAHash /\ CapabilityInv /\ [PasswordNext]_passwordVars
      => (PasswordTypeOK /\ CarriesAHash /\ CapabilityInv)'
  BY PasswordTypeStep, CarriesStep, CapabilityStep
<1>3. CapabilityInv => CapabilitiesAreSpentOnce
  BY AtMostOne DEF CapabilityInv, CapabilitiesAreSpentOnce
<1>4. QED BY <1>1, <1>2, <1>3, PTL DEF PasswordSpec
-----------------------------------------------------------------------------
(* The row *)

(* A hash other than the last is under way only where that was noted. *)
RowInv ==
  /\ RowKeepsLast
  /\ op.type = "change_password" => op.hash = last \/ overlapped
  /\ \A h \in Hashes : sawHeld[h] => h = last \/ overlapped

(* RowInv is kept. *)
LEMMA RowStep ==
  ASSUME PasswordTypeOK, CarriesAHash, RowInv, [PasswordNext]_passwordVars
  PROVE  RowInv'
<1> USE DEF RowInv, RowKeepsLast
<1>0. sawHeld \in [Hashes -> BOOLEAN] /\ overlapped \in BOOLEAN
  BY DEF PasswordTypeOK
<1>1. CASE UNCHANGED <<held, env, due, sawHeld, op, last, overlapped, abandoned>>
  BY <1>1
<1>2. ASSUME NEW h \in Hashes, Takes(h) PROVE RowInv'
  <2>1. /\ held' = h /\ last' = h /\ UNCHANGED <<sawHeld, op>>
        /\ overlapped' = (overlapped \/ AnotherUnderWay(h))
    BY <1>2 DEF Takes
  <2>2. op.type = "change_password" /\ op.hash # h => overlapped'
    BY <2>1, Zenon DEF AnotherUnderWay
  <2>3. ASSUME NEW i \in Hashes \ {h}, sawHeld[i] PROVE overlapped'
    BY <2>1, <2>3, Zenon DEF AnotherUnderWay
  <2>4. QED BY <2>1, <2>2, <2>3
<1>3. ASSUME NEW h \in Hashes, ReconcileReads(h) PROVE RowInv'
  BY <1>0, <1>3 DEF ReconcileReads, IsStillWanted, history
<1>4. ASSUME NEW h \in Hashes, ReconcileStarts(h) PROVE RowInv'
  BY <1>0, <1>4 DEF ReconcileStarts, history
<1>5. ASSUME NEW h \in Hashes, ReconcileIsRefused(h) \/ ReconcileDies(h) PROVE RowInv'
  BY <1>0, <1>5 DEF ReconcileIsRefused, ReconcileDies
<1>6. CASE RenderBegins \/ RenderReads \/ Recreates \/ ActionIsRetried \/ RenderSucceeds \/ OperationFails
  <2>1. UNCHANGED <<held, sawHeld, last, overlapped>>
    BY <1>6 DEF RenderBegins, RenderReads, Recreates, ActionIsRetried, RenderSucceeds,
       OperationFails, OperationOnly
  <2>2. op'.type = "change_password" => op.type = "change_password" /\ op'.hash = op.hash
    <3>1. CASE RenderReads \/ Recreates \/ ActionIsRetried
      BY <3>1 DEF RenderReads, Recreates, ActionIsRetried, CarriesAHash, PasswordTypeOK
    <3>2. CASE RenderBegins
      BY <3>2 DEF RenderBegins
    <3>3. CASE RenderSucceeds \/ OperationFails
      <4>1. op' = NoOperation
        BY <3>3, Zenon DEF RenderSucceeds, OperationFails
      <4>2. QED BY <4>1 DEF NoOperation
    <3>4. QED BY <1>6, <3>1, <3>2, <3>3
  <2>3. QED BY <2>1, <2>2
<1>8. CASE UpdateRuntimeAuthHash
  BY <1>8 DEF UpdateRuntimeAuthHash, NoOperation, history
<1>9. QED BY ServiceMoves, <1>1, <1>2, <1>3, <1>4, <1>5, <1>6, <1>8

(* No reconciliation of an earlier hash, however late, brings it back into the row
   of the box. *)
THEOREM RowCorrect == PasswordSpec => []RowKeepsLast
<1>1. PasswordInit => PasswordTypeOK /\ CarriesAHash /\ RowInv
  <2>1. PasswordInit => RowInv
    BY DEF PasswordInit, RowInv, RowKeepsLast, NoOperation
  <2>2. QED BY <2>1, PasswordTypeInit
<1>2. PasswordTypeOK /\ CarriesAHash /\ RowInv /\ [PasswordNext]_passwordVars
      => (PasswordTypeOK /\ CarriesAHash /\ RowInv)'
  BY PasswordTypeStep, CarriesStep, RowStep
<1>3. QED BY <1>1, <1>2, PTL DEF PasswordSpec, RowInv
-----------------------------------------------------------------------------
(* The environment *)

(* The hash the row has is in the environment, or an attempt that will bring it is
   scheduled, or what had to bring it came to nothing. *)
OnWay ==
  \/ env = held
  \/ held \in Hashes /\ due[held] > 0
  \/ {env, held} \cap abandoned # {}

(* An operation that changes the password has the row's hash, or has already
   brought its own; one that renders has read a hash that was the row's then. *)
WayInv ==
  /\ op.type = "none" => op.step = "none"
  /\ op.type # "change_password" => OnWay
  /\ op.type = "change_password" /\ op.step = "read" => op.hash \in {held, env} \/ OnWay
  /\ op.step = "recreated" /\ op.type = "change_password" => env = op.hash
  /\ op.step = "read" /\ op.type # "change_password" =>
       \/ op.hash = held
       \/ held \in Hashes /\ due[held] > 0
       \/ held \in abandoned

(* WayInv is kept. *)
LEMMA WayStep ==
  ASSUME PasswordTypeOK, CarriesAHash, WayInv, [PasswordNext]_passwordVars
  PROVE  WayInv'
<1> USE DEF WayInv, OnWay
<1>0. /\ due \in [Hashes -> 0..MaxAttempts] /\ MaxAttempts \in Nat \ {0}
      /\ op.step \in {"none", "begun", "read", "recreated"}
  BY PasswordBounds DEF PasswordTypeOK
<1>1. CASE UNCHANGED <<held, env, due, sawHeld, op, last, overlapped, abandoned>>
  BY <1>1
<1>2. ASSUME NEW h \in Hashes, Takes(h) PROVE WayInv'
  BY <1>0, <1>2 DEF Takes
<1>3. ASSUME NEW h \in Hashes, ReconcileReads(h) PROVE WayInv'
  BY <1>0, <1>3 DEF ReconcileReads, IsStillWanted, history
<1>4. ASSUME NEW h \in Hashes, ReconcileStarts(h) PROVE WayInv'
  BY <1>0, <1>4 DEF ReconcileStarts, CanStart, NoOperation, history
<1>5. ASSUME NEW h \in Hashes, ReconcileIsRefused(h) \/ ReconcileDies(h) PROVE WayInv'
  <2>1. /\ UNCHANGED <<held, env, op>> /\ abandoned \subseteq abandoned'
        /\ \A i \in Hashes : due[i] > 0 => due'[i] > 0 \/ i \in abandoned'
    <3>1. CASE ReconcileIsRefused(h)
      BY <1>0, <3>1 DEF ReconcileIsRefused, NextAttempt
    <3>2. CASE ReconcileDies(h)
      BY <1>0, <3>2 DEF ReconcileDies
    <3>3. QED BY <1>5, <3>1, <3>2
  <2>2. QED BY <2>1
<1>6. CASE RenderBegins
  BY <1>6 DEF RenderBegins, OperationOnly, NoOperation
<1>7. CASE RenderReads
  BY <1>7 DEF RenderReads, OperationOnly, CarriesAHash, PasswordTypeOK
<1>8. CASE Recreates
  BY <1>8 DEF Recreates, OperationOnly, PasswordTypeOK
<1>9. CASE ActionIsRetried
  <2>1. UNCHANGED <<held, env, due, abandoned>> /\ op.step = "recreated"
    BY <1>9 DEF ActionIsRetried, OperationOnly
  <2>2. op' = [op EXCEPT !.step = IF op.type = "render" THEN "begun" ELSE "read"]
    BY <1>9 DEF ActionIsRetried
  <2>3. QED BY <2>1, <2>2 DEF PasswordTypeOK
<1>10. CASE RenderSucceeds
  <2>1. op' = NoOperation /\ op.type = "render"
    BY <1>10, Zenon DEF RenderSucceeds
  <2>2. UNCHANGED <<env, editor, abandoned, troubles>> /\ OperationOnly
    BY <1>10, Zenon DEF RenderSucceeds
  <2>3. QED BY <2>1, <2>2 DEF NoOperation, OperationOnly
<1>11. CASE UpdateRuntimeAuthHash
  BY <1>11 DEF UpdateRuntimeAuthHash, NoOperation, history
<1>12. CASE OperationFails
  BY <1>0, <1>12 DEF OperationFails, OperationOnly, NoOperation, CarriesAHash
<1>13. QED
  BY ServiceMoves, <1>1, <1>2, <1>3, <1>4, <1>5, <1>6, <1>7, <1>8, <1>9, <1>10, <1>11, <1>12

(* What the service believes is on the box or will be brought there, unless what had
   to bring it failed, for any number of submissions and troubles. *)
THEOREM WayCorrect == PasswordSpec => []HeldIsOnItsWay
<1>1. PasswordInit => PasswordTypeOK /\ CarriesAHash /\ WayInv
  <2>1. PasswordInit => WayInv
    BY DEF PasswordInit, WayInv, OnWay, NoOperation
  <2>2. QED BY <2>1, PasswordTypeInit
<1>2. PasswordTypeOK /\ CarriesAHash /\ WayInv /\ [PasswordNext]_passwordVars
      => (PasswordTypeOK /\ CarriesAHash /\ WayInv)'
  BY PasswordTypeStep, CarriesStep, WayStep
<1>3. WayInv => HeldIsOnItsWay
  BY DEF WayInv, OnWay, HeldIsOnItsWay
<1>4. QED BY <1>1, <1>2, <1>3, PTL DEF PasswordSpec
=============================================================================
