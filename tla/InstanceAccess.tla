--------------------------- MODULE InstanceAccess ---------------------------
(***************************************************************************)
(* What lets somebody into an instance: API keys, enrollment tokens, SSH   *)
(* certificates and the list of revoked ones, each a file of the volume.   *)
(* The command line (cli/crates/composery) changes them under a lock, one  *)
(* process per command; the editor's server reads the keys, and changes    *)
(* tokens and certificates itself under no lock; the boot makes them anew  *)
(* when it finds the disk to be another box's.                             *)
(*                                                                         *)
(* Who changes a file reads it, and puts a whole new one in its place      *)
(* later.  Everything stops when the container does, and the disk may then *)
(* be copied for another box: from there on the copy is followed.          *)
(***************************************************************************)
EXTENDS Integers, FiniteSets

CONSTANTS
  Commands,   \* processes of the command line
  Requests,   \* enrollments the server may have in hand
  Keys,       \* API keys ever made
  Tokens,     \* enrollment tokens ever minted
  MaxMade,    \* bound on keys and tokens made, together
  MaxSerial,  \* bound on serials
  MaxBox,     \* the box this disk belonged to first is 1, each copy's the next
  MaxStops,   \* bound on stops of the container
  Faults      \* what may happen besides: "overlap", "tick" (see Lock, Passes)

ASSUME BoundsAssumption ==
  /\ MaxMade \in Nat /\ MaxSerial \in Nat /\ MaxStops \in Nat
  /\ MaxBox \in Nat \ {0}
ASSUME FaultsAssumption == Faults \subseteq {"overlap", "tick"}

VARIABLES
  box,        \* COMPOSERY_CLOUD_BOX_ID
  boot,       \* where the boot stands
  recorded,   \* <volume>/instance/identity, 0 when there is none to read
  ca,         \* <volume>/ssh/ca: the box it was made on, 0 when missing
  krl,        \* <volume>/ssh/krl: the serials sshd refuses
  keys,       \* <volume>/api/keys.json
  tokens,     \* <volume>/ssh/enrollments.json
  records,    \* <volume>/ssh/certificates.json
  cache,      \* the server's copy of the key store, and whether it passes for it
  cli,        \* the commands
  req,        \* the enrollments
  expired,    \* tokens past their time
  made,       \* (history) the box a key or a token was made on, 0 before
  told,       \* (history) what is known of a key outside
  delivered,  \* (history) certificates answered with
  refused,    \* (history) serials whose revocation was reported, and whose
  bought,     \* (history) how often a token bought a certificate
  stops

identityVars == <<box, boot, recorded>>
cliVars == <<cli, made>>
vars == <<box, boot, recorded, ca, krl, keys, tokens, records, cache, cli, req,
          expired, made, told, delivered, refused, bought, stops>>

Boxes == 1..MaxBox
Serials == 1..MaxSerial
Records == [serial : Serials, token : Tokens, revoked : BOOLEAN]
Certificates == [serial : Serials, token : Tokens, ca : Boxes]

(* identity.sh removes file after file and records the box last; ssh.sh then
   prepares the authority, while the server and commands may already run *)
BootSteps == {"down", "ca", "krl", "records", "tokens", "keys", "record",
              "truncated", "prepare", "up"}
Serving == boot \in {"prepare", "up"}

(* A command does one thing to one file *)
Work ==
  [verb : {"create", "revokeKey"}, arg : Keys] \cup
  [verb : {"mint"}, arg : Tokens] \cup [verb : {"revoke"}, arg : Serials]
NoWork == [verb |-> "none"]

FileOf(work) ==
  CASE work.verb \in {"create", "revokeKey"} -> "keys"
    [] work.verb = "mint" -> "tokens"
    [] work.verb = "revoke" -> "records"
    [] OTHER -> "none"

CommandAt(place, work) ==
  [at |-> place, work |-> work, keys |-> {}, tokens |-> {}, records |-> {}]
NoCommand == CommandAt("idle", NoWork)
RequestAt(place, token, read) ==
  [at |-> place, token |-> token, tokens |-> read, records |-> {}, ca |-> 0]
NoRequest == RequestAt("idle", "none", {})
NoCache == [known |-> {}, current |-> FALSE]

CommandStates ==
  [at : {"idle", "locked", "loaded", "half", "saved"}, work : Work \cup {NoWork},
   keys : SUBSET Keys, tokens : SUBSET Tokens, records : SUBSET Records]
RequestStates ==
  [at : {"idle", "redeeming", "redeemed", "issuing", "issued"},
   token : Tokens \cup {"none"}, tokens : SUBSET Tokens, records : SUBSET Records,
   ca : Boxes \cup {0}]

TypeOK ==
  /\ box \in Boxes /\ recorded \in Boxes \cup {0} /\ ca \in Boxes \cup {0}
  /\ boot \in BootSteps
  /\ krl \subseteq Serials
  /\ keys \subseteq Keys /\ tokens \subseteq Tokens /\ records \subseteq Records
  /\ cache \in [known : SUBSET Keys, current : BOOLEAN]
  /\ cli \in [Commands -> CommandStates]
  /\ req \in [Requests -> RequestStates]
  /\ expired \subseteq Tokens
  /\ made \in [Keys \cup Tokens -> Boxes \cup {0}]
  /\ told \in [Keys -> {"nothing", "created", "asked", "revoked"}]
  /\ delivered \subseteq Certificates
  /\ refused \subseteq Serials \X Boxes
  /\ bought \in [Tokens -> Nat]
  /\ stops \in 0..MaxStops

Init ==
  /\ box = 1 /\ boot = "down" /\ recorded = 0 /\ ca = 0 /\ krl = {}
  /\ keys = {} /\ tokens = {} /\ records = {}
  /\ cache = NoCache
  /\ cli = [c \in Commands |-> NoCommand]
  /\ req = [r \in Requests |-> NoRequest]
  /\ expired = {}
  /\ made = [x \in Keys \cup Tokens |-> 0]
  /\ told = [k \in Keys |-> "nothing"]
  /\ delivered = {} /\ refused = {}
  /\ bought = [t \in Tokens |-> 0]
  /\ stops = 0
-----------------------------------------------------------------------------
(* The boot *)

(* A bug the run must catch: the copy is recorded before it is rid of anything *)
RecordOnSightEarly == IF recorded = 0 THEN 0 ELSE box

RecordOnSight == recorded

(* apply: no record is taken for the first boot, the same box changes nothing,
   another box rotates *)
ApplyIdentity ==
  /\ boot = "down"
  /\ recorded' = RecordOnSight
  /\ boot' = CASE recorded = 0 -> "truncated"
               [] recorded = box -> "prepare"
               [] OTHER -> "ca"
  /\ UNCHANGED <<box, ca, krl, keys, tokens, records, cache, cli, req,
                 expired, made, told, delivered, refused, bought, stops>>

(* rotate, in the order of identity_paths *)
Rotate ==
  /\ \/ /\ boot = "ca" /\ ca' = 0 /\ boot' = "krl"
        /\ UNCHANGED <<krl, records, tokens, keys>>
     \/ /\ boot = "krl" /\ krl' = {} /\ boot' = "records"
        /\ UNCHANGED <<ca, records, tokens, keys>>
     \/ /\ boot = "records" /\ records' = {} /\ boot' = "tokens"
        /\ UNCHANGED <<ca, krl, tokens, keys>>
     \/ /\ boot = "tokens" /\ tokens' = {} /\ boot' = "keys"
        /\ UNCHANGED <<ca, krl, records, keys>>
     \/ /\ boot = "keys" /\ keys' = {} /\ boot' = "record"
        /\ UNCHANGED <<ca, krl, records, tokens>>
  /\ UNCHANGED <<box, recorded, cache, cli, req, expired, made, told, delivered,
                 refused, bought, stops>>

(* record_identity empties the file before it writes it *)
RecordIdentity ==
  /\ \/ boot = "record" /\ recorded' = 0 /\ boot' = "truncated"
     \/ boot = "truncated" /\ recorded' = box /\ boot' = "prepare"
  /\ UNCHANGED <<box, ca, krl, keys, tokens, records, cache, cli, req, expired,
                 made, told, delivered, refused, bought, stops>>

(* ssh.sh prepare_authority: an authority and a list where there is none *)
PrepareAuthority ==
  /\ boot = "prepare"
  /\ boot' = "up"
  /\ ca' = IF ca = 0 THEN box ELSE ca
  /\ UNCHANGED <<box, recorded, krl, keys, tokens, records, cache, cli, req,
                 expired, made, told, delivered, refused, bought, stops>>

(* The container stops, killed or not, and every process of it *)
Stop ==
  /\ boot # "down"
  /\ stops < MaxStops
  /\ stops' = stops + 1
  /\ boot' = "down"
  /\ cache' = NoCache
  /\ cli' = [c \in Commands |-> NoCommand]
  /\ req' = [r \in Requests |-> NoRequest]
  /\ UNCHANGED <<box, recorded, ca, krl, keys, tokens, records, expired, made, told,
                 delivered, refused, bought>>

(* The disk is copied for a new box, whose container is next to start on it *)
CopyDisk ==
  /\ boot = "down"
  /\ box < MaxBox
  /\ box' = box + 1
  /\ UNCHANGED <<boot, recorded, ca, krl, keys, tokens, records, cache, cli, req,
                 expired, made, told, delivered, refused, bought, stops>>
-----------------------------------------------------------------------------
(* Who holds what *)

Holds(c, file) == cli[c].at # "idle" /\ FileOf(cli[c].work) = file
Issuing(r, file) ==
  \/ file = "tokens" /\ req[r].at = "redeeming"
  \/ file = "records" /\ req[r].at = "issuing"

(* The lock keeps commands apart, the server asks for none *)
LockIsFree(file) == \A c \in Commands : ~Holds(c, file)
ServerIsOut(file) ==
  "overlap" \in Faults \/ \A r \in Requests : ~Issuing(r, file)
CommandsAreOut(file) == "overlap" \in Faults \/ LockIsFree(file)

(* A bug the run must catch: load-modify-save without a lock *)
LockUnheld(work) == ServerIsOut(FileOf(work))

(* lock_store, which the process keeps to its end *)
Lock(work) == LockIsFree(FileOf(work)) /\ ServerIsOut(FileOf(work))
-----------------------------------------------------------------------------
(* A command: lock, load, save, report; killed anywhere it leaves what is on
   disk and gives up the lock *)

Goes(c, place) == cli' = [cli EXCEPT ![c].at = place]

MayMake == Cardinality({x \in Keys \cup Tokens : made[x] # 0}) < MaxMade

(* The random id of a new key or token is one nobody has had *)
StartCommand(c, work) ==
  /\ Serving
  /\ cli[c].at = "idle"
  /\ Lock(work)
  /\ work.verb \in {"create", "mint"} => made[work.arg] = 0 /\ MayMake
  /\ work.verb = "revokeKey" => made[work.arg] # 0
  /\ cli' = [cli EXCEPT ![c] = CommandAt("locked", work)]
  /\ made' = IF work.verb \in {"create", "mint"}
               THEN [made EXCEPT ![work.arg] = box] ELSE made
  /\ told' = IF work.verb = "revokeKey" THEN [told EXCEPT ![work.arg] = "asked"]
               ELSE told
  /\ UNCHANGED <<identityVars, ca, krl, keys, tokens, records, cache, req, expired,
                 delivered, refused, bought, stops>>

(* keystore::load, and KeyStore::create or revoke *)
LoadKeys(c) ==
  /\ cli[c].at = "locked"
  /\ \/ cli[c].work.verb = "create"
        /\ cli' = [cli EXCEPT ![c].at = "loaded", ![c].keys = keys \cup {cli[c].work.arg}]
     \/ cli[c].work.verb = "revokeKey"
        /\ cli' = [cli EXCEPT ![c].at = IF cli[c].work.arg \in keys THEN "loaded" ELSE "saved",
                              ![c].keys = keys \ {cli[c].work.arg}]
  /\ UNCHANGED <<identityVars, ca, krl, keys, tokens, records, cache, req, expired,
                 made, told, delivered, refused, bought, stops>>

(* enrollments::live of enrollments::load, and the new one *)
LoadTokens(c) ==
  /\ cli[c].at = "locked"
  /\ cli[c].work.verb = "mint"
  /\ cli' = [cli EXCEPT ![c].at = "loaded",
                        ![c].tokens = (tokens \ expired) \cup {cli[c].work.arg}]
  /\ UNCHANGED <<identityVars, ca, krl, keys, tokens, records, cache, req, expired,
                 made, told, delivered, refused, bought, stops>>

(* The server tells a new store by its time and its size (keystore.ts); saves
   within one tick of the clock have one time *)
Passes(new) ==
  "tick" \in Faults /\ cache.known # {} /\ Cardinality(new) = Cardinality(cache.known)

SaveKeys(c) ==
  /\ cli[c].at = "loaded"
  /\ FileOf(cli[c].work) = "keys"
  /\ keys' = cli[c].keys
  /\ cache' = [cache EXCEPT !.current = Passes(cli[c].keys)]
  /\ Goes(c, "saved")
  /\ UNCHANGED <<identityVars, ca, krl, tokens, records, req, expired, made, told,
                 delivered, refused, bought, stops>>

SaveTokens(c) ==
  /\ cli[c].at = "loaded"
  /\ FileOf(cli[c].work) = "tokens"
  /\ tokens' = cli[c].tokens
  /\ Goes(c, "saved")
  /\ UNCHANGED <<identityVars, ca, krl, keys, records, cache, req, expired, made,
                 told, delivered, refused, bought, stops>>

(* certificates::revocation_specification *)
Listed(rs) == {r.serial : r \in {q \in rs : q.revoked}}

(* A bug the run must catch: the record says so before sshd does *)
RevokeOrderReversed == <<"record", "list">>

(* commands/ssh.rs: "The list sshd reads is written before the record that
   explains it" *)
RevokeOrder == <<"list", "record">>

Comes(c, step) ==
  /\ cli[c].work.verb = "revoke"
  /\ \/ cli[c].at = "loaded" /\ RevokeOrder[1] = step
     \/ cli[c].at = "half" /\ RevokeOrder[2] = step
After(c) == IF cli[c].at = "loaded" THEN "half" ELSE "saved"

(* certificates::revoke, in memory: one record that has the serial *)
Marked(rs, serial) ==
  {(rs \ {r}) \cup {[r EXCEPT !.revoked = TRUE]} :
     r \in {q \in rs : q.serial = serial /\ ~q.revoked}}

MarkRevoked(c) ==
  /\ cli[c].at = "locked"
  /\ cli[c].work.verb = "revoke"
  /\ \E marked \in Marked(records, cli[c].work.arg) :
       cli' = [cli EXCEPT ![c].at = "loaded", ![c].records = marked]
  /\ UNCHANGED <<identityVars, ca, krl, keys, tokens, records, cache, req, expired,
                 made, told, delivered, refused, bought, stops>>

(* write_revocation_list: the whole list anew; without an authority to name it
   fails, and the command with it *)
WriteRevocationList(c) ==
  /\ Comes(c, "list")
  /\ ca # 0
  /\ krl' = Listed(cli[c].records)
  /\ Goes(c, After(c))
  /\ UNCHANGED <<identityVars, ca, keys, tokens, records, cache, req, expired, made,
                 told, delivered, refused, bought, stops>>

SaveRecords(c) ==
  /\ Comes(c, "record")
  /\ records' = cli[c].records
  /\ Goes(c, After(c))
  /\ UNCHANGED <<identityVars, ca, krl, keys, tokens, cache, req, expired, made, told,
                 delivered, refused, bought, stops>>

(* What it has done is printed, and the lock goes with the process *)
Report(c) ==
  /\ cli[c].at = "saved"
  /\ cli' = [cli EXCEPT ![c] = NoCommand]
  /\ told' = CASE cli[c].work.verb = "create" ->
                    [told EXCEPT ![cli[c].work.arg] = "created"]
               [] cli[c].work.verb = "revokeKey" ->
                    [told EXCEPT ![cli[c].work.arg] = "revoked"]
               [] OTHER -> told
  /\ refused' = IF cli[c].work.verb = "revoke"
                  THEN refused \cup {<<cli[c].work.arg, ca>>} ELSE refused
  /\ UNCHANGED <<identityVars, ca, krl, keys, tokens, records, cache, req, expired,
                 made, delivered, bought, stops>>

(* Killed, refused, or told there is nothing to revoke *)
CommandEnds(c) ==
  /\ cli[c].at # "idle"
  /\ cli' = [cli EXCEPT ![c] = NoCommand]
  /\ UNCHANGED <<identityVars, ca, krl, keys, tokens, records, cache, req, expired,
                 made, told, delivered, refused, bought, stops>>
-----------------------------------------------------------------------------
(* The server *)

(* verifyKey: a store that has the time and the size of the one in memory is
   not read again *)
VerifyKey ==
  /\ Serving
  /\ ~cache.current
  /\ cache' = [known |-> keys, current |-> TRUE]
  /\ UNCHANGED <<identityVars, ca, krl, keys, tokens, records, cli, req, expired,
                 made, told, delivered, refused, bought, stops>>

(* POST /enroll: redeemEnrollment reads, with a token or with anything else *)
RedeemReads(r, t) ==
  /\ Serving
  /\ req[r].at = "idle"
  /\ ServerIsOut("tokens") /\ CommandsAreOut("tokens")
  /\ made[t] # 0
  /\ req' = [req EXCEPT ![r] = RequestAt("redeeming", t, tokens \ expired)]
  /\ UNCHANGED <<identityVars, ca, krl, keys, tokens, records, cache, cli, expired,
                 made, told, delivered, refused, bought, stops>>

Remaining(r) == req[r].tokens \ {req[r].token}

(* and writes it back without the token, before anything else can fail *)
RedeemWrites(r) ==
  /\ req[r].at = "redeeming"
  /\ tokens' = Remaining(r)
  /\ IF req[r].token \in req[r].tokens
       THEN /\ req' = [req EXCEPT ![r].at = "redeemed", ![r].tokens = {}]
            /\ bought' = [bought EXCEPT ![req[r].token] = @ + 1]
       ELSE req' = [req EXCEPT ![r] = NoRequest] /\ UNCHANGED bought
  /\ UNCHANGED <<identityVars, ca, krl, keys, records, cache, cli, expired, made,
                 told, delivered, refused, stops>>

(* issueCertificate reads the records, for the next serial *)
IssueReads(r) ==
  /\ req[r].at = "redeemed"
  /\ ServerIsOut("records") /\ CommandsAreOut("records")
  /\ req' = [req EXCEPT ![r].at = "issuing", ![r].records = records]
  /\ UNCHANGED <<identityVars, ca, krl, keys, tokens, records, cache, cli, expired,
                 made, told, delivered, refused, bought, stops>>

(* nextSerial: one past the highest on record *)
IsNextSerial(rs, n) ==
  /\ \A r \in rs : r.serial < n
  /\ n = 1 \/ \E r \in rs : r.serial = n - 1

(* signs, which takes an authority, and writes the records with the new one *)
IssueWrites(r) ==
  /\ req[r].at = "issuing"
  /\ ca # 0
  /\ \E serial \in Serials :
       LET record == [serial |-> serial, token |-> req[r].token, revoked |-> FALSE]
       IN /\ IsNextSerial(req[r].records, serial)
          /\ records' = req[r].records \cup {record}
          /\ req' = [req EXCEPT ![r].at = "issued", ![r].records = {record}, ![r].ca = ca]
  /\ UNCHANGED <<identityVars, ca, krl, keys, tokens, cache, cli, expired, made, told,
                 delivered, refused, bought, stops>>

Answer(r) ==
  /\ req[r].at = "issued"
  /\ req' = [req EXCEPT ![r] = NoRequest]
  /\ delivered' = delivered \cup
       {[serial |-> rec.serial, token |-> rec.token, ca |-> req[r].ca] : rec \in req[r].records}
  /\ UNCHANGED <<identityVars, ca, krl, keys, tokens, records, cache, cli, expired,
                 made, told, refused, bought, stops>>

(* No public key, no authority, a file that cannot be written, a client gone *)
RequestFails(r) ==
  /\ req[r].at # "idle"
  /\ req' = [req EXCEPT ![r] = NoRequest]
  /\ UNCHANGED <<identityVars, ca, krl, keys, tokens, records, cache, cli, expired,
                 made, told, delivered, refused, bought, stops>>

TokenExpires(t) ==
  /\ made[t] # 0
  /\ t \notin expired
  /\ expired' = expired \cup {t}
  /\ UNCHANGED <<identityVars, ca, krl, keys, tokens, records, cache, cli, req, made,
                 told, delivered, refused, bought, stops>>
-----------------------------------------------------------------------------
Boot == ApplyIdentity \/ Rotate \/ RecordIdentity \/ PrepareAuthority \/ Stop \/ CopyDisk

Command(c) ==
  \/ \E work \in Work : StartCommand(c, work)
  \/ LoadKeys(c) \/ LoadTokens(c) \/ MarkRevoked(c)
  \/ SaveKeys(c) \/ SaveTokens(c) \/ WriteRevocationList(c) \/ SaveRecords(c)
  \/ Report(c) \/ CommandEnds(c)

Request(r) ==
  \/ \E t \in Tokens : RedeemReads(r, t)
  \/ RedeemWrites(r) \/ IssueReads(r) \/ IssueWrites(r) \/ Answer(r)
  \/ RequestFails(r)

Next ==
  \/ Boot
  \/ \E c \in Commands : Command(c)
  \/ VerifyKey
  \/ \E r \in Requests : Request(r)
  \/ \E t \in Tokens : TokenExpires(t)

Spec == Init /\ [][Next]_vars
-----------------------------------------------------------------------------
(* commands/api.rs takes the lock over the whole of load, change and save, so
   that, keystore.rs has it, "two concurrent CLI invocations cannot silently
   drop each other's keys".  A key whose creation was reported is there until
   somebody asks for its end or the disk becomes another box's; one whose
   revocation was reported is not; and what the server takes for the store is
   the store. *)
KeysFollowCommands ==
  /\ \A k \in Keys :
       /\ told[k] = "created" /\ made[k] = box => k \in keys
       /\ told[k] = "revoked" => k \notin keys
  /\ cache.current => cache.known = keys

(* Revocation goes by serial.  While sshd trusts an authority, each certificate
   of it that somebody was given has a record and a serial of its own, so that
   it can be revoked, and without another; a record says revoked only if sshd
   was told, and what was reported revoked, sshd refuses. *)
RevocationReaches ==
  boot = "up" =>
    /\ \A d \in delivered : d.ca = ca =>
         /\ \E r \in records : r.serial = d.serial /\ r.token = d.token
         /\ \A e \in delivered : e.ca = ca /\ e.serial = d.serial => e = d
    /\ Listed(records) \subseteq krl
    /\ \A s \in Serials : <<s, ca>> \in refused => s \in krl

(* identity.sh: a copied disk must not let in whom the original let in.  Once
   anything serves, all there is to be let in by was made on this box, however
   often the rotation was interrupted. *)
CopyHoldsNothing ==
  Serving =>
    /\ ca \in {0, box}
    /\ \A x \in keys \cup tokens \cup {r.token : r \in records} : made[x] = box

(* docs/ssh.md, certificates.ts: a token works once *)
TokensBuyOnce == \A t \in Tokens : bought[t] =< 1
=============================================================================
