# Composery, specified

A TLA+ development kept beside the Composery repository. It specifies the parts
of the hosted service whose correctness rests on interleavings, failures and
recovery: what a box (a customer's VPS running the Composery container) may go
through, what the backend promises about it, and, on the box, how the host keeps
its files and how several windows share one of its terminals.

`src/packages/web/convex` is the backend: Convex functions (serialisable
mutations, queries, and actions that call mutations and the outside world),
durable workflows of the `@convex-dev/workflow` component, crons and HTTP
endpoints. `src/packages/cli` is the Rust program on the host that keeps a box's
filesystem over container replacements. `src/packages/ide` patches an editor and
lays files of its own over it.

## 1. Inventory

| Component | State it keeps | Operations | What is hard | What makes it correct |
|---|---|---|---|---|
| Operation lock (`boxes/operation`, `model/box/operation.ts`, `workflows/boxWorkflow.ts`) | `boxes.status`, `box_operations`, the component's workflows | `startOperation`, `markOperationRunning`, terminal mutations, `markOperationFailed`, `settleOperation`, `finishBoxOperation`, `sweepStuckOperations`, `cancelOperation` | workflow, callback, sweep and cancellation race to close one row; calls between actions are not atomic; callbacks get lost | one operation per box; a transient status always has its operation; an operation is closed once, and no rescuer closes it again; a dead workflow frees its box |
| Box workflows (`boxes/workflows`) | server, DNS, image, parking volume fields of the box | create, delete, reset, restore, repair, update, start, stop, suspend, unsuspend, change password, slug and config | any step may fail after its effect; a retried repair resumes from a recorded stage | the customer's files survive every failed repair; a box never serves two slugs |
| Snapshots (`boxes/snapshots.ts`, `snapshotPolicy.ts`) | `box_snapshots` rows, provider images | begin, complete, fail, evict, delete, expire, restore, supersede the rollback | rows and images are changed by different transactions; caps and eviction race with captures | an image with a restorable row exists; caps hold; a running capture is never deleted |
| Automatic repair (`boxes/autoRepair.ts`) | consecutive failures, attempts in a window | health sweep | the sweep reads, probes over the network, then acts on what it read; the fleet's own operations look like an owner's | at most so many repairs in a window; a box that stays down is repaired or reported |
| Checkout (`checkout`, `owner/checkout.ts`) | `checkout_intents`, reservations | create, expire, convert, refuse and refund | payment webhooks arrive late, twice or after expiry; the last slot and the slug are raced for | a payment buys exactly one box, is refunded, or is put before staff; capacity and slugs are never oversold |
| Capacity, slugs (`capacity.ts`, `slugAvailability.ts`) | counts, reserved and historical slugs | reserve, free, swap | checked in one transaction, used in a later one | one holder per slug |
| Billing (`billing`) | `polar_*` fields, webhook log | webhooks, hourly reconciliation | webhooks out of order or missed | a box whose subscription ended is deleted, no other |
| Account deletion (`account`) | deletion stage | request, sweep, finalise, purge | staged over many mutations with other actors alive | nothing of a deleted account is left running |
| Cleanup, retention (`cleanup.ts`, `retention.ts`, `reconcile.ts`) | purge dates, tombstones | retry failed deletions, normalise, purge, reconcile the provider | partial failure, resources with no row and rows with no resource | never deletes a resource a live box uses |
| Instance authentication (`instance/auth.ts`, the editor's `cloudAuth.ts`) | codes, grants; the password in the row, in the container's environment, in the editor's file and in the running editor | authorise, exchange, set with a grant, change, reconcile | four copies written by different calls, each of which may fail, be late or be overtaken | a capability is spent once; the last password taken is the one asked for |
| Versions (`version.ts`, `instance/release.ts`) | release of row, compose file and container; floors, deadlines | refresh, update, skip, force update | the three are written one after the other; a forced update that failed must come again | a running box has the image its row names; a floor is crossed |
| Alerts, notices (`staff/alerts.ts`, `notice`) | alert rows; a notice's row, cursor and recipients | raise, retry, resolve, walk, record events | several walks over one cursor, mail that is refused or bounces, settings that change | who is owed a notice gets it, once; failures reach staff; alerts leave |
| Metrics, usage (`metrics*.ts`, `usage.ts`) | samples, roll-ups, counters | poll, roll up, prune | counter resets, period boundary | traffic counted once |
| Provider clients (`boxes/infra`) | none | HTTP and SSH | I/O | - |
| Host persistence daemon (`cli/crates/persistence`) | copies, markers and metadata on the volume; baseline of the image; dirty queue | watch, audit, take, copy, flush, replay at container start | crash at any write, a file that changes under its copy, lost notices, a new image under an old volume | no copy mixes two versions of a file; untouched files follow the image; what differs is recovered |
| Instance access (`cli/crates/composery`, the editor's `ssh/certificates.ts`, `routes/ssh.ts`, `api/keystore.ts`; `identity.sh`, `ssh.sh`) | files of the volume: API keys, enrollment tokens, certificate records, the SSH authority, the list of revoked serials, whose disk it is | make and revoke a key, mint and redeem a token, issue and revoke a certificate, verify a key, rotate at the boot of a copied disk | a process per command and the server on one file; the server takes no lock; a change of two files, or a rotation, cut short | what a command reported stays so; what was revoked is refused; a copied disk lets nobody in |
| Terminals (`ide/patches/terminal-*.diff`, `overlay/.../terminal*State.ts`, `routes/api/terminals.ts`) | windows attached and streaming, the queue of starts, places in the output, one flow-control counter | attach, start, replay, detach, acknowledge, stream | a replay is addressed to nobody, events arrive late, clients leave and stop reading | no gap in a window's output; starts end; output held back flows again |
| Rest of the IDE, container files, web site | user interface, units, pages | - | - | - |

Components talk in four ways. Endpoints, crons and webhooks start operations
through one mutation (`startOperation`). A workflow changes box and operation
only through the mutations of `record.ts`. Everything else reads `boxes.status`
and takes it as truth: a box in a transient status is "being worked on", a box in
`running` is polled, probed, snapshotted and billed. The editor on a box calls
the backend over HTTP and may give up on an answer. The world outside (the
provider, the host, the component itself) is reached from actions, which are not
transactional and can stop between any two calls.

## 2. Plan

Modules in order, the most important behaviour first. All but the last row are
written.

| # | Module | Models | Uses | Theorems |
|---|---|---|---|---|
| 1 | `BoxLock`, `BoxOperation` (over `BoxCatalogue`) | the operation lock, abstract and as implemented | - | typing, mutual exclusion, implementation, and the abstract lock's law carried over |
| 2 | `BoxRepair` | the owner's files through repair, reset, restore, deletion | catalogue (statuses) | typing, files kept |
| 3 | `BoxSnapshots` | rows, provider images, caps, undo points, retention | catalogue | typing, restorable rows, undo point first, captures fit the split |
| 4 | `Checkout` | reservations and how they end, Polar's webhooks in any order, conversion, refusal and refund, the box's life as far as its order and its subscription decide it, slug changes, account deletion | catalogue (which statuses may be deleted) | typing, slugs exclusive, capacity, an outcome for every order, delivered orders kept |
| 5 | `Persistence` | the host daemon: live files, notices, queue, audit, copies, markers, metadata, replay, new images, crash between any two writes | - | typing, no torn copy, untouched files follow the image |
| 6 | `Password` | codes and grants, the four places of a password, reconciliation, operations and retries | the lock, by one `op` at a time | typing, capabilities spent once, the row keeps the last, held is on its way |
| 7 | `BoxUpkeep` | health sweep and automatic repair; update, skip, floor and deadline; six operations on three names of an image | catalogue | typing, repairs bounded, running follows row |
| 8 | `Notices` | a legal notice's walk and evidence; alerts and their retry | - | typing, reaches those owed, evidence agrees, failures reported |
| 9 | `SharedTerminal` | one terminal among windows and API streams: attach, start, replay, flow control | - | typing, nothing missed, started windows stream |
| 10 | `InstanceAccess` | keys, tokens, certificates and revocations in files that commands and the server change; the rotation of a copied disk | - | typing, a copy holds nothing, keys follow commands, revocation reaches |
| 11 | `Cleanup`, usage counter | failed deletions retried, purge dates, pseudonymised accounts; traffic over server rebuilds | `Checkout`'s account deletion | - |

Abstract specifications. `BoxLock` is the abstract specification of the lock
and `BoxOperation` implements it. The other modules take from it that a box has
one operation at a time: their operations start through the same catalogue (or,
in `BoxRepair`, from the statuses it lists) and end through its outcomes.
`Checkout` could have one (an order is open, then a box, a refund or a matter
for staff), which its invariant `OrdersAreAccountedFor` and its property `PaidOrdersSettle` state
directly; so could `Persistence` (a file is what was last written), which
`Restored`, the entry a new container would have, and `AuditRecovers` state.

Runs. The project keeps to a dozen, one for each question it asks, and all are
in use. A property that is proved for every value of the constants gives way to
one that is only model-checked: the abstract lock, type invariants and other
proved facts have theorems and no run (section 7).

Theorems still worth having: that `BoxRepair` keeps `FilesKept` without the
fault "late reconcile" excluded, which needs the reconciliation's grace window
as time rather than as a fault; and that `Persistence` implements a file system
of which every file is what was last written or what the image has, for which
`LeftInv` is a start.

## 3. What the modules are, and how they correspond to the code

A Convex mutation is serialisable and all or nothing, so each is one action. A
Convex action or an HTTP handler is as many TLA+ actions as it makes calls. A
workflow is a `pc`: a step that is an action is retried by the component, so its
effect may happen, be reported failed and happen again; a step that is a
mutation happens once. A workflow may stop at any step.

### `BoxCatalogue` - the table of operations

`BOX_OPERATIONS` of `model/box/operation.ts` as four operators: `From` (the
gate), `During`, `OnFailure`, `OnSuccess`, and `Critical`; `Superseding` are the
types whose workflow has a call left after its terminal mutation. `null` of the table
is `NoStatus`, and `Moved` is the patch the code makes only when there is a
status to write.

### `BoxLock` - the lock as a promise

State: `status[b]`, and for each operation `lock[o]` ("free", "held",
"succeeded", "failed", "overturned"), its box and its type. `AcquireNew` inserts a box with
its create operation, `Acquire` takes an existing one through the gate,
`Release` closes the operation with the status its outcome decides. `Overturn` is
what the code does beyond that: an update, a reset or a restore that throws after
it has succeeded is recorded as failed, and its failure's status is written
whoever holds the box by then. It takes all fourteen types. What it promises is proved, and `BoxOperation` is checked and
proved to implement it.

### `BoxOperation` - the lock as implemented

| State | Code |
|---|---|
| `status`, `opStatus`, `opBox`, `opType` | `boxes.status`, rows of `box_operations` |
| `overturned` | history: operations whose failure was recorded over their success |
| `workflow`, `callback` | what the workflow component reports, and whether it still owes `onComplete` (external) |
| `pc` | where the handler of `defineBoxWorkflow` stands |
| `acting` | an external action of the body is executing on the box |
| `sweep`, `cancel` | where `sweepStuckOperations` and staff's `cancelOperation` stand with an operation, between their calls |

| Actions | Code |
|---|---|
| `CreateBox`, `StartOperation` | `insertBoxWithCreateOperation`, `startOperation` |
| `MarkOperationRunning`, `BodyActs`, `ActionReturns`, `BodySucceeds`, `Supersede`, `SnapshotReturns`, `BodyThrows`, `MarkOperationFailed`, `SettleOperation` | `defineBoxWorkflow` and the mutations of `record.ts` it ends in |
| `WorkflowDies`, `FinishBoxOperation`, `LoseCallback`, `ForgetWorkflow` | the component stopping a workflow, its callback, the callback lost, and the clean-up of its own rows |
| `SweepLists`, `SweepJudges`, `SweepFails`, `SweepGivesUp` | `sweep.ts`: one list, then per operation one status call and one mutation |
| `CancelReads`, `CancelStopsWorkflow`, `CancelRecords`, `CancelDies` | `cancelOperation`: three calls |

One `try` holds the whole body. After the terminal mutation of an update, a reset
or a restore, `supersedeRollbackSnapshots` is still to be called in it, with the
operation closed and the box free; when it throws, the catch writes as it always
does, guarded by nothing (`updateBox.ts:93`, `boxWorkflow.ts:89`).

The refinement mapping reads the lock off the rows: an operation without a row
is "free", a pending or running one "held", a closed one its outcome, or
"overturned" if it had another before.

### `BoxRepair` - where the files are

State: the row's `status`, `parking_volume_id` and `parking_volume_stage`; the
workflow's `pc` and its own copy of the volume id; the server (what runs on it
and which version of the files its disk has); the volumes at the provider and
what each holds; two sets by which the reconciliation's grace window and the
gap between its check and its call are modelled; and `owned`, the version the
owner is entitled to, a history variable that the owner's writes move on and
that a reset or a restore replaces.

One action per step of `repairBox.ts`, in the code's order; `Rebuild` (reset
and restore) and `Delete` are as detailed as the files need. File contents are
versions, with a blank one for a fresh disk and a garbled one for an
interrupted copy. Two things the world may do are named in the constant
`Faults` and left out unless it lists them: a host that an earlier repair has
rebuilt answers the in-place attempt of the next ("healed in place"), and a
repair takes a volume up between the reconciliation's look and its call ("late
reconcile").

### `BoxSnapshots` - rows and images

| State | Code |
|---|---|
| `status`, `manualCap` | `boxes.status`, `boxes.manual_snapshot_cap` |
| `begun`, `class`, `row`, `named` | rows of `box_snapshots` in order of `created_at`: class, status, whether `hetzner_image_id` is set |
| `image` | the provider's image with the row's label |
| `deleter` | where `runDelete` stands with a row: asked for, row marked, image deleted |
| `op`, `pc`, `cur`, `source` | the operation in progress, the next step, the row it captures, the row a restore reads |
| `tails` | superseding passes still to run after their operation has released the lock |
| `promised` | history: the copies the owner relies on |

Actions: the four ways an operation with a capture starts and the deletion;
`captureSnapshotImage` step by step; `Destroy`, the first effect that cannot be
undone; the success mutation; `supersedeRollbackSnapshots`, and its loss; the
owner's `setSnapshotSplit` and `deleteSnapshot`; `claimExpiredSnapshots`;
`purgeBox`; `runDelete` call by call, with a death between any two;
`reconcileHetznerResources` for images. The scheduler runs an action at most
once, so a deletion that dies is not run again unless somebody asks again. To
this module a reset is an update that is never skipped, so its instance has
"update" and "restore".

### `Checkout` - an order and its box

| State | Code |
|---|---|
| `status`, `owner`, `slug`, `session`, `order`, `reason` | rows of `box_checkout_intents`: status, customer, slug, `polar_checkout_id`, `polar_order_id`, release reason |
| `box`, `boxSlug`, `paidBy`, `reserved` | the box converted from an intent: its status, its slug, its subscription and the slug a change has reserved |
| `alerted` | sales staff have been asked to refund by hand |
| `admitted`, `opening` | calls of `createCheckout` in flight: past the account check, opening a session |
| `intentOf`, `polar`, `money`, `sub` | Polar's side of a sale (external): the reservation its session carries, whether it is paid, where its money is, its subscription |
| `events`, `handler` | webhooks Polar has not had an answer to, and the calls a handler has still to make |
| `deletion` | how far each account's deletion is |
| `troubles` | how many disturbances have been used up |

| Actions | Code |
|---|---|
| `Admitted`, `ReserveCheckoutIntent`, `ResumeCheckoutIntent`, `CreateCheckoutSession`, `AttachPolarCheckout`, `CheckoutCreationFails`, `CheckoutDies` | `createCheckout`, call by call |
| `StaffReleaseCheckoutIntent`, `ReleaseExpiredCheckoutIntents` | the other ways a reservation ends unpaid |
| `HandlePaidOrder`, `ConvertCheckoutIntentToBox`, `RevokeUnfulfilled`, `RefundUnfulfilled` | `handlePaidOrder`: record, convert, and when refused revoke and refund, each a call that may be the last |
| `AlertUnsubscribedOrder`, `PassOverRefundedOrder` | the same two webhooks for an order that opened no subscription: an alert, and nothing |
| `HandleRefundedOrder`, `RevokeRefunded`, `HandleClosedCheckout`, `HandleRevokedSubscription` | the other webhooks |
| `ReconcileBoxDeletion` | one box of the hourly reconciliation |
| `CreateSucceeds`, `GivenBack`, `CreateFails`, `StartSlugChange`, `SwapSlug`, `SlugChangeFails`, `BoxIsDeleted` | the box's workflows, as far as an order or a slug is concerned |
| `MarkAccountDeletionPending`, `StartDeletionWorkflow`, `AccountDeletionReady`, `FinishAccountDeletion` | `account/deletion.ts`: the request, and its sweep in two transactions |
| `Pay`, `SessionCloses`, `SubscriptionRunsOut`, `RefundFromOutside`, `Redeliver` | Polar (external) |

A webhook is delivered until it is answered, again after a handler has died, and
beside itself (`Redeliver`). `convertCheckoutIntentToBox` is one mutation and one
action: the replay of a decision already taken, the refusals in the code's order,
and the box with its create operation. A subscription ends with a
`subscription.revoked` webhook whoever ends it.

Two assumptions are constants. `PaysOnce`: no two sessions of one reservation
are both paid. `AttachRaces`: whether an order may be handled while a further
session for its reservation is being opened, which takes a customer who pays in
one window and reloads the plan page in another within seconds.

### `Persistence` - the files of a container on its volume

| State | Code |
|---|---|
| `image`, `live` | the image the container runs, with its `BaselineDb`; the container's root file system |
| `changed`, `removed`, `meta` | the three stores on the volume: `changed/`, the markers under `removed/`, `metadata.jsonl` |
| `dirty` | the bounded queue of `DirtySender` |
| `store`, `batch`, `retry`, `writer` | `writer_loop`: the working set of the metadata, the paths of the batch, those to be queued again, and where the call for the last path stands |
| `daemon`, `phase` | whether the daemon runs, and what is left of `apply_public_truth` when a container starts |
| `missed`, `touched` | history: paths whose last change nobody was told of; paths a user ever changed |

| Actions | Code |
|---|---|
| `WriteFile`, `TouchFile`, `PutBack`, `MakeDir`, `Delete`, `MoveAway` | users (external), each with or without the watcher's notice (`run_loop`, `DirtySender::send`) |
| `AuditFlags` | `audit::run_once`, one path of it |
| `Takes`, `LoadFails` | `writer_loop` taking a path; `update_public_path` deciding what it needs |
| `RemoveTree`, `WriteMarker`, `RemoveEntry`, `PrepareCopy`, `ReadFile`, `Publish`, `Unstable`, `Dress`, `RemoveMarker`, `UpdateFails` | the file system calls of `update_public_path` and `copy_regular_stable`, one by one |
| `FlushSucceeds`, `FlushFails`, `Requeues` | the end of a batch |
| `DaemonDies`, `DaemonStarts`, `ContainerRestarts`, `ContainerIsCreated` | stop or crash, start, restart of the same container, a new one of any image |
| `ApplyRemoved`, `ApplyChanged`, `ApplyMetadata` | the three passes of the replay |

An entry is a directory, a file with a content and facts (mode, owner, times), or
nothing. Contents are values, and a file that is written gets facts of its own;
`PutBack` gives a file its image's content and times again. `Restored` is what
the replay would make of the image now.

### `Password` - four places, one password

| State | Code |
|---|---|
| `held`, `env`, `config`, `args` | `boxes.runtime_auth_hash`, `COMPOSERY_HASHED_PASSWORD` of the container, the editor's config file, the running editor's arguments |
| `code`, `grant`, `cookie` | `box_auth_codes`, `box_auth_grants`, the grant in the owner's browser |
| `request`, `proof` | where the handler of a submission stands, and what it proves itself with |
| `due`, `sawHeld` | the scheduled attempt of `reconcilePassword`, and that it has found its hash in the row |
| `op`, `usable` | the box's operation as far as it renders an environment, and whether the status lets a password change begin |
| `mintedBy`, `spentOn`, `last`, `overlapped`, `abandoned` | history |

| Actions | Code |
|---|---|
| `StoreAuthorizationCode`, `ExchangeCode`, `CodeExpires`, `GrantExpires` | `instance/auth.ts` and the editor's `/callback` |
| `Register`, `ProveCurrent`, `ChangeCloudPassword`, `CallTimesOut`, `WriteConfig`, `WriteArgs`, `EditorRestarts` | the editor's two forms, call by call, and its start |
| `ClaimGrantForPassword`, `ApplyPasswordChange`, `CallRefused`, `CallLost` | the service's end of the call |
| `ReconcileReads`, `ReconcileStarts`, `ReconcileIsRefused`, `ReconcileDies` | `reconcilePassword`: one read, one start, the retry |
| `RenderBegins`, `RenderReads`, `Recreates`, `ActionIsRetried`, `RenderSucceeds`, `UpdateRuntimeAuthHash`, `OperationFails` | an operation that renders the environment: from the row, or, for `change_password`, from its argument |

### `BoxUpkeep` - serving, and serving the right release

| State | Code |
|---|---|
| `status`, `pc`, `target` | `boxes.status`, the operation's next step, the image it works with |
| `row`, `compose`, `container`, `fault` | `boxes.runtime_image`, the image the host's compose file names, the one that runs, what keeps the editor from answering |
| `saved` | the image recorded with each complete snapshot |
| `channel`, `floor`, `since` | what the channel resolves to, `minimum_runtime_*`, and (history) what the channel has named since |
| `failures`, `alerted` | `box_health.consecutive_failures`, the alert of the window |
| `ownerAge`, `repairs`, `hour` | ages, in ticks, of what `autoRepairFacts` reads |
| `sweep`, `floorSweep` | where the two sweeps stand with this box, between their calls |

| Actions | Code |
|---|---|
| `PersonStarts` and the steps from `ResolveChannel` to `MarkSucceeded` | `startBoxOperation` and the workflows of update, repair, reset, restore, stop and start, with what each writes to host and row |
| `StepThrows`, `UpdateRuntimeFails`, `RepairFails` | their failures, before or after the effect |
| `SweepLists`, `SweepProbes`, `SweepDecides`, `SweepRepairs`, `SweepAlerts`, `SweepIsRefused`, `SweepThrows` | `sweepBoxHealth`, call by call |
| `FloorLists`, `FloorUpdates`, `FloorIsRefused` | `updateBoxesPastDeadline` |
| `ChannelMoves`, `SetMinimumRuntime`, `DeadlinePasses`, `BoxBreaks`, `ProbeTimesOut`, `Tick` | releases, staff, the owner, the network, time |

### `Notices` - one notice, and the alerts about it

| State | Code |
|---|---|
| `settings` | which senders the environment names, whether there is staff to mail, whether the mail component takes mail |
| `accounts`, `forgotten` | rows of `users` by `created_at`; those whose deletion has finished |
| `calls` | runs of `sendLegalNotice` that are scheduled |
| `notice`, `recipient` | the rows of `legal_notices` (cursor, cutoff, count, end) and `legal_notice_recipients` |
| `alert`, `waiting` | the rows of `staff_alerts` by key, and the order of those not handed over |
| `aged`, `renewals`, `mailed`, `undelivered` | retention, and history |

| Actions | Code |
|---|---|
| `SweepLegalNotices`, `Unsendable`, `AlreadyFinished`, `SendPage` | `notice/legal.ts`: the sweep, and a run with its returns; a page is one transaction that schedules the next |
| `SixYearsPass`, `PurgeExpiredLegalNotices` | retention |
| `RaiseAlert` (within the others), `RetryPending`, `PurgeExpiredAlerts` | `staff/alerts.ts` |
| `RecipientEvent`, `UnmatchedEvent` | `recordEmailEvent`: matched to a row, or to none |
| `NoticeNotSent`, `SignUp`, `DeletionFinishes`, `Reconfigure` | a notice to an owner that could not be queued, accounts that come and go, the deployment's settings |

### `SharedTerminal` - one terminal, several clients

| State | Code |
|---|---|
| `window`, `view`, `stream`, `unread`, `stuck` | the clients: where a visit stands, what it shows, what it has not acknowledged, whether it has stopped reading |
| `attached`, `streaming`, `fresh` | `TerminalClientState` and `_freshPtys` of the server |
| `starts`, `run`, `heard`, `expecting` | `TerminalStartState`: the queue, its head, its replay waiter, who expects a replay |
| `events` | from the pty host to the server, in order |
| `process`, `held`, `replays` | the host: the process, whether anybody holds it, replays under way |
| `position`, `produced`, `acknowledged`, `pending`, `paused` | `TerminalClients` and `TerminalDataFlowControl`, and the process's own counter |

| Actions | Code |
|---|---|
| `Attach`, `HearAttached`, `HearRefused` | `AttachToProcess`: the call, what is done after it |
| `Start`, `CallStart`, `HearStarted`, `StartReplayed`, `StartExited`, `StartTimesOut` | `Start` and `TerminalStartState.run` |
| `Detach`, `LastDetaches`, `Close`, `Acknowledge`, `GetsStuck` | the window's other calls, and its disappearance |
| `OpenStream`, `StartStream`, `CloseStream` | the API's WebSocket handler |
| `Replay`, `Output`, `Exit` | the pty host and the process |
| `ServerHears` | the next event and what each listener does with it |

A call to the host takes effect when it is made and its answer comes back with
the events: the server sees the host only through what it hears, so when exactly
a call arrives makes no difference to it. Three things windows may do are named
in the constant `Faults` and left out unless it lists them ("joins_fresh",
"leaves_early", "crosses_a_leave"); section 6 says what they do.

### `InstanceAccess` - the files that let somebody in

| State | Code |
|---|---|
| `box`, `recorded`, `boot` | `COMPOSERY_CLOUD_BOX_ID`, `instance/identity` on the volume, and where the boot stands, which removes file after file when the two differ |
| `ca`, `krl` | the SSH authority by the box it was made on, and the serials sshd refuses |
| `keys`, `tokens`, `records` | `api/keys.json`, `ssh/enrollments.json`, `ssh/certificates.json` |
| `cache` | the server's copy of the key store, and whether the file's time and size still pass for it |
| `cli`, `req` | commands (what they are to do, how far they are, what they have read) and enrollments in the server's hands |
| `expired`, `made`, `told`, `delivered`, `refused`, `bought` | time, and history: what people outside were told or given |

| Actions | Code |
|---|---|
| `StartCommand` (and the operator `Lock`), `LoadKeys`, `SaveKeys`, `LoadTokens`, `SaveTokens`, `Report`, `CommandEnds` | `commands/api.rs`, `keystore.rs`, `enrollments.rs`: lock, load, change, save, tell |
| `MarkRevoked`, `WriteRevocationList`, `SaveRecords` | `ssh revoke`: the list for sshd first, the record after it |
| `RedeemReads`, `RedeemWrites`, `IssueReads`, `IssueWrites`, `Answer`, `RequestFails` | `POST /enroll` and `ssh/certificates.ts`, across its awaits |
| `VerifyKey` | `readStore` and `verifyKey` of `api/keystore.ts` |
| `RecordOnSight`, `ApplyIdentity`, `Rotate`, `RecordIdentity`, `PrepareAuthority` | `identity.sh` and `ssh.sh` at the boot |
| `Stop`, `CopyDisk`, `TokenExpires` | the engine, whoever copies a disk, time |

Everything stops when the container does, between any two file operations. Two
things are named in `Faults` and left out unless it lists them: a command or
another enrollment comes between the server's read and its write of one file
("overlap"), and two saves of the key store share a time and a size ("tick").

## 4. The passing runs

| Run | Instance | Properties | What it shows |
|---|---|---|---|
| `box_operation` | 1 box, 2 operations, three types, one of each shape | `WorkflowHoldsLock`, `ImplementsLock`, `FinishedWorkflowFreesBox` | the workflow, the callback, the sweep and a cancellation, late or early, of this or of the earlier operation, close each operation once and never touch the next one; only a throw after the terminal mutation does, as the abstract lock says; and whatever loses the callback, an ended workflow's operation is closed |
| `box_repair` | 2 volumes, 2 writes, no fault | `FilesKept`, `OrphansAreReclaimed` | every failure of every step of repair after repair, with resets, restores and deletions between: the files are always where the next repair looks |
| `box_snapshots` | 2 rows, a cap of 1 | `CompleteRowsAreRestorable`, `PromisedCopiesExist`, `CapturesFitTheSplit`, `LeftoversAreReclaimed` | captures, failures, deletions, expiries, evictions and changes of the split in any order: a promised copy stays restorable, and no image outlives what could offer it |
| `checkout` | 3 reservations, 2 sales, 3 slugs, 2 packages, 2 disturbances | `SlugsAreExclusive`, `CapacityNotOversold`, `OrdersAreAccountedFor`, `FulfilledOrdersAreKept` | late, repeated, overtaking and half-handled webhooks, expiries, renames and an account deletion: an answered order has its box or its money back, or opened no subscription and is with staff, and nothing is sold twice |
| `checkout_settles` | 2 reservations, 1 sale, 2 slugs, 4 disturbances | `PaidOrdersSettle`, `BoxesFollowTheirSubscription`, `AccountDeletionsFinish` | a paid order ends with its box, its money back or an alert, a box goes when its subscription or order does, and an account's deletion ends |
| `persistence` | a directory and the file in it, 3 images (with the file, without, with a file for the directory), a queue of 2, 2 edits, 2 troubles | `NoTornCopy`, `LeftoversHaveANotice`, `UntouchedFollowImage`, `AuditRecovers` | every order of two changes, the writer's calls, audits, lost notices, new images, restarts, crashes and failed calls: no copy mixes two versions, what the audit cannot see has a notice, untouched files follow the image, and the content of all that differs is recovered |
| `password` | 2 submissions, 1 code, 2 grants, 2 attempts, 1 trouble | `RowKeepsLast`, `HeldIsOnItsWay`, `LastPasswordSettles` | two submissions, by grant or over the current password, with every order of calls, reconciliations, operations and restarts: the service keeps the last hash it took and the box ends up asking for it |
| `notices` | 2 accounts, pages and batches of 1, 2 runs at once, 1 trouble, 1 purge | `ReachesThoseOwed`, `EvidenceAgrees`, `FailuresAreReported`, `NoticeFinishes`, `AlertsLeave` | walks that interleave over one cursor while accounts, senders and rows come and go: everyone owed is told once, the evidence agrees with itself, failures reach staff, walk and alerts end |
| `box_upkeep` | 3 images, one of which never answers, limits of 2, 2 events | `RepairsAreBounded`, `RunningFollowsRow`, `DownIsHeard`, `FloorIsCrossed` | health sweep, floor sweep and people on one box, with failing steps: repairs stay within their limit, a running box has the image its row names, neither an outage nor a floor is forgotten |
| `shared_terminal` | 2 windows, 1 API stream, watermarks of 1, 2 pieces of output, 1 trouble | `StartedWindowsStream`, `HeldWhileAttached`, `NothingIsMissed`, `StartsEnd`, `OutputFlows` | clients that come, start, read, stop reading and leave in any order, with replays, output and the exit on their way: nobody misses output, starts end, output that was held back flows |
| `instance_access` | 2 commands, 2 enrollments, 2 keys, 2 tokens, of which 2 are made, 2 serials, 2 boxes, 2 stops, no fault | `KeysFollowCommands`, `RevocationReaches`, `CopyHoldsNothing` | commands and enrollments stopped or killed between any two file operations, on a disk that is copied and whose rotation is cut short anywhere: no command undoes another's, what was revoked is refused, the copy lets nobody in |

Bounds. Two operations on one box are enough for the lock: every race of
`BoxOperation` is between one operation's rescuers and the next operation, and
boxes share nothing (the theorems of section 7 have no such bound). All types
of one shape behave alike, so one of each is taken; the theorems have all
fourteen. Two volumes let a repair create a second one while an orphan of an
earlier repair is still there; two writes tell the files before, during and
after a repair apart. Two rows and a cap of one let a capture be at the cap,
evict, and be superseded by the next; each of the mutations of the model that
put a plausible bug in the code breaks its property at this size. Both rows
being used up, captures stop: the operations then still start and fail, so
nothing else is cut off. In `Checkout`, `MaxTroubles` bounds what goes wrong or
comes from outside: a webhook delivered again, a handler or a call that dies or
fails, an expiry, a session that closes, a reservation released by staff, a
refund made outside, an order that opens no subscription, a subscription that runs out, a slug change, a request to
delete the account. Two let one undo what another began (an expiry and a slug
change that takes the slug; a death and a refund), three reservations let a late
one ask for the slug and the package two others have, and two packages are what
those two take. One customer is enough because reservations and boxes of two are
distinguished only by `OwnReservation` and by the account deletion; the theorems
have any number.

In `Persistence` a directory and a file in it are the smallest tree in which an
ancestor may be missing, be a file, or carry the marker of its child, and three
images give every change of kind between two of them. Two edits let the second
come under the copy of the first; two troubles let a crash meet a restart or a
failed flush. A queue of two is full with one path in hand. In `Password` two
submissions are what it takes for one to overtake the other; a third would
overtake one of them in the same way. In `BoxUpkeep` two repairs in a
window are the code's limit and two failures in a row stand for its three, an
image that never answers makes updates fail of themselves, and two events on top are an outage and a
person's answer to it. In `Notices` two accounts and
pages of one put an account before, at and after the cursor of a second run. In
`SharedTerminal` one window and one stream are what may start a terminal beside
a window that is starting it; watermarks of one let every piece of output stop
the process. In `InstanceAccess` two commands are what the lock keeps apart and two
enrollments what the server does; two boxes are a disk and its copy, and two stops
cut a rotation short and let the next boot finish it.

Fairness. `box_operation`: the sweep is a cron that comes round for as long as
an operation is open, and its own calls do not fail every time; nothing else
is fair - callbacks may all be lost and workflows never end. `OrphansAreReclaimed`:
a workflow that has begun goes on (the component resumes it), a volume grows
older, and the daily reconciliation comes back and does not die every time.
`LeftoversAreReclaimed`: operations end (their retries and waits are bounded,
`SNAPSHOT_CAPTURE_DEADLINE_MS`), the purge of a deleted box comes back every
minute (`purgeBox`), the reconciliation every day, and a deletion that is asked
for for ever does not die every time. That last is strong fairness, since a
death between two calls takes the next one away. `checkout_settles`: weak
fairness of what is under way, taken together: the calls of `createCheckout`
already made, Polar's deliveries (it repeats a webhook until it is answered), the
workflows and the sweeps (hourly reconciliation, account deletion); and of a slug
change in progress. Nothing is assumed of customers or staff, and disturbances are finite.
`persistence`: the writer's thread, the replay and the daemon's start (supervisor)
go on; a flush that is tried for ever succeeds, and the audit, which comes round
by a timer, reaches every path, both strongly, since a crash or a restart takes
them away for a while. Nothing is assumed of the watcher. `password`: a scheduled
reconciliation comes to its turn and an operation that has begun ends, in success
or failure. `notices`: the two crons and the runs they schedule. `box_upkeep`: an
operation that has begun ends, both sweeps and the clock go on; of the health
sweep's calls, those that depend on the box being at rest are strongly fair,
because not every run of a sweep meets the box in the middle of an operation.
`shared_terminal`: the two processes handle what is before them, a client that
attached asks for its start, one whose start failed leaves, and every client that
has not stopped reading acknowledges; nobody has to come, to leave or to type.

Deadlock is not checked: a deleted box, one whose bounded operations are all
over, a container whose files are as the volume has them, a submission that is
through, rightly have nothing left to do.

## 5. Where the code and its documents disagree

TLC ends the run `healed_empty` with a counterexample: a repair that failed after
the rebuild is run again, its first attempt starts the containers on the empty
disk and is taken for a cure; the box is running without its files, which are on
the volume (`boxes/workflows/repairBox.ts:58`).

## 6. Observations without a run

Of these, what names a definition or a constant can be reproduced by checking
that definition, or with that constant set, on the instance of its module.

Operations and files:

- The catch of a workflow asks nothing of operation or box. An update, a reset or
  a restore whose `supersedeRollbackSnapshots` throws has already succeeded and
  released its box (`updateBox.ts:93`, `resetBox.ts:57`,
  `snapshotWorkflows.ts:227`); it is closed again as failed, and `update_failed`
  and the like are written over a box the next operation may hold, or have
  deleted (`operation/record.ts:270`), where `model/box/operation.ts:39` has
  `during` as the status the box has while its operation runs. It is `Overturn`
  of the abstract lock, so `ImplementsLock` holds and says that this is the only
  way; `OnlyHolderMovesBox` of `BoxOperation` is violated by it alone.
- A failed suspension writes `running`, also to a box that was `stopped`
  (`model/box/operation.ts:38` says that what is not critical fails "leaving a
  box exactly as usable as it was").
- `cancelOperation` stops the workflow, not the action it had called, so the
  next operation may act on the box beside it: `OneActorPerBox` of
  `BoxOperation` is violated by any cancellation during an action
  (`docs/developing/web/maintenance.md:238`).
- An error of `workflow.cancel` is dropped, and the surviving workflow later
  closes its operation and writes the status, both unguarded
  (`staff/boxes.ts:603`): with `ComponentCallsFail = TRUE`, `WorkflowHoldsLock`
  is violated.
- After a box was healed in place mid-restore and has been written to, a repair
  that goes on from the recorded stage copies the older files over it; a repair
  that heals in place leaves the pointer and the stage as they were, although
  `reconcile.ts:42` takes it that a succeeded repair clears them.
- The reconciliation looks and deletes in two calls (`reconcile.ts:181`); a
  repair that takes up an unrecorded volume in between loses it, and with the
  fault "late reconcile" `FilesKept` is violated. Two hours of grace make it
  improbable.
- The pointer is cleared before the volume is deleted (`repairBox.ts:228`), the
  comment at `operation/record.ts:593` has it the other way round.

Snapshots:

- With `SupersedeIsLate = TRUE`, `PromisedCopiesExist` is violated: the pass that
  removes old undo points runs after its operation has released the lock. The
  next operation may have begun its capture, whose row is not complete and so not
  kept; `completeSnapshot` returns silently on it, and the operation goes on
  without a copy (`boxes/snapshots.ts:599`).
- A snapshot row left at "deleting" by a `runDelete` that died is in none of the
  statuses the daily sweep claims (`snapshots.ts:62`), so it stays, with its
  image, until the owner asks again or the box is purged.
- Rows outside the split are not evicted when it moves, so moving it to and fro
  lets manual and automatic rows together exceed the plan's number
  (`capacity.ts:116` says moving never changes how many the box can hold).
- Updates that fail again and again keep a complete undo point each until it
  expires, as the superseding pass runs only after a success; the reserved
  slots of `capacity.ts:97` count two.
- A cancelled capture's pending row blocks manual snapshots for up to a day; a
  daily eviction is asked for before the capture it makes room for has
  succeeded.

Orders and accounts:

- `billing/webhooks.ts:99` says of a first payment that it is "turned into a box
  or refused outright. There is no third outcome". There is one, ten lines down:
  an order with that billing reason that carries no subscription raises an alert
  that asks staff to refund it by hand, and is answered (`AlertUnsubscribedOrder`);
  its `order.refunded` is passed over. `OrdersAreAccountedFor` and
  `PaidOrdersSettle` except such an order once the alert is out.
- With `PaysOnce = FALSE`, `OrdersAreAccountedFor` is violated: two sessions of one
  reservation are paid, the first order is refused as a mismatch, and its
  `order.refunded` releases the reservation as `order_fully_refunded`. The second
  order finds that reason, which is about the other order's money, and is answered
  with neither a box nor a refund (`checkout/checkoutConversion.ts:142`), against the same comment.
- `DeletedAccountsOwnNoBox` of `Checkout` is violated:
  `convertCheckoutIntentToBox` never looks at the account. A reservation that had
  lapsed before `markAccountDeletionPending`, or is made after it by a
  `createCheckout` that had passed its check, still converts when it is paid
  (`checkoutConversion.ts:172`), also after the deletion found no boxes left
  (`account/deletion.ts:139` promises the contrary).
- With `AttachRaces = TRUE`, `FulfilledOrdersAreKept` is violated:
  `attachPolarCheckout` writes a further session's id into a reservation that was
  converted meanwhile, the `order.paid` that is delivered again then looks like a
  mismatch, and the order of the running box is revoked and refunded
  (`billing/webhooks.test.ts:269` tests the mismatch, not this way to it).
- An order refunded before its late conversion gets a box, which lives until the
  hourly reconciliation finds its subscription ended.
- `changeSlug` does not refuse the box's own slug; `attachPolarCheckout` also
  writes on reservations that are over.

Passwords:

- `LastPasswordWins` of `Password` is violated: a change that completes writes the
  hash it was started with over one taken meanwhile, whose own reconciliation then
  finds another hash and returns (`operation/record.ts:364`,
  `instance/auth.ts:366`), while the editor had accepted it. `RowKeepsLast` says
  that this overlap is the only way.
- A `change_password` operation that fails is not tried again: the row keeps the
  new hash, the environment the old one, and the next start of the editor brings
  the old password back until some operation renders the environment
  (`passwordConfig.ts:28` lets the environment outrank the file).

Files on the volume:

- `NothingIsMissedForGood` of `Persistence` is violated: a change the watcher
  missed waits for the audit, and a container that is replaced before it takes the
  change with it (`audit.rs:178`; `dirty.rs:52` sheds on the audit's word;
  `docs/persistence.md:146` has the audit find whatever was missed).
- A metadata record left by a failed flush or a crash overrides the facts of the
  copy at the next replay, so that `AuditRecovers` can speak of content only; a
  crash between the publication of a copy and `apply_facts` leaves the copy with
  facts of its own until the path is taken again.
- A restart of the same container replays before the audit looks, so a copy older
  than the live file overwrites an edit the writer had not reached
  (`apply.rs:21`, where `daemon.rs:467` says the audit recovers it).
- Directories made to hold a child's copy stay when the child's copy goes
  (`update.rs:505`) and come back in the container; moving a directory away and
  making one anew leaves the copies of its children until the next audit; making
  a deleted directory anew clears its marker, and its children of the image are
  back until the next audit marks them; a path deleted with its directory stays
  deleted under later images.
- The watcher's thread ends when a directory vanishes before it is registered; a
  write of the same size within one tick of the clock is not seen by the copy's
  comparison of facts; a symlink among the ancestors of a marker ends the replay.

Sweeps over boxes:

- `updateAlreadyApplied` compares the box's row with the channel
  (`boxes/version.ts:103`). A failed update leaves the row at the old image while
  the compose file already names the new one; when the channel is put back to the
  old image, updating the `update_failed` box again is skipped and sets it
  running, on the image that failed, where the comment above has it skipped
  "because the box already runs the digest the channel resolved to".
  `RunningFollowsRow` of `BoxUpkeep` holds but for such a skip, which the history
  variable `passedOver` remembers.
- A box at `restore_failed`, `reset_failed` or `repair_failed` that serves is
  reached by neither sweep: it stays below a floor until somebody acts.
- The forced update also takes boxes ahead of the floor's image, since digests
  have no order, and is repeated every hour as a skip where the channel and the
  floor differ.
- The count of failures is not reset by a repair, so the probe after one that
  healed slowly may start the next; an operation of the owner that begins and ends
  between the read of the facts and the start of the repair is not seen.

Notices and alerts:

- `MissedAccountIsPickedUp` of `Notices` is violated: an account whose mail the
  component refused has a row and is skipped by every later walk
  (`notice/legal.ts:217`), where the alert tells staff that re-running the sweep
  "picks up exactly the accounts that are missing" (`legal.ts:171`).
- `MailedOnce` is violated after the six years: the purge deletes the rows the
  walk goes by, and the notice, if the deployment still carries it, goes out
  again.
- `FallbackSpeaksOfOwnerNotices` is violated: notices to an account holder leave
  no row either, and a bounce of one is reported as of a box's owner.
- A late event overwrites the status a bounce has left on a recipient's row.

Terminals:

- With "joins_fresh" in `Faults`, `StartedWindowsStream` is violated: a window
  that attaches before the creator's start has run, and starts behind it, has read
  `fresh` before its turn and expects no replay; the host sends one and nobody
  waits for it (`terminal-sharing.diff:232`, against the comment at the head of
  `terminalStartState.ts`).
- With "crosses_a_leave" or "leaves_early", `HeldWhileAttached` is violated:
  whether a leaving window is the last is decided before an await
  (`terminal-clients.diff:263`), and an attach registers its window after one, so
  that the terminal may be reaped under a window, or a window closed meanwhile be
  registered for good.
- `OneReplayPerStart` is violated: an API stream starts a running terminal past
  the queue, and its replay goes to whichever window is starting
  (`terminals.ts:868`, where `terminal-sharing.diff:14` says replays are bound to
  the renderer that asked for them); that window sees the scrollback twice.
- A window whose start fails stays a registered client that receives no output
  until it leaves, and holds the output back until then.

Access to an instance:

- The server rewrites `enrollments.json` and `certificates.json` whole, after an
  await and without the lock the command line takes. With "overlap" in `Faults`
  `RevocationReaches` and `TokensBuyOnce` of `InstanceAccess` are violated: two
  enrollments get one serial, a revocation's mark or a record is lost, a token
  works twice (`ssh/certificates.ts:99`; its comment at line 86 has serials that
  "must never be reused", `docs/ssh.md:49` single-use tokens, and
  `hostScripts.ts:520` takes the command line for the store's only writer).
- `identity.sh:115` says that an unreadable record "reads as "unknown", which
  rotates", where `apply` records the box without rotating when the record is
  empty. Since a rotation empties the record only after it has removed the rest,
  `CopyHoldsNothing` holds all the same.
- The server knows the key store by its file's time and size: with "tick" in
  `Faults`, `KeysFollowCommands` is violated, as a revoked key passes until the
  next save.

## 7. What is proved

TLAPS checks the following for every value of the constants.

| Module | Theorem | From |
|---|---|---|
| `BoxOperationProofs` | `TypeCorrect` | nothing but the constants' assumptions |
| | `WorkflowHoldsLockCorrect`, `ImplementsLockCorrect`, `StatusMatchesOperationCorrect` | `~ComponentCallsFail` |
| | `LockTypeCorrect`, `OneHolderCorrect`, `StatusMatchesHolderCorrect`, `DeletedIsFinalCorrect` (of `BoxLock`) | nothing more |
| `FilesProofs` | `PersistenceTypeCorrect`, `NoTornCopyCorrect`, `UntouchedFollowImageCorrect`, `LeftoversHaveANoticeCorrect` (of `Persistence`) | nothing more |
| | `RepairTypeCorrect` (of `BoxRepair`) | nothing more |
| | `FilesKeptCorrect`, `RunningBoxHasItsFilesCorrect`, `PointerNamesVolumeCorrect`, `ParkedCopyIsFixedCorrect` (of `BoxRepair`) | `Faults = {}` |
| `BoxSnapshotsProofs` | `SnapshotsTypeCorrect`, `CompleteRowsStayRestorable`, `CapturesFitTheSplitCorrect` | nothing more |
| | `PromisedCopiesStay` | `~SupersedeIsLate` |
| `CheckoutProofs` | `CheckoutTypeCorrect`, `SlugsStayExclusive`, `CapacityIsKept` | nothing more |
| | `OrdersHaveAnOutcome` | `PaysOnce` |
| | `DeliveredOrdersAreKept` | `~AttachRaces` |
| `BoxUpkeepProofs` | `UpkeepTypeCorrect`, `RunningFollowsRowCorrect`, `RepairsAreBoundedCorrect` | nothing more |
| `NoticesProofs` | `NoticesTypeCorrect`, `ReachesThoseOwedCorrect`, `EvidenceAgreesCorrect`, `FailuresAreReportedCorrect` | nothing more |
| `SharedTerminalProofs` | `TerminalTypeCorrect`, `NothingIsMissedCorrect` | nothing more |
| | `StartedWindowsStreamCorrect` | "joins_fresh" is no fault |
| `AccessProofs` | `PasswordTypeCorrect`, `TokensCorrect`, `RowCorrect`, `WayCorrect` (of `Password`) | nothing more |
| | `AccessTypeCorrect`, `CopyHoldsNothingCorrect` (of `InstanceAccess`) | nothing more |
| | `KeysFollowCommandsCorrect` | "tick" is no fault |
| | `RevocationReachesCorrect` | "overlap" is no fault |

`FilesProofs` and `AccessProofs` each hold the theorems of two modules that have a
subject in common and no state; the specification a theorem is about is the one it
names (`Spec` and `RepairSpec`, `Spec` and `PasswordSpec`). What the proofs need of
the catalogue are lemmas of the modules that need it. Each hypothesis in the last
column excludes what section 6 shows to break the property, and nothing else.

The arguments:

- *Abstract lock.* `LockInv` is `OneHolder` and `StatusMatchesHolder` with two
  parts that make them inductive: a box with a holder exists and is not deleted
  (so the gate's word on "deleted" carries over), and the typing.
- *Detailed lock.* `OneActive` (of the rows) is not inductive: a workflow that
  has lost its row could write a status. `WorkflowOwnsRow` says that a workflow
  still in its body has its row active, and needs `RescuersSawTheEnd`: the sweep
  and the cancellation that are about to fail an operation have seen its
  workflow ended or have stopped it, and an ended workflow does not start
  again. That is where `~ComponentCallsFail` is used. The implementation theorem
  then maps every action to `Acquire`, `Release`, `Overturn` or a stutter: the
  rows' `overturned` has an operation only if its workflow had one call left when
  it closed its row (`ClosedEarly` says which those are). What the lock promises
  of statuses is carried over through it: a transient status is on show only
  while its operation is open, and an open operation's status is hidden only by
  the failure of an overturned one.
- *Files.* `FilesAreWhereRowSays`: at every stage but "restoring" the disk has
  the files, at "restoring" the volume of the pointer has, at the gate and
  before the pointer is cleared both do. That is kept because the workflow's
  own copy of the pointer agrees with the row (`WorkflowKnowsRow`), because the
  box serves nobody between the gate and the end (`RestoringBoxIsDown`), and
  because the reconciliation never has a needed volume in hand
  (`NeededVolumesAreSafe`).
- *Snapshots.* A row becomes complete from "creating", with a name and an
  image: `CaptureIsAsFar` keeps that through the capture, since a deletion that
  is past its first call has marked the row (`DeletionsMark`), a marked row is
  marked for good, and the reconciliation keeps off named rows and off the
  seconds before a name. For the promises, `CaptureIsLeftAlone` says that no
  deletion is after an undo point being captured, and `UndoPointIsNewest` that
  when a superseding pass runs, the undo point the owner relies on is the
  newest row. With late passes (`SupersedeIsLate = TRUE`) the
  latter two fail.
- *Captures and the split.* A captured class never holds more rows than its cap
  because a capture that finds its class full has evicted before it begins:
  `HoldersOfBegin` says that the holders after a beginning are those that were
  not evicted and the new one, `OneForMany` counts them.
- *Slugs and capacity.* Every holder of a slug (a live box, an open reservation,
  a change that has reserved its next slug) took it through one check, so
  `OneTaker` is kept by each action that adds a holder. For capacity, open
  reservations and living boxes are one set, `Packages`, whose size no action
  raises but the two that have looked at the limit.
- *Orders.* `SaleInv` ties what webhooks and handlers believe to what happened:
  an event is of a sale in that state (`EventsAreReal`), a handler's next call is
  one its order called for (`HandlersAreReal`), a recorded order is of a session
  of that reservation (`OrderIsTheIntents`), a converted reservation has its box
  (`ConvertersAreRecorded`). `OrdersAreAccountedFor` then needs `RefundsAreReal` (the
  reason `order_fully_refunded` is written only for an order whose money is
  back), `PaidOnce` (so that it is this order), `OnlySubscribersAreHandled` (an
  order without a subscription has no handler and no box) and `AnswersAreFinal`.
  `FulfilledOrdersAreKept` needs
  `SessionIsTheOrders` (the session of a converted reservation is the one its
  order came from), which is what a racing attachment destroys, and
  `RefusalsAreFounded` (a handler that gives back has no box to its order).

- *Copies.* `TornInv`: an entry is genuine if its content and facts were written
  together (or it is the image's, or has the facts of nothing). Live tree, copies
  and what the writer has read are genuine; a copy the writer has just read is
  published only if the live file still has the facts it had before, which with
  facts never shared means that it never changed under the copy.
- *Untouched files.* `CleanInv`: no store has anything at a clean path
  (`CleanPaths`), the writer is never on its way to put something there
  (`CleanWriter`), and the replay leaves it as the image has it
  (`QuietReplay`), since what lies above it is untouched too.
- *Leftovers.* `LeftInv` follows each path from its last change to the stores. A
  path is owed (`Owing`) while a notice of it is queued, lost, to be queued again
  or in the writer's hands. A path that is not owed and is as the image has it
  has no copy of another version, and if it is a file neither marker nor record
  in memory (`UpToDate`); a record in memory that is not the one on the volume is
  of a path whose batch is not flushed (`RecordsWait`), so that a failed flush, or
  the end of the daemon, makes owed again exactly what it undoes. That each of
  the writer's calls keeps this needs `WriterSees`: what it found at its path, and
  what that says of the entries above and below, is still so unless there is a
  notice of what changed. `WellKept` (what is in a tree is in directories of it)
  says why a file in the way of a copy is itself such a leftover, `ReplayComes`
  that at the end of a replay everything is up to date at once.
- *Tokens.* `TokenInv`: a code that is live has made no grant, a grant that is
  live has installed nothing, and each is left by one transaction that records
  what it was spent on.
- *Row and way.* `RowInv`: unless two overlapped, the row holds the last hash, and
  every attempt or operation that could still write carries a hash that is the
  row's or will find that it is not. `WayInv`: the hash in the row is in the
  environment, or an attempt is due for it, or an operation carries it, or one
  that had to has failed (`abandoned`).
- *Serving the right image.* `RowInv`: beside a box in the middle of an operation
  the workflow knows its target (`TargetKnown`), what is marked in the row is on
  the host (`MarkedAsHost`), and a box at rest has the compose file of its row or
  an update was skipped over another image (`SettledAsHost`). For the limit on
  repairs, `RepairsInv` says that a sweep about to start one has found room for it:
  it counts in one transaction and starts in another, and nothing else adds to the
  window between the two.
- *Terminals.* `CallsInv` ties the calls in flight to who made them: who queues
  for a start asked for one or is gone (`StartersInv`), who holds the terminal was
  told so (`AttachedInv`), and an answer on its way is to a call under way, one for
  each window (`AnswersInv`). On it stand `StreamInv` (nobody
  joins a fresh terminal, a start that expects no replay streams already, and one
  that has heard of a replay heard of its own), and for `NothingIsMissed` `SeenInv`:
  each output or replay on its way, and what each receiving window shows, is
  followed by the output that comes next (`Follows`).
- *Notices.* Rows are of accounts the notice is owed to, and every account the
  walk has reached has one (`WalkInv`); nobody is mailed before their turn, nor
  again by the same row of the notice (`MailedInv`); the count is that of the rows
  at "queued" (`CountInv`). That the
  alerts not handed over leave in their order is left to TLC: the queue is
  filtered by `SelectSeq`, about which the provers know nothing.
- *Access.* `OwnInv`: what the disk holds was made on the box the record names, or
  the boot has still to remove it, file after file in its order (`Lineage`,
  `DiskIsOwn`), and so was what a process has in its hands (`HandsAreOwn`). For the
  keys, `LockHolds` (one command per file is between its load and its end) gives
  `KeysInHand`: what a command is about to save is the store with its own change.
  For revocations the server, too, has to be the only one between its
  read and its write (`ServerWaits`, from `NoOverlap`); `RevocationInv` then has
  records differ by their serial (`SerialsDiffer`), every certificate that is out
  or about to go out has its record (`CertificatesInHand`, `Accounted`), and every
  mark is in the list before it is on record (`RevocationsInHand`).

Facts that are proved and have no run of their own: the type invariants of all
modules, `StatusMatchesOperation`, `RunningBoxHasItsFiles` (without faults; with
them it is what `healed_empty` violates), `PointerNamesVolume`,
`ParkedCopyIsFixed`, `CapabilitiesAreSpentOnce`.

Only model-checked: every liveness property (what eventually happens under
fairness is beyond the prover), and `HeldWhileAttached`: without the faults the attachments and the
leaves of windows do not cross, so that a proof for any number of them would add
nothing to what the run shows.

## 8. What is not modelled, and why

- Time: grace windows, deadlines and retention are a guard or a choice, never a
  clock. Where a window is what makes a race improbable the module says so.
- The manual snapshot's cooldown, idempotency keys, the daily certificate
  budget, alerts raised on the way: they only refuse or delay a request.
- A provider call that outlives its cancelled workflow is in `BoxOperation`
  (`acting`), and not repeated in `BoxRepair` and `BoxSnapshots`, which stand on
  one operation at a time.
- Paging: `claimExpiredSnapshots`, `cascadeDeleteBoxSnapshots` and
  `supersedeRollbackSnapshots` work through pages; the modules take all rows.
- In `Checkout`: plans and their products (`recordCheckoutPlan`, the mismatch
  report), complimentary boxes, the slots snapshots take of the provider's
  limit, the certificate budget and the administrator's pause (they show as a
  refusal), renewal and cancellation dates, the refund retry's bound (the model
  retries on), the local copy of subscriptions (the model reads Polar's), alerts,
  and the pseudonymisation and purge that come after a deletion.
- In `Password`: codes that mint a session, the checks of verifier, box and
  redirect (a request that fails them changes nothing), the deletion of the box,
  `COMPOSERY_PASSWORD` and `COMPOSERY_REMOVE_PASSWORD`, the rate limit.
- In `BoxUpkeep`: the `recoveryStatus` of the Repair dialog, suspension, an image
  the registry no longer has, boxes beside each other. Sweeps are taken not to
  overlap themselves: their intervals are longer than they run.
- In `Notices`: texts, subjects and severities, the event fields kept for the
  panel, an alert that fails by itself while others leave, and the order of two
  accounts made in the same millisecond.
- In `Persistence`: the overlay engine, symbolic and hard links, sockets and
  devices, excluded paths, facts of directories, `prune`, the control socket and
  the resource governor of the watcher (it shows as missed changes).
- In `SharedTerminal`: sizes of viewports, the API's keys, slots and
  `waitForExit`, the layout and its merge, which window answers for the
  terminal's interface, launches that fail, a window that attaches again.
- In `InstanceAccess`: listings, host keys and host certificates, sshd itself,
  scopes and expiry of API keys, and the commands that only talk to a running
  instance. `ssh-keygen` is taken to make or to extend a file in one step.
- Metrics and usage: samples and roll-ups of readings, a calculation over one
  table by one cron. Of cleanup: retries of failed deletions, purge dates and pseudonymised records.
  They are the next of the plan.
- Retries of one call inside a provider client, formats, prices, texts, pages and
  the rest of the editor. Most lines of the repository are of this kind: user
  interface, themes, generated and vendored scripts, screenshots, bodies of
  requests to the provider, deployment templates. They keep no state whose order
  could go wrong, so the map covers the lines where it could and will not come
  near all of them.
