# RSS MDM: a TLA+ verification project

RSS MDM is a device management server for Windows and macOS: a set of Rust crates over
PostgreSQL. Administrators publish policies; devices poll over an Agent channel or a native
MDM channel; background workers with durable claims finish what nobody polls for. This
project models the parts whose correctness depends on the order of transactions, checks
them with TLC on small instances and proves the most important properties with TLAPS for
every instance.

Paths below are relative to the repository root.

## 1. The system

### 1.1 How it is built

* Every request and every worker step is one PostgreSQL transaction. Work on a device takes
  the device's advisory lock (`registration-service/src/lifecycle.rs`, `lock_device_in`) for
  the whole transaction. Transactions on one device are therefore serial; what interleaves is
  their order.
* Workers come from the `rss_reconcile_postgres` library, which is not in the repository. A
  worker claims an entity, calls `observe` in one transaction and `apply` in another, and is
  called again until `observe` finds nothing to do. A claim can expire between the two.
* Requests carry an operation identity. The server stores a receipt per (actor, operation)
  with a fingerprint of the request, and answers a repeated request from the receipt.
* The Agent on the device is not in the repository. It polls, receives signed offers, asks
  for a signed start permit, executes and reports.

### 1.2 Inventory

| Part | State | Operations | What makes it hard |
|---|---|---|---|
| Run reducer (`execution-service/src/actions/state.rs`) | delivery, execution, cancellation, deadline, start instant | new, claim, received, start, result, uncertain_result, waiting_reboot, cancel, cancelled, expire | boundaries of lease and deadline; calls of an attempt that is no longer current |
| Agent tasks (`actions/agent.rs`, `poll.rs`, `production.rs`, `storage.rs`) | action_runs, action_attempts, receipts | claim_action (admit, walk, offer), action_event, replays | lost responses, expired leases, several policies in one poll |
| Task collections (`actions/collection.rs`, `inventory-service/src/collection/`) | collection_runs per attempt | reserve, accept, abandon, terminate | late reports for a sealed row |
| Run recovery (`actions/recovery.rs`, `native_recovery.rs`, `recovery.rs`) | worker claims | observe, apply | the decision is old when it is applied |
| Registration (`registration-service`) | registrations with generations, credentials, sources | request, bind, revoke, replace, retire | leftovers of a replaced generation |
| Poll cursors (`actions/poll.rs`, `sources/admission.rs`) | action_polls | list cancellations, choose policies | a cursor that moves although the answer is lost; keys inserted behind it |
| Policy dispatch (`policy-service/src/management/reconcile.rs`, `scope_changes.rs`, `actions/scheduled.rs`, `health.rs`) | assignments, policy work, policy_recovery, reconcile targets | change, publish, fan out, reconcile a page, discover a page, retire, settle | three workers that page over data that changes between the pages |
| Check-in sweep (`actions/native_recovery.rs`) | native_checkins | record, sweep step, settle | a check-in during a sweep or a settlement |
| Native collection (`actions/native_collection.rs`) | collection_runs | send, advance, settle | answers after withdrawal |
| Software (`actions/software.rs`, `sources/software.rs`, `software-service`) | slots, stages, gates, statistics | admit, advance, release gate | two policies for one product, stale statistics |
| Unmanage (`unmanage.rs`) | retirement stages, work items | prepare, advance, cleanup, uninstall, unenroll | a stage that ends while its task is still deliverable |
| Credentials and access (`credential_tasks.rs`, `device_access/`, `recovery-credentials`) | escrowed versions, deliveries | start, escrow, finish, recover | the device rotated and the report is lost |
| Self service (`self_service.rs`) | invocations, waiting tasks | invoke, defer, advance | a window that closes while the user decides |
| Webhooks (`webhook-service`) | events, deliveries, endpoints | emit, claim, deliver, retry, disable | at least once delivery, fixed event identities |
| Content (`content-service`, `content-s3`) | uploads, objects, generations | begin, append, complete, clean up | cleanup against a late completion |
| Policies, groups, scopes (`policy*`, `group*`, `scope*`, `query*`) | revisions, versions, memberships, generations | publish, archive, recompute | membership computed from a moving window of assets |
| Enrollment and PKI (`pki-service`, `certificate*`, `device-trust`) | issuance, authorities, archive | issue, renew, rotate | renewal with a lost answer |
| Apple and Windows channels (`apple-*`, `windows-*`) | sessions, commands, tokens | check in, next command, report | native protocols with their own retries |
| Telemetry, mail, audit, authorization, HTTP, server assembly | outboxes, logs, process state | export, send, append, start, drain | mostly I/O |

`PROJECT.json` lists every part with the crates it consists of and says what is modelled.

### 1.3 What should be true

* A task has at most one effect on its device. This is the central promise: scripts are not
  idempotent, and the server cannot see the device.
* An effect that is uncertain stays uncertain until evidence of the same attempt arrives, and
  it holds further runs of its policy back.
* A verdict, once given, does not change, and subscribers are told exactly that verdict.
* Work of a replaced or revoked registration is fenced.
* Nothing waits for ever: a run is settled even if its device never answers.
* Limits (open runs of a device, page sizes) hold in every interleaving.
* A bounded page never makes a key wait for ever or fall between two pages: every assigned
  device gets its scheduled work, every cancellation is listed, every check-in is swept.
* A subscriber is told of every change since it subscribed and of none before, by a request
  that can be signed; a retired subscription is told nothing.
* What is published, resumable or being read is stored; what is deleted stays gone.

## 2. Plan

Most important behaviour first; a module is written so that it can be proved about (no
RECURSIVE operators, named assumptions on constants).

1. **Core (done).** `RunState`, `RunReducer`, `ActionRun`, `AtMostOnce`: the Agent task
   lifecycle with recovery and retirement, and the abstract promise it implements.
2. **Paging workers (done).** `Paging`, `TaskPoll`, `PolicyDispatch`, `CheckinSweep`: the
   cursors of a poll, the way of a policy to its devices, the check-in sweep.
3. **Webhooks and content (done).** `WebhookDelivery`, `ContentStore`: two components with
   workers of their own and, for content, a storage provider that is no part of a transaction.
4. **Proofs (done for every safety property).** See section 5.
5. **Native collection runs** composed with the sweep: send, settle, advance, withdrawal.
6. **Source changes and scope calculation** (`source_changes.rs`, `scope-service`): what publishes
   the results that `PolicyDispatch` takes as input; group generations.
7. **Registration** as a component of its own: requests, credentials, generations, children,
   receipts; `ActionRun`'s registration actions shown to refine it.
8. **Unmanage** on top of the task lifecycle and registration, **software slots** and stages.
9. **Credential rotation and escrow**, self service.

## 3. Modules

| Module | Models |
|---|---|
| `RunState` | `actions/state.rs` as guards and state functions; no variables |
| `RunReducer` | one run whose reducer is called in any order, and a clock |
| `RunReducerProofs` | theorems about `RunReducer` |
| `ActionRun` | all tasks of one device: server, worker, Agent, administrators, clock |
| `AtMostOnce` | the abstract promise: a task is granted or closed, has one effect and one verdict |
| `ActionRunProofs` | theorems about `ActionRun` |
| `MCActionRun` | instances of `ActionRun` for TLC |
| `Paging` | a bounded page of an ordered query and its cursor; no variables |
| `PagingProofs` | what a page and its cursor guarantee |
| `TaskPoll` | the cancellation and policy pages of one registration's polls |
| `TaskPollProofs` | theorems about `TaskPoll` |
| `PolicyDispatch` | one native collection policy on its way to the devices: administrators, scope results, reconcile jobs, discovery, scheduled work |
| `MCPolicyDispatch` | the scope results and registrations the instances use |
| `PolicyDispatchProofs` | theorems about `PolicyDispatch` |
| `CheckinSweep` | the check-in row of one registration and its worker |
| `CheckinSweepProofs` | theorems about `CheckinSweep` |
| `ContentStore` | uploads, objects, one manifest, pins, the two collectors, and a provider whose calls are no part of a transaction |
| `MCContent` | the symmetry of object ids and a bound on the search |
| `ContentStoreProofs` | theorems about `ContentStore` |
| `WebhookDelivery` | subscription versions, events, compliance publications, fan-out, relay, replay and redrive of deliveries, signing keys |
| `MCWebhook` | the changes, selections and versions the instance uses |
| `WebhookDeliveryProofs` | theorems about `WebhookDelivery` |

### 3.1 RunState and RunReducer

A run state is a record. The payload of `Delivery::Claimed` and `Delivery::Received` is
flattened into `attempt` and `lease`. A method that returns `Result` is a guard (`CanClaim`)
and a function (`Claim`); a method that returns early without change is part of both. Times
are natural numbers of seconds; the negative-time checks of the code hold trivially.

### 3.2 ActionRun

Each action is one transaction.

| Action | Code |
|---|---|
| `ClaimNothing`, `ClaimOffer` | `claim_action`: admit due policies, walk the candidates, offer at most one |
| `ReplayClaim`, `ReplayStart` | the receipt branches of `claim_action` and `action_event` |
| `RelayAccept` | `accept_action_dispatch`, called by the outbox relay |
| `EventReceived`, `EventStart`, `EventCancelled`, `EventResult` | branches of `action_event` |
| `RecoverObserve`, `RecoverApply`, `RecoverDrop` | `observe`, `apply` with `recover_one`, a lost claim |
| `Revoke`, `Bind` | registration retirement with `retire_in` and `terminate`; replacement |
| `ChangeAuthority` | policies enabled and disabled, versions published, scope and executor changes |
| `DeviceExecute` | the Agent (external): executes once for each permit it received |
| `Tick` | the database clock |

`save_run` is inside every action that calls it, with the terminal event it publishes. An event
has a fixed identity; publishing a different body under it fails the transaction, so the time in
the body is kept (`event`). Retirement does not call `save_run`, and neither does the model.

Abstractions. Policies have one of three kinds: a script, a script that collects (its attempt
has a collection row) and an agent collection (read only). Software tasks, the only ones that may
wait for a reboot, are left out. Whether a schedule is due is left
open: an admissible policy may or may not be admitted by a poll, with any delay up to `MaxDelay`.
Trigger kinds are check-in triggers; explicit and custom triggers, `OncePerEntry`, and
maintenance windows are left out. The order of candidates is `available_at`; ties, which the
code breaks by random identity, are broken either way. Pages of 128 candidates and 64 policies
are not reached by the instances. Output chunks do not change the run and are left out. The
Agent reports success only for a task it executed; it may report failure or nothing at any time.

### 3.3 Paging

The workers share one idiom: `WHERE key > cursor ORDER BY key LIMIT n + 1`, handle `n` rows, keep
the last handled key if an extra row came back. `FirstPage` and `NextCursor` are that idiom for
keys `1..n`; 0 is SQL NULL.

### 3.4 TaskPoll

`Poll` is the whole of `claim_action` as far as the two cursors, the answer and the receipt go.
The answer may be lost (`delivered` is chosen freely). The cancellation cursor is the last id
listed, so an empty page starts over; the policy cursor is kept only when a page is full. An
answer with an offer is stored and can be asked for again (`Replay`) until its offer is no longer
authorized (`ReplayRefused`). `unlisted` and `unconsidered` are histories: they count the polls a
requested cancellation or an enabled policy has been passed over. They stop one past the bound
they are compared with.

### 3.5 PolicyDispatch

| Action | Code |
|---|---|
| `Put`, `SetState` | `change` with `Policy::apply` and `enqueue_change_in`: a reconcile job, a new recovery revision and a wake of the discovery in one transaction |
| `PublishScope` | phase `ready` of a scope calculation, which queues a PolicyScope job |
| `SourceMoves` | the published result is no longer `fresh` |
| `Register`, `Unregister` | binding and retirement, which tell the policy nothing by themselves |
| `FanOut` | `scope_changes::advance_in` for the one dependent policy |
| `JobPage` | one page of `prepare_assignment_in` and `advance_assignment_in`: rows, withdrawal, wakes, cursor or completion |
| `JobRejected` | the terminal branch of `apply_with` |
| `Discover` | one page of `discover_in` in its window |
| `DiscoveryIdle`, `DiscoverySettles` | `observe` finds nothing; `finish` with Converged |
| `WorkRetires`, `WorkSettles` | `finish` of scheduled work: `delay_in` in one transaction, settlement in another |

The reconcile store is external and is modelled by what the code relies on: a wake makes a target
due and defeats a settlement decided before it. A job is a count at its cursor. A row of another
version is not kept, because every reader asks for the current version. `outdated` is a history:
the rows that no queued work will repair (their registration or a source of the result changed, or
the job was rejected); a new result repairs them.

Abstractions. One policy with a repeating schedule that has not ended, so scheduled work retires
only when its version or registration is no longer current. A device stands for its object and for
its primary registration. Availability reasons and admission entries are left out; rows differ by
readiness, generation and result. Wakes of a device's native configuration, which other targets
receive in the same transaction, are left out.

### 3.6 CheckinSweep

`Record` is `record`; `StepStale`, `StepDone` and `StepPolicy` are the three outcomes of
`checkin_step`, each with the promotion that precedes it. `Inspect` and `Settle` are `observe` and
`finish`. A policy is enabled while the query of the sweep finds it. `steady` and `offered` are
histories: the policies enabled since the event was promoted, and those it was offered to.
`accept_for_device` is the admission modelled in `ActionRun`; here it only counts as the offer.

### 3.7 ContentStore

| Action | Code (`content-service/src/`, `content-s3/src/`) |
|---|---|
| `Begin`, `Claim` | `begin`; `claim` of a lease by an append or a finish, with a fresh epoch |
| `ReadTail`, `PutPiece`, `Locate`, `NotWritten`, `MarkReady`, `SaveFrontier` | the steps of an append: the tail is read back, then the object row, the provider's answer, the ready row, the frontier |
| `CheckPieces`, `Publish` | the steps of a finish: pieces are read back, the manifest is written |
| `Fail`, `Release`, `Crash` | a step that returned an error, the release of the lease, a process that stopped |
| `Land`, `Lose` | the provider (external): a write that was issued arrives, perhaps late, or never |
| `Pin`, `Unpin`, `Refer` | readers and resources |
| `MarkOrphans` to `SettleOrphan`, `DeleteUnconfirmed` | `clean_orphans`: mark a page of rows, locate, delete, settle |
| `SweepUploads` | its last transaction: expired uploads |
| `ListGarbage` to `CloseManifest`, `WorkerFails` | the collection of manifests, in transactions of its own; a collector that stops |

A row and the bytes it stands for are separate state, and a fault may come between any two steps.
`Lag` is the age a caller's clock read may have when its transaction commits: `complete_upload` and
`mirror` read the clock before they wait for admission, and a collector keeps the one it started
with. So a claim may succeed on an upload that has expired; the history `overdue` holds the objects
that were the frontier of such an upload when it was claimed. A lease lasts what is left of the
caller's budget, rounded up to whole seconds, so it may outlive the expiry of its upload. A
collection takes at most `Page` orphans (128 in the code), any of them, and has no cursor: a row that
cannot be settled may come again. A volume keeps a deletion marker (`fenced`)
that refuses later writes; S3 has none, but there a located object has no write under way.

The limit on temporary bytes is counted byte by byte: `Bytes(set)` holds one element for every byte
of the objects in a set, and `Charged` is the number of bytes of unlisted objects in use plus `Spare`,
what the reservations of open uploads leave unused. It is the sum that `journal.rs` computes: for an
open upload the larger of its reservation and what it has stored.

Abstractions. One artifact, shorter than a chunk, so the frontier of an upload is one object that
every append rewrites. Installer inspection and storage generations are left out. The clocks of all
replicas agree; a transaction commits within the caller's budget (`Running`).

### 3.8 WebhookDelivery

| Action | Code (`webhook-service/src/`) |
|---|---|
| `Create`, `Put`, `Switch`, `Delete` | `mutate`: every change of a delivery setting is a new version |
| `Emit` | `emit_in`, in the transaction of the business change |
| `Publish`, `ComplianceStep` | `compliance_in`; one page of changed conclusions becomes events |
| `FanoutStep` | one page of candidates becomes deliveries, those that are still current |
| `Confirm`, `GiveUp` | the source relay (external) settles a message |
| `Authorize`, `Deny`, `Respond` | one attempt of the delivery relay (external) around `authorize` |
| `Test`, `Replay`, `Intend`, `Redrive` | the operations of administrators; the recovery store settles a redrive on its own |
| `Prepare`, `ConfirmKey`, `Activate`, `Revoke`, `RetirePrevious` | the signing keys |

`audience` (the versions stamped active no later than the event) and `signer` (the key that was active
when a delivery was queued) are histories. A stamp (`clock_timestamp()`) is taken up to `Lag`
before its transaction commits, so two stamps may be in the other order than their commits.
`Respond` takes any outcome: an answer that was lost is a request made again, so a receiver may see
a delivery twice, which the event identity lets it recognise.

Abstractions. All subscriptions use one key reference; the network configuration is constant;
`archive_purge` is left out; selection by group is read once, when candidates are listed. Editing an
enabled subscription retires the version that waiting deliveries belong to, by design; they are
denied and become dead letters, as does a redrive that meets a retired version.

## 4. Runs

| Run | Instance | Checks |
|---|---|---|
| `reducer` | 3 attempts, lease 2, deadline 5, clock to 7 | `Coherent`, `RequestedIsAddressed`, `NeverRerun`, `VerdictIsFinal` |
| `lifecycle` | 1 collecting script, 2 attempts, 2 registrations, lease 1, lifetime 2, clock to 3, `FairSpec` | `TypeOK`, `AtMostOneEffect`, `PermitIsCurrent`, `OpenCollectionIsCurrent`, `StaleRunsAreFenced`, `EventsTellTheVerdict`, `EndedDeliveryIsFinal`, `SealedStaysSealed`, `KeepsPromise`, `EveryRunSettles` |
| `serial` | 2 runs of a script policy, 1 of a collection policy, limit of 1 open run, 2 versions | `OnePendingRun`, `ActiveRunsBounded` |
| `projection` | 2 devices, pages of 1, 2 changes, 2 scope results that differ, one device registered twice | `AssignedIsWoken`, `RowsFollowScope` |
| `served` | 2 devices, pages of 1, 2 changes, 2 results, `FairSpec` | `MemberIsServed` |
| `poll` | 3 runs, 3 policies, pages of 1 and 2, `FairSpec` | `ListedInTime`, `ConsideredInTime`, `ToldEventually` |
| `checkin` | 3 policies, 3 check-ins, `FairSpec` | `SweepCovers`, `LatestIsKept`, `EventIsScheduled`, `CheckinIsSwept` |
| `content` | 1 upload of 2 bytes, 3 objects, 1 request, 1 reader, 1 collector with pages of 1, volume and S3, lag 1, clock to 2 | `ReadyIsStored`, `FrontierIsStored`, `PinnedIsStored`, `DeletedIsGone`, `TemporaryIsBounded`, `CollectionCanContinue`, `KeptWhileNeeded` |
| `webhook` | 3 subscriptions, limit 2, pages of 1, 3 events (2 of one publication), 1 operation, 2 keys, lag 1, `FairSpec` | `ConfirmedIsServed`, `NothingIsBackfilled`, `OneDeliveryPerOperation`, `UnsettledKeepsItsKey`, `RetiredIsSilent`, `SourcesDrain` |
| `replacement` | 2 runs, 2 registrations | `UnknownBlocksStart` is violated |
| `stale_recovery` | 1 run | `TerminalStays` is violated |
| `content_stale` | 1 upload, 1 object, a clock read that may be 1 old | `CatalogIsConsumable` is violated |

**Bounds.** Two attempts suffice to lose a lease and be offered again; two registrations to be
replaced; a clock one past the deadline reaches both sides of every comparison with lease (1
or 2) and deadline. The reducer has three attempts because an attempt that lost its lease twice
differs from one that lost it once only there. In `serial`, which checks invariants only, the two
runs of one policy are interchangeable and are a symmetry set. `Changes` selects the administrative
changes an instance explores; together the runs cover all of them.

Two devices and pages of one give every worker a first and a last page with room for a change
between them; the second revision lets a change arrive in the middle of a window. One waiting job
per cursor (`MaxJobs`) still lets jobs follow each other at different cursors. The poll has three runs so that a key can lie before, on and behind a cursor; the bound of
`ListedInTime` is reached, and smaller ones fail. Three check-ins give a swept, an active and a
pending event at once.

A length of two bytes lets an append rewrite the tail of an earlier one, and two object ids hold the
old and the new tail, or the objects of two uploads of the artifact that follow each other; retention
1 and a budget of up to 2 let a lease outlive the expiry of its upload, the case in which collector
and writer meet; with a lag of 1 a claim may come at or after the expiry, and a collector may be the
one that is behind. The third object id is there to reach the limit on temporary bytes:
`ThirdObjectIsTemporary` cuts the search where it is in use on a volume or together with a
manifest or a reference. Nothing tells object ids apart but their rows, so they are a symmetry
set; the run has invariants and an action property only. One subscription more than the
limit lets a deletion make room; `MaxVersion` lets the first subscription be edited, disabled and
enabled again. One publication of two changes with pages of one has a page before and after every
other step. A key is prepared and confirmed at the start, so that few requests (`MaxRequests`)
suffice for a rotation with deliveries on both sides of it. The theorems of section 5 hold for every
value of the bounds.

**Fairness.** `Tick` is weakly fair: time passes. `RecoverObserve` is weakly fair: the reconciler
calls again for as long as a run is active. `RecoverApply` is strongly fair: an apply that loses
its claim is followed by another observe, and the library retries with a delay; it does not lose
the claim for ever. Nothing is assumed of the device, the relay or administrators.
In `served`, `Discover`, `FanOut` and every `JobPage` are weakly fair: their targets stay due until
they settle, and a due target is claimed again. A page that fails for a terminal reason is
`JobRejected`, which is not assumed to stop. In `checkin` the sweep step is weakly fair for
the same reason; a policy whose admission failed on every attempt would be outside the assumption.
In `poll` the agent keeps polling, and of infinitely many answers that list a run not all are
lost.
In `webhook`
the relay tries every pending source message again until it settles, so `Confirm`, `FanoutStep` and
`ComplianceStep` are weakly fair.
In `content` no fairness is assumed and no eventual erasure is claimed. Nothing in the code runs
collections by itself: orphans are collected by a begin or an append, and manifests when an
administrator posts to the garbage route (`management-http/src/content/http.rs`), which may never
happen again; and a page without a cursor may be full of rows that a provider does not confirm. What
`docs/deployment/operations.md:136` promises is that a later round continues, and
`CollectionCanContinue` is the condition for that.

**Deadlock** is checked except in `replacement` and `content_stale`, whose clocks are bounded and
whose question is a single state or step, in the two runs of `PolicyDispatch`, where everything is
settled once administrators, calculations and devices are at their bounds, and in `webhook`, for
the same reason.

### 4.1 Three disagreements

* `replacement`. A run is started; the registration is replaced; a run of the same policy is
  admitted under the new registration, because `policy_pending_in` looks at the new
  registration's runs and at runs that are *already* Unknown. The old run then becomes Unknown
  at its deadline, and the new one starts. The comment on `policy_pending_in` and
  `docs/architecture/enterprise-tasks.md:7` say that an unknown write holds later runs back
  across registration changes. Replacement is the only way: within one registration no write task
  starts beside an Unknown one (`UnknownBlocksItsRegistration`), without replacement none starts at
  all (`UnknownBlocksWithoutReplacement`), and a run that is already Unknown holds admission back in
  every registration (`UnknownBlocksEveryAdmission`).
* `stale_recovery`. The worker observes a run as active; the device starts it; the policy is
  disabled; the device reports Cancelled, which leaves the run Unknown with a confirmed
  cancellation, published as cancelled. The worker's apply loads the run and, because the
  policy is withdrawn, calls `cancel()`: the confirmed cancellation becomes a requested one. The
  product requirements say that an outdated message may not change a terminal state. This is the
  only step that does (`TerminalStatesLeftOnlyByStaleRecovery`).
* `content_stale`. A finish reads its clock and waits for admission; meanwhile a collector with a
  later clock finds the upload expired and marks the object of its frontier as deleting. The claim
  of the finish compares the expiry with its older clock, succeeds, and publishes a manifest whose
  object the collector then deletes. `backup.rs:76` says that the catalogue a backup takes is
  consumable; `validate_catalog` refuses this one. Without lag the property is proved
  (`CatalogIsAlwaysConsumable`).

## 5. Proofs

Every module of proofs first abstracts each action to what it may do to the state a property
reads, proves that once per action, and then proves the invariant over the abstraction. `TypeOK` of
every state machine is a theorem, `TypeCorrect`; of the runs only `lifecycle` repeats it.

`RunReducerProofs` (any set of attempts, any positive lease, any deadline):

* `TypeCorrect`, `Coordinates`, `RequestsAreAddressed`: `TypeOK`, `Coherent` and
  `RequestedIsAddressed` are invariants. Together they are inductive; `Coherent` ties the lease to
  the delivery and the start instant to the execution.
* `RerunNever`, `VerdictStays`: the action properties, each from the invariant and a case
  per call.

`ActionRunProofs` (any runs, attempts and finite set of policies, any limits, and any sequence of
changes). Two relations carry the proofs. `Evolves(s, t)` is what any transaction may do to an
existing run: the deadline is fixed, a cancellation is not taken back, a started run keeps its
attempt and stays started, a verdict is final, and a run that is closed or has stopped acting does
not come back. `Moves(s, t)` adds, for every transaction but Start, that an unstarted run stays
unstarted. `NextSteps` shows that every step keeps the types and the frame (`Frame`) and is either
quiet or one Start.

* `TypeCorrect`.
* `PermitsStayCurrent` and `OneEffect`. The inductive invariant `EffectInv` adds to
  `AtMostOneEffect` that a stored permit names the current attempt of a started run
  (`PermitIsCurrent`) and that the device holds and has used only stored permits; without it a
  second claim of a permitted run could not be excluded. `OneEffect` follows: two executed attempts
  of a run are both its current attempt.
* `EndedDeliveryStays`: the action property; recovery and retirement can only confirm a
  cancellation of an unstarted run.
* `StaleRunsStayFenced`: only revocation and binding make a run stale (`StaleOnlyByRetirement`),
  both cancel what they leave behind (`RetiredIsFenced`), and no later step takes a cancellation
  back (`Evolves`).
* `EventsAreTrue`. `EventsTellTheVerdict` is not inductive: a run that is inserted must have no
  events, the worker must hold only runs that exist, and a running run must not be confirmed
  cancelled (else Start or a result could publish the wrong terminal). `TableInv` says these three;
  `StepTells` shows that whoever may change a verdict goes through `save_run`.
* `OneRunIsPending`, from `TableInv`: a run that may act blocks the admission of another
  (`ActingBlocks`), runs admitted by one poll are of different policies (`AdmittedAlone`), and a run
  that has stopped acting never acts again (`StopsForGood`).
* `ActiveRunsStayBounded`, from `TableInv` and the finiteness of the table (`BoundInv`): an inactive
  run stays inactive, and a poll adds at most what its limit check counted.
* `OpenCollectionsAreCurrent` and `SealsHold`. `CollectionInv` adds that only issued attempts have
  rows, which makes the row an offer opens a new one. `RowStep` is what a transaction may do to one
  row, and is proved for the walk, the offer, the four reports, recovery, retirement and the rest;
  both theorems follow from it.
* `PromiseIsKept`: `ActionRun` implements `AtMostOnce`. `PromiseInv` adds to `EffectInv` and
  `TableInv` that a run that has started did so by a stored permit (`StartedIsPermitted`). Start is
  `Grant`, the device's execution is `Happen`, a result is `Conclude`; every other step is `Close` of
  the deliveries it ended, none if there are none.
* `UnknownBlocksItsRegistration`, from `OnePendingRun`: an Unknown run may still act, and so may the
  run that a step starts (`StartsOnlyActing`). `UnknownBlocksWithoutReplacement` is
  `UnknownBlocksStart` under `~Rebinding`, the hypothesis that registrations are neither revoked nor
  replaced; then every run is of the current one (`AllCurrent`). `UnknownBlocksEveryAdmission` needs
  no hypothesis: `policy_pending_in` reads the Unknown runs of all registrations.
* `TerminalStatesLeftOnlyByStaleRecovery`: a run leaves a terminal state only by a `RecoverApply`
  that finds it no longer active, Unknown, and its registration or policy withdrawn, and it stays
  Unknown. `OverStays` shows that no method of the reducer but `cancel` reopens a run, and
  `StepStaysOver` goes through the transactions that call it.
* `SettlingIsFinal`, the safety half of `EveryRunSettles`: a run that has settled stays settled.

`PagingProofs`: `PageSplits`, for any finite set of keys and any page size. A page is part of the
set; when more is left it has exactly the page size, its cursor is one of its keys, and every key
left out lies beyond the cursor.

`PolicyDispatchProofs` (any devices, page sizes, results and bounds). `AssignedIsWoken` is not
inductive; `Inv` adds to it

* `WindowOrder`: consumed <= window <= revision, so that a new revision lies beyond every window;
* `BacklogIsDue`: a revision that is not acknowledged keeps the discovery scheduled;
* `RowsAreOld`: a row names no registration the device does not have yet, so that a new binding
  makes no old row an assignment.

`AssignedIsAlwaysWoken` then rests on `PageSplits` for `Discover` (a discoverable device is woken
by the page or lies beyond its cursor) and on the wake of every changed row for `JobPage`.
`RowsAlwaysFollowScope` needs only types besides itself, and `PageSplits` for `JobPage` (a member is
rewritten or lies beyond the cursor at which the job waits again). `TypeCorrect` is the typing part.

`TaskPollProofs`: `CancellationsAreListed` and `PoliciesAreConsidered`. The bound alone is not
inductive. The invariant limits the polls a key has missed by the position of the cursor
(`Allowance`): no more than the cursor has moved past the key, or, once the cursor has started
over, what was behind the key plus what the cursor has moved since. Every poll that passes a key
over moves the cursor by at least one or starts it over.

`CheckinSweepProofs`: `SweepsCover`, `LatestIsAlwaysKept`, `EventsAreScheduled`. The invariant adds
that a steady policy is enabled, so that the next one chosen cannot lie behind it, and the order of
events: swept before active before pending, and pending is the newest.

`ContentStoreProofs` (any uploads, objects, requests, readers and collectors). The first invariant,
`Inv`, holds for clocks that are any amount stale: what is located has landed, what is deleted is
gone, an upload, a manifest and a collector name only objects that have landed, and a request whose
lease holds still has the offset it read. From it:

* `TypeCorrect`, and `DeletedIsAlwaysGone`, where a delete fences the writes it might race.
* `AlwaysKeptWhileNeeded`: only `Reclaim` takes a manifest out of ready, and it reads pins, uploads
  and references in the transaction that does so.

The second, `StoreInv`, holds for any lag as well. It adds that the frontier of an upload that may be
resumed is whole (`FrontierInv`), that the object a request writes is known to no one else
(`PrivateInv`) and is safe from collectors under the lease (`LeaseInv`), that what is being collected
is needed by no manifest and no upload (`CollectInv`), and that a pin keeps its manifest ready
(`PinInv`), each with the exception of overdue objects. `ReadyIsAlwaysStored`,
`FrontierIsAlwaysStored` and `PinnedIsAlwaysStored` follow. The argument is that staleness is
one-sided: a collector that is behind collects no more than one that is on time (`OrphanLater`), so
what is not an orphan at the clock is safe from both, and only a claim can be wrong about an expiry,
which puts the frontier it claims in `overdue` (`OverdueSteps`). `CatalogIsAlwaysConsumable` has no
such exception, because `validate_catalog` has none, and is proved under the hypothesis `Lag = 0`, by
which nothing is ever overdue (`NeverOverdue`). The hypothesis is needed: with `Lag = 1` the run
`content_stale` publishes a manifest whose object is being deleted.

The third, `QuotaInv`, again needs nothing of the clocks: the rows in use and the open uploads are
finite, `Charged` is within the limit, and the object that a collector settles is deleted. The bound
on stored bytes alone is not inductive, because bytes arrive long after the transaction that
admitted them; what is inductive is the charge, which counts reservations and rows before their
bytes. `Begin` and `PutPiece` are the only steps that raise it and both compare it with the limit
first (`BeginCharge`, `PutPieceCharge`); a piece of an open upload takes from its reservation what
it adds (`SpareConsumed`); every other step leaves it or lowers it (`QuietCharge`). The arithmetic is about
cardinalities of sets of bytes, so no induction over a sum is needed. `TemporaryIsAlwaysBounded`
follows because what is stored, or may still land, and is not listed is charged.

The fourth, `SettleInv`, is about collectors that stop anywhere and run beside each other: the
object that an upload, a manifest or a request with its ready row names is settled or can be
addressed, and no step takes that back (`NextAdvances`). `CollectionCanAlwaysContinue` follows.

`WebhookDeliveryProofs` (any finite set of subscriptions, any events,
publications, page size and limits). The
invariant follows an event: before it is emitted it has left no trace (`Emitted`), the cursor of its
publication says whether it is (`Paged`), and every version of its audience that is still live is
on the list of the fan-out and has its delivery once the cursor is past it (`Served`).

* `ConfirmedIsAlwaysServed` is `Served` for a finished fan-out; `NothingIsEverBackfilled` is
  `Emitted`, which keeps versions activated later off the list.
* `AlwaysOneDeliveryPerOperation`, from `OwnRequest`: a delivery asked for by an operation has the
  identity that operation recorded.
* `UnsettledAlwaysKeepsItsKey` and `RetiredIsAlwaysSilent` need that what is being sent is pending
  in the outbox (`InFlight`).

Assumptions: those named in the modules (`NoAttempt`, `NoRun` and `Nil` are not elements of the sets
they complement, the sets of policies and of
subscriptions are finite, every event belongs to at most one place of one publication, the functions on policies, publications and
subscriptions have their types, bounds are natural numbers, lease,
lifetime and page sizes are positive).

Only model-checked:

* the liveness properties `EveryRunSettles`, `MemberIsServed`, `ToldEventually`, `CheckinIsSwept`
  and `SourcesDrain`, which need fairness and are out of the prover's reach.

## 6. Not modelled

The parts marked `not_modelled` in `PROJECT.json`, with the reason for each. Libraries outside
the repository (reconciler, outbox, command state machine) are modelled only by what the code
here relies on. Formatting, wire encoding, signatures, audit records and HTTP are left out
everywhere: an offer that reaches the device is taken to be authentic.
