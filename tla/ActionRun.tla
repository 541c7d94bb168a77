------------------------------ MODULE ActionRun ------------------------------
(***************************************************************************)
(* Enterprise tasks of one device on the Agent channel: admission by the   *)
(* device's own poll, relay acceptance, claim, receipt, start, result,     *)
(* cancellation, expiry, recovery and registration retirement              *)
(* (crates/execution-service/src/actions/ and retirement.rs).              *)
(*                                                                         *)
(* Every action is one database transaction: foreground requests and the   *)
(* recovery worker hold the device lock (native_recovery::lock_device) for *)
(* the whole of it.  What interleaves are the transactions, the worker's   *)
(* separate observation, the responses lost on the way to the device, the  *)
(* device itself, the clock, and administrators changing policies, scopes  *)
(* and registrations.                                                      *)
(***************************************************************************)
EXTENDS RunState, FiniteSets

CONSTANTS Run,              \* run identities (random UUIDs)
          NoRun,            \* owner of an attempt that was never issued
          Policy,           \* policies assigned to the device
          PolicyOf,         \* the policy whose admission uses a run identity
          Kind,             \* frozen action kind of each policy
          Frequency,        \* rss_mdm_policy::Frequency of each policy
          Lifetime,         \* runLifetimeSeconds
          MaxDelay,         \* largest offset of available_at from now
          EndsAt,           \* schedule.ends_at()
          MaxActive,        \* 128 in occurrence_available_in
          Changes,          \* administrative changes explored, as <<what changes, policy>>
          Rebinding,        \* whether registrations are revoked and replaced
          MaxTime,          \* bound on the clock
          MaxGeneration,    \* bound on registrations of the device
          MaxVersion        \* bound on published versions of a policy

Kinds == {"script", "collection_script", "agent_collection"}
Frequencies == {"once_per_version", "every_trigger"}

ASSUME RunAssumption == NoRun \notin Run
ASSUME PolicyAssumption ==
    /\ IsFiniteSet(Policy)
    /\ PolicyOf \in [Run -> Policy]
    /\ Kind \in [Policy -> Kinds]
    /\ Frequency \in [Policy -> Frequencies]
ASSUME BoundAssumption ==
    /\ Lifetime \in Nat \ {0} /\ MaxDelay \in Nat /\ EndsAt \in Nat /\ MaxActive \in Nat
    /\ MaxTime \in Nat /\ MaxGeneration \in Nat /\ MaxVersion \in Nat

VARIABLES
    now,            \* database clock, in seconds
    generation,     \* generation of the device's latest Agent registration
    registered,     \* whether that registration is active
    enabled,        \* policies in state enabled
    eligible,       \* policies whose executor requirements the device meets
    member,         \* policies whose scope evidence holds the device
    version,        \* per policy: current_version
    admitted,       \* rows of action_runs
    info,           \* per run: registration generation, version, available_at, gateway_accepted
    st,             \* per run: RunState
    owner,          \* per attempt: run of its action_attempts row, or NoRun
    expiry,         \* per attempt: expiry signed into the offer
    permit,         \* attempts whose action_attempts.permit is set
    collection,     \* per attempt: its collection_runs row
    event,          \* per run and status: occurred_at of the PolicyTerminal event, or Never
    observed,       \* runs the recovery worker saw active and has not applied yet
    offers,         \* attempts whose signed offer reached the device
    permits,        \* attempts whose signed start permit reached the device
    executed        \* attempts the device executed

device == <<offers, permits, executed>>
authority == <<generation, registered, enabled, eligible, member, version>>
vars == <<now, generation, registered, enabled, eligible, member, version, admitted, info, st,
          owner, expiry, permit, collection, event, observed, offers, permits, executed>>

Never == -1
Status == {"succeeded", "failed", "cancelled"}
Sealed == {"complete", "revoked", "timeout", "superseded"}

RunInfo == [generation : Nat, version : Nat, available : Nat, accepted : BOOLEAN]

TypeOK ==
    /\ now \in Nat /\ generation \in Nat /\ registered \in BOOLEAN
    /\ enabled \subseteq Policy /\ eligible \subseteq Policy /\ member \subseteq Policy
    /\ version \in [Policy -> Nat]
    /\ admitted \subseteq Run
    /\ info \in [Run -> RunInfo]
    /\ st \in [Run -> RunState]
    /\ owner \in [Attempt -> Run \cup {NoRun}]
    /\ expiry \in [Attempt -> Nat]
    /\ permit \subseteq Attempt
    /\ collection \in [Attempt -> Sealed \cup {"none", "open"}]
    /\ event \in [Run -> [Status -> Nat \cup {Never}]]
    /\ observed \subseteq Run
    /\ offers \subseteq Attempt /\ permits \subseteq Attempt /\ executed \subseteq Attempt

Init ==
    /\ now = 0 /\ generation = 1 /\ registered = TRUE
    /\ enabled = Policy /\ eligible = Policy /\ member = Policy
    /\ version = [p \in Policy |-> 1]
    /\ admitted = {}
    /\ info = [r \in Run |-> [generation |-> 0, version |-> 0, available |-> 0, accepted |-> FALSE]]
    /\ st = [r \in Run |-> New(0)]
    /\ owner = [a \in Attempt |-> NoRun]
    /\ expiry = [a \in Attempt |-> 0]
    /\ permit = {}
    /\ collection = [a \in Attempt |-> "none"]
    /\ event = [r \in Run |-> [x \in Status |-> Never]]
    /\ observed = {}
    /\ offers = {} /\ permits = {} /\ executed = {}

-----------------------------------------------------------------------------
(* Authority: what the current policy and scope allow. *)

\* stale_registration_in: the run's registration is no longer the active one.
Stale(r) == ~registered \/ info[r].generation # generation

\* withdrawn_in: the policy was disabled (or its frozen grant withdrawn).
Withdrawn(r) == PolicyOf[r] \notin enabled

\* authorized_run_in: source evidence is only required until the run has started.
AuthorizedRun(r) ==
    /\ PolicyOf[r] \in enabled \cap eligible
    /\ st[r].started = NeverStarted => PolicyOf[r] \in member

\* principal and belongs: the caller is the active registration that owns the run.
Belongs(r) == r \in admitted /\ ~Stale(r)

-----------------------------------------------------------------------------
(* save_run: persist the state and publish a terminal policy event. *)

\* Mutant of Terminal: an unknown outcome is reported as a failure.
TerminalUnknownFails(s) ==
    IF s.execution \in {"succeeded", "failed"} THEN s.execution
    ELSE IF s.execution = "unknown" THEN "failed"
    ELSE IF s.cancellation = "confirmed" THEN "cancelled" ELSE "none"

Terminal(s) ==
    IF s.execution \in {"succeeded", "failed"} THEN s.execution
    ELSE IF s.cancellation = "confirmed" THEN "cancelled" ELSE "none"

Publishes(old, new) ==
    /\ Terminal(new) # "none"
    /\ old.execution # Terminal(new)
    /\ ~(Terminal(new) = "cancelled" /\ old.cancellation = "confirmed")

\* emit_derived_on: an event identity is bound to its first body, which holds the time;
\* a different body is a Conflict that rolls the transaction back.
CanPublish(r, new) ==
    Publishes(st[r], new) => event[r][Terminal(new)] \in {Never, now}

Published(r, new) ==
    IF Publishes(st[r], new) THEN [event[r] EXCEPT ![Terminal(new)] = now] ELSE event[r]

SaveRun(r, new) ==
    /\ CanPublish(r, new)
    /\ st' = [st EXCEPT ![r] = new]
    /\ event' = [event EXCEPT ![r] = Published(r, new)]

(* collection_runs of an attempt. *)

HasCollection(r) == Kind[PolicyOf[r]] \in {"collection_script", "agent_collection"}

\* collection::abandon seals a row that is still open.
Abandon(c, a, reason) ==
    IF a \in Attempt /\ c[a] = "open" THEN [c EXCEPT ![a] = reason] ELSE c

\* Mutant of Accept: a report completes its row whatever sealed it.
AcceptSealed(c, a, trusted) == [c EXCEPT ![a] = "complete"]

\* enterprise::accept_in: a trusted report may replace a transport timeout; nothing else
\* reopens a sealed row.
Accept(c, a, trusted) ==
    IF c[a] = "open" \/ (trusted /\ c[a] = "timeout") THEN [c EXCEPT ![a] = "complete"] ELSE c

\* Mutant of AuditRecovery: only a cancellation gives the collection up.
AuditRecoveryCancelled(c, s) ==
    IF s.cancellation # "none" THEN Abandon(c, s.attempt, "revoked") ELSE c

\* recovery::audit_recovery: a cancelled or unknown run gives up its collection.
AuditRecovery(c, s) ==
    IF s.cancellation # "none" THEN Abandon(c, s.attempt, "revoked")
    ELSE IF s.execution = "unknown" THEN Abandon(c, s.attempt, "timeout") ELSE c

-----------------------------------------------------------------------------
(* claim_action: one poll of the device admits what its policies now require and *)
(* offers at most one task.                                                      *)

ReadOnly(p) == Kind[p] = "agent_collection"

\* Mutant of Blocks: the deadline frees the policy whatever became of the run.
BlocksUntilDeadline(r) ==
    /\ st[r].execution \in {"unknown", "running", "not_started"} /\ now < st[r].deadline
    /\ st[r].cancellation # "confirmed"

\* One row of policy_pending_in: a started or still deliverable run holds its policy back.
Blocks(r) ==
    LET s == st[r]
    IN  \/ /\ s.execution = "unknown"
           /\ ReadOnly(PolicyOf[r]) => now < s.deadline /\ s.cancellation # "confirmed"
        \/ /\ s.execution = "running" \/ (s.execution = "not_started" /\ now < s.deadline)
           /\ s.cancellation # "confirmed"

\* The query reads the current registration's runs and every Unknown run of the device.
PolicyPending(p) ==
    \E r \in admitted :
        /\ PolicyOf[r] = p
        /\ info[r].generation = generation \/ st[r].execution = "unknown"
        /\ Blocks(r)

\* policy_occurrence keyed by version and registration, or by a fresh request.
OccurrenceUsed(p) ==
    /\ Frequency[p] = "once_per_version"
    /\ \E r \in admitted : /\ PolicyOf[r] = p
                           /\ info[r].generation = generation
                           /\ info[r].version = version[p]

\* The count of occurrence_available_in.
ActiveRuns ==
    {r \in admitted : /\ st[r].execution \in {"not_started", "running"}
                      /\ st[r].cancellation # "confirmed"
                      /\ now < st[r].deadline}

\* accept_for_device for one policy, given that its schedule is due.
Admissible(p) ==
    /\ p \in enabled \cap eligible \cap member
    /\ now < EndsAt
    /\ ~PolicyPending(p)
    /\ ~OccurrenceUsed(p)

\* Mutant of Admission: the limit is checked once for the poll, before its first insert.
AdmissionCountsOnce(fresh, delay) ==
    /\ fresh \cap admitted = {}
    /\ \A r \in fresh :
        /\ Admissible(PolicyOf[r])
        /\ now + delay[r] < EndsAt
        /\ \A x \in fresh : PolicyOf[x] = PolicyOf[r] => x = r
    /\ fresh # {} => Cardinality(ActiveRuns) < MaxActive

\* The runs one poll inserts: at most one for each due policy, within the active limit.
Admission(fresh, delay) ==
    /\ fresh \cap admitted = {}
    /\ \A r \in fresh :
        /\ Admissible(PolicyOf[r])
        /\ now + delay[r] < EndsAt
        /\ \A x \in fresh : PolicyOf[x] = PolicyOf[r] => x = r
    /\ fresh # {} => Cardinality(ActiveRuns) + Cardinality(fresh) <= MaxActive

\* queue_run_in: the inserted rows.
QueuedInfo(r, delay) ==
    [generation |-> generation, version |-> version[PolicyOf[r]],
     available |-> now + delay[r], accepted |-> FALSE]

QueuedState(r, delay) == New(Earlier(now + delay[r] + Lifetime, EndsAt))

\* poll::offer_candidates.
Candidates ==
    {r \in admitted :
        /\ ~Stale(r)
        /\ st[r].execution = "not_started" /\ st[r].cancellation = "none"
        /\ info[r].accepted /\ info[r].available <= now /\ now < st[r].deadline
        /\ st[r].delivery = "queued" \/ st[r].lease <= now}

Offerable(r) == AuthorizedRun(r) /\ ~Withdrawn(r)

\* A candidate passed over is saved unchanged, or cancelled when its policy was withdrawn.
PassedOver(r) == IF Withdrawn(r) THEN Cancel(st[r]) ELSE st[r]

\* The candidates a poll walks past, in available_at order, before it offers or gives up.
WalkedPast(passed) ==
    /\ passed \subseteq Candidates
    /\ \A x \in passed : ~Offerable(x)
    /\ \A x \in passed, y \in Candidates \ passed : info[x].available <= info[y].available

\* audit_recovery on the candidates the walk cancelled.
WalkedCollection(passed, a) ==
    IF \E r \in passed : Withdrawn(r) /\ st[r].attempt = a
    THEN Abandon(collection, a, "revoked")[a] ELSE collection[a]

\* Write the walk, the new runs and (when offered # {}) the claim of its only member by a.
Poll(fresh, delay, passed, offered, a) ==
    /\ registered
    /\ Admission(fresh, delay)
    /\ WalkedPast(passed)
    /\ \A r \in passed : CanPublish(r, PassedOver(r))
    /\ admitted' = admitted \cup fresh
    /\ info' = [r \in Run |-> IF r \in fresh THEN QueuedInfo(r, delay) ELSE info[r]]
    /\ st' = [r \in Run |-> CASE r \in fresh   -> QueuedState(r, delay)
                              [] r \in passed  -> PassedOver(r)
                              [] r \in offered -> Claim(st[r], a, now)
                              [] OTHER         -> st[r]]
    /\ event' = [r \in Run |-> IF r \in passed THEN Published(r, PassedOver(r)) ELSE event[r]]
    /\ UNCHANGED <<now, authority, permit, observed, permits, executed>>

\* Every candidate was walked past: the poll returns no task.
ClaimNothing(fresh, delay) ==
    /\ Poll(fresh, delay, Candidates, {}, NoAttempt)
    /\ collection' = [a \in Attempt |-> WalkedCollection(Candidates, a)]
    /\ UNCHANGED <<owner, expiry, offers>>

\* Candidate r is offered as fresh attempt a; the response may be lost.
ClaimOffer(fresh, delay, passed, r, a, delivered) ==
    /\ r \in Candidates \ passed
    /\ Offerable(r)
    /\ \A y \in Candidates \ passed : info[r].available <= info[y].available
    /\ owner[a] = NoRun
    /\ CanClaim(st[r], a, now)
    /\ Poll(fresh, delay, passed, {r}, a)
    /\ owner' = [owner EXCEPT ![a] = r]
    /\ expiry' = [expiry EXCEPT ![a] = Earlier(now + Lease, st[r].deadline)]
    /\ collection' =
        [b \in Attempt |->
            IF b = st[r].attempt THEN Abandon(collection, b, "superseded")[b]
            ELSE IF b = a /\ HasCollection(r) THEN "open"
            ELSE WalkedCollection(passed, b)]
    /\ offers' = IF delivered THEN offers \cup {a} ELSE offers

\* The same claim request again: the stored offer is returned only while it is still valid.
ReplayClaim(a) ==
    /\ owner[a] # NoRun
    /\ LET r == owner[a] IN
        /\ Belongs(r)
        /\ st[r].cancellation = "none" /\ st[r].execution = "not_started"
        /\ st[r].attempt = a
        /\ now < expiry[a]
        /\ AuthorizedRun(r)
    /\ offers' = offers \cup {a}
    /\ UNCHANGED <<now, authority, admitted, info, st, owner, expiry, permit, collection, event,
                   observed, permits, executed>>

\* RelayAccept: accept_action_dispatch consumes the run's outbox message; repeats change nothing.
RelayAccept(r) ==
    /\ r \in admitted
    /\ ~info[r].accepted
    /\ info' = [info EXCEPT ![r].accepted = TRUE]
    /\ UNCHANGED <<now, authority, admitted, st, owner, expiry, permit, collection, event,
                   observed, device>>

-----------------------------------------------------------------------------
(* action_event: reports of the device for the current attempt of its own run. *)

\* Received extends the lease to the deadline, so that preparation may take long.
EventReceived(a) ==
    /\ a \in offers
    /\ LET r == owner[a] IN
        /\ Belongs(r)
        /\ AuthorizedRun(r)
        /\ CanReceived(st[r], a, now)
        /\ SaveRun(r, Received(st[r]))
    /\ UNCHANGED <<now, authority, admitted, info, owner, expiry, permit, collection, observed,
                   device>>

\* Start signs and stores the only permit of the attempt; the response may be lost.
EventStart(a, delivered) ==
    /\ a \in offers
    /\ LET r == owner[a] IN
        /\ Belongs(r)
        /\ AuthorizedRun(r)
        /\ st[r].execution = "not_started"
        /\ CanStart(st[r], a, now)
        /\ SaveRun(r, Start(st[r], a, now))
    /\ a \notin permit
    /\ permit' = permit \cup {a}
    /\ permits' = IF delivered THEN permits \cup {a} ELSE permits
    /\ UNCHANGED <<now, authority, admitted, info, owner, expiry, collection, observed,
                   offers, executed>>

\* The same Start request again returns the stored permit while the run may still execute.
ReplayStart(a) ==
    /\ a \in permit
    /\ LET r == owner[a] IN
        /\ Belongs(r)
        /\ now < st[r].deadline
        /\ st[r].cancellation = "none" /\ st[r].execution = "running" /\ st[r].attempt = a
        /\ ~Withdrawn(r) /\ AuthorizedRun(r)
    /\ permits' = permits \cup {a}
    /\ UNCHANGED <<now, authority, admitted, info, st, owner, expiry, permit, collection, event,
                   observed, offers, executed>>

\* Cancelled: the device gave the task up; a started one may have had an effect.
EventCancelled(a) ==
    /\ a \in offers
    /\ LET r == owner[a]
           asked == Cancel(st[r])
       IN  /\ Belongs(r)
           /\ CanCancelled(asked, a)
           /\ SaveRun(r, Cancelled(asked))
    /\ collection' = Abandon(collection, a, "revoked")
    /\ UNCHANGED <<now, authority, admitted, info, owner, expiry, permit, observed, device>>

\* Result, CollectionResult and their chunked forms: collection::finish and
\* agent_collection::finish.  Only an executed attempt can report success; an agent
\* collection reports its quality per field and always succeeds as an execution.
EventResult(a, success, trusted) ==
    /\ a \in offers
    /\ success => a \in executed
    /\ LET r == owner[a] IN
        /\ Belongs(r)
        /\ Kind[PolicyOf[r]] = "agent_collection" => success
        /\ trusted => success /\ TrustsResult(st[r], now)
        /\ CanReport(st[r], a)
        /\ SaveRun(r, Result(st[r], success))
        /\ collection' = IF HasCollection(r) THEN Accept(collection, a, trusted) ELSE collection
    /\ UNCHANGED <<now, authority, admitted, info, owner, expiry, permit, observed, device>>

\* The agent (external): it runs a task once for each start permit it holds.
DeviceExecute(a) ==
    /\ a \in permits \ executed
    /\ executed' = executed \cup {a}
    /\ UNCHANGED <<now, authority, admitted, info, st, owner, expiry, permit, collection, event,
                   observed, offers, permits>>

-----------------------------------------------------------------------------
(* The durable recovery worker: observe and apply are separate transactions. *)

\* Mutant of Active: a started run is left to its device.
ActiveUnstarted(r) ==
    r \in admitted /\ st[r].execution = "not_started" /\ st[r].cancellation # "confirmed"

\* native_recovery::active, which needs_step returns for Agent runs.
Active(r) ==
    /\ r \in admitted
    /\ st[r].execution \in {"not_started", "running", "unknown"}
    /\ st[r].cancellation # "confirmed"

RecoverObserve(r) ==
    /\ Active(r)
    /\ r \notin observed
    /\ observed' = observed \cup {r}
    /\ UNCHANGED <<now, authority, admitted, info, st, owner, expiry, permit, collection, event,
                   device>>

\* Mutant of Recovered: a started run that has not answered is queued again.
RecoveredRequeues(r) ==
    IF st[r].execution = "running" /\ now < st[r].deadline
    THEN New(st[r].deadline) ELSE Expire(st[r], now)

\* recover_one for an Agent run.
Recovered(r) ==
    LET fenced == IF Stale(r) \/ Withdrawn(r) THEN Cancel(st[r]) ELSE st[r]
        expired == Expire(fenced, now)
    IN  IF expired.execution = "not_started" /\ expired.cancellation = "requested"
        THEN Cancel(expired) ELSE expired

\* apply loads the run again but does not ask again whether it is active.
RecoverApply(r) ==
    /\ r \in observed
    /\ observed' = observed \ {r}
    /\ SaveRun(r, Recovered(r))
    /\ collection' = AuditRecovery(collection, Recovered(r))
    /\ UNCHANGED <<now, authority, admitted, info, owner, expiry, permit, device>>

\* A worker that stops, or loses its claim, between the two transactions.
RecoverDrop(r) ==
    /\ r \in observed
    /\ observed' = observed \ {r}
    /\ UNCHANGED <<now, authority, admitted, info, st, owner, expiry, permit, collection, event,
                   device>>

-----------------------------------------------------------------------------
(* Registration lifecycle, as far as it touches tasks. *)

\* Mutant of RetiredState: a started run is left to finish.
RetiredStateUnstarted(s) == IF s.execution = "not_started" THEN Cancel(s) ELSE s

\* retire_in cancels what a retired registration left open, without save_run, and
\* collection::terminate seals its collections; both in the retiring transaction.
RetiredState(s) ==
    IF s.execution \in {"not_started", "running", "waiting_reboot", "unknown"}
       /\ s.cancellation = "none"
    THEN Cancel(s) ELSE s

RetireWork(reason) ==
    /\ st' = [r \in Run |-> IF r \in admitted /\ ~Stale(r) THEN RetiredState(st[r]) ELSE st[r]]
    /\ collection' =
        [a \in Attempt |-> IF owner[a] \in admitted /\ ~Stale(owner[a])
                           THEN Abandon(collection, a, reason)[a] ELSE collection[a]]

\* An administrator revokes the device's registration.
Revoke ==
    /\ registered
    /\ Rebinding
    /\ registered' = FALSE
    /\ RetireWork("revoked")
    /\ UNCHANGED <<now, generation, enabled, eligible, member, version, admitted, info, owner,
                   expiry, permit, event, observed, device>>

\* bind_authorized_in: a new generation; an active predecessor is superseded with it.
Bind ==
    /\ generation < MaxGeneration
    /\ Rebinding
    /\ generation' = generation + 1
    /\ registered' = TRUE
    /\ IF registered THEN RetireWork("superseded") ELSE UNCHANGED <<st, collection>>
    /\ UNCHANGED <<now, enabled, eligible, member, version, admitted, info, owner, expiry, permit,
                   event, observed, device>>

(* Administrators and the outside world. *)

Flipped(set, p) == IF p \in set THEN set \ {p} ELSE set \cup {p}

ChangeAuthority(p) ==
    /\ \/ /\ <<"enabled", p>> \in Changes /\ enabled' = Flipped(enabled, p)
          /\ UNCHANGED <<eligible, member, version>>
       \/ /\ <<"eligible", p>> \in Changes /\ eligible' = Flipped(eligible, p)
          /\ UNCHANGED <<enabled, member, version>>
       \/ /\ <<"member", p>> \in Changes /\ member' = Flipped(member, p)
          /\ UNCHANGED <<enabled, eligible, version>>
       \/ /\ <<"version", p>> \in Changes /\ version[p] < MaxVersion
          /\ version' = [version EXCEPT ![p] = @ + 1]
          /\ UNCHANGED <<enabled, eligible, member>>
    /\ UNCHANGED <<now, generation, registered, admitted, info, st, owner, expiry, permit,
                   collection, event, observed, device>>

Tick ==
    /\ now < MaxTime
    /\ now' = now + 1
    /\ UNCHANGED <<authority, admitted, info, st, owner, expiry, permit, collection, event,
                   observed, device>>

-----------------------------------------------------------------------------
Delays(fresh) == [fresh -> 0 .. MaxDelay]

ClaimAction ==
    \E fresh \in SUBSET (Run \ admitted) : \E delay \in Delays(fresh) :
        \/ ClaimNothing(fresh, delay)
        \/ \E passed \in SUBSET Candidates, r \in Candidates, a \in Attempt,
              delivered \in BOOLEAN : ClaimOffer(fresh, delay, passed, r, a, delivered)

ActionEvent(a) ==
    \/ EventReceived(a)
    \/ \E delivered \in BOOLEAN : EventStart(a, delivered)
    \/ EventCancelled(a)
    \/ \E success, trusted \in BOOLEAN : EventResult(a, success, trusted)

Recovery(r) == RecoverObserve(r) \/ RecoverApply(r) \/ RecoverDrop(r)

Next ==
    \/ ClaimAction
    \/ \E a \in Attempt : ReplayClaim(a) \/ ActionEvent(a) \/ ReplayStart(a) \/ DeviceExecute(a)
    \/ \E r \in Run : RelayAccept(r) \/ Recovery(r)
    \/ Revoke
    \/ Bind
    \/ \E p \in Policy : ChangeAuthority(p)
    \/ Tick

Spec == Init /\ [][Next]_vars

-----------------------------------------------------------------------------
(* Properties. *)

\* A run has at most one effect on its device, over all its attempts: neither a lost
\* response, a replayed claim or start, an expired lease and a new offer, nor a recovery
\* step lets a second attempt of the same run execute.
AtMostOneEffect ==
    \A a, b \in executed : owner[a] = owner[b] => a = b

\* A stored start permit names the current attempt of a run that has started: no later
\* claim, recovery step or retirement moves a permitted run to another attempt or back to
\* not_started.  What AtMostOneEffect rests on.
PermitIsCurrent ==
    \A a \in permit : /\ owner[a] \in admitted
                      /\ st[owner[a]].attempt = a
                      /\ st[owner[a]].execution # "not_started"

\* unmanage::delivery_ended.
DeliveryEnded(r) ==
    /\ st[r].execution = "not_started"
    /\ st[r].cancellation # "none" \/ st[r].deadline <= now

\* "An expired or cancelled unstarted task cannot be delivered by the execution owner":
\* once delivery has ended it stays ended, and no attempt of the run was or will be given
\* a start permit.  Retirement reports agent_uninstall_not_started on the strength of it.
EndedDeliveryIsFinal ==
    [][\A r \in admitted : DeliveryEnded(r) =>
          /\ DeliveryEnded(r)'
          /\ \A a \in Attempt : owner[a] = r => a \notin permit /\ a \notin permit']_vars

\* A collection row that still waits for its report belongs to the current attempt of a
\* run that is neither cancelled, settled nor left behind by its registration; every path
\* that ends an attempt (reclaim, withdrawal, expiry, cancellation, result, retirement)
\* seals it in the same transaction.
OpenCollectionIsCurrent ==
    \A a \in Attempt : collection[a] = "open" =>
        LET r == owner[a]
        IN  /\ r \in admitted
            /\ st[r].attempt = a
            /\ st[r].execution \in {"not_started", "running"}
            /\ st[r].cancellation = "none"
            /\ ~Stale(r)

\* accept_in and abandon: "Never replace published evidence or reopen cancellation/
\* revocation"; only a transport timeout may still become complete.
SealedStaysSealed ==
    [][\A a \in Attempt :
          /\ collection[a] \in {"complete", "revoked", "superseded"} =>
                collection'[a] = collection[a]
          /\ collection[a] = "timeout" => collection'[a] \in {"timeout", "complete"}]_vars

\* A run of a write policy may still change the device: it is deliverable, or it started and
\* its outcome is not known, however long ago its deadline passed.
MayAct(r) ==
    \/ st[r].execution \in {"running", "unknown"}
    \/ /\ st[r].execution = "not_started" /\ now < st[r].deadline
       /\ st[r].cancellation # "confirmed"

\* policy_pending_in: in one registration at most one run of a write policy may still act
\* on the device; the next is admitted only when the effect of the last one is settled.
OnePendingRun ==
    \A x, y \in admitted :
        (/\ PolicyOf[x] = PolicyOf[y] /\ ~ReadOnly(PolicyOf[x])
         /\ info[x].generation = info[y].generation
         /\ MayAct(x) /\ MayAct(y)) => x = y

\* Tasks of a registration that was revoked or replaced are fenced: none is left
\* uncancelled, so none can be claimed, received or started any more
\* (docs/architecture/enterprise-tasks.md:34).
StaleRunsAreFenced ==
    \A r \in admitted : Stale(r) =>
        st[r].cancellation # "none" \/ st[r].execution \in {"succeeded", "failed"}

\* Subscribers learn exactly the verdict: a success or failure event exists if and only if
\* the run ended that way, and a cancelled event only if a cancellation was begun.
EventsTellTheVerdict ==
    \A r \in admitted :
        /\ \A x \in {"succeeded", "failed"} : event[r][x] # Never <=> st[r].execution = x
        /\ event[r]["cancelled"] # Never => st[r].cancellation # "none"

\* occurrence_available_in bounds the device's open runs, also when one poll admits several.
ActiveRunsBounded == Cardinality(ActiveRuns) <= MaxActive

\* The run implements the abstract promise: authorised or closed, one effect, one verdict.
Granted == {r \in Run : \E a \in permit : owner[a] = r}
Closed == {r \in admitted : DeliveryEnded(r)}
Effects == [r \in Run |-> {a \in executed : owner[a] = r}]
Verdict ==
    [r \in Run |-> IF st[r].execution \in {"succeeded", "failed"} THEN st[r].execution ELSE "open"]

Promise == INSTANCE AtMostOnce
    WITH Effect <- Attempt, granted <- Granted, closed <- Closed,
         effects <- Effects, verdict <- Verdict

KeepsPromise == Promise!Spec

\* production.rs:477, "Unknown writes remain fenced across registration changes" (and
\* docs/architecture/enterprise-tasks.md:7): no run of a write policy starts while another
\* run of that policy is Unknown.
UnknownBlocksStart ==
    [][\A x, y \in admitted :
          (/\ PolicyOf[x] = PolicyOf[y] /\ ~ReadOnly(PolicyOf[x])
           /\ st[x].execution = "unknown" /\ st[y].execution = "not_started")
          => st'[y].execution # "running"]_vars

\* "重复或过时消息不能误改终态": docs/product/rss-mdm-prd.md:980 says that a repeated or outdated
\* message may not change a terminal state; no step takes a run out of the states that
\* save_run reports as terminal.
TerminalStays ==
    [][\A r \in admitted : Terminal(st[r]) # "none" => Terminal(st'[r]) # "none"]_vars

-----------------------------------------------------------------------------
(* Liveness.  Time passes, and the reconciler re-observes a run for as long as it is *)
(* active; a worker may lose its claim between observe and apply, but not for ever.  *)

Fairness ==
    /\ WF_vars(Tick)
    /\ \A r \in Run : WF_vars(RecoverObserve(r)) /\ SF_vars(RecoverApply(r))

FairSpec == Spec /\ Fairness

Settled(r) ==
    \/ st[r].execution \in {"succeeded", "failed", "unknown"}
    \/ st[r].execution = "not_started" /\ st[r].cancellation = "confirmed"

\* No run stays deliverable or running for ever: with a silent device, a lost response or a
\* crashed worker, every admitted run ends in a verdict, in Unknown or cancelled unstarted.
EveryRunSettles == \A r \in Run : (r \in admitted) ~> Settled(r)
=============================================================================
