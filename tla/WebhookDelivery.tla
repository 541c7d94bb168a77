-------------------------- MODULE WebhookDelivery --------------------------
(***************************************************************************)
(* Outbound webhooks: versioned subscriptions, the events a business       *)
(* transaction or a compliance publication emits, the paged fan-out of an  *)
(* event to the subscription versions that were active, the relay, the     *)
(* replay and the redrive of the deliveries, and the keys they are signed  *)
(* with.  Every action is one transaction, or one settlement by the outbox *)
(* relay (external).                                                       *)
(*                                                                         *)
(* A change of a subscription that alters no delivery setting only raises  *)
(* its revision, and a retried operation only repeats its stored response: *)
(* both are stuttering here.  Selection by group is a constant; it is read *)
(* once, when the candidates of an event are listed.  All subscriptions    *)
(* use one key reference; the network configuration never changes.         *)
(***************************************************************************)
EXTENDS Integers, Sequences, SequencesExt, FiniteSets, FiniteSetsExt

CONSTANTS Subscription,     \* subscription ids; their order is the order of the listing
          Event,            \* event ids
          Publication,      \* compliance publications
          Changes,          \* the changed conclusions of a publication, in device order
          Selects,          \* the events the selection of a subscription covers
          Operation,        \* operation ids of tests, replays and redrives
          Nil,              \* SQL NULL
          Page, MaxSubscriptions,   \* PAGE, MAX_SUBSCRIPTIONS
          Lag,              \* how old a stamp may be when its transaction commits
          MaxVersion, MaxTime,      \* bounds on versions and on the clock
          MaxSources,       \* bound on business changes and publications
          MaxRequests,      \* bound on the requests of administrators
          MaxInFlight,      \* bound on requests in flight
          Enabled           \* subscriptions that are enabled at the start

ASSUME BoundsAssumption ==
    /\ Page \in Nat \ {0} /\ MaxSubscriptions \in Nat /\ Lag \in Nat
    /\ MaxVersion \in [Subscription -> Nat \ {0}] /\ MaxTime \in Nat
    /\ MaxSources \in Nat /\ MaxRequests \in Nat \ (0 .. 2) /\ MaxInFlight \in Nat
ASSUME IdsAssumption ==
    /\ Subscription \subseteq Nat /\ IsFiniteSet(Subscription)
    /\ Event \cap Publication = {} /\ Event \cap Operation = {} /\ Nil \notin Operation \cup Nat
ASSUME ChangesAssumption ==
    /\ Changes \in [Publication -> Seq(Event)]
    /\ \A p, q \in Publication : \A i \in DOMAIN Changes[p], j \in DOMAIN Changes[q] :
           Changes[p][i] = Changes[q][j] => p = q /\ i = j
    /\ Selects \in [Subscription -> SUBSET Event]
ASSUME EnabledAssumption == Enabled \subseteq {s \in Subscription : MaxVersion[s] >= 2}

VARIABLES clock,
          subs,             \* mdm_webhook.subscriptions; version 0 is no row
          activated,        \* mdm_webhook.versions.activated_at
          created,          \* mdm_webhook.events.created_at; Nil is no row
          publications,     \* mdm_webhook.compliance_sources
          fanout,           \* mdm_webhook.fanout
          source,           \* outbox rows of the source domain
          outbox,           \* outbox and mdm_webhook.deliveries rows of the delivery domain
          sending,          \* deliveries with an authorized request in flight
          operations,       \* mdm_webhook.operations: the request an operation made
          redriven,         \* operations the recovery store has settled (external)
          head,             \* mdm_webhook.key_heads
          materials,        \* mdm_webhook.key_materials
          audience,         \* history: the versions stamped active no later than an event
          signer            \* history: the active key when a delivery was queued

config == <<subs, activated>>
emission == <<created, publications, audience>>
delivery == <<outbox, sending, operations, redriven, signer>>
keys == <<head, materials>>
vars == <<clock, config, emission, fanout, source, delivery, keys>>

Time == 0 .. MaxTime
Key == 1 .. MaxRequests
Version == UNION {1 .. MaxVersion[s] : s \in Subscription}
Target == [sub: Subscription, version: Version]

\* queue: what the identity of a delivery is derived from.
Identity == [event: Event \cup Operation, sub: Subscription, version: Version,
             operation: Operation \cup {Nil}]
Request == [kind: {"test", "replay", "redrive"}, id: Identity]
Material == [state: {"none", "prepared", "confirmed"}, revoked: BOOLEAN]
Status == {"none", "pending", "published", "dead_letter"}
ASSUME NilAssumption == Nil \notin Request

TypeOK ==
    /\ clock \in Time
    /\ subs \in [Subscription -> [version: Version \cup {0}, enabled: BOOLEAN, deleted: BOOLEAN]]
    /\ \A s \in Subscription : subs[s].deleted \/ subs[s].version = 0 => ~subs[s].enabled
    /\ activated \in [Subscription -> [Version -> Time \cup {Nil}]]
    /\ created \in [Event -> Time \cup {Nil}]
    /\ publications \in [Publication -> [created: Time \cup {Nil}, cursor: Nat, complete: BOOLEAN]]
    /\ fanout \in [Event -> [listed: BOOLEAN, snapshot: SUBSET Target, cursor: Nat,
                            complete: BOOLEAN]]
    /\ source \in [Event \cup Publication -> Status]
    /\ DOMAIN outbox \subseteq Identity /\ sending \subseteq DOMAIN outbox
    /\ outbox \in [DOMAIN outbox -> Status \ {"none"}]
    /\ operations \in [Operation -> Request \cup {Nil}] /\ redriven \subseteq Operation
    /\ audience \in [Event -> SUBSET Target] /\ signer \in [DOMAIN outbox -> Key]
    /\ head \in [revision: Nat, active: Key, retiring: Key \cup {Nil}]
    /\ materials \in [Key -> Material]

\* An enabled subscription was created, disabled, with version 1 and then enabled.  The first
\* key was prepared, confirmed and activated; another one is prepared and confirmed.
Init ==
    /\ clock = 0
    /\ subs = [s \in Subscription |-> [version |-> IF s \in Enabled THEN 2 ELSE 0,
                                       enabled |-> s \in Enabled, deleted |-> FALSE]]
    /\ activated = [s \in Subscription |-> [v \in Version |->
                        IF s \in Enabled /\ v = 2 THEN 0 ELSE Nil]]
    /\ created = [e \in Event |-> Nil]
    /\ publications = [p \in Publication |-> [created |-> Nil, cursor |-> 0, complete |-> FALSE]]
    /\ fanout = [e \in Event |-> [listed |-> FALSE, snapshot |-> {}, cursor |-> 0,
                                  complete |-> FALSE]]
    /\ source = [m \in Event \cup Publication |-> "none"]
    /\ outbox = [d \in {} |-> "pending"] /\ sending = {}
    /\ operations = [o \in Operation |-> Nil] /\ redriven = {}
    /\ audience = [e \in Event |-> {}] /\ signer = [d \in {} |-> 1]
    /\ head = [revision |-> 3, active |-> 1, retiring |-> Nil]
    /\ materials = [k \in Key |-> [state |-> IF k \in {1, 3} THEN "confirmed" ELSE "none",
                                   revoked |-> FALSE]]

Tick == clock < MaxTime /\ clock' = clock + 1
        /\ UNCHANGED <<config, emission, fanout, source, delivery, keys>>

\* clock_timestamp(), evaluated some time before its transaction commits.
Stamp == {t \in Time : t <= clock /\ clock - t <= Lag}

\* The bound on the requests of administrators.
Requests == MapThenSumSet(LAMBDA s : subs[s].version, Subscription)
            + Cardinality({o \in Operation : operations[o] # Nil}) + head.revision
Allowed == Requests < MaxRequests

-----------------------------------------------------------------------------
(* Signing keys.                                                           *)

\* load: the keys are usable.
Loadable ==
    /\ materials[head.active].state = "confirmed" /\ ~materials[head.active].revoked
    /\ head.retiring # Nil => ~materials[head.retiring].revoked

\* A mutant: only a delivery still waiting for the relay is unsettled.
UnsettledPending == {d \in DOMAIN outbox : outbox[d] = "pending"}

\* transition, RetirePrevious: the deliveries that may still have to be signed.
Unsettled == {d \in DOMAIN outbox : outbox[d] # "published"}

beyondKeys == <<clock, config, emission, fanout, source, delivery>>

\* Every request moves the revision of the head; a material has the revision it was prepared at.
Moves(active, retiring) ==
    head' = [revision |-> head.revision + 1, active |-> active, retiring |-> retiring]

Prepare ==
    /\ Allowed
    /\ Moves(head.active, head.retiring)
    /\ materials' = [materials EXCEPT ![head.revision + 1].state = "prepared"]
    /\ UNCHANGED beyondKeys

\* begin_confirmation to finish_confirmation: the receiver proves that it has the key.
ConfirmKey(k) ==
    /\ materials[k].state = "prepared" /\ ~materials[k].revoked
    /\ materials' = [materials EXCEPT ![k].state = "confirmed"]
    /\ UNCHANGED <<beyondKeys, head>>

Activate(k) ==
    /\ Allowed
    /\ materials[k].state = "confirmed" /\ ~materials[k].revoked
    /\ head.retiring = Nil /\ head.active # k
    /\ Moves(k, head.active)
    /\ UNCHANGED <<beyondKeys, materials>>

Revoke(k) ==
    /\ Allowed
    /\ materials[k].state # "none"
    /\ materials' = [materials EXCEPT ![k].revoked = TRUE]
    /\ Moves(head.active, IF head.retiring = k THEN Nil ELSE head.retiring)
    /\ UNCHANGED beyondKeys

RetirePrevious ==
    /\ Allowed
    /\ head.retiring # Nil /\ Unsettled = {}
    /\ Moves(head.active, Nil)
    /\ UNCHANGED <<beyondKeys, materials>>

-----------------------------------------------------------------------------
(* Subscriptions: mutate.                                                  *)

\* The change replaces the target version: the old one is retired, which is being other than
\* the current version, and the new one is activated if the subscription is enabled.
Rotate(s, enabled, deleted) ==
    /\ subs[s].version < MaxVersion[s] /\ Allowed
    /\ subs' = [subs EXCEPT ![s] = [version |-> @.version + 1, enabled |-> enabled,
                                    deleted |-> deleted]]
    /\ \E t \in Stamp : activated' = [activated EXCEPT ![s][subs[s].version + 1] =
                                          IF enabled THEN t ELSE Nil]
    /\ UNCHANGED <<clock, emission, fanout, source, delivery, keys>>

Exists(s) == subs[s].version > 0 /\ ~subs[s].deleted

\* A mutant: the limit is not checked.
CreateUnlimited(s) == subs[s].version = 0 /\ Rotate(s, FALSE, FALSE)

Create(s) ==
    /\ subs[s].version = 0
    /\ Cardinality({x \in Subscription : Exists(x)}) < MaxSubscriptions
    /\ Rotate(s, FALSE, FALSE)

Put(s) == Exists(s) /\ Rotate(s, subs[s].enabled, FALSE)
Switch(s) == Exists(s) /\ (subs[s].enabled \/ Loadable) /\ Rotate(s, ~subs[s].enabled, FALSE)

Delete(s) == Exists(s) /\ Rotate(s, FALSE, TRUE)

-----------------------------------------------------------------------------
(* Events.                                                                 *)

Derived == UNION {ToSet(Changes[p]) : p \in Publication}

\* The subscriptions whose current version was active at time t.
Active(t) ==
    {s \in Subscription :
        /\ subs[s].enabled /\ ~subs[s].deleted
        /\ activated[s][subs[s].version] # Nil /\ activated[s][subs[s].version] <= t}

\* The current versions that were active at time t and select event e.
Candidates(e, t) ==
    {[sub |-> s, version |-> subs[s].version] : s \in {x \in Active(t) : e \in Selects[x]}}

\* emit_derived_on for events not emitted yet, all stamped t.
EmitAt(new, t) ==
    /\ created' = [e \in Event |-> IF e \in new THEN t ELSE created[e]]
    /\ audience' = [e \in Event |-> IF e \in new THEN Candidates(e, t) ELSE audience[e]]

\* The bound on sources, derived events aside.
More == Cardinality({m \in (Event \ Derived) \cup Publication : source[m] # "none"}) < MaxSources

\* emit_in, in the transaction of the business change.
Emit(e) ==
    /\ e \notin Derived /\ created[e] = Nil /\ More
    /\ \E t \in Stamp : EmitAt({e}, t)
    /\ source' = [source EXCEPT ![e] = "pending"]
    /\ UNCHANGED <<clock, config, publications, fanout, delivery, keys>>

\* compliance_in, in the transaction that publishes a run.
Publish(p) ==
    /\ publications[p].created = Nil /\ More
    /\ \E t \in Stamp : publications' = [publications EXCEPT ![p].created = t]
    /\ source' = [source EXCEPT ![p] = "pending"]
    /\ UNCHANGED <<clock, config, created, audience, fanout, delivery, keys>>

\* A mutant: derived events are stamped when they are emitted.
OriginNow(p) == clock
Origin(p) == publications[p].created

\* Where the page after cursor ends.
PageEnd(cursor, length) == IF cursor + Page < length THEN cursor + Page ELSE length

\* compliance_step: one page of changes becomes events, with the cursor.
ComplianceStep(p) ==
    LET row == publications[p]
        end == PageEnd(row.cursor, Len(Changes[p]))
        new == {Changes[p][i] : i \in row.cursor + 1 .. end}
    IN  /\ source[p] = "pending" /\ ~row.complete
        /\ EmitAt(new, Origin(p))
        /\ publications' = [publications EXCEPT ![p].cursor = end,
                                                ![p].complete = end = Len(Changes[p])]
        /\ source' = [m \in DOMAIN source |-> IF m \in new THEN "pending" ELSE source[m]]
        /\ UNCHANGED <<clock, config, fanout, delivery, keys>>
-----------------------------------------------------------------------------
(* Fan-out.                                                                *)

\* A mutant: the version of the delivery is not compared.
LiveAnyVersion(d) == subs[d.sub].enabled /\ ~subs[d.sub].deleted

\* binding: the version of a delivery may be sent to and recovered.
Live(d) == subs[d.sub].enabled /\ ~subs[d.sub].deleted /\ subs[d.sub].version = d.version

Automatic(e, t) == [event |-> e, sub |-> t.sub, version |-> t.version, operation |-> Nil]

\* queue: a row that is already there stays as it is.
Queue(new) ==
    /\ outbox' = [d \in DOMAIN outbox \cup new |->
                      IF d \in DOMAIN outbox THEN outbox[d] ELSE "pending"]
    /\ signer' = [d \in DOMAIN outbox \cup new |->
                      IF d \in DOMAIN outbox THEN signer[d] ELSE head.active]

\* The place of a candidate in the list, which is ordered by id.
Place(t, snapshot) == Cardinality({x \in snapshot : x.sub <= t.sub})

\* step: list the candidates once, queue one page of those that are still current.
FanoutStep(e) ==
    LET old == fanout[e]
        snapshot == IF old.listed THEN old.snapshot ELSE Candidates(e, created[e])
        end == PageEnd(old.cursor, Cardinality(snapshot))
        page == {t \in snapshot : Place(t, snapshot) \in old.cursor + 1 .. end}
    IN  /\ source[e] = "pending" /\ ~old.complete
        /\ ~old.listed => Cardinality(Active(created[e])) <= MaxSubscriptions
        /\ fanout' = [fanout EXCEPT ![e] = [listed |-> TRUE, snapshot |-> snapshot, cursor |-> end,
                                            complete |-> end = Cardinality(snapshot)]]
        /\ Queue({Automatic(e, t) : t \in {x \in page : Live(x)}})
        /\ UNCHANGED <<clock, config, emission, source, sending, operations, redriven, keys>>

\* A mutant: every attempt that commits a page is a receipt.
CompleteAfterPage(m) == IF m \in Event THEN fanout[m].listed ELSE publications[m].cursor > 0
Complete(m) == IF m \in Event THEN fanout[m].complete ELSE publications[m].complete

\* The relay settles a source message (external): only a complete fan-out is a receipt; any
\* other attempt is ambiguous, and is repeated until the window for retries is over.
Confirm(m) ==
    /\ source[m] = "pending" /\ Complete(m)
    /\ source' = [source EXCEPT ![m] = "published"]
    /\ UNCHANGED <<clock, config, emission, fanout, delivery, keys>>
GiveUp(m) ==
    /\ source[m] = "pending"
    /\ source' = [source EXCEPT ![m] = "dead_letter"]
    /\ UNCHANGED <<clock, config, emission, fanout, delivery, keys>>

-----------------------------------------------------------------------------
(* Deliveries.                                                             *)

others == <<clock, config, emission, fanout, source, keys>>

\* The publisher asks for the target (Authorizer::authorize).
Authorize(d) ==
    /\ outbox[d] = "pending" /\ d \notin sending /\ Live(d) /\ Loadable
    /\ Cardinality(sending) < MaxInFlight
    /\ sending' = sending \cup {d}
    /\ UNCHANGED <<others, outbox, operations, redriven, signer>>

\* Denied is permanent.  A request that failed may still have reached the receiver; it is made
\* again until the window for retries is over.
Deny(d) ==
    /\ outbox[d] = "pending" /\ d \notin sending /\ ~(Live(d) /\ Loadable)
    /\ outbox' = [outbox EXCEPT ![d] = "dead_letter"]
    /\ UNCHANGED <<others, sending, operations, redriven, signer>>
Respond(d, status) ==
    /\ sending' = sending \ {d}
    /\ outbox' = [outbox EXCEPT ![d] = status]
    /\ UNCHANGED <<others, operations, redriven, signer>>

\* A mutant: an operation is not looked up.
UnusedAlways(o) == TRUE

\* replay_operation: an operation makes one request.
Unused(o) == operations[o] = Nil

\* test_on: a targeted event, with its delivery and without a source message.
Test(s, o) ==
    LET d == [event |-> o, sub |-> s, version |-> subs[s].version, operation |-> o]
    IN  /\ Allowed /\ Unused(o) /\ Exists(s) /\ subs[s].enabled
        /\ Queue({d})
        /\ operations' = [operations EXCEPT ![o] = [kind |-> "test", id |-> d]]
        /\ UNCHANGED <<others, sending, redriven>>

\* replay: a dead letter is delivered again under a new identity.
Replay(d, o) ==
    /\ Allowed /\ Unused(o) /\ Live(d) /\ outbox[d] = "dead_letter"
    /\ Queue({[d EXCEPT !.operation = o]})
    /\ operations' = [operations EXCEPT ![o] = [kind |-> "replay", id |-> d]]
    /\ UNCHANGED <<others, sending, redriven>>

\* redrive: the intent is recorded first; the recovery store (external) settles it on its own.
Intend(d, o) ==
    /\ Allowed /\ Unused(o) /\ Live(d)
    /\ operations' = [operations EXCEPT ![o] = [kind |-> "redrive", id |-> d]]
    /\ UNCHANGED <<others, outbox, sending, redriven, signer>>
Redrive(o) ==
    /\ ~Unused(o) /\ operations[o].kind = "redrive" /\ o \notin redriven
    /\ outbox[operations[o].id] = "dead_letter"
    /\ outbox' = [outbox EXCEPT ![operations[o].id] = "pending"]
    /\ redriven' = redriven \cup {o}
    /\ UNCHANGED <<others, sending, operations, signer>>

-----------------------------------------------------------------------------
Next ==
    \/ Tick
    \/ Prepare \/ RetirePrevious
    \/ \E k \in Key : ConfirmKey(k) \/ Activate(k) \/ Revoke(k)
    \/ \E s \in Subscription : Create(s) \/ Put(s) \/ Switch(s) \/ Delete(s)
    \/ \E e \in Event : Emit(e) \/ FanoutStep(e)
    \/ \E p \in Publication : Publish(p) \/ ComplianceStep(p)
    \/ \E m \in Event \cup Publication : Confirm(m) \/ GiveUp(m)
    \/ \E d \in DOMAIN outbox : Authorize(d) \/ Deny(d)
    \/ \E d \in sending, status \in Status \ {"none"} : Respond(d, status)
    \/ \E s \in Subscription, o \in Operation : Test(s, o)
    \/ \E d \in DOMAIN outbox, o \in Operation : Replay(d, o) \/ Intend(d, o)
    \/ \E o \in Operation : Redrive(o)

Spec == Init /\ [][Next]_vars

\* The source relay polls for pending messages and tries each until it settles.
Fairness == \A m \in Event \cup Publication :
                /\ WF_vars(Confirm(m))
                /\ m \in Event => WF_vars(FanoutStep(m))
                /\ m \in Publication => WF_vars(ComplianceStep(m))
FairSpec == Spec /\ Fairness

-----------------------------------------------------------------------------
(* Properties.                                                             *)

\* A source message is confirmed only when its work is done: every version stamped active no
\* later than the event has its delivery, unless it was retired, and every change of a
\* publication is an event with a source message of its own.
ConfirmedIsServed ==
    /\ \A e \in Event : source[e] = "published" =>
           \A t \in audience[e] : Automatic(e, t) \in DOMAIN outbox \/ ~Live(t)
    /\ \A p \in Publication : source[p] = "published" =>
           \A e \in ToSet(Changes[p]) : source[e] # "none"

\* When the cause of an event was recorded: the publication, or the event itself.
OccurredAt(e) ==
    IF e \in Derived THEN publications[CHOOSE p \in Publication : e \in ToSet(Changes[p])].created
    ELSE created[e]

\* No delivery goes to a version activated after the change it tells of, however late the pages
\* of its publication and of its fan-out are worked.
NothingIsBackfilled ==
    \A d \in DOMAIN outbox :
        d.event \in Event =>
            activated[d.sub][d.version] # Nil /\ activated[d.sub][d.version] <= OccurredAt(d.event)

\* An operation makes one delivery at most, however often and with whatever request it is
\* repeated, and whether its first commit was known or not.
OneDeliveryPerOperation ==
    \A o \in Operation : Cardinality({d \in DOMAIN outbox : d.operation = o}) <= 1

\* Nothing is sent for a version once it is retired or disabled and no request of it is in
\* flight: not by a retry, a redrive granted before, nor by enabling the subscription again.
RetiredIsSilent ==
    [][\A d \in DOMAIN outbox : d.version < subs'[d.sub].version /\ d \notin sending =>
           d \notin sending' /\ (outbox'[d] = "published" => outbox[d] = "published")]_vars

\* A delivery that may still be sent or recovered can be signed with the key that was active
\* when it was queued, unless that key was revoked: the previous key is not dropped while a
\* delivery waits, failed or is a dead letter.
UnsettledKeepsItsKey ==
    \A d \in DOMAIN outbox : outbox[d] # "published" =>
        signer[d] \in {head.active, head.retiring} \/ materials[signer[d]].revoked

\* The work of the source relay drains: the pages of the publications, the events they emit and
\* the pages of their fan-out all settle in the end, as no more of them are ever queued than
\* there were changes.
SourcesDrain ==
    (\E m \in DOMAIN source : source[m] = "pending") ~> (\A m \in DOMAIN source : source[m] # "pending")
=============================================================================
