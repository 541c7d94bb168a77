----------------------- MODULE WebhookDeliveryProofs -----------------------
(***************************************************************************)
(* The safety properties of WebhookDelivery for every set of subscriptions, *)
(* events and publications and every value of the bounds.                  *)
(*                                                                         *)
(* The inductive invariant says of every event how far it has come: it is  *)
(* not emitted and leaves no trace (Emitted), its publication's cursor     *)
(* tells which (Paged), and of its audience every version that is still    *)
(* live is on the list, and has its delivery once the cursor has passed    *)
(* it (Served).                                                            *)
(***************************************************************************)
EXTENDS WebhookDelivery, FiniteSetTheorems, TLAPS

\* First-order steps go to Zenon; the ones that need arithmetic or updated records name SMT.
USE Zenon

\* Version t.version of subscription t.sub exists and was activated by time.
ActiveBy(t, time) ==
    /\ t.version <= subs[t.sub].version
    /\ activated[t.sub][t.version] # Nil /\ activated[t.sub][t.version] <= time

InFlight == \A d \in sending : outbox[d] = "pending"

Emitted ==
    /\ \A e \in Event :
           /\ created[e] = Nil => source[e] = "none" /\ audience[e] = {} /\ ~fanout[e].listed
           /\ ~fanout[e].listed => fanout[e].snapshot = {} /\ fanout[e].cursor = 0
                                   /\ ~fanout[e].complete
           /\ created[e] # Nil => \A t \in audience[e] \cup fanout[e].snapshot :
                                      ActiveBy(t, created[e]) /\ e \in Selects[t.sub]
    /\ \A d \in DOMAIN outbox : d.event \in Event =>
           created[d.event] # Nil /\ ActiveBy(d, created[d.event])

Paged ==
    \A p \in Publication :
        /\ publications[p].created = Nil => publications[p].cursor = 0 /\ source[p] = "none"
        /\ publications[p].cursor <= Len(Changes[p])
        /\ publications[p].complete => publications[p].cursor = Len(Changes[p])
        /\ source[p] = "published" => publications[p].complete
        /\ \A i \in DOMAIN Changes[p] :
               IF i <= publications[p].cursor
               THEN source[Changes[p][i]] # "none" /\ created[Changes[p][i]] = publications[p].created
               ELSE created[Changes[p][i]] = Nil

ServedEvent(e) ==
    /\ IsFiniteSet(fanout[e].snapshot)
    /\ fanout[e].cursor <= Cardinality(fanout[e].snapshot)
    /\ fanout[e].listed => \A t \in audience[e] : Live(t) => t \in fanout[e].snapshot
    /\ \A t \in fanout[e].snapshot :
           Place(t, fanout[e].snapshot) <= fanout[e].cursor /\ Live(t) =>
               Automatic(e, t) \in DOMAIN outbox
    /\ fanout[e].complete => fanout[e].listed /\ fanout[e].cursor = Cardinality(fanout[e].snapshot)
    /\ source[e] = "published" => fanout[e].complete

Served == \A e \in Event : ServedEvent(e)

OwnRequest ==
    \A d \in DOMAIN outbox : d.operation # Nil =>
        /\ operations[d.operation] # Nil
        /\ d = [operations[d.operation].id EXCEPT !.operation = d.operation]

Inv ==
    /\ TypeOK
    /\ InFlight
    /\ Emitted
    /\ Paged
    /\ Served
    /\ OwnRequest
    /\ UnsettledKeepsItsKey

\* A step that leaves the subscriptions, the events and the fan-out alone, and queues at most
\* repetitions of deliveries and tests.
Repeats ==
    /\ UNCHANGED <<config, emission, fanout, source>>
    /\ DOMAIN outbox \subseteq DOMAIN outbox'
    /\ \A d \in DOMAIN outbox' : d.event \in Event =>
           \E x \in DOMAIN outbox : x.event = d.event /\ x.sub = d.sub /\ x.version = d.version

-----------------------------------------------------------------------------
(* Types.                                                                  *)

\* A page of a publication moves its cursor and may complete it; the row stays one.
LEMMA PublicationPaged ==
    ASSUME NEW T, NEW end \in Nat, NEW done \in BOOLEAN, NEW p \in Publication,
           NEW f \in [Publication -> [created: T, cursor: Nat, complete: BOOLEAN]]
    PROVE  [f EXCEPT ![p].cursor = end, ![p].complete = done]
               \in [Publication -> [created: T, cursor: Nat, complete: BOOLEAN]]
<1> DEFINE Row == [created: T, cursor: Nat, complete: BOOLEAN]
           g == [f EXCEPT ![p].cursor = end]
<1>1. \A row \in Row : [row EXCEPT !.cursor = end] \in Row
  BY SMT
<1>2. \A row \in Row : [row EXCEPT !.complete = done] \in Row
  BY SMT
<1> HIDE DEF Row
<1>3. f \in [Publication -> Row]
  BY DEF Row
<1>4. g \in [Publication -> Row]
  BY <1>1, <1>3
<1> HIDE DEF g
<1>5. [g EXCEPT ![p].complete = done] \in [Publication -> Row]
  BY <1>2, <1>4
<1> QED
  BY <1>5 DEF g, Row

\* The next version of a subscription is one.
LEMMA NextVersion ==
    ASSUME TypeOK, NEW s \in Subscription, subs[s].version < MaxVersion[s]
    PROVE  subs[s].version + 1 \in Version
<1>1. subs[s].version \in Nat /\ MaxVersion[s] \in Nat
  <2>1. Version \subseteq Nat
    BY BoundsAssumption, SMT DEF Version
  <2> QED
    BY <2>1, BoundsAssumption, SMT DEF TypeOK
<1>2. subs[s].version + 1 \in 1 .. MaxVersion[s]
  BY <1>1, SMT
<1> QED
  BY <1>2 DEF Version

\* A change of a subscription keeps the types.
LEMMA RotateTypes ==
    ASSUME TypeOK, NEW s \in Subscription, NEW en \in BOOLEAN, NEW del \in BOOLEAN,
           del => ~en, Rotate(s, en, del)
    PROVE  TypeOK'
<1>1. subs[s].version + 1 \in Version
  BY NextVersion DEF Rotate
<1>2. subs' \in [Subscription -> [version: Version \cup {0}, enabled: BOOLEAN, deleted: BOOLEAN]]
      /\ \A x \in Subscription :
             subs'[x].deleted \/ subs'[x].version = 0 => ~subs'[x].enabled
  BY <1>1, BoundsAssumption, SMT DEF TypeOK, Rotate, Version
<1>3. activated' \in [Subscription -> [Version -> Time \cup {Nil}]]
  BY <1>1, SMT DEF TypeOK, Rotate, Stamp
<1> QED
  BY <1>2, <1>3 DEF TypeOK, Rotate, emission, delivery, keys

\* Every change of a subscription is a rotation of its target version.
LEMMA Rotates ==
    ASSUME TypeOK, NEW s \in Subscription, Create(s) \/ Put(s) \/ Switch(s) \/ Delete(s)
    PROVE  \E en, del \in BOOLEAN : (del => ~en) /\ Rotate(s, en, del)
<1>1. subs[s].enabled \in BOOLEAN
  BY DEF TypeOK
<1> QED
  BY <1>1 DEF Create, Put, Switch, Delete

\* The candidates of an event are versions of subscriptions.
LEMMA CandidatesType ==
    ASSUME TypeOK, NEW e \in Event, NEW t \in Time
    PROVE  Candidates(e, t) \subseteq Target
<1> SUFFICES ASSUME NEW s \in Active(t)
             PROVE  [sub |-> s, version |-> subs[s].version] \in Target
  BY DEF Candidates
<1>1. s \in Subscription /\ subs[s].version \in Version
  BY DEF Active, TypeOK
<1> QED
  BY <1>1 DEF Target

\* Queueing deliveries keeps their types.
LEMMA QueueTypes ==
    ASSUME TypeOK, NEW new \in SUBSET Identity, Queue(new)
    PROVE  /\ DOMAIN outbox' = DOMAIN outbox \cup new /\ DOMAIN outbox' \subseteq Identity
           /\ outbox' \in [DOMAIN outbox' -> Status \ {"none"}]
           /\ signer' \in [DOMAIN outbox' -> Key]
           /\ \A d \in DOMAIN outbox : outbox'[d] = outbox[d] /\ signer'[d] = signer[d]
           /\ \A d \in new \ DOMAIN outbox : outbox'[d] = "pending" /\ signer'[d] = head.active
  BY DEF TypeOK, Queue, Status

\* Emitting events keeps their types.
LEMMA EmitTypes ==
    ASSUME TypeOK, NEW new \in SUBSET Event, NEW t \in Time, EmitAt(new, t)
    PROVE  created' \in [Event -> Time \cup {Nil}] /\ audience' \in [Event -> SUBSET Target]
<1>1. \A e \in new : Candidates(e, t) \in SUBSET Target
  BY CandidatesType
<1> QED
  BY <1>1 DEF TypeOK, EmitAt

\* Events become a page of a publication.
LEMMA PageOfEvents ==
    ASSUME NEW p \in Publication, NEW a \in Nat, NEW b \in Nat, b <= Len(Changes[p])
    PROVE  {Changes[p][i] : i \in a + 1 .. b} \subseteq Event
<1>1. Changes[p] \in Seq(Event)
  BY ChangesAssumption
<1>2. a + 1 .. b \subseteq 1 .. Len(Changes[p])
  BY <1>1, SMT
<1> QED
  BY <1>1, <1>2, SMT

\* A page ends within the list, and where it began at the earliest.
LEMMA PageEndType ==
    ASSUME NEW cursor \in Nat, NEW length \in Nat, cursor <= length
    PROVE  /\ PageEnd(cursor, length) \in Nat
           /\ cursor <= PageEnd(cursor, length) /\ PageEnd(cursor, length) <= length
  BY BoundsAssumption, SMT DEF PageEnd

\* There are finitely many candidates, as each is of another subscription.
LEMMA CandidatesFinite ==
    ASSUME NEW e \in Event, NEW t \in Time
    PROVE  IsFiniteSet(Candidates(e, t))
<1> DEFINE C == Candidates(e, t)
           f == [x \in C |-> x.sub]
<1>1. \A x \in C : x.sub \in Subscription /\ x = [sub |-> x.sub, version |-> subs[x.sub].version]
  BY SMT DEF Candidates, Active
<1>2. f \in Injection(C, Subscription)
  <2>1. f \in [C -> Subscription]
    BY <1>1
  <2>2. \A x, y \in C : f[x] = f[y] => x = y
    BY <1>1
  <2> QED
    BY <2>1, <2>2 DEF Injection, IsInjective
<1> QED
  BY <1>2, IdsAssumption, FS_Injection, ZenonT(30)

\* What one step of the fan-out of an event does to its row, and what it queues.
LEMMA FanoutRow ==
    ASSUME Inv, NEW e \in Event, FanoutStep(e)
    PROVE  LET old == fanout[e]
               row == fanout'[e]
               page == {t \in row.snapshot : Place(t, row.snapshot) \in old.cursor + 1 .. row.cursor}
           IN  /\ created[e] \in Time
               /\ row.snapshot = IF old.listed THEN old.snapshot ELSE Candidates(e, created[e])
               /\ row.snapshot \subseteq Target /\ IsFiniteSet(row.snapshot)
               /\ Cardinality(row.snapshot) \in Nat
               /\ row.listed = TRUE /\ row.cursor \in Nat
               /\ old.cursor \in Nat /\ old.cursor <= row.cursor
               /\ row.cursor <= Cardinality(row.snapshot)
               /\ row.complete = (row.cursor = Cardinality(row.snapshot))
               /\ row \in [listed: BOOLEAN, snapshot: SUBSET Target, cursor: Nat, complete: BOOLEAN]
               /\ fanout' = [fanout EXCEPT ![e] = row]
               /\ Queue({Automatic(e, t) : t \in {x \in page : Live(x)}})
<1> DEFINE old == fanout[e]
           S == IF old.listed THEN old.snapshot ELSE Candidates(e, created[e])
           end == PageEnd(old.cursor, Cardinality(S))
<1>1. created[e] \in Time
  BY SMT DEF Inv, Emitted, TypeOK, FanoutStep
<1>2. old \in [listed: BOOLEAN, snapshot: SUBSET Target, cursor: Nat, complete: BOOLEAN]
  BY DEF Inv, TypeOK
<1>3. S \subseteq Target /\ IsFiniteSet(S)
  BY <1>1, <1>2, CandidatesType, CandidatesFinite, ZenonT(30) DEF Inv, Served, ServedEvent
<1>4. Cardinality(S) \in Nat
  BY <1>3, FS_CardinalityType, ZenonT(30)
<1>5. old.cursor \in Nat /\ old.cursor <= Cardinality(S)
  BY <1>2, <1>4, SMT DEF Inv, Served, ServedEvent, Emitted
<1>6. end \in Nat /\ old.cursor <= end /\ end <= Cardinality(S)
  BY <1>4, <1>5, PageEndType, ZenonT(30)
<1>7. fanout'[e] = [listed |-> TRUE, snapshot |-> S, cursor |-> end,
                    complete |-> (end = Cardinality(S))]
      /\ fanout' = [fanout EXCEPT ![e] = fanout'[e]]
  <2>1. fanout' = [fanout EXCEPT ![e] = [listed |-> TRUE, snapshot |-> S, cursor |-> end,
                      complete |-> (end = Cardinality(S))]]
    BY DEF FanoutStep
  <2>2. fanout \in [Event -> [listed: BOOLEAN, snapshot: SUBSET Target, cursor: Nat,
                             complete: BOOLEAN]]
    BY DEF Inv, TypeOK
  <2> HIDE DEF S, end
  <2> QED
    BY <2>1, <2>2
<1>8. Queue({Automatic(e, t) : t \in {x \in {t \in S : Place(t, S) \in old.cursor + 1 .. end} :
                                          Live(x)}})
  BY DEF FanoutStep
<1> HIDE DEF S, end
<1> QED
  BY <1>1, <1>3, <1>4, <1>5, <1>6, <1>7, <1>8, SMT DEF S

\* Every step keeps the types.
LEMMA NextTypes == ASSUME Inv, Next PROVE TypeOK'
<1> USE BoundsAssumption
<1>0. TypeOK
  BY DEF Inv
<1>1. CASE Tick
  BY <1>0, <1>1, SMT DEF Tick, TypeOK, Time, config, emission, delivery, keys
<1>2. CASE \/ Prepare \/ RetirePrevious
           \/ \E k \in Key : ConfirmKey(k) \/ Activate(k) \/ Revoke(k)
  <2>1. head' \in [revision: Nat, active: Key, retiring: Key \cup {Nil}]
    <3>1. head \in [revision: Nat, active: Key, retiring: Key \cup {Nil}]
      BY <1>0 DEF TypeOK
    <3> QED
      BY <1>2, <3>1, SMT DEF Prepare, RetirePrevious, ConfirmKey, Activate, Revoke, Moves
  <2>2. materials' \in [Key -> Material]
    <3>1. materials \in [Key -> Material]
      BY <1>0, ZenonT(30) DEF TypeOK
    <3>2. CASE Prepare
      BY <3>1, <3>2 DEF Prepare, Material
    <3>3. CASE \E k \in Key : ConfirmKey(k)
      BY <3>1, <3>3, ZenonT(30) DEF ConfirmKey, Material
    <3>4. CASE \E k \in Key : Revoke(k)
      <4>1. PICK k \in Key : materials' = [materials EXCEPT ![k].revoked = TRUE]
        BY <3>4 DEF Revoke
      <4> QED
        BY <3>1, <4>1 DEF Material
    <3> QED
      BY <1>2, <3>1, <3>2, <3>3, <3>4 DEF RetirePrevious, Activate
  <2>3. UNCHANGED beyondKeys
    BY <1>2 DEF Prepare, RetirePrevious, ConfirmKey, Activate, Revoke
  <2> QED
    BY <1>0, <2>1, <2>2, <2>3 DEF TypeOK, beyondKeys, config, emission, delivery
<1>3. CASE \E s \in Subscription : Create(s) \/ Put(s) \/ Switch(s) \/ Delete(s)
  BY <1>0, <1>3, Rotates, RotateTypes
<1>4. ASSUME NEW e \in Event, Emit(e) PROVE TypeOK'
  <2>1. PICK t \in Time : EmitAt({e}, t)
    BY <1>4 DEF Emit, Stamp
  <2>2. created' \in [Event -> Time \cup {Nil}] /\ audience' \in [Event -> SUBSET Target]
    BY <1>0, <2>1, EmitTypes
  <2>3. source' \in [Event \cup Publication -> Status]
    BY <1>0, <1>4 DEF TypeOK, Emit, Status
  <2> QED
    BY <1>0, <1>4, <2>2, <2>3 DEF TypeOK, Emit, config, delivery, keys
<1>5. ASSUME NEW p \in Publication, Publish(p) PROVE TypeOK'
  <2>1. publications' \in [Publication -> [created: Time \cup {Nil}, cursor: Nat,
                                          complete: BOOLEAN]]
    <3>1. publications \in [Publication -> [created: Time \cup {Nil}, cursor: Nat,
                                           complete: BOOLEAN]]
      BY <1>0 DEF TypeOK
    <3>2. PICK t \in Time : publications' = [publications EXCEPT ![p].created = t]
      BY <1>5 DEF Publish, Stamp
    <3> QED
      BY <3>1, <3>2
  <2>2. source' \in [Event \cup Publication -> Status]
    BY <1>0, <1>5 DEF TypeOK, Publish, Status
  <2> QED
    BY <1>0, <1>5, <2>1, <2>2 DEF TypeOK, Publish, config, delivery, keys
<1>6. ASSUME NEW p \in Publication, ComplianceStep(p) PROVE TypeOK'
  <2> DEFINE end == PageEnd(publications[p].cursor, Len(Changes[p]))
             new == {Changes[p][i] : i \in publications[p].cursor + 1 .. end}
  <2>1. /\ publications[p].created \in Time
        /\ publications[p].cursor \in Nat /\ publications[p].cursor <= Len(Changes[p])
    BY <1>0, <1>6 DEF Inv, Paged, TypeOK, ComplianceStep
  <2>2. end \in Nat /\ end <= Len(Changes[p])
    <3>1. Len(Changes[p]) \in Nat
      BY ChangesAssumption, SMT
    <3> QED
      BY <2>1, <3>1, PageEndType
  <2>3. new \subseteq Event
    BY <2>1, <2>2, PageOfEvents
  <2>4. EmitAt(new, publications[p].created)
    BY <1>6 DEF ComplianceStep, Origin
  <2>5. created' \in [Event -> Time \cup {Nil}] /\ audience' \in [Event -> SUBSET Target]
    BY <1>0, <2>1, <2>3, <2>4, EmitTypes
  <2>6. publications' \in [Publication -> [created: Time \cup {Nil}, cursor: Nat,
                                          complete: BOOLEAN]]
    <3>1. publications \in [Publication -> [created: Time \cup {Nil}, cursor: Nat,
                                           complete: BOOLEAN]]
      BY <1>0 DEF TypeOK
    <3>2. publications' = [publications EXCEPT ![p].cursor = end,
                                               ![p].complete = (end = Len(Changes[p]))]
      BY <1>6 DEF ComplianceStep
    <3>3. (end = Len(Changes[p])) \in BOOLEAN
      OBVIOUS
    <3> HIDE DEF end
    <3> QED
      BY <2>2, <3>1, <3>2, <3>3, PublicationPaged
  <2>7. source' \in [Event \cup Publication -> Status]
    BY <1>0, <1>6 DEF TypeOK, ComplianceStep, Status
  <2> QED
    BY <1>0, <1>6, <2>5, <2>6, <2>7, ZenonT(30) DEF TypeOK, ComplianceStep, config, delivery, keys
<1>7. ASSUME NEW m \in Event \cup Publication, Confirm(m) \/ GiveUp(m) PROVE TypeOK'
  BY <1>0, <1>7, ZenonT(30) DEF TypeOK, Confirm, GiveUp, Status, config, emission, delivery, keys
<1>8. ASSUME NEW e \in Event, FanoutStep(e) PROVE TypeOK'
  <2> DEFINE row == fanout'[e]
             page == {t \in row.snapshot : Place(t, row.snapshot) \in fanout[e].cursor + 1 .. row.cursor}
             new == {Automatic(e, t) : t \in {x \in page : Live(x)}}
  <2>1. /\ row \in [listed: BOOLEAN, snapshot: SUBSET Target, cursor: Nat, complete: BOOLEAN]
        /\ fanout' = [fanout EXCEPT ![e] = row] /\ Queue(new) /\ page \subseteq Target
    BY <1>8, FanoutRow
  <2>2. new \subseteq Identity
    BY <2>1, SMT DEF Automatic, Identity, Target
  <2>3. fanout' \in [Event -> [listed: BOOLEAN, snapshot: SUBSET Target, cursor: Nat,
                              complete: BOOLEAN]]
    BY <1>0, <2>1 DEF TypeOK
  <2> HIDE DEF new
  <2>4. /\ DOMAIN outbox' = DOMAIN outbox \cup new /\ DOMAIN outbox' \subseteq Identity
        /\ outbox' \in [DOMAIN outbox' -> Status \ {"none"}]
        /\ signer' \in [DOMAIN outbox' -> Key]
    BY <1>0, <2>1, <2>2, QueueTypes
  <2> QED
    BY <1>0, <1>8, <2>3, <2>4 DEF TypeOK, FanoutStep, config, emission, keys
<1>9. ASSUME NEW d \in DOMAIN outbox, Authorize(d) \/ Deny(d) PROVE TypeOK'
  BY <1>0, <1>9, ZenonT(30) DEF TypeOK, Authorize, Deny, Status, others, config, emission, keys
<1>10. ASSUME NEW d \in sending, NEW status \in Status \ {"none"}, Respond(d, status) PROVE TypeOK'
  BY <1>0, <1>10 DEF TypeOK, Respond, others, config, emission, keys
<1>11. ASSUME NEW s \in Subscription, NEW o \in Operation, Test(s, o) PROVE TypeOK'
  <2> DEFINE d == [event |-> o, sub |-> s, version |-> subs[s].version, operation |-> o]
  <2>1. d \in Identity
    BY <1>0, <1>11 DEF TypeOK, Test, Identity
  <2>2. Queue({d}) /\ operations' = [operations EXCEPT ![o] = [kind |-> "test", id |-> d]]
    BY <1>11 DEF Test
  <2> HIDE DEF d
  <2>3. operations' \in [Operation -> Request \cup {Nil}]
    BY <1>0, <2>1, <2>2 DEF TypeOK, Request
  <2>4. /\ DOMAIN outbox' = DOMAIN outbox \cup {d} /\ DOMAIN outbox' \subseteq Identity
        /\ outbox' \in [DOMAIN outbox' -> Status \ {"none"}]
        /\ signer' \in [DOMAIN outbox' -> Key]
    BY <1>0, <2>1, <2>2, QueueTypes
  <2> QED
    BY <1>0, <1>11, <2>3, <2>4 DEF TypeOK, Test, others, config, emission, keys
<1>12. ASSUME NEW d \in DOMAIN outbox, NEW o \in Operation, Replay(d, o) PROVE TypeOK'
  <2> DEFINE x == [d EXCEPT !.operation = o]
  <2>1. d \in Identity /\ x \in Identity
    <3>1. d \in Identity
      BY <1>0 DEF TypeOK
    <3> QED
      BY <3>1 DEF Identity
  <2>2. Queue({x}) /\ operations' = [operations EXCEPT ![o] = [kind |-> "replay", id |-> d]]
    BY <1>12 DEF Replay
  <2> HIDE DEF x
  <2>3. operations' \in [Operation -> Request \cup {Nil}]
    BY <1>0, <2>1, <2>2 DEF TypeOK, Request
  <2>4. /\ DOMAIN outbox' = DOMAIN outbox \cup {x} /\ DOMAIN outbox' \subseteq Identity
        /\ outbox' \in [DOMAIN outbox' -> Status \ {"none"}]
        /\ signer' \in [DOMAIN outbox' -> Key]
    BY <1>0, <2>1, <2>2, QueueTypes
  <2> QED
    BY <1>0, <1>12, <2>3, <2>4 DEF TypeOK, Replay, others, config, emission, keys
<1>13. ASSUME NEW d \in DOMAIN outbox, NEW o \in Operation, Intend(d, o) PROVE TypeOK'
  <2>1. operations' \in [Operation -> Request \cup {Nil}]
    BY <1>0, <1>13 DEF TypeOK, Request, Intend
  <2> QED
    BY <1>0, <1>13, <2>1 DEF TypeOK, Intend, others, config, emission, keys
<1>14. ASSUME NEW o \in Operation, Redrive(o) PROVE TypeOK'
  BY <1>0, <1>14 DEF TypeOK, Redrive, Status, others, config, emission, keys
<1> QED
  BY <1>1, <1>2, <1>3, <1>4, <1>5, <1>6, <1>7, <1>8, <1>9, <1>10, <1>11, <1>12, <1>13, <1>14, ZenonT(30)
     DEF Next

-----------------------------------------------------------------------------
(* The parts of the invariant.                                             *)

\* The initial states satisfy the invariant.
LEMMA InitInv == Init => Inv
<1> SUFFICES ASSUME Init PROVE Inv
  OBVIOUS
<1> USE BoundsAssumption DEF Init
<1>1. TypeOK
  <2>1. subs \in [Subscription -> [version: Version \cup {0}, enabled: BOOLEAN, deleted: BOOLEAN]]
    <3>1. \A s \in Enabled : s \in Subscription /\ 2 \in 1 .. MaxVersion[s]
      BY EnabledAssumption, SMT
    <3>2. \A s \in Enabled : 2 \in Version
      BY <3>1 DEF Version
    <3> QED
      BY <3>2, SMT
  <2>2. head \in [revision: Nat, active: Key, retiring: Key \cup {Nil}]
        /\ materials \in [Key -> Material]
    BY SMT DEF Key, Material
  <2>3. activated \in [Subscription -> [Version -> Time \cup {Nil}]]
    BY SMT DEF Time
  <2>4. \A s \in Subscription : subs[s].deleted \/ subs[s].version = 0 => ~subs[s].enabled
    <3> SUFFICES ASSUME NEW s \in Subscription, subs[s].enabled
                 PROVE  ~subs[s].deleted /\ subs[s].version # 0
      OBVIOUS
    <3>1. s \in Enabled /\ ~subs[s].deleted
      OBVIOUS
    <3> QED
      BY <3>1, SMT
  <2>5. DOMAIN outbox = {} /\ outbox \in [{} -> Status \ {"none"}] /\ signer \in [{} -> Key]
    OBVIOUS
  <2>6. clock \in Time /\ created \in [Event -> Time \cup {Nil}]
        /\ publications \in [Publication -> [created: Time \cup {Nil}, cursor: Nat,
                                            complete: BOOLEAN]]
    BY SMT DEF Time
  <2>7. source \in [Event \cup Publication -> Status]
        /\ fanout \in [Event -> [listed: BOOLEAN, snapshot: SUBSET Target, cursor: Nat,
                                complete: BOOLEAN]]
    BY DEF Status
  <2>8. operations \in [Operation -> Request \cup {Nil}] /\ audience \in [Event -> SUBSET Target]
        /\ redriven = {} /\ sending = {}
    OBVIOUS
  <2> HIDE DEF Init
  <2> QED
    BY <2>1, <2>2, <2>3, <2>4, <2>5, <2>6, <2>7, <2>8, ZenonT(30) DEF TypeOK
<1>2. Served
  <2>1. \A e \in Event : /\ fanout[e].snapshot = {} /\ fanout[e].cursor = 0
                          /\ ~fanout[e].complete /\ ~fanout[e].listed /\ source[e] = "none"
    OBVIOUS
  <2>2. IsFiniteSet({}) /\ Cardinality({}) = 0
    BY FS_EmptySet
  <2> HIDE DEF Init
  <2> SUFFICES ASSUME NEW e \in Event PROVE ServedEvent(e)
    BY DEF Served
  <2>3. /\ IsFiniteSet(fanout[e].snapshot)
        /\ fanout[e].cursor <= Cardinality(fanout[e].snapshot)
    <3>1. IsFiniteSet(fanout[e].snapshot) /\ Cardinality(fanout[e].snapshot) = 0
      BY <2>1, <2>2
    <3> QED
      BY <2>1, <3>1, SMT
  <2> QED
    BY <2>1, <2>3 DEF ServedEvent
<1>3. Paged
  BY ChangesAssumption, SMT DEF Paged
<1> QED
  BY <1>1, <1>2, <1>3 DEF Inv, InFlight, Emitted, OwnRequest, UnsettledKeepsItsKey

\* A request in flight is of a delivery that is pending.
LEMMA NextInFlight == ASSUME Inv, Next PROVE InFlight'
<1> USE DEF Inv, TypeOK, InFlight
<1>1. CASE UNCHANGED <<outbox, sending>>
  BY <1>1
<1>2. ASSUME NEW new, Queue(new), UNCHANGED sending PROVE InFlight'
  BY <1>2 DEF Queue
<1>3. ASSUME NEW d \in DOMAIN outbox, Authorize(d) \/ Deny(d) PROVE InFlight'
  BY <1>3, ZenonT(30) DEF Authorize, Deny
<1>4. ASSUME NEW d \in sending, NEW status, Respond(d, status) PROVE InFlight'
  BY <1>4 DEF Respond
<1>5. ASSUME NEW o \in Operation, Redrive(o) PROVE InFlight'
  BY <1>5 DEF Redrive
<1>6. ASSUME NEW s \in Subscription, Create(s) \/ Put(s) \/ Switch(s) \/ Delete(s) PROVE InFlight'
  BY <1>6, <1>1 DEF Create, Put, Switch, Delete, Rotate, delivery
<1> QED
  BY <1>1, <1>2, <1>3, <1>4, <1>5, <1>6, ZenonT(30)
     DEF Next, Tick, Prepare, RetirePrevious, ConfirmKey, Activate, Revoke, Emit, Publish,
         ComplianceStep, FanoutStep, Confirm, GiveUp, Test, Replay, Intend, beyondKeys, delivery

\* A delivery of an operation is the one that its request made.
LEMMA NextOwnRequest == ASSUME Inv, Next PROVE OwnRequest'
<1> USE DEF Inv, TypeOK, OwnRequest
<1>1. CASE UNCHANGED operations /\ DOMAIN outbox' = DOMAIN outbox
  BY <1>1
<1>2. ASSUME NEW d \in DOMAIN outbox, NEW o \in Operation, Intend(d, o) PROVE OwnRequest'
  BY <1>2, SMT DEF Intend, Unused
<1>3. ASSUME NEW d \in DOMAIN outbox, NEW o \in Operation, Replay(d, o) PROVE OwnRequest'
  BY <1>3, NilAssumption, SMT DEF Replay, Unused, Queue, Request, Identity
<1>4. ASSUME NEW s \in Subscription, NEW o \in Operation, Test(s, o) PROVE OwnRequest'
  BY <1>4, NilAssumption, SMT DEF Test, Unused, Queue, Request, Identity
<1>5. ASSUME NEW e \in Event, FanoutStep(e) PROVE OwnRequest'
  BY <1>5, SMT DEF FanoutStep, Queue, Automatic
<1>6. ASSUME NEW s \in Subscription, Create(s) \/ Put(s) \/ Switch(s) \/ Delete(s) PROVE OwnRequest'
  BY <1>6, <1>1 DEF Create, Put, Switch, Delete, Rotate, delivery
<1>7. ASSUME \/ \E d \in DOMAIN outbox : Authorize(d) \/ Deny(d)
             \/ \E d \in sending, status \in Status \ {"none"} : Respond(d, status)
             \/ \E o \in Operation : Redrive(o)
      PROVE  OwnRequest'
  BY <1>7, <1>1 DEF Authorize, Deny, Respond, Redrive
<1> QED
  BY <1>1, <1>2, <1>3, <1>4, <1>5, <1>6, <1>7, ZenonT(30)
     DEF Next, Tick, Prepare, RetirePrevious, ConfirmKey, Activate, Revoke, Emit, Publish,
         ComplianceStep, Confirm, GiveUp, beyondKeys, delivery

\* A step that repeats deliveries at most keeps what is said of the events.
LEMMA RepeatsInv == ASSUME Inv, Repeats PROVE Emitted' /\ Paged' /\ Served'
<1> USE DEF Inv, Repeats, config, emission
<1>1. Paged'
  BY DEF Paged
<1>2. Emitted'
  BY SMT DEF Emitted, ActiveBy
<1>3. Served'
  BY DEF Served, ServedEvent, Live, Place, Automatic
<1> QED
  BY <1>1, <1>2, <1>3

\* A change of a subscription retires a version; nothing that was retired is live again.
LEMMA RotateInv ==
    ASSUME Inv, NEW s \in Subscription, NEW en \in BOOLEAN, NEW del \in BOOLEAN, Rotate(s, en, del)
    PROVE  Emitted' /\ Paged' /\ Served'
<1> USE DEF Inv
<1>0. Version \subseteq Nat
  BY BoundsAssumption, SMT DEF Version
<1>1. /\ UNCHANGED <<emission, fanout, source, outbox>>
      /\ subs' = [subs EXCEPT ![s] = [version |-> @.version + 1, enabled |-> en, deleted |-> del]]
      /\ \A x \in Subscription, v \in Version :
             v <= subs[x].version => activated'[x][v] = activated[x][v]
  <2>1. subs[s].version \in Nat
    BY <1>0, SMT DEF TypeOK
  <2>2. PICK t \in Time : activated' = [activated EXCEPT ![s][subs[s].version + 1] =
                                            IF en THEN t ELSE Nil]
    BY DEF Rotate, Stamp
  <2>3. \A x \in Subscription, v \in Version :
             v <= subs[x].version => activated'[x][v] = activated[x][v]
    BY <1>0, <2>1, <2>2, SMT DEF TypeOK
  <2> QED
    BY <2>3 DEF Rotate, delivery
<1>2. ASSUME NEW t, t.sub \in Subscription, t.version \in Version, NEW time, ActiveBy(t, time)
      PROVE  ActiveBy(t, time)'
  <2>1. subs[t.sub].version \in Nat /\ t.version \in Nat
    BY <1>0, <1>2, SMT DEF TypeOK
  <2>2. subs[t.sub].version <= subs'[t.sub].version
    BY <1>1, <2>1, <1>2, SMT DEF TypeOK
  <2>3. subs'[t.sub].version \in Nat
    BY <1>1, <2>1, <1>2, SMT DEF TypeOK
  <2>4. t.version <= subs'[t.sub].version
    BY <1>2, <2>1, <2>2, <2>3, SMT DEF ActiveBy
  <2> QED
    BY <1>1, <1>2, <2>4 DEF ActiveBy
<1>3. ASSUME NEW t, t.sub \in Subscription, t.version \in Version,
             t.version <= subs[t.sub].version, Live(t)'
      PROVE  Live(t)
  BY <1>0, <1>1, <1>3, SMT DEF Live, TypeOK
<1>4. Paged'
  BY <1>1 DEF Paged, emission
<1>5. Emitted'
  <2>1. \A e \in Event : \A t \in audience[e] \cup fanout[e].snapshot :
            t.sub \in Subscription /\ t.version \in Version
    BY SMT DEF TypeOK, Target
  <2>2. \A d \in DOMAIN outbox : d.sub \in Subscription /\ d.version \in Version
    BY DEF TypeOK, Identity
  <2> QED
    BY <1>1, <1>2, <2>1, <2>2, ZenonT(30) DEF Emitted, emission
<1>6. Served'
  <2> SUFFICES ASSUME NEW e \in Event PROVE ServedEvent(e)'
    BY DEF Served
  <2>1. \A t \in audience[e] \cup fanout[e].snapshot :
            t.sub \in Subscription /\ t.version \in Version /\ t.version <= subs[t.sub].version
    BY SMT DEF TypeOK, Target, Emitted, ActiveBy
  <2>2. \A t \in audience[e] \cup fanout[e].snapshot : Live(t)' => Live(t)
    BY <1>3, <2>1
  <2> QED
    BY <1>1, <2>2 DEF Served, ServedEvent, Place, Automatic, emission
<1> QED
  BY <1>4, <1>5, <1>6

\* The candidates at the time an event is stamped were active by then and select it.
LEMMA CandidatesActive ==
    ASSUME Inv, NEW e \in Event, NEW time \in Time, NEW t \in Candidates(e, time)
    PROVE  t.sub \in Subscription /\ ActiveBy(t, time) /\ e \in Selects[t.sub] /\ Live(t)
<1>1. PICK s \in Active(time) : e \in Selects[s] /\ t = [sub |-> s, version |-> subs[s].version]
  BY DEF Candidates
<1>2. s \in Subscription /\ subs[s].version \in Nat
  BY BoundsAssumption, SMT DEF Active, Inv, TypeOK, Version
<1>3. t.sub = s /\ t.version = subs[s].version
  BY <1>1
<1>4. /\ subs[s].enabled /\ ~subs[s].deleted
      /\ activated[s][subs[s].version] # Nil /\ activated[s][subs[s].version] <= time
  BY <1>1 DEF Active
<1> QED
  BY <1>1, <1>2, <1>3, <1>4, SMT DEF ActiveBy, Live

\* Emitting new events at a time keeps what is said of all of them.
LEMMA EmitInv ==
    ASSUME Inv, NEW new \in SUBSET Event, NEW time \in Time, EmitAt(new, time),
           \A e \in new : created[e] = Nil,
           UNCHANGED <<config, fanout, outbox>>,
           \A e \in Event : source'[e] = IF e \in new THEN "pending" ELSE source[e]
    PROVE  Emitted' /\ Served'
<1> USE DEF Inv, config
<1>0. time # Nil
  BY IdsAssumption, SMT DEF Time
<1>1. \A e \in Event : /\ created'[e] = IF e \in new THEN time ELSE created[e]
                       /\ audience'[e] = IF e \in new THEN Candidates(e, time) ELSE audience[e]
  BY DEF EmitAt
<1>2. \A t, x : ActiveBy(t, x)' <=> /\ t.version <= subs[t.sub].version
                                    /\ activated[t.sub][t.version] # Nil
                                    /\ activated[t.sub][t.version] <= x
  BY DEF ActiveBy
<1>3. \A e \in new : ~fanout[e].listed /\ fanout[e].snapshot = {} /\ source[e] = "none"
  BY DEF Emitted
<1>4. Emitted'
  <2>1. ASSUME NEW e \in Event
        PROVE  /\ created'[e] = Nil => source'[e] = "none" /\ audience'[e] = {} /\ ~fanout[e].listed
               /\ ~fanout[e].listed => fanout[e].snapshot = {} /\ fanout[e].cursor = 0
                                       /\ ~fanout[e].complete
               /\ created'[e] # Nil => \A t \in audience'[e] \cup fanout[e].snapshot :
                                           ActiveBy(t, created'[e]) /\ e \in Selects[t.sub]
    <3>1. CASE e \in new
      BY <3>1, <1>0, <1>1, <1>3, CandidatesActive, SMT DEF Emitted
    <3>2. CASE e \notin new
      BY <3>2, <1>1, ZenonT(30) DEF Emitted
    <3> QED
      BY <3>1, <3>2
  <2>2. \A d \in DOMAIN outbox : d.event \in Event => d.event \notin new
    BY DEF Emitted
  <2>3. \A d \in DOMAIN outbox : d.event \in Event =>
            created'[d.event] # Nil /\ ActiveBy(d, created'[d.event])
    BY <1>1, <2>2 DEF Emitted
  <2> QED
    BY <2>1, <2>3, SMT DEF Emitted, ActiveBy
<1>5. Served'
  <2> SUFFICES ASSUME NEW e \in Event PROVE ServedEvent(e)'
    BY DEF Served
  <2>1. source'[e] = "published" => source[e] = "published"
    OBVIOUS
  <2>2. fanout[e].listed => audience'[e] = audience[e]
    BY <1>1, <1>3
  <2> QED
    BY <2>1, <2>2 DEF Served, ServedEvent, Live, Place, Automatic
<1> QED
  BY <1>4, <1>5

\* The events of distinct changes are distinct.
LEMMA ChangesApart ==
    ASSUME NEW p \in Publication, NEW q \in Publication,
           NEW i \in DOMAIN Changes[p], NEW j \in DOMAIN Changes[q], Changes[p][i] = Changes[q][j]
    PROVE  p = q /\ i = j
  BY ChangesAssumption

\* A change of a publication is an event.
LEMMA ChangeIsEvent ==
    ASSUME NEW p \in Publication, NEW i \in DOMAIN Changes[p]
    PROVE  Changes[p][i] \in Event /\ Changes[p][i] \in Derived /\ i \in Nat /\ 1 <= i
           /\ i <= Len(Changes[p])
<1>1. Changes[p] \in Seq(Event)
  BY ChangesAssumption
<1>2. Changes[p][i] \in ToSet(Changes[p])
  BY DEF ToSet
<1>3. Changes[p][i] \in Derived
  BY <1>2 DEF Derived
<1> QED
  BY <1>1, <1>3, SMT

\* A business change emits an event.
LEMMA BusinessInv == ASSUME Inv, NEW e \in Event, Emit(e) PROVE Emitted' /\ Paged' /\ Served'
<1>1. PICK t \in Time : EmitAt({e}, t)
  BY DEF Emit, Stamp
<1>2. \A x \in Event : source'[x] = IF x \in {e} THEN "pending" ELSE source[x]
  BY DEF Emit, Inv, TypeOK
<1>3. Emitted' /\ Served'
  BY <1>1, <1>2, EmitInv DEF Emit, delivery
<1>4. Paged'
  <2>1. \A p \in Publication : source'[p] = source[p]
    BY IdsAssumption DEF Emit, Inv, TypeOK
  <2>2. \A p \in Publication : \A i \in DOMAIN Changes[p] :
            /\ Changes[p][i] \in Event
            /\ created'[Changes[p][i]] = created[Changes[p][i]]
            /\ source'[Changes[p][i]] = source[Changes[p][i]]
    BY <1>1, <1>2, ChangeIsEvent, SMT DEF Emit, EmitAt
  <2> QED
    BY <2>1, <2>2, SMT DEF Emit, Inv, Paged
<1> QED
  BY <1>3, <1>4

\* Publishing a run records it with nothing emitted yet.
LEMMA PublishInv == ASSUME Inv, NEW p \in Publication, Publish(p) PROVE Emitted' /\ Paged' /\ Served'
<1> USE DEF Inv
<1>1. PICK t \in Time : publications' = [publications EXCEPT ![p].created = t]
  BY DEF Publish, Stamp
<1>2. t # Nil
  BY IdsAssumption, SMT DEF Time
<1>3. \A e \in Event : source'[e] = source[e]
  BY IdsAssumption, ZenonT(30) DEF Publish, TypeOK
<1>4. \A q \in Publication : /\ publications'[q].cursor = publications[q].cursor
                             /\ publications'[q].complete = publications[q].complete
                             /\ q # p => publications'[q] = publications[q] /\ source'[q] = source[q]
  BY <1>1, SMT DEF TypeOK, Publish
<1>5. publications'[p].created = t /\ publications[p].cursor = 0 /\ source'[p] = "pending"
  BY <1>1, SMT DEF TypeOK, Publish, Paged
<1>6. Emitted' /\ Served'
  BY <1>3, SMT DEF Publish, Emitted, Served, ServedEvent, ActiveBy, Live, Place, Automatic, config, delivery
<1>7. Paged'
  <2>1. \A q \in Publication : \A i \in DOMAIN Changes[q] :
            /\ created'[Changes[q][i]] = created[Changes[q][i]]
            /\ source'[Changes[q][i]] = source[Changes[q][i]]
    BY <1>3, ChangeIsEvent, ZenonT(30) DEF Publish
  <2>2. \A i \in DOMAIN Changes[p] : ~(i <= 0)
    BY ChangeIsEvent, SMT
  <2> QED
    BY <1>2, <1>4, <1>5, <2>1, <2>2, SMT DEF Paged
<1> QED
  BY <1>6, <1>7

\* One page of a publication emits the events after the cursor, which were not emitted before.
LEMMA ComplianceInv ==
    ASSUME Inv, NEW p \in Publication, ComplianceStep(p)
    PROVE  Emitted' /\ Paged' /\ Served'
<1> DEFINE cursor == publications[p].cursor
           end == PageEnd(cursor, Len(Changes[p]))
           new == {Changes[p][i] : i \in cursor + 1 .. end}
<1>1. /\ publications[p].created \in Time
      /\ cursor \in Nat /\ cursor <= Len(Changes[p]) /\ Len(Changes[p]) \in Nat
  BY ChangesAssumption, SMT DEF Inv, Paged, TypeOK, ComplianceStep
<1>2. end \in Nat /\ cursor <= end /\ end <= Len(Changes[p])
  BY <1>1, PageEndType, ZenonT(30)
<1>3. new \subseteq Event
  BY <1>1, <1>2, PageOfEvents, ZenonT(30)
<1>4. EmitAt(new, publications[p].created)
  BY DEF ComplianceStep, Origin
<1>5. /\ publications' = [publications EXCEPT ![p].cursor = end,
                                              ![p].complete = (end = Len(Changes[p]))]
      /\ source' = [m \in DOMAIN source |-> IF m \in new THEN "pending" ELSE source[m]]
      /\ UNCHANGED <<config, fanout, outbox>>
  BY DEF ComplianceStep, delivery
<1>6. \A i \in cursor + 1 .. end : i \in DOMAIN Changes[p] /\ ~(i <= cursor)
  BY <1>1, <1>2, ChangesAssumption, SMT
<1>7. \A e \in new : created[e] = Nil
  BY <1>6, SMT DEF Inv, Paged
<1>8. \A q \in Publication : \A i \in DOMAIN Changes[q] :
          Changes[q][i] \in new <=> q = p /\ i \in cursor + 1 .. end
  BY <1>6, ChangesApart, SMT
<1> HIDE DEF new, end
<1>9. \A e \in Event : source'[e] = IF e \in new THEN "pending" ELSE source[e]
  BY <1>5, ZenonT(30) DEF Inv, TypeOK
<1>10. Emitted' /\ Served'
  BY <1>1, <1>3, <1>4, <1>5, <1>7, <1>9, EmitInv, ZenonT(30)
<1>11. Paged'
  <2>1. \A q \in Publication : source'[q] = source[q]
    BY <1>3, <1>5, IdsAssumption DEF Inv, TypeOK
  <2>2. /\ publications'[p].created = publications[p].created
        /\ publications'[p].cursor = end
        /\ publications'[p].complete = (end = Len(Changes[p]))
        /\ \A q \in Publication : q # p => publications'[q] = publications[q]
    BY <1>5, SMT DEF Inv, TypeOK
  <2>3. \A q \in Publication : \A i \in DOMAIN Changes[q] :
            /\ created'[Changes[q][i]] = IF Changes[q][i] \in new THEN publications[p].created
                                         ELSE created[Changes[q][i]]
            /\ source'[Changes[q][i]] = IF Changes[q][i] \in new THEN "pending"
                                        ELSE source[Changes[q][i]]
    BY <1>4, <1>9, ChangeIsEvent, ZenonT(30) DEF EmitAt
  <2>4. publications[p].created # Nil /\ source[p] = "pending"
    BY <1>1, IdsAssumption, SMT DEF Time, ComplianceStep
  <2>5. ASSUME NEW q \in Publication, NEW i \in DOMAIN Changes[q]
        PROVE  IF i <= publications'[q].cursor
               THEN source'[Changes[q][i]] # "none"
                    /\ created'[Changes[q][i]] = publications'[q].created
               ELSE created'[Changes[q][i]] = Nil
    <3>1. CASE q # p
      BY <3>1, <1>8, <2>2, <2>3, SMT DEF Inv, Paged
    <3>2. CASE q = p /\ i \in cursor + 1 .. end
      <4>1. Changes[p][i] \in new /\ i <= end
        BY <3>2, <1>2, <1>8, SMT
      <4> QED
        BY <3>2, <4>1, <2>2, <2>3, ZenonT(30)
    <3>3. CASE q = p /\ i \notin cursor + 1 .. end
      <4>1. Changes[p][i] \notin new
        BY <3>3, <1>8, ZenonT(30)
      <4>2. i <= end <=> i <= cursor
        BY <3>3, <1>1, <1>2, ChangeIsEvent, SMT
      <4> QED
        BY <3>3, <4>1, <4>2, <2>2, <2>3, SMT DEF Inv, Paged
    <3> QED
      BY <3>1, <3>2, <3>3
  <2>6. ASSUME NEW q \in Publication
        PROVE  /\ publications'[q].created = Nil => publications'[q].cursor = 0 /\ source'[q] = "none"
               /\ publications'[q].cursor <= Len(Changes[q])
               /\ publications'[q].complete => publications'[q].cursor = Len(Changes[q])
               /\ source'[q] = "published" => publications'[q].complete
    <3>1. CASE q = p
      BY <3>1, <1>2, <2>1, <2>2, <2>4, ZenonT(30)
    <3>2. CASE q # p
      BY <3>2, <2>1, <2>2, SMT DEF Inv, Paged
    <3> QED
      BY <3>1, <3>2
  <2> QED
    BY <2>5, <2>6 DEF Paged
<1> QED
  BY <1>10, <1>11

\* The relay confirms a source message when its work is complete, or gives it up.
LEMMA SettleInv ==
    ASSUME Inv, NEW m \in Event \cup Publication, Confirm(m) \/ GiveUp(m)
    PROVE  Emitted' /\ Paged' /\ Served'
<1> USE DEF Inv
<1>1. /\ source[m] = "pending"
      /\ \A x \in Event \cup Publication : x # m => source'[x] = source[x]
      /\ source'[m] # "none" /\ (source'[m] = "published" => Complete(m))
      /\ UNCHANGED <<config, emission, fanout, outbox>>
  BY DEF Confirm, GiveUp, TypeOK, delivery
<1>2. Emitted'
  BY <1>1, ZenonT(30) DEF Emitted, ActiveBy, config, emission
<1>3. Paged'
  BY <1>1, IdsAssumption, ChangeIsEvent, ZenonT(30) DEF Paged, Complete, emission
<1>4. Served'
  BY <1>1, IdsAssumption DEF Served, ServedEvent, Complete, Live, Place, Automatic, config, emission
<1> QED
  BY <1>2, <1>3, <1>4

\* One page of a fan-out queues the live candidates whose place it covers.
LEMMA FanoutInv == ASSUME Inv, NEW e \in Event, FanoutStep(e) PROVE Emitted' /\ Paged' /\ Served'
<1> DEFINE old == fanout[e]
           row == fanout'[e]
           page == {t \in row.snapshot : Place(t, row.snapshot) \in old.cursor + 1 .. row.cursor}
           new == {Automatic(e, t) : t \in {x \in page : Live(x)}}
<1>1. /\ created[e] \in Time
      /\ row.snapshot = IF old.listed THEN old.snapshot ELSE Candidates(e, created[e])
      /\ row.snapshot \subseteq Target /\ IsFiniteSet(row.snapshot)
      /\ Cardinality(row.snapshot) \in Nat
      /\ row.listed = TRUE /\ row.cursor \in Nat
      /\ old.cursor \in Nat /\ old.cursor <= row.cursor /\ row.cursor <= Cardinality(row.snapshot)
      /\ row.complete = (row.cursor = Cardinality(row.snapshot))
      /\ fanout' = [fanout EXCEPT ![e] = row]
      /\ Queue(new)
  BY FanoutRow
<1>2. /\ UNCHANGED <<config, emission, source>>
      /\ DOMAIN outbox' = DOMAIN outbox \cup new
      /\ \A x \in Event : x # e => fanout'[x] = fanout[x]
      /\ source[e] = "pending" /\ created[e] # Nil
  <2>1. UNCHANGED <<config, emission, source>> /\ source[e] = "pending"
    BY DEF FanoutStep
  <2>2. DOMAIN outbox' = DOMAIN outbox \cup new
    BY <1>1 DEF Queue
  <2>3. created[e] # Nil
    BY <1>1, IdsAssumption, SMT DEF Time
  <2>4. \A x \in Event : x # e => fanout'[x] = fanout[x]
    <3>1. fanout \in [Event -> [listed: BOOLEAN, snapshot: SUBSET Target, cursor: Nat,
                               complete: BOOLEAN]]
      BY DEF Inv, TypeOK
    <3> HIDE DEF row
    <3> QED
      BY <1>1, <3>1
  <2> QED
    BY <2>1, <2>2, <2>3, <2>4, ZenonT(30)
<1>3. \A t \in row.snapshot : ActiveBy(t, created[e]) /\ e \in Selects[t.sub]
  <2>1. CASE old.listed
    BY <1>1, <1>2, <2>1 DEF Inv, Emitted
  <2>2. CASE ~old.listed
    BY <1>1, <2>2, CandidatesActive
  <2> QED
    BY <2>1, <2>2
<1>4. \A d \in new : d.event = e /\ \E t \in row.snapshot : d = Automatic(e, t)
  BY SMT DEF Automatic
<1>5. \A t \in page : Live(t) => Automatic(e, t) \in new
  OBVIOUS
<1>6. \A t \in row.snapshot :
          Place(t, row.snapshot) \in old.cursor + 1 .. row.cursor => t \in page
  OBVIOUS
<1> HIDE DEF new, row, page
<1>8. Paged'
  BY <1>2 DEF Inv, Paged, emission
<1>9. Emitted'
  <2>1. ASSUME NEW x \in Event
        PROVE  /\ created[x] = Nil => source[x] = "none" /\ audience[x] = {} /\ ~fanout'[x].listed
               /\ ~fanout'[x].listed => fanout'[x].snapshot = {} /\ fanout'[x].cursor = 0
                                        /\ ~fanout'[x].complete
               /\ created[x] # Nil => \A t \in audience[x] \cup fanout'[x].snapshot :
                                          ActiveBy(t, created[x]) /\ x \in Selects[t.sub]
    <3>1. CASE x = e
      BY <3>1, <1>1, <1>2, <1>3, ZenonT(30) DEF Inv, Emitted, row
    <3>2. CASE x # e
      BY <3>2, <1>2, ZenonT(30) DEF Inv, Emitted
    <3> QED
      BY <3>1, <3>2
  <2>2. ASSUME NEW d \in DOMAIN outbox', d.event \in Event
        PROVE  created[d.event] # Nil /\ ActiveBy(d, created[d.event])
    <3>1. CASE d \in DOMAIN outbox
      BY <3>1, <2>2 DEF Inv, Emitted
    <3>2. CASE d \in new
      <4>1. PICK t \in row.snapshot : d = Automatic(e, t)
        BY <1>4, <3>2
      <4>2. d.event = e /\ d.sub = t.sub /\ d.version = t.version
        BY <4>1 DEF Automatic
      <4> QED
        BY <1>2, <1>3, <4>2 DEF ActiveBy
    <3> QED
      BY <1>2, <3>1, <3>2
  <2> QED
    BY <1>2, <2>1, <2>2 DEF Emitted, ActiveBy, config, emission
<1>10. Served'
  <2> SUFFICES ASSUME NEW x \in Event PROVE ServedEvent(x)'
    BY DEF Served
  <2>1. CASE x # e
    BY <2>1, <1>2 DEF Inv, Served, ServedEvent, Live, Place, Automatic, config, emission
  <2>2. CASE x = e
    <3>1. /\ fanout'[x] = row /\ audience'[x] = audience[x]
          /\ \A t : Live(t)' <=> Live(t)
      BY <2>2, <1>2 DEF row, Live, config, emission
    <3>2. \A t \in audience[e] : Live(t) => t \in row.snapshot
      <4>1. CASE old.listed
        BY <4>1, <1>1 DEF Inv, Served, ServedEvent
      <4>2. CASE ~old.listed
        <5> SUFFICES ASSUME NEW t \in audience[e], Live(t) PROVE t \in Candidates(e, created[e])
          BY <4>2, <1>1
        <5>1. t \in Target /\ ActiveBy(t, created[e]) /\ e \in Selects[t.sub]
          BY <1>2 DEF Inv, TypeOK, Emitted
        <5>2. t.sub \in Active(created[e])
          BY <5>1 DEF Active, ActiveBy, Live, Target
        <5>3. t = [sub |-> t.sub, version |-> subs[t.sub].version]
          BY <5>1 DEF Live, Target
        <5> QED
          BY <5>1, <5>2, <5>3 DEF Candidates
      <4> QED
        BY <4>1, <4>2
    <3>3. ASSUME NEW t \in row.snapshot, Place(t, row.snapshot) <= row.cursor, Live(t)
          PROVE  Automatic(e, t) \in DOMAIN outbox'
      <4>1. Place(t, row.snapshot) \in Nat /\ Place(t, row.snapshot) >= 1
        <5> DEFINE P == {y \in row.snapshot : y.sub <= t.sub}
        <5>1. IsFiniteSet(P) /\ Cardinality(P) \in Nat
          BY <1>1, FS_Subset, FS_CardinalityType
        <5>2. t \in P
          <6>1. t \in Target
            BY <1>1
          <6>2. t.sub \in Nat
            BY <6>1, IdsAssumption DEF Target
          <6> QED
            BY <6>2, SMT
        <5>3. Cardinality(P) # 0
          <6>1. P # {}
            BY <5>2
          <6> QED
            BY <5>1, <6>1, FS_EmptySet
        <5> QED
          BY <5>1, <5>3, SMT DEF Place
      <4>2. CASE Place(t, row.snapshot) <= old.cursor
        <5>1. CASE old.listed
          BY <4>2, <5>1, <3>3, <1>1, <1>2, ZenonT(30) DEF Inv, Served, ServedEvent
        <5>2. CASE ~old.listed
          BY <4>1, <4>2, <5>2, SMT DEF Inv, Emitted
        <5> QED
          BY <5>1, <5>2
      <4>3. CASE ~(Place(t, row.snapshot) <= old.cursor)
        <5>1. Place(t, row.snapshot) \in old.cursor + 1 .. row.cursor
          BY <1>1, <3>3, <4>1, <4>3, SMT
        <5> QED
          BY <1>2, <1>5, <1>6, <3>3, <5>1, ZenonT(30)
      <4> QED
        BY <4>2, <4>3
    <3>4. \A t \in row.snapshot : Automatic(x, t)' = Automatic(e, t)
      BY <2>2 DEF Automatic
    <3> QED
      BY <1>1, <1>2, <2>2, <3>1, <3>2, <3>3, <3>4, ZenonT(30) DEF ServedEvent, Place
  <2> QED
    BY <2>1, <2>2
<1> QED
  BY <1>8, <1>9, <1>10

\* The previous key is kept as long as a delivery queued under it is unsettled.
LEMMA NextKeepsKeys == ASSUME Inv, Next PROVE UnsettledKeepsItsKey'
<1> USE DEF Inv, TypeOK, UnsettledKeepsItsKey
<1>1. CASE UNCHANGED <<outbox, signer, keys>>
  BY <1>1 DEF keys
<1>2. CASE Prepare
  BY <1>2, SMT DEF Prepare, Moves, Material, beyondKeys, delivery
<1>3. CASE RetirePrevious
  BY <1>3 DEF RetirePrevious, Unsettled, beyondKeys, delivery
<1>4. ASSUME NEW k \in Key, ConfirmKey(k) PROVE UnsettledKeepsItsKey'
  BY <1>4 DEF ConfirmKey, Material, beyondKeys, delivery
<1>5. ASSUME NEW k \in Key, Activate(k) PROVE UnsettledKeepsItsKey'
  <2>1. Nil \notin Key
    BY IdsAssumption, SMT DEF Key
  <2> QED
    BY <1>5, <2>1 DEF Activate, Moves, beyondKeys, delivery
<1>6. ASSUME NEW k \in Key, Revoke(k) PROVE UnsettledKeepsItsKey'
  <2>1. \A x \in Key : materials'[x].revoked <=> x = k \/ materials[x].revoked
    BY <1>6, SMT DEF Revoke, Material
  <2>2. head'.active = head.active /\ (head.retiring = k \/ head'.retiring = head.retiring)
        /\ UNCHANGED <<outbox, signer>>
    BY <1>6 DEF Revoke, Moves, beyondKeys, delivery
  <2> QED
    BY <2>1, <2>2
<1>7. ASSUME \/ \E d \in DOMAIN outbox : Authorize(d) \/ Deny(d)
             \/ \E d \in sending, status \in Status \ {"none"} : Respond(d, status)
             \/ \E o \in Operation : Redrive(o)
      PROVE  UnsettledKeepsItsKey'
  <2>1. /\ DOMAIN outbox' = DOMAIN outbox /\ UNCHANGED <<signer, head, materials>>
        /\ \A d \in DOMAIN outbox : outbox[d] = "published" => outbox'[d] = "published"
    BY <1>7 DEF Authorize, Deny, Respond, Redrive, InFlight, others, keys
  <2> QED
    BY <2>1
<1>8. ASSUME NEW s \in Subscription, Create(s) \/ Put(s) \/ Switch(s) \/ Delete(s)
      PROVE  UnsettledKeepsItsKey'
  BY <1>8, <1>1 DEF Create, Put, Switch, Delete, Rotate, delivery
<1>9. ASSUME NEW e \in Event, FanoutStep(e) PROVE UnsettledKeepsItsKey'
  <2>1. \A d \in DOMAIN outbox' : signer'[d] = IF d \in DOMAIN outbox THEN signer[d] ELSE head.active
    BY <1>9 DEF FanoutStep, Queue
  <2>2. \A d \in DOMAIN outbox : outbox'[d] = outbox[d]
    BY <1>9 DEF FanoutStep, Queue
  <2> QED
    BY <1>9, <2>1, <2>2 DEF FanoutStep, keys
<1>10. ASSUME NEW d, NEW o, Replay(d, o) PROVE UnsettledKeepsItsKey'
  BY <1>10 DEF Replay, Queue, others, keys
<1>11. ASSUME NEW s, NEW o, Test(s, o) PROVE UnsettledKeepsItsKey'
  BY <1>11 DEF Test, Queue, others, keys
<1> QED
  BY <1>1, <1>2, <1>3, <1>4, <1>5, <1>6, <1>7, <1>8, <1>9, <1>10, <1>11, ZenonT(30)
     DEF Next, Tick, Emit, Publish, ComplianceStep, Confirm, GiveUp, Intend, others, delivery

\* Ticks, key requests and the steps of deliveries only repeat deliveries.
LEMMA RepeatSteps ==
    ASSUME Inv,
           \/ Tick \/ Prepare \/ RetirePrevious
           \/ \E k \in Key : ConfirmKey(k) \/ Activate(k) \/ Revoke(k)
           \/ \E d \in DOMAIN outbox : Authorize(d) \/ Deny(d)
           \/ \E d \in sending, status \in Status \ {"none"} : Respond(d, status)
           \/ \E s \in Subscription, o \in Operation : Test(s, o)
           \/ \E d \in DOMAIN outbox, o \in Operation : Replay(d, o) \/ Intend(d, o)
           \/ \E o \in Operation : Redrive(o)
    PROVE  Repeats
<1> USE DEF Repeats, Inv, TypeOK
<1>1. CASE Tick \/ Prepare \/ RetirePrevious
           \/ \E k \in Key : ConfirmKey(k) \/ Activate(k) \/ Revoke(k)
  BY <1>1 DEF Tick, Prepare, RetirePrevious, ConfirmKey, Activate, Revoke, beyondKeys, delivery
<1>2. CASE \/ \E d \in DOMAIN outbox : Authorize(d) \/ Deny(d)
           \/ \E d \in sending, status \in Status \ {"none"} : Respond(d, status)
           \/ \E o \in Operation : Redrive(o)
           \/ \E d \in DOMAIN outbox, o \in Operation : Intend(d, o)
  BY <1>2 DEF Authorize, Deny, Respond, Redrive, Intend, others
<1>3. ASSUME NEW s \in Subscription, NEW o \in Operation, Test(s, o) PROVE Repeats
  BY <1>3, IdsAssumption, SMT DEF Test, Queue, others
<1>4. ASSUME NEW d \in DOMAIN outbox, NEW o \in Operation, Replay(d, o) PROVE Repeats
  <2>1. d \in Identity
    OBVIOUS
  <2>2. [d EXCEPT !.operation = o].event = d.event /\ [d EXCEPT !.operation = o].sub = d.sub
        /\ [d EXCEPT !.operation = o].version = d.version
    BY <2>1 DEF Identity
  <2> QED
    BY <1>4, <2>2 DEF Replay, Queue, others
<1> QED
  BY <1>1, <1>2, <1>3, <1>4

\* Every step keeps the invariant.
LEMMA NextInv == Inv /\ [Next]_vars => Inv'
<1> SUFFICES ASSUME Inv, [Next]_vars PROVE Inv'
  OBVIOUS
<1>1. CASE UNCHANGED vars
  <2>1. Repeats
    BY <1>1 DEF Repeats, vars, delivery
  <2>2. Emitted' /\ Paged' /\ Served'
    BY <2>1, RepeatsInv
  <2> QED
    BY <1>1, <2>2 DEF Inv, TypeOK, InFlight, OwnRequest, UnsettledKeepsItsKey,
                      vars, config, emission, delivery, keys
<1>2. CASE Next
  <2>1. Emitted' /\ Paged' /\ Served'
    <3>1. CASE \E s \in Subscription : Create(s) \/ Put(s) \/ Switch(s) \/ Delete(s)
      BY <3>1, Rotates, RotateInv DEF Inv
    <3> QED
      BY ZenonT(30), <1>2, <3>1, RepeatSteps, RepeatsInv, BusinessInv, PublishInv, ComplianceInv, SettleInv,
         FanoutInv DEF Next
  <2> QED
    BY <1>2, <2>1, NextTypes, NextInFlight, NextOwnRequest, NextKeepsKeys DEF Inv
<1> QED
  BY <1>1, <1>2

\* The invariant holds in every reachable state.
THEOREM Invariance == Spec => []Inv
  BY InitInv, NextInv, PTL DEF Spec

-----------------------------------------------------------------------------
(* The properties.                                                         *)

\* Every variable keeps its type, a deleted subscription is disabled.
THEOREM TypeCorrect == Spec => []TypeOK
<1>1. Inv => TypeOK
  BY DEF Inv
<1> QED
  BY <1>1, Invariance, PTL

\* Whatever the sizes of pages and lists, and however subscriptions change while a fan-out is
\* under way, a confirmed event has a delivery for every version of its audience that is live,
\* and a confirmed publication has emitted every change.
THEOREM ConfirmedIsAlwaysServed == Spec => []ConfirmedIsServed
<1>1. ASSUME Inv PROVE ConfirmedIsServed
  <2>1. ASSUME NEW e \in Event, source[e] = "published", NEW t \in audience[e], Live(t)
        PROVE  Automatic(e, t) \in DOMAIN outbox
    <3> DEFINE S == fanout[e].snapshot
    <3>1. /\ IsFiniteSet(S) /\ fanout[e].cursor = Cardinality(S) /\ t \in S
          /\ Place(t, S) <= fanout[e].cursor => Automatic(e, t) \in DOMAIN outbox
      BY <1>1, <2>1 DEF Inv, Served, ServedEvent
    <3>2. Place(t, S) <= Cardinality(S)
      <4>1. {x \in S : x.sub <= t.sub} \in SUBSET S
        OBVIOUS
      <4> QED
        BY <3>1, <4>1, FS_Subset DEF Place
    <3> QED
      BY <3>1, <3>2
  <2>2. ASSUME NEW p \in Publication, source[p] = "published", NEW e \in ToSet(Changes[p])
        PROVE  source[e] # "none"
    <3>1. PICK i \in DOMAIN Changes[p] : e = Changes[p][i]
      BY DEF ToSet
    <3>2. i <= publications[p].cursor
      BY <1>1, <2>2, ChangeIsEvent, SMT DEF Inv, Paged
    <3> QED
      BY <1>1, <3>1, <3>2 DEF Inv, Paged
  <2> QED
    BY <2>1, <2>2 DEF ConfirmedIsServed
<1> QED
  BY <1>1, Invariance, PTL

\* No delivery is ever queued for a version that was activated after the change it tells of.
THEOREM NothingIsEverBackfilled == Spec => []NothingIsBackfilled
<1>1. ASSUME Inv PROVE NothingIsBackfilled
  <2> SUFFICES ASSUME NEW d \in DOMAIN outbox, d.event \in Event
               PROVE  activated[d.sub][d.version] # Nil
                      /\ activated[d.sub][d.version] <= OccurredAt(d.event)
    BY DEF NothingIsBackfilled
  <2> DEFINE e == d.event
  <2>1. created[e] # Nil /\ ActiveBy(d, created[e])
    BY <1>1 DEF Inv, Emitted
  <2>2. OccurredAt(e) = created[e]
    <3>1. CASE e \notin Derived
      BY <3>1 DEF OccurredAt
    <3>2. CASE e \in Derived
      <4>1. \E q \in Publication : e \in ToSet(Changes[q])
        BY <3>2 DEF Derived
      <4> DEFINE p == CHOOSE q \in Publication : e \in ToSet(Changes[q])
      <4>2. p \in Publication /\ e \in ToSet(Changes[p])
        BY <4>1
      <4> HIDE DEF p
      <4>3. PICK i \in DOMAIN Changes[p] : e = Changes[p][i]
        BY <4>2 DEF ToSet
      <4>4. created[e] = publications[p].created
        BY <1>1, <2>1, <4>2, <4>3, SMT DEF Inv, Paged
      <4> QED
        BY <3>2, <4>4 DEF OccurredAt, p
    <3> QED
      BY <3>1, <3>2
  <2> QED
    BY <2>1, <2>2 DEF ActiveBy
<1> QED
  BY <1>1, Invariance, PTL

\* However many operations there are and however they are repeated, each makes one delivery at
\* most.
THEOREM AlwaysOneDeliveryPerOperation == Spec => []OneDeliveryPerOperation
<1>1. ASSUME Inv PROVE OneDeliveryPerOperation
  <2> SUFFICES ASSUME NEW o \in Operation
               PROVE  Cardinality({d \in DOMAIN outbox : d.operation = o}) <= 1
    BY DEF OneDeliveryPerOperation
  <2> DEFINE D == {d \in DOMAIN outbox : d.operation = o}
             x == [operations[o].id EXCEPT !.operation = o]
  <2>1. o # Nil
    BY IdsAssumption
  <2>2. \A d \in D : d = x
    BY <1>1, <2>1 DEF Inv, OwnRequest
  <2> HIDE DEF x
  <2>3. D \in SUBSET {x}
    BY <2>2
  <2>4. IsFiniteSet({x}) /\ Cardinality({x}) = 1
    BY FS_Singleton
  <2>5. Cardinality(D) <= Cardinality({x})
    BY <2>3, <2>4, FS_Subset
  <2> QED
    BY <2>4, <2>5
<1> QED
  BY <1>1, Invariance, PTL

\* The overlap of two keys lasts as long as any delivery from before the rotation is unsettled.
THEOREM UnsettledAlwaysKeepsItsKey == Spec => []UnsettledKeepsItsKey
<1>1. Inv => UnsettledKeepsItsKey
  BY DEF Inv
<1> QED
  BY <1>1, Invariance, PTL

\* In every behaviour a retired version stays silent.
THEOREM RetiredIsAlwaysSilent == Spec => RetiredIsSilent
<1> DEFINE Silent == \A d \in DOMAIN outbox : d.version < subs'[d.sub].version /\ d \notin sending =>
               d \notin sending' /\ (outbox'[d] = "published" => outbox[d] = "published")
<1>1. ASSUME Inv, Next PROVE Silent
  <2> USE DEF Inv, TypeOK
  <2>1. CASE UNCHANGED <<outbox, sending>>
    BY <2>1
  <2>2. CASE UNCHANGED sending /\ \A d \in DOMAIN outbox : outbox'[d] # "published"
                                                          \/ outbox'[d] = outbox[d]
    BY <2>2
  <2>3. ASSUME NEW x \in DOMAIN outbox, Authorize(x) PROVE Silent
    <3>1. x.sub \in Subscription /\ x.version \in Nat /\ subs'[x.sub].version = x.version
      <4>1. x \in Identity
        BY <1>1
      <4>2. Version \subseteq Nat
        BY BoundsAssumption, SMT DEF Version
      <4>3. subs' = subs /\ subs[x.sub].version = x.version
        BY <2>3 DEF Authorize, Live, others, config
      <4> QED
        BY <4>1, <4>2, <4>3 DEF Identity
    <3>2. ~(x.version < subs'[x.sub].version)
      BY <3>1, SMT
    <3> QED
      BY <2>3, <3>2 DEF Authorize
  <2>4. ASSUME NEW x \in sending, NEW status, Respond(x, status) PROVE Silent
    BY <2>4 DEF Respond
  <2>5. ASSUME NEW s \in Subscription, Create(s) \/ Put(s) \/ Switch(s) \/ Delete(s) PROVE Silent
    BY <2>1, <2>5 DEF Create, Put, Switch, Delete, Rotate, delivery
  <2>6. ASSUME \/ \E x \in DOMAIN outbox : Deny(x)
               \/ \E o \in Operation : Redrive(o)
               \/ \E e \in Event : FanoutStep(e)
               \/ \E s \in Subscription, o \in Operation : Test(s, o)
               \/ \E x \in DOMAIN outbox, o \in Operation : Replay(x, o)
        PROVE  Silent
    <3>1. UNCHANGED sending
      BY <2>6 DEF Deny, Redrive, FanoutStep, Test, Replay
    <3>2. \A d \in DOMAIN outbox : outbox'[d] # "published" \/ outbox'[d] = outbox[d]
      <4>1. CASE \E new : Queue(new)
        BY <4>1 DEF Queue
      <4>2. CASE \E x \in DOMAIN outbox : Deny(x)
        BY <4>2 DEF Deny
      <4>3. CASE \E o \in Operation : Redrive(o)
        BY <4>3 DEF Redrive
      <4> QED
        BY <2>6, <4>1, <4>2, <4>3, ZenonT(30) DEF FanoutStep, Test, Replay
    <3> QED
      BY <2>2, <3>1, <3>2, ZenonT(30)
  <2> HIDE DEF Silent, Inv, TypeOK
  <2> QED
    BY <1>1, <2>1, <2>3, <2>4, <2>5, <2>6, ZenonT(30)
       DEF Next, Tick, Prepare, RetirePrevious, ConfirmKey, Activate, Revoke, Emit, Publish,
           ComplianceStep, Confirm, GiveUp, Intend, beyondKeys, delivery
<1>2. ASSUME Inv, [Next]_vars PROVE [Silent]_vars
  BY <1>1, <1>2
<1> QED
  BY <1>2, Invariance, PTL DEF Spec, RetiredIsSilent
=============================================================================
