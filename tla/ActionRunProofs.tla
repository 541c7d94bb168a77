--------------------------- MODULE ActionRunProofs ---------------------------
(***************************************************************************)
(* Proofs about ActionRun, for every set of runs, attempts and policies,   *)
(* every lease, lifetime and limit, and every bound on the clock.          *)
(***************************************************************************)
EXTENDS ActionRun, FiniteSetTheorems, TLAPS

\* First-order steps go to Zenon; the ones that need arithmetic or updated records name SMT.
USE Zenon

-----------------------------------------------------------------------------
(* How a transaction moves a run. *)

\* A run that is being executed has not confirmed a cancellation, and no script or
\* collection task waits for a reboot (in agent.rs only a software result does).
Coherent(s) ==
    /\ s.execution = "running" => s.cancellation # "confirmed"
    /\ s.execution # "waiting_reboot"

\* The run is queued or running, and nobody confirmed its cancellation.
Open(s) == s.execution \in {"not_started", "running"} /\ s.cancellation # "confirmed"

\* The run may still change the device, its deadline apart.
Acts(s) ==
    \/ s.execution \in {"running", "unknown"}
    \/ s.execution = "not_started" /\ s.cancellation # "confirmed"

\* The deadline is fixed, a cancellation is not taken back, a started run keeps its attempt
\* and stays started, a verdict is final, and a run that is closed or has stopped acting does
\* not come back.
Evolves(s, t) ==
    /\ t \in RunState
    /\ t.deadline = s.deadline
    /\ s.cancellation # "none" => t.cancellation # "none"
    /\ s.execution # "not_started" => t.execution # "not_started" /\ t.attempt = s.attempt
    /\ s.execution \in {"succeeded", "failed"} => t.execution = s.execution
    /\ Coherent(s) => Coherent(t) /\ (Open(t) => Open(s))
    /\ Acts(t) => Acts(s)

\* ... and every move but Start leaves an unstarted run unstarted.
Moves(s, t) ==
    Evolves(s, t) /\ (s.execution = "not_started" => t.execution = "not_started")

\* The methods of RunState that need no attempt.
LEMMA PlainMoves ==
    ASSUME NEW s \in RunState, NEW t \in Nat
    PROVE  /\ Moves(s, s)
           /\ Moves(s, Received(s))
           /\ Moves(s, Cancel(s))
           /\ Moves(s, Cancelled(s))
           /\ Moves(s, Expire(s, t))
<1> USE DEF RunState, Delivery, Execution, Cancellation, Moves, Evolves, Coherent, Open, Acts
<1>1. Moves(s, s)
  OBVIOUS
<1>2. Moves(s, Received(s))
  BY ZenonT(40) DEF Received
<1>3. Moves(s, Cancel(s))
  BY DEF Cancel
<1>4. Moves(s, Cancelled(s))
  BY ZenonT(40) DEF Cancelled
<1>5. Moves(s, Expire(s, t))
  BY DEF Expire
<1> QED
  BY <1>1, <1>2, <1>3, <1>4, <1>5

\* The methods of RunState for an attempt, under their guards.
LEMMA AttemptMoves ==
    ASSUME NEW s \in RunState, NEW a \in Attempt, NEW t \in Nat
    PROVE  /\ CanClaim(s, a, t) => Moves(s, Claim(s, a, t))
           /\ \A success \in BOOLEAN : CanReport(s, a) => Moves(s, Result(s, success))
           /\ s.execution = "not_started" /\ CanStart(s, a, t) => Evolves(s, Start(s, a, t))
<1> USE DEF RunState, Delivery, Execution, Cancellation, Moves, Evolves, Coherent, Open, Acts
<1>1. CanClaim(s, a, t) => Moves(s, Claim(s, a, t))
  <2>1. Earlier(t + Lease, s.deadline) \in Nat
    BY LeaseAssumption, SMT DEF Earlier
  <2> QED
    BY <2>1, ZenonT(40) DEF CanClaim, Claim
<1>2. ASSUME NEW success \in BOOLEAN, CanReport(s, a) PROVE Moves(s, Result(s, success))
  BY <1>2 DEF CanReport, Unsettled, Result
<1>3. s.execution = "not_started" /\ CanStart(s, a, t) => Evolves(s, Start(s, a, t))
  BY ZenonT(40) DEF Start, AlreadyStarted, CanStart, LiveAttempt
<1> QED
  BY <1>1, <1>2, <1>3

\* Two moves of one transaction are one move.
LEMMA MovesTransitive ==
    ASSUME NEW s \in RunState, NEW t, NEW u, Moves(s, t), Moves(t, u)
    PROVE  Moves(s, u)
  BY DEF Moves, Evolves

\* The compound moves of the candidate walk, the worker, retirement and Cancelled.
LEMMA CompoundMoves ==
    ASSUME NEW r, st[r] \in RunState, now \in Nat
    PROVE  /\ Moves(st[r], PassedOver(r))
           /\ Moves(st[r], Recovered(r))
           /\ Moves(st[r], RetiredState(st[r]))
           /\ Moves(st[r], Cancelled(Cancel(st[r])))
<1>1. \A s \in RunState : Moves(s, s) /\ Moves(s, Cancel(s)) /\ Moves(s, Cancelled(s))
  BY PlainMoves
<1>2. \A s \in RunState : Moves(s, Expire(s, now))
  BY PlainMoves
<1>3. \A s, t : Moves(s, t) => t \in RunState
  BY DEF Moves, Evolves
<1>4. Moves(st[r], PassedOver(r))
  BY <1>1 DEF PassedOver
<1>5. Moves(st[r], RetiredState(st[r]))
  BY <1>1 DEF RetiredState
<1>6. Moves(st[r], Cancelled(Cancel(st[r])))
  <2>1. Moves(st[r], Cancel(st[r])) /\ Moves(Cancel(st[r]), Cancelled(Cancel(st[r])))
    BY <1>1, <1>3
  <2> QED
    BY <2>1, MovesTransitive
<1>7. Moves(st[r], Recovered(r))
  <2> DEFINE fenced == IF Stale(r) \/ Withdrawn(r) THEN Cancel(st[r]) ELSE st[r]
             expired == Expire(fenced, now)
  <2>1. Moves(st[r], fenced)
    BY <1>1
  <2>2. Moves(fenced, expired)
    BY <2>1, <1>2, <1>3
  <2>3. Moves(st[r], expired)
    BY <2>1, <2>2, MovesTransitive
  <2>4. Moves(expired, Cancel(expired))
    BY <2>3, <1>1, <1>3
  <2>5. Moves(st[r], Cancel(expired))
    BY <2>3, <2>4, MovesTransitive
  <2> HIDE DEF expired
  <2>6. Recovered(r) = IF expired.execution = "not_started" /\ expired.cancellation = "requested"
                       THEN Cancel(expired) ELSE expired
    BY DEF Recovered, expired
  <2> QED
    BY <2>3, <2>5, <2>6
<1> QED
  BY <1>4, <1>5, <1>6, <1>7
-----------------------------------------------------------------------------
(* Type correctness, one lemma for each kind of transaction.  Every one but Start also *)
(* moves the runs it touches without starting any.                                     *)

\* The runs that exist move, none starts, and no permit is stored.
Quiet == permit' = permit /\ \A r \in admitted : Moves(st[r], st'[r])

\* The initial state has the right types.
LEMMA TypeInit == Init => TypeOK
<1> SUFFICES ASSUME Init PROVE TypeOK
  OBVIOUS
<1>1. st \in [Run -> RunState]
  BY DEF Init, New, RunState, Delivery, Execution, Cancellation, NeverStarted
<1> QED
  BY <1>1 DEF Init, TypeOK, RunInfo, Never, Sealed, Status

\* A terminal event is recorded under one of the three statuses.
LEMMA PublishedType ==
    ASSUME TypeOK, NEW r \in Run, NEW new
    PROVE  Published(r, new) \in [Status -> Nat \cup {Never}]
  BY DEF TypeOK, Published, Publishes, Terminal, Status, Never

\* save_run keeps the types of the run table and of the events.
LEMMA SaveRunType ==
    ASSUME TypeOK, NEW r \in Run, NEW new \in RunState, SaveRun(r, new)
    PROVE  st' \in [Run -> RunState] /\ event' \in [Run -> [Status -> Nat \cup {Never}]]
<1>1. Published(r, new) \in [Status -> Nat \cup {Never}]
  BY PublishedType
<1> QED
  BY <1>1 DEF TypeOK, SaveRun

\* Sealing keeps the type of the collection table.
LEMMA CollectionType ==
    ASSUME NEW c \in [Attempt -> Sealed \cup {"none", "open"}], NEW a,
           NEW reason \in Sealed, NEW s
    PROVE  /\ Abandon(c, a, reason) \in [Attempt -> Sealed \cup {"none", "open"}]
           /\ AuditRecovery(c, s) \in [Attempt -> Sealed \cup {"none", "open"}]
  BY DEF Abandon, AuditRecovery, Sealed

\* The part of a poll that ClaimNothing and ClaimOffer share.
LEMMA PollStep ==
    ASSUME TypeOK, NEW fresh \in SUBSET (Run \ admitted), NEW delay \in Delays(fresh),
           NEW passed \in SUBSET Candidates, NEW offered \in SUBSET (Candidates \ passed), NEW a,
           \A r \in offered : a \in Attempt /\ CanClaim(st[r], a, now),
           Poll(fresh, delay, passed, offered, a)
    PROVE  /\ admitted' \subseteq Run /\ admitted \subseteq admitted'
           /\ info' \in [Run -> RunInfo]
           /\ st' \in [Run -> RunState]
           /\ event' \in [Run -> [Status -> Nat \cup {Never}]]
           /\ Quiet
<1>1. fresh \subseteq Run /\ fresh \cap admitted = {} /\ admitted \subseteq Run
  BY DEF TypeOK
<1>2. now \in Nat /\ \A r \in Run : st[r] \in RunState
  BY DEF TypeOK
<1>3. \A r \in fresh : delay[r] \in Nat
  BY BoundAssumption, SMT DEF Delays
<1>4. \A r \in fresh : QueuedInfo(r, delay) \in RunInfo
  BY <1>1, <1>2, <1>3, PolicyAssumption, SMT DEF QueuedInfo, RunInfo, TypeOK
<1>5. \A r \in fresh : QueuedState(r, delay) \in RunState
  <2> SUFFICES ASSUME NEW r \in fresh PROVE QueuedState(r, delay) \in RunState
    OBVIOUS
  <2>1. Earlier(now + delay[r] + Lifetime, EndsAt) \in Nat
    BY <1>2, <1>3, BoundAssumption, SMT DEF Earlier
  <2> QED
    BY <2>1 DEF QueuedState, New, RunState, Delivery, Execution, Cancellation, NeverStarted
<1>6. \A r \in Run : Moves(st[r], PassedOver(r)) /\ Moves(st[r], st[r])
  BY <1>2, CompoundMoves, PlainMoves
<1>7. \A r \in offered : r \in Run /\ Moves(st[r], Claim(st[r], a, now))
  BY <1>1, <1>2, AttemptMoves DEF Candidates
<1>8. \A s, t : Moves(s, t) => t \in RunState
  BY DEF Moves, Evolves
<1>9. \A r \in Run : IF r \in fresh THEN st'[r] \in RunState ELSE Moves(st[r], st'[r])
  <2> TAKE r \in Run
  <2>1. CASE r \in fresh
    <3>1. r \notin passed /\ r \notin offered
      BY <2>1 DEF Candidates
    <3>2. st'[r] = QueuedState(r, delay)
      BY <2>1, <3>1 DEF Poll
    <3> QED
      BY <2>1, <3>2, <1>5
  <2>2. CASE r \notin fresh /\ r \in passed
    <3>1. st'[r] = PassedOver(r)
      <4>1. r \notin offered
        BY <2>2
      <4> QED
        BY <2>2, <4>1 DEF Poll
    <3> QED
      BY <2>2, <3>1, <1>6
  <2>3. CASE r \notin fresh /\ r \notin passed /\ r \in offered
    <3>1. st'[r] = Claim(st[r], a, now)
      BY <2>3 DEF Poll
    <3> QED
      BY <2>3, <3>1, <1>7
  <2>4. CASE r \notin fresh /\ r \notin passed /\ r \notin offered
    <3>1. st'[r] = st[r]
      BY <2>4 DEF Poll
    <3> QED
      BY <2>4, <3>1, <1>6
  <2> QED
    BY <2>1, <2>2, <2>3, <2>4
<1>10. st' \in [Run -> RunState]
  <2>1. \A r \in Run : st'[r] \in RunState
    BY <1>8, <1>9
  <2>2. st' = [r \in Run |-> st'[r]]
    BY SMT DEF Poll
  <2> QED
    BY <2>1, <2>2
<1>11. Quiet
  BY <1>1, <1>9 DEF Quiet, Poll
<1>12. event' \in [Run -> [Status -> Nat \cup {Never}]]
  <2>1. \A r \in Run : Published(r, PassedOver(r)) \in [Status -> Nat \cup {Never}]
    BY PublishedType
  <2>2. event' = [r \in Run |-> IF r \in passed THEN Published(r, PassedOver(r)) ELSE event[r]]
    BY DEF Poll
  <2> QED
    BY <2>1, <2>2 DEF TypeOK
<1>13. info' \in [Run -> RunInfo]
  BY <1>4 DEF Poll, TypeOK
<1>14. admitted' \subseteq Run /\ admitted \subseteq admitted'
  BY <1>1 DEF Poll
<1> QED
  BY <1>10, <1>11, <1>12, <1>13, <1>14

\* What every transaction keeps: runs and attempts are never deleted or given away, time
\* does not run backwards, and the device learns and executes only what it was permitted.
Frame ==
    /\ admitted \subseteq admitted'
    /\ \A a \in Attempt : owner[a] # NoRun => owner'[a] = owner[a]
    /\ now <= now'
    /\ permits \subseteq permits' /\ permits' \subseteq permits \cup permit'
    /\ executed' \subseteq executed \cup permits

\* claim_action as a whole: a poll that offers a task or none.
LEMMA ClaimStep ==
    ASSUME TypeOK, ClaimAction PROVE TypeOK' /\ Frame /\ Quiet
<1>0. PICK fresh \in SUBSET (Run \ admitted) : \E delay \in Delays(fresh) :
        \/ ClaimNothing(fresh, delay)
        \/ \E passed \in SUBSET Candidates, r \in Candidates, a \in Attempt,
              delivered \in BOOLEAN : ClaimOffer(fresh, delay, passed, r, a, delivered)
  BY DEF ClaimAction
<1>1. PICK delay \in Delays(fresh) :
        \/ ClaimNothing(fresh, delay)
        \/ \E passed \in SUBSET Candidates, r \in Candidates, a \in Attempt,
              delivered \in BOOLEAN : ClaimOffer(fresh, delay, passed, r, a, delivered)
  BY <1>0
<1>2. now \in Nat /\ st \in [Run -> RunState] /\ Candidates \subseteq Run
  BY DEF TypeOK, Candidates
<1>3. \A passed, b : b \in Attempt =>
         WalkedCollection(passed, b) \in Sealed \cup {"none", "open"}
  BY DEF TypeOK, WalkedCollection, Abandon, Sealed
<1>4. CASE ClaimNothing(fresh, delay)
  <2>1. Poll(fresh, delay, Candidates, {}, NoAttempt)
    BY <1>4 DEF ClaimNothing
  <2>2. /\ admitted' \subseteq Run /\ admitted \subseteq admitted'
        /\ info' \in [Run -> RunInfo]
        /\ st' \in [Run -> RunState]
        /\ event' \in [Run -> [Status -> Nat \cup {Never}]]
        /\ Quiet
    <3>1. /\ Candidates \in SUBSET Candidates /\ {} \in SUBSET (Candidates \ Candidates)
          /\ \A r \in {} : NoAttempt \in Attempt /\ CanClaim(st[r], NoAttempt, now)
      OBVIOUS
    <3> QED
      BY <2>1, <3>1, PollStep
  <2>3. collection' \in [Attempt -> Sealed \cup {"none", "open"}]
    BY <1>3, <1>4 DEF ClaimNothing
  <2>4. UNCHANGED <<now, authority, permit, observed, permits, executed, owner, expiry, offers>>
    BY <1>4, <2>1 DEF ClaimNothing, Poll
  <2> QED
    BY <2>2, <2>3, <2>4, SMT DEF TypeOK, Frame, authority
<1>5. CASE \E passed \in SUBSET Candidates, r \in Candidates, a \in Attempt,
              delivered \in BOOLEAN : ClaimOffer(fresh, delay, passed, r, a, delivered)
  <2>1. PICK passed \in SUBSET Candidates, r \in Candidates, a \in Attempt,
              delivered \in BOOLEAN : ClaimOffer(fresh, delay, passed, r, a, delivered)
    BY <1>5
  <2>2. /\ r \in Run /\ r \in Candidates \ passed /\ CanClaim(st[r], a, now)
        /\ owner[a] = NoRun /\ Poll(fresh, delay, passed, {r}, a)
    BY <1>2, <2>1 DEF ClaimOffer
  <2>3. /\ admitted' \subseteq Run /\ admitted \subseteq admitted'
        /\ info' \in [Run -> RunInfo]
        /\ st' \in [Run -> RunState]
        /\ event' \in [Run -> [Status -> Nat \cup {Never}]]
        /\ Quiet
    <3>1. /\ {r} \in SUBSET (Candidates \ passed)
          /\ \A x \in {r} : a \in Attempt /\ CanClaim(st[x], a, now)
      BY <2>2
    <3> QED
      BY <2>2, <3>1, PollStep
  <2>4. collection' \in [Attempt -> Sealed \cup {"none", "open"}]
    <3>1. \A b \in Attempt :
            Abandon(collection, b, "superseded")[b] \in Sealed \cup {"none", "open"}
      BY DEF TypeOK, Abandon, Sealed
    <3> QED
      BY <1>3, <2>1, <3>1 DEF ClaimOffer
  <2>5. expiry' \in [Attempt -> Nat]
    <3>1. Earlier(now + Lease, st[r].deadline) \in Nat
      BY <1>2, <2>2, LeaseAssumption, SMT DEF RunState, Earlier
    <3> QED
      BY <2>1, <3>1 DEF ClaimOffer, TypeOK
  <2>6. /\ owner' = [owner EXCEPT ![a] = r]
        /\ offers' \subseteq Attempt
        /\ UNCHANGED <<now, authority, permit, observed, permits, executed>>
    BY <2>1, <2>2 DEF ClaimOffer, Poll, TypeOK
  <2>7. owner' \in [Attempt -> Run \cup {NoRun}]
    BY <2>2, <2>6 DEF TypeOK
  <2>8. Frame
    BY <1>2, <2>2, <2>3, <2>6, SMT DEF Frame, TypeOK
  <2> QED
    BY <2>3, <2>4, <2>5, <2>6, <2>7, <2>8 DEF TypeOK, authority
<1> QED
  BY <1>1, <1>4, <1>5

\* action_event, except Start: the transaction saves one run that belongs to its caller.
LEMMA EventStep ==
    ASSUME TypeOK, NEW a \in Attempt,
           \/ EventReceived(a)
           \/ EventCancelled(a)
           \/ \E success, trusted \in BOOLEAN : EventResult(a, success, trusted)
    PROVE  TypeOK' /\ Frame /\ Quiet
<1> DEFINE r == owner[a]
<1>1. r \in admitted /\ r \in Run
  BY DEF EventReceived, EventCancelled, EventResult, Belongs, TypeOK
<1>2. st[r] \in RunState /\ now \in Nat
  BY <1>1 DEF TypeOK
<1>3. PICK new : Moves(st[r], new) /\ SaveRun(r, new)
  <2>1. CASE EventReceived(a)
    BY <2>1, <1>2, PlainMoves DEF EventReceived
  <2>2. CASE EventCancelled(a)
    BY <2>2, <1>2, CompoundMoves DEF EventCancelled
  <2>3. CASE \E success, trusted \in BOOLEAN : EventResult(a, success, trusted)
    BY <2>3, <1>2, AttemptMoves DEF EventResult
  <2> QED
    BY <2>1, <2>2, <2>3
<1>4. st' \in [Run -> RunState] /\ event' \in [Run -> [Status -> Nat \cup {Never}]]
  <2>1. new \in RunState
    BY <1>3 DEF Moves, Evolves
  <2> QED
    BY <1>1, <1>3, <2>1, SaveRunType
<1>5. \A x \in admitted : Moves(st[x], st'[x])
  <2> TAKE x \in admitted
  <2>1. st[x] \in RunState /\ st'[x] = IF x = r THEN new ELSE st[x]
    BY <1>3 DEF SaveRun, TypeOK
  <2>2. Moves(st[x], st[x])
    BY <1>2, <2>1, PlainMoves
  <2> QED
    BY <1>3, <2>1, <2>2
<1>6. collection' \in [Attempt -> Sealed \cup {"none", "open"}]
  <2>1. collection \in [Attempt -> Sealed \cup {"none", "open"}] /\ "revoked" \in Sealed
    BY DEF TypeOK, Sealed
  <2>2. CASE EventReceived(a)
    BY <2>1, <2>2 DEF EventReceived
  <2>3. CASE EventCancelled(a)
    BY <2>1, <2>3, CollectionType DEF EventCancelled
  <2>4. CASE \E success, trusted \in BOOLEAN : EventResult(a, success, trusted)
    <3>1. \A trusted : Accept(collection, a, trusted) \in [Attempt -> Sealed \cup {"none", "open"}]
      BY <2>1 DEF Accept, Sealed
    <3> QED
      BY <2>1, <2>4, <3>1 DEF EventResult
  <2> QED
    BY <2>2, <2>3, <2>4
<1>7. UNCHANGED <<now, authority, admitted, info, owner, expiry, permit, observed, device>>
  BY DEF EventReceived, EventCancelled, EventResult
<1> QED
  BY <1>2, <1>4, <1>5, <1>6, <1>7, SMT DEF TypeOK, Frame, Quiet, authority, device

\* Attempt a starts its run, which nobody cancelled, and gets its permit.
StartsRun(a) ==
    /\ permit' = permit \cup {a}
    /\ owner[a] \in admitted
    /\ st[owner[a]].execution = "not_started" /\ st[owner[a]].attempt = a
    /\ st[owner[a]].cancellation = "none" /\ now < st[owner[a]].deadline
    /\ Evolves(st[owner[a]], st'[owner[a]])
    /\ st'[owner[a]].execution = "running" /\ st'[owner[a]].attempt = a
    /\ \A x \in Run : x # owner[a] => st'[x] = st[x]

\* Start: the caller's run begins its only execution and its attempt gets the permit.
LEMMA StartStep ==
    ASSUME TypeOK, NEW a \in Attempt, NEW delivered \in BOOLEAN, EventStart(a, delivered)
    PROVE  TypeOK' /\ Frame /\ StartsRun(a)
<1> DEFINE r == owner[a]
           new == Start(st[r], a, now)
<1>1. /\ r \in admitted /\ r \in Run /\ SaveRun(r, new)
      /\ st[r].execution = "not_started" /\ CanStart(st[r], a, now)
  BY DEF EventStart, Belongs, TypeOK
<1>2. st[r] \in RunState /\ now \in Nat
  BY <1>1 DEF TypeOK
<1>3. /\ st[r].attempt = a /\ st[r].cancellation = "none" /\ now < st[r].deadline
  BY <1>1 DEF CanStart, AlreadyStarted, LiveAttempt
<1>4. Evolves(st[r], new) /\ new \in RunState
  BY <1>1, <1>2, AttemptMoves DEF Evolves
<1>5. new.execution = "running" /\ new.attempt = a
  BY <1>1, <1>2, <1>3 DEF Start, AlreadyStarted, RunState
<1>6. st' = [st EXCEPT ![r] = new] /\ st \in [Run -> RunState]
  BY <1>1 DEF SaveRun, TypeOK
<1>7. st' \in [Run -> RunState] /\ event' \in [Run -> [Status -> Nat \cup {Never}]]
  BY <1>1, <1>4, SaveRunType
<1>8. /\ permit' = permit \cup {a}
      /\ permits \subseteq permits' /\ permits' \subseteq permits \cup {a}
      /\ UNCHANGED <<now, authority, admitted, info, owner, expiry, collection, observed,
                     offers, executed>>
  BY DEF EventStart
<1> HIDE DEF new
<1>9. TypeOK'
  BY <1>7, <1>8 DEF TypeOK, authority
<1>10. Frame
  <2>1. now <= now'
    BY <1>2, <1>8, SMT
  <2> QED
    BY <1>8, <2>1 DEF Frame
<1> QED
  BY <1>1, <1>3, <1>4, <1>5, <1>6, <1>8, <1>9, <1>10 DEF StartsRun

\* The recovery worker's two transactions, and a claim it lost between them.
LEMMA RecoveryStep ==
    ASSUME TypeOK, NEW r \in Run, Recovery(r)
    PROVE  TypeOK' /\ Frame /\ Quiet
<1>1. /\ now \in Nat /\ st \in [Run -> RunState] /\ admitted \subseteq Run
      /\ \A x \in Run : Moves(st[x], st[x])
  BY PlainMoves DEF TypeOK
<1>2. CASE RecoverObserve(r) \/ RecoverDrop(r)
  BY <1>1, <1>2, SMT
     DEF RecoverObserve, RecoverDrop, TypeOK, Frame, Quiet, authority, device
<1>3. CASE RecoverApply(r)
  <2>1. Moves(st[r], Recovered(r)) /\ Recovered(r) \in RunState
    BY <1>1, CompoundMoves DEF Moves, Evolves
  <2>2. SaveRun(r, Recovered(r))
    BY <1>3 DEF RecoverApply
  <2>3. st' \in [Run -> RunState] /\ event' \in [Run -> [Status -> Nat \cup {Never}]]
    BY <2>1, <2>2, SaveRunType
  <2>4. collection' \in [Attempt -> Sealed \cup {"none", "open"}]
    BY <1>3 DEF RecoverApply, AuditRecovery, Abandon, TypeOK, Sealed
  <2>5. \A x \in admitted : Moves(st[x], st'[x])
    BY <1>1, <2>1, <2>2 DEF SaveRun
  <2>6. /\ UNCHANGED <<now, authority, admitted, info, owner, expiry, permit, device>>
        /\ observed' = observed \ {r}
    BY <1>3 DEF RecoverApply
  <2> QED
    BY <1>1, <2>3, <2>4, <2>5, <2>6, SMT DEF TypeOK, Frame, Quiet, authority, device
<1> QED
  BY <1>2, <1>3 DEF Recovery

\* Retirement of a registration, by revocation or replacement.
LEMMA RetireStep ==
    ASSUME TypeOK, Revoke \/ Bind
    PROVE  TypeOK' /\ Frame /\ Quiet
<1>1. /\ now \in Nat /\ st \in [Run -> RunState] /\ admitted \subseteq Run
      /\ \A x \in Run : Moves(st[x], st[x]) /\ Moves(st[x], RetiredState(st[x]))
  BY PlainMoves, CompoundMoves DEF TypeOK
<1>2. \A s, t : Moves(s, t) => t \in RunState
  BY DEF Moves, Evolves
<1>3. ASSUME NEW reason \in Sealed, RetireWork(reason)
      PROVE  /\ st' \in [Run -> RunState]
             /\ collection' \in [Attempt -> Sealed \cup {"none", "open"}]
             /\ \A x \in admitted : Moves(st[x], st'[x])
  <2>1. \A x \in Run : Moves(st[x], st'[x])
    BY <1>1, <1>3 DEF RetireWork
  <2>2. st' = [x \in Run |-> st'[x]]
    BY <1>3 DEF RetireWork
  <2>3. st' \in [Run -> RunState]
    BY <1>2, <2>1, <2>2
  <2>4. collection' \in [Attempt -> Sealed \cup {"none", "open"}]
    <3>1. \A b \in Attempt : Abandon(collection, b, reason)[b] \in Sealed \cup {"none", "open"}
      BY <1>3 DEF TypeOK, Abandon, Sealed
    <3> QED
      BY <1>3, <3>1 DEF RetireWork, TypeOK
  <2> QED
    BY <1>1, <2>1, <2>3, <2>4
<1>4. CASE Revoke
  <2>1. RetireWork("revoked") /\ "revoked" \in Sealed
    BY <1>4 DEF Revoke, Sealed
  <2>2. /\ st' \in [Run -> RunState]
        /\ collection' \in [Attempt -> Sealed \cup {"none", "open"}]
        /\ \A x \in admitted : Moves(st[x], st'[x])
    BY <1>3, <2>1
  <2>3. /\ registered' \in BOOLEAN
        /\ UNCHANGED <<now, generation, enabled, eligible, member, version, admitted, info, owner,
                       expiry, permit, event, observed, device>>
    BY <1>4, ZenonT(40) DEF Revoke
  <2> QED
    BY <1>1, <2>2, <2>3, SMT DEF TypeOK, Frame, Quiet, device
<1>5. CASE Bind
  <2>1. /\ st' \in [Run -> RunState]
        /\ collection' \in [Attempt -> Sealed \cup {"none", "open"}]
        /\ \A x \in admitted : Moves(st[x], st'[x])
    <3>1. CASE registered
      BY <1>3, <1>5, <3>1 DEF Bind, Sealed
    <3>2. CASE ~registered
      BY <1>1, <1>5, <3>2 DEF Bind, TypeOK
    <3> QED
      BY <3>1, <3>2
  <2> QED
    BY <1>1, <1>5, <2>1, SMT DEF Bind, TypeOK, Frame, Quiet, device
<1> QED
  BY <1>4, <1>5

\* The transactions and events that touch no run: relay acceptance, replays, the device,
\* administrators and the clock.
LEMMA OtherStep ==
    ASSUME TypeOK,
           \/ \E a \in Attempt : ReplayClaim(a) \/ ReplayStart(a) \/ DeviceExecute(a)
           \/ \E r \in Run : RelayAccept(r)
           \/ \E p \in Policy : ChangeAuthority(p)
           \/ Tick
           \/ UNCHANGED vars
    PROVE  TypeOK' /\ Frame /\ Quiet
<1>1. /\ now \in Nat /\ st \in [Run -> RunState] /\ admitted \subseteq Run
      /\ \A x \in Run : Moves(st[x], st[x])
  BY PlainMoves DEF TypeOK
<1>2. CASE \E a \in Attempt : ReplayClaim(a) \/ ReplayStart(a) \/ DeviceExecute(a)
  <2>1. UNCHANGED <<now, authority, admitted, info, st, owner, expiry, permit, collection, event,
                    observed>>
    BY <1>2 DEF ReplayClaim, ReplayStart, DeviceExecute
  <2>2. /\ offers' \subseteq Attempt /\ permits' \subseteq Attempt /\ executed' \subseteq Attempt
        /\ permits \subseteq permits' /\ permits' \subseteq permits \cup permit
        /\ executed' \subseteq executed \cup permits
    BY <1>2 DEF ReplayClaim, ReplayStart, DeviceExecute, TypeOK
  <2>3. TypeOK'
    BY <2>1, <2>2 DEF TypeOK, authority
  <2>4. Frame
    BY <1>1, <2>1, <2>2, SMT DEF Frame
  <2> QED
    BY <1>1, <2>1, <2>3, <2>4 DEF Quiet
<1>3. CASE \E r \in Run : RelayAccept(r)
  <2>1. info' \in [Run -> RunInfo]
    <3>1. PICK r \in Run : info' = [info EXCEPT ![r].accepted = TRUE]
      BY <1>3, ZenonT(40) DEF RelayAccept
    <3>2. [info[r] EXCEPT !.accepted = TRUE] \in RunInfo
      <4>1. info[r] \in RunInfo
        BY DEF TypeOK
      <4> QED
        BY <4>1, ZenonT(40) DEF RunInfo
    <3>3. info' = [info EXCEPT ![r] = [info[r] EXCEPT !.accepted = TRUE]]
      BY <3>1
    <3> QED
      BY <3>2, <3>3 DEF TypeOK
  <2>2. UNCHANGED <<now, authority, admitted, st, owner, expiry, permit, collection, event,
                    observed, device>>
    BY <1>3 DEF RelayAccept
  <2>3. TypeOK'
    BY <2>1, <2>2 DEF TypeOK, authority, device
  <2> QED
    BY <1>1, <2>2, <2>3, SMT DEF Frame, Quiet, device
<1>4. CASE \E p \in Policy : ChangeAuthority(p)
  <2>0. PICK p \in Policy : ChangeAuthority(p)
    BY <1>4
  <2>1. /\ enabled' \subseteq Policy /\ eligible' \subseteq Policy /\ member' \subseteq Policy
        /\ version' \in [Policy -> Nat]
    <3>1. \A set \in SUBSET Policy : Flipped(set, p) \subseteq Policy
      BY DEF Flipped
    <3>2. [version EXCEPT ![p] = @ + 1] \in [Policy -> Nat]
      BY SMT DEF TypeOK
    <3> QED
      BY <2>0, <3>1, <3>2 DEF ChangeAuthority, TypeOK
  <2>2. UNCHANGED <<now, generation, registered, admitted, info, st, owner, expiry, permit,
                    collection, event, observed, device>>
    BY <2>0 DEF ChangeAuthority
  <2> QED
    BY <1>1, <2>1, <2>2, SMT DEF TypeOK, Frame, Quiet, device
<1>5. CASE Tick \/ UNCHANGED vars
  <2>1. /\ now' \in Nat /\ now <= now'
        /\ UNCHANGED <<authority, admitted, info, st, owner, expiry, permit, collection, event,
                       observed, device>>
    BY <1>1, <1>5, SMT DEF Tick, vars, authority, device
  <2>2. TypeOK'
    BY <2>1 DEF TypeOK, authority, device
  <2> QED
    BY <1>1, <2>1, <2>2 DEF Frame, Quiet, device
<1> QED
  BY <1>2, <1>3, <1>4, <1>5

\* Every step keeps the types and the frame, and is either quiet or one Start.
LEMMA NextSteps ==
    ASSUME TypeOK, [Next]_vars
    PROVE  /\ TypeOK' /\ Frame
           /\ Quiet \/ \E a \in Attempt, delivered \in BOOLEAN : EventStart(a, delivered)
<1>1. CASE ClaimAction
  BY <1>1, ClaimStep
<1>2. ASSUME NEW a \in Attempt, ActionEvent(a)
      PROVE  /\ TypeOK' /\ Frame
             /\ Quiet \/ \E b \in Attempt, delivered \in BOOLEAN : EventStart(b, delivered)
  <2>1. CASE \E delivered \in BOOLEAN : EventStart(a, delivered)
    BY <2>1, StartStep
  <2>2. CASE \/ EventReceived(a)
             \/ EventCancelled(a)
             \/ \E success, trusted \in BOOLEAN : EventResult(a, success, trusted)
    BY <2>2, EventStep
  <2> QED
    BY <1>2, <2>1, <2>2 DEF ActionEvent
<1>3. CASE \E r \in Run : Recovery(r)
  BY <1>3, RecoveryStep
<1>4. CASE Revoke \/ Bind
  BY <1>4, RetireStep
<1>5. CASE \/ \E a \in Attempt : ReplayClaim(a) \/ ReplayStart(a) \/ DeviceExecute(a)
           \/ \E r \in Run : RelayAccept(r)
           \/ \E p \in Policy : ChangeAuthority(p)
           \/ Tick
           \/ UNCHANGED vars
  BY <1>5, OtherStep
<1> QED
  BY <1>1, <1>2, <1>3, <1>4, <1>5 DEF Next

-----------------------------------------------------------------------------
(* At most one effect. *)

\* The inductive invariant: a stored permit fixes the attempt of its run, and the device
\* holds and has used only stored permits.
EffectInv ==
    /\ TypeOK
    /\ PermitIsCurrent
    /\ permits \subseteq permit /\ executed \subseteq permits

\* Nothing has been permitted or executed before the first poll.
LEMMA EffectInit == Init => EffectInv
  BY TypeInit DEF Init, EffectInv, PermitIsCurrent

\* A quiet step keeps every permit current; a Start adds one for the attempt it starts.
LEMMA EffectNext == EffectInv /\ [Next]_vars => EffectInv'
<1> SUFFICES ASSUME EffectInv, [Next]_vars PROVE EffectInv'
  OBVIOUS
<1>1. TypeOK
  BY DEF EffectInv
<1>2. TypeOK' /\ Frame
  BY <1>1, NextSteps
<1>3. \A b \in permit : /\ b \in Attempt /\ owner[b] \in admitted /\ owner[b] \in Run
                        /\ st[owner[b]].attempt = b /\ st[owner[b]].execution # "not_started"
                        /\ owner'[b] = owner[b] /\ owner[b] \in admitted'
  BY <1>1, <1>2, RunAssumption DEF EffectInv, PermitIsCurrent, TypeOK, Frame
<1>4. CASE Quiet
  <2>1. ASSUME NEW b \in permit'
        PROVE  /\ owner'[b] \in admitted'
               /\ st'[owner'[b]].attempt = b
               /\ st'[owner'[b]].execution # "not_started"
    <3>1. b \in permit /\ \A r \in admitted : Evolves(st[r], st'[r])
      BY <1>4, <2>1 DEF Quiet, Moves
    <3>2. /\ owner[b] \in admitted /\ owner'[b] = owner[b] /\ owner[b] \in admitted'
          /\ st[owner[b]].attempt = b /\ st[owner[b]].execution # "not_started"
      BY <1>3, <3>1
    <3>3. Evolves(st[owner[b]], st'[owner[b]])
      BY <3>1, <3>2
    <3> QED
      BY <3>2, <3>3 DEF Evolves
  <2>2. PermitIsCurrent'
    BY <2>1 DEF PermitIsCurrent
  <2> QED
    BY <1>2, <1>4, <2>2 DEF EffectInv, Frame, Quiet
<1>5. ASSUME NEW a \in Attempt, NEW delivered \in BOOLEAN, EventStart(a, delivered)
      PROVE  EffectInv'
  <2>1. /\ permit' = permit \cup {a} /\ owner[a] \in admitted
        /\ st[owner[a]].execution = "not_started"
        /\ st'[owner[a]].execution = "running" /\ st'[owner[a]].attempt = a
        /\ \A x \in Run : x # owner[a] => st'[x] = st[x]
    <3>1. StartsRun(a)
      BY <1>1, <1>5, StartStep
    <3> QED
      BY <3>1 DEF StartsRun
  <2>2. owner'[a] = owner[a] /\ owner[a] \in admitted'
    BY <1>1, <1>2, <2>1, RunAssumption DEF Frame, TypeOK
  <2>3. PermitIsCurrent'
    <3>1. ASSUME NEW b \in permit, b # a
          PROVE  /\ owner'[b] \in admitted'
                 /\ st'[owner'[b]].attempt = b
                 /\ st'[owner'[b]].execution # "not_started"
      BY <1>3, <2>1, <3>1, SMT
    <3> QED
      BY <2>1, <2>2, <3>1 DEF PermitIsCurrent
  <2> QED
    BY <1>2, <2>1, <2>3 DEF EffectInv, Frame
<1> QED
  BY <1>1, <1>4, <1>5, NextSteps

\* Type correctness of the task tables, the device and the authority.
THEOREM TypeCorrect == Spec => []TypeOK
<1>1. TypeOK /\ [Next]_vars => TypeOK'
  BY NextSteps
<1> QED
  BY <1>1, TypeInit, PTL DEF Spec

\* A stored start permit always names the current attempt of a started run.
THEOREM PermitsStayCurrent == Spec => []PermitIsCurrent
<1>1. EffectInv => PermitIsCurrent
  BY DEF EffectInv
<1> QED
  BY <1>1, EffectInit, EffectNext, PTL DEF Spec

\* No run has two effects on its device, whatever is lost, replayed, reclaimed or recovered.
THEOREM OneEffect == Spec => []AtMostOneEffect
<1>1. EffectInv => AtMostOneEffect
  BY SMT DEF EffectInv, PermitIsCurrent, AtMostOneEffect
<1> QED
  BY <1>1, EffectInit, EffectNext, PTL DEF Spec
-----------------------------------------------------------------------------
(* A delivery that has ended. *)

\* A step leaves an ended delivery ended, and without a permit.
LEMMA EndedStep ==
    ASSUME EffectInv, EffectInv', [Next]_vars, NEW r \in admitted, DeliveryEnded(r)
    PROVE  /\ DeliveryEnded(r)'
           /\ \A a \in Attempt : owner[a] = r => a \notin permit /\ a \notin permit'
<1>1. TypeOK /\ PermitIsCurrent /\ PermitIsCurrent'
  BY DEF EffectInv
<1>2. /\ Frame /\ now \in Nat /\ now' \in Nat /\ r \in Run
      /\ st[r] \in RunState /\ st'[r] \in RunState
      /\ Quiet \/ \E a \in Attempt, delivered \in BOOLEAN : EventStart(a, delivered)
  BY <1>1, NextSteps DEF TypeOK
<1>3. Moves(st[r], st'[r])
  <2>1. CASE Quiet
    BY <2>1 DEF Quiet
  <2>2. ASSUME NEW a \in Attempt, NEW delivered \in BOOLEAN, EventStart(a, delivered)
        PROVE  Moves(st[r], st'[r])
    <3>1. /\ st[owner[a]].cancellation = "none" /\ now < st[owner[a]].deadline
          /\ \A x \in Run : x # owner[a] => st'[x] = st[x]
      <4>1. StartsRun(a)
        BY <1>1, <2>2, StartStep
      <4> QED
        BY <4>1 DEF StartsRun
    <3>2. r # owner[a]
      <4>1. st[r].deadline \in Nat
        BY <1>2 DEF RunState
      <4>2. st[r].cancellation # "none" \/ st[r].deadline <= now
        BY DEF DeliveryEnded
      <4> QED
        BY <1>2, <3>1, <4>1, <4>2, SMT
    <3>3. Moves(st[r], st[r])
      BY <1>2, PlainMoves
    <3> QED
      BY <1>2, <3>1, <3>2, <3>3
  <2> QED
    BY <1>2, <2>1, <2>2
<1>4. DeliveryEnded(r)'
  <2>1. /\ st'[r].execution = "not_started" /\ st'[r].deadline = st[r].deadline
        /\ st[r].cancellation # "none" => st'[r].cancellation # "none"
    BY <1>3 DEF Moves, Evolves, DeliveryEnded
  <2>2. now <= now' /\ st[r].deadline \in Nat
    BY <1>2 DEF Frame, RunState
  <2>3. st[r].cancellation # "none" \/ st[r].deadline <= now
    BY DEF DeliveryEnded
  <2> QED
    BY <1>2, <2>1, <2>2, <2>3, SMT DEF DeliveryEnded
<1>5. ASSUME NEW a \in Attempt, owner[a] = r PROVE a \notin permit /\ a \notin permit'
  <2>1. owner'[a] = r
    BY <1>2, <1>5, RunAssumption DEF Frame
  <2>2. st[r].execution = "not_started" /\ st'[r].execution = "not_started"
    BY <1>4 DEF DeliveryEnded
  <2> QED
    BY <1>1, <1>5, <2>1, <2>2 DEF PermitIsCurrent
<1> QED
  BY <1>4, <1>5

\* What unmanage::delivery_ended relies on when it reports an uninstall as not started: an
\* unstarted task that was cancelled or has expired stays so, and no attempt of it ever had,
\* or gets, a start permit.
THEOREM EndedDeliveryStays == Spec => EndedDeliveryIsFinal
<1>1. EffectInv /\ EffectInv' /\ [Next]_vars =>
        [\A r \in admitted : DeliveryEnded(r) =>
            /\ DeliveryEnded(r)'
            /\ \A a \in Attempt : owner[a] = r => a \notin permit /\ a \notin permit']_vars
  BY EndedStep
<1> QED
  BY <1>1, EffectInit, EffectNext, PTL DEF Spec, EndedDeliveryIsFinal

-----------------------------------------------------------------------------
(* Registrations that were revoked or replaced. *)

Fenced(s) == s.cancellation # "none" \/ s.execution \in {"succeeded", "failed"}

\* A retired run is fenced.
LEMMA RetiredIsFenced == ASSUME NEW s \in RunState PROVE Fenced(RetiredState(s))
  BY DEF Fenced, RetiredState, Cancel, RunState, Execution, Cancellation

\* Apart from revocation and binding, no step makes a run stale, and new runs are current.
LEMMA StaleOnlyByRetirement ==
    ASSUME TypeOK, [Next]_vars, ~Revoke, ~Bind, NEW r \in admitted', Stale(r)'
    PROVE  r \in admitted /\ Stale(r)
<1>1. CASE ClaimAction
  <2>1. PICK fresh, delay :
            \/ ClaimNothing(fresh, delay)
            \/ \E passed, x, a, delivered : ClaimOffer(fresh, delay, passed, x, a, delivered)
    BY <1>1 DEF ClaimAction
  <2>2. \E passed, offered, a : Poll(fresh, delay, passed, offered, a)
    <3>1. CASE ClaimNothing(fresh, delay)
      BY <3>1 DEF ClaimNothing
    <3>2. ASSUME NEW passed, NEW x, NEW a, NEW delivered,
                 ClaimOffer(fresh, delay, passed, x, a, delivered)
          PROVE  Poll(fresh, delay, passed, {x}, a)
      BY <3>2 DEF ClaimOffer
    <3> QED
      BY <2>1, <3>1, <3>2
  <2>3. /\ registered /\ registered' = registered /\ generation' = generation
        /\ admitted' = admitted \cup fresh
        /\ info' = [x \in Run |-> IF x \in fresh THEN QueuedInfo(x, delay) ELSE info[x]]
    BY <2>2 DEF Poll, authority
  <2>4. r \in Run
    BY NextSteps DEF TypeOK
  <2> QED
    BY <2>3, <2>4 DEF Stale, QueuedInfo
<1>2. CASE \E x \in Run : RelayAccept(x)
  BY <1>2, SMT DEF RelayAccept, Stale, authority, TypeOK, RunInfo
<1>3. CASE UNCHANGED <<admitted, info, registered, generation>>
  BY <1>3 DEF Stale
<1>4. CASE \E a \in Attempt : ReplayClaim(a) \/ ReplayStart(a) \/ DeviceExecute(a)
  BY <1>3, <1>4 DEF ReplayClaim, ReplayStart, DeviceExecute, authority
<1>5. CASE \E a \in Attempt : ActionEvent(a)
  BY <1>3, <1>5 DEF ActionEvent, EventReceived, EventStart, EventCancelled, EventResult, authority
<1>6. CASE \E x \in Run : Recovery(x)
  BY <1>3, <1>6 DEF Recovery, RecoverObserve, RecoverApply, RecoverDrop, authority
<1>7. CASE (\E p \in Policy : ChangeAuthority(p)) \/ Tick \/ UNCHANGED vars
  BY <1>3, <1>7 DEF ChangeAuthority, Tick, authority, vars
<1> QED
  BY <1>1, <1>2, <1>4, <1>5, <1>6, <1>7 DEF Next

\* The fence is inductive.
LEMMA FenceNext == TypeOK /\ StaleRunsAreFenced /\ [Next]_vars => StaleRunsAreFenced'
<1> SUFFICES ASSUME TypeOK, StaleRunsAreFenced, [Next]_vars, NEW r \in admitted', Stale(r)'
             PROVE  Fenced(st'[r])
  BY DEF StaleRunsAreFenced, Fenced
<1>1. ASSUME r \in admitted, Stale(r) PROVE Fenced(st'[r])
  <2>1. Fenced(st[r])
    BY <1>1 DEF StaleRunsAreFenced, Fenced
  <2>2. Evolves(st[r], st'[r])
    <3>1. CASE Quiet
      BY <1>1, <3>1 DEF Quiet, Moves
    <3>2. ASSUME NEW a \in Attempt, NEW delivered \in BOOLEAN, EventStart(a, delivered)
          PROVE  Evolves(st[r], st'[r])
      <4>1. /\ Evolves(st[owner[a]], st'[owner[a]])
            /\ \A x \in Run : x # owner[a] => st'[x] = st[x]
        <5>1. StartsRun(a)
          BY <3>2, StartStep
        <5> QED
          BY <5>1 DEF StartsRun
      <4>2. r \in Run /\ Evolves(st[r], st[r])
        BY <1>1, PlainMoves DEF TypeOK, Moves
      <4> QED
        BY <4>1, <4>2
    <3> QED
      BY <3>1, <3>2, NextSteps
  <2> QED
    BY <2>1, <2>2 DEF Fenced, Evolves
<1>2. CASE ~Revoke /\ ~Bind
  BY <1>1, <1>2, StaleOnlyByRetirement
<1>3. CASE Revoke \/ Bind
  <2>1. r \in admitted /\ r \in Run
    BY <1>3 DEF Revoke, Bind, TypeOK
  <2>2. CASE Stale(r)
    BY <1>1, <2>1, <2>2
  <2>3. CASE ~Stale(r)
    <3>1. registered
      BY <2>3 DEF Stale
    <3>2. st' = [x \in Run |-> IF x \in admitted /\ ~Stale(x) THEN RetiredState(st[x]) ELSE st[x]]
      BY <1>3, <3>1 DEF Revoke, Bind, RetireWork
    <3>3. st'[r] = RetiredState(st[r]) /\ st[r] \in RunState
      BY <2>1, <2>3, <3>2 DEF TypeOK
    <3> QED
      BY <3>3, RetiredIsFenced
  <2> QED
    BY <2>2, <2>3
<1> QED
  BY <1>2, <1>3

\* Tasks of a registration that was revoked or replaced stay cancelled or settled, so that no
\* old task can be claimed, received or started (docs/architecture/enterprise-tasks.md:34).
THEOREM StaleRunsStayFenced == Spec => []StaleRunsAreFenced
<1>1. Init => StaleRunsAreFenced
  BY DEF Init, StaleRunsAreFenced
<1>2. TypeOK /\ [Next]_vars => TypeOK'
  BY NextSteps
<1> QED
  BY <1>1, <1>2, TypeInit, FenceNext, PTL DEF Spec
-----------------------------------------------------------------------------
(* Admission, and what a step writes about the runs that exist. *)

\* Every step moves an existing run as Evolves says.
LEMMA StepEvolves ==
    ASSUME TypeOK, [Next]_vars, NEW r \in admitted PROVE Evolves(st[r], st'[r])
<1>1. CASE Quiet
  BY <1>1 DEF Quiet, Moves
<1>2. ASSUME NEW a \in Attempt, NEW delivered \in BOOLEAN, EventStart(a, delivered)
      PROVE  Evolves(st[r], st'[r])
  <2>1. StartsRun(a)
    BY <1>2, StartStep
  <2>2. r \in Run /\ st[r] \in RunState /\ now \in Nat
    BY DEF TypeOK
  <2>3. Evolves(st[r], st[r])
    BY <2>2, PlainMoves DEF Moves
  <2> QED
    BY <2>1, <2>2, <2>3 DEF StartsRun
<1> QED
  BY <1>1, <1>2, NextSteps

\* The runs one poll inserts; the ones it leaves out of the table stay as they are.
Admits(fresh, delay) ==
    /\ fresh \subseteq Run \ admitted /\ \A r \in fresh : delay[r] \in Nat
    /\ registered /\ Admission(fresh, delay)
    /\ admitted' = admitted \cup fresh
    /\ info' = [r \in Run |-> IF r \in fresh THEN QueuedInfo(r, delay) ELSE info[r]]
    /\ \A r \in fresh : st'[r] = QueuedState(r, delay)
    /\ \A r \in Run \ admitted : r \notin fresh => st'[r] = st[r]
    /\ \A r \in Run \ admitted : event'[r] = event[r]
    /\ UNCHANGED <<now, generation, registered, observed, permit, permits, executed>>

\* claim_action inserts the runs of one admission.
LEMMA ClaimAdmits ==
    ASSUME TypeOK, ClaimAction PROVE \E fresh, delay : Admits(fresh, delay)
<1>0. PICK fresh \in SUBSET (Run \ admitted) : \E delay \in Delays(fresh) :
        \/ ClaimNothing(fresh, delay)
        \/ \E passed \in SUBSET Candidates, r \in Candidates, a \in Attempt,
              delivered \in BOOLEAN : ClaimOffer(fresh, delay, passed, r, a, delivered)
  BY DEF ClaimAction
<1>1. PICK delay \in Delays(fresh) :
        \/ ClaimNothing(fresh, delay)
        \/ \E passed \in SUBSET Candidates, r \in Candidates, a \in Attempt,
              delivered \in BOOLEAN : ClaimOffer(fresh, delay, passed, r, a, delivered)
  BY <1>0
<1>a. PICK passed \in SUBSET Candidates, offered \in SUBSET Candidates :
        \E a : Poll(fresh, delay, passed, offered, a)
  <2>1. CASE ClaimNothing(fresh, delay)
    <3>1. Poll(fresh, delay, Candidates, {}, NoAttempt)
      BY <2>1 DEF ClaimNothing
    <3>2. Candidates \in SUBSET Candidates /\ {} \in SUBSET Candidates
      OBVIOUS
    <3> QED
      BY <3>1, <3>2
  <2>2. ASSUME NEW passed \in SUBSET Candidates, NEW r \in Candidates, NEW a, NEW delivered,
               ClaimOffer(fresh, delay, passed, r, a, delivered)
        PROVE  Poll(fresh, delay, passed, {r}, a) /\ {r} \in SUBSET Candidates
    BY <2>2 DEF ClaimOffer
  <2> QED
    BY <1>1, <2>1, <2>2
<1>2. PICK a : Poll(fresh, delay, passed, offered, a)
  BY <1>a
<1>3. fresh \subseteq Run \ admitted /\ \A r \in fresh : delay[r] \in Nat
  BY BoundAssumption, SMT DEF Delays
<1>4. \A r \in Run \ admitted : r \notin passed /\ r \notin offered
  BY <1>2 DEF Candidates
<1>5. st' = [r \in Run |-> CASE r \in fresh   -> QueuedState(r, delay)
                              [] r \in passed  -> PassedOver(r)
                              [] r \in offered -> Claim(st[r], a, now)
                              [] OTHER         -> st[r]]
  BY <1>2 DEF Poll
<1>6. /\ \A r \in fresh : st'[r] = QueuedState(r, delay)
      /\ \A r \in Run \ admitted : r \notin fresh => st'[r] = st[r]
  BY <1>3, <1>4, <1>5, SMT
<1>7. \A r \in Run \ admitted : event'[r] = event[r]
  <2>1. event' = [r \in Run |-> IF r \in passed THEN Published(r, PassedOver(r)) ELSE event[r]]
    BY <1>2 DEF Poll
  <2> QED
    BY <1>4, <2>1
<1>8. /\ registered /\ Admission(fresh, delay)
      /\ admitted' = admitted \cup fresh
      /\ info' = [r \in Run |-> IF r \in fresh THEN QueuedInfo(r, delay) ELSE info[r]]
      /\ UNCHANGED <<now, generation, registered, observed, permit, permits, executed>>
  BY <1>2 DEF Poll, authority
<1> QED
  BY <1>3, <1>6, <1>7, <1>8 DEF Admits

\* save_run writes one run and its events.
LEMMA SaveRunWrites ==
    ASSUME TypeOK, NEW r \in Run, NEW new, SaveRun(r, new)
    PROVE  /\ st'[r] = new /\ event'[r] = Published(r, new)
           /\ \A x \in Run : x # r => st'[x] = st[x] /\ event'[x] = event[x]
<1>1. st \in [Run -> RunState] /\ event \in [Run -> [Status -> Nat \cup {Never}]]
  BY DEF TypeOK
<1> QED
  BY <1>1, SMT DEF SaveRun

\* A device report saves the run of its attempt; nothing else of the tables it reads changes.
LEMMA EventSaves ==
    ASSUME TypeOK, NEW a \in Attempt, ActionEvent(a)
    PROVE  /\ owner[a] \in admitted /\ ~Stale(owner[a])
           /\ \E new : SaveRun(owner[a], new)
           /\ UNCHANGED <<now, generation, registered, admitted, info, owner, observed, executed>>
<1>1. CASE EventReceived(a)
  BY <1>1 DEF EventReceived, Belongs, authority, device
<1>2. CASE \E delivered \in BOOLEAN : EventStart(a, delivered)
  BY <1>2 DEF EventStart, Belongs, authority
<1>3. CASE EventCancelled(a)
  BY <1>3 DEF EventCancelled, Belongs, authority, device
<1>4. CASE \E success, trusted \in BOOLEAN : EventResult(a, success, trusted)
  BY <1>4 DEF EventResult, Belongs, authority, device
<1> QED
  BY <1>1, <1>2, <1>3, <1>4 DEF ActionEvent

\* A transaction other than a poll inserts no run and leaves the missing ones alone.
Keeps ==
    /\ admitted' = admitted /\ observed' \subseteq admitted
    /\ \A r \in Run : info'[r].generation = info[r].generation
    /\ \A r \in Run \ admitted : st'[r] = st[r] /\ event'[r] = event[r]

\* Only the poll admits runs.
LEMMA OnlyPollsAdmit ==
    ASSUME TypeOK, observed \subseteq admitted, [Next]_vars, ~ClaimAction PROVE Keeps
<1>1. CASE UNCHANGED <<admitted, info, st, event, observed>>
  BY <1>1 DEF Keeps
<1>2. ASSUME NEW a \in Attempt, ReplayClaim(a) \/ ReplayStart(a) \/ DeviceExecute(a) PROVE Keeps
  BY <1>1, <1>2 DEF ReplayClaim, ReplayStart, DeviceExecute
<1>3. ASSUME NEW a \in Attempt, ActionEvent(a) PROVE Keeps
  <2>1. /\ owner[a] \in admitted /\ \E new : SaveRun(owner[a], new)
        /\ UNCHANGED <<admitted, info, observed>>
    BY <1>3, EventSaves
  <2>2. owner[a] \in Run
    BY <2>1 DEF TypeOK
  <2>3. \A x \in Run : x # owner[a] => st'[x] = st[x] /\ event'[x] = event[x]
    BY <2>1, <2>2, SaveRunWrites
  <2> QED
    BY <2>1, <2>3 DEF Keeps
<1>4. ASSUME NEW r \in Run, RelayAccept(r) PROVE Keeps
  <2>1. info' = [info EXCEPT ![r].accepted = TRUE] /\ UNCHANGED <<admitted, st, event, observed>>
    BY <1>4 DEF RelayAccept
  <2>2. \A x \in Run : info'[x].generation = info[x].generation
    BY <2>1, SMT DEF TypeOK, RunInfo
  <2> QED
    BY <2>1, <2>2 DEF Keeps
<1>5. ASSUME NEW r \in Run, Recovery(r) PROVE Keeps
  <2>1. CASE RecoverObserve(r)
    BY <2>1 DEF RecoverObserve, Active, Keeps
  <2>2. CASE RecoverDrop(r)
    BY <2>2 DEF RecoverDrop, Keeps
  <2>3. CASE RecoverApply(r)
    <3>1. /\ r \in admitted /\ SaveRun(r, Recovered(r))
          /\ UNCHANGED <<admitted, info>> /\ observed' = observed \ {r}
      BY <2>3 DEF RecoverApply
    <3>2. \A x \in Run : x # r => st'[x] = st[x] /\ event'[x] = event[x]
      BY <3>1, SaveRunWrites
    <3> QED
      BY <3>1, <3>2 DEF Keeps
  <2> QED
    BY <1>5, <2>1, <2>2, <2>3 DEF Recovery
<1>6. CASE Revoke \/ Bind
  <2>1. UNCHANGED <<admitted, info, event, observed>>
    BY <1>6 DEF Revoke, Bind
  <2>2. \A r \in Run \ admitted : st'[r] = st[r]
    BY <1>6 DEF Revoke, Bind, RetireWork
  <2> QED
    BY <2>1, <2>2 DEF Keeps
<1>7. CASE (\E p \in Policy : ChangeAuthority(p)) \/ Tick \/ UNCHANGED vars
  BY <1>1, <1>7 DEF ChangeAuthority, Tick, vars
<1> QED
  BY <1>2, <1>3, <1>4, <1>5, <1>6, <1>7 DEF Next

-----------------------------------------------------------------------------
(* Terminal policy events. *)

\* The events of a run tell its verdict.
Tells(e, s) ==
    /\ \A x \in {"succeeded", "failed"} : e[x] # Never <=> s.execution = x
    /\ e["cancelled"] # Never => s.cancellation # "none"

\* save_run keeps the events in step with the state it saves.
LEMMA PublishedTells ==
    ASSUME TypeOK, NEW r \in Run, NEW new, Evolves(st[r], new), Tells(event[r], st[r])
    PROVE  Tells(Published(r, new), new)
<1>1. now # Never
  BY SMT DEF TypeOK, Never
<1>2. /\ event[r] \in [Status -> Nat \cup {Never}]
      /\ {"succeeded", "failed", "cancelled"} = Status
  BY DEF TypeOK, Status
<1>3. /\ st[r].cancellation # "none" => new.cancellation # "none"
      /\ st[r].execution \in {"succeeded", "failed"} => new.execution = st[r].execution
  BY DEF Evolves
<1>4. CASE ~Publishes(st[r], new)
  <2>1. Published(r, new) = event[r]
    BY <1>4 DEF Published
  <2>2. ASSUME NEW x \in {"succeeded", "failed"} PROVE new.execution = x <=> st[r].execution = x
    BY <1>3, <1>4, <2>2 DEF Publishes, Terminal
  <2> QED
    BY <1>3, <2>1, <2>2 DEF Tells
<1>5. CASE Publishes(st[r], new)
  <2>1. Published(r, new) = [event[r] EXCEPT ![Terminal(new)] = now]
    BY <1>5 DEF Published
  <2>2. \A x \in Status : Published(r, new)[x] = IF x = Terminal(new) THEN now ELSE event[r][x]
    BY <1>2, <2>1, SMT
  <2>3. CASE new.execution \in {"succeeded", "failed"}
    <3>1. Terminal(new) = new.execution /\ st[r].execution \notin {"succeeded", "failed"}
      BY <1>3, <1>5, <2>3 DEF Terminal, Publishes
    <3>2. \A x \in {"succeeded", "failed"} : Published(r, new)[x] # Never <=> new.execution = x
      BY <1>1, <1>2, <2>2, <3>1 DEF Tells
    <3>3. Published(r, new)["cancelled"] = event[r]["cancelled"]
      BY <1>2, <2>2, <2>3, <3>1
    <3> QED
      BY <1>3, <3>2, <3>3 DEF Tells
  <2>4. CASE new.execution \notin {"succeeded", "failed"}
    <3>1. Terminal(new) = "cancelled" /\ new.cancellation = "confirmed"
      BY <1>5, <2>4 DEF Terminal, Publishes
    <3>2. ASSUME NEW x \in {"succeeded", "failed"}
          PROVE  Published(r, new)[x] = event[r][x] /\ st[r].execution # x /\ new.execution # x
      BY <1>2, <1>3, <2>2, <2>4, <3>1
    <3> QED
      BY <3>1, <3>2 DEF Tells
  <2> QED
    BY <2>3, <2>4
<1> QED
  BY <1>4, <1>5

\* A run is saved with its events, or neither its events nor its verdict change.
Told(r) ==
    \/ event'[r] = Published(r, st'[r])
    \/ event'[r] = event[r] /\ st'[r].execution = st[r].execution

\* Every writer of a run that may give it a verdict goes through save_run.
LEMMA StepTells ==
    ASSUME TypeOK, [Next]_vars, NEW r \in admitted PROVE Told(r)
<1>0. r \in Run
  BY DEF TypeOK
<1>1. CASE UNCHANGED <<st, event>>
  BY <1>1 DEF Told
<1>2. ASSUME NEW x \in Run, NEW new, SaveRun(x, new) PROVE Told(r)
  BY <1>0, <1>2, SaveRunWrites DEF Told
<1>3. CASE ClaimAction
  <2>a. PICK fresh \in SUBSET (Run \ admitted) : \E delay :
          \/ ClaimNothing(fresh, delay)
          \/ \E passed, x, a, delivered : ClaimOffer(fresh, delay, passed, x, a, delivered)
    BY <1>3 DEF ClaimAction
  <2>0. PICK delay :
          \/ ClaimNothing(fresh, delay)
          \/ \E passed, x, a, delivered : ClaimOffer(fresh, delay, passed, x, a, delivered)
    BY <2>a
  <2>1. PICK passed, offered, a :
          offered \cap passed = {} /\ Poll(fresh, delay, passed, offered, a)
    <3>1. CASE ClaimNothing(fresh, delay)
      BY <3>1 DEF ClaimNothing
    <3>2. ASSUME NEW passed, NEW x, NEW a, NEW delivered,
                 ClaimOffer(fresh, delay, passed, x, a, delivered)
          PROVE  {x} \cap passed = {} /\ Poll(fresh, delay, passed, {x}, a)
      BY <3>2 DEF ClaimOffer
    <3> QED
      BY <2>0, <3>1, <3>2
  <2>2. st' = [x \in Run |-> CASE x \in fresh   -> QueuedState(x, delay)
                               [] x \in passed  -> PassedOver(x)
                               [] x \in offered -> Claim(st[x], a, now)
                               [] OTHER         -> st[x]]
    BY <2>1 DEF Poll
  <2>3. event' = [x \in Run |-> IF x \in passed THEN Published(x, PassedOver(x)) ELSE event[x]]
    BY <2>1 DEF Poll
  <2>4. r \notin fresh
    BY <2>0
  <2>5. CASE r \in passed
    <3>1. r \notin offered
      BY <2>1, <2>5
    <3>2. st'[r] = PassedOver(r)
      BY <1>0, <2>2, <2>4, <2>5, <3>1, SMT
    <3> QED
      BY <1>0, <2>3, <2>5, <3>2 DEF Told
  <2>6. CASE r \notin passed
    <3>1. st'[r] = st[r] \/ st'[r] = Claim(st[r], a, now)
      BY <1>0, <2>2, <2>4, <2>6, SMT
    <3>2. st[r] \in RunState
      BY <1>0 DEF TypeOK
    <3>3. Claim(st[r], a, now).execution = st[r].execution
      BY <3>2, SMT DEF Claim, RunState
    <3> QED
      BY <1>0, <2>3, <2>6, <3>1, <3>3 DEF Told
  <2> QED
    BY <2>5, <2>6
<1>4. ASSUME NEW a \in Attempt, ReplayClaim(a) \/ ReplayStart(a) \/ DeviceExecute(a) PROVE Told(r)
  BY <1>1, <1>4 DEF ReplayClaim, ReplayStart, DeviceExecute
<1>5. ASSUME NEW a \in Attempt, ActionEvent(a) PROVE Told(r)
  <2>1. owner[a] \in admitted /\ \E new : SaveRun(owner[a], new)
    BY <1>5, EventSaves
  <2> QED
    BY <1>2, <2>1 DEF TypeOK
<1>6. ASSUME NEW x \in Run, RelayAccept(x) \/ RecoverObserve(x) \/ RecoverDrop(x) PROVE Told(r)
  BY <1>1, <1>6 DEF RelayAccept, RecoverObserve, RecoverDrop
<1>7. ASSUME NEW x \in Run, RecoverApply(x) PROVE Told(r)
  BY <1>2, <1>7 DEF RecoverApply
<1>8. CASE Revoke \/ Bind
  <2>1. event' = event
    BY <1>8 DEF Revoke, Bind
  <2>2. RetiredState(st[r]).execution = st[r].execution
    BY <1>0, SMT DEF RetiredState, Cancel, TypeOK, RunState
  <2>3. st'[r] = st[r] \/ st'[r] = RetiredState(st[r])
    BY <1>0, <1>8 DEF Revoke, Bind, RetireWork
  <2> QED
    BY <2>1, <2>2, <2>3 DEF Told
<1>9. CASE (\E p \in Policy : ChangeAuthority(p)) \/ Tick \/ UNCHANGED vars
  BY <1>1, <1>9 DEF ChangeAuthority, Tick, vars
<1> QED
  BY <1>3, <1>4, <1>5, <1>6, <1>7, <1>8, <1>9 DEF Next, Recovery

\* Nothing is recorded about a run that does not exist.
Unwritten(s, e) == s = New(0) /\ \A x \in Status : e[x] = Never

\* The inductive invariant of the run table: the worker holds only runs that exist, a running
\* run is not confirmed cancelled, its events tell its verdict, and nothing is recorded about
\* a run before it is admitted.
TableInv ==
    /\ TypeOK
    /\ observed \subseteq admitted
    /\ \A r \in admitted : Coherent(st[r]) /\ Tells(event[r], st[r])
    /\ \A r \in Run \ admitted : Unwritten(st[r], event[r])

\* The tables are empty at first.
LEMMA TableInit == Init => TableInv
<1> SUFFICES ASSUME Init PROVE TableInv
  OBVIOUS
<1>1. TypeOK /\ admitted = {} /\ observed = {}
  BY TypeInit DEF Init
<1>2. \A r \in Run : Unwritten(st[r], event[r])
  BY DEF Init, Unwritten
<1> QED
  BY <1>1, <1>2 DEF TableInv

\* An inserted run is coherent and has no events.
LEMMA QueuedTells ==
    ASSUME NEW r, NEW delay, NEW s, NEW e, Unwritten(s, e)
    PROVE  Coherent(QueuedState(r, delay)) /\ Tells(e, QueuedState(r, delay))
<1>1. /\ QueuedState(r, delay).execution = "not_started"
      /\ QueuedState(r, delay).cancellation = "none"
  BY SMT DEF QueuedState, New
<1> QED
  BY <1>1 DEF Coherent, Tells, Unwritten, Status

\* Every step keeps the table.
LEMMA TableNext == TableInv /\ [Next]_vars => TableInv'
<1> SUFFICES ASSUME TableInv, [Next]_vars PROVE TableInv'
  OBVIOUS
<1>1. TypeOK /\ TypeOK' /\ admitted \subseteq Run
  BY NextSteps DEF TableInv, TypeOK
<1>2. ASSUME NEW r \in admitted PROVE Coherent(st'[r]) /\ Tells(event'[r], st'[r])
  <2>1. Coherent(st[r]) /\ Tells(event[r], st[r]) /\ r \in Run
    BY <1>1, <1>2 DEF TableInv
  <2>2. Evolves(st[r], st'[r]) /\ Told(r)
    BY <1>1, StepEvolves, StepTells
  <2>3. Coherent(st'[r])
    BY <2>1, <2>2 DEF Evolves
  <2>4. CASE event'[r] = Published(r, st'[r])
    BY <1>1, <2>1, <2>2, <2>3, <2>4, PublishedTells
  <2>5. CASE event'[r] = event[r] /\ st'[r].execution = st[r].execution
    BY <2>1, <2>2, <2>3, <2>5 DEF Tells, Evolves
  <2> QED
    BY <2>2, <2>3, <2>4, <2>5 DEF Told
<1>3. CASE ClaimAction
  <2>1. PICK fresh, delay : Admits(fresh, delay)
    BY <1>1, <1>3, ClaimAdmits
  <2>2. /\ fresh \subseteq Run \ admitted /\ admitted' = admitted \cup fresh /\ observed' = observed
        /\ \A r \in fresh : st'[r] = QueuedState(r, delay)
        /\ \A r \in Run \ admitted : r \notin fresh => st'[r] = st[r]
        /\ \A r \in Run \ admitted : event'[r] = event[r]
    BY <2>1 DEF Admits
  <2>3. \A r \in fresh : Coherent(st'[r]) /\ Tells(event'[r], st'[r])
    BY <2>2, QueuedTells DEF TableInv
  <2>4. \A r \in Run \ admitted' : Unwritten(st'[r], event'[r])
    BY <2>2 DEF TableInv
  <2> QED
    BY <1>1, <1>2, <2>2, <2>3, <2>4 DEF TableInv
<1>4. CASE ~ClaimAction
  <2>1. Keeps
    BY <1>1, <1>4, OnlyPollsAdmit DEF TableInv
  <2> QED
    BY <1>1, <1>2, <2>1 DEF TableInv, Keeps
<1> QED
  BY <1>3, <1>4

\* A success or failure event exists exactly for the runs that ended that way, and a
\* cancellation is announced only for a run whose cancellation was begun.
THEOREM EventsAreTrue == Spec => []EventsTellTheVerdict
<1>1. TableInv => EventsTellTheVerdict
  BY DEF TableInv, Tells, EventsTellTheVerdict
<1> QED
  BY <1>1, TableInit, TableNext, PTL DEF Spec
-----------------------------------------------------------------------------
(* One pending run of a write policy, and the limit on active runs. *)

\* A run that cannot act on the device any more never can again.
LEMMA StopsForGood ==
    ASSUME TypeOK, [Next]_vars, NEW r \in admitted, MayAct(r)' PROVE MayAct(r)
<1>1. /\ r \in Run /\ st[r] \in RunState /\ st'[r] \in RunState
      /\ now \in Nat /\ now' \in Nat /\ now <= now'
  BY NextSteps DEF TypeOK, Frame
<1>2. Evolves(st[r], st'[r])
  BY StepEvolves
<1>3. /\ st[r].deadline = st'[r].deadline
      /\ Acts(st'[r]) => Acts(st[r])
      /\ st[r].execution # "not_started" => st'[r].execution # "not_started"
  BY <1>2 DEF Evolves
<1>4. Acts(st'[r])
  BY DEF MayAct, Acts
<1>5. CASE st[r].execution \in {"running", "unknown"}
  BY <1>5 DEF MayAct
<1>6. CASE st[r].execution = "not_started" /\ st'[r].execution = "not_started"
  <2>1. now' < st'[r].deadline
    BY <1>6 DEF MayAct
  <2>2. now < st[r].deadline
    BY <1>1, <1>3, <2>1, SMT DEF RunState
  <2> QED
    BY <1>3, <1>4, <1>6, <2>2 DEF Acts, MayAct
<1>7. CASE st[r].execution = "not_started" /\ st'[r].execution # "not_started"
  <2>1. ~Quiet
    BY <1>7 DEF Quiet, Moves
  <2>2. PICK a \in Attempt, delivered \in BOOLEAN : EventStart(a, delivered)
    BY <2>1, NextSteps
  <2>3. StartsRun(a)
    BY <2>2, StartStep
  <2>4. owner[a] = r
    BY <1>1, <1>7, <2>3 DEF StartsRun
  <2>5. st[r].cancellation = "none" /\ now < st[r].deadline
    BY <2>3, <2>4 DEF StartsRun
  <2> QED
    BY <1>7, <2>5 DEF MayAct
<1> QED
  BY <1>3, <1>4, <1>5, <1>6, <1>7 DEF Acts

\* A run that may act holds its policy back.
LEMMA ActingBlocks ==
    ASSUME NEW r, Coherent(st[r]), ~ReadOnly(PolicyOf[r]), MayAct(r) PROVE Blocks(r)
  BY DEF MayAct, Blocks, Coherent

\* An admission finds no run of its policy and registration that may still act.
LEMMA AdmittedAlone ==
    ASSUME TableInv, NEW fresh, NEW delay, Admits(fresh, delay), NEW x \in fresh, NEW y \in admitted,
           PolicyOf[x] = PolicyOf[y], info[y].generation = generation, ~ReadOnly(PolicyOf[y])
    PROVE  ~MayAct(y)
<1>1. ~PolicyPending(PolicyOf[x])
  BY DEF Admits, Admission, Admissible
<1>2. ~Blocks(y)
  BY <1>1 DEF PolicyPending
<1> QED
  BY <1>2, ActingBlocks DEF TableInv

\* The pending run of a policy stays alone.
LEMMA PendingNext == TableInv /\ OnePendingRun /\ [Next]_vars => OnePendingRun'
<1> SUFFICES ASSUME TableInv, OnePendingRun, [Next]_vars, NEW x \in admitted', NEW y \in admitted',
                    PolicyOf[x] = PolicyOf[y], ~ReadOnly(PolicyOf[x]),
                    info'[x].generation = info'[y].generation, MayAct(x)', MayAct(y)'
             PROVE  x = y
  BY DEF OnePendingRun
<1>1. TypeOK
  BY DEF TableInv
<1>2. ASSUME x \in admitted, y \in admitted, info[x].generation = info[y].generation PROVE x = y
  <2>1. MayAct(x) /\ MayAct(y)
    BY <1>1, <1>2, StopsForGood
  <2> QED
    BY <1>2, <2>1 DEF OnePendingRun
<1>3. CASE ClaimAction
  <2>1. PICK fresh, delay : Admits(fresh, delay)
    BY <1>1, <1>3, ClaimAdmits
  <2>2. /\ fresh \subseteq Run \ admitted /\ admitted' = admitted \cup fresh /\ admitted \subseteq Run
        /\ info' = [r \in Run |-> IF r \in fresh THEN QueuedInfo(r, delay) ELSE info[r]]
    BY <1>1, <2>1 DEF Admits, TypeOK
  <2>3. \A r \in admitted : info'[r] = info[r]
    BY <2>2
  <2>4. \A r \in fresh : info'[r].generation = generation
    <3>1. \A r \in fresh : info'[r] = QueuedInfo(r, delay)
      BY <2>2
    <3>2. \A r : QueuedInfo(r, delay).generation = generation
      BY SMT DEF QueuedInfo
    <3> QED
      BY <3>1, <3>2
  <2>5. CASE x \in fresh /\ y \in fresh
    BY <2>1, <2>5 DEF Admits, Admission
  <2>6. ASSUME NEW f \in fresh, NEW r \in admitted, MayAct(r)', PolicyOf[f] = PolicyOf[r],
               ~ReadOnly(PolicyOf[r]), info'[f].generation = info'[r].generation
        PROVE  FALSE
    <3>1. MayAct(r)
      BY <1>1, <2>6, StopsForGood
    <3>2. info[r].generation = generation
      BY <2>3, <2>4, <2>6
    <3> QED
      BY <2>1, <2>6, <3>1, <3>2, AdmittedAlone
  <2>7. CASE x \in admitted /\ y \in admitted
    BY <1>2, <2>3, <2>7
  <2> QED
    BY <2>2, <2>5, <2>6, <2>7
<1>4. CASE ~ClaimAction
  <2>1. Keeps
    BY <1>1, <1>4, OnlyPollsAdmit DEF TableInv
  <2> QED
    BY <1>1, <1>2, <2>1 DEF Keeps, TypeOK
<1> QED
  BY <1>3, <1>4

\* In one registration a write policy never has two runs that may still act on the device:
\* policy_pending_in admits the next one only when the effect of the last is settled.
THEOREM OneRunIsPending == Spec => []OnePendingRun
<1>1. Init => OnePendingRun
  BY DEF Init, OnePendingRun
<1> QED
  BY <1>1, TableInit, TableNext, PendingNext, PTL DEF Spec

\* A poll inserts at most one run for each policy, so finitely many.
LEMMA AdmissionIsFinite ==
    ASSUME NEW fresh, NEW delay, Admits(fresh, delay) PROVE IsFiniteSet(fresh)
<1> DEFINE f == [r \in fresh |-> PolicyOf[r]]
<1>1. /\ fresh \subseteq Run
      /\ \A x, y \in fresh : PolicyOf[x] = PolicyOf[y] => x = y
  BY DEF Admits, Admission
<1>2. f \in [fresh -> Policy]
  BY <1>1, PolicyAssumption, SMT
<1>3. f \in Injection(fresh, Policy)
  BY <1>1, <1>2 DEF Injection, IsInjective
<1> QED
  BY <1>3, FS_Injection, PolicyAssumption

\* An existing run that is not active never becomes active again.
LEMMA InactiveForGood ==
    ASSUME TableInv, [Next]_vars, NEW r \in admitted, r \in ActiveRuns' PROVE r \in ActiveRuns
<1>1. TypeOK /\ Coherent(st[r])
  BY DEF TableInv
<1>2. /\ now \in Nat /\ now' \in Nat /\ now <= now' /\ st[r] \in RunState /\ st'[r] \in RunState
  BY <1>1, NextSteps DEF TypeOK, Frame
<1>3. Evolves(st[r], st'[r])
  BY <1>1, StepEvolves
<1>4. Open(st'[r]) /\ now' < st'[r].deadline
  BY DEF ActiveRuns, Open
<1>5. Open(st[r]) /\ st[r].deadline = st'[r].deadline
  BY <1>1, <1>3, <1>4 DEF Evolves
<1>6. now < st[r].deadline
  BY <1>2, <1>4, <1>5, SMT DEF RunState
<1> QED
  BY <1>5, <1>6 DEF ActiveRuns, Open

BoundInv == IsFiniteSet(admitted) /\ ActiveRunsBounded

\* Every step keeps the device within its limit.
LEMMA BoundNext == TableInv /\ BoundInv /\ [Next]_vars => BoundInv'
<1> SUFFICES ASSUME TableInv, BoundInv, [Next]_vars PROVE BoundInv'
  OBVIOUS
<1>1. /\ TypeOK /\ IsFiniteSet(admitted) /\ MaxActive \in Nat
      /\ Cardinality(ActiveRuns) <= MaxActive
  BY BoundAssumption DEF TableInv, BoundInv, ActiveRunsBounded
<1>2. ActiveRuns \in SUBSET admitted /\ ActiveRuns' \in SUBSET admitted'
  BY DEF ActiveRuns
<1>3. IsFiniteSet(ActiveRuns) /\ Cardinality(ActiveRuns) \in Nat
  BY <1>1, <1>2, FS_Subset, FS_CardinalityType
<1>4. \A r \in admitted : r \in ActiveRuns' => r \in ActiveRuns
  BY InactiveForGood
<1>5. ASSUME admitted' = admitted PROVE BoundInv'
  <2>1. ActiveRuns' \in SUBSET ActiveRuns
    BY <1>2, <1>4, <1>5
  <2>2. Cardinality(ActiveRuns') <= Cardinality(ActiveRuns) /\ Cardinality(ActiveRuns') \in Nat
    BY <1>3, <2>1, FS_Subset, FS_CardinalityType
  <2>3. Cardinality(ActiveRuns') <= MaxActive
    BY <1>1, <1>3, <2>2, SMT
  <2> QED
    BY <1>1, <1>5, <2>3 DEF BoundInv, ActiveRunsBounded
<1>6. CASE ClaimAction
  <2>1. PICK fresh, delay : Admits(fresh, delay)
    BY <1>1, <1>6, ClaimAdmits
  <2>2. /\ admitted' = admitted \cup fresh
        /\ fresh # {} => Cardinality(ActiveRuns) + Cardinality(fresh) <= MaxActive
    BY <2>1 DEF Admits, Admission
  <2>3. CASE fresh = {}
    BY <1>5, <2>2, <2>3
  <2>4. CASE fresh # {}
    <3>1. IsFiniteSet(fresh) /\ Cardinality(fresh) \in Nat
      BY <2>1, AdmissionIsFinite, FS_CardinalityType
    <3>2. ActiveRuns' \in SUBSET (ActiveRuns \cup fresh)
      BY <1>2, <1>4, <2>2
    <3>3. /\ IsFiniteSet(ActiveRuns \cup fresh)
          /\ Cardinality(ActiveRuns \cup fresh) =
                Cardinality(ActiveRuns) + Cardinality(fresh) - Cardinality(ActiveRuns \cap fresh)
      BY <1>3, <3>1, FS_Union
    <3>4. ActiveRuns \cap fresh \in SUBSET fresh
      OBVIOUS
    <3>5. Cardinality(ActiveRuns \cap fresh) \in Nat
      BY <3>1, <3>4, FS_Subset, FS_CardinalityType
    <3>6. /\ Cardinality(ActiveRuns') <= Cardinality(ActiveRuns \cup fresh)
          /\ Cardinality(ActiveRuns') \in Nat
      BY <3>2, <3>3, FS_Subset, FS_CardinalityType
    <3>7. Cardinality(ActiveRuns') <= MaxActive
      BY <1>1, <1>3, <2>2, <2>4, <3>1, <3>3, <3>5, <3>6, SMT
    <3>8. IsFiniteSet(admitted')
      BY <1>1, <2>2, <3>1, FS_Union
    <3> QED
      BY <3>7, <3>8 DEF BoundInv, ActiveRunsBounded
  <2> QED
    BY <2>3, <2>4
<1>7. CASE ~ClaimAction
  BY <1>1, <1>5, <1>7, OnlyPollsAdmit DEF TableInv, Keeps
<1> QED
  BY <1>6, <1>7

\* The device never has more than MaxActive open runs, also when one poll admits several.
THEOREM ActiveRunsStayBounded == Spec => []ActiveRunsBounded
<1>1. Init => BoundInv
  <2> SUFFICES ASSUME Init PROVE BoundInv
    OBVIOUS
  <2>1. admitted = {} /\ ActiveRuns = {}
    BY DEF Init, ActiveRuns
  <2>2. 0 <= MaxActive
    BY BoundAssumption, SMT
  <2> QED
    BY <2>1, <2>2, FS_EmptySet DEF BoundInv, ActiveRunsBounded
<1>2. BoundInv => ActiveRunsBounded
  BY DEF BoundInv
<1> QED
  BY <1>1, <1>2, TableInit, TableNext, BoundNext, PTL DEF Spec
-----------------------------------------------------------------------------
(* Collections. *)

\* The attempt may still deliver the collection report of its run.
Current(a) ==
    LET r == owner[a]
    IN  /\ r \in admitted /\ HasCollection(r)
        /\ st[r].attempt = a
        /\ st[r].execution \in {"not_started", "running"}
        /\ st[r].cancellation = "none"
        /\ ~Stale(r)

\* The inductive invariant: an open row belongs to a current attempt of a collection run,
\* and only issued attempts have rows.
CollectionInv ==
    /\ TypeOK
    /\ \A a \in Attempt : /\ collection[a] = "open" => Current(a)
                          /\ collection[a] # "none" => owner[a] # NoRun

\* What a step may do to the row of attempt a.
RowStep(a) ==
    /\ collection'[a] = "open" => Current(a)'
    /\ collection'[a] # "none" => owner'[a] # NoRun
    /\ collection[a] \in {"complete", "revoked", "superseded"} => collection'[a] = collection[a]
    /\ collection[a] = "timeout" => collection'[a] \in {"timeout", "complete"}

\* A run keeps what makes its attempt current.
SameRun(r) ==
    /\ r \in admitted'
    /\ st'[r].attempt = st[r].attempt /\ st'[r].cancellation = st[r].cancellation
    /\ st[r].execution \in {"not_started", "running"} =>
           st'[r].execution \in {"not_started", "running"}
    /\ Stale(r)' => Stale(r)

\* A row that is left alone, with a run that stays as it is.
LEMMA RowKept ==
    ASSUME CollectionInv, NEW a \in Attempt, collection'[a] = collection[a], owner'[a] = owner[a],
           collection[a] = "open" => SameRun(owner[a])
    PROVE  RowStep(a)
<1>1. collection[a] # "none" => owner'[a] # NoRun
  BY DEF CollectionInv
<1>2. ASSUME collection[a] = "open" PROVE Current(a)'
  <2>1. Current(a) /\ SameRun(owner[a])
    BY <1>2 DEF CollectionInv
  <2> QED
    BY <2>1 DEF Current, SameRun, HasCollection
<1> QED
  BY <1>1, <1>2 DEF RowStep

\* A row that is sealed.
LEMMA RowSealed ==
    ASSUME CollectionInv, NEW a \in Attempt, collection[a] = "open", owner'[a] = owner[a],
           collection'[a] \in Sealed
    PROVE  RowStep(a)
  BY DEF CollectionInv, RowStep, Sealed

\* Abandoning one attempt seals its open row and touches no other.
LEMMA AbandonSeals ==
    ASSUME TypeOK, NEW a \in Attempt, NEW x, NEW reason
    PROVE  Abandon(collection, x, reason)[a] =
               IF a = x /\ collection[a] = "open" THEN reason ELSE collection[a]
  BY SMT DEF TypeOK, Abandon

\* Device reports.
LEMMA EventRows ==
    ASSUME CollectionInv, NEW a \in Attempt, ActionEvent(a), NEW b \in Attempt
    PROVE  RowStep(b)
<1> DEFINE r == owner[a]
<1>0. TypeOK /\ r \in admitted /\ r \in Run /\ ~Stale(r)
      /\ UNCHANGED <<generation, registered, admitted, info, owner>>
  BY EventSaves DEF CollectionInv, TypeOK
<1>1. \A x : Stale(x)' => Stale(x)
  BY <1>0 DEF Stale
<1>2. st[r] \in RunState /\ now \in Nat
  BY <1>0 DEF TypeOK
<1>3. \A x \in admitted : x # r => SameRun(x)
  <2>1. \A x \in Run : x # r => st'[x] = st[x]
    <3>1. PICK new : SaveRun(r, new)
      BY <1>0, EventSaves
    <3> QED
      BY <1>0, <3>1, SaveRunWrites
  <2>2. admitted \subseteq Run /\ admitted' = admitted
    BY <1>0 DEF TypeOK
  <2> QED
    BY <1>1, <2>1, <2>2 DEF SameRun
<1>4. CASE EventReceived(a)
  <2>1. SaveRun(r, Received(st[r])) /\ collection' = collection
    BY <1>4 DEF EventReceived
  <2>2. st'[r] = Received(st[r])
    BY <1>0, <2>1, SaveRunWrites
  <2>3. /\ st'[r].attempt = st[r].attempt /\ st'[r].cancellation = st[r].cancellation
        /\ st'[r].execution = st[r].execution
    BY <1>2, <2>2, SMT DEF Received, RunState
  <2>4. SameRun(r)
    BY <1>0, <1>1, <2>3 DEF SameRun
  <2> QED
    BY <1>0, <1>3, <2>1, <2>4, RowKept DEF CollectionInv, Current
<1>5. CASE \E delivered \in BOOLEAN : EventStart(a, delivered)
  <2>1. SaveRun(r, Start(st[r], a, now)) /\ collection' = collection
    BY <1>5 DEF EventStart
  <2>2. st'[r] = Start(st[r], a, now)
    BY <1>0, <2>1, SaveRunWrites
  <2>3. /\ st'[r].attempt = st[r].attempt /\ st'[r].cancellation = st[r].cancellation
        /\ st'[r].execution \in {"running", st[r].execution}
    BY <1>2, <2>2, SMT DEF Start, RunState
  <2>4. SameRun(r)
    BY <1>0, <1>1, <2>3 DEF SameRun
  <2> QED
    BY <1>0, <1>3, <2>1, <2>4, RowKept DEF CollectionInv, Current
<1>6. ASSUME st[r].attempt = a, b # a, collection'[b] = collection[b] PROVE RowStep(b)
  <2>1. collection[b] = "open" => owner[b] \in admitted /\ owner[b] # r
    BY <1>6 DEF CollectionInv, Current
  <2> QED
    BY <1>0, <1>3, <1>6, <2>1, RowKept
<1>7. CASE EventCancelled(a)
  <2>1. collection' = Abandon(collection, a, "revoked") /\ CanCancelled(Cancel(st[r]), a)
    BY <1>7 DEF EventCancelled
  <2>2. collection'[b] = IF b = a /\ collection[b] = "open" THEN "revoked" ELSE collection[b]
    BY <1>0, <2>1, AbandonSeals
  <2>3. st[r].attempt = a
    BY <1>2, <2>1, SMT DEF CanCancelled, Cancel, RunState
  <2>4. CASE b = a /\ collection[b] = "open"
    BY <1>0, <2>2, <2>4, RowSealed DEF Sealed
  <2>5. CASE b = a /\ collection[b] # "open"
    BY <1>0, <2>2, <2>5, RowKept
  <2> QED
    BY <1>6, <2>2, <2>3, <2>4, <2>5
<1>8. ASSUME NEW success \in BOOLEAN, NEW trusted \in BOOLEAN, EventResult(a, success, trusted)
      PROVE  RowStep(b)
  <2>1. /\ collection' = IF HasCollection(r) THEN Accept(collection, a, trusted) ELSE collection
        /\ st[r].attempt = a
    BY <1>8 DEF EventResult, CanReport
  <2>2. b # a => collection'[b] = collection[b]
    BY <1>0, <2>1, SMT DEF Accept, TypeOK
  <2>3. CASE b = a /\ collection[a] = "open"
    <3>1. HasCollection(r)
      BY <2>3 DEF CollectionInv, Current
    <3>2. collection'[a] = "complete"
      BY <1>0, <2>1, <2>3, <3>1, SMT DEF Accept, TypeOK
    <3> QED
      BY <1>0, <2>3, <3>2, RowSealed DEF Sealed
  <2>4. CASE b = a /\ collection[a] # "open"
    <3>1. \/ collection'[a] = collection[a]
          \/ collection[a] = "timeout" /\ collection'[a] = "complete"
      BY <1>0, <2>1, <2>4, SMT DEF Accept, TypeOK
    <3>2. CASE collection'[a] = collection[a]
      BY <1>0, <2>4, <3>2, RowKept
    <3>3. CASE collection[a] = "timeout" /\ collection'[a] = "complete"
      BY <1>0, <2>4, <3>3 DEF CollectionInv, RowStep
    <3> QED
      BY <3>1, <3>2, <3>3
  <2> QED
    BY <1>6, <2>1, <2>2, <2>3, <2>4
<1> QED
  BY <1>4, <1>5, <1>7, <1>8 DEF ActionEvent

\* recover_one keeps the attempt; a run it neither cancels nor gives up is unchanged.
LEMMA RecoveredKeeps ==
    ASSUME NEW r, st[r] \in RunState
    PROVE  /\ Recovered(r).attempt = st[r].attempt
           /\ Recovered(r).cancellation = "none" /\ Recovered(r).execution # "unknown" =>
                  Recovered(r) = st[r]
<1> DEFINE fenced == IF Stale(r) \/ Withdrawn(r) THEN Cancel(st[r]) ELSE st[r]
           expired == Expire(fenced, now)
<1>1. \A s \in RunState : /\ Cancel(s) \in RunState /\ Cancel(s).attempt = s.attempt
                          /\ Cancel(s).cancellation # "none"
  BY SMT DEF Cancel, RunState, Cancellation
<1>2. \A s \in RunState : /\ Expire(s, now).attempt = s.attempt /\ Expire(s, now) \in RunState
                          /\ s.cancellation # "none" => Expire(s, now).cancellation # "none"
                          /\ \/ Expire(s, now) = s
                             \/ Expire(s, now).execution = "unknown"
                             \/ Expire(s, now).cancellation = "confirmed"
  BY SMT DEF Expire, RunState, Execution, Cancellation
<1>3. /\ fenced \in RunState /\ fenced.attempt = st[r].attempt
      /\ fenced = st[r] \/ fenced.cancellation # "none"
  BY <1>1
<1>4. /\ expired \in RunState /\ expired.attempt = st[r].attempt
      /\ expired = st[r] \/ expired.execution = "unknown" \/ expired.cancellation # "none"
  <2> HIDE DEF fenced
  <2> QED
    BY <1>2, <1>3
<1>5. Recovered(r) = IF expired.execution = "not_started" /\ expired.cancellation = "requested"
                     THEN Cancel(expired) ELSE expired
  BY DEF Recovered
<1> HIDE DEF expired
<1> QED
  BY <1>1, <1>4, <1>5

\* The recovery worker.
LEMMA RecoveryRows ==
    ASSUME CollectionInv, NEW r \in Run, RecoverApply(r), NEW b \in Attempt
    PROVE  RowStep(b)
<1>0. TypeOK /\ SaveRun(r, Recovered(r)) /\ collection' = AuditRecovery(collection, Recovered(r))
      /\ UNCHANGED <<generation, registered, admitted, info, owner>>
  BY DEF RecoverApply, CollectionInv, authority
<1>1. /\ st'[r] = Recovered(r) /\ \A x \in Run : x # r => st'[x] = st[x]
  BY <1>0, SaveRunWrites
<1>2. /\ Recovered(r).attempt = st[r].attempt
      /\ Recovered(r).cancellation = "none" /\ Recovered(r).execution # "unknown" =>
             Recovered(r) = st[r]
  BY <1>0, RecoveredKeeps DEF TypeOK
<1>3. \A x : Stale(x)' => Stale(x)
  BY <1>0 DEF Stale
<1>4. \A x \in admitted : st'[x] = st[x] => SameRun(x)
  BY <1>0, <1>3 DEF SameRun
<1>5. CASE collection[b] # "open"
  <2>1. collection'[b] = collection[b]
    BY <1>0, <1>5, AbandonSeals DEF AuditRecovery
  <2> QED
    BY <1>0, <1>5, <2>1, RowKept
<1>6. CASE collection[b] = "open" /\ owner[b] = r
  <2>1. Recovered(r).attempt = b /\ r \in admitted
    BY <1>2, <1>6 DEF CollectionInv, Current
  <2>2. CASE Recovered(r).cancellation = "none" /\ Recovered(r).execution # "unknown"
    <3>1. collection' = collection
      BY <1>0, <2>2 DEF AuditRecovery
    <3>2. SameRun(r)
      BY <1>1, <1>2, <1>4, <2>1, <2>2
    <3> QED
      BY <1>0, <1>6, <3>1, <3>2, RowKept
  <2>3. CASE Recovered(r).cancellation # "none" \/ Recovered(r).execution = "unknown"
    <3>1. collection'[b] \in Sealed
      BY <1>0, <1>6, <2>1, <2>3, AbandonSeals DEF AuditRecovery, Sealed
    <3> QED
      BY <1>0, <1>6, <3>1, RowSealed
  <2> QED
    BY <2>2, <2>3
<1>7. CASE collection[b] = "open" /\ owner[b] # r
  <2>1. collection'[b] = collection[b] \/ collection'[b] \in Sealed
    BY <1>0, AbandonSeals DEF AuditRecovery, Sealed
  <2>2. owner[b] \in admitted /\ owner[b] \in Run
    BY <1>0, <1>7 DEF CollectionInv, Current, TypeOK
  <2>3. SameRun(owner[b])
    BY <1>1, <1>4, <1>7, <2>2
  <2> QED
    BY <1>0, <1>7, <2>1, <2>3, RowKept, RowSealed
<1> QED
  BY <1>5, <1>6, <1>7

\* Revocation and replacement of the registration.
LEMMA RetireRows ==
    ASSUME CollectionInv, Revoke \/ Bind, NEW b \in Attempt
    PROVE  RowStep(b)
<1>0. TypeOK /\ owner' = owner
  BY DEF Revoke, Bind, CollectionInv
<1>1. ASSUME NEW reason \in Sealed, RetireWork(reason) PROVE RowStep(b)
  <2>1. collection'[b] = IF owner[b] \in admitted /\ ~Stale(owner[b])
                         THEN Abandon(collection, b, reason)[b] ELSE collection[b]
    BY <1>1 DEF RetireWork
  <2>2. Abandon(collection, b, reason)[b] = IF collection[b] = "open" THEN reason ELSE collection[b]
    BY <1>0, AbandonSeals
  <2>3. CASE collection[b] = "open"
    <3>1. collection'[b] = reason
      BY <2>1, <2>2, <2>3 DEF CollectionInv, Current
    <3> QED
      BY <1>0, <1>1, <2>3, <3>1, RowSealed
  <2>4. CASE collection[b] # "open"
    BY <1>0, <2>1, <2>2, <2>4, RowKept
  <2> QED
    BY <2>3, <2>4
<1>2. CASE ~registered /\ collection' = collection
  <2>1. collection[b] # "open"
    BY <1>2 DEF CollectionInv, Current, Stale
  <2> QED
    BY <1>0, <1>2, <2>1, RowKept
<1> QED
  BY <1>1, <1>2 DEF Revoke, Bind, Sealed

\* A poll leaves alone every run it neither offers nor walks past as withdrawn.
LEMMA PollSpares ==
    ASSUME TypeOK, NEW fresh, NEW delay, NEW passed, NEW offered, NEW a,
           Poll(fresh, delay, passed, offered, a),
           NEW x \in admitted, x \notin offered, x \in passed => ~Withdrawn(x)
    PROVE  SameRun(x)
<1>1. x \in Run /\ x \notin fresh /\ x \in admitted'
  BY DEF TypeOK, Poll, Admission
<1>2. st'[x] = st[x]
  <2>1. st'[x] = CASE x \in fresh   -> QueuedState(x, delay)
                   [] x \in passed  -> PassedOver(x)
                   [] x \in offered -> Claim(st[x], a, now)
                   [] OTHER         -> st[x]
    BY <1>1 DEF Poll
  <2>2. x \in passed => PassedOver(x) = st[x]
    BY DEF PassedOver
  <2> QED
    BY <1>1, <2>1, <2>2, SMT
<1>3. info'[x] = info[x] /\ generation' = generation /\ registered' = registered
  BY <1>1 DEF Poll, authority
<1> QED
  BY <1>1, <1>2, <1>3 DEF SameRun, Stale

\* The row of an attempt the poll does not issue or reclaim.
LEMMA WalkedRow ==
    ASSUME CollectionInv, NEW fresh, NEW delay, NEW passed, NEW offered, NEW a,
           Poll(fresh, delay, passed, offered, a),
           NEW b \in Attempt, owner'[b] = owner[b],
           collection'[b] = WalkedCollection(passed, b),
           \A r \in offered : st[r].attempt # b
    PROVE  RowStep(b)
<1>0. TypeOK
  BY DEF CollectionInv
<1>1. CASE \E r \in passed : Withdrawn(r) /\ st[r].attempt = b
  <2>1. collection'[b] = IF collection[b] = "open" THEN "revoked" ELSE collection[b]
    BY <1>0, <1>1, AbandonSeals DEF WalkedCollection
  <2>2. "revoked" \in Sealed
    BY DEF Sealed
  <2>3. CASE collection[b] = "open"
    <3>1. collection'[b] = "revoked"
      BY <2>1, <2>3
    <3> QED
      BY <2>2, <2>3, <3>1, RowSealed
  <2>4. CASE collection[b] # "open"
    <3>1. collection'[b] = collection[b]
      BY <2>1, <2>4
    <3> QED
      BY <2>4, <3>1, RowKept
  <2> QED
    BY <2>3, <2>4
<1>2. CASE ~\E r \in passed : Withdrawn(r) /\ st[r].attempt = b
  <2>1. collection'[b] = collection[b]
    BY <1>2 DEF WalkedCollection
  <2>2. ASSUME collection[b] = "open" PROVE SameRun(owner[b])
    <3>1. owner[b] \in admitted /\ st[owner[b]].attempt = b
      BY <2>2 DEF CollectionInv, Current
    <3>2. owner[b] \notin offered /\ (owner[b] \in passed => ~Withdrawn(owner[b]))
      BY <1>2, <3>1
    <3> QED
      BY <1>0, <3>1, <3>2, PollSpares
  <2> QED
    BY <2>1, <2>2, RowKept
<1> QED
  BY <1>1, <1>2

\* The offer opens the row of its fresh attempt.
LEMMA OfferOpens ==
    ASSUME CollectionInv, NEW fresh, NEW delay, NEW passed, NEW r, NEW a \in Attempt, NEW delivered,
           ClaimOffer(fresh, delay, passed, r, a, delivered), HasCollection(r)
    PROVE  Current(a)'
<1>1. /\ TypeOK /\ r \in admitted /\ r \in Run /\ r \notin passed /\ ~Stale(r)
      /\ st[r].execution = "not_started" /\ st[r].cancellation = "none"
  BY DEF ClaimOffer, Candidates, CollectionInv, TypeOK
<1>2. r \notin fresh /\ r \in admitted' /\ owner'[a] = r
  BY <1>1, SMT DEF ClaimOffer, Poll, Admission, TypeOK
<1>3. st'[r] = Claim(st[r], a, now)
  <2>1. st'[r] = CASE r \in fresh   -> QueuedState(r, delay)
                   [] r \in passed  -> PassedOver(r)
                   [] r \in {r}     -> Claim(st[r], a, now)
                   [] OTHER         -> st[r]
    BY <1>1 DEF ClaimOffer, Poll
  <2> QED
    BY <1>1, <1>2, <2>1, SMT
<1>4. st[r] \in RunState
  BY <1>1 DEF TypeOK
<1>5. /\ st'[r].attempt = a /\ st'[r].execution = "not_started"
      /\ st'[r].cancellation = "none"
  BY <1>1, <1>3, <1>4, SMT DEF Claim, HoldsLease, RunState
<1>6. info'[r] = info[r] /\ generation' = generation /\ registered' = registered
  BY <1>1, <1>2 DEF ClaimOffer, Poll, authority
<1>7. ~Stale(r)'
  BY <1>1, <1>6 DEF Stale
<1> QED
  BY <1>2, <1>5, <1>7 DEF Current, HasCollection

\* claim_action: the walk, the superseded attempt and the offered one.
LEMMA ClaimRows ==
    ASSUME CollectionInv, ClaimAction, NEW b \in Attempt
    PROVE  RowStep(b)
<1>0. TypeOK
  BY DEF CollectionInv
<1>1. ASSUME NEW fresh, NEW delay, ClaimNothing(fresh, delay) PROVE RowStep(b)
  <2>1. /\ Poll(fresh, delay, Candidates, {}, NoAttempt) /\ owner'[b] = owner[b]
        /\ collection'[b] = WalkedCollection(Candidates, b)
        /\ \A x \in {} : st[x].attempt # b
    BY <1>1 DEF ClaimNothing
  <2> QED
    BY <2>1, WalkedRow, SMT
<1>2. ASSUME NEW fresh, NEW delay, NEW passed, NEW r \in Candidates, NEW a \in Attempt, NEW delivered,
             ClaimOffer(fresh, delay, passed, r, a, delivered)
      PROVE  RowStep(b)
  <2>1. Poll(fresh, delay, passed, {r}, a) /\ owner[a] = NoRun /\ owner' = [owner EXCEPT ![a] = r]
    BY <1>2 DEF ClaimOffer
  <2>2. r \in Run /\ r # NoRun
    BY <1>0, RunAssumption DEF Candidates, TypeOK
  <2>3. owner'[a] = r /\ \A x \in Attempt : x # a => owner'[x] = owner[x]
    BY <1>0, <2>1, SMT DEF TypeOK
  <2>4. collection'[b] = IF b = st[r].attempt THEN Abandon(collection, b, "superseded")[b]
                         ELSE IF b = a /\ HasCollection(r) THEN "open"
                         ELSE WalkedCollection(passed, b)
    BY <1>2 DEF ClaimOffer
  <2>5. collection[a] = "none"
    BY <2>1 DEF CollectionInv
  <2>6. \A reason : Abandon(collection, b, reason)[b] =
                        IF collection[b] = "open" THEN reason ELSE collection[b]
    BY <1>0, AbandonSeals
  <2>7. CASE b = a
    <3>1. collection'[b] = "none" \/ (collection'[b] = "open" /\ HasCollection(r))
      BY <2>4, <2>5, <2>6, <2>7 DEF WalkedCollection
    <3>2. collection'[b] = "open" => Current(b)'
      <4>1. ASSUME HasCollection(r) PROVE Current(a)'
        BY <1>2, <4>1, OfferOpens
      <4> QED
        BY <2>7, <3>1, <4>1
    <3> QED
      BY <2>2, <2>3, <2>5, <2>7, <3>1, <3>2 DEF RowStep
  <2>8. CASE b # a /\ b = st[r].attempt
    <3>1. collection'[b] = IF collection[b] = "open" THEN "superseded" ELSE collection[b]
      BY <2>4, <2>6, <2>8
    <3>2. owner'[b] = owner[b]
      BY <2>3, <2>8
    <3>3. CASE collection[b] = "open"
      <4>1. collection'[b] \in Sealed
        BY <3>1, <3>3 DEF Sealed
      <4> QED
        BY <3>2, <3>3, <4>1, RowSealed
    <3>4. CASE collection[b] # "open"
      <4>1. collection'[b] = collection[b]
        BY <3>1, <3>4
      <4> QED
        BY <3>2, <3>4, <4>1, RowKept
    <3> QED
      BY <3>3, <3>4
  <2>9. CASE b # a /\ b # st[r].attempt
    <3>1. /\ collection'[b] = WalkedCollection(passed, b) /\ owner'[b] = owner[b]
          /\ \A x \in {r} : st[x].attempt # b
      BY <2>3, <2>4, <2>9
    <3> QED
      BY <2>1, <3>1, WalkedRow, SMT
  <2> QED
    BY <2>7, <2>8, <2>9
<1> QED
  BY <1>1, <1>2 DEF ClaimAction

\* The transactions and events that touch no collection row.
LEMMA OtherRows ==
    ASSUME CollectionInv, NEW b \in Attempt,
           \/ \E a \in Attempt : ReplayClaim(a) \/ ReplayStart(a) \/ DeviceExecute(a)
           \/ \E r \in Run : RelayAccept(r) \/ RecoverObserve(r) \/ RecoverDrop(r)
           \/ \E p \in Policy : ChangeAuthority(p)
           \/ Tick
           \/ UNCHANGED vars
    PROVE  RowStep(b)
<1>1. UNCHANGED <<collection, owner, admitted, st, generation, registered>>
  BY DEF ReplayClaim, ReplayStart, DeviceExecute, RelayAccept, RecoverObserve, RecoverDrop,
         ChangeAuthority, Tick, vars, authority, device
<1>2. ASSUME NEW x \in Run PROVE info'[x].generation = info[x].generation
  <2>1. CASE info' = info
    BY <2>1
  <2>2. ASSUME NEW r \in Run, RelayAccept(r) PROVE info'[x].generation = info[x].generation
    <3>1. info \in [Run -> RunInfo] /\ info' = [info EXCEPT ![r].accepted = TRUE]
      BY <2>2 DEF CollectionInv, TypeOK, RelayAccept
    <3> QED
      BY <3>1, SMT DEF RunInfo
  <2>3. info' = info \/ \E r \in Run : RelayAccept(r)
    BY DEF ReplayClaim, ReplayStart, DeviceExecute, RecoverObserve, RecoverDrop,
           ChangeAuthority, Tick, vars
  <2> QED
    BY <2>1, <2>2, <2>3
<1>3. \A x \in admitted : SameRun(x)
  BY <1>1, <1>2 DEF SameRun, Stale, CollectionInv, TypeOK
<1> QED
  BY <1>1, <1>3, RowKept DEF CollectionInv, Current

\* Every step does to every row what RowStep allows.
LEMMA StepRows ==
    ASSUME CollectionInv, [Next]_vars, NEW b \in Attempt PROVE RowStep(b)
<1>1. CASE ClaimAction
  BY <1>1, ClaimRows
<1>2. CASE \E a \in Attempt : ActionEvent(a)
  BY <1>2, EventRows
<1>3. CASE \E r \in Run : RecoverApply(r)
  BY <1>3, RecoveryRows
<1>4. CASE Revoke \/ Bind
  BY <1>4, RetireRows
<1>5. CASE \/ \E a \in Attempt : ReplayClaim(a) \/ ReplayStart(a) \/ DeviceExecute(a)
           \/ \E r \in Run : RelayAccept(r) \/ RecoverObserve(r) \/ RecoverDrop(r)
           \/ \E p \in Policy : ChangeAuthority(p)
           \/ Tick
           \/ UNCHANGED vars
  BY <1>5, OtherRows
<1> QED
  BY <1>1, <1>2, <1>3, <1>4, <1>5 DEF Next, Recovery

\* The invariant of the collection rows is inductive.
LEMMA CollectionNext == CollectionInv /\ [Next]_vars => CollectionInv'
<1> SUFFICES ASSUME CollectionInv, [Next]_vars PROVE CollectionInv'
  OBVIOUS
<1>1. TypeOK'
  BY NextSteps DEF CollectionInv
<1>2. \A b \in Attempt : RowStep(b)
  BY StepRows
<1> QED
  BY <1>1, <1>2 DEF CollectionInv, RowStep

\* There are no rows before the first poll.
LEMMA CollectionInit == Init => CollectionInv
  BY TypeInit DEF Init, CollectionInv

\* Every path that ends an attempt (reclaim, withdrawal, expiry, cancellation, result,
\* retirement) seals its collection in the same transaction: a row still open belongs to the
\* current attempt of a run that may still report.
THEOREM OpenCollectionsAreCurrent == Spec => []OpenCollectionIsCurrent
<1>1. CollectionInv => OpenCollectionIsCurrent
  BY DEF CollectionInv, Current, OpenCollectionIsCurrent
<1> QED
  BY <1>1, CollectionInit, CollectionNext, PTL DEF Spec

\* Published evidence, a revocation and a supersession are never replaced, and a timeout only
\* by a trusted report (accept_in and abandon).
THEOREM SealsHold == Spec => SealedStaysSealed
<1>1. CollectionInv /\ [Next]_vars =>
        [\A a \in Attempt :
            /\ collection[a] \in {"complete", "revoked", "superseded"} =>
                  collection'[a] = collection[a]
            /\ collection[a] = "timeout" => collection'[a] \in {"timeout", "complete"}]_vars
  BY StepRows DEF RowStep
<1> QED
  BY <1>1, CollectionInit, CollectionNext, PTL DEF Spec, SealedStaysSealed

-----------------------------------------------------------------------------
(* The abstract promise. *)

\* t has no verdict that s had not.
Settles(s, t) == t.execution \in {"succeeded", "failed"} => t.execution = s.execution

\* No method of RunState but Result gives a verdict.
LEMMA MethodsSettle ==
    ASSUME NEW s \in RunState, NEW a, NEW t
    PROVE  /\ Settles(s, s) /\ Settles(s, Received(s)) /\ Settles(s, Cancel(s))
           /\ Settles(s, Cancelled(s)) /\ Settles(s, Expire(s, t))
           /\ Settles(s, Claim(s, a, t)) /\ Settles(s, Start(s, a, t))
           /\ Settles(s, RetiredState(s)) /\ Settles(s, Cancelled(Cancel(s)))
<1> USE DEF Settles, RunState, Execution
<1>1. Settles(s, s) /\ Settles(s, Received(s)) /\ Settles(s, Cancel(s)) /\ Settles(s, Cancelled(s))
  BY SMT DEF Received, Cancel, Cancelled
<1>2. Settles(s, Expire(s, t))
  BY SMT DEF Expire
<1>3. Settles(s, Claim(s, a, t)) /\ Settles(s, Start(s, a, t))
  BY SMT DEF Claim, Start
<1>4. Settles(s, RetiredState(s))
  BY SMT DEF RetiredState, Cancel
<1>5. Settles(s, Cancelled(Cancel(s)))
  BY SMT DEF Cancel, Cancelled
<1> QED
  BY <1>1, <1>2, <1>3, <1>4, <1>5

\* Neither do the walk and the recovery worker.
LEMMA WorkersSettle ==
    ASSUME TypeOK, NEW r \in Run
    PROVE  Settles(st[r], PassedOver(r)) /\ Settles(st[r], Recovered(r))
<1>1. st[r] \in RunState /\ now \in Nat
  BY DEF TypeOK
<1>2. \A s \in RunState : Settles(s, s) /\ Settles(s, Cancel(s)) /\ Settles(s, Expire(s, now))
  BY MethodsSettle
<1>3. \A s, t, u : Settles(s, t) /\ Settles(t, u) => Settles(s, u)
  BY DEF Settles
<1>4. \A s \in RunState : Cancel(s) \in RunState /\ Expire(s, now) \in RunState
  BY <1>1, PlainMoves DEF Moves, Evolves
<1>5. Settles(st[r], PassedOver(r))
  BY <1>1, <1>2 DEF PassedOver
<1>6. Settles(st[r], Recovered(r))
  <2> DEFINE fenced == IF Stale(r) \/ Withdrawn(r) THEN Cancel(st[r]) ELSE st[r]
             expired == Expire(fenced, now)
  <2>1. fenced \in RunState /\ Settles(st[r], fenced)
    BY <1>1, <1>2, <1>4
  <2>2. expired \in RunState /\ Settles(st[r], expired)
    <3> HIDE DEF fenced
    <3>1. Expire(fenced, now) \in RunState /\ Settles(fenced, Expire(fenced, now))
      BY <1>2, <1>4, <2>1
    <3>2. Settles(st[r], Expire(fenced, now))
      BY <1>3, <2>1, <3>1
    <3> QED
      BY <3>1, <3>2
  <2>3. Recovered(r) = expired \/ Recovered(r) = Cancel(expired)
    BY DEF Recovered
  <2> HIDE DEF expired
  <2> QED
    BY <1>2, <1>3, <2>2, <2>3
<1> QED
  BY <1>5, <1>6

\* A result report, the only transaction that gives a verdict.
Reports == \E a \in Attempt, success, trusted \in BOOLEAN : EventResult(a, success, trusted)

\* Every other step leaves the verdict of the runs that exist open.
LEMMA StepSettles ==
    ASSUME TypeOK, [Next]_vars, ~Reports, NEW r \in admitted PROVE Settles(st[r], st'[r])
<1>0. r \in Run /\ st[r] \in RunState
  BY DEF TypeOK
<1>1. CASE st'[r] = st[r]
  BY <1>1 DEF Settles
<1>2. ASSUME NEW x \in Run, NEW new, SaveRun(x, new), Settles(st[x], new)
      PROVE  Settles(st[r], st'[r])
  BY <1>0, <1>1, <1>2, SaveRunWrites
<1>3. CASE ClaimAction
  <2>a. PICK fresh \in SUBSET (Run \ admitted) : \E delay :
          \/ ClaimNothing(fresh, delay)
          \/ \E passed, x, a, delivered : ClaimOffer(fresh, delay, passed, x, a, delivered)
    BY <1>3 DEF ClaimAction
  <2>0. PICK delay :
          \/ ClaimNothing(fresh, delay)
          \/ \E passed, x, a, delivered : ClaimOffer(fresh, delay, passed, x, a, delivered)
    BY <2>a
  <2>1. PICK passed, offered, a :
          offered \cap passed = {} /\ Poll(fresh, delay, passed, offered, a)
    <3>1. CASE ClaimNothing(fresh, delay)
      BY <3>1 DEF ClaimNothing
    <3>2. ASSUME NEW passed, NEW x, NEW a, NEW delivered,
                 ClaimOffer(fresh, delay, passed, x, a, delivered)
          PROVE  {x} \cap passed = {} /\ Poll(fresh, delay, passed, {x}, a)
      BY <3>2 DEF ClaimOffer
    <3> QED
      BY <2>0, <3>1, <3>2
  <2>2. st'[r] = CASE r \in fresh   -> QueuedState(r, delay)
                   [] r \in passed  -> PassedOver(r)
                   [] r \in offered -> Claim(st[r], a, now)
                   [] OTHER         -> st[r]
    BY <1>0, <2>1 DEF Poll
  <2>3. r \notin fresh /\ ~(r \in passed /\ r \in offered)
    BY <2>0, <2>1
  <2>4. st'[r] \in {PassedOver(r), Claim(st[r], a, now), st[r]}
    BY <2>2, <2>3, SMT
  <2> QED
    BY <1>0, <2>4, MethodsSettle, WorkersSettle
<1>4. ASSUME NEW a \in Attempt, ReplayClaim(a) \/ ReplayStart(a) \/ DeviceExecute(a)
      PROVE  Settles(st[r], st'[r])
  BY <1>1, <1>4 DEF ReplayClaim, ReplayStart, DeviceExecute
<1>5. ASSUME NEW a \in Attempt, ActionEvent(a) PROVE Settles(st[r], st'[r])
  <2>1. owner[a] \in Run /\ st[owner[a]] \in RunState
    BY <1>5, EventSaves DEF TypeOK
  <2>2. \/ SaveRun(owner[a], Received(st[owner[a]]))
        \/ SaveRun(owner[a], Start(st[owner[a]], a, now))
        \/ SaveRun(owner[a], Cancelled(Cancel(st[owner[a]])))
    BY <1>5 DEF ActionEvent, EventReceived, EventStart, EventCancelled, Reports
  <2> QED
    BY <1>2, <2>1, <2>2, MethodsSettle
<1>6. ASSUME NEW x \in Run, RelayAccept(x) \/ RecoverObserve(x) \/ RecoverDrop(x)
      PROVE  Settles(st[r], st'[r])
  BY <1>1, <1>6 DEF RelayAccept, RecoverObserve, RecoverDrop
<1>7. ASSUME NEW x \in Run, RecoverApply(x) PROVE Settles(st[r], st'[r])
  BY <1>2, <1>7, WorkersSettle DEF RecoverApply
<1>8. CASE Revoke \/ Bind
  <2>1. st'[r] = st[r] \/ st'[r] = RetiredState(st[r])
    BY <1>0, <1>8 DEF Revoke, Bind, RetireWork
  <2> QED
    BY <1>0, <2>1, MethodsSettle
<1>9. CASE (\E p \in Policy : ChangeAuthority(p)) \/ Tick \/ UNCHANGED vars
  BY <1>1, <1>9 DEF ChangeAuthority, Tick, vars
<1> QED
  BY <1>3, <1>4, <1>5, <1>6, <1>7, <1>8, <1>9 DEF Next, Recovery

\* Only the device executes.
LEMMA OnlyDeviceExecutes ==
    ASSUME TypeOK, [Next]_vars, ~\E a \in Attempt : DeviceExecute(a) PROVE executed' = executed
<1>1. CASE ClaimAction
  BY <1>1, ClaimAdmits DEF Admits
<1>2. CASE \E a \in Attempt : ActionEvent(a)
  BY <1>2, EventSaves
<1>3. CASE \E r \in Run : RelayAccept(r) \/ Recovery(r)
  BY <1>3 DEF RelayAccept, Recovery, RecoverObserve, RecoverApply, RecoverDrop, device
<1>4. CASE Revoke \/ Bind
  BY <1>4 DEF Revoke, Bind, device
<1>5. CASE \/ \E a \in Attempt : ReplayClaim(a) \/ ReplayStart(a)
           \/ \E p \in Policy : ChangeAuthority(p)
           \/ Tick
           \/ UNCHANGED vars
  BY <1>5 DEF ReplayClaim, ReplayStart, ChangeAuthority, Tick, vars, device
<1> QED
  BY <1>1, <1>2, <1>3, <1>4, <1>5 DEF Next

\* A run that a step inserts is queued.
LEMMA InsertedIsQueued ==
    ASSUME TableInv, [Next]_vars, NEW r \in admitted', r \notin admitted
    PROVE  st'[r].execution = "not_started"
<1>1. TypeOK
  BY DEF TableInv
<1>2. CASE ClaimAction
  <2>1. PICK fresh, delay : Admits(fresh, delay)
    BY <1>1, <1>2, ClaimAdmits
  <2>2. st'[r] = QueuedState(r, delay)
    BY <2>1 DEF Admits
  <2> QED
    BY <2>2, SMT DEF QueuedState, New
<1>3. CASE ~ClaimAction
  BY <1>1, <1>3, OnlyPollsAdmit DEF TableInv, Keeps
<1> QED
  BY <1>2, <1>3

\* What the refinement rests on: a run that has started did so by a stored permit.
StartedIsPermitted ==
    \A r \in admitted : st[r].execution # "not_started" =>
        st[r].attempt \in permit /\ owner[st[r].attempt] = r

\* Its inductive invariant.
PromiseInv == EffectInv /\ TableInv /\ StartedIsPermitted

\* Nothing has started at first.
LEMMA PromiseInit == Init => PromiseInv
  BY EffectInit, TableInit DEF Init, PromiseInv, StartedIsPermitted

\* Only Start starts a run, and it stores the permit.
LEMMA PromiseNext == PromiseInv /\ [Next]_vars => PromiseInv'
<1> SUFFICES ASSUME PromiseInv, [Next]_vars PROVE StartedIsPermitted'
  BY EffectNext, TableNext DEF PromiseInv
<1>1. /\ TypeOK /\ EffectInv /\ TableInv /\ StartedIsPermitted
      /\ permit \subseteq Attempt /\ admitted \subseteq Run
  BY DEF PromiseInv, EffectInv, TypeOK
<1>2. SUFFICES ASSUME NEW r \in admitted', st'[r].execution # "not_started"
               PROVE  st'[r].attempt \in permit' /\ owner'[st'[r].attempt] = r
  BY DEF StartedIsPermitted
<1>3. r \in admitted
  BY <1>1, <1>2, InsertedIsQueued
<1>4. Frame /\ Evolves(st[r], st'[r])
  BY <1>1, <1>3, NextSteps, StepEvolves
<1>5. ASSUME st[r].execution # "not_started", permit \subseteq permit'
      PROVE  st'[r].attempt \in permit' /\ owner'[st'[r].attempt] = r
  <2>1. st[r].attempt \in permit /\ owner[st[r].attempt] = r /\ st[r].attempt \in Attempt
    BY <1>1, <1>3, <1>5 DEF StartedIsPermitted
  <2>2. st'[r].attempt = st[r].attempt
    BY <1>4, <1>5 DEF Evolves
  <2>3. owner'[st[r].attempt] = r
    BY <1>1, <1>3, <1>4, <2>1, RunAssumption DEF Frame
  <2> QED
    BY <1>5, <2>1, <2>2, <2>3
<1>6. CASE Quiet
  <2>1. permit' = permit /\ Moves(st[r], st'[r])
    BY <1>3, <1>6 DEF Quiet
  <2> QED
    BY <1>2, <1>5, <2>1 DEF Moves
<1>7. ASSUME NEW a \in Attempt, NEW delivered \in BOOLEAN, EventStart(a, delivered)
      PROVE  st'[r].attempt \in permit' /\ owner'[st'[r].attempt] = r
  <2>1. StartsRun(a)
    BY <1>1, <1>7, StartStep
  <2>2. CASE r = owner[a]
    <3>1. st'[r].attempt = a /\ a \in permit' /\ owner'[a] = owner[a]
      BY <1>1, <1>3, <1>4, <2>1, <2>2, RunAssumption DEF StartsRun, Frame
    <3> QED
      BY <2>2, <3>1
  <2>3. CASE r # owner[a]
    <3>1. st'[r] = st[r] /\ permit \subseteq permit'
      BY <1>1, <1>3, <2>1, <2>3 DEF StartsRun
    <3> QED
      BY <1>2, <1>5, <3>1
  <2> QED
    BY <2>2, <2>3
<1> QED
  BY <1>1, <1>6, <1>7, NextSteps

\* A closed run stays closed.
LEMMA ClosedGrows ==
    ASSUME PromiseInv, PromiseInv', [Next]_vars PROVE Closed \subseteq Closed'
<1>1. EffectInv /\ EffectInv' /\ TypeOK
  BY DEF PromiseInv, EffectInv
<1>2. \A r \in admitted : DeliveryEnded(r) => DeliveryEnded(r)' /\ r \in admitted'
  BY <1>1, EndedStep, NextSteps DEF Frame
<1> QED
  BY <1>2 DEF Closed

\* The owners of permits do not change.
LEMMA OwnersStay ==
    ASSUME PromiseInv, [Next]_vars, NEW a \in permit
    PROVE  owner'[a] = owner[a] /\ owner[a] \in Run /\ a \in Attempt
<1>1. TypeOK /\ PermitIsCurrent
  BY DEF PromiseInv, EffectInv
<1>2. owner[a] \in Run /\ a \in Attempt
  BY <1>1 DEF PermitIsCurrent, TypeOK
<1>3. Frame
  BY <1>1, NextSteps
<1> QED
  BY <1>2, <1>3, RunAssumption DEF Frame

\* Without a new permit no run is authorised.
LEMMA GrantedKept ==
    ASSUME PromiseInv, [Next]_vars, permit' = permit PROVE Granted' = Granted
  BY OwnersStay DEF Granted

\* Without an execution no run has a new effect.
LEMMA EffectsKept ==
    ASSUME PromiseInv, [Next]_vars, executed' = executed PROVE Effects' = Effects
<1>1. executed \subseteq permit
  BY DEF PromiseInv, EffectInv
<1>2. \A a \in executed : owner'[a] = owner[a]
  BY <1>1, OwnersStay
<1>3. \A r \in Run : {a \in executed' : owner'[a] = r} = {a \in executed : owner[a] = r}
  BY <1>2
<1> QED
  BY <1>3 DEF Effects

\* Without a result no run has a new verdict.
LEMMA VerdictKept ==
    ASSUME PromiseInv, PromiseInv', [Next]_vars, ~Reports PROVE Verdict' = Verdict
<1>1. TypeOK /\ TableInv /\ TableInv'
  BY DEF PromiseInv, EffectInv
<1>2. \A x \in Run : x \notin admitted => st[x].execution = "not_started"
  BY <1>1, SMT DEF TableInv, Unwritten, New
<1>3. \A x \in Run : x \notin admitted' => st'[x].execution = "not_started"
  BY <1>1, SMT DEF TableInv, Unwritten, New
<1>4. ASSUME NEW x \in Run
      PROVE  \A v \in {"succeeded", "failed"} : st'[x].execution = v <=> st[x].execution = v
  <2>1. CASE x \in admitted
    <3>1. Settles(st[x], st'[x]) /\ Evolves(st[x], st'[x])
      BY <1>1, <2>1, StepSettles, StepEvolves
    <3> QED
      BY <3>1 DEF Settles, Evolves
  <2>2. CASE x \notin admitted
    <3>1. st[x].execution = "not_started" /\ st'[x].execution = "not_started"
      BY <1>1, <1>2, <1>3, <2>2, InsertedIsQueued
    <3> QED
      BY <3>1
  <2> QED
    BY <2>1, <2>2
<1>5. \A x \in Run : (IF st'[x].execution \in {"succeeded", "failed"}
                      THEN st'[x].execution ELSE "open") =
                     (IF st[x].execution \in {"succeeded", "failed"}
                      THEN st[x].execution ELSE "open")
  BY <1>4
<1> QED
  BY <1>5 DEF Verdict

\* Start authorises its run.
LEMMA StartGrants ==
    ASSUME PromiseInv, PromiseInv', NEW a \in Attempt, NEW delivered \in BOOLEAN,
           EventStart(a, delivered)
    PROVE  Promise!Grant(owner[a]) /\ owner[a] \in Run
<1>0. [Next]_vars
  BY DEF Next, ActionEvent
<1>1. PICK r \in Run : r = owner[a] /\ r \in admitted /\ TypeOK /\ PermitIsCurrent /\ StartsRun(a)
  <2>1. TypeOK /\ PermitIsCurrent
    BY DEF PromiseInv, EffectInv
  <2>2. StartsRun(a)
    BY <2>1, StartStep
  <2> QED
    BY <2>1, <2>2 DEF StartsRun, TypeOK
<1>2. UNCHANGED <<now, admitted, owner, executed>>
  BY DEF EventStart
<1>3. r \notin Granted
  BY <1>1 DEF Granted, PermitIsCurrent, StartsRun
<1>4. ~DeliveryEnded(r) /\ ~DeliveryEnded(r)'
  <2>1. st[r].cancellation = "none" /\ now < st[r].deadline /\ st'[r].execution = "running"
    BY <1>1 DEF StartsRun
  <2>2. now \in Nat /\ st[r].deadline \in Nat
    BY <1>1 DEF TypeOK, RunState
  <2>3. ~DeliveryEnded(r)
    BY <2>1, <2>2, SMT DEF DeliveryEnded
  <2> QED
    BY <2>1, <2>3 DEF DeliveryEnded
<1>5. \A x \in admitted : x # r => (DeliveryEnded(x)' <=> DeliveryEnded(x))
  BY <1>1, <1>2 DEF StartsRun, DeliveryEnded, TypeOK
<1>6. Closed' = Closed /\ r \notin Closed
  BY <1>2, <1>4, <1>5 DEF Closed
<1>7. Granted' = Granted \cup {r}
  <2>1. permit' = permit \cup {a} /\ owner' = owner
    BY <1>1, <1>2 DEF StartsRun
  <2> QED
    BY <1>1, <2>1 DEF Granted
<1>8. Effects' = Effects
  BY <1>0, <1>2, EffectsKept
<1>9. Verdict' = Verdict
  <2>1. ~Reports
    <3>1. st[r].execution = "not_started" /\ st'[r].execution = "running"
      BY <1>1 DEF StartsRun
    <3>2. ASSUME NEW b \in Attempt, NEW success \in BOOLEAN, NEW trusted \in BOOLEAN,
                 EventResult(b, success, trusted)
          PROVE  FALSE
      <4>1. permit' = permit
        BY <3>2 DEF EventResult
      <4>2. a \notin permit
        BY DEF EventStart
      <4> QED
        BY <1>1, <4>1, <4>2 DEF StartsRun
    <3> QED
      BY <3>2 DEF Reports
  <2> QED
    BY <1>0, <2>1, VerdictKept
<1> QED
  BY <1>1, <1>3, <1>6, <1>7, <1>8, <1>9 DEF Promise!Grant

\* The device's execution is the effect of a run that had none.
LEMMA ExecutionHappens ==
    ASSUME PromiseInv, NEW a \in Attempt, DeviceExecute(a)
    PROVE  Promise!Happen(owner[a], a) /\ owner[a] \in Run
<1>0. [Next]_vars
  BY DEF Next
<1>1. /\ TypeOK /\ PermitIsCurrent /\ executed \subseteq permit
      /\ a \in permit /\ a \notin executed /\ executed' = executed \cup {a}
      /\ UNCHANGED <<now, admitted, st, owner, permit>>
  BY DEF PromiseInv, EffectInv, DeviceExecute
<1>2. PICK r \in Run : r = owner[a]
  BY <1>1 DEF PermitIsCurrent, TypeOK
<1>3. r \in Granted
  BY <1>1, <1>2 DEF Granted
<1>4. Effects[r] = {}
  <2>1. \A b \in executed : owner[b] # r
    BY <1>1, <1>2 DEF PermitIsCurrent
  <2> QED
    BY <1>2, <2>1 DEF Effects
<1>5. Effects' = [Effects EXCEPT ![r] = {a}]
  <2>1. \A x \in Run : {b \in executed' : owner'[b] = x} =
                       IF x = r THEN {a} ELSE {b \in executed : owner[b] = x}
    <3>1. \A b \in executed : owner[b] # r
      BY <1>1, <1>2 DEF PermitIsCurrent
    <3> QED
      BY <1>1, <1>2, <3>1
  <2>2. Effects' = [x \in Run |-> IF x = r THEN {a} ELSE {b \in executed : owner[b] = x}]
    BY <2>1 DEF Effects
  <2>3. /\ Effects = [x \in Run |-> Effects[x]]
        /\ \A x \in Run : Effects[x] = {b \in executed : owner[b] = x}
    BY DEF Effects
  <2>4. Effects' = [x \in Run |-> IF x = r THEN {a} ELSE Effects[x]]
    BY <2>2, <2>3
  <2> QED
    BY <2>3, <2>4, SMT
<1>6. Granted' = Granted /\ Verdict' = Verdict /\ Closed' = Closed
  <2>1. Closed' = Closed
    BY <1>1 DEF Closed, DeliveryEnded
  <2> QED
    BY <1>1, <2>1 DEF Granted, Verdict
<1> QED
  BY <1>2, <1>3, <1>4, <1>5, <1>6 DEF Promise!Happen

\* A result concludes a run that was authorised and had no verdict; success needs its effect.
LEMMA ResultConcludes ==
    ASSUME PromiseInv, PromiseInv', NEW a \in Attempt, NEW success \in BOOLEAN,
           NEW trusted \in BOOLEAN, EventResult(a, success, trusted)
    PROVE  /\ Promise!Conclude(owner[a], IF success THEN "succeeded" ELSE "failed")
           /\ owner[a] \in Run
<1> DEFINE outcome == IF success THEN "succeeded" ELSE "failed"
<1>0. [Next]_vars
  BY DEF Next, ActionEvent
<1>1. TypeOK /\ PermitIsCurrent /\ StartedIsPermitted
  BY DEF PromiseInv, EffectInv
<1>2. PICK r \in Run : r = owner[a] /\ r \in admitted
  BY <1>1 DEF EventResult, Belongs, TypeOK
<1>3. /\ success => a \in executed
      /\ CanReport(st[r], a) /\ SaveRun(r, Result(st[r], success))
      /\ UNCHANGED <<now, admitted, owner, permit, executed>>
  BY <1>2 DEF EventResult, device
<1>4. st[r] \in RunState /\ st[r].execution \in {"running", "unknown", "waiting_reboot"}
  BY <1>1, <1>2, <1>3 DEF TypeOK, CanReport, Unsettled
<1>5. r \in Granted
  BY <1>1, <1>2, <1>4 DEF StartedIsPermitted, Granted
<1>6. st'[r] = Result(st[r], success) /\ \A x \in Run : x # r => st'[x] = st[x]
  BY <1>1, <1>2, <1>3, SaveRunWrites
<1>7. Result(st[r], success).execution = outcome
  BY <1>4, SMT DEF Result, RunState
<1>8. success => Effects[r] # {}
  BY <1>2, <1>3 DEF Effects
<1>9. Verdict[r] = "open"
  BY <1>2, <1>4 DEF Verdict
<1>10. outcome \in {"succeeded", "failed"} /\ (outcome = "succeeded" => success)
  OBVIOUS
<1> HIDE DEF outcome
<1>11. Verdict' = [Verdict EXCEPT ![r] = outcome]
  <2>1. st'[r].execution = outcome
    BY <1>6, <1>7
  <2>2. \A x \in Run : (IF st'[x].execution \in {"succeeded", "failed"}
                        THEN st'[x].execution ELSE "open") =
                       IF x = r THEN outcome
                       ELSE IF st[x].execution \in {"succeeded", "failed"}
                            THEN st[x].execution ELSE "open"
    BY <1>6, <1>10, <2>1
  <2>3. Verdict' = [x \in Run |-> IF x = r THEN outcome
                                  ELSE IF st[x].execution \in {"succeeded", "failed"}
                                       THEN st[x].execution ELSE "open"]
    BY <2>2 DEF Verdict
  <2>4. /\ Verdict = [x \in Run |-> Verdict[x]]
        /\ \A x \in Run : Verdict[x] = IF st[x].execution \in {"succeeded", "failed"}
                                       THEN st[x].execution ELSE "open"
    BY DEF Verdict
  <2>5. Verdict' = [x \in Run |-> IF x = r THEN outcome ELSE Verdict[x]]
    BY <2>3, <2>4
  <2> QED
    BY <2>4, <2>5, SMT
<1>12. Closed' = Closed
  <2>1. ~DeliveryEnded(r) /\ ~DeliveryEnded(r)'
    BY <1>4, <1>6, <1>7, <1>10 DEF DeliveryEnded
  <2>2. \A x \in admitted : x # r => (DeliveryEnded(x)' <=> DeliveryEnded(x))
    BY <1>1, <1>3, <1>6 DEF DeliveryEnded, TypeOK
  <2> QED
    BY <1>3, <2>1, <2>2 DEF Closed
<1>13. Granted' = Granted /\ Effects' = Effects
  BY <1>3 DEF Granted, Effects
<1>14. Promise!Conclude(r, outcome)
  BY <1>5, <1>8, <1>9, <1>10, <1>11, <1>12, <1>13 DEF Promise!Conclude
<1> QED
  BY <1>2, <1>14 DEF outcome

\* Every other step closes the deliveries that it ends, if any.
LEMMA OtherStepsClose ==
    ASSUME PromiseInv, PromiseInv', [Next]_vars, ~Reports,
           ~\E a \in Attempt : DeviceExecute(a),
           ~\E a \in Attempt, delivered \in BOOLEAN : EventStart(a, delivered)
    PROVE  Promise!Close(Closed') /\ Closed' \in SUBSET Run
<1>1. TypeOK /\ TypeOK'
  BY DEF PromiseInv, EffectInv
<1>2. Quiet /\ executed' = executed
  BY <1>1, NextSteps, OnlyDeviceExecutes
<1>3. Granted' = Granted /\ Effects' = Effects /\ Verdict' = Verdict
  BY <1>2, GrantedKept, EffectsKept, VerdictKept DEF Quiet
<1>4. Closed' \cap Granted' = {}
  BY DEF PromiseInv, EffectInv, PermitIsCurrent, Closed, Granted, DeliveryEnded
<1>5. Closed' = Closed \cup Closed'
  BY ClosedGrows
<1>6. Closed' \in SUBSET Run
  BY <1>1 DEF Closed, TypeOK
<1> QED
  BY <1>3, <1>4, <1>5, <1>6 DEF Promise!Close

\* Every step of the task tables is a step of the promise.
LEMMA StepKeepsPromise ==
    ASSUME PromiseInv, PromiseInv', [Next]_vars PROVE Promise!Next
<1>1. ASSUME NEW a \in Attempt, NEW delivered \in BOOLEAN, EventStart(a, delivered)
      PROVE  Promise!Next
  BY <1>1, StartGrants DEF Promise!Next
<1>2. ASSUME NEW a \in Attempt, DeviceExecute(a) PROVE Promise!Next
  BY <1>2, ExecutionHappens DEF Promise!Next
<1>3. CASE Reports
  <2>1. PICK a \in Attempt, success \in BOOLEAN, trusted \in BOOLEAN :
          EventResult(a, success, trusted)
    BY <1>3 DEF Reports
  <2>2. /\ Promise!Conclude(owner[a], IF success THEN "succeeded" ELSE "failed")
        /\ owner[a] \in Run
    BY <2>1, ResultConcludes
  <2>3. (IF success THEN "succeeded" ELSE "failed") \in {"succeeded", "failed"}
    OBVIOUS
  <2> QED
    BY <2>2, <2>3 DEF Promise!Next
<1>4. CASE /\ ~Reports /\ ~\E a \in Attempt : DeviceExecute(a)
           /\ ~\E a \in Attempt, delivered \in BOOLEAN : EventStart(a, delivered)
  <2>1. Promise!Close(Closed') /\ Closed' \in SUBSET Run
    BY <1>4, OtherStepsClose
  <2> QED
    BY <2>1 DEF Promise!Next
<1> QED
  BY <1>1, <1>2, <1>3, <1>4

\* The task tables implement the abstract promise: a run is authorised once or closed, never
\* both; it has at most one effect; and it has at most one verdict, success only after the
\* effect.
THEOREM PromiseIsKept == Spec => KeepsPromise
<1>1. Init => Promise!Init
  <2> SUFFICES ASSUME Init PROVE Promise!Init
    OBVIOUS
  <2>1. Granted = {} /\ Closed = {} /\ Effects = [r \in Run |-> {}]
    BY DEF Init, Granted, Closed, Effects
  <2>2. \A r \in Run : st[r].execution = "not_started"
    BY SMT DEF Init, New
  <2>3. Verdict = [r \in Run |-> "open"]
    BY <2>2 DEF Verdict
  <2> QED
    BY <2>1, <2>3 DEF Promise!Init
<1>2. PromiseInv /\ PromiseInv' /\ [Next]_vars => [Promise!Next]_(Promise!vars)
  BY StepKeepsPromise
<1> QED
  BY <1>1, <1>2, PromiseInit, PromiseNext, PTL DEF Spec, KeepsPromise, Promise!Spec

-----------------------------------------------------------------------------
(* Where the promises of the documents hold. *)

\* A run that is over: save_run has reported it, or would.
Over(s) == Terminal(s) # "none"

\* The methods of RunState that may follow on a run that is over leave it over.
LEMMA OverStays ==
    ASSUME NEW s \in RunState, Over(s), NEW t, NEW success \in BOOLEAN
    PROVE  /\ Over(Received(s)) /\ Over(Cancelled(Cancel(s))) /\ Over(Expire(s, t))
           /\ Over(Result(s, success)) /\ Over(RetiredState(s))
           /\ s.execution \in {"not_started", "succeeded", "failed"} => Over(Cancel(s))
<1> USE DEF Over, Terminal, RunState, Execution, Cancellation
<1>1. Over(Received(s)) /\ Over(Result(s, success))
  BY SMT DEF Received, Result
<1>2. Over(Cancelled(Cancel(s)))
  BY SMT DEF Cancel, Cancelled
<1>3. Over(Expire(s, t))
  BY SMT DEF Expire
<1>4. Over(RetiredState(s))
  BY SMT DEF RetiredState, Cancel
<1>5. s.execution \in {"not_started", "succeeded", "failed"} => Over(Cancel(s))
  BY SMT DEF Cancel
<1> QED
  BY <1>1, <1>2, <1>3, <1>4, <1>5

\* Recovery asks again for the cancellation of a run whose outcome is not known; it leaves
\* every other run that is over as it was.
LEMMA RecoveredStaysOver ==
    ASSUME TypeOK, NEW r \in Run, Over(st[r]), Coherent(st[r])
    PROVE  \/ Over(Recovered(r))
           \/ /\ Stale(r) \/ Withdrawn(r)
              /\ st[r].execution = "unknown"
              /\ Recovered(r).execution = st[r].execution
<1>0. st[r] \in RunState /\ now \in Nat
  BY DEF TypeOK
<1>1. ASSUME NEW s \in RunState, Over(s),
             Recovered(r) = LET expired == Expire(s, now)
                            IN  IF expired.execution = "not_started" /\ expired.cancellation = "requested"
                                THEN Cancel(expired) ELSE expired
      PROVE  Over(Recovered(r))
  <2>1. PICK e : e = Expire(s, now)
    OBVIOUS
  <2>2. Over(e) /\ e \in RunState
    BY <1>0, <1>1, <2>1, OverStays, PlainMoves DEF Moves, Evolves
  <2>3. ~(e.execution = "not_started" /\ e.cancellation = "requested")
    BY <2>2 DEF Over, Terminal
  <2> QED
    BY <1>1, <2>1, <2>2, <2>3
<1>2. CASE ~(Stale(r) \/ Withdrawn(r))
  BY <1>0, <1>1, <1>2 DEF Recovered
<1>3. CASE (Stale(r) \/ Withdrawn(r)) /\ st[r].execution \in {"not_started", "succeeded", "failed"}
  <2>1. Over(Cancel(st[r])) /\ Cancel(st[r]) \in RunState
    BY <1>0, <1>3, OverStays, PlainMoves DEF Moves, Evolves
  <2> QED
    BY <1>1, <1>3, <2>1 DEF Recovered
<1>4. CASE /\ Stale(r) \/ Withdrawn(r)
           /\ st[r].execution \notin {"not_started", "succeeded", "failed"}
  <2>1. st[r].execution = "unknown"
    BY <1>0, <1>4 DEF Over, Terminal, Coherent, RunState, Execution
  <2>2. PICK c : c = Cancel(st[r]) /\ c \in RunState /\ c.execution = st[r].execution
    BY <1>0, PlainMoves DEF Moves, Evolves, Cancel, RunState
  <2>3. Expire(c, now).execution = c.execution
    BY <2>1, <2>2, SMT DEF Expire, RunState
  <2>4. Recovered(r).execution = st[r].execution
    BY <1>4, <2>1, <2>2, <2>3 DEF Recovered
  <2> QED
    BY <1>4, <2>1, <2>4
<1> QED
  BY <1>2, <1>3, <1>4

\* Every step leaves a run that is over as it is, but for the recovery worker: between its
\* observation and its apply the run may be reported cancelled.
LEMMA StepStaysOver ==
    ASSUME TypeOK, [Next]_vars, NEW r \in admitted, Coherent(st[r]), Over(st[r]), ~Over(st'[r])
    PROVE  /\ RecoverApply(r)
           /\ Stale(r) \/ Withdrawn(r)
           /\ st[r].execution = "unknown"
           /\ st'[r].execution = st[r].execution
<1> DEFINE Goal == /\ RecoverApply(r)
                   /\ Stale(r) \/ Withdrawn(r)
                   /\ st[r].execution = "unknown"
                   /\ st'[r].execution = st[r].execution
<1>0. r \in Run /\ st[r] \in RunState /\ now \in Nat
  BY DEF TypeOK
<1>1. st'[r] # st[r]
  OBVIOUS
<1>2. ASSUME NEW x \in Run, NEW new, SaveRun(x, new) PROVE x = r /\ st'[r] = new
  BY <1>0, <1>1, <1>2, SaveRunWrites
<1>3. CASE ClaimAction
  <2>a. PICK fresh \in SUBSET (Run \ admitted) : \E delay :
          \/ ClaimNothing(fresh, delay)
          \/ \E passed, x, a, delivered : ClaimOffer(fresh, delay, passed, x, a, delivered)
    BY <1>3 DEF ClaimAction
  <2>0. PICK delay :
          \/ ClaimNothing(fresh, delay)
          \/ \E passed, x, a, delivered : ClaimOffer(fresh, delay, passed, x, a, delivered)
    BY <2>a
  <2>1. PICK passed, offered, a :
          /\ offered \subseteq Candidates /\ passed \subseteq Candidates
          /\ Poll(fresh, delay, passed, offered, a)
    <3>1. CASE ClaimNothing(fresh, delay)
      <4>1. Poll(fresh, delay, Candidates, {}, NoAttempt)
        BY <3>1 DEF ClaimNothing
      <4>2. {} \subseteq Candidates /\ Candidates \subseteq Candidates
        OBVIOUS
      <4> QED
        BY <4>1, <4>2
    <3>2. ASSUME NEW passed, NEW x, NEW a, NEW delivered,
                 ClaimOffer(fresh, delay, passed, x, a, delivered)
          PROVE  {x} \subseteq Candidates /\ passed \subseteq Candidates
                 /\ Poll(fresh, delay, passed, {x}, a)
      BY <3>2 DEF ClaimOffer, Poll, WalkedPast
    <3> QED
      BY <2>0, <3>1, <3>2
  <2>2. r \notin Candidates
    BY DEF Candidates, Over, Terminal
  <2>3. st'[r] = CASE r \in fresh   -> QueuedState(r, delay)
                   [] r \in passed  -> PassedOver(r)
                   [] r \in offered -> Claim(st[r], a, now)
                   [] OTHER         -> st[r]
    BY <1>0, <2>1 DEF Poll
  <2>4. r \notin fresh /\ r \notin passed /\ r \notin offered
    BY <2>1, <2>2
  <2>5. st'[r] = st[r]
    BY <2>3, <2>4, SMT
  <2> QED
    BY <1>1, <2>5
<1>4. ASSUME NEW a \in Attempt, ReplayClaim(a) \/ ReplayStart(a) \/ DeviceExecute(a)
      PROVE  FALSE
  BY <1>1, <1>4 DEF ReplayClaim, ReplayStart, DeviceExecute
<1>5. ASSUME NEW a \in Attempt, ActionEvent(a) PROVE FALSE
  <2>1. owner[a] \in Run
    BY <1>5, EventSaves DEF TypeOK
  <2>2. ASSUME NEW delivered \in BOOLEAN, EventStart(a, delivered) PROVE FALSE
    <3>1. StartsRun(a)
      BY <2>2, StartStep
    <3>2. owner[a] = r
      BY <1>0, <1>1, <3>1 DEF StartsRun
    <3> QED
      BY <3>1, <3>2 DEF StartsRun, Over, Terminal
  <2>3. \/ SaveRun(owner[a], Received(st[owner[a]]))
        \/ SaveRun(owner[a], Cancelled(Cancel(st[owner[a]])))
        \/ \E success \in BOOLEAN : SaveRun(owner[a], Result(st[owner[a]], success))
    BY <1>5, <2>2 DEF ActionEvent, EventReceived, EventCancelled, EventResult
  <2>4. \/ st'[r] = Received(st[r]) \/ st'[r] = Cancelled(Cancel(st[r]))
        \/ \E success \in BOOLEAN : st'[r] = Result(st[r], success)
    BY <1>2, <2>1, <2>3
  <2> QED
    BY <1>0, <2>4, OverStays
<1>6. ASSUME NEW x \in Run, RelayAccept(x) \/ RecoverObserve(x) \/ RecoverDrop(x) PROVE FALSE
  BY <1>1, <1>6 DEF RelayAccept, RecoverObserve, RecoverDrop
<1>7. ASSUME NEW x \in Run, RecoverApply(x) PROVE Goal
  <2>1. x = r /\ st'[r] = Recovered(r)
    BY <1>2, <1>7 DEF RecoverApply
  <2> QED
    BY <1>0, <1>7, <2>1, RecoveredStaysOver
<1>8. CASE Revoke \/ Bind
  <2>1. st'[r] = st[r] \/ st'[r] = RetiredState(st[r])
    BY <1>0, <1>8 DEF Revoke, Bind, RetireWork
  <2> QED
    BY <1>0, <1>1, <2>1, OverStays
<1>9. CASE (\E p \in Policy : ChangeAuthority(p)) \/ Tick \/ UNCHANGED vars
  BY <1>1, <1>9 DEF ChangeAuthority, Tick, vars
<1> QED
  BY <1>3, <1>4, <1>5, <1>6, <1>7, <1>8, <1>9 DEF Next, Recovery

\* What TerminalStays denies happens in one way only.  A run leaves a terminal state when the
\* recovery worker applies an observation it made before the run was reported cancelled
\* (recovery.rs does not ask again whether the run is active), its outcome is not known, and
\* its registration or its policy was withdrawn.  The run is then asked to cancel again; its
\* execution is what it was.
OnlyStaleRecoveryReopens ==
    [][\A r \in admitted : Terminal(st[r]) # "none" /\ Terminal(st'[r]) = "none" =>
          /\ RecoverApply(r) /\ ~Active(r)
          /\ Stale(r) \/ Withdrawn(r)
          /\ st[r].execution = "unknown"
          /\ st'[r].execution = st[r].execution]_vars

\* No report of the device, repeated or outdated, no poll, no retirement and no recovery of a
\* run that is still active changes a terminal state (docs/product/rss-mdm-prd.md:980).
THEOREM TerminalStatesLeftOnlyByStaleRecovery == Spec => OnlyStaleRecoveryReopens
<1>1. ASSUME TableInv, [Next]_vars, NEW r \in admitted,
             Terminal(st[r]) # "none", Terminal(st'[r]) = "none"
      PROVE  /\ RecoverApply(r) /\ ~Active(r)
             /\ Stale(r) \/ Withdrawn(r)
             /\ st[r].execution = "unknown"
             /\ st'[r].execution = st[r].execution
  <2>1. TypeOK /\ Coherent(st[r])
    BY <1>1 DEF TableInv
  <2>2. Over(st[r]) /\ ~Over(st'[r])
    BY <1>1 DEF Over
  <2>3. /\ RecoverApply(r)
        /\ Stale(r) \/ Withdrawn(r)
        /\ st[r].execution = "unknown"
        /\ st'[r].execution = st[r].execution
    BY <1>1, <2>1, <2>2, StepStaysOver
  <2>4. st[r].cancellation = "confirmed"
    BY <1>1, <2>3 DEF Terminal
  <2> QED
    BY <2>3, <2>4 DEF Active
<1>2. TableInv /\ [Next]_vars =>
        [\A r \in admitted : Terminal(st[r]) # "none" /\ Terminal(st'[r]) = "none" =>
          /\ RecoverApply(r) /\ ~Active(r)
          /\ Stale(r) \/ Withdrawn(r)
          /\ st[r].execution = "unknown"
          /\ st'[r].execution = st[r].execution]_vars
  BY <1>1
<1> QED
  BY <1>2, TableInit, TableNext, PTL DEF Spec, OnlyStaleRecoveryReopens

-----------------------------------------------------------------------------
(* An unknown outcome, and the runs after it. *)

\* The run that a step starts was deliverable and nobody had asked to cancel it.
LEMMA StartsOnlyActing ==
    ASSUME TypeOK, [Next]_vars, NEW y \in admitted,
           st[y].execution = "not_started", st'[y].execution = "running"
    PROVE  MayAct(y)
<1>1. y \in Run /\ ~Quiet
  BY DEF Quiet, Moves, TypeOK
<1>2. PICK a \in Attempt, delivered \in BOOLEAN : EventStart(a, delivered)
  BY <1>1, NextSteps
<1>3. StartsRun(a)
  BY <1>2, StartStep
<1>4. owner[a] = y
  BY <1>1, <1>3 DEF StartsRun
<1> QED
  BY <1>3, <1>4 DEF StartsRun, MayAct

\* In one registration, no run of a write policy starts while another one is Unknown.
UnknownBlocksStartOfRegistration ==
    [][\A x, y \in admitted :
          (/\ PolicyOf[x] = PolicyOf[y] /\ ~ReadOnly(PolicyOf[x])
           /\ info[x].generation = info[y].generation
           /\ st[x].execution = "unknown" /\ st[y].execution = "not_started")
          => st'[y].execution # "running"]_vars

\* The step form: an Unknown run still acts, so does the run that starts, and there is one.
LEMMA NoStartBesideUnknown ==
    ASSUME TypeOK, OnePendingRun, [Next]_vars, NEW x \in admitted, NEW y \in admitted,
           PolicyOf[x] = PolicyOf[y], ~ReadOnly(PolicyOf[x]),
           info[x].generation = info[y].generation,
           st[x].execution = "unknown", st[y].execution = "not_started"
    PROVE  st'[y].execution # "running"
<1> SUFFICES ASSUME st'[y].execution = "running" PROVE FALSE
  OBVIOUS
<1>1. MayAct(x)
  BY DEF MayAct
<1>2. MayAct(y)
  BY StartsOnlyActing
<1> QED
  BY <1>1, <1>2 DEF OnePendingRun

\* What production.rs:477 and enterprise-tasks.md:7 say of Unknown writes holds within every
\* registration, for any sequence of replacements.
THEOREM UnknownBlocksItsRegistration == Spec => UnknownBlocksStartOfRegistration
<1>1. Init => OnePendingRun
  BY DEF Init, OnePendingRun
<1>2. TableInv /\ OnePendingRun /\ [Next]_vars =>
        [\A x, y \in admitted :
          (/\ PolicyOf[x] = PolicyOf[y] /\ ~ReadOnly(PolicyOf[x])
           /\ info[x].generation = info[y].generation
           /\ st[x].execution = "unknown" /\ st[y].execution = "not_started")
          => st'[y].execution # "running"]_vars
  BY NoStartBesideUnknown DEF TableInv
<1> QED
  BY <1>1, <1>2, TableInit, TableNext, PendingNext, PTL
     DEF Spec, UnknownBlocksStartOfRegistration

\* Without replacement every run belongs to the current registration.
AllCurrent == \A r \in admitted : info[r].generation = generation

\* A poll admits into the current registration, and no other step changes either side.
LEMMA AllCurrentNext ==
    ASSUME ~Rebinding PROVE TableInv /\ AllCurrent /\ [Next]_vars => AllCurrent'
<1> SUFFICES ASSUME TableInv, AllCurrent, [Next]_vars PROVE AllCurrent'
  OBVIOUS
<1>1. TypeOK
  BY DEF TableInv
<1>2. CASE ClaimAction
  <2>1. PICK fresh, delay : Admits(fresh, delay)
    BY <1>1, <1>2, ClaimAdmits
  <2>2. /\ fresh \subseteq Run \ admitted /\ admitted' = admitted \cup fresh /\ admitted \subseteq Run
        /\ info' = [r \in Run |-> IF r \in fresh THEN QueuedInfo(r, delay) ELSE info[r]]
        /\ generation' = generation
    BY <1>1, <2>1 DEF Admits, TypeOK
  <2>3. \A r \in admitted : info'[r] = info[r]
    BY <2>2
  <2>4. \A r \in fresh : info'[r] = QueuedInfo(r, delay)
    BY <2>2
  <2>5. \A r : QueuedInfo(r, delay).generation = generation
    BY SMT DEF QueuedInfo
  <2> QED
    BY <2>2, <2>3, <2>4, <2>5 DEF AllCurrent
<1>3. CASE ~ClaimAction
  <2>1. Keeps
    BY <1>1, <1>3, OnlyPollsAdmit DEF TableInv
  <2>2. generation' = generation
    <3>1. CASE \E a \in Attempt : ReplayClaim(a) \/ ReplayStart(a) \/ DeviceExecute(a)
      BY <3>1 DEF ReplayClaim, ReplayStart, DeviceExecute, authority
    <3>2. CASE \E a \in Attempt : ActionEvent(a)
      BY <1>1, <3>2, EventSaves
    <3>3. CASE \E r \in Run : RelayAccept(r) \/ Recovery(r)
      BY <3>3 DEF RelayAccept, Recovery, RecoverObserve, RecoverApply, RecoverDrop, authority
    <3>4. CASE Revoke \/ Bind
      BY <3>4 DEF Revoke, Bind
    <3>5. CASE (\E p \in Policy : ChangeAuthority(p)) \/ Tick \/ UNCHANGED vars
      BY <3>5 DEF ChangeAuthority, Tick, vars, authority
    <3> QED
      BY <1>3, <3>1, <3>2, <3>3, <3>4, <3>5 DEF Next
  <2>3. admitted \subseteq Run
    BY <1>1 DEF TypeOK
  <2> QED
    BY <2>1, <2>2, <2>3 DEF AllCurrent, Keeps
<1> QED
  BY <1>2, <1>3

\* The replacement of a registration is the only way to start a write task beside an Unknown
\* one: while registrations are neither revoked nor replaced, none starts.
THEOREM UnknownBlocksWithoutReplacement ==
    ASSUME ~Rebinding PROVE Spec => UnknownBlocksStart
<1>1. Init => OnePendingRun /\ AllCurrent
  BY DEF Init, OnePendingRun, AllCurrent
<1>2. TableInv /\ OnePendingRun /\ AllCurrent /\ [Next]_vars =>
        [\A x, y \in admitted :
          (/\ PolicyOf[x] = PolicyOf[y] /\ ~ReadOnly(PolicyOf[x])
           /\ st[x].execution = "unknown" /\ st[y].execution = "not_started")
          => st'[y].execution # "running"]_vars
  BY NoStartBesideUnknown DEF TableInv, AllCurrent
<1>3. TableInv /\ AllCurrent /\ [Next]_vars => AllCurrent'
  BY AllCurrentNext
<1> QED
  BY <1>1, <1>2, <1>3, TableInit, TableNext, PendingNext, PTL DEF Spec, UnknownBlocksStart

\* Across registrations an Unknown run of a write policy holds back the admission of the next.
UnknownBlocksAdmission ==
    [][\A x \in admitted' \ admitted, y \in admitted :
          PolicyOf[x] = PolicyOf[y] /\ ~ReadOnly(PolicyOf[y]) => st[y].execution # "unknown"]_vars

\* policy_pending_in reads the Unknown runs of every registration: no poll, of whichever
\* registration, admits a run of a write policy that has one.
THEOREM UnknownBlocksEveryAdmission == Spec => UnknownBlocksAdmission
<1>1. ASSUME TableInv, [Next]_vars, NEW x \in admitted' \ admitted, NEW y \in admitted,
             PolicyOf[x] = PolicyOf[y], ~ReadOnly(PolicyOf[y]), st[y].execution = "unknown"
      PROVE  FALSE
  <2>1. TypeOK
    BY <1>1 DEF TableInv
  <2>2. ClaimAction
    BY <1>1, <2>1, OnlyPollsAdmit DEF TableInv, Keeps
  <2>3. PICK fresh, delay : Admits(fresh, delay)
    BY <2>1, <2>2, ClaimAdmits
  <2>4. x \in fresh
    BY <2>3 DEF Admits
  <2>5. ~PolicyPending(PolicyOf[x])
    BY <2>3, <2>4 DEF Admits, Admission, Admissible
  <2>6. Blocks(y)
    BY <1>1 DEF Blocks
  <2> QED
    BY <1>1, <2>5, <2>6 DEF PolicyPending
<1>2. TableInv /\ [Next]_vars =>
        [\A x \in admitted' \ admitted, y \in admitted :
          PolicyOf[x] = PolicyOf[y] /\ ~ReadOnly(PolicyOf[y]) => st[y].execution # "unknown"]_vars
  BY <1>1
<1> QED
  BY <1>2, TableInit, TableNext, PTL DEF Spec, UnknownBlocksAdmission

-----------------------------------------------------------------------------
(* Settled runs. *)

\* The safety half of EveryRunSettles: what has settled does not become open again.
SettledStaysSettled ==
    [][\A r \in admitted : Settled(r) => Settled(r)']_vars

\* A run that ended in a verdict, in Unknown or cancelled unstarted is not queued, started or
\* running again, whatever the device, the recovery worker or an administrator do; Unknown may
\* still become a verdict.  (Script and collection tasks; software results are not modelled.)
THEOREM SettlingIsFinal == Spec => SettledStaysSettled
<1>1. ASSUME TableInv, [Next]_vars, NEW r \in admitted, Settled(r) PROVE Settled(r)'
  <2>1. TypeOK /\ Coherent(st[r])
    BY <1>1 DEF TableInv
  <2>2. Evolves(st[r], st'[r])
    BY <1>1, <2>1, StepEvolves
  <2>3. st'[r] \in RunState /\ Coherent(st'[r]) /\ (Open(st'[r]) => Open(st[r]))
    BY <2>1, <2>2 DEF Evolves
  <2>4. ~Open(st[r])
    BY <1>1 DEF Settled, Open
  <2> QED
    BY <2>3, <2>4 DEF Settled, Open, Coherent, RunState, Execution
<1>2. TableInv /\ [Next]_vars => [\A r \in admitted : Settled(r) => Settled(r)']_vars
  BY <1>1
<1> QED
  BY <1>2, TableInit, TableNext, PTL DEF Spec, SettledStaysSettled
=============================================================================
