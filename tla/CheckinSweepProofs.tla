------------------------- MODULE CheckinSweepProofs -------------------------
(***************************************************************************)
(* The three safety properties of the check-in sweep for every number of   *)
(* policies and check-ins.  The inductive invariant adds that a steady     *)
(* policy is enabled (so the next page holds it) and that the events of a  *)
(* row are ordered: swept, then active, then pending, which is the newest. *)
(***************************************************************************)
EXTENDS CheckinSweep, PagingProofs

EventOrder ==
    /\ pending \in {0, latest} /\ active <= latest /\ swept <= latest
    /\ active # 0 => swept < active
    /\ pending # 0 => swept < pending /\ active < pending

Inv ==
    /\ TypeOK
    /\ steady \subseteq enabled
    /\ EventOrder
    /\ SweepCovers
    /\ LatestIsKept
    /\ EventIsScheduled

\* The next policy is the least one that is left.
LEMMA NextPolicyIsLeast ==
    ASSUME TypeOK, Rest # {}
    PROVE  NextPolicy \in Rest /\ \A q \in Rest : NextPolicy <= q
<1>1. Rest \subseteq Nat
  <2>1. Rest \subseteq Policy
    BY DEF TypeOK, Rest, Beyond
  <2>2. Policy \subseteq Nat
    BY PoliciesAssumption DEF Policy
  <2> QED
    BY <2>1, <2>2
<1>2. \E p \in Rest : \A q \in Rest : p <= q
  BY <1>1, Least
<1> QED
  BY <1>2, Zenon DEF NextPolicy

\* The initial states satisfy the invariant.
LEMMA InitInv == Init => Inv
  BY PoliciesAssumption, EventsAssumption
     DEF Init, Inv, TypeOK, EventOrder, SweepCovers, LatestIsKept, EventIsScheduled, HasEvent, Event

\* Offering the event to the next policy skips no steady policy.
LEMMA StepPolicyInv == ASSUME Inv, StepPolicy PROVE Inv'
<1> USE PoliciesAssumption, EventsAssumption
<1>1. NextPolicy \in Rest /\ \A q \in Rest : NextPolicy <= q
  BY NextPolicyIsLeast DEF Inv, StepPolicy
<1>2. NextPolicy \in Policy /\ NextPolicy \in enabled
  BY <1>1 DEF Inv, TypeOK, Rest, Beyond
<1>3. TypeOK'
  <2>1. NextPolicy \in 0 .. Policies
    BY <1>2 DEF Policy
  <2>2. active' \in Event /\ pending' \in Event
    BY DEF StepPolicy, Inv, TypeOK, ActiveEvent, PendingEvent, Event
  <2>3. steady' \subseteq Policy /\ offered' \subseteq Policy
    BY <1>2 DEF StepPolicy, Inv, TypeOK, Steady, Offered
  <2> QED
    BY <2>1, <2>2, <2>3 DEF StepPolicy, Inv, TypeOK
<1>4. steady' \subseteq enabled'
  BY DEF StepPolicy, Inv, Steady
<1>5. EventOrder' /\ LatestIsKept' /\ EventIsScheduled'
  BY DEF StepPolicy, Inv, TypeOK, EventOrder, LatestIsKept, EventIsScheduled, HasEvent, Promotes,
         ActiveEvent, PendingEvent, Event
<1>6. SweepCovers'
  <2> SUFFICES ASSUME NEW p \in steady' PROVE (active' # 0 /\ p > after') \/ p \in offered'
    BY DEF SweepCovers
  <2>1. active' # 0 /\ p \in enabled /\ p \in Nat /\ NextPolicy \in Nat
    BY <1>2, <1>4 DEF StepPolicy, Inv, TypeOK, Policy, HasEvent, ActiveEvent, Promotes
  <2>2. CASE p \in Rest
    BY <1>1, <2>1, <2>2 DEF StepPolicy
  <2>3. CASE p \notin Rest
    <3>1. ~ (p > PolicyAfter)
      BY <2>1, <2>3 DEF Rest, Beyond
    <3>2. ~Promotes
      BY <2>1, <3>1, <1>4 DEF PolicyAfter, Inv, TypeOK, Policy, StepPolicy
    <3> QED
      BY <3>1, <3>2 DEF StepPolicy, Inv, SweepCovers, PolicyAfter, Steady, Offered
  <2> QED
    BY <2>2, <2>3
<1> QED
  BY <1>3, <1>4, <1>5, <1>6 DEF Inv

\* A sweep that ends has offered its event to every steady policy.
LEMMA StepDoneInv == ASSUME Inv, StepDone PROVE Inv'
<1> USE PoliciesAssumption, EventsAssumption
<1>1. TypeOK'
  <2>1. active' \in Event /\ pending' \in Event /\ swept' \in Event /\ after' \in 0 .. Policies
    BY DEF StepDone, Clear, Inv, TypeOK, ActiveEvent, PendingEvent, Event
  <2>2. steady' \subseteq Policy /\ offered' \subseteq Policy
    BY DEF StepDone, Inv, TypeOK, Steady, Offered
  <2> QED
    BY <2>1, <2>2 DEF StepDone, Inv, TypeOK
<1>2. steady' \subseteq enabled'
  BY DEF StepDone, Inv, Steady
<1>3. EventOrder' /\ LatestIsKept' /\ EventIsScheduled'
  BY DEF StepDone, Clear, Inv, TypeOK, EventOrder, LatestIsKept, EventIsScheduled, HasEvent,
         Promotes, ActiveEvent, PendingEvent, Event
<1>4. SweepCovers'
  <2> SUFFICES ASSUME NEW p \in steady' PROVE p \in offered'
    BY DEF SweepCovers
  <2>1. p \in enabled /\ p \in Nat /\ p > 0 /\ p \notin Rest
    BY <1>2 DEF StepDone, Inv, TypeOK, Policy
  <2>2. ~ (p > PolicyAfter)
    BY <2>1 DEF Rest, Beyond
  <2>3. ~Promotes
    BY <2>1, <2>2 DEF PolicyAfter
  <2> QED
    BY <2>2, <2>3 DEF StepDone, Inv, SweepCovers, PolicyAfter, Steady, Offered
<1> QED
  BY <1>1, <1>2, <1>3, <1>4 DEF Inv

\* Every step keeps the invariant.
LEMMA NextInv == ASSUME Inv, [Next]_vars PROVE Inv'
<1> USE PoliciesAssumption, EventsAssumption
<1>1. ASSUME NEW p \in Policy, SetPolicy(p) PROVE Inv'
  BY <1>1 DEF SetPolicy, Inv, TypeOK, EventOrder, SweepCovers, LatestIsKept, EventIsScheduled, HasEvent
<1>2. CASE Retire
  BY <1>2 DEF Retire, Inv, TypeOK, EventOrder, SweepCovers, LatestIsKept, EventIsScheduled, HasEvent
<1>3. CASE Record
  BY <1>3 DEF Record, Inv, TypeOK, EventOrder, SweepCovers, LatestIsKept, EventIsScheduled, HasEvent,
              Event
<1>4. CASE StepStale
  BY <1>4 DEF StepStale, Clear, Steady, Offered, Inv, TypeOK, EventOrder, SweepCovers, LatestIsKept,
              EventIsScheduled, HasEvent, Event
<1>5. CASE StepDone
  BY <1>5, StepDoneInv
<1>6. CASE StepPolicy
  BY <1>6, StepPolicyInv
<1>7. CASE Inspect
  BY <1>7 DEF Inspect, Inv, TypeOK, EventOrder, SweepCovers, LatestIsKept, EventIsScheduled, HasEvent
<1>8. CASE Settle
  BY <1>8 DEF Settle, Inv, TypeOK, EventOrder, SweepCovers, LatestIsKept, EventIsScheduled, HasEvent
<1>9. CASE UNCHANGED vars
  BY <1>9 DEF vars, Inv, TypeOK, EventOrder, SweepCovers, LatestIsKept, EventIsScheduled, HasEvent
<1> QED
  BY <1>1, <1>2, <1>3, <1>4, <1>5, <1>6, <1>7, <1>8, <1>9 DEF Next, Step

\* Type correctness of the check-in row, its reconcile target and the histories: the sweep
\* cursor is always NULL or a policy, also right after the row is cleared.
THEOREM TypeCorrect == Spec => []TypeOK
  BY InitInv, NextInv, PTL DEF Spec, Inv

\* No sweep passes a steady policy by.
THEOREM SweepsCover == Spec => []SweepCovers
  BY InitInv, NextInv, PTL DEF Spec, Inv

\* The newest check-in of a current registration is never lost.
THEOREM LatestIsAlwaysKept == Spec => []LatestIsKept
  BY InitInv, NextInv, PTL DEF Spec, Inv

\* A stored event always has scheduled work.
THEOREM EventsAreScheduled == Spec => []EventIsScheduled
  BY InitInv, NextInv, PTL DEF Spec, Inv
=============================================================================
