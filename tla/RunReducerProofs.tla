-------------------------- MODULE RunReducerProofs --------------------------
(***************************************************************************)
(* Proofs about RunReducer, for every set of attempts, lease, deadline and *)
(* bound on the clock.                                                     *)
(***************************************************************************)
EXTENDS RunReducer, TLAPS

\* The inductive invariant: the coordinates of the run agree.
Inv == TypeOK /\ Coherent /\ RequestedIsAddressed

\* RunState::new returns a coherent run.
LEMMA InitInv == Init => Inv
  BY DeadlineAssumption, NoAttemptAssumption
     DEF Init, Inv, TypeOK, Coherent, RequestedIsAddressed, New, RunState, Delivery, Execution,
         Cancellation, NeverStarted

\* Every method keeps the invariant, whoever calls it and whenever.
LEMMA NextInv == Inv /\ [Next]_vars => Inv'
<1> SUFFICES ASSUME Inv, [Next]_vars PROVE Inv'
  OBVIOUS
<1> USE LeaseAssumption, NoAttemptAssumption
    DEF Inv, TypeOK, Coherent, RequestedIsAddressed, RunState, Delivery, Execution, Cancellation,
        NeverStarted
<1>1. ASSUME NEW a \in Attempt, DoClaim(a), now' = now PROVE Inv'
  <2>1. CASE HoldsLease(s, a, now)
    BY <1>1, <2>1 DEF DoClaim, Claim
  <2>2. CASE ~HoldsLease(s, a, now)
    <3> DEFINE lease == Earlier(now + Lease, s.deadline)
    <3>1. lease \in Nat /\ lease <= s.deadline
      BY DEF Earlier
    <3>2. s' = [s EXCEPT !.delivery = "claimed", !.attempt = a, !.lease = lease]
      BY <1>1, <2>2 DEF DoClaim, Claim
    <3>3. s.execution = "not_started" /\ s.cancellation = "none"
      BY <1>1 DEF DoClaim, CanClaim
    <3> HIDE DEF lease
    <3> QED
      BY <1>1, <3>1, <3>2, <3>3
  <2> QED
    BY <2>1, <2>2
<1>2. ASSUME NEW a \in Attempt, DoReceived(a), now' = now PROVE Inv'
  BY <1>2 DEF DoReceived, CanReceived, LiveAttempt, Received
<1>3. ASSUME NEW a \in Attempt, DoStart(a), now' = now PROVE Inv'
  <2>1. CASE AlreadyStarted(s, a, now)
    BY <1>3, <2>1 DEF DoStart, Start
  <2>2. CASE ~AlreadyStarted(s, a, now)
    <3>1. s' = [s EXCEPT !.execution = "running", !.started = now]
      BY <1>3, <2>2 DEF DoStart, Start
    <3>2. s.delivery = "received" /\ now < s.deadline /\ s.cancellation = "none"
      BY <1>3, <2>2 DEF DoStart, CanStart, LiveAttempt
    <3>3. s' \in RunState
      BY <3>1
    <3>4. /\ s'.delivery = s.delivery /\ s'.attempt = s.attempt /\ s'.lease = s.lease
          /\ s'.cancellation = s.cancellation /\ s'.deadline = s.deadline
          /\ s'.execution = "running" /\ s'.started = now
      BY <3>1
    <3> QED
      BY <1>3, <3>2, <3>3, <3>4
  <2> QED
    BY <2>1, <2>2
<1>4. ASSUME NEW a \in Attempt, DoReport(a), now' = now PROVE Inv'
  BY <1>4 DEF DoReport, CanReport, Unsettled, Result, UncertainResult, WaitingReboot
<1>5. ASSUME NEW a \in Attempt, DoCancelled(a), now' = now PROVE Inv'
  BY <1>5 DEF DoCancelled, CanCancelled, Cancelled
<1>6. CASE DoCancel /\ now' = now
  BY <1>6 DEF DoCancel, Cancel
<1>7. CASE DoExpire /\ now' = now
  BY <1>7 DEF DoExpire, Expire
<1>8. CASE Tick
  BY <1>8 DEF Tick
<1>9. CASE UNCHANGED vars
  BY <1>9 DEF vars
<1> QED
  BY <1>1, <1>2, <1>3, <1>4, <1>5, <1>6, <1>7, <1>8, <1>9 DEF Next

\* Type correctness, agreement of the coordinates, and that a requested cancellation always
\* has an attempt for poll::cancellations to address, in every reachable state.
THEOREM Coordinates == Spec => [](TypeOK /\ Coherent /\ RequestedIsAddressed)
  BY InitInv, NextInv, PTL DEF Spec, Inv

\* Type correctness of the run state, whoever calls its methods and in whatever order.
THEOREM TypeCorrect == Spec => []TypeOK
  BY Coordinates, PTL

\* A requested cancellation always has an attempt to be delivered to.
THEOREM RequestsAreAddressed == Spec => []RequestedIsAddressed
  BY Coordinates, PTL

\* What one step may do to a run that has started or has its verdict.
LEMMA StepIsFinal ==
    ASSUME Inv, [Next]_vars
    PROVE  /\ s.started # NeverStarted =>
                 /\ s'.started = s.started
                 /\ s'.attempt = s.attempt
                 /\ s.execution # "running" => s'.execution # "running"
           /\ s.execution \in {"succeeded", "failed"} => s'.execution = s.execution
           /\ (s.execution = "not_started" /\ s.cancellation = "confirmed") =>
                 (s'.execution = "not_started" /\ s'.cancellation = "confirmed")
<1> USE DEF Inv, TypeOK, Coherent, RunState, Execution, NeverStarted
<1>1. CASE \E a \in Attempt : DoClaim(a)
  BY <1>1 DEF DoClaim, CanClaim, Claim, HoldsLease
<1>2. CASE \E a \in Attempt : DoReceived(a)
  BY <1>2 DEF DoReceived, CanReceived, LiveAttempt, Received
<1>3. CASE \E a \in Attempt : DoStart(a)
  BY <1>3 DEF DoStart, CanStart, Start, AlreadyStarted, LiveAttempt
<1>4. CASE \E a \in Attempt : DoReport(a)
  BY <1>4 DEF DoReport, CanReport, Unsettled, Result, UncertainResult, WaitingReboot
<1>5. CASE \E a \in Attempt : DoCancelled(a)
  BY <1>5 DEF DoCancelled, CanCancelled, Cancelled
<1>6. CASE DoCancel
  BY <1>6 DEF DoCancel, Cancel
<1>7. CASE DoExpire
  BY <1>7 DEF DoExpire, Expire
<1>8. CASE Tick \/ UNCHANGED vars
  BY <1>8 DEF Tick, vars
<1> QED
  BY <1>1, <1>2, <1>3, <1>4, <1>5, <1>6, <1>7, <1>8 DEF Next

\* No order of calls starts a run a second time or moves it to another attempt after its start.
THEOREM RerunNever == Spec => NeverRerun
<1>1. Inv /\ [Next]_vars =>
        [s.started # NeverStarted =>
            /\ s'.started = s.started
            /\ s'.attempt = s.attempt
            /\ s.execution # "running" => s'.execution # "running"]_vars
  BY StepIsFinal
<1> QED
  BY <1>1, InitInv, NextInv, PTL DEF Spec, NeverRerun

\* A success or failure is never overwritten, and a run cancelled unstarted never starts.
THEOREM VerdictStays == Spec => VerdictIsFinal
<1>1. Inv /\ [Next]_vars =>
        [/\ s.execution \in {"succeeded", "failed"} => s'.execution = s.execution
         /\ (s.execution = "not_started" /\ s.cancellation = "confirmed") =>
               (s'.execution = "not_started" /\ s'.cancellation = "confirmed")]_vars
  BY StepIsFinal
<1> QED
  BY <1>1, InitInv, NextInv, PTL DEF Spec, VerdictIsFinal
=============================================================================
