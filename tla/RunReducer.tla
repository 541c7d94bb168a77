----------------------------- MODULE RunReducer -----------------------------
(***************************************************************************)
(* One action run under every order of calls to its reducer.               *)
(*                                                                         *)
(* action_event, claim_action, recover_one and retire_in all change a run  *)
(* only through the methods of RunState.  This module lets any caller call *)
(* any method at any instant with any attempt, so that what it shows holds *)
(* whatever the transactions around the reducer do.  The clock is the      *)
(* database clock of storage::now.                                         *)
(***************************************************************************)
EXTENDS RunState

CONSTANTS MaxTime,      \* bound on the clock, for model checking
          Deadline      \* the run's deadline

ASSUME DeadlineAssumption == Deadline \in Nat /\ CanNew(Deadline, 0)
ASSUME MaxTimeAssumption == MaxTime \in Nat

VARIABLES s,            \* the run's RunState
          now           \* the clock

vars == <<s, now>>

Init == s = New(Deadline) /\ now = 0

DoClaim(a) == CanClaim(s, a, now) /\ s' = Claim(s, a, now)

DoReceived(a) == CanReceived(s, a, now) /\ s' = Received(s)

DoStart(a) == CanStart(s, a, now) /\ s' = Start(s, a, now)

DoReport(a) ==
    /\ CanReport(s, a)
    /\ s' \in {Result(s, TRUE), Result(s, FALSE), UncertainResult(s), WaitingReboot(s)}

DoCancel == s' = Cancel(s)

DoCancelled(a) == CanCancelled(s, a) /\ s' = Cancelled(s)

DoExpire == s' = Expire(s, now)

Tick == now < MaxTime /\ now' = now + 1 /\ s' = s

Next ==
    \/ /\ \/ \E a \in Attempt : \/ DoClaim(a)
                                \/ DoReceived(a)
                                \/ DoStart(a)
                                \/ DoReport(a)
                                \/ DoCancelled(a)
          \/ DoCancel
          \/ DoExpire
       /\ now' = now
    \/ Tick

Spec == Init /\ [][Next]_vars

-----------------------------------------------------------------------------
TypeOK == s \in RunState /\ now \in Nat

\* The three coordinates agree with each other: a run has started exactly when its
\* execution has left not_started, only the attempt that was received can have started
\* it and only before the deadline, and a lease never outlives the deadline.
Coherent ==
    /\ s.delivery = "queued" <=> s.attempt = NoAttempt
    /\ s.started = NeverStarted <=> s.execution = "not_started"
    /\ s.started # NeverStarted => s.delivery = "received" /\ s.started < s.deadline
    /\ s.delivery = "claimed" => s.lease <= s.deadline
    /\ s.delivery = "received" => s.lease = s.deadline

\* A cancellation that is still asked of the device names the attempt it is asked of.
\* poll::cancellations parses that attempt for every requested run and fails the whole
\* poll of the device when there is none.
RequestedIsAddressed ==
    s.cancellation = "requested" => s.started # NeverStarted /\ s.attempt # NoAttempt

\* No order of calls starts a run twice: once started, the start instant and the attempt
\* are fixed, and an execution that has left running never returns to it ("Late evidence
\* from the same attempt can resolve Unknown, but cannot authorize rerun").
NeverRerun ==
    [][s.started # NeverStarted =>
          /\ s'.started = s.started
          /\ s'.attempt = s.attempt
          /\ s.execution # "running" => s'.execution # "running"]_vars

\* Terminal evidence is final: a success or a failure is never overwritten, and a run
\* cancelled before it started never starts (what delivery_ended in unmanage.rs relies on).
VerdictIsFinal ==
    [][/\ s.execution \in {"succeeded", "failed"} => s'.execution = s.execution
       /\ (s.execution = "not_started" /\ s.cancellation = "confirmed") =>
             (s'.execution = "not_started" /\ s'.cancellation = "confirmed")]_vars
=============================================================================
