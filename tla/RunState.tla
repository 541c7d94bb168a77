------------------------------ MODULE RunState ------------------------------
(***************************************************************************)
(* The reducer of one action run: crates/execution-service/src/actions/    *)
(* state.rs.  A run state is a record of three independent coordinates     *)
(* (delivery, execution, cancellation), its deadline and the instant at    *)
(* which it started.  Every method that can fail is a pair: a guard CanX   *)
(* (FALSE where the method returns Err) and the state X that it leaves.    *)
(*                                                                         *)
(* The payload of Delivery::Claimed and Delivery::Received is flattened    *)
(* into the fields attempt and lease; Delivery::Queued carries neither.    *)
(***************************************************************************)
EXTENDS Integers

CONSTANTS Attempt,      \* attempt identities (random UUIDs)
          NoAttempt,    \* RunState::attempt() = None
          Lease         \* seconds a claim is held before receipt: 60 in state.rs

ASSUME LeaseAssumption == Lease \in Nat \ {0}
ASSUME NoAttemptAssumption == NoAttempt \notin Attempt

Delivery == {"queued", "claimed", "received"}
Execution == {"not_started", "running", "succeeded", "failed", "waiting_reboot", "unknown"}
Cancellation == {"none", "requested", "confirmed"}

\* started_at = None
NeverStarted == -1

RunState ==
    [delivery : Delivery, attempt : Attempt \cup {NoAttempt}, lease : Nat,
     execution : Execution, cancellation : Cancellation,
     deadline : Nat, started : Nat \cup {NeverStarted}]

Earlier(x, y) == IF x <= y THEN x ELSE y

-----------------------------------------------------------------------------
CanNew(deadline, now) == now < deadline

New(deadline) ==
    [delivery |-> "queued", attempt |-> NoAttempt, lease |-> 0,
     execution |-> "not_started", cancellation |-> "none",
     deadline |-> deadline, started |-> NeverStarted]

\* Mutant of LiveAttempt: a cancelled run is still live for its lease holder.
LiveAttemptCancelled(s, a, now) ==
    s.delivery # "queued" /\ s.attempt = a /\ now < s.lease /\ now < s.deadline

\* live_attempt: the caller holds the unexpired lease of a run nobody cancelled.
LiveAttempt(s, a, now) ==
    /\ s.delivery # "queued"
    /\ s.attempt = a
    /\ now < s.lease
    /\ now < s.deadline
    /\ s.cancellation = "none"

\* The executions whose effect is still open to evidence.
Unsettled(s) == s.execution \in {"running", "unknown", "waiting_reboot"}

\* A repeated claim by the lease holder succeeds and changes nothing.
HoldsLease(s, a, now) == s.delivery # "queued" /\ s.attempt = a /\ now < s.lease

CanClaim(s, a, now) ==
    /\ now < s.deadline
    /\ s.execution = "not_started"
    /\ s.cancellation = "none"
    /\ \/ s.delivery = "queued"
       \/ HoldsLease(s, a, now)
       \/ s.lease <= now /\ s.attempt # a

Claim(s, a, now) ==
    IF HoldsLease(s, a, now) THEN s
    ELSE [s EXCEPT !.delivery = "claimed", !.attempt = a,
                   !.lease = Earlier(now + Lease, s.deadline)]

CanReceived(s, a, now) == LiveAttempt(s, a, now)

\* Mutant of Received: receipt keeps the short claim lease.
ReceivedKeepsLease(s) == [s EXCEPT !.delivery = "received"]

Received(s) == [s EXCEPT !.delivery = "received", !.lease = s.deadline]

\* start on a run this attempt already started is accepted and changes nothing.
AlreadyStarted(s, a, now) ==
    /\ s.execution = "running"
    /\ s.attempt = a
    /\ now < s.deadline
    /\ s.cancellation = "none"

\* Mutant of CanStart: whoever holds the live received attempt may start it.
CanStartAgain(s, a, now) == LiveAttempt(s, a, now) /\ s.delivery = "received"

CanStart(s, a, now) ==
    \/ AlreadyStarted(s, a, now)
    \/ /\ LiveAttempt(s, a, now)
       /\ s.delivery = "received"
       /\ s.execution = "not_started"

\* Mutant of Start: the start instant is stored relative to the deadline.
StartRelative(s, a, now) ==
    IF AlreadyStarted(s, a, now) THEN s
    ELSE [s EXCEPT !.execution = "running", !.started = now - s.deadline]

Start(s, a, now) ==
    IF AlreadyStarted(s, a, now) THEN s
    ELSE [s EXCEPT !.execution = "running", !.started = now]

TrustsResult(s, observed) ==
    Unsettled(s) /\ s.started # NeverStarted /\ s.started <= observed

\* Mutant of CanReport: evidence may replace evidence.
CanReportAgain(s, a) == s.attempt = a /\ s.execution # "not_started"

\* result, uncertain_result and waiting_reboot share one guard.
CanReport(s, a) == s.attempt = a /\ Unsettled(s)

Result(s, success) ==
    [s EXCEPT !.execution = IF success THEN "succeeded" ELSE "failed"]

UncertainResult(s) == [s EXCEPT !.execution = "unknown"]

WaitingReboot(s) == [s EXCEPT !.execution = "waiting_reboot"]

\* Mutant of Cancel: a run that never started waits for a confirmation.
CancelAlwaysAsks(s) == [s EXCEPT !.cancellation = "requested"]

Cancel(s) ==
    [s EXCEPT !.cancellation =
        IF s.execution = "not_started" THEN "confirmed" ELSE "requested"]

CanCancelled(s, a) ==
    s.attempt = a /\ s.cancellation \in {"requested", "confirmed"}

Cancelled(s) ==
    IF s.cancellation = "confirmed" THEN s
    ELSE [s EXCEPT !.cancellation = "confirmed",
                   !.execution = IF s.execution = "running" THEN "unknown" ELSE s.execution]

Expire(s, now) ==
    IF now < s.deadline THEN s
    ELSE CASE s.execution = "running"     -> [s EXCEPT !.execution = "unknown"]
           [] s.execution = "not_started" -> [s EXCEPT !.cancellation = "confirmed"]
           [] OTHER                       -> s
=============================================================================
