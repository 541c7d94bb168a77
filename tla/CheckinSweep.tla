---------------------------- MODULE CheckinSweep ----------------------------
(***************************************************************************)
(* The durable admission sweep after a native check-in.  A check-in event  *)
(* waits in the pending slot of its registration, is promoted to the       *)
(* active slot, and is then offered to one policy per transaction, in id   *)
(* order, until no policy is left.  Newer check-ins replace the pending    *)
(* event and never disturb the sweep in progress.                          *)
(*                                                                         *)
(* One registration.  A policy counts as enabled while it is an enabled    *)
(* native collection with a check-in or registration trigger.  Events are  *)
(* numbered in the order they are recorded; 0 stands for SQL NULL.         *)
(***************************************************************************)
EXTENDS Paging

CONSTANTS Policies,     \* policies are 1..Policies, in id order
          MaxEvents     \* bound on recorded check-ins

ASSUME PoliciesAssumption == Policies \in Nat
ASSUME EventsAssumption == MaxEvents \in Nat

Policy == 1 .. Policies

VARIABLES enabled,                      \* policies a sweep looks for
          current,                      \* the registration is active, same generation
          pending, active, after,       \* mdm_commands.native_checkins
          target,                       \* reconcile target of the check-in work
          latest,                       \* events recorded so far
          swept,                        \* history: the last event swept to the end
          steady,                       \* history: enabled since the event was promoted
          offered                       \* history: policies the event was offered to

vars == <<enabled, current, pending, active, after, target, latest, swept, steady, offered>>

Event == 0 .. MaxEvents

TypeOK ==
    /\ enabled \subseteq Policy /\ current \in BOOLEAN
    /\ pending \in Event /\ active \in Event /\ after \in 0 .. Policies
    /\ target \in {"idle", "due", "leaving"}
    /\ latest \in Event /\ swept \in Event
    /\ steady \subseteq Policy /\ offered \subseteq Policy

Init ==
    /\ enabled \in SUBSET Policy /\ current = TRUE
    /\ pending = 0 /\ active = 0 /\ after = 0
    /\ target = "idle"
    /\ latest = 0 /\ swept = 0
    /\ steady = {} /\ offered = {}

-----------------------------------------------------------------------------
SetPolicy(p) ==
    /\ enabled' = IF p \in enabled THEN enabled \ {p} ELSE enabled \cup {p}
    /\ steady' = steady \ {p}
    /\ UNCHANGED <<current, pending, active, after, target, latest, swept, offered>>

\* The registration is retired or superseded, for good.
Retire ==
    /\ current
    /\ current' = FALSE
    /\ UNCHANGED <<enabled, pending, active, after, target, latest, swept, steady, offered>>

\* Mutant of Record: the event is stored and the target is not woken.
RecordSilent ==
    /\ current /\ enabled # {} /\ latest < MaxEvents
    /\ latest' = latest + 1
    /\ pending' = latest + 1
    /\ UNCHANGED <<enabled, current, active, after, target, swept, steady, offered>>

\* record: an accepted protocol request of a current registration.  Without a policy
\* that could use it nothing is stored.
Record ==
    /\ current /\ enabled # {} /\ latest < MaxEvents
    /\ latest' = latest + 1
    /\ pending' = latest + 1
    /\ target' = "due"
    /\ UNCHANGED <<enabled, current, active, after, swept, steady, offered>>

-----------------------------------------------------------------------------
(* checkin_step: one transaction of the claim holder.  It first promotes the *)
(* pending event if no event is active; the operators below are the row and  *)
(* the histories after that.                                                 *)

HasEvent == active # 0 \/ pending # 0

Promotes == active = 0

ActiveEvent == IF Promotes THEN pending ELSE active
PendingEvent == IF Promotes THEN 0 ELSE pending
PolicyAfter == IF Promotes THEN 0 ELSE after
Steady == IF Promotes THEN enabled ELSE steady
Offered == IF Promotes THEN {} ELSE offered

Rest == Beyond(enabled, PolicyAfter)

\* Mutant of NextPolicy: the page is ordered the other way.
NextPolicyDescending == CHOOSE p \in Rest : \A q \in Rest : q <= p

\* ORDER BY id LIMIT 1
NextPolicy == CHOOSE p \in Rest : \A q \in Rest : p <= q

\* Mutant of Clear: an ended sweep drops the waiting event too.
ClearAll(stale) == active' = 0 /\ after' = 0 /\ pending' = 0

\* clear: the finished event; an event of a stale registration takes the waiting one along.
Clear(stale) ==
    /\ active' = 0 /\ after' = 0
    /\ pending' = IF stale THEN 0 ELSE PendingEvent

StepStale ==
    /\ target = "due" /\ HasEvent
    /\ ~current
    /\ Clear(TRUE)
    /\ steady' = Steady /\ offered' = Offered
    /\ UNCHANGED <<enabled, current, target, latest, swept>>

\* The sweep is over; a waiting event is promoted by a later claim.
StepDone ==
    /\ target = "due" /\ HasEvent
    /\ current /\ Rest = {}
    /\ Clear(FALSE)
    /\ swept' = ActiveEvent
    /\ steady' = Steady /\ offered' = Offered
    /\ UNCHANGED <<enabled, current, target, latest>>

\* The event is offered to the next policy (accept_for_device).
StepPolicy ==
    /\ target = "due" /\ HasEvent
    /\ current /\ Rest # {}
    /\ active' = ActiveEvent /\ pending' = PendingEvent
    /\ after' = NextPolicy
    /\ steady' = Steady /\ offered' = Offered \cup {NextPolicy}
    /\ UNCHANGED <<enabled, current, target, latest, swept>>

Step == StepStale \/ StepDone \/ StepPolicy

\* observe finds neither slot filled; the claim settles later, unless a wake came.
Inspect ==
    /\ target = "due" /\ ~HasEvent
    /\ target' = "leaving"
    /\ UNCHANGED <<enabled, current, pending, active, after, latest, swept, steady, offered>>

Settle ==
    /\ target = "leaving"
    /\ target' = "idle"
    /\ UNCHANGED <<enabled, current, pending, active, after, latest, swept, steady, offered>>

Next ==
    \/ \E p \in Policy : SetPolicy(p)
    \/ Retire \/ Record \/ Step \/ Inspect \/ Settle

Spec == Init /\ [][Next]_vars

\* A due target is claimed again until it settles.
FairSpec == Spec /\ WF_vars(Step)

-----------------------------------------------------------------------------
\* A sweep passes no policy by: of the policies enabled since the event was promoted,
\* each is still ahead of the cursor or has been offered the event, and when the
\* sweep has ended all of them have.  Policies enabled and disabled during the sweep
\* do not disturb the others.
SweepCovers ==
    current => \A p \in steady : (active # 0 /\ p > after) \/ p \in offered

\* The newest check-in of a current registration is waiting, being swept or swept;
\* one that arrives during a sweep is not dropped when the sweep ends
\* (native_recovery.rs: "A subsequent claim promotes the latest event").
LatestIsKept == current => latest \in {pending, active, swept}

\* A stored event keeps its work scheduled, also when it is recorded while the claim
\* that found nothing is settling.
EventIsScheduled == HasEvent => target = "due"

\* Every recorded check-in is followed by the complete sweep of an event that is at
\* least as new, unless the registration is retired, however often policies change
\* and further check-ins arrive.
CheckinIsSwept ==
    \A e \in 1 .. MaxEvents : latest >= e ~> (swept >= e \/ ~current)
=============================================================================
