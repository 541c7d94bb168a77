------------------------------ MODULE TaskPoll ------------------------------
(***************************************************************************)
(* The two bounded pages of an agent's poll (claim_action): the policies   *)
(* considered for admission and the cancellations listed in the answer.    *)
(* Each has a persisted cursor that moves when the poll commits, whether   *)
(* or not the agent ever reads the answer.  Only an answer with an offer   *)
(* leaves a receipt, so only that one can be repeated.                     *)
(*                                                                         *)
(* One registration; its runs are 1..Runs and the tenant's agent policies  *)
(* 1..Policies, both in id order.  What a poll does with an offer is the   *)
(* subject of ActionRun.                                                   *)
(***************************************************************************)
EXTENDS Paging

CONSTANTS Runs, Policies,
          CancellationPage,     \* MAX_TASK_CANCELLATIONS: 128
          PolicyPage            \* 64 in agent_versions_in

ASSUME SizesAssumption == Runs \in Nat /\ Policies \in Nat
ASSUME PagesAssumption == CancellationPage \in Nat \ {0} /\ PolicyPage \in Nat \ {0}

Run == 1 .. Runs
Policy == 1 .. Policies

VARIABLES requested,         \* runs with cancellation = 'requested'
          enabled,           \* enabled agent policies
          cancellationAfter, \* action_polls.cancellation_after, 0 for NULL
          policyAfter,       \* action_polls.policy_after, 0 for NULL
          receipt,           \* the stored answer of an unanswered poll
          told,              \* cancellations the agent has read
          unlisted,          \* history: polls since a requested run was listed
          unconsidered       \* history: polls since an enabled policy was considered

vars == <<requested, enabled, cancellationAfter, policyAfter, receipt, told, unlisted, unconsidered>>

NoReceipt == [stored |-> FALSE, listed |-> {}]

TypeOK ==
    /\ requested \subseteq Run /\ enabled \subseteq Policy
    /\ cancellationAfter \in 0 .. Runs /\ policyAfter \in 0 .. Policies
    /\ receipt \in [stored : BOOLEAN, listed : SUBSET Run]
    /\ told \subseteq Run
    /\ unlisted \in [Run -> Nat] /\ unconsidered \in [Policy -> Nat]

Init ==
    /\ requested = {} /\ enabled = {}
    /\ cancellationAfter = 0 /\ policyAfter = 0
    /\ receipt = NoReceipt /\ told = {}
    /\ unlisted = [r \in Run |-> 0] /\ unconsidered = [p \in Policy |-> 0]

-----------------------------------------------------------------------------
(* Elsewhere in the system. *)

\* A started run is asked to stop; a run may be asked again after it confirmed.
RequestCancellation(r) ==
    /\ r \notin requested
    /\ requested' = requested \cup {r}
    /\ UNCHANGED <<enabled, cancellationAfter, policyAfter, receipt, told, unlisted, unconsidered>>

\* The agent reports the stop, or recovery confirms it.
ConfirmCancellation(r) ==
    /\ r \in requested
    /\ requested' = requested \ {r}
    /\ told' = told \ {r}
    /\ unlisted' = [unlisted EXCEPT ![r] = 0]
    /\ UNCHANGED <<enabled, cancellationAfter, policyAfter, receipt, unconsidered>>

SetPolicy(p) ==
    /\ enabled' = IF p \in enabled THEN enabled \ {p} ELSE enabled \cup {p}
    /\ unconsidered' = [unconsidered EXCEPT ![p] = 0]
    /\ UNCHANGED <<requested, cancellationAfter, policyAfter, receipt, told, unlisted>>

-----------------------------------------------------------------------------
(* The poll. *)

\* The histories count up to one more than the bound they are compared with.
Missed(n, bound) == IF n > bound THEN n ELSE n + 1

Greatest0(S) == IF S = {} THEN 0 ELSE CHOOSE x \in S : \A y \in S : y <= x

Cancellations == FirstPage(Beyond(requested, cancellationAfter), CancellationPage)

\* Mutant of NextCancellationAfter: an empty page keeps the cursor.
NextCancellationAfterKept ==
    IF Cancellations = {} THEN cancellationAfter ELSE Greatest0(Cancellations)

\* The cursor is the last id listed; an empty page starts over.
NextCancellationAfter == Greatest0(Cancellations)

Versions == FirstPage(Beyond(enabled, policyAfter), PolicyPage)

\* Mutant of NextPolicyAfter: a full page starts over and a short one does not.
NextPolicyAfterReset == IF Cardinality(Versions) < PolicyPage THEN Greatest0(Versions) ELSE 0

\* A page that is not full starts over.
NextPolicyAfter == IF Cardinality(Versions) = PolicyPage THEN Greatest0(Versions) ELSE 0

\* claim_action under a fresh operation: both cursors move with the commit.  The
\* answer may be lost; it can be asked for again only when it carries an offer.
Poll(offer, delivered) ==
    /\ cancellationAfter' = NextCancellationAfter
    /\ policyAfter' = NextPolicyAfter
    /\ told' = IF delivered THEN told \cup Cancellations ELSE told
    /\ receipt' = IF offer /\ ~delivered THEN [stored |-> TRUE, listed |-> Cancellations]
                  ELSE NoReceipt
    /\ unlisted' = [r \in Run |-> IF r \in requested \ Cancellations
                                  THEN Missed(unlisted[r], Runs) ELSE 0]
    /\ unconsidered' = [p \in Policy |-> IF p \in enabled \ Versions
                                         THEN Missed(unconsidered[p], Policies) ELSE 0]
    /\ UNCHANGED <<requested, enabled>>

\* The agent repeats the operation: the stored answer is returned while its offer is
\* still authorized, and refused with Conflict afterwards.  No cursor moves.
Replay(delivered) ==
    /\ receipt.stored
    /\ told' = IF delivered THEN told \cup (receipt.listed \cap requested) ELSE told
    /\ receipt' = IF delivered THEN NoReceipt ELSE receipt
    /\ UNCHANGED <<requested, enabled, cancellationAfter, policyAfter, unlisted, unconsidered>>

ReplayRefused ==
    /\ receipt.stored
    /\ receipt' = NoReceipt
    /\ UNCHANGED <<requested, enabled, cancellationAfter, policyAfter, told, unlisted, unconsidered>>

Next ==
    \/ \E r \in Run : RequestCancellation(r) \/ ConfirmCancellation(r)
    \/ \E p \in Policy : SetPolicy(p)
    \/ \E offer, delivered \in BOOLEAN : Poll(offer, delivered)
    \/ \E delivered \in BOOLEAN : Replay(delivered)
    \/ ReplayRefused

Spec == Init /\ [][Next]_vars

AnyPoll == \E offer, delivered \in BOOLEAN : Poll(offer, delivered)
AnsweredPoll(r) == r \in Cancellations /\ \E offer \in BOOLEAN : Poll(offer, TRUE)

\* The agent keeps polling, and of infinitely many answers that list a run not all
\* are lost.
FairSpec == Spec /\ WF_vars(AnyPoll) /\ \A r \in Run : SF_vars(AnsweredPoll(r))

-----------------------------------------------------------------------------
\* A requested cancellation misses at most Runs polls in a row, however runs are
\* requested and confirmed meanwhile (poll.rs: "independent progress coordinates").
ListedInTime == \A r \in requested : unlisted[r] <= Runs

\* An enabled policy misses at most Policies polls in a row, however policies are
\* enabled and disabled meanwhile (admission.rs: "round-robin cursor prevents a
\* bounded policy page starving later assignments").
ConsideredInTime == \A p \in enabled : unconsidered[p] <= Policies

\* A lost answer does not lose the cancellations it listed: the agent eventually
\* reads a requested cancellation unless it is confirmed before.
ToldEventually == \A r \in Run : r \in requested ~> (r \in told \/ r \notin requested)
=============================================================================
