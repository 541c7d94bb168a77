----------------------------- MODULE AtMostOnce -----------------------------
(***************************************************************************)
(* What an action run promises, without leases, attempts, registrations,   *)
(* recovery or a clock.  The server may grant a run once or close it, never *)
(* both; a granted run has at most one effect on the device; and a verdict *)
(* is given at most once, success only for a run that had its effect.      *)
(***************************************************************************)
CONSTANTS Run,      \* run identities
          Effect    \* identities of effects on the device

VARIABLES granted,  \* runs whose execution was authorised
          closed,   \* runs that will never be authorised
          effects,  \* per run: the effects it had
          verdict   \* per run: "open", "succeeded" or "failed"

vars == <<granted, closed, effects, verdict>>

Init ==
    /\ granted = {}
    /\ closed = {}
    /\ effects = [r \in Run |-> {}]
    /\ verdict = [r \in Run |-> "open"]

Grant(r) ==
    /\ r \notin granted \cup closed
    /\ granted' = granted \cup {r}
    /\ UNCHANGED <<closed, effects, verdict>>

\* Several runs may be closed at once, by a retired registration or by the clock.
Close(runs) ==
    /\ runs \cap granted = {}
    /\ closed' = closed \cup runs
    /\ UNCHANGED <<granted, effects, verdict>>

Happen(r, e) ==
    /\ r \in granted
    /\ effects[r] = {}
    /\ effects' = [effects EXCEPT ![r] = {e}]
    /\ UNCHANGED <<granted, closed, verdict>>

Conclude(r, outcome) ==
    /\ r \in granted
    /\ verdict[r] = "open"
    /\ outcome = "succeeded" => effects[r] # {}
    /\ verdict' = [verdict EXCEPT ![r] = outcome]
    /\ UNCHANGED <<granted, closed, effects>>

Next ==
    \/ \E r \in Run :
        \/ Grant(r)
        \/ \E e \in Effect : Happen(r, e)
        \/ \E outcome \in {"succeeded", "failed"} : Conclude(r, outcome)
    \/ \E runs \in SUBSET Run : Close(runs)

Spec == Init /\ [][Next]_vars
=============================================================================
