----------------------------- MODULE MCWebhook -----------------------------
(***************************************************************************)
(* Instances of WebhookDelivery for TLC.                                   *)
(***************************************************************************)
EXTENDS WebhookDelivery

CONSTANTS e1, e2, e3, p1, o1

\* One publication of two changes; e1 is emitted by a business transaction.
TwoChanges == [p \in Publication |-> <<e2, e3>>]

\* The first subscription selects one of the changes, nobody the other.
OneSelective == [s \in Subscription |-> IF s = 1 THEN {e1, e3} ELSE {e1}]

\* The first subscription may be disabled and enabled again; the second stays as it is;
\* the third may be created and enabled.
Versions == [s \in Subscription |-> IF s = 1 THEN 4 ELSE 2]
=============================================================================
