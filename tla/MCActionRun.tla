----------------------------- MODULE MCActionRun -----------------------------
(* Instances of ActionRun for TLC. *)
EXTENDS ActionRun, TLC

CONSTANTS r1, r2, r3, p1, p2

\* One policy, or two runs of the first and one of the second.
RunsOfP1 == [r \in Run |-> p1]
TwoOfP1 == [r \in Run |-> IF r = r3 THEN p2 ELSE p1]

Scripts == [p \in Policy |-> "script"]
Collections == [p \in Policy |-> "agent_collection"]
CollectionScripts == [p \in Policy |-> "collection_script"]
ScriptAndCollection == [p \in Policy |-> IF p = p1 THEN "script" ELSE "agent_collection"]
EveryTrigger == [p \in Policy |-> "every_trigger"]
Mixed == [p \in Policy |-> IF p = p1 THEN "every_trigger" ELSE "once_per_version"]

\* What may change.
Nothing == {}
Authority == {"enabled", "member"} \X Policy
VersionOrRequirements == {<<"version", p1>>, <<"eligible", p2>>}

\* Attempts and runs of one policy are interchangeable.
TwinSymmetry == Permutations({r1, r2}) \cup Permutations(Attempt)
=============================================================================
