-------------------------- MODULE MCPolicyDispatch --------------------------
(***************************************************************************)
(* Instances of PolicyDispatch for TLC.                                    *)
(***************************************************************************)
EXTENDS PolicyDispatch

\* Every device is in scope.
EveryDevice == {[d \in Device |-> "in"]}

\* The scope shrinks and grows: the first device leaves it, the others are withheld.
Moving ==
    {[d \in Device |-> "in"],
     [d \in Device |-> IF d = 1 THEN "out" ELSE "withheld"]}

\* No device is bound again.
Once == [d \in Device |-> 1]

\* The last device is bound a second time.
LastTwice == [d \in Device |-> IF d = Devices THEN 2 ELSE 1]
=============================================================================
