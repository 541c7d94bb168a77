------------------------------ MODULE MCContent ------------------------------
(***************************************************************************)
(* The content store for TLC.                                              *)
(***************************************************************************)
EXTENDS ContentStore, TLC

\* Object ids are random: nothing tells them apart but their rows and bytes.
ObjectSymmetry == Permutations(Object)

\* Bound on the search: two objects are enough for an upload, a rewrite of its tail, its
\* publication and a second one; the third is there to reach the limit on temporary bytes.
ThirdObjectIsTemporary ==
    (\A o \in Object : objects[o].state # "none") =>
        backend = "s3" /\ manifest.state = "none" /\ ~referenced

=============================================================================
