------------------------------- MODULE Paging -------------------------------
(***************************************************************************)
(* A bounded page of an ordered query.  The workers of this system read    *)
(* "... WHERE key > cursor ORDER BY key LIMIT n + 1", handle n rows and    *)
(* keep the last key they handled when an extra row came back.  Keys are   *)
(* positive numbers; cursor 0 stands for SQL NULL, "from the beginning".   *)
(***************************************************************************)
EXTENDS Integers, FiniteSets

\* The keys a query continues with after a cursor.
Beyond(S, cursor) == {x \in S : x > cursor}

\* LIMIT n + 1 returned one row too many.
HasMore(S, n) == Cardinality(S) > n

\* The n-th smallest key.
Boundary(S, n) == CHOOSE x \in S : Cardinality({y \in S : y <= x}) = n

\* The rows handled: the n smallest, or all of them.
FirstPage(S, n) == IF HasMore(S, n) THEN {x \in S : x <= Boundary(S, n)} ELSE S

\* The cursor of the next page; 0 when this page was the last.
NextCursor(S, n) == IF HasMore(S, n) THEN Boundary(S, n) ELSE 0
=============================================================================
