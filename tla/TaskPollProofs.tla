--------------------------- MODULE TaskPollProofs ---------------------------
(***************************************************************************)
(* Proofs about TaskPoll, for every number of runs and policies and both   *)
(* page sizes.                                                             *)
(***************************************************************************)
EXTENDS TaskPoll, PagingProofs

\* The polls a key may have missed when the cursor stands at after: the cursor first
\* climbs from the key to n, starts over, and climbs to the key again.
Allowance(x, after, n) == IF after >= x THEN after - x ELSE n - x + 1 + after

\* The inductive invariant: every history stays within the allowance of its cursor.
Inv ==
    /\ TypeOK
    /\ \A r \in Run : r \notin requested => unlisted[r] = 0
    /\ \A r \in requested : unlisted[r] <= Allowance(r, cancellationAfter, Runs)
    /\ \A p \in enabled : unconsidered[p] <= Allowance(p, policyAfter, Policies)

\* The greatest key of a page, or 0.
LEMMA Greatest0Fact ==
  ASSUME NEW n \in Nat, NEW S \in SUBSET (1 .. n)
  PROVE  IF S = {} THEN Greatest0(S) = 0
         ELSE Greatest0(S) \in S /\ \A y \in S : y <= Greatest0(S)
<1>1. CASE S = {}
  BY <1>1 DEF Greatest0
<1>2. CASE S # {}
  <2>1. \E x \in S : \A y \in S : y <= x
    BY <1>2, Greatest
  <2> QED
    BY <1>2, <2>1 DEF Greatest0
<1> QED
  BY <1>1, <1>2

\* A cursor that climbs or starts over, and does not pass a key it left out, keeps
\* that key within its allowance although one more poll missed it.
LEMMA AllowanceGrows ==
  ASSUME NEW n \in Nat, NEW x \in 1 .. n, NEW after \in 0 .. n, NEW next \in 0 .. n,
         NEW w \in Nat, w <= Allowance(x, after, n),
         next = 0 \/ next > after,
         x > after => next > after /\ next < x
  PROVE  Missed(w, n) <= Allowance(x, next, n)
<1>1. Missed(w, n) <= w + 1
  BY DEF Missed
<1>2. w + 1 <= Allowance(x, next, n)
  BY DEF Allowance
<1>3. Missed(w, n) \in Nat /\ Allowance(x, next, n) \in Int
  BY DEF Missed, Allowance
<1> QED
  BY <1>1, <1>2, <1>3

\* The page of an ordered query beyond a cursor, and the greatest key of that page.
LEMMA Climbs ==
  ASSUME NEW n \in Nat, NEW S \in SUBSET (1 .. n), NEW k \in Nat \ {0}, NEW after \in 0 .. n
  PROVE  LET page == FirstPage(Beyond(S, after), k)
             top == Greatest0(page)
         IN /\ page \subseteq S
            /\ top \in 0 .. n
            /\ top = 0 \/ top > after
            /\ \A x \in S : x > after /\ x \notin page => top > after /\ top < x /\ Cardinality(page) = k
<1> DEFINE rest == Beyond(S, after)
           page == FirstPage(rest, k)
           top == Greatest0(page)
<1>1. rest \in SUBSET (1 .. n) /\ rest \subseteq S /\ \A x \in rest : x > after /\ x \in Nat
  <2>1. 1 .. n \subseteq Nat
    OBVIOUS
  <2>2. rest \in SUBSET (1 .. n) /\ rest \subseteq S /\ \A x \in rest : x > after
    BY DEF Beyond
  <2> QED
    BY <2>1, <2>2, Zenon
<1>2. \A x \in S : x > after => x \in rest
  BY DEF Beyond
<1> HIDE DEF rest
<1>3. /\ page \subseteq rest
      /\ HasMore(rest, k) => NextCursor(rest, k) \in page /\ Cardinality(page) = k
      /\ \A x \in rest : x \notin page => HasMore(rest, k) /\ x > NextCursor(rest, k)
      /\ \A x \in page : HasMore(rest, k) => x <= NextCursor(rest, k)
  BY <1>1, PageSplits
<1> HIDE DEF page
<1>4. page \in SUBSET (1 .. n)
  BY <1>1, <1>3
<1>5. IF page = {} THEN top = 0 ELSE top \in page /\ \A y \in page : y <= top
  BY <1>4, Greatest0Fact
<1> HIDE DEF top
<1>6. page \subseteq S /\ top \in 0 .. n /\ (top = 0 \/ top > after)
  <2>1. page \subseteq S
    BY <1>1, <1>3
  <2>2. CASE page = {}
    BY <1>5, <2>1, <2>2
  <2>3. CASE page # {}
    <3>1. top \in page
      BY <1>5, <2>3
    <3>2. top \in 1 .. n /\ top > after
      BY <1>1, <1>3, <1>4, <3>1
    <3> QED
      BY <2>1, <3>2
  <2> QED
    BY <2>2, <2>3
<1>7. ASSUME NEW x \in S, x > after, x \notin page
      PROVE  top > after /\ top < x /\ Cardinality(page) = k
  <2>1. HasMore(rest, k) /\ x > NextCursor(rest, k) /\ NextCursor(rest, k) \in page /\ Cardinality(page) = k
    BY <1>2, <1>3, <1>7
  <2>2. top \in page /\ top <= NextCursor(rest, k)
    BY <1>3, <1>5, <2>1
  <2>3. top \in rest /\ NextCursor(rest, k) \in rest
    BY <1>3, <2>1, <2>2
  <2>4. top > after /\ top \in Nat /\ NextCursor(rest, k) \in Nat
    BY <1>1, <2>3, Zenon
  <2> QED
    BY <1>2, <1>7, <2>1, <2>2, <2>4
<1> QED
  BY <1>6, <1>7 DEF page, top, rest

\* Nothing is requested and nothing enabled at first.
LEMMA InitInv == Init => Inv
  BY SizesAssumption DEF Init, Inv, TypeOK, NoReceipt, Run, Policy

\* One poll keeps both histories within their allowance.
LEMMA PollInv ==
  ASSUME Inv, NEW offer \in BOOLEAN, NEW delivered \in BOOLEAN, Poll(offer, delivered)
  PROVE  Inv'
<1>1. /\ Runs \in Nat /\ Policies \in Nat
      /\ requested \in SUBSET (1 .. Runs) /\ enabled \in SUBSET (1 .. Policies)
      /\ cancellationAfter \in 0 .. Runs /\ policyAfter \in 0 .. Policies
  BY SizesAssumption DEF Inv, TypeOK, Run, Policy
<1>2. /\ Cancellations \subseteq requested
      /\ NextCancellationAfter \in 0 .. Runs
      /\ NextCancellationAfter = 0 \/ NextCancellationAfter > cancellationAfter
      /\ \A r \in requested : r > cancellationAfter /\ r \notin Cancellations =>
            NextCancellationAfter > cancellationAfter /\ NextCancellationAfter < r
  BY <1>1, Climbs, PagesAssumption DEF Cancellations, NextCancellationAfter
<1>3. /\ NextPolicyAfter \in 0 .. Policies
      /\ NextPolicyAfter = 0 \/ NextPolicyAfter > policyAfter
      /\ \A p \in enabled : p > policyAfter /\ p \notin Versions =>
            NextPolicyAfter > policyAfter /\ NextPolicyAfter < p
  <2>1. /\ Greatest0(Versions) \in 0 .. Policies
        /\ Greatest0(Versions) = 0 \/ Greatest0(Versions) > policyAfter
        /\ \A p \in enabled : p > policyAfter /\ p \notin Versions =>
              /\ Greatest0(Versions) > policyAfter /\ Greatest0(Versions) < p
              /\ Cardinality(Versions) = PolicyPage
    BY <1>1, Climbs, PagesAssumption DEF Versions
  <2> QED
    BY <1>1, <2>1 DEF NextPolicyAfter
<1>4. /\ requested' = requested /\ enabled' = enabled
      /\ cancellationAfter' = NextCancellationAfter /\ policyAfter' = NextPolicyAfter
      /\ unlisted' = [r \in Run |-> IF r \in requested \ Cancellations
                                    THEN Missed(unlisted[r], Runs) ELSE 0]
      /\ unconsidered' = [p \in Policy |-> IF p \in enabled \ Versions
                                           THEN Missed(unconsidered[p], Policies) ELSE 0]
  BY DEF Poll
<1>5. \A r \in Run : unlisted[r] \in Nat /\ Missed(unlisted[r], Runs) \in Nat
  BY <1>1 DEF Inv, TypeOK, Missed
<1>6. \A p \in Policy : unconsidered[p] \in Nat /\ Missed(unconsidered[p], Policies) \in Nat
  BY <1>1 DEF Inv, TypeOK, Missed
<1>7. TypeOK'
  <2>1. told' \subseteq Run /\ receipt' \in [stored : BOOLEAN, listed : SUBSET Run]
    BY <1>2 DEF Poll, Inv, TypeOK, NoReceipt
  <2>2. unlisted' \in [Run -> Nat] /\ unconsidered' \in [Policy -> Nat]
    BY <1>4, <1>5, <1>6
  <2> QED
    BY <1>2, <1>3, <1>4, <2>1, <2>2 DEF Inv, TypeOK
<1>8. ASSUME NEW r \in requested PROVE unlisted'[r] <= Allowance(r, NextCancellationAfter, Runs)
  <2>1. r \in 1 .. Runs /\ r \in Run
    BY <1>1 DEF Run
  <2>2. CASE r \in Cancellations
    <3>1. unlisted'[r] = 0
      BY <1>4, <2>1, <2>2
    <3> QED
      BY <1>1, <1>2, <2>1, <3>1 DEF Allowance
  <2>3. CASE r \notin Cancellations
    <3>1. unlisted'[r] = Missed(unlisted[r], Runs)
      BY <1>4, <2>1, <2>3
    <3>2. unlisted[r] \in Nat /\ unlisted[r] <= Allowance(r, cancellationAfter, Runs)
      BY <1>5, <2>1 DEF Inv
    <3>3. r > cancellationAfter => NextCancellationAfter > cancellationAfter /\ NextCancellationAfter < r
      BY <1>2, <2>3
    <3>4. Missed(unlisted[r], Runs) <= Allowance(r, NextCancellationAfter, Runs)
      BY <1>1, <1>2, <2>1, <3>2, <3>3, AllowanceGrows
    <3> QED
      BY <3>1, <3>4
  <2> QED
    BY <2>2, <2>3
<1>9. ASSUME NEW p \in enabled PROVE unconsidered'[p] <= Allowance(p, NextPolicyAfter, Policies)
  <2>1. p \in 1 .. Policies /\ p \in Policy
    BY <1>1 DEF Policy
  <2>2. CASE p \in Versions
    <3>1. unconsidered'[p] = 0
      BY <1>4, <2>1, <2>2
    <3> QED
      BY <1>1, <1>3, <2>1, <3>1 DEF Allowance
  <2>3. CASE p \notin Versions
    <3>1. unconsidered'[p] = Missed(unconsidered[p], Policies)
      BY <1>4, <2>1, <2>3
    <3>2. unconsidered[p] \in Nat /\ unconsidered[p] <= Allowance(p, policyAfter, Policies)
      BY <1>6, <2>1 DEF Inv
    <3>3. p > policyAfter => NextPolicyAfter > policyAfter /\ NextPolicyAfter < p
      BY <1>3, <2>3
    <3>4. Missed(unconsidered[p], Policies) <= Allowance(p, NextPolicyAfter, Policies)
      BY <1>1, <1>3, <2>1, <3>2, <3>3, AllowanceGrows
    <3> QED
      BY <3>1, <3>4
  <2> QED
    BY <2>2, <2>3
<1>10. \A r \in Run : r \notin requested' => unlisted'[r] = 0
  BY <1>4
<1> QED
  BY <1>4, <1>7, <1>8, <1>9, <1>10 DEF Inv

\* Every action keeps the invariant.
LEMMA NextInv == Inv /\ [Next]_vars => Inv'
<1> SUFFICES ASSUME Inv, [Next]_vars PROVE Inv'
  OBVIOUS
<1>1. ASSUME NEW r \in Run, RequestCancellation(r) PROVE Inv'
  <2>1. 0 <= Allowance(r, cancellationAfter, Runs)
    BY SizesAssumption DEF Inv, TypeOK, Run, Allowance
  <2> QED
    BY <1>1, <2>1 DEF RequestCancellation, Inv, TypeOK
<1>2. ASSUME NEW r \in Run, ConfirmCancellation(r) PROVE Inv'
  <2>1. /\ unlisted' = [unlisted EXCEPT ![r] = 0] /\ requested' = requested \ {r}
        /\ UNCHANGED <<cancellationAfter, policyAfter, enabled, unconsidered>>
    BY <1>2 DEF ConfirmCancellation
  <2>2. TypeOK'
    BY <1>2 DEF ConfirmCancellation, Inv, TypeOK
  <2> QED
    BY <2>1, <2>2 DEF Inv, TypeOK
<1>3. ASSUME NEW p \in Policy, SetPolicy(p) PROVE Inv'
  <2>1. 0 <= Allowance(p, policyAfter, Policies)
    BY SizesAssumption DEF Inv, TypeOK, Policy, Allowance
  <2>2. /\ unconsidered' = [unconsidered EXCEPT ![p] = 0]
        /\ enabled' = enabled \ {p} \/ enabled' = enabled \cup {p}
        /\ UNCHANGED <<requested, cancellationAfter, policyAfter, receipt, told, unlisted>>
    BY <1>3 DEF SetPolicy
  <2>3. TypeOK'
    BY <2>2 DEF Inv, TypeOK
  <2>4. ASSUME NEW q \in enabled' PROVE unconsidered'[q] <= Allowance(q, policyAfter, Policies)
    <3>1. q = p \/ (q \in enabled /\ q # p)
      BY <2>2
    <3>2. q \in Policy
      BY <2>3 DEF TypeOK
    <3> QED
      BY <2>1, <2>2, <3>1, <3>2 DEF Inv, TypeOK
  <2> QED
    BY <2>2, <2>3, <2>4 DEF Inv
<1>4. ASSUME NEW offer \in BOOLEAN, NEW delivered \in BOOLEAN, Poll(offer, delivered) PROVE Inv'
  BY <1>4, PollInv
<1>5. ASSUME NEW delivered \in BOOLEAN, Replay(delivered) PROVE Inv'
  BY <1>5 DEF Replay, Inv, TypeOK, NoReceipt
<1>6. CASE ReplayRefused
  BY <1>6 DEF ReplayRefused, Inv, TypeOK, NoReceipt
<1>7. CASE UNCHANGED vars
  BY <1>7 DEF vars, Inv, TypeOK
<1> QED
  BY <1>1, <1>2, <1>3, <1>4, <1>5, <1>6, <1>7 DEF Next

\* Type correctness of the poll row: both cursors are NULL or the id of a run or policy.
THEOREM TypeCorrect == Spec => []TypeOK
<1>1. Inv => TypeOK
  BY DEF Inv
<1> QED
  BY <1>1, InitInv, NextInv, PTL DEF Spec

\* No requested cancellation misses more than Runs polls in a row.
THEOREM CancellationsAreListed == Spec => []ListedInTime
<1>1. Inv => ListedInTime
  <2> SUFFICES ASSUME Inv, NEW r \in requested PROVE unlisted[r] <= Runs
    BY DEF ListedInTime
  <2>1. r \in 1 .. Runs /\ cancellationAfter \in 0 .. Runs /\ Runs \in Nat /\ unlisted[r] \in Nat
    BY SizesAssumption DEF Inv, TypeOK, Run
  <2>2. unlisted[r] <= Allowance(r, cancellationAfter, Runs)
    BY DEF Inv
  <2> QED
    BY <2>1, <2>2 DEF Allowance
<1> QED
  BY <1>1, InitInv, NextInv, PTL DEF Spec

\* No enabled policy misses more than Policies polls in a row.
THEOREM PoliciesAreConsidered == Spec => []ConsideredInTime
<1>1. Inv => ConsideredInTime
  <2> SUFFICES ASSUME Inv, NEW p \in enabled PROVE unconsidered[p] <= Policies
    BY DEF ConsideredInTime
  <2>1. p \in 1 .. Policies /\ policyAfter \in 0 .. Policies /\ Policies \in Nat
        /\ unconsidered[p] \in Nat
    BY SizesAssumption DEF Inv, TypeOK, Policy
  <2>2. unconsidered[p] <= Allowance(p, policyAfter, Policies)
    BY DEF Inv
  <2> QED
    BY <2>1, <2>2 DEF Allowance
<1> QED
  BY <1>1, InitInv, NextInv, PTL DEF Spec
=============================================================================
