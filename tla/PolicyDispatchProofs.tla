------------------------ MODULE PolicyDispatchProofs ------------------------
(***************************************************************************)
(* Proofs about PolicyDispatch, for every number of devices, both page     *)
(* sizes, every set of scope results and all bounds.                       *)
(***************************************************************************)
EXTENDS PolicyDispatch, PagingProofs

\* The acknowledged revision, the window and the newest revision are in order.
WindowOrder == consumed <= window /\ window <= revision

\* A revision that is not acknowledged keeps the discovery scheduled.
BacklogIsDue == revision > consumed => discovery = "due"

\* A row names no registration the device does not have yet.
RowsAreOld == \A d \in Device : row[d].generation <= generation[d]

\* The inductive invariant behind AssignedIsWoken.
Inv == TypeOK /\ WindowOrder /\ BacklogIsDue /\ RowsAreOld /\ AssignedIsWoken

\* A reconcile page and its cursor, for the query of JobPage.
LEMMA JobPageSplits ==
  ASSUME NEW c \in Cursor
  PROVE  LET rest == Beyond(Members, c)
             page == FirstPage(rest, ObjectPage)
         IN /\ page \subseteq rest /\ rest \subseteq Device
            /\ JobCursor(rest) \in Cursor
            /\ \A d \in rest : d \notin page =>
                    JobCursor(rest) # 0 /\ JobCursor(rest) # c /\ JobCursor(rest) < d
<1> DEFINE rest == Beyond(Members, c)
<1>1. rest \in SUBSET (1 .. Devices) /\ \A x \in rest : x > c
  BY DevicesAssumption DEF Beyond, Members, Device
<1> HIDE DEF rest
<1>2. /\ FirstPage(rest, ObjectPage) \subseteq rest
      /\ NextCursor(rest, ObjectPage) \in 0 .. Devices
      /\ HasMore(rest, ObjectPage) => NextCursor(rest, ObjectPage) \in rest
      /\ \A x \in rest : x \notin FirstPage(rest, ObjectPage)
            => HasMore(rest, ObjectPage) /\ x > NextCursor(rest, ObjectPage)
  BY <1>1, PageSplits, DevicesAssumption, PagesAssumption
<1>3. ASSUME NEW d \in rest, d \notin FirstPage(rest, ObjectPage)
      PROVE  JobCursor(rest) # 0 /\ JobCursor(rest) # c /\ JobCursor(rest) < d
  <2>1. NextCursor(rest, ObjectPage) \in rest /\ d > NextCursor(rest, ObjectPage)
    BY <1>2, <1>3
  <2> QED
    BY <1>1, <2>1, DevicesAssumption, SMT DEF JobCursor, Cursor
<1>4. /\ FirstPage(rest, ObjectPage) \subseteq rest /\ rest \subseteq Device
      /\ JobCursor(rest) \in Cursor
  BY <1>1, <1>2 DEF JobCursor, Cursor, Device
<1> QED
  BY <1>3, <1>4 DEF rest

\* A discovery page and its cursor.
LEMMA DiscoveryPageSplits ==
  LET page == FirstPage(Discoverable, DevicePage)
      next == NextCursor(Discoverable, DevicePage)
  IN /\ page \subseteq Discoverable /\ Discoverable \subseteq Device
     /\ next \in Cursor
     /\ \A d \in Discoverable : d \notin page => HasMore(Discoverable, DevicePage) /\ d > next
<1>1. Discoverable \in SUBSET (1 .. Devices)
  BY DEF Discoverable, Device
<1>2. /\ FirstPage(Discoverable, DevicePage) \subseteq Discoverable
      /\ NextCursor(Discoverable, DevicePage) \in 0 .. Devices
      /\ \A x \in Discoverable : x \notin FirstPage(Discoverable, DevicePage)
            => HasMore(Discoverable, DevicePage) /\ x > NextCursor(Discoverable, DevicePage)
  BY <1>1, PageSplits, DevicesAssumption, PagesAssumption
<1> QED
  BY <1>1, <1>2 DEF Cursor, Device

\* The state in which a policy is created satisfies the invariant.
LEMMA InitInv == Init => Inv
<1> SUFFICES ASSUME Init PROVE Inv
  OBVIOUS
<1>1. TypeOK
  BY DevicesAssumption, ResultAssumption, SMT
     DEF Init, TypeOK, NoRow, Row, Cursor, Device
<1>2. WindowOrder /\ BacklogIsDue
  BY SMT DEF Init, WindowOrder, BacklogIsDue
<1>3. RowsAreOld
  BY SMT DEF Init, RowsAreOld, NoRow
<1>4. AssignedIsWoken
  BY DEF Init, AssignedIsWoken, Assigned, NoRow
<1> QED
  BY <1>1, <1>2, <1>3, <1>4 DEF Inv

\* The rows of a page, and the rows that left the scope, are rows.
LEMMA UpsertedType ==
  ASSUME TypeOK, NEW page
  PROVE  Upserted(page) \in [Device -> Row]
<1>1. ASSUME NEW d \in Device PROVE Assignment(d) \in Row
  <2>1. generation[d] \in Nat /\ run \in Nat /\ registered[d] \in BOOLEAN
    BY DEF TypeOK
  <2> QED
    BY <2>1 DEF Assignment, Row
<1>2. ASSUME NEW d \in Device PROVE row[d] \in Row /\ [row[d] EXCEPT !.ready = FALSE] \in Row
  BY DEF TypeOK, Row
<1> QED
  BY <1>1, <1>2 DEF Upserted

\* Every action keeps the types.
LEMMA TypeNext == TypeOK /\ [Next]_vars => TypeOK'
<1> SUFFICES ASSUME TypeOK, [Next]_vars PROVE TypeOK'
  OBVIOUS
<1> USE DevicesAssumption, ResultAssumption
<1>0. 0 \in Cursor
  BY SMT DEF Cursor
<1>1. ASSUME NEW enabled \in BOOLEAN, NEW content \in BOOLEAN, NEW rescoped \in BOOLEAN,
             Put(enabled, content, rescoped)
      PROVE  TypeOK'
  <2>1. row' \in [Device -> Row] /\ version' \in Nat
    BY <1>1, SMT DEF Put, TypeOK, NoRow, Row
  <2>2. run' \in Nat /\ fresh' \in BOOLEAN /\ member' \in [Device -> Membership]
    BY <1>1, SMT DEF Put, TypeOK, scopeVars
  <2>3. jobs' \in [Cursor -> Nat] /\ fanout' = fanout /\ revision' \in Nat /\ discovery' = "due"
        /\ UNCHANGED <<consumed, window, after>>
    BY <1>0, <1>1, SMT DEF Put, TypeOK, EnqueueChange, EnqueueJob, WakeExecution, WakeDiscovery
  <2> QED
    BY <1>1, <2>1, <2>2, <2>3 DEF Put, TypeOK, deviceVars, workVars
<1>2. ASSUME NEW new \in {"enabled", "disabled", "archived"}, SetState(new) PROVE TypeOK'
  <2>1. jobs' \in [Cursor -> Nat] /\ fanout' = fanout /\ revision' \in Nat /\ discovery' = "due"
        /\ UNCHANGED <<consumed, window, after>>
    BY <1>0, <1>2, SMT DEF SetState, TypeOK, EnqueueChange, EnqueueJob, WakeExecution, WakeDiscovery
  <2> QED
    BY <1>2, <2>1 DEF SetState, TypeOK, scopeVars, deviceVars, workVars
<1>3. CASE PublishScope
  BY <1>3, SMT DEF PublishScope, TypeOK, policyVars, deviceVars, recoveryVars, workVars
<1>4. CASE SourceMoves
  BY <1>4 DEF SourceMoves, TypeOK, policyVars, deviceVars, jobVars, recoveryVars, workVars
<1>5. CASE FanOut
  BY <1>0, <1>5, SMT DEF FanOut, EnqueueJob, TypeOK, policyVars, scopeVars, deviceVars, recoveryVars, workVars
<1>6. ASSUME NEW d \in Device, Register(d) PROVE TypeOK'
  BY <1>6, SMT DEF Register, TypeOK, policyVars, scopeVars, jobVars, recoveryVars, workVars
<1>7. ASSUME NEW d \in Device, Unregister(d) PROVE TypeOK'
  BY <1>7 DEF Unregister, TypeOK, policyVars, scopeVars, jobVars, recoveryVars, workVars
<1>8. ASSUME NEW c \in Cursor, JobPage(c) PROVE TypeOK'
  <2> DEFINE rest == Beyond(Members, c)
             page == FirstPage(rest, ObjectPage)
  <2>1. row' \in [Device -> Row]
    BY <1>8, UpsertedType DEF JobPage
  <2>2. page \subseteq Device /\ JobCursor(rest) \in Cursor
    BY JobPageSplits
  <2>3. due' \subseteq Work /\ leaving' \subseteq due'
    <3>1. NewlyReady(page) \subseteq Work
      <4> HIDE DEF page
      <4> QED
        BY <2>2, SMT DEF NewlyReady, WorkOf, Work, TypeOK
    <3>2. due' = due \cup NewlyReady(page) /\ leaving' = leaving \ NewlyReady(page)
      BY <1>8 DEF JobPage, WakeWorks
    <3> HIDE DEF page
    <3> QED
      BY <3>1, <3>2 DEF TypeOK
  <2>4. jobs' \in [Cursor -> Nat]
    <3>1. jobs[c] > 0 /\ \/ jobs' = [jobs EXCEPT ![c] = @ - 1]
                         \/ jobs' = [jobs EXCEPT ![c] = @ - 1, ![JobCursor(rest)] = @ + 1]
      BY <1>8 DEF JobPage
    <3> HIDE DEF rest
    <3> QED
      BY <2>2, <3>1, SMT DEF TypeOK
  <2>5. outdated' \subseteq Device
    BY <1>8 DEF JobPage, TypeOK
  <2> QED
    BY <1>8, <2>1, <2>3, <2>4, <2>5
       DEF JobPage, TypeOK, policyVars, scopeVars, deviceVars, recoveryVars
<1>9. ASSUME NEW c \in Cursor, JobRejected(c) PROVE TypeOK'
  BY <1>9, SMT DEF JobRejected, Beyond, TypeOK, policyVars, scopeVars, deviceVars, recoveryVars, workVars
<1>10. CASE Discover
  <2> DEFINE page == FirstPage(Discoverable, DevicePage)
  <2>1. page \subseteq Device /\ after' \in Cursor
    BY <1>10, DiscoveryPageSplits DEF Discover
  <2>2. due' \subseteq Work /\ leaving' \subseteq due'
    <3> DEFINE works == {WorkOf(d) : d \in page}
    <3>1. works \subseteq Work
      <4> HIDE DEF page
      <4> QED
        BY <2>1, SMT DEF WorkOf, Work, TypeOK
    <3>2. due' = due \cup works /\ leaving' = leaving \ works
      BY <1>10 DEF Discover, WakeWorks
    <3> HIDE DEF works
    <3> QED
      BY <3>1, <3>2 DEF TypeOK
  <2>3. consumed' \in Nat /\ window' \in Nat
    BY <1>10 DEF Discover, Acknowledged, Window, TypeOK
  <2> QED
    BY <1>10, <2>1, <2>2, <2>3
       DEF Discover, TypeOK, policyVars, scopeVars, deviceVars, jobVars
<1>11. CASE DiscoveryIdle
  BY <1>11 DEF DiscoveryIdle, TypeOK, policyVars, scopeVars, deviceVars, jobVars, workVars
<1>12. CASE DiscoverySettles
  BY <1>12 DEF DiscoverySettles, TypeOK, policyVars, scopeVars, deviceVars, jobVars, workVars
<1>13. ASSUME NEW w \in due, WorkRetires(w) PROVE TypeOK'
  BY <1>13 DEF WorkRetires, TypeOK, policyVars, scopeVars, deviceVars, jobVars, recoveryVars
<1>14. ASSUME NEW w \in due, WorkSettles(w) PROVE TypeOK'
  BY <1>14 DEF WorkSettles, TypeOK, policyVars, scopeVars, deviceVars, jobVars, recoveryVars
<1>15. CASE UNCHANGED vars
  BY <1>15 DEF TypeOK, vars, policyVars, scopeVars, deviceVars, jobVars, recoveryVars, workVars
<1> QED
  BY <1>1, <1>2, <1>3, <1>4, <1>5, <1>6, <1>7, <1>8, <1>9, <1>10, <1>11, <1>12, <1>13, <1>14, <1>15
     DEF Next, Change

\* A device whose row, registration and work were not touched stays served, as long
\* as the discovery keeps it ahead.
LEMMA Untouched ==
  ASSUME NEW d \in Device, Assigned(d) => Alive(d) \/ Ahead(d),
         Assigned(d)' => Assigned(d), version' = version, generation'[d] = generation[d],
         due \ leaving \subseteq due' \ leaving', Ahead(d) => Ahead(d)'
  PROVE  Assigned(d)' => Alive(d)' \/ Ahead(d)'
  BY DEF Alive, WorkOf

\* Every action keeps the invariant.
LEMMA NextInv == Inv /\ [Next]_vars => Inv'
<1> SUFFICES ASSUME Inv, [Next]_vars PROVE Inv'
  OBVIOUS
<1>t. TypeOK /\ TypeOK'
  BY TypeNext DEF Inv
<1>1. ASSUME EnqueueChange, UNCHANGED generation,
             row' = row \/ row' = [d \in Device |-> NoRow]
      PROVE  Inv'
  <2>1. revision' = revision + 1 /\ discovery' = "due" /\ UNCHANGED <<consumed, window, after>>
    BY <1>1 DEF EnqueueChange, WakeExecution, WakeDiscovery
  <2>2. WindowOrder' /\ BacklogIsDue' /\ revision' > window'
    BY <1>t, <2>1, SMT DEF Inv, WindowOrder, BacklogIsDue, TypeOK
  <2>3. RowsAreOld'
    BY <1>t, <1>1, SMT DEF Inv, RowsAreOld, NoRow, TypeOK
  <2>4. AssignedIsWoken'
    BY <2>1, <2>2 DEF AssignedIsWoken, Ahead
  <2> QED
    BY <1>t, <2>2, <2>3, <2>4 DEF Inv
<1>2. ASSUME NEW enabled \in BOOLEAN, NEW content \in BOOLEAN, NEW rescoped \in BOOLEAN,
             Put(enabled, content, rescoped)
      PROVE  Inv'
  BY <1>1, <1>2 DEF Put, deviceVars
<1>3. ASSUME NEW new \in {"enabled", "disabled", "archived"}, SetState(new) PROVE Inv'
  BY <1>1, <1>3 DEF SetState, deviceVars
<1>4. ASSUME UNCHANGED <<policyVars, deviceVars, row, recoveryVars, workVars>> PROVE Inv'
  BY <1>t, <1>4
     DEF Inv, WindowOrder, BacklogIsDue, RowsAreOld, AssignedIsWoken, Assigned, Alive, Ahead, WorkOf,
         Enabled, policyVars, deviceVars, recoveryVars, workVars
<1>5. CASE PublishScope \/ SourceMoves \/ FanOut
  BY <1>4, <1>5 DEF PublishScope, SourceMoves, FanOut
<1>6. ASSUME NEW e \in Device, Register(e) PROVE Inv'
  <2>1. WindowOrder' /\ BacklogIsDue'
    BY <1>6 DEF Register, Inv, WindowOrder, BacklogIsDue, recoveryVars
  <2>2. generation' = [generation EXCEPT ![e] = @ + 1] /\ row' = row
    BY <1>6 DEF Register
  <2>3. RowsAreOld' /\ row'[e].generation # generation'[e]
    BY <1>t, <2>2, SMT DEF Inv, RowsAreOld, TypeOK, Row
  <2>4. ASSUME NEW d \in Device PROVE Assigned(d)' => Alive(d)' \/ Ahead(d)'
    <3>1. CASE d = e
      BY <2>3, <3>1 DEF Assigned
    <3>2. CASE d # e
      <4>1. generation'[d] = generation[d] /\ registered'[d] = registered[d]
        BY <1>t, <1>6, <3>2 DEF Register, TypeOK
      <4>2. Assigned(d)' => Assigned(d)
        BY <1>6, <4>1 DEF Register, Assigned, Enabled, policyVars
      <4> QED
        BY <1>6, <4>1, <4>2, Untouched
           DEF Register, Inv, AssignedIsWoken, Ahead, policyVars, recoveryVars, workVars
    <3> QED
      BY <3>1, <3>2
  <2> QED
    BY <1>t, <2>1, <2>3, <2>4 DEF Inv, AssignedIsWoken
<1>7. ASSUME NEW e \in Device, Unregister(e) PROVE Inv'
  <2>1. WindowOrder' /\ BacklogIsDue' /\ RowsAreOld'
    BY <1>7 DEF Unregister, Inv, WindowOrder, BacklogIsDue, RowsAreOld, recoveryVars
  <2>2. ASSUME NEW d \in Device PROVE Assigned(d)' => Alive(d)' \/ Ahead(d)'
    <3>1. Assigned(d)' => Assigned(d)
      BY <1>t, <1>7 DEF Unregister, Assigned, Enabled, policyVars, TypeOK
    <3> QED
      BY <1>7, <3>1, Untouched
         DEF Unregister, Inv, AssignedIsWoken, Ahead, policyVars, recoveryVars, workVars
  <2> QED
    BY <1>t, <2>1, <2>2 DEF Inv, AssignedIsWoken
<1>8. ASSUME NEW c \in Cursor, JobPage(c) PROVE Inv'
  <2> DEFINE rest == Beyond(Members, c)
             page == FirstPage(rest, ObjectPage)
  <2>1. /\ row' = Upserted(page)
        /\ due' = due \cup NewlyReady(page) /\ leaving' = leaving \ NewlyReady(page)
        /\ UNCHANGED <<version, state, generation, registered>>
        /\ UNCHANGED recoveryVars
    BY <1>8 DEF JobPage, WakeWorks, policyVars, deviceVars
  <2>2. page \subseteq Device
    BY JobPageSplits
  <2> HIDE DEF rest, page
  <2>3. WindowOrder' /\ BacklogIsDue'
    BY <2>1 DEF Inv, WindowOrder, BacklogIsDue, recoveryVars
  <2>4. ASSUME NEW d \in Device
        PROVE  \/ d \in page /\ row'[d] = Assignment(d)
               \/ row'[d] = [row[d] EXCEPT !.ready = FALSE]
               \/ row'[d] = row[d]
    BY <2>1, SMT DEF Upserted
  <2>5. RowsAreOld'
    <3> SUFFICES ASSUME NEW d \in Device PROVE row'[d].generation <= generation[d]
      BY <2>1 DEF RowsAreOld
    <3>1. row[d] \in Row /\ row[d].generation <= generation[d] /\ generation[d] \in Nat
      BY <1>t DEF Inv, RowsAreOld, TypeOK
    <3>2. Assignment(d).generation <= generation[d]
      BY <3>1, SMT DEF Assignment
    <3>3. [row[d] EXCEPT !.ready = FALSE].generation = row[d].generation
      BY <3>1 DEF Row
    <3> QED
      BY <2>4, <3>1, <3>2, <3>3
  <2>6. ASSUME NEW d \in Device PROVE Assigned(d)' => Alive(d)' \/ Ahead(d)'
    <3> SUFFICES ASSUME Assigned(d)' PROVE Alive(d)' \/ Ahead(d)'
      OBVIOUS
    <3>1. row[d] \in Row /\ row'[d].ready
      BY <1>t DEF Assigned, TypeOK
    <3>2. ~[row[d] EXCEPT !.ready = FALSE].ready
      BY <3>1 DEF Row
    <3>3. CASE row'[d] = row[d]
      <4>1. Assigned(d)
        BY <2>1, <3>3 DEF Assigned, Enabled
      <4>2. Ahead(d) => Ahead(d)'
        BY <2>1 DEF Ahead, recoveryVars
      <4>3. Alive(d) => Alive(d)'
        BY <2>1 DEF Alive, WorkOf
      <4> QED
        BY <4>1, <4>2, <4>3 DEF Inv, AssignedIsWoken
    <3>4. CASE d \in page /\ row'[d] = Assignment(d) /\ row[d] # Assignment(d)
      <4>1. WorkOf(d) \in NewlyReady(page)
        BY <3>1, <3>4, <2>2 DEF NewlyReady
      <4>2. WorkOf(d)' = WorkOf(d)
        BY <2>1 DEF WorkOf
      <4> QED
        BY <2>1, <4>1, <4>2 DEF Alive
    <3> QED
      BY <2>4, <3>1, <3>2, <3>3, <3>4
  <2> QED
    BY <1>t, <2>3, <2>5, <2>6 DEF Inv, AssignedIsWoken
<1>9. ASSUME NEW c \in Cursor, JobRejected(c) PROVE Inv'
  BY <1>4, <1>9 DEF JobRejected
<1>10. CASE Discover
  <2> DEFINE page == FirstPage(Discoverable, DevicePage)
             next == NextCursor(Discoverable, DevicePage)
             works == {WorkOf(d) : d \in page}
  <2>1. /\ discovery = "due" /\ revision > consumed
        /\ due' = due \cup works /\ leaving' = leaving \ works
        /\ consumed' = Acknowledged /\ window' = Window /\ after' = next
        /\ UNCHANGED <<version, state, generation, registered, row, revision, discovery>>
    BY <1>10 DEF Discover, Backlog, WakeWorks, policyVars, deviceVars
  <2>2. /\ page \subseteq Device
        /\ \A d \in Discoverable : d \notin page => HasMore(Discoverable, DevicePage) /\ d > next
    BY DiscoveryPageSplits
  <2>3. consumed \in Nat /\ window \in Nat /\ revision \in Nat /\ after \in Nat
    BY <1>t, DevicesAssumption, SMT DEF TypeOK, Cursor
  <2>4. consumed <= window /\ window <= revision
    BY DEF Inv, WindowOrder
  <2>5. Window > consumed /\ Window <= revision /\ Window >= window
    BY <2>1, <2>3, <2>4, SMT DEF Window
  <2>6. WindowOrder' /\ BacklogIsDue'
    BY <2>1, <2>3, <2>5, SMT DEF WindowOrder, BacklogIsDue, Acknowledged, Window
  <2>7. RowsAreOld'
    BY <2>1 DEF Inv, RowsAreOld
  <2>8. ASSUME NEW d \in Device, Assigned(d)' PROVE Alive(d)' \/ Ahead(d)'
    <3>1. Assigned(d) /\ WorkOf(d)' = WorkOf(d)
      BY <2>1, <2>8 DEF Assigned, Enabled, WorkOf
    <3>2. CASE d \in page
      <4>1. WorkOf(d) \in works
        BY <3>2
      <4> HIDE DEF works
      <4> QED
        BY <2>1, <3>1, <4>1 DEF Alive
    <3>3. CASE d \in Discoverable /\ d \notin page
      <4>1. HasMore(Discoverable, DevicePage) /\ d > next
        BY <2>2, <3>3
      <4>2. consumed' = consumed
        BY <2>1, <4>1 DEF Acknowledged
      <4> HIDE DEF next
      <4> QED
        BY <2>1, <2>5, <4>1, <4>2 DEF Ahead
    <3>4. CASE d \notin Discoverable
      <4>1. ~(d > After)
        BY <3>1, <3>4 DEF Discoverable, Assigned
      <4>2. consumed # window /\ ~(d > after)
        BY <2>3, <4>1, SMT DEF After, Device
      <4>3. window' = window
        BY <2>1, <4>2 DEF Window
      <4>4. CASE Alive(d)
        <5> HIDE DEF works
        <5> QED
          BY <2>1, <3>1, <4>4 DEF Alive
      <4>5. CASE Ahead(d)
        BY <2>1, <4>2, <4>3, <4>5 DEF Ahead
      <4> QED
        BY <3>1, <4>4, <4>5 DEF Inv, AssignedIsWoken
    <3> QED
      BY <3>2, <3>3, <3>4
  <2> QED
    BY <1>t, <2>6, <2>7, <2>8 DEF Inv, AssignedIsWoken
<1>11. CASE DiscoveryIdle
  <2>1. ASSUME NEW d \in Device PROVE ~Ahead(d)
    BY <1>t, <1>11, SMT DEF DiscoveryIdle, Backlog, Ahead, Inv, WindowOrder, TypeOK
  <2> QED
    BY <1>t, <1>11, <2>1
       DEF DiscoveryIdle, Backlog, Inv, WindowOrder, BacklogIsDue, RowsAreOld, AssignedIsWoken, Assigned,
           Alive, WorkOf, Enabled, policyVars, deviceVars, workVars
<1>12. CASE DiscoverySettles
  BY <1>t, <1>12
     DEF DiscoverySettles, Inv, WindowOrder, BacklogIsDue, RowsAreOld, AssignedIsWoken, Assigned,
         Alive, Ahead, WorkOf, Enabled, policyVars, deviceVars, workVars
<1>13. ASSUME NEW w \in due, WorkRetires(w) \/ WorkSettles(w) PROVE Inv'
  <2>1. /\ UNCHANGED <<policyVars, deviceVars, row, recoveryVars>>
        /\ ~Wanted(w) \/ w \in leaving
        /\ due \ (leaving \cup {w}) \subseteq due' \ leaving'
    BY <1>13 DEF WorkRetires, WorkSettles
  <2>2. ASSUME NEW d \in Device, Assigned(d)' PROVE Alive(d)' \/ Ahead(d)'
    <3>1. Assigned(d) /\ WorkOf(d)' = WorkOf(d) /\ (Ahead(d) => Ahead(d)')
      BY <2>1, <2>2 DEF Assigned, Enabled, WorkOf, Ahead, policyVars, deviceVars, recoveryVars
    <3>2. Wanted(WorkOf(d))
      BY <3>1 DEF Assigned, Wanted, WorkOf
    <3>3. Alive(d) => WorkOf(d) # w
      BY <2>1, <3>2 DEF Alive
    <3> QED
      BY <2>1, <3>1, <3>3 DEF Alive, Inv, AssignedIsWoken
  <2>3. WindowOrder' /\ BacklogIsDue' /\ RowsAreOld'
    BY <2>1 DEF Inv, WindowOrder, BacklogIsDue, RowsAreOld, deviceVars, recoveryVars
  <2> QED
    BY <1>t, <2>2, <2>3 DEF Inv, AssignedIsWoken
<1>14. CASE UNCHANGED vars
  BY <1>4, <1>14 DEF vars
<1> QED
  BY <1>2, <1>3, <1>5, <1>6, <1>7, <1>8, <1>9, <1>10, <1>11, <1>12, <1>13, <1>14 DEF Next, Change

\* No page, window or settlement that was overtaken by a change drops an assigned
\* device: it has live scheduled work or the discovery has it ahead.
THEOREM AssignedIsAlwaysWoken == Spec => []AssignedIsWoken
<1>1. Inv => AssignedIsWoken
  BY DEF Inv
<1> QED
  BY <1>1, InitInv, NextInv, PTL DEF Spec

\* Variables have their types.
THEOREM TypeCorrect == Spec => []TypeOK
<1>1. Inv => TypeOK
  BY DEF Inv
<1> QED
  BY <1>1, InitInv, NextInv, PTL DEF Spec

-----------------------------------------------------------------------------
\* RowsFollowScope for one device.
Follows(d) ==
    \/ fanout > 0
    \/ \E c \in Cursor : c < d /\ jobs[c] > 0
    \/ member[d] # "out" /\ row[d] = Assignment(d)
    \/ member[d] = "out" /\ ~row[d].ready

\* The scope projection is kept by every action.
LEMMA RowsNext == TypeOK /\ RowsFollowScope /\ [Next]_vars => RowsFollowScope'
<1> SUFFICES ASSUME TypeOK, RowsFollowScope, [Next]_vars PROVE RowsFollowScope'
  OBVIOUS
<1>a. \A d \in Device \ outdated : Follows(d)
  BY DEF RowsFollowScope, Follows
<1>b. SUFFICES ASSUME NEW d \in Device, d \notin outdated' PROVE Follows(d)'
  BY DEF RowsFollowScope, Follows
<1>c. d \in Nat /\ d > 0 /\ 0 \in Cursor /\ jobs \in [Cursor -> Nat] /\ fanout \in Nat
  BY DevicesAssumption, SMT DEF Device, Cursor, TypeOK
<1>1. ASSUME EnqueueJob PROVE Follows(d)'
  <2>1. jobs'[0] > 0
    BY <1>c, <1>1, SMT DEF EnqueueJob
  <2> QED
    BY <1>c, <2>1 DEF Follows
<1>2. CASE Change \/ FanOut
  BY <1>1, <1>2 DEF Change, Put, SetState, EnqueueChange, FanOut
<1>3. CASE PublishScope
  BY <1>c, <1>3, SMT DEF PublishScope, Follows
<1>4. CASE SourceMoves
  BY <1>b, <1>4 DEF SourceMoves
<1>5. ASSUME UNCHANGED <<scopeVars, row, jobVars>>, state' = state, outdated \subseteq outdated',
             generation'[d] = generation[d], registered'[d] = registered[d]
      PROVE  Follows(d)'
  <2>1. Follows(d)
    BY <1>a, <1>b, <1>5
  <2>2. Assignment(d)' = Assignment(d)
    BY <1>5 DEF Assignment, Enabled, scopeVars
  <2> QED
    BY <1>5, <2>1, <2>2 DEF Follows, scopeVars, jobVars
<1>6. ASSUME NEW e \in Device, Register(e) \/ Unregister(e) PROVE Follows(d)'
  <2>1. d # e /\ outdated \subseteq outdated'
    BY <1>b, <1>6 DEF Register, Unregister
  <2>2. generation'[d] = generation[d] /\ registered'[d] = registered[d]
    BY <1>6, <2>1 DEF Register, Unregister, TypeOK
  <2> QED
    BY <1>5, <1>6, <2>1, <2>2 DEF Register, Unregister, policyVars
<1>7. ASSUME NEW c \in Cursor, JobPage(c) PROVE Follows(d)'
  <2> DEFINE rest == Beyond(Members, c)
             page == FirstPage(rest, ObjectPage)
             next == JobCursor(rest)
  <2>1. /\ jobs[c] > 0 /\ row' = Upserted(page) /\ outdated' = outdated \ page
        /\ jobs' = IF next = 0 THEN [jobs EXCEPT ![c] = @ - 1]
                   ELSE [jobs EXCEPT ![c] = @ - 1, ![next] = @ + 1]
        /\ UNCHANGED <<member, run, fresh, state, generation, registered, fanout>>
    BY <1>7 DEF JobPage, policyVars, scopeVars, deviceVars
  <2>2. /\ page \subseteq rest /\ next \in Cursor
        /\ d \in rest /\ d \notin page => next # 0 /\ next # c /\ next < d
    BY JobPageSplits
  <2>3. d \in rest <=> member[d] # "out" /\ d > c
    BY DEF Beyond, Members
  <2> HIDE DEF page, rest, next
  <2>4. Assignment(d)' = Assignment(d)
    BY <2>1 DEF Assignment, Enabled
  <2>5. CASE d \in page
    <3>1. row'[d] = Assignment(d)
      BY <2>1, <2>2, <2>3, <2>5 DEF Upserted
    <3> QED
      BY <2>1, <2>2, <2>3, <2>4, <2>5, <3>1 DEF Follows
  <2>6. CASE d \notin page /\ member[d] = "out"
    <3>1. row'[d] = [row[d] EXCEPT !.ready = FALSE] /\ row[d] \in Row
      BY <2>1, <2>6 DEF Upserted, TypeOK
    <3>2. ~row'[d].ready
      BY <3>1 DEF Row
    <3> QED
      BY <2>1, <2>6, <3>2 DEF Follows
  <2>7. CASE d \notin page /\ member[d] # "out"
    <3>1. row'[d] = row[d] /\ Follows(d)
      BY <1>a, <1>b, <2>1, <2>7 DEF Upserted
    <3>2. CASE fanout > 0
      BY <2>1, <3>2 DEF Follows
    <3>3. CASE row[d] = Assignment(d)
      BY <2>1, <2>4, <2>7, <3>1, <3>3 DEF Follows
    <3>4. ASSUME NEW b \in Cursor, b < d, jobs[b] > 0 PROVE Follows(d)'
      <4>1. CASE b # c
        <5>1. jobs'[b] > 0
          BY <1>c, <2>1, <2>2, <3>4, <4>1, SMT
        <5> QED
          BY <3>4, <5>1 DEF Follows
      <4>2. CASE b = c
        <5>1. d \in rest
          BY <1>c, <2>3, <2>7, <3>4, <4>2 DEF Cursor
        <5>2. next # 0 /\ next # c /\ next < d /\ next \in Cursor
          BY <2>2, <2>7, <5>1
        <5>3. jobs'[next] > 0
          BY <1>c, <2>1, <5>2, SMT
        <5> QED
          BY <5>2, <5>3 DEF Follows
      <4> QED
        BY <4>1, <4>2
    <3> QED
      BY <2>7, <3>1, <3>2, <3>3, <3>4 DEF Follows
  <2> QED
    BY <2>5, <2>6, <2>7
<1>8. ASSUME NEW c \in Cursor, JobRejected(c) PROVE Follows(d)'
  <2>1. /\ jobs' = [jobs EXCEPT ![c] = @ - 1] /\ d \notin outdated /\ ~(d > c)
        /\ UNCHANGED <<member, run, fresh, state, generation, registered, fanout, row>>
    BY <1>b, <1>8 DEF JobRejected, Beyond, policyVars, scopeVars, deviceVars
  <2>2. \A b \in Cursor : b < d => jobs'[b] = jobs[b]
    BY <1>c, <2>1 DEF Cursor
  <2>3. Assignment(d)' = Assignment(d)
    BY <2>1 DEF Assignment, Enabled
  <2> QED
    BY <1>a, <2>1, <2>2, <2>3 DEF Follows
<1>9. ASSUME UNCHANGED <<policyVars, scopeVars, deviceVars, row, jobVars, outdated>> PROVE Follows(d)'
  BY <1>5, <1>9 DEF policyVars, deviceVars
<1>10. CASE Discover \/ DiscoveryIdle \/ DiscoverySettles
  BY <1>9, <1>10 DEF Discover, DiscoveryIdle, DiscoverySettles
<1>11. ASSUME NEW w \in due, WorkRetires(w) \/ WorkSettles(w) PROVE Follows(d)'
  BY <1>9, <1>11 DEF WorkRetires, WorkSettles
<1>12. CASE UNCHANGED vars
  BY <1>9, <1>12 DEF vars
<1> QED
  BY <1>2, <1>3, <1>4, <1>6, <1>7, <1>8, <1>10, <1>11, <1>12 DEF Next

\* Whatever the interleaving of changes, publications, registrations and the pages of
\* any number of jobs, a row agrees with the scope result or work is queued that
\* will rewrite it.
THEOREM RowsAlwaysFollowScope == Spec => []RowsFollowScope
<1>1. Init => RowsFollowScope
  BY DevicesAssumption, SMT DEF Init, RowsFollowScope, Cursor, Device
<1>2. Inv => TypeOK
  BY DEF Inv
<1> QED
  BY <1>1, <1>2, InitInv, NextInv, RowsNext, PTL DEF Spec
=============================================================================
