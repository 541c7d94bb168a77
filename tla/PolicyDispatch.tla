--------------------------- MODULE PolicyDispatch ---------------------------
(***************************************************************************)
(* How a native collection policy reaches its devices.                     *)
(*                                                                         *)
(* Administrators change the policy, scope calculations publish member     *)
(* sets, devices register and leave.  Three durable workers follow:        *)
(*   - PolicyScope jobs turn a scope publication into a reconcile job;     *)
(*   - PolicyReconcile jobs write one assignment row per member, a page at *)
(*     a time, and wake the scheduled work of a row that became ready;     *)
(*   - the discovery of the policy wakes the scheduled work of every ready *)
(*     row after each change of the policy, a page at a time, in a window  *)
(*     of fixed revision.                                                  *)
(* Scheduled work is one reconcile target per (policy version, device,     *)
(* registration generation); it retires itself when the policy or the      *)
(* registration no longer wants it.                                        *)
(*                                                                         *)
(* One policy, with a repeating schedule that has not ended, whose scope   *)
(* lists devices 1..Devices; a device stands for its object and for its    *)
(* primary registration on the policy's channel.                           *)
(***************************************************************************)
EXTENDS Paging

CONSTANTS Devices,      \* devices are 1..Devices, in key order
          ObjectPage,   \* objects per reconcile page: 64 in reconcile.rs
          DevicePage,   \* devices per discovery page: 32 in scheduled.rs
          Result,       \* the member sets calculations may publish
          MaxRevision,  \* bound on changes of the policy
          MaxRun,       \* bound on scope publications
          MaxGeneration,\* bound on registrations of each device
          MaxJobs       \* bound on jobs waiting at one cursor

ASSUME DevicesAssumption == Devices \in Nat
ASSUME PagesAssumption == ObjectPage \in Nat \ {0} /\ DevicePage \in Nat \ {0}

Device == 1 .. Devices

\* What a scope result says of a device: not listed as a target; listed, but
\* excluded or without evidence; listed and eligible.
Membership == {"out", "withheld", "in"}

ASSUME ResultAssumption == Result \subseteq [Device -> Membership]

Cursor == 0 .. Devices

VARIABLES version, state,                 \* mdm_policy.policies
          run, fresh, member,             \* the published scope result
          generation, registered,         \* mdm_access.registrations
          row,                            \* mdm_policy.assignments of version
          jobs, fanout,                   \* mdm_policy.work, by cursor
          revision, consumed, window, after,   \* mdm_commands.policy_recovery
          discovery,                      \* reconcile target of the discovery
          due, leaving,                   \* reconcile targets of scheduled work
          outdated                        \* history: rows no job will revisit

policyVars == <<version, state>>
scopeVars == <<run, fresh, member>>
deviceVars == <<generation, registered>>
jobVars == <<jobs, fanout>>
recoveryVars == <<revision, consumed, window, after, discovery>>
workVars == <<due, leaving>>
vars == <<policyVars, scopeVars, deviceVars, row, jobVars, recoveryVars, workVars, outdated>>

\* A row exists from its first run on; generation 0 is a row without target.
Row == [ready : BOOLEAN, generation : Nat, run : Nat]
NoRow == [ready |-> FALSE, generation |-> 0, run |-> 0]

Work == [version : Nat, device : Device, generation : Nat]
WorkOf(d) == [version |-> version, device |-> d, generation |-> generation[d]]

TypeOK ==
    /\ version \in Nat /\ state \in {"enabled", "disabled", "archived"}
    /\ run \in Nat /\ fresh \in BOOLEAN /\ member \in [Device -> Membership]
    /\ generation \in [Device -> Nat] /\ registered \in [Device -> BOOLEAN]
    /\ row \in [Device -> Row]
    /\ jobs \in [Cursor -> Nat] /\ fanout \in Nat
    /\ revision \in Nat /\ consumed \in Nat /\ window \in Nat /\ after \in Cursor
    /\ discovery \in {"idle", "due", "leaving"}
    /\ due \subseteq Work /\ leaving \subseteq due
    /\ outdated \subseteq Device

\* The policy was just created: enqueue_change_in queued its first job and
\* inserted its policy_recovery row with the column defaults.
Init ==
    /\ version = 1 /\ state = "enabled"
    /\ run = 1 /\ fresh = TRUE /\ member \in Result
    /\ generation = [d \in Device |-> 1] /\ registered = [d \in Device |-> TRUE]
    /\ row = [d \in Device |-> NoRow]
    /\ jobs = [c \in Cursor |-> IF c = 0 THEN 1 ELSE 0] /\ fanout = 0
    /\ revision = 1 /\ consumed = 0 /\ window = 0 /\ after = 0
    /\ discovery = "due"
    /\ due = {} /\ leaving = {}
    /\ outdated = {}

Enabled == state = "enabled"

-----------------------------------------------------------------------------
(* The reconcile store (external).  A wake makes a target due, and defeats a *)
(* settlement that was decided before it.                                    *)

WakeDiscovery == discovery' = "due"

WakeWorks(works) == due' = due \cup works /\ leaving' = leaving \ works

EnqueueJob ==
    /\ jobs[0] < MaxJobs
    /\ jobs' = [jobs EXCEPT ![0] = @ + 1]

-----------------------------------------------------------------------------
(* Administrators. *)

\* Mutant of WakeExecution: the revision moves and the target is not woken.
WakeExecutionSilent ==
    /\ revision < MaxRevision
    /\ revision' = revision + 1
    /\ UNCHANGED <<discovery, consumed, window, after>>

\* wake_execution_in: the revision and the wake move in one transaction.
WakeExecution ==
    /\ revision < MaxRevision
    /\ revision' = revision + 1
    /\ WakeDiscovery
    /\ UNCHANGED <<consumed, window, after>>

\* enqueue_change_in, for an existing policy.
EnqueueChange == EnqueueJob /\ WakeExecution /\ UNCHANGED fanout

\* Change::Put.  New content is a new version, which has no rows yet.  Scope and
\* enablement are not content; another scope has a published result of its own.
Put(enabled, content, rescoped) ==
    /\ state # "archived"
    /\ state' = IF enabled THEN "enabled" ELSE "disabled"
    /\ version' = IF content THEN version + 1 ELSE version
    /\ row' = IF content THEN [d \in Device |-> NoRow] ELSE row
    /\ IF rescoped
       THEN /\ run < MaxRun /\ run' = run + 1
            /\ fresh' \in BOOLEAN
            /\ member' \in Result
       ELSE UNCHANGED scopeVars
    /\ EnqueueChange
    /\ UNCHANGED <<deviceVars, workVars, outdated>>

\* Change::Enable, Change::Disable and Change::Archive.
SetState(new) ==
    /\ state # "archived"
    /\ new = "archived" => state = "disabled"
    /\ state' = new
    /\ EnqueueChange
    /\ UNCHANGED <<version, scopeVars, deviceVars, row, workVars, outdated>>

Change ==
    \/ \E enabled, content, rescoped \in BOOLEAN : Put(enabled, content, rescoped)
    \/ \E new \in {"enabled", "disabled", "archived"} : SetState(new)

-----------------------------------------------------------------------------
(* Scopes and devices. *)

\* The "ready" phase of a calculation: the result becomes the scope's head and a
\* PolicyScope job is queued with it.  A source may have moved on meanwhile.
PublishScope ==
    /\ run < MaxRun /\ fanout < MaxJobs
    /\ run' = run + 1
    /\ fresh' \in BOOLEAN
    /\ member' \in Result
    /\ fanout' = fanout + 1
    /\ UNCHANGED <<policyVars, deviceVars, row, jobs, recoveryVars, workVars, outdated>>

\* A source of the published result changes; only a new result is fresh again.
SourceMoves ==
    /\ fresh
    /\ fresh' = FALSE
    /\ outdated' = Device
    /\ UNCHANGED <<policyVars, run, member, deviceVars, row, jobVars, recoveryVars, workVars>>

\* A registration is retired; a binding creates the next generation, superseding
\* the active one.  Neither tells the policy: a new scope result will.
Unregister(d) ==
    /\ registered[d]
    /\ registered' = [registered EXCEPT ![d] = FALSE]
    /\ outdated' = outdated \cup {d}
    /\ UNCHANGED <<policyVars, scopeVars, generation, row, jobVars, recoveryVars, workVars>>

Register(d) ==
    /\ generation[d] < MaxGeneration[d]
    /\ generation' = [generation EXCEPT ![d] = @ + 1]
    /\ registered' = [registered EXCEPT ![d] = TRUE]
    /\ outdated' = outdated \cup {d}
    /\ UNCHANGED <<policyVars, scopeVars, row, jobVars, recoveryVars, workVars>>

-----------------------------------------------------------------------------
(* Jobs. *)

\* scope_changes::advance_in: the dependents of the scope get a reconcile job.
FanOut ==
    /\ fanout > 0
    /\ fanout' = fanout - 1
    /\ EnqueueJob
    /\ UNCHANGED <<policyVars, scopeVars, deviceVars, row, recoveryVars, workVars, outdated>>

\* objects_on, with the override of advance_assignment_in for a disabled policy:
\* the row a member has in the current version.
Assignment(d) ==
    [ready |-> Enabled /\ fresh /\ member[d] = "in" /\ registered[d],
     generation |-> IF registered[d] THEN generation[d] ELSE 0,
     run |-> run]

Members == {d \in Device : member[d] # "out"}

\* The rows after upsert_in of one page and withdraw_in of what left the scope.
Upserted(page) ==
    [d \in Device |->
        CASE d \in page          -> Assignment(d)
          [] member[d] = "out"   -> [row[d] EXCEPT !.ready = FALSE]
          [] OTHER               -> row[d]]

\* Mutant of NewlyReady: only a row that was not ready before is woken.
NewlyReadyOnce(page) ==
    {WorkOf(d) : d \in {e \in page : Assignment(e).ready /\ ~row[e].ready}}

\* wake_policy_device_in is called for each row that changed and is ready.
NewlyReady(page) ==
    {WorkOf(d) : d \in {e \in page : Assignment(e).ready /\ row[e] # Assignment(e)}}

\* Mutant of JobCursor: the extra row that only signals another page is taken for
\* the last row handled.
JobCursorPast(rest) == IF HasMore(rest, ObjectPage) THEN Boundary(rest, ObjectPage + 1) ELSE 0

\* cursor_in, or finish_job_in when no page is left.
JobCursor(rest) == NextCursor(rest, ObjectPage)

\* One page of a PolicyReconcile job: prepare_assignment_in and
\* advance_assignment_in under the policy's lock.
JobPage(c) ==
    /\ jobs[c] > 0
    /\ LET rest == Beyond(Members, c)
           page == FirstPage(rest, ObjectPage)
       IN /\ row' = Upserted(page)
          /\ WakeWorks(NewlyReady(page))
          /\ jobs' = IF JobCursor(rest) = 0 THEN [jobs EXCEPT ![c] = @ - 1]
                     ELSE [jobs EXCEPT ![c] = @ - 1, ![JobCursor(rest)] = @ + 1]
          /\ outdated' = outdated \ page
    /\ UNCHANGED <<policyVars, scopeVars, deviceVars, fanout, recoveryVars>>

\* A job whose page was rolled back for a terminal reason is finished with that
\* reason; the devices it had not reached keep their rows.
JobRejected(c) ==
    /\ jobs[c] > 0
    /\ jobs' = [jobs EXCEPT ![c] = @ - 1]
    /\ outdated' = outdated \cup Beyond(Device, c)
    /\ UNCHANGED <<policyVars, scopeVars, deviceVars, row, fanout, recoveryVars, workVars>>

-----------------------------------------------------------------------------
(* Discovery. *)

Backlog == revision > consumed

\* A settled window is replaced by one that ends at the current revision.
Window == IF consumed = window THEN revision ELSE window
After == IF consumed = window THEN 0 ELSE after

Discoverable ==
    {d \in Device : Enabled /\ row[d].ready /\ registered[d] /\ d > After}

\* The window is acknowledged with its last page.
Acknowledged == IF HasMore(Discoverable, DevicePage) THEN consumed ELSE Window

\* discover_in, called by the claim holder while the policy has a backlog.  The
\* target is observed again afterwards (Completion::Reobserve).
Discover ==
    /\ discovery = "due"
    /\ Backlog
    /\ WakeWorks({WorkOf(d) : d \in FirstPage(Discoverable, DevicePage)})
    /\ consumed' = Acknowledged
    /\ window' = Window
    /\ after' = NextCursor(Discoverable, DevicePage)
    /\ UNCHANGED <<policyVars, scopeVars, deviceVars, row, jobVars, revision, discovery, outdated>>

\* observe finds nothing; the claim settles in a later transaction.
DiscoveryIdle ==
    /\ discovery = "due"
    /\ ~Backlog
    /\ discovery' = "leaving"
    /\ UNCHANGED <<policyVars, scopeVars, deviceVars, row, jobVars,
                   revision, consumed, window, after, workVars, outdated>>

DiscoverySettles ==
    /\ discovery = "leaving"
    /\ discovery' = "idle"
    /\ UNCHANGED <<policyVars, scopeVars, deviceVars, row, jobVars,
                   revision, consumed, window, after, workVars, outdated>>

-----------------------------------------------------------------------------
(* Scheduled work. *)

\* device_in: the enabled policy still has this version and the device still has
\* this registration.
Wanted(w) ==
    /\ Enabled /\ w.version = version
    /\ registered[w.device] /\ w.generation = generation[w.device]

\* finish asks delay_in in one transaction and settles in another.
WorkRetires(w) ==
    /\ w \in due \ leaving
    /\ ~Wanted(w)
    /\ leaving' = leaving \cup {w}
    /\ UNCHANGED <<policyVars, scopeVars, deviceVars, row, jobVars, recoveryVars, due, outdated>>

WorkSettles(w) ==
    /\ w \in leaving
    /\ due' = due \ {w}
    /\ leaving' = leaving \ {w}
    /\ UNCHANGED <<policyVars, scopeVars, deviceVars, row, jobVars, recoveryVars, outdated>>

-----------------------------------------------------------------------------
Next ==
    \/ Change \/ PublishScope \/ SourceMoves \/ FanOut
    \/ \E d \in Device : Register(d) \/ Unregister(d)
    \/ \E c \in Cursor : JobPage(c) \/ JobRejected(c)
    \/ Discover \/ DiscoveryIdle \/ DiscoverySettles
    \/ \E w \in due : WorkRetires(w) \/ WorkSettles(w)

Spec == Init /\ [][Next]_vars

\* A due target is claimed again until it settles, so no page waits for ever.
FairSpec ==
    /\ Spec
    /\ WF_vars(Discover) /\ WF_vars(FanOut)
    /\ \A c \in Cursor : WF_vars(JobPage(c))

-----------------------------------------------------------------------------
\* A device the policy was assigned to under its current registration.
Assigned(d) ==
    /\ Enabled /\ row[d].ready
    /\ registered[d] /\ row[d].generation = generation[d]

Alive(d) == WorkOf(d) \in due \ leaving

\* The discovery still has this device ahead of it and is scheduled to run.
Ahead(d) ==
    /\ discovery = "due"
    /\ revision > window \/ (window > consumed /\ d > after)

\* An assigned device always has live scheduled work for exactly the policy's
\* current version and the device's current registration, or the discovery is
\* scheduled and has the device ahead of it.  A page, a window or a settlement that
\* was overtaken by a change never drops a device (scheduled.rs: "Its fixed window
\* does not acknowledge a later wake").
AssignedIsWoken == \A d \in Device : Assigned(d) => Alive(d) \/ Ahead(d)

\* A row of the current version agrees with the published scope result, the policy
\* and the registration, unless work that will rewrite it is queued: a fan-out, or a
\* reconcile job that has not reached the device.  Registrations, stale sources and
\* rejected jobs are repaired only by a later result (outdated).
RowsFollowScope ==
    \A d \in Device \ outdated :
        \/ fanout > 0
        \/ \E c \in Cursor : c < d /\ jobs[c] > 0
        \/ member[d] # "out" /\ row[d] = Assignment(d)
        \/ member[d] = "out" /\ ~row[d].ready

\* A device the enabled policy should serve, as far as the queued work can know.
Owed(d) ==
    /\ Enabled /\ fresh /\ member[d] = "in"
    /\ registered[d] /\ d \notin outdated

\* A member of a fresh result is served: the fan-out, the pages of the reconcile
\* jobs and the pages of the discovery together end with live scheduled work for
\* it, unless the device stops being owed any.
MemberIsServed == \A d \in Device : Owed(d) ~> Alive(d) \/ ~Owed(d)
=============================================================================
