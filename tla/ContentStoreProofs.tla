------------------------- MODULE ContentStoreProofs -------------------------
(***************************************************************************)
(* The safety properties of ContentStore for every number of uploads,      *)
(* objects, requests, readers and collectors.                              *)
(*                                                                         *)
(* What is deleted is gone, a manifest is kept while it is needed, a       *)
(* stopped collection can continue, what is ready, resumable or pinned is  *)
(* stored unless a request claimed it past its expiry, and temporary bytes *)
(* are bounded, all of it however stale the clock reads of the callers     *)
(* are.  Only that the catalog can be backed up needs Lag = 0: with a      *)
(* stale clock it fails, as the run of ContentStale shows.                 *)
(***************************************************************************)
EXTENDS ContentStore, FiniteSetTheorems, TLAPS

\* First-order steps go to Zenon; the ones that need arithmetic or updated records name SMT.
USE Zenon

\* No bytes of the object are left, and none can come.
Gone(o) == o \notin stored /\ (o \in inflight => o \in fenced)

\* The write of the object has ended; on a volume it may still be on its way.
Landed(o) == objects[o].state # "none" /\ (backend = "s3" => o \notin inflight)

ObjectInv(o) ==
    /\ objects[o].state = "none" => o \notin stored \cup inflight
    /\ o \in stored => o \notin inflight
    /\ objects[o].located => Landed(o)
    /\ objects[o].state = "deleted" => Gone(o)
    /\ objects[o].state \notin {"none", "deleted"} => objects[o].owner \in Upload

UploadInv(u) ==
    /\ uploads[u].piece # Nil => Landed(uploads[u].piece)
    /\ uploads[u].offset > 0 => uploads[u].piece # Nil

RequestInv(r) ==
    /\ requests[r].pc # "idle" => requests[r].upload # Nil
    /\ requests[r].object # Nil => objects[requests[r].object].state # "none"
    /\ requests[r].pc \in {"writing", "located", "ready"} => requests[r].object # Nil
    /\ requests[r].pc \in {"located", "ready"} => Landed(requests[r].object)
    /\ requests[r].pc \in {"finish", "checked"} /\ Owns(r) =>
           uploads[requests[r].upload].offset = requests[r].target
    /\ requests[r].pc = "checked" => requests[r].target = Length

ManifestInv ==
    /\ manifest.state # "none" => manifest.piece # Nil
    /\ manifest.piece # Nil => Landed(manifest.piece)

Collecting == {"removing", "erasing", "erased", "closing"}
Doomed(o) == objects[o].state \in {"deleting", "deleted"}

WorkerInv(w) ==
    /\ \A o \in workers[w].rows : Doomed(o)
    /\ \A o \in workers[w].known : Landed(o)
    /\ workers[w].pc \in {"deleting", "settling"} =>
           workers[w].object # Nil /\ Doomed(workers[w].object)
    /\ workers[w].pc \in {"deleting", "settling", "listed"} \cup Collecting =>
           workers[w].object # Nil /\ Landed(workers[w].object)
    /\ workers[w].pc \in {"settling", "erased"} => Gone(workers[w].object)

Inv ==
    /\ TypeOK
    /\ \A o \in Object : ObjectInv(o)
    /\ \A u \in Upload : UploadInv(u)
    /\ \A r \in Request : RequestInv(r)
    /\ \A w \in Worker : WorkerInv(w)
    /\ ManifestInv

-----------------------------------------------------------------------------
(* What is needed is stored.                                               *)

\* The object holds the first length bytes of an upload and no collector has touched it.
Whole(o, length) ==
    objects[o].state = "ready" /\ objects[o].located /\ o \in stored /\ objects[o].length = length

\* The frontier of an upload is needed: it may be resumed, or is being worked on under a lease
\* that was taken in time.
Needed(u) ==
    /\ uploads[u].live /\ uploads[u].piece # Nil
    /\ \/ uploads[u].expires > clock
       \/ uploads[u].held > clock /\ ~uploads[u].complete /\ uploads[u].piece \notin overdue

FrontierInv(u) ==
    /\ Needed(u) => Whole(uploads[u].piece, uploads[u].offset) /\ objects[uploads[u].piece].owner = u
    /\ ~uploads[u].live => uploads[u].piece = Nil
    /\ manifest.state \in {"ready", "deleting"} /\ uploads[u].piece = manifest.piece =>
           uploads[u].complete
    /\ \A v \in Upload : uploads[u].piece # Nil /\ uploads[v].piece = uploads[u].piece => u = v

\* The object a request writes is known to no one else.
PrivateInv(r) ==
    requests[r].object # Nil =>
        /\ \A x \in Request : requests[x].object = requests[r].object => x = r
        /\ \A u \in Upload : uploads[u].piece # requests[r].object
        /\ manifest.piece # requests[r].object
        /\ \A w \in Worker : workers[w].pc \in {"listed"} \cup Collecting =>
               workers[w].object # requests[r].object

\* While a request runs under its lease no collector touches the object it writes.
LeaseInv(r) ==
    requests[r].pc \notin {"idle", "release"} /\ Owns(r) =>
        /\ uploads[requests[r].upload].held = requests[r].held
        /\ requests[r].pc \in {"writing", "located", "ready"} /\ clock < requests[r].held =>
               /\ objects[requests[r].object].state =
                      IF requests[r].pc = "ready" THEN "ready" ELSE "pending"
               /\ objects[requests[r].object].owner = requests[r].upload
               /\ objects[requests[r].object].length = requests[r].target
               /\ requests[r].pc \in {"located", "ready"} =>
                      objects[requests[r].object].located /\ requests[r].object \in stored

CollectInv(w) ==
    workers[w].pc \in Collecting =>
        /\ manifest.piece = workers[w].object => manifest.state \in {"deleting", "deleted"}
        /\ \A u \in Upload : uploads[u].piece = workers[w].object =>
               uploads[u].complete /\ uploads[u].expires <= clock

PinInv(d) ==
    pins[d].live /\ pins[d].expires > clock =>
        manifest.state = "ready" /\ manifest.piece = pins[d].piece

StoreInv ==
    /\ \A u \in Upload : FrontierInv(u)
    /\ \A r \in Request : PrivateInv(r) /\ LeaseInv(r)
    /\ \A w \in Worker : CollectInv(w)
    /\ \A d \in Reader : PinInv(d)
    /\ manifest.state = "ready" /\ manifest.piece \notin overdue => Whole(manifest.piece, Length)

-----------------------------------------------------------------------------
(* Types.                                                                  *)

\* The clock values a caller may use are times.
LEMMA NowIsTime ==
    ASSUME TypeOK, NEW now \in Now
    PROVE  now \in Time /\ now <= clock /\ clock \in Nat
  BY TimesAssumption, SMT DEF TypeOK, Now, Time

\* Zero is a time and a length.
LEMMA ZeroTypes == 0 \in Time /\ 0 \in 0 .. Length /\ Length \in 0 .. Length
  BY TimesAssumption, SMT DEF Time

\* A new upload keeps the types.
LEMMA BeginTypes ==
    ASSUME TypeOK, NEW u \in Upload, Begin(u)
    PROVE  TypeOK'
<1> PICK now \in Now : uploads' = [uploads EXCEPT ![u] = Opened(now + Retention)]
  BY ZenonT(30) DEF Begin
<1>1. now + Retention \in Time
  BY NowIsTime, TimesAssumption, SMT DEF Begin, Time
<1>2. Opened(now + Retention) \in UploadRow
  BY <1>1, ZeroTypes DEF UploadRow, Opened
<1>3. uploads' \in [Upload -> UploadRow]
  BY <1>2 DEF TypeOK
<1> QED
  BY <1>3 DEF TypeOK, Begin, env, provider

\* Request r claims upload v at time now, until held and for target t.
Claims(r, kind, v, now, held, t) ==
    /\ uploads[v].live /\ uploads[v].expires > now /\ uploads[v].held <= now
    /\ ~uploads[v].complete
    /\ kind = "finish" => t = uploads[v].offset
    /\ requests' = [requests EXCEPT ![r] =
                      [pc |-> kind, upload |-> v, object |-> Nil, target |-> t, held |-> held]]
    /\ uploads' = [uploads EXCEPT ![v].epoch = r, ![v].held = held]
    /\ overdue \subseteq overdue' /\ overdue' \subseteq overdue \cup ({uploads[v].piece} \ {Nil})
    /\ uploads[v].expires <= clock /\ uploads[v].piece # Nil => uploads[v].piece \in overdue'
    /\ ~(uploads[v].expires <= clock) => overdue' = overdue

\* What a claim does.
LEMMA ClaimStep ==
    ASSUME TypeOK, NEW r \in Request, NEW kind \in {"append", "finish"}, Claim(r, kind)
    PROVE  \E v \in Upload, now \in Now, held \in Time, t \in 0 .. Length :
               Claims(r, kind, v, now, held, t)
<1> PICK v \in Upload, now \in Now, held \in Time :
       LET row == uploads[v]
       IN  /\ row.live /\ row.expires > now /\ row.held <= now /\ ~row.complete
           /\ \E t \in IF kind = "append" THEN row.offset + 1 .. Length ELSE {row.offset} :
                requests' = [requests EXCEPT ![r] =
                               [pc |-> kind, upload |-> v, object |-> Nil, target |-> t,
                                held |-> held]]
           /\ uploads' = [uploads EXCEPT ![v].epoch = r, ![v].held = held]
           /\ overdue' = overdue \cup (IF row.expires <= clock THEN {row.piece} \ {Nil} ELSE {})
  BY ZenonT(30) DEF Claim
<1>1. uploads[v].offset \in 0 .. Length
  BY DEF TypeOK, UploadRow
<1> PICK t \in IF kind = "append" THEN uploads[v].offset + 1 .. Length ELSE {uploads[v].offset} :
       requests' = [requests EXCEPT ![r] =
                      [pc |-> kind, upload |-> v, object |-> Nil, target |-> t, held |-> held]]
  BY ZenonT(30)
<1>2. t \in 0 .. Length /\ (kind = "finish" => t = uploads[v].offset)
  BY <1>1, TimesAssumption, SMT
<1>3. /\ overdue \subseteq overdue' /\ overdue' \subseteq overdue \cup ({uploads[v].piece} \ {Nil})
      /\ uploads[v].expires <= clock /\ uploads[v].piece # Nil => uploads[v].piece \in overdue'
      /\ ~(uploads[v].expires <= clock) => overdue' = overdue
  OBVIOUS
<1> QED
  BY <1>2, <1>3, ZenonT(30) DEF Claims

\* A claimed upload keeps the types.
LEMMA ClaimTypes ==
    ASSUME TypeOK, NEW r \in Request, NEW kind \in {"append", "finish"}, Claim(r, kind)
    PROVE  TypeOK'
<1> PICK v \in Upload, now \in Now, held \in Time, t \in 0 .. Length :
       Claims(r, kind, v, now, held, t)
  BY ClaimStep
<1>1. uploads[v] \in UploadRow
  BY DEF TypeOK
<1>2. uploads' \in [Upload -> UploadRow]
  BY <1>1, ZenonT(30) DEF TypeOK, UploadRow, Claims
<1>3. requests' \in [Request -> RequestState]
  BY DEF TypeOK, RequestState, Claims
<1>4. overdue' \subseteq Object
  BY <1>1 DEF TypeOK, UploadRow, Claims
<1> QED
  BY <1>2, <1>3, <1>4 DEF TypeOK, Claim, provider

\* Collector w marks rows at time now.
Marks(w, now, rows) ==
    /\ \A o \in rows : Orphan(o, now)
    /\ objects' = [o \in Object |-> IF o \in rows
                     THEN [objects[o] EXCEPT !.state = "deleting"] ELSE objects[o]]
    /\ workers' = [workers EXCEPT ![w] =
                     [pc |-> "cleaning", now |-> now, rows |-> rows, object |-> Nil,
                      known |-> {o \in rows : objects[o].located}]]

\* What the first transaction of clean_orphans does: the page it marks holds orphans.
LEMMA MarkStep ==
    ASSUME NEW w \in Worker, MarkOrphans(w)
    PROVE  \E now \in Now, rows \in SUBSET Object : Marks(w, now, rows)
<1> PICK now \in Now : \E rows \in Pages({o \in Object : Orphan(o, now)}) :
         /\ objects' = [o \in Object |-> IF o \in rows
                          THEN [objects[o] EXCEPT !.state = "deleting"] ELSE objects[o]]
         /\ workers' = [workers EXCEPT ![w] =
                          [pc |-> "cleaning", now |-> now, rows |-> rows, object |-> Nil,
                           known |-> {o \in rows : objects[o].located}]]
  BY DEF MarkOrphans
<1> PICK rows \in Pages({o \in Object : Orphan(o, now)}) :
         /\ objects' = [o \in Object |-> IF o \in rows
                          THEN [objects[o] EXCEPT !.state = "deleting"] ELSE objects[o]]
         /\ workers' = [workers EXCEPT ![w] =
                          [pc |-> "cleaning", now |-> now, rows |-> rows, object |-> Nil,
                           known |-> {o \in rows : objects[o].located}]]
  OBVIOUS
<1>1. rows \in SUBSET Object /\ \A o \in rows : Orphan(o, now)
  BY DEF Pages, kSubset
<1> QED
  BY <1>1 DEF Marks

\* What the listing of garbage leaves with a collector.
LEMMA ListStep ==
    ASSUME TypeOK, NEW w \in Worker, ListGarbage(w)
    PROVE  \/ workers'[w] = NoWork
           \/ /\ Candidate(workers[w].now) /\ workers'[w].pc = "listed"
              /\ workers'[w].object = manifest.piece
              /\ workers'[w].rows = {} /\ workers'[w].known = {}
<1>0. workers \in [Worker -> WorkerState]
  BY DEF TypeOK
<1>1. CASE workers' = [workers EXCEPT ![w] = NoWork]
  BY <1>0, <1>1
<1>2. CASE /\ Candidate(workers[w].now)
           /\ workers' = [workers EXCEPT ![w] = [NoWork EXCEPT !.pc = "listed",
                                                               !.object = manifest.piece]]
  <2>1. workers'[w] = [NoWork EXCEPT !.pc = "listed", !.object = manifest.piece]
    BY <1>0, <1>2
  <2> QED
    BY <1>2, <2>1 DEF NoWork
<1> QED
  BY <1>1, <1>2 DEF ListGarbage

\* The steps of a request keep the types.
LEMMA RequestTypes ==
    ASSUME TypeOK, NEW r \in Request, RequestInv(r), RequestStep(r)
    PROVE  TypeOK'
<1>0. requests[r] \in RequestState
  BY DEF TypeOK
<1>1. CASE Claim(r, "append") \/ Claim(r, "finish")
  BY <1>1, ClaimTypes
<1>2. ASSUME NEW pc \in {"buffered", "located", "ready", "checked"}, At(r, pc)
      PROVE  requests' \in [Request -> RequestState]
  BY <1>0, <1>2 DEF At, TypeOK, RequestState
<1>3. ASSUME Ends(r)
      PROVE  requests' \in [Request -> RequestState]
  BY <1>0, <1>3, ZeroTypes, ZenonT(30) DEF Ends, TypeOK, RequestState
<1>4. Idle \in RequestState
  BY ZeroTypes DEF Idle, RequestState
<1>5. ASSUME NEW o \in Object
      PROVE  objects[o] \in ObjectRow /\ Deleted \in ObjectRow
  BY ZeroTypes DEF TypeOK, ObjectRow, Deleted
<1>. DEFINE u == requests[r].upload
<1>u. requests[r].pc # "idle" => u \in Upload /\ uploads[u] \in UploadRow
  BY <1>0 DEF RequestInv, TypeOK, RequestState
<1>6. CASE PutPiece(r)
  <2> PICK o \in Object :
             /\ objects' = [objects EXCEPT ![o] =
                              [state |-> "pending", owner |-> requests[r].upload, located |-> FALSE,
                               expires |-> uploads[requests[r].upload].expires,
                               length |-> requests[r].target]]
             /\ inflight' = inflight \cup {o}
             /\ requests' = [requests EXCEPT ![r].pc = "writing", ![r].object = o]
    BY <1>6 DEF PutPiece
  <2>1. u \in Upload /\ uploads[u].expires \in Time
    BY <1>6, <1>u DEF PutPiece, Running, UploadRow
  <2>2. objects' \in [Object -> ObjectRow]
    BY <1>0, <2>1 DEF TypeOK, ObjectRow, RequestState
  <2>3. requests' \in [Request -> RequestState]
    BY <1>0, ZenonT(30) DEF TypeOK, RequestState
  <2> QED
    BY <1>6, <2>2, <2>3 DEF PutPiece, TypeOK, env
<1>7. CASE Locate(r)
  <2>1. objects' \in [Object -> ObjectRow]
    BY <1>7, <1>5, ZenonT(40) DEF Locate, TypeOK, ObjectRow
  <2> QED
    BY <1>7, <1>2, <2>1 DEF TypeOK, Locate, env, provider
<1>8. CASE NotWritten(r)
  <2>1. objects' \in [Object -> ObjectRow]
    BY <1>8, <1>5, ZenonT(30) DEF NotWritten, TypeOK
  <2> QED
    BY <1>8, <1>3, <2>1 DEF TypeOK, NotWritten, env, provider
<1>9. CASE MarkReady(r)
  <2>1. objects' \in [Object -> ObjectRow]
    BY <1>9, <1>5, SMT DEF MarkReady, TypeOK, ObjectRow
  <2> QED
    BY <1>9, <1>2, <2>1 DEF TypeOK, MarkReady, env, provider
<1>10. CASE SaveFrontier(r)
  <2>0. u \in Upload /\ uploads[u] \in UploadRow
    BY <1>10, <1>u DEF SaveFrontier, Running
  <2>1. uploads' \in [Upload -> UploadRow]
    BY <1>10, <1>0, <2>0, ZeroTypes, ZenonT(30) DEF SaveFrontier, TypeOK, UploadRow, RequestState
  <2>2. objects' \in [Object -> ObjectRow]
    BY <1>10, <1>5, ZeroTypes, ZenonT(30) DEF SaveFrontier, TypeOK, ObjectRow
  <2>3. requests' \in [Request -> RequestState]
    BY <1>10, <1>4 DEF SaveFrontier, TypeOK
  <2> QED
    BY <1>10, <2>1, <2>2, <2>3 DEF SaveFrontier, TypeOK, env, provider
<1>11. CASE CheckPieces(r) \/ ReadTail(r)
  BY <1>11, <1>2 DEF TypeOK, CheckPieces, ReadTail, env, db, provider
<1>12. CASE Publish(r)
  <2>0. u \in Upload /\ uploads[u] \in UploadRow
    BY <1>12, <1>u DEF Publish, Running
  <2>1. uploads' \in [Upload -> UploadRow]
    BY <1>12, <2>0, ZenonT(30) DEF Publish, TypeOK, UploadRow
  <2>2. manifest' \in ManifestRow
    BY <1>12, <2>0 DEF Publish, TypeOK, UploadRow, ManifestRow
  <2> QED
    BY <1>12, <1>3, <2>1, <2>2 DEF Publish, TypeOK, env, provider
<1>13. CASE Fail(r)
  BY <1>13, <1>3 DEF TypeOK, Fail, env, db, provider
<1>14. CASE Release(r)
  <2>0. u \in Upload /\ uploads[u] \in UploadRow
    BY <1>14, <1>u DEF Release
  <2>1. uploads' \in [Upload -> UploadRow]
    BY <1>14, <2>0, ZeroTypes DEF Release, TypeOK, UploadRow
  <2>2. requests' \in [Request -> RequestState]
    BY <1>14, <1>4 DEF Release, TypeOK
  <2> QED
    BY <1>14, <2>1, <2>2 DEF Release, TypeOK, env, provider
<1>15. CASE Crash(r)
  <2>1. requests' \in [Request -> RequestState]
    BY <1>15, <1>4 DEF Crash, TypeOK
  <2> QED
    BY <1>15, <2>1 DEF TypeOK, Crash, env, db, provider
<1> QED
  BY <1>1, <1>6, <1>7, <1>8, <1>9, <1>10, <1>11, <1>12, <1>13, <1>14, <1>15 DEF RequestStep

\* The steps of a collector keep the types.
LEMMA WorkerTypes ==
    ASSUME TypeOK, NEW w \in Worker, WorkerInv(w),
           WorkerStep(w)
    PROVE  TypeOK'
<1>. DEFINE o == workers[w].object
<1>0. workers[w] \in WorkerState /\ NoWork \in WorkerState
  BY ZeroTypes DEF TypeOK, WorkerState, NoWork
<1>1. ASSUME NEW pc \in {"settling", "swept", "removing", "erased", "closing"}, Worked(w, pc)
      PROVE  workers' \in [Worker -> WorkerState]
  BY <1>0, <1>1 DEF Worked, TypeOK, WorkerState
<1>2. workers[w].pc \in {"deleting", "settling", "listed"} \cup Collecting => o \in Object
  BY <1>0 DEF WorkerInv, WorkerState
<1>3. ASSUME o \in Object, Erase(o)
      PROVE  stored' \subseteq Object /\ inflight' \subseteq Object /\ fenced' \subseteq Object
  BY <1>3 DEF Erase, TypeOK
<1>4. Deleted \in ObjectRow /\ \A x \in Object : objects[x] \in ObjectRow
  BY ZeroTypes DEF TypeOK, ObjectRow, Deleted
<1>5. CASE MarkOrphans(w)
  <2> PICK now \in Now, rows \in SUBSET Object : Marks(w, now, rows)
    BY <1>5, MarkStep
  <2>1. objects' \in [Object -> ObjectRow]
    BY <1>4 DEF ObjectRow, Marks
  <2>2. workers' \in [Worker -> WorkerState]
    BY NowIsTime DEF TypeOK, WorkerState, Marks
  <2>3. pins' \in [Reader -> PinRow]
    BY <1>5, ZeroTypes DEF MarkOrphans, TypeOK, PinRow, NoPin
  <2> QED
    BY <1>5, <2>1, <2>2, <2>3 DEF MarkOrphans, TypeOK, env, provider
<1>6. CASE LocateOrphan(w)
  <2> PICK x \in workers[w].rows :
         LET found == x \in workers[w].known \/ Recovered(x)
         IN  /\ objects' = IF found THEN [objects EXCEPT ![x].located = TRUE] ELSE objects
             /\ workers' = [workers EXCEPT
                              ![w].rows = @ \ {x}, ![w].known = @ \ {x},
                              ![w].pc = IF found THEN "deleting" ELSE "cleaning",
                              ![w].object = IF found THEN x ELSE Nil]
    BY <1>6 DEF LocateOrphan
  <2>1. x \in Object
    BY <1>0 DEF WorkerState
  <2>2. objects' \in [Object -> ObjectRow]
    BY <1>4, <2>1, ZenonT(30) DEF TypeOK, ObjectRow
  <2>3. workers' \in [Worker -> WorkerState]
    <3>1. /\ workers[w].rows \ {x} \in SUBSET Object /\ workers[w].known \ {x} \in SUBSET Object
          /\ (IF x \in workers[w].known \/ Recovered(x) THEN "deleting" ELSE "cleaning")
                 \in {"deleting", "cleaning"}
          /\ (IF x \in workers[w].known \/ Recovered(x) THEN x ELSE Nil) \in Object \cup {Nil}
      BY <1>0, <2>1 DEF WorkerState
    <3> QED
      BY <1>0, <3>1, ZenonT(30) DEF TypeOK, WorkerState
  <2> QED
    BY <1>6, <2>2, <2>3 DEF LocateOrphan, TypeOK, env, provider
<1>7. CASE DeleteOrphan(w)
  BY <1>7, <1>1, <1>2, <1>3 DEF DeleteOrphan, TypeOK, env, db
<1>8. CASE DeleteUnconfirmed(w)
  <2>1. workers' \in [Worker -> WorkerState]
    BY <1>8, <1>0, ZenonT(30) DEF DeleteUnconfirmed, TypeOK, WorkerState
  <2>2. stored' \subseteq Object /\ inflight' \subseteq Object /\ fenced' \subseteq Object
    BY <1>8, <1>2, <1>3 DEF DeleteUnconfirmed, TypeOK, provider
  <2> QED
    BY <1>8, <2>1, <2>2 DEF DeleteUnconfirmed, TypeOK, env, db
<1>9. CASE SettleOrphan(w)
  <2>1. workers' \in [Worker -> WorkerState]
    BY <1>9, <1>0, ZenonT(30) DEF SettleOrphan, TypeOK, WorkerState
  <2>2. objects' \in [Object -> ObjectRow]
    BY <1>9, <1>2, <1>4 DEF SettleOrphan, TypeOK
  <2> QED
    BY <1>9, <2>1, <2>2 DEF SettleOrphan, TypeOK, env, provider
<1>10. CASE SweepUploads(w)
  <2>1. NoUpload \in UploadRow
    BY ZeroTypes DEF NoUpload, UploadRow
  <2>2. uploads' \in [Upload -> UploadRow]
    BY <1>10, <2>1 DEF SweepUploads, TypeOK
  <2>3. workers' \in [Worker -> WorkerState]
    BY <1>10, <1>1 DEF SweepUploads
  <2> QED
    BY <1>10, <2>2, <2>3 DEF SweepUploads, TypeOK, env, provider
<1>11. CASE Reclaim(w)
  BY <1>11, <1>1 DEF Reclaim, TypeOK, ManifestRow, env, provider
<1>12. CASE Refuse(w) \/ WorkerFails(w)
  BY <1>12, <1>0 DEF Refuse, WorkerFails, TypeOK, env, db, provider
<1>13. CASE StartRemove(w)
  <2>1. workers' \in [Worker -> WorkerState]
    BY <1>13, <1>0 DEF StartRemove, TypeOK, WorkerState
  <2> QED
    BY <1>13, <2>1 DEF StartRemove, TypeOK, env, db, provider
<1>14. CASE ErasePiece(w)
  <2>1. workers' \in [Worker -> WorkerState]
    BY <1>14, <1>1 DEF ErasePiece
  <2>2. stored' \subseteq Object /\ inflight' \subseteq Object /\ fenced' \subseteq Object
    BY <1>14, <1>2, <1>3 DEF ErasePiece, TypeOK, provider, Collecting
  <2> QED
    BY <1>14, <2>1, <2>2 DEF ErasePiece, TypeOK, env, db
<1>15. CASE SettlePiece(w)
  <2>1. objects' \in [Object -> ObjectRow]
    BY <1>15, <1>2, <1>4 DEF SettlePiece, TypeOK, Collecting
  <2> QED
    BY <1>15, <1>1, <2>1 DEF SettlePiece, TypeOK, env, provider
<1>16. CASE CloseManifest(w)
  <2>1. manifest' \in ManifestRow
    BY <1>16 DEF CloseManifest, TypeOK, ManifestRow
  <2> QED
    BY <1>16, <1>0, <2>1 DEF CloseManifest, TypeOK, env, provider
<1>17. CASE ListGarbage(w)
  <2>1. manifest.piece \in Object \cup {Nil}
    BY DEF TypeOK, ManifestRow
  <2>2. [NoWork EXCEPT !.pc = "listed", !.object = manifest.piece] \in WorkerState
    BY <1>0, <2>1, ZenonT(30) DEF WorkerState
  <2>3. workers' \in [Worker -> WorkerState]
    BY <1>17, <1>0, <2>2 DEF ListGarbage, TypeOK
  <2> QED
    BY <1>17, <2>3 DEF ListGarbage, TypeOK, env, db, provider
<1> QED
  BY <1>5, <1>6, <1>7, <1>8, <1>9, <1>10, <1>11, <1>12, <1>13, <1>14, <1>15, <1>16, <1>17
     DEF WorkerStep

\* Every step keeps the types.
LEMMA NextTypes ==
    ASSUME TypeOK, \A r \in Request : RequestInv(r), \A w \in Worker : WorkerInv(w), [Next]_vars
    PROVE  TypeOK'
<1>1. CASE \E u \in Upload : Begin(u)
  <2> PICK u \in Upload : Begin(u)
    BY <1>1
  <2> QED
    BY BeginTypes
<1>2. CASE \E r \in Request : RequestStep(r)
  BY <1>2, RequestTypes
<1>3. CASE \E o \in Object : Land(o) \/ Lose(o)
  BY <1>3 DEF Land, Lose, TypeOK, env, db
<1>4. CASE \E d \in Reader : Pin(d) \/ Unpin(d)
  <2> PICK d \in Reader : Pin(d) \/ Unpin(d)
    BY <1>4
  <2>1. Pin(d) => clock + PinTime \in Time
    BY TimesAssumption, SMT DEF Pin, TypeOK, Time
  <2>2. NoPin \in PinRow
    BY ZeroTypes DEF NoPin, PinRow
  <2>3. manifest.piece \in Object \cup {Nil}
    BY DEF TypeOK, ManifestRow
  <2>4. Pin(d) => [live |-> TRUE, expires |-> clock + PinTime, piece |-> manifest.piece] \in PinRow
    BY <2>1, <2>3 DEF PinRow
  <2>5. pins' \in [Reader -> PinRow]
    BY <2>2, <2>4, ZenonT(30) DEF Pin, Unpin, TypeOK
  <2> QED
    BY <2>5 DEF Pin, Unpin, TypeOK, env, provider
<1>5. CASE \E w \in Worker : WorkerStep(w)
  BY <1>5, WorkerTypes
<1>6. CASE Refer \/ Tick
  <2>1. clock' \in 0 .. MaxTime
    BY <1>6, TimesAssumption, SMT DEF Refer, Tick, TypeOK
  <2>2. referenced' \in BOOLEAN
    BY <1>6 DEF Refer, Tick, TypeOK
  <2> QED
    BY <1>6, <2>1, <2>2 DEF Refer, Tick, TypeOK, db, provider
<1>7. CASE UNCHANGED vars
  BY <1>7 DEF vars, env, db, provider, TypeOK
<1> QED
  BY <1>1, <1>2, <1>3, <1>4, <1>5, <1>6, <1>7 DEF Next

-----------------------------------------------------------------------------
(* Deleted objects are gone.                                               *)

\* What no step takes back of an object.
Evolves(o) ==
    /\ objects[o].state # "none" => objects'[o].state # "none"
    /\ Doomed(o) => Doomed(o)'
    /\ Landed(o) => Landed(o)'
    /\ objects[o].state # "none" /\ Gone(o) => Gone(o)'

\* A step that leaves the objects and the provider alone.
LEMMA ObjectsUnchanged ==
    ASSUME NEW o \in Object, ObjectInv(o), UNCHANGED <<objects, provider, backend>>
    PROVE  ObjectInv(o)' /\ Evolves(o)
  BY DEF ObjectInv, Evolves, provider, Doomed, Landed, Gone

\* What requests do to an object.
LEMMA WrittenObjects ==
    ASSUME Inv, NEW o \in Object, NEW r \in Request, RequestStep(r)
    PROVE  ObjectInv(o)' /\ Evolves(o)
<1>. DEFINE p == requests[r].object
            u == requests[r].upload
<1>0. /\ ObjectInv(o) /\ objects[o] \in ObjectRow /\ DOMAIN objects = Object
      /\ RequestInv(r) /\ requests[r] \in RequestState
  BY DEF Inv, TypeOK
<1>1. p \in Object \cup {Nil} /\ (requests[r].pc # "idle" => u \in Upload)
  BY <1>0 DEF RequestInv, RequestState
<1>2. ASSUME UNCHANGED <<objects, provider, backend>>
      PROVE  ObjectInv(o)' /\ Evolves(o)
  BY <1>0, <1>2, ObjectsUnchanged
<1>3. CASE Claim(r, "append") \/ Claim(r, "finish") \/ ReadTail(r) \/ CheckPieces(r)
           \/ Publish(r) \/ Fail(r) \/ Release(r) \/ Crash(r)
  BY <1>2, <1>3 DEF Claim, ReadTail, CheckPieces, Publish, Fail, Release, Crash, env, db, provider
<1>4. CASE PutPiece(r)
  <2> PICK y \in Object :
             /\ objects[y].state = "none"
             /\ objects' = [objects EXCEPT ![y] =
                              [state |-> "pending", owner |-> u, located |-> FALSE,
                               expires |-> uploads[u].expires, length |-> requests[r].target]]
             /\ inflight' = inflight \cup {y}
    BY <1>4 DEF PutPiece
  <2>1. u \in Upload /\ UNCHANGED <<stored, fenced, backend>>
    BY <1>1, <1>4 DEF PutPiece, Running, env
  <2> QED
    BY <1>0, <2>1 DEF ObjectInv, Evolves, Doomed, Landed, Gone
<1>5. CASE Locate(r)
  BY <1>0, <1>1, <1>5, NilAssumption, SMT DEF Locate, ObjectInv, RequestInv, Running, Evolves, Doomed, Landed, Gone,
     env, provider
<1>6. CASE NotWritten(r)
  BY <1>0, <1>1, <1>6
     DEF NotWritten, ObjectInv, RequestInv, Running, Evolves, Doomed, Landed, Gone, env,
         provider, Deleted
<1>7. CASE MarkReady(r)
  BY <1>0, <1>1, <1>7, SMT DEF MarkReady, ObjectInv, RequestInv, Running, Evolves, Doomed, Landed, Gone,
     env, provider
<1>8. CASE SaveFrontier(r)
  <2>1. /\ objects'[o].state = objects[o].state /\ objects'[o].owner = objects[o].owner
        /\ objects'[o].located = objects[o].located
    BY <1>0, <1>8 DEF SaveFrontier, ObjectRow
  <2> QED
    BY <1>0, <1>8, <2>1
       DEF SaveFrontier, ObjectInv, Evolves, Doomed, Landed, Gone, env, provider
<1> QED
  BY <1>3, <1>4, <1>5, <1>6, <1>7, <1>8 DEF RequestStep

\* What collectors do to an object.
LEMMA CollectedObjects ==
    ASSUME Inv, NEW o \in Object, NEW w \in Worker,
           WorkerStep(w)
    PROVE  ObjectInv(o)' /\ Evolves(o)
<1>. DEFINE p == workers[w].object
<1>0. /\ ObjectInv(o) /\ objects[o] \in ObjectRow /\ DOMAIN objects = Object
      /\ WorkerInv(w) /\ workers[w] \in WorkerState
  BY DEF Inv, TypeOK
<1>1. p \in Object \cup {Nil} /\ backend \in {"volume", "s3"}
  BY <1>0, BackendsAssumption DEF WorkerState, Inv, TypeOK
<1>2. ASSUME UNCHANGED <<objects, provider, backend>>
      PROVE  ObjectInv(o)' /\ Evolves(o)
  BY <1>0, <1>2, ObjectsUnchanged
<1>3. CASE SweepUploads(w) \/ ListGarbage(w) \/ Reclaim(w) \/ Refuse(w) \/ StartRemove(w)
           \/ CloseManifest(w) \/ WorkerFails(w)
  BY <1>2, <1>3 DEF SweepUploads, ListGarbage, Reclaim, Refuse, StartRemove, CloseManifest, WorkerFails,
     env, db, provider
<1>4. CASE MarkOrphans(w)
  <2> PICK now \in Now, rows \in SUBSET Object : Marks(w, now, rows)
    BY <1>4, MarkStep
  <2>1. \/ objects'[o] = objects[o]
        \/ /\ objects[o].state \notin {"none", "deleted"} /\ objects'[o].state = "deleting"
           /\ objects'[o].owner = objects[o].owner /\ objects'[o].located = objects[o].located
    BY <1>0 DEF ObjectRow, Orphan, Loose, Marks
  <2> QED
    BY <1>0, <1>4, <2>1, ZenonT(30)
       DEF MarkOrphans, ObjectInv, Evolves, Doomed, Landed, Gone, env, provider
<1>5. CASE LocateOrphan(w)
  <2> PICK x \in workers[w].rows :
         objects' = IF x \in workers[w].known \/ Recovered(x)
                    THEN [objects EXCEPT ![x].located = TRUE] ELSE objects
    BY <1>5 DEF LocateOrphan
  <2>1. x \in Object /\ Doomed(x) /\ (x \in workers[w].known => Landed(x))
        /\ (x \in stored => x \notin inflight)
    BY <1>0 DEF WorkerInv, WorkerState, Inv, ObjectInv
  <2>2. Recovered(x) => Landed(x)
    BY <2>1, <1>1 DEF Recovered, Landed, Doomed
  <2>3. UNCHANGED <<provider, backend>>
    BY <1>5 DEF LocateOrphan, env
  <2> QED
    BY <1>0, <2>1, <2>2, <2>3 DEF ObjectInv, Evolves, Doomed, Landed, Gone, provider, ObjectRow
<1>6. CASE UNCHANGED <<objects, backend>> /\ Erase(p)
  BY <1>0, <1>1, <1>6 DEF Erase, ObjectInv, Evolves, Doomed, Landed, Gone
<1>7. CASE SettleOrphan(w) \/ SettlePiece(w)
  <2>1. p \in Object /\ Gone(p) /\ Landed(p) /\ objects' = [objects EXCEPT ![p] = Deleted]
        /\ UNCHANGED <<provider, backend>>
    BY <1>0, <1>1, <1>7 DEF SettleOrphan, SettlePiece, WorkerInv, Collecting, env
  <2> QED
    BY <1>0, <2>1 DEF ObjectInv, Evolves, Doomed, Landed, Gone, provider, Deleted
<1>8. CASE DeleteOrphan(w) \/ DeleteUnconfirmed(w) \/ ErasePiece(w)
  BY <1>2, <1>6, <1>8 DEF DeleteOrphan, DeleteUnconfirmed, ErasePiece, env, db
<1> QED
  BY <1>3, <1>4, <1>5, <1>7, <1>8 DEF WorkerStep

\* No step brings an object back.
LEMMA NextObjects ==
    ASSUME Inv, [Next]_vars, NEW o \in Object
    PROVE  ObjectInv(o)' /\ Evolves(o)
<1>1. ObjectInv(o)
  BY DEF Inv
<1>2. CASE \/ \E u \in Upload : Begin(u)
           \/ \E d \in Reader : Pin(d) \/ Unpin(d)
           \/ Refer \/ Tick \/ UNCHANGED vars
  <2>1. UNCHANGED <<objects, provider, backend>>
    BY <1>2 DEF Begin, Pin, Unpin, Refer, Tick, vars, env, db
  <2> QED
    BY <1>1, <2>1, ObjectsUnchanged
<1>3. CASE \E r \in Request : RequestStep(r)
  BY <1>3, WrittenObjects
<1>4. CASE \E x \in Object : Land(x) \/ Lose(x)
  BY <1>1, <1>4 DEF Land, Lose, ObjectInv, Evolves, Doomed, Landed, Gone, env, db
<1>5. CASE \E w \in Worker : WorkerStep(w)
  BY <1>5, CollectedObjects
<1> QED
  BY <1>2, <1>3, <1>4, <1>5 DEF Next

\* The row of no upload and that of a new one hold no object and no lease.
LEMMA FreshRows ==
    /\ NoUpload.piece = Nil /\ NoUpload.offset = 0 /\ NoUpload.epoch = Nil /\ NoUpload.live = FALSE
    /\ \A t : /\ Opened(t).piece = Nil /\ Opened(t).offset = 0 /\ Opened(t).epoch = Nil
               /\ Opened(t).expires = t /\ Opened(t).live = TRUE
  BY DEF NoUpload, Opened

\* What a step does to the row of an upload.
LEMMA UploadSteps ==
    ASSUME Inv, [Next]_vars, NEW u \in Upload
    PROVE  \/ uploads'[u] = uploads[u]
           \/ ~uploads[u].live /\ \E now \in Now : uploads'[u] = Opened(now + Retention)
           \/ uploads'[u] = NoUpload
           \/ \E r \in Request :
                /\ \/ Claim(r, "append") \/ Claim(r, "finish")
                   \/ Publish(r) /\ requests[r].upload = u
                   \/ Release(r) /\ requests[r].upload = u
                /\ uploads'[u].piece = uploads[u].piece /\ uploads'[u].offset = uploads[u].offset
                /\ uploads'[u].live = uploads[u].live /\ uploads'[u].expires = uploads[u].expires
                /\ uploads[u].complete => uploads'[u].complete
           \/ \E r \in Request :
                /\ SaveFrontier(r) /\ requests[r].upload = u
                /\ uploads'[u].piece = requests[r].object /\ uploads'[u].offset = requests[r].target
                /\ uploads'[u].live = uploads[u].live /\ uploads'[u].expires = uploads[u].expires
                /\ uploads'[u].epoch = Nil /\ uploads'[u].complete = uploads[u].complete
<1>0. uploads \in [Upload -> UploadRow] /\ uploads[u] \in UploadRow
  BY DEF Inv, TypeOK
<1>1. CASE \E x \in Upload : Begin(x)
  <2> PICK x \in Upload : Begin(x)
    BY <1>1
  <2> PICK now \in Now : uploads' = [uploads EXCEPT ![x] = Opened(now + Retention)]
    BY ZenonT(30) DEF Begin
  <2> QED
    BY <1>0 DEF Begin
<1>2. ASSUME NEW r \in Request, RequestStep(r), requests[r].upload \in Upload \cup {Nil}
      PROVE  \/ uploads'[u] = uploads[u]
             \/ /\ Claim(r, "append") \/ Claim(r, "finish") \/ Publish(r) \/ Release(r)
                /\ Publish(r) \/ Release(r) => requests[r].upload = u
                /\ uploads'[u].piece = uploads[u].piece /\ uploads'[u].offset = uploads[u].offset
                /\ uploads'[u].live = uploads[u].live /\ uploads'[u].expires = uploads[u].expires
                /\ uploads[u].complete => uploads'[u].complete
             \/ /\ SaveFrontier(r) /\ requests[r].upload = u
                /\ uploads'[u].piece = requests[r].object /\ uploads'[u].offset = requests[r].target
                /\ uploads'[u].live = uploads[u].live /\ uploads'[u].expires = uploads[u].expires
                /\ uploads'[u].epoch = Nil /\ uploads'[u].complete = uploads[u].complete
  <2>1. ASSUME NEW kind \in {"append", "finish"}, Claim(r, kind)
        PROVE  /\ uploads'[u].piece = uploads[u].piece /\ uploads'[u].offset = uploads[u].offset
               /\ uploads'[u].live = uploads[u].live /\ uploads'[u].expires = uploads[u].expires
               /\ uploads[u].complete => uploads'[u].complete
    <3> PICK v \in Upload, held \in Time :
           uploads' = [uploads EXCEPT ![v].epoch = r, ![v].held = held]
      BY <2>1 DEF Claim
    <3> QED
      BY <1>0 DEF UploadRow
  <2>2. CASE Publish(r)
    BY <1>0, <2>2, ZenonT(30) DEF Publish, UploadRow, Running
  <2>3. CASE Release(r)
    BY <1>0, <2>3, ZenonT(30) DEF Release, UploadRow, Running
  <2>4. CASE SaveFrontier(r)
    BY <1>0, <2>4, ZenonT(30) DEF SaveFrontier, UploadRow
  <2>5. CASE ReadTail(r) \/ PutPiece(r) \/ Locate(r) \/ NotWritten(r) \/ MarkReady(r)
             \/ CheckPieces(r) \/ Fail(r) \/ Crash(r)
    BY <2>5 DEF ReadTail, PutPiece, Locate, NotWritten, MarkReady, CheckPieces, Fail, Crash, db
  <2> QED
    BY <1>2, <2>1, <2>2, <2>3, <2>4, <2>5 DEF RequestStep
<1>3. CASE \E r \in Request : RequestStep(r)
  <2>1. \A r \in Request : requests[r].upload \in Upload \cup {Nil}
    BY DEF Inv, TypeOK, RequestState
  <2> QED
    BY <1>2, <1>3, <2>1
<1>4. CASE \/ \E o \in Object : Land(o) \/ Lose(o)
           \/ \E d \in Reader : Pin(d) \/ Unpin(d)
           \/ Refer \/ Tick \/ UNCHANGED vars
  BY <1>4 DEF Land, Lose, Pin, Unpin, Refer, Tick, vars, db
<1>5. CASE \E w \in Worker : WorkerStep(w)
  <2> PICK w \in Worker : WorkerStep(w)
    BY <1>5
  <2>1. SweepUploads(w) => uploads'[u] \in {uploads[u], NoUpload}
    BY <1>0 DEF SweepUploads
  <2>2. SweepUploads(w) \/ UNCHANGED uploads
    BY ZenonT(30)
       DEF WorkerStep, MarkOrphans, LocateOrphan, DeleteOrphan, SettleOrphan, ListGarbage, Reclaim, Refuse,
           StartRemove, ErasePiece, SettlePiece, CloseManifest, DeleteUnconfirmed, WorkerFails,
           db
  <2> QED
    BY <2>1, <2>2
<1> QED
  BY <1>1, <1>3, <1>4, <1>5 DEF Next

\* Frontiers are objects whose write has ended.
LEMMA NextUploads ==
    ASSUME Inv, [Next]_vars, NEW u \in Upload
    PROVE  UploadInv(u)'
<1>0. UploadInv(u) /\ uploads[u] \in UploadRow
  BY DEF Inv, TypeOK
<1>1. \A o \in Object : Evolves(o)
  BY NextObjects
<1>2. \A o \in Object : Landed(o) => Landed(o)'
  BY <1>1 DEF Evolves
<1>3. ASSUME NEW r \in Request, SaveFrontier(r)
      PROVE  requests[r].object \in Object /\ Landed(requests[r].object)
  BY <1>3 DEF SaveFrontier, Running, Inv, RequestInv, TypeOK, RequestState
<1>4. CASE uploads'[u].piece = Nil /\ uploads'[u].offset = 0
  BY <1>4, SMT DEF UploadInv
<1>5. CASE uploads'[u].piece = uploads[u].piece /\ uploads'[u].offset = uploads[u].offset
  BY <1>0, <1>2, <1>5 DEF UploadInv, Landed, UploadRow
<1>6. CASE \E r \in Request : SaveFrontier(r) /\ uploads'[u].piece = requests[r].object
  <2> PICK r \in Request : SaveFrontier(r) /\ uploads'[u].piece = requests[r].object
    BY <1>6
  <2> QED
    BY <1>2, <1>3, NilAssumption DEF UploadInv, Landed
<1>7. uploads'[u] = NoUpload \/ (\E now \in Now : uploads'[u] = Opened(now + Retention)) =>
          uploads'[u].piece = Nil /\ uploads'[u].offset = 0
  BY FreshRows
<1> QED
  BY UploadSteps, <1>4, <1>5, <1>6, <1>7

\* The step of a request leaves the others alone.
LEMMA OneRequest ==
    ASSUME Inv, NEW r \in Request, NEW x \in Request, RequestStep(x), x # r
    PROVE  requests'[r] = requests[r]
<1>0. requests \in [Request -> RequestState]
  BY DEF Inv, TypeOK
<1>1. CASE Claim(x, "append") \/ Claim(x, "finish") \/ PutPiece(x)
  BY <1>0, <1>1, ZenonT(30) DEF Claim, PutPiece
<1>2. CASE ReadTail(x) \/ Locate(x) \/ NotWritten(x) \/ MarkReady(x) \/ SaveFrontier(x)
           \/ CheckPieces(x) \/ Publish(x) \/ Fail(x) \/ Release(x) \/ Crash(x)
  BY <1>0, <1>2, ZenonT(30) DEF ReadTail, Locate, NotWritten, MarkReady, SaveFrontier, CheckPieces, Publish,
     Fail, Release, Crash, At, Ends
<1> QED
  BY <1>1, <1>2 DEF RequestStep

\* What a step does to a request that does not take it.
LEMMA OtherRequests ==
    ASSUME Inv, [Next]_vars, NEW r \in Request
    PROVE  requests'[r] = requests[r] \/ RequestStep(r)
<1>1. CASE \E x \in Request : RequestStep(x)
  BY <1>1, OneRequest
<1>2. CASE \/ \E u \in Upload : Begin(u)
           \/ \E o \in Object : Land(o) \/ Lose(o)
           \/ \E d \in Reader : Pin(d) \/ Unpin(d)
           \/ Refer \/ Tick \/ UNCHANGED vars
  BY <1>2 DEF Begin, Land, Lose, Pin, Unpin, Refer, Tick, vars
<1>3. CASE \E w \in Worker : WorkerStep(w)
  BY <1>3, ZenonT(30)
     DEF WorkerStep, MarkOrphans, LocateOrphan, DeleteOrphan, SettleOrphan, SweepUploads, ListGarbage,
         Reclaim, Refuse, StartRemove, ErasePiece, SettlePiece, CloseManifest,
         DeleteUnconfirmed, WorkerFails
<1> QED
  BY <1>1, <1>2, <1>3 DEF Next

\* A lease that another step left with a request is the lease it had, at the same offset.
LEMMA KeptLease ==
    ASSUME Inv, [Next]_vars, NEW r \in Request, ~RequestStep(r),
           requests[r].upload \in Upload, Owns(r)'
    PROVE  /\ Owns(r) /\ requests'[r] = requests[r]
           /\ uploads'[requests[r].upload].offset = uploads[requests[r].upload].offset
           /\ uploads'[requests[r].upload].held = uploads[requests[r].upload].held
<1>. DEFINE u == requests[r].upload
<1>0. uploads[u] \in UploadRow /\ uploads \in [Upload -> UploadRow]
  BY DEF Inv, TypeOK
<1>1. requests'[r] = requests[r]
  BY OtherRequests
<1>2. uploads'[u].live /\ uploads'[u].epoch = r /\ ~uploads'[u].complete
  BY <1>1 DEF Owns
<1>3. CASE uploads'[u] = uploads[u]
  BY <1>1, <1>2, <1>3 DEF Owns
<1>4. CASE \E x \in Request : Claim(x, "append") \/ Claim(x, "finish") \/ Publish(x) \/ Release(x)
  <2> PICK x \in Request : Claim(x, "append") \/ Claim(x, "finish") \/ Publish(x) \/ Release(x)
    BY <1>4
  <2>0. x # r /\ requests[x].upload \in Upload \cup {Nil}
    BY DEF RequestStep, Inv, TypeOK, RequestState
  <2>1. ASSUME NEW kind \in {"append", "finish"}, Claim(x, kind)
        PROVE  uploads'[u] = uploads[u]
    <3> PICK v \in Upload, held \in Time :
           uploads' = [uploads EXCEPT ![v].epoch = x, ![v].held = held]
      BY <2>1 DEF Claim
    <3> QED
      BY <1>0, <1>2, <2>0 DEF UploadRow
  <2>2. ASSUME Publish(x)
        PROVE  uploads'[u] = uploads[u]
    BY <1>0, <1>2, <2>0, <2>2 DEF Publish, UploadRow
  <2>3. ASSUME Release(x)
        PROVE  uploads'[u] = uploads[u]
    BY <1>0, <1>2, <2>0, <2>3, NilAssumption DEF Release, UploadRow
  <2> QED
    BY <1>3, <2>1, <2>2, <2>3
<1>5. uploads'[u] = NoUpload \/ (\E now \in Now : uploads'[u] = Opened(now + Retention)) =>
          uploads'[u].epoch = Nil
  BY FreshRows
<1>6. uploads'[u].epoch # Nil
  BY <1>2, NilAssumption
<1> QED
  BY <1>3, <1>4, <1>5, <1>6, UploadSteps

\* Requests refer to objects as far as they have come with them.
LEMMA NextRequests ==
    ASSUME Inv, [Next]_vars, NEW r \in Request
    PROVE  RequestInv(r)'
<1>. DEFINE u == requests[r].upload
            p == requests[r].object
<1>0. RequestInv(r) /\ requests \in [Request -> RequestState] /\ requests[r] \in RequestState
      /\ uploads \in [Upload -> UploadRow]
  BY DEF Inv, TypeOK
<1>1. \A o \in Object : Evolves(o)
  BY NextObjects
<1>2. \A o \in Object : (Landed(o) => Landed(o)')
                        /\ (objects[o].state # "none" => objects'[o].state # "none")
  BY <1>1 DEF Evolves
<1>3. requests[r].pc # "idle" => u \in Upload
  BY <1>0 DEF RequestInv, RequestState
<1>4. p \in Object \cup {Nil}
  BY <1>0 DEF RequestState
<1>5. CASE ~RequestStep(r)
  <2>1. requests'[r] = requests[r]
    BY <1>5, OtherRequests
  <2>2. requests[r].pc \in {"finish", "checked"} /\ Owns(r)' =>
            uploads'[u].offset = requests[r].target
    BY <1>0, <1>3, <1>5, KeptLease DEF RequestInv
  <2> QED
    BY <1>0, <1>2, <1>4, <2>1, <2>2 DEF RequestInv, Landed
<1>6. ASSUME requests'[r] = Idle
      PROVE  RequestInv(r)'
  BY <1>6, SMT DEF RequestInv, Idle
<1>7. ASSUME Ends(r), requests[r].pc # "idle"
      PROVE  RequestInv(r)'
  <2>1. /\ requests'[r].pc = "release" /\ requests'[r].upload = u /\ requests'[r].object = p
    BY <1>0, <1>7 DEF Ends, RequestState
  <2> QED
    BY <1>0, <1>2, <1>4, <1>7, <2>1 DEF RequestInv
<1>8. ASSUME NEW kind \in {"append", "finish"}, Claim(r, kind)
      PROVE  RequestInv(r)'
  <2> PICK v \in Upload, now \in Now, held \in Time, t \in 0 .. Length :
       Claims(r, kind, v, now, held, t)
    BY <1>8, ClaimStep DEF Inv
  <2>1. uploads'[v].offset = uploads[v].offset
    BY <1>0 DEF UploadRow, Claims
  <2>2. v # Nil
    BY NilAssumption
  <2> QED
    BY <1>0, <1>8, <2>1, <2>2 DEF RequestInv, Claims
<1>9. CASE PutPiece(r)
  <2> PICK o \in Object :
             /\ objects' = [objects EXCEPT ![o] =
                              [state |-> "pending", owner |-> u, located |-> FALSE,
                               expires |-> uploads[u].expires, length |-> requests[r].target]]
             /\ requests' = [requests EXCEPT ![r].pc = "writing", ![r].object = o]
    BY <1>9 DEF PutPiece
  <2>1. objects'[o].state = "pending" /\ o # Nil
    BY NilAssumption DEF Inv, TypeOK
  <2>2. requests'[r].pc = "writing" /\ requests'[r].object = o /\ requests'[r].upload = u
    BY <1>0 DEF RequestState
  <2> QED
    BY <1>9, <1>3, <2>1, <2>2, NilAssumption, ZenonT(30) DEF RequestInv, PutPiece, Running
<1>10. CASE Locate(r) \/ MarkReady(r)
  <2>1. Landed(p) /\ p \in Object
    BY <1>0, <1>4, <1>10 DEF Locate, MarkReady, Running, RequestInv, Landed, Inv, ObjectInv
  <2>2. /\ requests'[r].pc \in {"located", "ready"} /\ requests'[r].upload = u
        /\ requests'[r].object = p
    BY <1>0, <1>10, SMT DEF Locate, MarkReady, At, RequestState
  <2>3. u # Nil
    BY <1>0, <1>10 DEF Locate, MarkReady, Running, RequestInv
  <2> QED
    BY <1>2, <2>1, <2>2, <2>3, NilAssumption DEF RequestInv, Landed
<1>11. CASE CheckPieces(r)
  <2>1. /\ requests'[r].pc = "checked" /\ requests'[r].upload = u
        /\ requests'[r].object = p /\ requests'[r].target = requests[r].target
    BY <1>0, <1>11 DEF CheckPieces, At, RequestState
  <2>2. /\ u # Nil /\ UNCHANGED <<uploads, objects>> /\ requests[r].target = Length
        /\ requests[r].pc = "finish"
    BY <1>0, <1>11 DEF CheckPieces, Running, RequestInv, db
  <2> QED
    BY <1>0, <2>1, <2>2 DEF RequestInv, Owns
<1>12. CASE NotWritten(r) \/ Publish(r) \/ Fail(r)
  BY <1>7, <1>12 DEF NotWritten, Publish, Fail, Running
<1>13. CASE SaveFrontier(r) \/ Release(r) \/ Crash(r)
  BY <1>0, <1>6, <1>13 DEF SaveFrontier, Release, Crash
<1>14. CASE ReadTail(r)
  <2>1. /\ requests'[r].pc = "buffered" /\ requests'[r].upload = u /\ requests'[r].object = p
        /\ u # Nil /\ UNCHANGED objects
    BY <1>0, <1>14 DEF ReadTail, At, Running, RequestInv, RequestState, db
  <2> QED
    BY <1>0, <2>1 DEF RequestInv
<1> QED
  BY <1>5, <1>8, <1>9, <1>10, <1>11, <1>12, <1>13, <1>14 DEF RequestStep

\* What a step does to a collector that does not take it.
LEMMA OtherWorkers ==
    ASSUME Inv, [Next]_vars, NEW w \in Worker
    PROVE  workers'[w] = workers[w] \/ WorkerStep(w)
<1>0. workers \in [Worker -> WorkerState]
  BY DEF Inv, TypeOK
<1>1. ASSUME NEW x \in Worker, x # w, WorkerStep(x)
      PROVE  workers'[w] = workers[w]
  <2>1. CASE MarkOrphans(x) \/ LocateOrphan(x) \/ ListGarbage(x)
    BY <1>0, <1>1, <2>1, ZenonT(30) DEF MarkOrphans, LocateOrphan, ListGarbage
  <2>2. CASE DeleteOrphan(x) \/ SettleOrphan(x) \/ SweepUploads(x) \/ Reclaim(x) \/ Refuse(x) \/ StartRemove(x)
             \/ ErasePiece(x) \/ SettlePiece(x) \/ CloseManifest(x) \/ DeleteUnconfirmed(x)
             \/ WorkerFails(x)
    BY <1>0, <1>1, <2>2
       DEF DeleteOrphan, SettleOrphan, SweepUploads, Reclaim, Refuse, StartRemove, ErasePiece,
           SettlePiece, CloseManifest, DeleteUnconfirmed, WorkerFails, Worked
  <2> QED
    BY <1>1, <2>1, <2>2 DEF WorkerStep
<1>2. CASE \/ \E u \in Upload : Begin(u)
           \/ \E o \in Object : Land(o) \/ Lose(o)
           \/ \E d \in Reader : Pin(d) \/ Unpin(d)
           \/ Refer \/ Tick \/ UNCHANGED vars
  BY <1>2 DEF Begin, Land, Lose, Pin, Unpin, Refer, Tick, vars
<1>3. CASE \E r \in Request : RequestStep(r)
  BY <1>3, ZenonT(30)
     DEF RequestStep, Claim, ReadTail, PutPiece, Locate, NotWritten, MarkReady, SaveFrontier, CheckPieces,
         Publish, Fail, Release, Crash
<1> QED
  BY <1>1, <1>2, <1>3 DEF Next

\* Collectors hold objects that no one can need again, or whose write has ended.
LEMMA NextWorkers ==
    ASSUME Inv, [Next]_vars, NEW w \in Worker
    PROVE  WorkerInv(w)'
<1>. DEFINE p == workers[w].object
<1>0. WorkerInv(w) /\ workers \in [Worker -> WorkerState] /\ workers[w] \in WorkerState
  BY DEF Inv, TypeOK
<1>1. /\ p \in Object \cup {Nil} /\ workers[w].rows \subseteq Object
      /\ workers[w].known \subseteq Object
  BY <1>0 DEF WorkerState
<1>2. \A o \in Object : Evolves(o)
  BY NextObjects
<1>3. \A o \in Object : /\ Doomed(o) => Doomed(o)'
                        /\ Landed(o) => Landed(o)' /\ objects[o].state # "none"
                        /\ Landed(o) /\ Gone(o) => Gone(o)'
  BY <1>2 DEF Evolves, Landed
<1>4. ASSUME workers'[w] = NoWork
      PROVE  WorkerInv(w)'
  BY <1>4, SMT DEF WorkerInv, NoWork, Collecting
<1>5. ASSUME workers'[w] = workers[w]
      PROVE  WorkerInv(w)'
  BY <1>0, <1>1, <1>3, <1>5 DEF WorkerInv, Doomed, Landed, Gone, Collecting
<1>6. ASSUME NEW pc \in {"settling", "erased"}, Erase(p), Worked(w, pc),
             workers[w].pc \in {"deleting", "erasing"}, UNCHANGED <<objects, backend>>,
             pc = "settling" => workers[w].pc = "deleting"
      PROVE  WorkerInv(w)'
  <2>1. /\ workers'[w].rows = workers[w].rows /\ workers'[w].known = workers[w].known
        /\ workers'[w].pc = pc /\ workers'[w].object = p
    BY <1>0, <1>6 DEF Worked, WorkerState
  <2>2. p \in Object /\ Landed(p) /\ (pc = "settling" => Doomed(p))
    BY <1>0, <1>1, <1>6 DEF WorkerInv, Collecting
  <2>3. p \notin stored' /\ (p \in inflight' => p \in fenced')
    BY <1>6, <2>2, BackendsAssumption DEF Landed, Erase, Inv, TypeOK
  <2> QED
    BY <1>0, <1>1, <1>3, <2>1, <2>2, <2>3, NilAssumption
       DEF WorkerInv, Doomed, Landed, Gone, Collecting
<1>7. CASE MarkOrphans(w)
  <2> PICK now \in Now, rows \in SUBSET Object : Marks(w, now, rows)
    BY <1>7, MarkStep
  <2>1. workers'[w] = [pc |-> "cleaning", now |-> now, rows |-> rows, object |-> Nil,
                       known |-> {x \in rows : objects[x].located}]
    BY <1>0 DEF Marks
  <2>2. ASSUME NEW o \in workers'[w].rows
        PROVE  Doomed(o)'
    <3>0. o \in rows
      BY <2>1, <2>2, SMT
    <3>1. o \in rows /\ o \in Object /\ objects[o] \in ObjectRow
      BY <3>0 DEF Inv, TypeOK
    <3> QED
      BY <3>1 DEF Doomed, ObjectRow, Marks
  <2>3. ASSUME NEW o \in workers'[w].known
        PROVE  Landed(o)'
    <3>1. o \in Object /\ objects[o].located
      BY <2>1, <2>3, SMT
    <3> QED
      BY <1>3, <3>1 DEF Inv, ObjectInv
  <2>4. workers'[w].pc = "cleaning"
    BY <2>1, SMT
  <2> QED
    BY <2>2, <2>3, <2>4 DEF WorkerInv, Collecting
<1>8. CASE LocateOrphan(w)
  <2> PICK x \in workers[w].rows :
         LET found == x \in workers[w].known \/ Recovered(x)
         IN  workers' = [workers EXCEPT
                              ![w].rows = @ \ {x}, ![w].known = @ \ {x},
                              ![w].pc = IF found THEN "deleting" ELSE "cleaning",
                              ![w].object = IF found THEN x ELSE Nil]
    BY <1>8 DEF LocateOrphan
  <2>1. /\ workers'[w].rows \subseteq workers[w].rows /\ workers'[w].known \subseteq workers[w].known
        /\ workers'[w].pc \in {"cleaning", "deleting"}
        /\ workers'[w].pc = "deleting" =>
               workers'[w].object = x /\ (x \in workers[w].known \/ Recovered(x))
    BY <1>0 DEF WorkerState
  <2>2. x \in Object /\ Doomed(x) /\ (x \in workers[w].known => Landed(x))
        /\ (x \in stored => x \notin inflight)
    BY <1>0, <1>1 DEF WorkerInv, Inv, ObjectInv
  <2>3. Recovered(x) => Landed(x)
    BY <2>2 DEF Recovered, Landed, Doomed
  <2> QED
    BY <1>0, <1>1, <1>3, <2>1, <2>2, <2>3, NilAssumption, ZenonT(30)
       DEF WorkerInv, Doomed, Landed, Collecting
<1>9. CASE DeleteUnconfirmed(w) \/ SettleOrphan(w)
  <2>1. /\ workers'[w].rows = workers[w].rows /\ workers'[w].known = workers[w].known
        /\ workers'[w].pc = "cleaning"
    BY <1>0, <1>9, SMT DEF DeleteUnconfirmed, SettleOrphan, WorkerState
  <2> QED
    BY <1>0, <1>1, <1>3, <2>1 DEF WorkerInv, Doomed, Landed, Collecting
<1>10. CASE SweepUploads(w)
  <2>1. /\ workers'[w].rows = workers[w].rows /\ workers'[w].known = workers[w].known
        /\ workers'[w].pc = "swept"
    BY <1>0, <1>10, SMT DEF SweepUploads, Worked, WorkerState
  <2> QED
    BY <1>0, <1>1, <1>3, <2>1 DEF WorkerInv, Doomed, Landed, Collecting
<1>11. CASE Reclaim(w) \/ StartRemove(w) \/ SettlePiece(w)
            \/ (ErasePiece(w) /\ objects[p].state = "deleted")
  <2>1. CASE workers'[w] = NoWork
    BY <2>1, <1>4
  <2>2. CASE workers'[w] # NoWork
    <3>0. ErasePiece(w) /\ objects[p].state = "deleted" => Worked(w, "closing")
      BY DEF ErasePiece, Addressable
    <3>1. /\ workers'[w].rows = workers[w].rows /\ workers'[w].known = workers[w].known
          /\ workers'[w].pc \in {"removing", "erasing", "closing"} /\ workers'[w].object = p
      BY <1>0, <1>11, <2>2, <3>0, SMT DEF Reclaim, StartRemove, SettlePiece, Worked, WorkerState
    <3>2. p \in Object /\ Landed(p)
      BY <1>0, <1>1, <1>11 DEF Reclaim, StartRemove, SettlePiece, ErasePiece, WorkerInv, Collecting
    <3> QED
      BY <1>0, <1>1, <1>3, <3>1, <3>2, NilAssumption
         DEF WorkerInv, Doomed, Landed, Collecting
  <2> QED
    BY <2>1, <2>2
<1>12. CASE Refuse(w) \/ CloseManifest(w) \/ WorkerFails(w)
  BY <1>0, <1>4, <1>12 DEF Refuse, CloseManifest, WorkerFails
<1>13. CASE DeleteOrphan(w) \/ (ErasePiece(w) /\ objects[p].state # "deleted")
  BY <1>6, <1>13 DEF DeleteOrphan, ErasePiece, env, db
<1>14. CASE ListGarbage(w)
  <2>1. CASE workers'[w] = NoWork
    BY <1>4, <2>1
  <2>2. CASE /\ Candidate(workers[w].now) /\ workers'[w].pc = "listed"
             /\ workers'[w].object = manifest.piece
             /\ workers'[w].rows = {} /\ workers'[w].known = {}
    <3>1. manifest.piece \in Object /\ Landed(manifest.piece) /\ manifest.piece # Nil
      BY <2>2 DEF Candidate, Inv, ManifestInv, TypeOK, ManifestRow
    <3> QED
      BY <1>3, <2>2, <3>1, SMT DEF WorkerInv, Landed, Collecting
  <2> QED
    BY <1>14, <2>1, <2>2, ListStep DEF Inv
<1> QED
  BY <1>5, <1>7, <1>8, <1>9, <1>10, <1>11, <1>12, <1>13, <1>14, OtherWorkers DEF WorkerStep

\* What a step does to the manifest.
LEMMA ManifestSteps ==
    ASSUME Inv, [Next]_vars
    PROVE  \/ manifest' = manifest
           \/ \E r \in Request : Publish(r)
           \/ \E w \in Worker : /\ Reclaim(w) /\ manifest' = [manifest EXCEPT !.state = "deleting"]
           \/ \E w \in Worker : /\ CloseManifest(w) /\ manifest.state = "deleting"
                                /\ manifest' = [manifest EXCEPT !.state = "deleted"]
<1>1. CASE \/ \E u \in Upload : Begin(u)
           \/ \E o \in Object : Land(o) \/ Lose(o)
           \/ \E d \in Reader : Pin(d) \/ Unpin(d)
           \/ Refer \/ Tick \/ UNCHANGED vars
  BY <1>1 DEF Begin, Land, Lose, Pin, Unpin, Refer, Tick, vars, db
<1>2. CASE \E r \in Request : RequestStep(r)
  BY <1>2, ZenonT(30)
     DEF RequestStep, Claim, ReadTail, PutPiece, Locate, NotWritten, MarkReady, SaveFrontier, CheckPieces,
         Fail, Release, Crash, db
<1>3. CASE \E w \in Worker : WorkerStep(w)
  BY <1>3, ZenonT(30)
     DEF WorkerStep, MarkOrphans, LocateOrphan, DeleteOrphan, SettleOrphan, SweepUploads, ListGarbage,
         Reclaim, Refuse, StartRemove, ErasePiece, SettlePiece, CloseManifest,
         DeleteUnconfirmed, WorkerFails, db
<1> QED
  BY <1>1, <1>2, <1>3 DEF Next

\* The object of the manifest is one whose write has ended.
LEMMA NextManifest ==
    ASSUME Inv, [Next]_vars
    PROVE  ManifestInv'
<1>0. ManifestInv /\ manifest \in ManifestRow
  BY DEF Inv, TypeOK
<1>1. \A o \in Object : Evolves(o)
  BY NextObjects
<1>2. \A o \in Object : Landed(o) => Landed(o)'
  BY <1>1 DEF Evolves
<1>3. CASE manifest'.piece = manifest.piece /\ manifest.state # "none"
  BY <1>0, <1>2, <1>3 DEF ManifestInv, Landed, ManifestRow
<1>4. CASE manifest' = manifest
  BY <1>0, <1>2, <1>4 DEF ManifestInv, Landed, ManifestRow
<1>5. ASSUME NEW r \in Request, Publish(r)
      PROVE  ManifestInv'
  <2>. DEFINE u == requests[r].upload
  <2>1. requests[r].pc = "checked" /\ Owns(r) /\ RequestInv(r) /\ u \in Upload
    BY <1>5 DEF Publish, Running, Inv, RequestInv, TypeOK, RequestState
  <2>2. uploads[u].offset = Length
    BY <2>1 DEF RequestInv
  <2>3. uploads[u].piece # Nil /\ Landed(uploads[u].piece) /\ uploads[u].piece \in Object
    BY <2>1, <2>2, TimesAssumption, SMT DEF Inv, UploadInv, TypeOK, UploadRow
  <2>4. manifest'.piece = IF manifest.state = "ready" THEN manifest.piece ELSE uploads[u].piece
    BY <1>5 DEF Publish
  <2> QED
    BY <1>2, <1>3, <2>3, <2>4 DEF ManifestInv, Landed
<1>6. ASSUME NEW w \in Worker, Reclaim(w) \/ (CloseManifest(w) /\ manifest.state = "deleting"),
             NEW st, manifest' = [manifest EXCEPT !.state = st]
      PROVE  ManifestInv'
  BY <1>0, <1>3, <1>6 DEF ManifestRow, Reclaim, Unused
<1> QED
  BY <1>4, <1>5, <1>6, ManifestSteps

\* The initial state satisfies the invariant.
LEMMA InitInv == Init => Inv
<1> SUFFICES ASSUME Init PROVE Inv
  OBVIOUS
<1>1. TypeOK
  <2>1. NoUpload \in UploadRow /\ NoObject \in ObjectRow
    BY ZeroTypes DEF UploadRow, NoUpload, ObjectRow, NoObject
  <2>2. NoPin \in PinRow /\ [state |-> "none", piece |-> Nil, expires |-> 0] \in ManifestRow
    BY ZeroTypes DEF PinRow, NoPin, ManifestRow
  <2>3. Idle \in RequestState /\ NoWork \in WorkerState
    BY ZeroTypes DEF RequestState, Idle, WorkerState, NoWork
  <2>4. clock \in 0 .. MaxTime /\ stored \subseteq Object /\ inflight \subseteq Object
        /\ fenced \subseteq Object
    BY TimesAssumption, SMT DEF Init
  <2>5. overdue \subseteq Object
    BY DEF Init
  <2>6. /\ uploads \in [Upload -> UploadRow] /\ objects \in [Object -> ObjectRow]
        /\ pins \in [Reader -> PinRow] /\ requests \in [Request -> RequestState]
        /\ workers \in [Worker -> WorkerState]
    BY <2>1, <2>2, <2>3 DEF Init
  <2> QED
    BY <2>2, <2>4, <2>5, <2>6 DEF Init, TypeOK
<1>2. \A o \in Object : ObjectInv(o)
  BY DEF Init, ObjectInv, NoObject
<1>3. \A u \in Upload : UploadInv(u)
  BY SMT DEF Init, UploadInv, NoUpload
<1>4. \A r \in Request : RequestInv(r)
  BY DEF Init, RequestInv, Idle
<1>5. \A w \in Worker : WorkerInv(w)
  BY DEF Init, WorkerInv, NoWork, Collecting
<1>6. ManifestInv
  BY DEF Init, ManifestInv
<1> QED
  BY <1>1, <1>2, <1>3, <1>4, <1>5, <1>6 DEF Inv

\* Every step keeps the invariant.
LEMMA NextInv == Inv /\ [Next]_vars => Inv'
<1> SUFFICES ASSUME Inv, [Next]_vars PROVE Inv'
  OBVIOUS
<1>1. TypeOK'
  BY NextTypes DEF Inv
<1> QED
  BY <1>1, NextObjects, NextUploads, NextRequests, NextWorkers, NextManifest DEF Inv

\* The invariant holds always.
THEOREM Invariance == Spec => []Inv
  BY InitInv, NextInv, PTL DEF Spec

\* The types of the rows, documents and programs hold always.
THEOREM TypeCorrect == Spec => []TypeOK
<1>1. Inv => TypeOK
  BY DEF Inv
<1> QED
  BY <1>1, Invariance, PTL

\* However collectors, writers and faults interleave and however old the clocks they use, an
\* object that is recorded as deleted has no bytes and no write that could bring them back.
THEOREM DeletedIsAlwaysGone == Spec => []DeletedIsGone
<1>1. Inv => DeletedIsGone
  BY DEF Inv, ObjectInv, DeletedIsGone, Gone
<1> QED
  BY <1>1, Invariance, PTL

\* A ready manifest keeps its document, and goes only when no resource, pin or unexpired
\* upload is left.
THEOREM AlwaysKeptWhileNeeded == Spec => KeptWhileNeeded
<1>. DEFINE Kept == manifest.state = "ready" /\ manifest' # manifest =>
         \/ manifest'.state = "ready" /\ manifest'.piece = manifest.piece
         \/ /\ manifest'.state = "deleting" /\ ~referenced /\ ~Pinned
            /\ \A u \in Upload : ~(uploads[u].live /\ uploads[u].expires > clock)
<1>1. Inv /\ [Next]_vars => Kept
  <2> SUFFICES ASSUME Inv, [Next]_vars, manifest.state = "ready", manifest' # manifest
               PROVE  Kept
    OBVIOUS
  <2>0. manifest \in ManifestRow
    BY DEF Inv, TypeOK
  <2>1. ASSUME NEW r \in Request, Publish(r)
        PROVE  Kept
    BY <2>1 DEF Publish
  <2>2. ASSUME NEW w \in Worker, Reclaim(w)
        PROVE  Kept
    BY <2>0, <2>2 DEF Reclaim, Unused, ManifestRow
  <2> QED
    BY <2>1, <2>2, ManifestSteps
<1> QED
  BY <1>1, Invariance, PTL DEF Spec, KeptWhileNeeded

-----------------------------------------------------------------------------
(* What is needed is stored.                                               *)

\* What a stale clock takes for an orphan is one at the present time: time only takes
\* protection away.
LEMMA OrphanLater ==
    ASSUME Inv, NEW now \in Now, NEW o \in Object, Orphan(o, now)
    PROVE  Orphan(o, clock)
<1>. DEFINE row == uploads[objects[o].owner]
<1>1. now \in Nat /\ now <= clock /\ clock \in Nat
  BY NowIsTime, TimesAssumption, SMT DEF Inv, Time
<1>2. objects[o] \in ObjectRow /\ row \in UploadRow
  BY DEF Inv, ObjectInv, TypeOK, Orphan, Loose
<1>3. objects[o].expires \in Nat /\ row.held \in Nat /\ row.expires \in Nat
  BY <1>2, TimesAssumption, SMT DEF ObjectRow, UploadRow, Time
<1>4. /\ objects[o].expires <= now => objects[o].expires <= clock
      /\ row.held > clock => row.held > now
      /\ row.expires > clock => row.expires > now
  BY <1>1, <1>3, SMT
<1> QED
  BY <1>4 DEF Orphan

\* Only claims are overdue, and nothing takes it back.
LEMMA OverdueSteps ==
    ASSUME Inv, [Next]_vars
    PROVE  /\ overdue \subseteq overdue'
           /\ \/ overdue' = overdue
              \/ \E r \in Request : Claim(r, "append") \/ Claim(r, "finish")
<1>1. ASSUME NEW r \in Request, NEW kind \in {"append", "finish"}, Claim(r, kind)
      PROVE  overdue \subseteq overdue'
  <2> PICK v \in Upload, now \in Now, held \in Time, t \in 0 .. Length :
         Claims(r, kind, v, now, held, t)
    BY <1>1, ClaimStep DEF Inv
  <2> QED
    BY DEF Claims
<1>2. CASE \E r \in Request : RequestStep(r)
  <2> PICK r \in Request : RequestStep(r)
    BY <1>2
  <2>1. Claim(r, "append") \/ Claim(r, "finish") \/ UNCHANGED overdue
    BY ZenonT(30)
       DEF RequestStep, ReadTail, PutPiece, Locate, NotWritten, MarkReady, SaveFrontier,
           CheckPieces, Publish, Fail, Release, Crash, env
  <2> QED
    BY <1>1, <2>1
<1>3. CASE \E w \in Worker : WorkerStep(w)
  BY <1>3, ZenonT(30)
     DEF WorkerStep, MarkOrphans, LocateOrphan, DeleteOrphan, SettleOrphan, SweepUploads,
         ListGarbage, Reclaim, Refuse, StartRemove, ErasePiece, SettlePiece, CloseManifest,
         DeleteUnconfirmed, WorkerFails, env
<1>4. CASE \/ \E u \in Upload : Begin(u)
           \/ \E o \in Object : Land(o) \/ Lose(o)
           \/ \E d \in Reader : Pin(d) \/ Unpin(d)
           \/ Refer \/ Tick \/ UNCHANGED vars
  BY <1>4 DEF Begin, Land, Lose, Pin, Unpin, Refer, Tick, vars, env
<1> QED
  BY <1>2, <1>3, <1>4 DEF Next

\* Time does not run backwards.
LEMMA ClockSteps ==
    ASSUME Inv, [Next]_vars
    PROVE  clock \in Nat /\ clock' \in Nat /\ clock <= clock'
           /\ (clock' # clock => UNCHANGED <<uploads, objects, manifest, pins, requests, workers>>)
<1>0. clock \in Nat
  BY TimesAssumption, SMT DEF Inv, TypeOK
<1>1. CASE Tick
  BY <1>0, <1>1, SMT DEF Tick, db
<1>2. CASE UNCHANGED clock
  BY <1>0, <1>2, SMT
<1>3. CASE \E r \in Request : RequestStep(r)
  BY <1>2, <1>3, ZenonT(30)
     DEF RequestStep, Claim, ReadTail, PutPiece, Locate, NotWritten, MarkReady, SaveFrontier, CheckPieces,
         Publish, Fail, Release, Crash, env
<1>4. CASE \E w \in Worker : WorkerStep(w)
  BY <1>2, <1>4, ZenonT(30)
     DEF WorkerStep, MarkOrphans, LocateOrphan, DeleteOrphan, SettleOrphan, SweepUploads, ListGarbage,
         Reclaim, Refuse, StartRemove, ErasePiece, SettlePiece, CloseManifest,
         DeleteUnconfirmed, WorkerFails, env
<1>5. CASE \/ \E u \in Upload : Begin(u)
           \/ \E o \in Object : Land(o) \/ Lose(o)
           \/ \E d \in Reader : Pin(d) \/ Unpin(d)
           \/ Refer \/ UNCHANGED vars
  BY <1>2, <1>5 DEF Begin, Land, Lose, Pin, Unpin, Refer, vars, env
<1> QED
  BY <1>1, <1>3, <1>4, <1>5 DEF Next

\* What stays of an object that is no orphan and that no one else is working on.
Stays(o) ==
    /\ objects'[o].state = objects[o].state /\ objects'[o].owner = objects[o].owner
    /\ objects'[o].length = objects[o].length
    /\ objects[o].located => objects'[o].located
    /\ o \in stored => o \in stored'

\* Such an object outlives every step.
LEMMA KeptObject ==
    ASSUME Inv, [Next]_vars, NEW o \in Object,
           objects[o].state \in {"pending", "ready"}, ~Orphan(o, clock),
           \A w \in Worker : workers[w].pc \in {"erasing", "erased"} => workers[w].object # o,
           objects[o].state = "pending" =>
               \A r \in Request : requests[r].object = o => ~NotWritten(r) /\ ~MarkReady(r)
    PROVE  Stays(o)
<1>0. /\ objects[o] \in ObjectRow /\ objects \in [Object -> ObjectRow]
      /\ \A r \in Request : requests[r].object \in Object \cup {Nil}
      /\ \A w \in Worker : workers[w].object \in Object \cup {Nil}
  BY DEF Inv, TypeOK, RequestState, WorkerState
<1>1. ASSUME objects'[o] = objects[o], o \in stored => o \in stored'
      PROVE  Stays(o)
  BY <1>1 DEF Stays
<1>2. CASE \/ \E u \in Upload : Begin(u)
           \/ \E x \in Object : Land(x) \/ Lose(x)
           \/ \E d \in Reader : Pin(d) \/ Unpin(d)
           \/ Refer \/ Tick \/ UNCHANGED vars
  BY <1>1, <1>2 DEF Begin, Land, Lose, Pin, Unpin, Refer, Tick, vars, db, provider
<1>3. ASSUME NEW r \in Request, RequestStep(r)
      PROVE  Stays(o)
  <2>1. CASE Claim(r, "append") \/ Claim(r, "finish") \/ ReadTail(r) \/ CheckPieces(r)
             \/ Publish(r) \/ Fail(r) \/ Release(r) \/ Crash(r)
    BY <1>1, <2>1 DEF Claim, ReadTail, CheckPieces, Publish, Fail, Release, Crash, db, provider
  <2>2. CASE PutPiece(r)
    <3> PICK y \in Object :
               /\ objects[y].state = "none"
               /\ objects' = [objects EXCEPT ![y] =
                                [state |-> "pending", owner |-> requests[r].upload, located |-> FALSE,
                                 expires |-> uploads[requests[r].upload].expires,
                                 length |-> requests[r].target]]
      BY <2>2 DEF PutPiece
    <3> QED
      BY <1>0, <1>1, <2>2 DEF PutPiece
  <2>3. CASE Locate(r)
    BY <1>0, <2>3 DEF Locate, provider, Stays, ObjectRow
  <2>4. CASE NotWritten(r) \/ MarkReady(r)
    BY <1>0, <1>1, <2>4 DEF NotWritten, MarkReady, provider
  <2>5. CASE SaveFrontier(r)
    BY <1>0, <2>5 DEF SaveFrontier, provider, Stays, ObjectRow
  <2> QED
    BY <1>3, <2>1, <2>2, <2>3, <2>4, <2>5 DEF RequestStep
<1>4. ASSUME NEW w \in Worker, WorkerStep(w)
      PROVE  Stays(o)
  <2>0. workers[w].pc \in {"deleting", "settling"} => workers[w].object # o
    BY DEF Inv, WorkerInv, Doomed
  <2>1. CASE SweepUploads(w) \/ ListGarbage(w) \/ Reclaim(w) \/ Refuse(w) \/ StartRemove(w)
             \/ CloseManifest(w) \/ WorkerFails(w)
    BY <1>1, <2>1
       DEF SweepUploads, ListGarbage, Reclaim, Refuse, StartRemove, CloseManifest, WorkerFails, db, provider
  <2>2. CASE MarkOrphans(w)
    <3> PICK now \in Now, rows \in SUBSET Object : Marks(w, now, rows)
      BY <2>2, MarkStep
    <3>1. o \notin rows
      BY OrphanLater DEF Marks
    <3> QED
      BY <1>1, <2>2, <3>1 DEF MarkOrphans, Marks, provider
  <2>3. CASE LocateOrphan(w)
    BY <1>0, <2>3, SMT DEF LocateOrphan, provider, Stays, ObjectRow
  <2>4. CASE DeleteOrphan(w) \/ DeleteUnconfirmed(w) \/ ErasePiece(w)
    BY <1>1, <2>0, <2>4 DEF DeleteOrphan, DeleteUnconfirmed, ErasePiece, Erase, db, provider
  <2>5. CASE SettleOrphan(w) \/ SettlePiece(w)
    BY <1>0, <1>1, <2>0, <2>5 DEF SettleOrphan, SettlePiece, provider
  <2> QED
    BY <1>4, <2>1, <2>2, <2>3, <2>4, <2>5 DEF WorkerStep
<1> QED
  BY <1>2, <1>3, <1>4 DEF Next

\* The frontier of an upload that is needed outlives a step.
LEMMA KeptFrontier ==
    ASSUME Inv, StoreInv, [Next]_vars, NEW u \in Upload, Needed(u)
    PROVE  /\ uploads[u].piece \in Object /\ Stays(uploads[u].piece)
           /\ Whole(uploads[u].piece, uploads[u].offset) /\ objects[uploads[u].piece].owner = u
<1>. DEFINE o == uploads[u].piece
<1>0. uploads[u] \in UploadRow /\ clock \in Nat
  BY TimesAssumption, SMT DEF Inv, TypeOK
<1>1. o \in Object /\ Whole(o, uploads[u].offset) /\ objects[o].owner = u
  BY <1>0 DEF StoreInv, FrontierInv, Needed, UploadRow
<1>2. ~Orphan(o, clock)
  BY <1>0, <1>1 DEF Orphan, Needed, UploadRow
<1>3. \A w \in Worker : workers[w].pc \in {"erasing", "erased"} => workers[w].object # o
  <2>1. uploads[u].expires \in Nat
    BY <1>0, TimesAssumption, SMT DEF UploadRow, Time
  <2> QED
    BY <1>0, <2>1, SMT DEF StoreInv, CollectInv, Collecting, Needed
<1>4. Stays(o)
  BY <1>1, <1>2, <1>3, KeptObject DEF Whole
<1> QED
  BY <1>1, <1>4

\* The lease of a request that owns its upload, and the row.
LEMMA OwnedRow ==
    ASSUME Inv, StoreInv, NEW r \in Request,
           NEW pc \in {"append", "buffered", "finish", "writing", "located", "ready", "checked"},
           Running(r, pc), Owns(r)
    PROVE  /\ requests[r].upload \in Upload /\ clock < requests[r].held
           /\ uploads[requests[r].upload].held = requests[r].held
           /\ uploads[requests[r].upload].live /\ ~uploads[requests[r].upload].complete
<1>1. requests[r].upload \in Upload
  BY DEF Inv, RequestInv, Running, TypeOK, RequestState
<1>2. LeaseInv(r)
  BY DEF StoreInv
<1> QED
  BY <1>1, <1>2 DEF LeaseInv, Owns, Running

\* Frontiers that are needed are whole, after every step.
LEMMA NextNeeded ==
    ASSUME Inv, StoreInv, [Next]_vars, NEW u \in Upload, Needed(u)'
    PROVE  Whole(uploads[u].piece, uploads[u].offset)' /\ objects'[uploads'[u].piece].owner = u
<1>0. uploads[u] \in UploadRow /\ uploads \in [Upload -> UploadRow]
  BY DEF Inv, TypeOK
<1>1. /\ clock \in Nat /\ clock' \in Nat /\ clock <= clock'
      /\ uploads[u].expires \in Nat /\ uploads[u].held \in Nat
      /\ \A o \in overdue : o \in overdue'
  BY <1>0, ClockSteps, OverdueSteps, TimesAssumption, SMT DEF UploadRow, Time
<1>2. ASSUME Needed(u), uploads'[u].piece = uploads[u].piece, uploads'[u].offset = uploads[u].offset
      PROVE  Whole(uploads[u].piece, uploads[u].offset)' /\ objects'[uploads'[u].piece].owner = u
  BY <1>2, KeptFrontier, SMT DEF Stays, Whole
<1>3. CASE uploads'[u] = uploads[u]
  <2>1. Needed(u)
    BY <1>1, <1>3, SMT DEF Needed
  <2> QED
    BY <1>2, <1>3, <2>1
<1>4. uploads'[u].piece # Nil /\ uploads'[u].live
  BY DEF Needed
<1>5. ASSUME NEW r \in Request, NEW kind \in {"append", "finish"}, Claim(r, kind)
      PROVE  Whole(uploads[u].piece, uploads[u].offset)' /\ objects'[uploads'[u].piece].owner = u
  <2> PICK v \in Upload, now \in Now, held \in Time, t \in 0 .. Length :
       Claims(r, kind, v, now, held, t)
    BY <1>5, ClaimStep DEF Inv
  <2>1. CASE v # u
    BY <1>0, <1>3, <2>1 DEF Claims
  <2>2. CASE v = u
    <3>1. /\ uploads'[u].piece = uploads[u].piece /\ uploads'[u].offset = uploads[u].offset
          /\ uploads'[u].expires = uploads[u].expires /\ clock' = clock
      BY <1>0, <1>5, <2>2 DEF Claims, Claim, UploadRow
    <3>2. ASSUME uploads[u].expires <= clock
          PROVE  FALSE
      <4>1. uploads[u].piece \in overdue'
        BY <1>4, <2>2, <3>1, <3>2 DEF Claims
      <4>2. ~(uploads'[u].expires > clock')
        BY <1>1, <3>1, <3>2, SMT
      <4> QED
        BY <3>1, <4>1, <4>2 DEF Needed
    <3>3. uploads[u].expires > clock
      BY <1>1, <3>2, SMT
    <3>4. Needed(u)
      BY <1>4, <2>2, <3>1, <3>3 DEF Claims, Needed
    <3> QED
      BY <1>2, <3>1, <3>4
  <2> QED
    BY <2>1, <2>2
<1>6. ASSUME NEW r \in Request, Publish(r), requests[r].upload = u,
             uploads'[u].piece = uploads[u].piece, uploads'[u].offset = uploads[u].offset
      PROVE  Whole(uploads[u].piece, uploads[u].offset)' /\ objects'[uploads'[u].piece].owner = u
  <2>1. /\ uploads'[u].expires = uploads[u].expires /\ uploads'[u].complete
        /\ clock' = clock /\ uploads[u].live
    BY <1>0, <1>6, OwnedRow DEF Publish, UploadRow, env
  <2>2. Needed(u)
    BY <1>4, <1>6, <2>1 DEF Needed
  <2> QED
    BY <1>2, <1>6, <2>2
<1>7. ASSUME NEW r \in Request, Release(r), requests[r].upload = u,
             uploads'[u].piece = uploads[u].piece, uploads'[u].offset = uploads[u].offset,
             uploads'[u].live = uploads[u].live, uploads'[u].expires = uploads[u].expires
      PROVE  Whole(uploads[u].piece, uploads[u].offset)' /\ objects'[uploads'[u].piece].owner = u
  <2>1. CASE uploads'[u] = uploads[u]
    BY <1>3, <2>1
  <2>2. CASE uploads'[u] # uploads[u]
    <3>1. uploads'[u].held = 0
      BY <1>0, <1>7, <2>2 DEF Release, UploadRow
    <3>2. Needed(u)
      BY <1>1, <1>4, <1>7, <3>1, SMT DEF Needed
    <3> QED
      BY <1>2, <1>7, <3>2
  <2> QED
    BY <2>1, <2>2
<1>8. ASSUME NEW r \in Request, SaveFrontier(r), requests[r].upload = u,
             uploads'[u].piece = requests[r].object, uploads'[u].offset = requests[r].target
      PROVE  Whole(uploads[u].piece, uploads[u].offset)' /\ objects'[uploads'[u].piece].owner = u
  <2>. DEFINE o == requests[r].object
  <2>1. o \in Object /\ objects[o] \in ObjectRow
    BY <1>8 DEF SaveFrontier, Running, Inv, RequestInv, TypeOK, RequestState
  <2>2. Whole(o, requests[r].target) /\ objects[o].owner = u
    BY <1>8 DEF SaveFrontier, Running, StoreInv, LeaseInv, Whole
  <2>3. objects'[o] = objects[o] /\ stored' = stored
    BY <1>8, <2>1 DEF SaveFrontier, provider
  <2> QED
    BY <1>8, <2>2, <2>3 DEF Whole
<1>9. ~(uploads'[u] = NoUpload) /\ ~(\E now \in Now : uploads'[u] = Opened(now + Retention))
  BY <1>4, FreshRows
<1> QED
  BY <1>3, <1>5, <1>6, <1>7, <1>8, <1>9, UploadSteps

\* Where the frontier of an upload comes from.
LEMMA PieceSteps ==
    ASSUME Inv, [Next]_vars, NEW u \in Upload, uploads'[u].piece # Nil
    PROVE  \/ /\ uploads'[u].piece = uploads[u].piece
              /\ uploads'[u].live = uploads[u].live /\ uploads'[u].expires = uploads[u].expires
              /\ uploads[u].complete => uploads'[u].complete
           \/ \E r \in Request :
                /\ SaveFrontier(r) /\ requests[r].upload = u
                /\ uploads'[u].piece = requests[r].object
<1>1. ~(uploads'[u] = NoUpload) /\ ~(\E now \in Now : uploads'[u] = Opened(now + Retention))
  BY FreshRows
<1> QED
  BY <1>1, UploadSteps

\* Where the document of the manifest comes from.
LEMMA DocumentSteps ==
    ASSUME Inv, [Next]_vars
    PROVE  \/ /\ manifest'.piece = manifest.piece
              /\ manifest.state = "ready" => manifest'.state \in {"ready", "deleting"}
              /\ manifest.state = "deleting" => manifest'.state \in {"deleting", "deleted"}
              /\ manifest.state \in {"none", "deleted"} => manifest'.state = manifest.state
           \/ \E r \in Request :
                /\ Publish(r) /\ manifest.state \in {"none", "deleted"} /\ manifest'.state = "ready"
                /\ manifest'.piece = uploads[requests[r].upload].piece
<1>0. manifest \in ManifestRow
  BY DEF Inv, TypeOK
<1>1. ASSUME NEW r \in Request, Publish(r)
      PROVE  /\ manifest.state # "deleting" /\ manifest'.state = "ready"
             /\ manifest'.piece = IF manifest.state = "ready" THEN manifest.piece
                                  ELSE uploads[requests[r].upload].piece
  BY <1>1 DEF Publish
<1>2. ASSUME NEW w \in Worker, Reclaim(w), manifest' = [manifest EXCEPT !.state = "deleting"]
      PROVE  /\ manifest'.piece = manifest.piece /\ manifest'.state = "deleting"
             /\ manifest.state \in {"ready", "deleting"}
  BY <1>0, <1>2 DEF ManifestRow, Reclaim, Unused
<1>3. ASSUME manifest' = [manifest EXCEPT !.state = "deleted"]
      PROVE  manifest'.piece = manifest.piece /\ manifest'.state = "deleted"
  BY <1>0, <1>3 DEF ManifestRow
<1>4. manifest.state \in {"none", "ready", "deleting", "deleted"}
  BY <1>0 DEF ManifestRow
<1> QED
  BY <1>1, <1>2, <1>3, <1>4, ManifestSteps

\* Frontiers after every step.
LEMMA NextFrontier ==
    ASSUME Inv, StoreInv, [Next]_vars, NEW u \in Upload
    PROVE  FrontierInv(u)'
<1>0. FrontierInv(u) /\ uploads[u] \in UploadRow /\ \A r \in Request : PrivateInv(r)
  BY DEF StoreInv, Inv, TypeOK
<1>1. ~uploads'[u].live => uploads'[u].piece = Nil
  <2>1. ASSUME NEW r \in Request, SaveFrontier(r), requests[r].upload = u
        PROVE  uploads'[u].live
    BY <1>0, <2>1 DEF SaveFrontier, Owns, UploadRow, Inv, TypeOK
  <2> QED
    BY <1>0, <2>1, PieceSteps DEF FrontierInv
<1>2. ASSUME NEW r \in Request, SaveFrontier(r)
      PROVE  requests[r].object \in Object
  BY <1>2 DEF SaveFrontier, Running, Inv, RequestInv, TypeOK, RequestState
<1>3. ASSUME manifest'.state \in {"ready", "deleting"}, uploads'[u].piece = manifest'.piece
      PROVE  uploads'[u].complete
  <2>0. manifest'.piece # Nil
    BY <1>3, NextManifest DEF ManifestInv
  <2>1. CASE manifest'.piece = manifest.piece /\ manifest.state \in {"ready", "deleting"}
    BY <1>0, <1>2, <1>3, <2>0, <2>1, PieceSteps, NilAssumption, SMT DEF FrontierInv, PrivateInv
  <2>2. ASSUME NEW r \in Request, Publish(r), manifest'.piece = uploads[requests[r].upload].piece
        PROVE  uploads'[u].complete
    <3>1. requests[r].upload \in Upload
      BY <2>2, OwnedRow DEF Publish
    <3>2. uploads'[u].piece = uploads[u].piece
      BY <1>0, <2>2 DEF Publish, UploadRow, Inv, TypeOK
    <3>3. u = requests[r].upload
      BY <1>0, <1>3, <2>0, <2>2, <3>1, <3>2 DEF FrontierInv
    <3> QED
      BY <1>0, <2>2, <3>3 DEF Publish, UploadRow, Inv, TypeOK
  <2> QED
    BY <1>3, <2>1, <2>2, DocumentSteps DEF Inv, TypeOK, ManifestRow
<1>4. ASSUME NEW v \in Upload, uploads'[u].piece # Nil, uploads'[v].piece = uploads'[u].piece
      PROVE  u = v
  <2>1. ASSUME NEW r \in Request, NEW x \in Request, SaveFrontier(r), SaveFrontier(x)
        PROVE  r = x
    <3>1. requests[x].pc = "ready" /\ requests'[x].pc = "idle"
      BY <2>1, SMT DEF SaveFrontier, Running, Idle, Inv, TypeOK
    <3> QED
      BY <2>1, <3>1, OneRequest DEF RequestStep
  <2>2. FrontierInv(v)
    BY DEF StoreInv
  <2> QED
    BY <1>0, <1>2, <1>4, <2>1, <2>2, PieceSteps, NilAssumption, SMT DEF FrontierInv, PrivateInv
<1> QED
  BY <1>1, <1>3, <1>4, NextNeeded DEF FrontierInv

\* Where the object of a collection of manifests comes from.
LEMMA DocumentWorkers ==
    ASSUME Inv, [Next]_vars, NEW w \in Worker, workers'[w].pc \in {"listed"} \cup Collecting
    PROVE  \/ workers'[w].object = manifest.piece /\ workers'[w].pc = "listed"
           \/ /\ workers'[w].object = workers[w].object
              /\ workers[w].pc \in {"listed"} \cup Collecting
              /\ workers'[w].pc = "listed" => workers[w].pc = "listed"
              /\ workers'[w].pc \in Collecting => workers[w].pc \in Collecting \/ Reclaim(w)
<1>0. workers \in [Worker -> WorkerState] /\ workers[w] \in WorkerState
  BY DEF Inv, TypeOK
<1>1. CASE workers'[w] = workers[w]
  BY <1>1 DEF Collecting
<1>2. ASSUME workers'[w] = NoWork
      PROVE  FALSE
  BY <1>2, SMT DEF NoWork, Collecting
<1>3. CASE MarkOrphans(w) \/ LocateOrphan(w) \/ DeleteOrphan(w) \/ SettleOrphan(w)
           \/ DeleteUnconfirmed(w) \/ SweepUploads(w)
  <2>1. workers'[w].pc \in {"cleaning", "deleting", "settling", "swept"}
    <3>1. CASE MarkOrphans(w)
      <4> PICK now \in Now, rows \in SUBSET Object : Marks(w, now, rows)
        BY <3>1, MarkStep
      <4> QED
        BY <1>0, SMT DEF Marks
    <3>2. CASE LocateOrphan(w)
      BY <1>0, <3>2, SMT DEF LocateOrphan, WorkerState
    <3>3. CASE DeleteOrphan(w) \/ SettleOrphan(w) \/ DeleteUnconfirmed(w) \/ SweepUploads(w)
      BY <1>0, <3>3, SMT DEF DeleteOrphan, SettleOrphan, DeleteUnconfirmed, SweepUploads, Worked,
         WorkerState
    <3> QED
      BY <1>3, <3>1, <3>2, <3>3
  <2> QED
    BY <2>1 DEF Collecting
<1>4. CASE ListGarbage(w)
  BY <1>2, <1>4, ListStep DEF Inv
<1>5. CASE Refuse(w) \/ CloseManifest(w) \/ WorkerFails(w)
  BY <1>0, <1>2, <1>5 DEF Refuse, CloseManifest, WorkerFails
<1>6. CASE Reclaim(w) \/ StartRemove(w) \/ ErasePiece(w) \/ SettlePiece(w)
  <2>1. \/ workers'[w] = NoWork
        \/ /\ workers'[w].object = workers[w].object
           /\ workers[w].pc \in {"listed"} \cup Collecting /\ workers'[w].pc \in Collecting
           /\ workers[w].pc \in Collecting \/ Reclaim(w)
    BY <1>0, <1>6, SMT DEF Reclaim, StartRemove, ErasePiece, SettlePiece, Worked, WorkerState, Collecting
  <2> QED
    BY <1>2, <2>1 DEF Collecting
<1> QED
  BY <1>1, <1>3, <1>4, <1>5, <1>6, OtherWorkers DEF WorkerStep

\* The object a request writes stays its own.
LEMMA NextPrivate ==
    ASSUME Inv, StoreInv, [Next]_vars, NEW r \in Request
    PROVE  PrivateInv(r)'
<1>0. /\ requests \in [Request -> RequestState]
      /\ \A x \in Request : PrivateInv(x) /\ RequestInv(x)
      /\ \A x \in Request : requests[x].object \in Object \cup {Nil}
  BY DEF StoreInv, Inv, TypeOK, RequestState
<1>1. ASSUME NEW x \in Request
      PROVE  \/ requests'[x].object \in {requests[x].object, Nil}
             \/ /\ PutPiece(x) /\ requests'[x].object \in Object
                /\ objects[requests'[x].object].state = "none"
  <2>1. CASE PutPiece(x)
    BY <1>0, <2>1, ZenonT(30) DEF PutPiece, RequestState, RequestStep
  <2>2. ASSUME NEW kind \in {"append", "finish"}, Claim(x, kind)
        PROVE  requests'[x].object = Nil
    <3> PICK v \in Upload, now \in Now, held \in Time, t \in 0 .. Length :
           Claims(x, kind, v, now, held, t)
      BY <2>2, ClaimStep DEF Inv
    <3> QED
      BY <1>0 DEF Claims
  <2>3. CASE \/ ReadTail(x) \/ Locate(x) \/ NotWritten(x) \/ MarkReady(x) \/ CheckPieces(x)
             \/ Publish(x) \/ Fail(x)
    BY <1>0, <2>3, SMT DEF ReadTail, Locate, NotWritten, MarkReady, CheckPieces, Publish, Fail, At, Ends,
       RequestState
  <2>4. CASE SaveFrontier(x) \/ Release(x) \/ Crash(x)
    BY <1>0, <2>4, SMT DEF SaveFrontier, Release, Crash, Idle
  <2> QED
    BY <2>1, <2>2, <2>3, <2>4, OtherRequests DEF RequestStep
<1>2. CASE requests'[r].object \in {requests[r].object, Nil}
  <2> SUFFICES ASSUME requests'[r].object = requests[r].object, requests[r].object # Nil
               PROVE  PrivateInv(r)'
    BY <1>2 DEF PrivateInv
  <2>. DEFINE o == requests[r].object
  <2>0. o \in Object /\ objects[o].state # "none"
    BY <1>0 DEF RequestInv
  <2>1. ASSUME NEW x \in Request, requests'[x].object = o
        PROVE  x = r
    BY <1>0, <1>1, <2>0, <2>1 DEF PrivateInv
  <2>2. ASSUME NEW u \in Upload
        PROVE  uploads'[u].piece # o
    <3>1. ASSUME NEW x \in Request, SaveFrontier(x)
          PROVE  requests[x].object # o
      <4>1. CASE x = r
        BY <1>0, <3>1, <4>1 DEF SaveFrontier, Idle
      <4>2. CASE x # r
        BY <1>0, <4>2 DEF PrivateInv
      <4> QED
        BY <4>1, <4>2
    <3> QED
      BY <1>0, <3>1, PieceSteps, SMT DEF PrivateInv
  <2>3. manifest'.piece # o
    <3>1. ASSUME NEW x \in Request, Publish(x)
          PROVE  requests[x].upload \in Upload
      BY <3>1, OwnedRow DEF Publish
    <3> QED
      BY <1>0, <3>1, DocumentSteps, ZenonT(30) DEF PrivateInv
  <2>4. ASSUME NEW w \in Worker, workers'[w].pc \in {"listed"} \cup Collecting
        PROVE  workers'[w].object # o
    BY <1>0, <2>4, DocumentWorkers, ZenonT(30) DEF PrivateInv
  <2> QED
    BY <2>1, <2>2, <2>3, <2>4 DEF PrivateInv
<1>3. CASE /\ PutPiece(r) /\ requests'[r].object \in Object
           /\ objects[requests'[r].object].state = "none"
  <2>. DEFINE o == requests'[r].object
  <2>1. RequestStep(r)
    BY <1>3 DEF RequestStep
  <2>2. UNCHANGED <<uploads, manifest, workers>>
    BY <1>3 DEF PutPiece
  <2>3. ASSUME NEW x \in Request, x # r
        PROVE  requests'[x].object # o
    <3>1. requests'[x] = requests[x]
      BY <2>1, <2>3, OneRequest
    <3> QED
      BY <1>0, <1>3, <3>1, NilAssumption, ZenonT(30) DEF RequestInv
  <2>4. /\ \A u \in Upload : uploads[u].piece # o
        /\ manifest.piece # o
        /\ \A w \in Worker : workers[w].pc \in {"listed"} \cup Collecting => workers[w].object # o
    BY <1>3, NilAssumption DEF Inv, UploadInv, ManifestInv, WorkerInv, Landed
  <2> QED
    BY <2>2, <2>3, <2>4 DEF PrivateInv
<1> QED
  BY <1>1, <1>2, <1>3

\* What a lease protects stays protected.
LEMMA NextLease ==
    ASSUME Inv, StoreInv, [Next]_vars, NEW r \in Request
    PROVE  LeaseInv(r)'
<1>. DEFINE u == requests[r].upload
            o == requests[r].object
<1>0. /\ LeaseInv(r) /\ PrivateInv(r) /\ RequestInv(r)
      /\ requests \in [Request -> RequestState] /\ requests[r] \in RequestState
      /\ uploads \in [Upload -> UploadRow] /\ objects \in [Object -> ObjectRow]
  BY DEF StoreInv, Inv, TypeOK
<1>1. requests[r].pc # "idle" => u \in Upload
  BY <1>0 DEF RequestInv, RequestState
<1>2. /\ clock \in Nat /\ clock' \in Nat /\ clock <= clock' /\ requests[r].held \in Nat
      /\ o \in Object \cup {Nil}
  BY <1>0, ClockSteps, TimesAssumption, SMT DEF RequestState, Time
<1>3. CASE ~RequestStep(r)
  <2> SUFFICES ASSUME requests'[r].pc \notin {"idle", "release"}, Owns(r)'
               PROVE  LeaseInv(r)'
    BY DEF LeaseInv
  <2>1. requests'[r] = requests[r]
    BY <1>3, OtherRequests
  <2>2. /\ Owns(r) /\ u \in Upload /\ uploads'[u].held = uploads[u].held
        /\ requests[r].pc \notin {"idle", "release"}
    BY <1>1, <1>3, <2>1, KeptLease
  <2>3. uploads[u].held = requests[r].held
    BY <1>0, <2>2 DEF LeaseInv
  <2>4. ASSUME requests[r].pc \in {"writing", "located", "ready"}, clock' < requests[r].held
        PROVE  Stays(o)
    <3>1. /\ o \in Object /\ clock < requests[r].held
          /\ objects[o].state \in {"pending", "ready"} /\ objects[o].owner = u
      BY <1>0, <1>2, <2>2, <2>4, SMT DEF LeaseInv, RequestInv
    <3>2. ~Orphan(o, clock)
      BY <2>2, <2>3, <3>1 DEF Orphan, Owns
    <3>3. \A w \in Worker : workers[w].pc \in {"erasing", "erased"} => workers[w].object # o
      BY <1>0, <3>1, NilAssumption DEF PrivateInv, Collecting
    <3>4. \A x \in Request : requests[x].object = o => ~NotWritten(x) /\ ~MarkReady(x)
      BY <1>0, <1>3, <3>1, NilAssumption DEF PrivateInv, RequestStep
    <3> QED
      BY <3>1, <3>2, <3>3, <3>4, KeptObject
  <2> QED
    BY <1>0, <1>2, <2>1, <2>2, <2>3, <2>4, SMT DEF LeaseInv, Stays
<1>4. ASSUME requests'[r].pc \in {"idle", "release"}
      PROVE  LeaseInv(r)'
  BY <1>4 DEF LeaseInv
<1>5. CASE NotWritten(r) \/ SaveFrontier(r) \/ Publish(r) \/ Fail(r) \/ Release(r) \/ Crash(r)
  <2>1. requests'[r].pc \in {"idle", "release"}
    BY <1>0, <1>5, SMT DEF NotWritten, SaveFrontier, Publish, Fail, Release, Crash, Ends, Idle,
       RequestState
  <2> QED
    BY <1>4, <2>1
<1>6. ASSUME NEW kind \in {"append", "finish"}, Claim(r, kind)
      PROVE  LeaseInv(r)'
  <2> PICK v \in Upload, now \in Now, held \in Time, t \in 0 .. Length :
       Claims(r, kind, v, now, held, t)
    BY <1>6, ClaimStep DEF Inv
  <2>1. /\ requests'[r].pc = kind /\ requests'[r].upload = v
        /\ requests'[r].held = held
    BY <1>0 DEF Claims
  <2>2. uploads'[v].held = held
    BY <1>0 DEF Claims, UploadRow
  <2> QED
    BY <1>6, <2>1, <2>2 DEF LeaseInv
<1>7. CASE PutPiece(r)
  <2> PICK y \in Object :
             /\ objects' = [objects EXCEPT ![y] =
                              [state |-> "pending", owner |-> u, located |-> FALSE,
                               expires |-> uploads[u].expires, length |-> requests[r].target]]
             /\ requests' = [requests EXCEPT ![r].pc = "writing", ![r].object = y]
    BY <1>7 DEF PutPiece
  <2>1. /\ requests'[r].pc = "writing" /\ requests'[r].object = y /\ requests'[r].upload = u
        /\ requests'[r].held = requests[r].held /\ requests'[r].target = requests[r].target
    BY <1>0 DEF RequestState
  <2>2. /\ objects'[y].state = "pending" /\ objects'[y].owner = u
        /\ objects'[y].length = requests[r].target
    BY <1>0
  <2>3. uploads' = uploads /\ uploads[u].held = requests[r].held
    BY <1>7, OwnedRow DEF PutPiece
  <2> QED
    BY <2>1, <2>2, <2>3 DEF LeaseInv
<1>8. CASE Locate(r) \/ MarkReady(r)
  <2>1. /\ requests'[r].pc = IF Locate(r) THEN "located" ELSE "ready"
        /\ requests'[r].object = o /\ requests'[r].upload = u
        /\ requests'[r].held = requests[r].held /\ requests'[r].target = requests[r].target
    BY <1>0, <1>8, SMT DEF Locate, MarkReady, At, RequestState
  <2>2. /\ Running(r, IF Locate(r) THEN "writing" ELSE "located")
        /\ UNCHANGED <<uploads, clock, stored>> /\ o \in stored
    BY <1>8 DEF Locate, MarkReady, Running, env, provider
  <2>3. o \in Object /\ u \in Upload
    BY <1>0, <1>1, <1>2, <2>2 DEF RequestInv, Running
  <2> SUFFICES ASSUME Owns(r)'
               PROVE  LeaseInv(r)'
    BY DEF LeaseInv
  <2>4. Owns(r)
    BY <2>1, <2>2 DEF Owns
  <2>5. /\ uploads[u].held = requests[r].held
        /\ objects[o].state = "pending" /\ objects[o].owner = u
        /\ objects[o].length = requests[r].target
        /\ ~Locate(r) => objects[o].located
    BY <1>0, <2>2, <2>4 DEF LeaseInv, Running
  <2>6. /\ objects'[o].state = IF Locate(r) THEN "pending" ELSE "ready"
        /\ objects'[o].owner = u /\ objects'[o].length = requests[r].target
        /\ objects'[o].located
    <3>1. CASE Locate(r)
      BY <1>0, <2>3, <2>5, <3>1, ZenonT(30) DEF Locate, ObjectRow
    <3>2. CASE ~Locate(r)
      BY <1>0, <1>8, <2>3, <2>5, <3>2, SMT DEF MarkReady, ObjectRow
    <3> QED
      BY <3>1, <3>2
  <2> QED
    BY <2>1, <2>2, <2>5, <2>6 DEF LeaseInv
<1>9. CASE CheckPieces(r) \/ ReadTail(r)
  <2>1. /\ requests'[r].pc \in {"checked", "buffered"} /\ requests'[r].upload = u
        /\ requests'[r].held = requests[r].held
    BY <1>0, <1>9, SMT DEF CheckPieces, ReadTail, At, RequestState
  <2>2. uploads' = uploads /\ requests[r].pc \in {"finish", "append"}
    BY <1>9 DEF CheckPieces, ReadTail, Running, db
  <2>3. Owns(r)' => Owns(r)
    BY <2>1, <2>2 DEF Owns
  <2> QED
    BY <1>0, <2>1, <2>2, <2>3 DEF LeaseInv
<1> QED
  BY <1>3, <1>5, <1>6, <1>7, <1>8, <1>9 DEF RequestStep

\* A collection of manifests erases what no upload needs and the manifest has given up.
LEMMA NextCollect ==
    ASSUME Inv, StoreInv, [Next]_vars, NEW w \in Worker
    PROVE  CollectInv(w)'
<1> SUFFICES ASSUME workers'[w].pc \in Collecting
             PROVE  CollectInv(w)'
  BY DEF CollectInv
<1>. DEFINE o == workers[w].object
<1>0. CollectInv(w) /\ WorkerInv(w) /\ workers[w] \in WorkerState /\ manifest \in ManifestRow
  BY DEF StoreInv, Inv, TypeOK
<1>1. /\ workers'[w].object = o /\ workers[w].pc \in {"listed"} \cup Collecting
      /\ workers[w].pc \in Collecting \/ Reclaim(w)
  BY DocumentWorkers DEF Collecting
<1>2. o \in Object /\ o # Nil
  BY <1>0, <1>1 DEF WorkerInv, WorkerState
<1>3. clock \in Nat /\ clock' \in Nat /\ clock <= clock'
  BY ClockSteps
<1>4. ASSUME NEW r \in Request, SaveFrontier(r)
      PROVE  requests[r].object # o
  <2>1. requests[r].object # Nil
    BY <1>4 DEF SaveFrontier, Running, Inv, RequestInv
  <2> QED
    BY <1>1, <2>1 DEF StoreInv, PrivateInv
<1>5. ASSUME NEW u \in Upload, uploads'[u].piece = o
      PROVE  /\ uploads'[u].piece = uploads[u].piece /\ uploads'[u].expires = uploads[u].expires
             /\ uploads[u].complete => uploads'[u].complete
             /\ uploads[u].expires \in Nat /\ uploads[u].live
  <2>1. uploads[u] \in UploadRow
    BY DEF Inv, TypeOK
  <2>2. uploads[u].expires \in Nat
    BY <2>1, TimesAssumption, SMT DEF UploadRow, Time
  <2> QED
    BY <1>2, <1>4, <1>5, <2>2, PieceSteps, SMT DEF StoreInv, FrontierInv
<1>6. CASE workers[w].pc \in Collecting
  <2>1. ASSUME NEW r \in Request, Publish(r), manifest'.piece = uploads[requests[r].upload].piece
        PROVE  manifest'.piece # o
    BY <1>0, <1>6, <2>1, OwnedRow DEF Publish, CollectInv
  <2>2. manifest'.piece = o => manifest'.state \in {"deleting", "deleted"}
    BY <1>0, <1>6, <2>1, DocumentSteps DEF CollectInv
  <2> QED
    BY <1>0, <1>1, <1>3, <1>5, <1>6, <2>2, SMT DEF CollectInv
<1>7. CASE Reclaim(w)
  <2>1. /\ manifest.piece = o /\ manifest.state \in {"ready", "deleting"}
        /\ manifest'.state = "deleting" /\ clock' = clock
        /\ \A u \in Upload : ~(uploads[u].live /\ uploads[u].expires > clock)
    BY <1>0, <1>7 DEF Reclaim, Unused, ManifestRow, env
  <2>2. ASSUME NEW u \in Upload, uploads'[u].piece = o
        PROVE  uploads'[u].complete /\ uploads'[u].expires <= clock'
    BY <1>3, <1>5, <2>1, <2>2, SMT DEF StoreInv, FrontierInv
  <2> QED
    BY <1>1, <2>1, <2>2 DEF CollectInv
<1> QED
  BY <1>1, <1>6, <1>7

\* What a step does to a pin.
LEMMA PinSteps ==
    ASSUME Inv, [Next]_vars, NEW d \in Reader
    PROVE  pins'[d] = pins[d] \/ ~pins'[d].live \/ Pin(d)
<1>0. pins \in [Reader -> PinRow]
  BY DEF Inv, TypeOK
<1>1. CASE \E x \in Reader : Pin(x) \/ Unpin(x)
  BY <1>0, <1>1, SMT DEF Pin, Unpin, NoPin
<1>2. CASE \E r \in Request : RequestStep(r)
  BY <1>2, ZenonT(30)
     DEF RequestStep, Claim, ReadTail, PutPiece, Locate, NotWritten, MarkReady, SaveFrontier, CheckPieces,
         Publish, Fail, Release, Crash, db
<1>3. CASE \E w \in Worker : WorkerStep(w)
  <2> PICK w \in Worker : WorkerStep(w)
    BY <1>3
  <2>1. CASE MarkOrphans(w)
    BY <2>1 DEF MarkOrphans, NoPin
  <2>2. MarkOrphans(w) \/ UNCHANGED pins
    BY ZenonT(30) DEF WorkerStep, LocateOrphan, DeleteOrphan, SettleOrphan, SweepUploads, ListGarbage,
       Reclaim, Refuse, StartRemove, ErasePiece, SettlePiece, CloseManifest, DeleteUnconfirmed,
       WorkerFails, db
  <2> QED
    BY <2>1, <2>2
<1>4. CASE \/ \E u \in Upload : Begin(u)
           \/ \E o \in Object : Land(o) \/ Lose(o)
           \/ Refer \/ Tick \/ UNCHANGED vars
  BY <1>4 DEF Begin, Land, Lose, Refer, Tick, vars, db
<1> QED
  BY <1>1, <1>2, <1>3, <1>4 DEF Next

\* A pin that has not expired keeps its manifest.
LEMMA NextPin ==
    ASSUME Inv, StoreInv, [Next]_vars, NEW d \in Reader
    PROVE  PinInv(d)'
<1> SUFFICES ASSUME pins'[d].live, pins'[d].expires > clock'
             PROVE  manifest'.state = "ready" /\ manifest'.piece = pins'[d].piece
  BY DEF PinInv
<1>0. PinInv(d) /\ pins[d] \in PinRow /\ pins \in [Reader -> PinRow] /\ manifest \in ManifestRow
  BY DEF StoreInv, Inv, TypeOK
<1>1. CASE Pin(d)
  BY <1>0, <1>1 DEF Pin
<1>2. CASE pins'[d] = pins[d]
  <2>1. /\ clock \in Nat /\ clock' \in Nat /\ clock <= clock' /\ pins[d].expires \in Nat
    BY <1>0, ClockSteps, TimesAssumption, SMT DEF PinRow, Time
  <2>2. pins[d].live /\ pins[d].expires > clock
    BY <1>2, <2>1, SMT
  <2>3. manifest.state = "ready" /\ manifest.piece = pins[d].piece
    BY <1>0, <2>2 DEF PinInv
  <2>4. ASSUME NEW r \in Request, Publish(r)
        PROVE  manifest'.state = "ready" /\ manifest'.piece = manifest.piece
    BY <2>3, <2>4 DEF Publish
  <2>5. \A w \in Worker : ~Reclaim(w)
    BY <2>2 DEF Reclaim, Unused, Pinned
  <2> QED
    BY <1>2, <2>3, <2>4, <2>5, ManifestSteps
<1> QED
  BY <1>1, <1>2, PinSteps

\* A ready manifest is whole after every step.
LEMMA NextReady ==
    ASSUME Inv, StoreInv, [Next]_vars, manifest'.state = "ready", manifest'.piece \notin overdue'
    PROVE  Whole(manifest.piece, Length)'
<1>0. manifest \in ManifestRow /\ ManifestInv
  BY DEF Inv, TypeOK
<1>1. CASE manifest'.piece = manifest.piece /\ manifest.state = "ready"
  <2>. DEFINE o == manifest.piece
  <2>1. o \in Object /\ Whole(o, Length)
    BY <1>0, <1>1, OverdueSteps DEF ManifestInv, ManifestRow, StoreInv
  <2>2. ~Orphan(o, clock)
    BY <1>1 DEF Orphan, Loose, Listed
  <2>3. \A w \in Worker : workers[w].pc \in {"erasing", "erased"} => workers[w].object # o
    BY <1>1 DEF StoreInv, CollectInv, Collecting
  <2>4. Stays(o)
    BY <2>1, <2>2, <2>3, KeptObject DEF Whole
  <2> QED
    BY <1>1, <2>1, <2>4 DEF Whole, Stays
<1>2. ASSUME NEW r \in Request, Publish(r), manifest'.piece = uploads[requests[r].upload].piece
      PROVE  Whole(manifest.piece, Length)'
  <2>. DEFINE u == requests[r].upload
  <2>1. /\ u \in Upload /\ uploads[u].live /\ uploads[u].held > clock /\ ~uploads[u].complete
    BY <1>2, OwnedRow DEF Publish
  <2>2. uploads[u].offset = Length
    BY <1>2 DEF Publish, Running, Inv, RequestInv
  <2>3. uploads[u].piece # Nil
    BY <2>1, <2>2, TimesAssumption, SMT DEF Inv, UploadInv
  <2>4. Whole(uploads[u].piece, Length)
    BY <1>2, <2>1, <2>2, <2>3, OverdueSteps DEF StoreInv, FrontierInv, Needed
  <2> QED
    BY <1>2, <2>4 DEF Publish, provider, Whole
<1> QED
  BY <1>0, <1>1, <1>2, DocumentSteps DEF ManifestRow

\* Every step keeps what is needed stored.
LEMMA NextStore ==
    ASSUME Inv, StoreInv, [Next]_vars
    PROVE  StoreInv'
<1>1. manifest'.state = "ready" /\ manifest'.piece \notin overdue' => Whole(manifest.piece, Length)'
  BY NextReady
<1> QED
  BY <1>1, NextFrontier, NextPrivate, NextLease, NextCollect, NextPin DEF StoreInv

\* The initial state satisfies it.
LEMMA InitStore == Init => StoreInv
<1> SUFFICES ASSUME Init PROVE StoreInv
  OBVIOUS
<1>1. \A u \in Upload : uploads[u] = NoUpload
  BY DEF Init
<1>2. \A u \in Upload : FrontierInv(u)
  BY <1>1, FreshRows DEF Init, FrontierInv, Needed
<1>3. \A r \in Request : PrivateInv(r) /\ LeaseInv(r)
  BY DEF Init, PrivateInv, LeaseInv, Idle
<1>4. \A w \in Worker : CollectInv(w)
  BY DEF Init, CollectInv, NoWork, Collecting
<1>5. \A d \in Reader : PinInv(d)
  BY DEF Init, PinInv, NoPin
<1> QED
  BY <1>2, <1>3, <1>4, <1>5 DEF StoreInv, Init

\* What is needed is stored, always.
THEOREM StoreInvariance == Spec => []StoreInv
<1>1. Inv /\ StoreInv /\ [Next]_vars => StoreInv'
  BY NextStore
<1> QED
  BY <1>1, InitStore, Invariance, PTL DEF Spec

\* For every number of concurrent uploads and collectors and however old the clock reads they
\* act on, a published artifact has a ready object with all its bytes, unless a request claimed
\* the upload of that object after its expiry.
THEOREM ReadyIsAlwaysStored == Spec => []ReadyIsStored
<1>1. StoreInv => ReadyIsStored
  BY DEF StoreInv, ReadyIsStored, Whole, Readable, Addressable
<1> QED
  BY <1>1, StoreInvariance, PTL

\* However old the clock reads of requests and collectors are, an upload that is not expired
\* can be resumed at the offset it acknowledged, and so can one under a lease it got in time.
THEOREM FrontierIsAlwaysStored == Spec => []FrontierIsStored
<1>1. Inv /\ StoreInv => FrontierIsStored
  BY DEF Inv, UploadInv, StoreInv, FrontierInv, Needed, FrontierIsStored, Whole, Readable,
     Addressable
<1> QED
  BY <1>1, Invariance, StoreInvariance, PTL

\* A reader is always served from the document it pinned, unless a request claimed the upload
\* of its object after the expiry.
THEOREM PinnedIsAlwaysStored == Spec => []PinnedIsStored
<1>1. StoreInv => PinnedIsStored
  BY DEF StoreInv, PinInv, PinnedIsStored, Whole, Readable, Addressable
<1> QED
  BY <1>1, StoreInvariance, PTL

\* Without lag a caller's time is the present.
LEMMA NowIsClock ==
    ASSUME TypeOK, Lag = 0, NEW now \in Now
    PROVE  now = clock /\ clock \in Nat
<1>1. clock \in Nat
  BY TimesAssumption, SMT DEF TypeOK
<1> QED
  BY <1>1, SMT DEF Now

\* With clocks that are not stale no claim comes after the expiry.
LEMMA NeverOverdue ==
    ASSUME Lag = 0, Inv, [Next]_vars
    PROVE  overdue' = overdue
<1> SUFFICES ASSUME NEW r \in Request, NEW kind \in {"append", "finish"}, Claim(r, kind)
             PROVE  overdue' = overdue
  BY OverdueSteps
<1> PICK v \in Upload, now \in Now, held \in Time, t \in 0 .. Length :
       Claims(r, kind, v, now, held, t)
  BY ClaimStep DEF Inv
<1>1. uploads[v] \in UploadRow /\ now = clock /\ clock \in Nat
  BY NowIsClock DEF Inv, TypeOK
<1>2. uploads[v].expires \in Nat
  BY <1>1, TimesAssumption, SMT DEF UploadRow, Time
<1>3. ~(uploads[v].expires <= clock)
  BY <1>1, <1>2, SMT DEF Claims
<1> QED
  BY <1>3 DEF Claims

\* With clocks that are not stale, the catalog can always be backed up: what can be read or
\* resumed has its physical record.  This is what the run of ContentStale refutes for stale
\* ones.
THEOREM CatalogIsAlwaysConsumable ==
    ASSUME Lag = 0
    PROVE  Spec => []CatalogIsConsumable
<1>1. Inv /\ overdue = {} /\ [Next]_vars => (overdue = {})'
  BY NeverOverdue
<1>2. Init => overdue = {}
  BY DEF Init
<1>3. StoreInv /\ overdue = {} => CatalogIsConsumable
  BY DEF StoreInv, FrontierInv, Needed, CatalogIsConsumable, Whole, Recorded
<1> QED
  BY <1>1, <1>2, <1>3, Invariance, StoreInvariance, PTL DEF Spec

-----------------------------------------------------------------------------
(* What is charged, as numbers of bytes.                                   *)

\* The bytes of a set of objects in a given table of objects.
BytesOf(table, set) == {b \in set \X (1 .. Length) : b[2] <= table[b[1]].length}

\* What open uploads have reserved beyond what they stored.
SpareOf(open, used) == {b \in open \X (1 .. Reservation) : b[2] > used[b[1]]}

\* A stretch of the bytes of one object or upload has as many members as it is long.
LEMMA StretchSize ==
    ASSUME NEW x, NEW a \in Int, NEW b \in Int, a <= b + 1
    PROVE  /\ IsFiniteSet({x} \X (a .. b))
           /\ Cardinality({x} \X (a .. b)) = b - a + 1
<1>1. IsFiniteSet({x}) /\ Cardinality({x}) = 1
  BY FS_Singleton
<1>2. IsFiniteSet(a .. b) /\ Cardinality(a .. b) = IF a > b THEN 0 ELSE b - a + 1
  BY FS_Interval
<1>3. /\ IsFiniteSet({x} \X (a .. b))
      /\ Cardinality({x} \X (a .. b)) = Cardinality({x}) * Cardinality(a .. b)
  BY <1>1, <1>2, FS_Product
<1> QED
  BY <1>1, <1>2, <1>3, SMT

\* Finitely many objects have finitely many bytes.
LEMMA BytesAreFinite ==
    ASSUME NEW table, NEW set, IsFiniteSet(set)
    PROVE  IsFiniteSet(BytesOf(table, set)) /\ Cardinality(BytesOf(table, set)) \in Nat
<1>1. IsFiniteSet(1 .. Length)
  <2>1. 1 \in Int /\ Length \in Int
    BY TimesAssumption, SMT
  <2> QED
    BY <2>1, FS_Interval
<1>2. IsFiniteSet(set \X (1 .. Length))
  BY <1>1, FS_Product
<1>3. IsFiniteSet(BytesOf(table, set))
  BY <1>2, FS_Subset DEF BytesOf
<1> QED
  BY <1>3, FS_CardinalityType

\* One object more adds its length.
LEMMA BytesOfOneMore ==
    ASSUME NEW table, NEW set, IsFiniteSet(set), NEW o, o \notin set,
           table[o].length \in 0 .. Length
    PROVE  Cardinality(BytesOf(table, set \cup {o}))
               = Cardinality(BytesOf(table, set)) + table[o].length
<1>. DEFINE n == table[o].length
            own == {o} \X (1 .. n)
            rest == BytesOf(table, set)
<1>0. n \in Nat /\ n <= Length /\ Length \in Nat
  BY TimesAssumption, SMT
<1>1. IsFiniteSet(own) /\ Cardinality(own) = n
  <2>1. 1 \in Int /\ n \in Int /\ 1 <= n + 1 /\ n - 1 + 1 = n
    BY <1>0, SMT
  <2> HIDE DEF n
  <2> QED
    BY <2>1, StretchSize
<1>2. IsFiniteSet(rest) /\ Cardinality(rest) \in Nat
  BY BytesAreFinite
<1>3. \A i : i \in 1 .. n <=> i \in 1 .. Length /\ i <= n
  BY <1>0, SMT
<1>4. BytesOf(table, set \cup {o}) = rest \cup own
  <2>1. ASSUME NEW b PROVE b \in BytesOf(table, set \cup {o}) <=> b \in rest \cup own
    <3>1. b \in own <=> b \in {o} \X (1 .. Length) /\ b[2] <= table[b[1]].length
      BY <1>3, SMT
    <3> HIDE DEF own
    <3>2. b \in (set \cup {o}) \X (1 .. Length)
              <=> b \in set \X (1 .. Length) \/ b \in {o} \X (1 .. Length)
      BY SMT
    <3> QED
      BY <3>1, <3>2 DEF BytesOf
  <2> QED
    BY <2>1
<1>5. rest \cap own = {}
  BY SMT DEF BytesOf
<1>. HIDE DEF own, rest
<1>6. Cardinality(rest \cup own) = Cardinality(rest) + Cardinality(own) - Cardinality(rest \cap own)
  BY <1>1, <1>2, FS_Union
<1>7. Cardinality(rest \cap own) = 0
  BY <1>5, FS_EmptySet
<1>8. Cardinality(rest \cup own) = Cardinality(rest) + n
  BY <1>0, <1>1, <1>2, <1>6, <1>7, SMT
<1> QED
  BY <1>4, <1>8 DEF rest

\* Only the lengths of the objects matter.
LEMMA BytesOfSameLengths ==
    ASSUME NEW table, NEW other, NEW set, \A o \in set : other[o].length = table[o].length
    PROVE  BytesOf(other, set) = BytesOf(table, set)
  BY SMT DEF BytesOf

\* Fewer objects have no more bytes.
LEMMA BytesOfFewer ==
    ASSUME NEW table, NEW set, IsFiniteSet(set), NEW part \in SUBSET set
    PROVE  Cardinality(BytesOf(table, part)) <= Cardinality(BytesOf(table, set))
<1>1. BytesOf(table, part) \in SUBSET BytesOf(table, set)
  BY SMT DEF BytesOf
<1> QED
  BY <1>1, BytesAreFinite, FS_Subset

\* Reservations are numbers.
LEMMA ReservationIsNat == Length \in Nat /\ Reservation \in Nat
  BY TimesAssumption, SMT DEF Reservation

\* Finitely many uploads have finitely many bytes to spare.
LEMMA SpareIsFinite ==
    ASSUME NEW open, IsFiniteSet(open), NEW used
    PROVE  IsFiniteSet(SpareOf(open, used)) /\ Cardinality(SpareOf(open, used)) \in Nat
<1>1. 1 \in Int /\ Reservation \in Int
  BY ReservationIsNat, SMT
<1>2. IsFiniteSet(1 .. Reservation)
  BY <1>1, FS_Interval
<1>3. IsFiniteSet(open \X (1 .. Reservation))
  BY <1>2, FS_Product
<1>4. IsFiniteSet(SpareOf(open, used))
  BY <1>3, FS_Subset DEF SpareOf
<1> QED
  BY <1>4, FS_CardinalityType

\* When at most one upload gives back n bytes, at most n bytes more are spare.
LEMMA SpareGivenBack ==
    ASSUME NEW open, IsFiniteSet(open), NEW less \in SUBSET open, NEW used, NEW later,
           NEW v, NEW a \in Nat, NEW n \in Nat,
           \A u \in less : used[u] \in Nat,
           \A u \in less : u # v => later[u] = used[u],
           v \in less => later[v] = a /\ used[v] = a + n
    PROVE  Cardinality(SpareOf(less, later)) <= Cardinality(SpareOf(open, used)) + n
<1>. DEFINE back == {v} \X (a + 1 .. a + n)
            old == SpareOf(open, used)
<1>1. IsFiniteSet(back) /\ Cardinality(back) = n
  <2>1. \E i, j \in Int : i = a + 1 /\ j = a + n /\ i <= j + 1 /\ j - i + 1 = n
    BY SMT
  <2>2. PICK i, j \in Int : i = a + 1 /\ j = a + n /\ i <= j + 1 /\ j - i + 1 = n
    BY <2>1
  <2>3. IsFiniteSet({v} \X (i .. j)) /\ Cardinality({v} \X (i .. j)) = j - i + 1
    BY <2>2, StretchSize
  <2> QED
    BY <2>2, <2>3
<1>2. IsFiniteSet(old) /\ Cardinality(old) \in Nat
  BY SpareIsFinite
<1>3. SpareOf(less, later) \in SUBSET (old \cup back)
  <2> SUFFICES ASSUME NEW b \in SpareOf(less, later), b \notin old PROVE b \in back
    OBVIOUS
  <2>1. /\ b \in less \X (1 .. Reservation) /\ b[2] > later[b[1]]
        /\ ~(b \in open \X (1 .. Reservation) /\ b[2] > used[b[1]])
    BY DEF SpareOf
  <2>2. PICK u \in less, i \in 1 .. Reservation : b = <<u, i>>
    BY <2>1, SMT
  <2>3. i \in Nat /\ i > later[u] /\ ~(i > used[u])
    BY <2>1, <2>2, ReservationIsNat, SMT
  <2>4. u = v /\ i \in a + 1 .. a + n
    BY <2>3, SMT
  <2> QED
    BY <2>2, <2>4, SMT
<1>. HIDE DEF old, back
<1>4. /\ IsFiniteSet(old \cup back)
      /\ Cardinality(old \cup back) = Cardinality(old) + Cardinality(back) - Cardinality(old \cap back)
  BY <1>1, <1>2, FS_Union
<1>5. IsFiniteSet(old \cap back) /\ Cardinality(old \cap back) \in Nat
  BY <1>2, FS_Subset, FS_CardinalityType
<1>6. /\ Cardinality(SpareOf(less, later)) <= Cardinality(old \cup back)
      /\ Cardinality(SpareOf(less, later)) \in Nat
  BY <1>3, <1>4, FS_Subset, FS_CardinalityType
<1> QED
  BY <1>1, <1>2, <1>4, <1>5, <1>6, SMT DEF old

\* One upload more has at most its reservation to spare.
LEMMA SpareOpened ==
    ASSUME NEW open, IsFiniteSet(open), NEW v, NEW more \in SUBSET (open \cup {v}), NEW used
    PROVE  Cardinality(SpareOf(more, used)) <= Cardinality(SpareOf(open, used)) + Reservation
<1>. DEFINE fresh == {v} \X (1 .. Reservation)
            old == SpareOf(open, used)
<1>1. IsFiniteSet(fresh) /\ Cardinality(fresh) = Reservation
  <2>1. 1 \in Int /\ Reservation \in Int /\ 1 <= Reservation + 1 /\ Reservation - 1 + 1 = Reservation
    BY ReservationIsNat, SMT
  <2> QED
    BY <2>1, StretchSize
<1>2. IsFiniteSet(old) /\ Cardinality(old) \in Nat
  BY SpareIsFinite
<1>3. SpareOf(more, used) \in SUBSET (old \cup fresh)
  BY SMT DEF SpareOf
<1>. HIDE DEF old, fresh
<1>4. /\ IsFiniteSet(old \cup fresh)
      /\ Cardinality(old \cup fresh)
             = Cardinality(old) + Cardinality(fresh) - Cardinality(old \cap fresh)
  BY <1>1, <1>2, FS_Union
<1>5. IsFiniteSet(old \cap fresh) /\ Cardinality(old \cap fresh) \in Nat
  BY <1>2, FS_Subset, FS_CardinalityType
<1>6. /\ Cardinality(SpareOf(more, used)) <= Cardinality(old \cup fresh)
      /\ Cardinality(SpareOf(more, used)) \in Nat
  BY <1>3, <1>4, FS_Subset, FS_CardinalityType
<1> QED
  BY <1>1, <1>2, <1>4, <1>5, <1>6, ReservationIsNat, SMT DEF old

\* The larger of two numbers.
LEMMA LargerOfTwo ==
    ASSUME NEW a \in Nat, NEW b \in Nat
    PROVE  Max({a, b}) = IF a <= b THEN b ELSE a
<1>1. \E m \in {a, b} : \A y \in {a, b} : m >= y
  BY SMT
<1>2. Max({a, b}) \in {a, b} /\ \A y \in {a, b} : Max({a, b}) >= y
  BY <1>1 DEF Max
<1> QED
  BY <1>2, SMT

\* When an open upload uses t bytes more, it has so many fewer to spare as its reservation
\* still covered.
LEMMA SpareConsumed ==
    ASSUME NEW open, IsFiniteSet(open), NEW v \in open, NEW used, NEW later,
           NEW a \in Nat, NEW t \in Nat, used[v] = a, later[v] = a + t,
           \A u \in open : u # v => later[u] = used[u]
    PROVE  Cardinality(SpareOf(open, later)) + t
               = Cardinality(SpareOf(open, used))
                 + (Max({Reservation, a + t}) - Max({Reservation, a}))
<1>. DEFINE top == IF a + t <= Reservation THEN a + t
                   ELSE IF a <= Reservation THEN Reservation ELSE a
            cut == {v} \X (a + 1 .. top)
            old == SpareOf(open, used)
<1>0. top \in Nat /\ a <= top /\ top - a <= t
  BY ReservationIsNat, SMT
<1>1. Cardinality(cut) = top - a
  <2>1. \E i, j \in Int : i = a + 1 /\ j = top /\ i <= j + 1 /\ j - i + 1 = top - a
    BY <1>0, SMT
  <2>2. PICK i, j \in Int : i = a + 1 /\ j = top /\ i <= j + 1 /\ j - i + 1 = top - a
    BY <2>1
  <2> HIDE DEF top
  <2>3. Cardinality({v} \X (i .. j)) = j - i + 1
    <3>1. i <= j + 1
      BY <2>2
    <3> QED
      BY <3>1, StretchSize
  <2>4. cut = {v} \X (i .. j)
    BY <2>2
  <2> QED
    BY <2>2, <2>3, <2>4
<1>2. IsFiniteSet(old) /\ Cardinality(old) \in Nat
  BY SpareIsFinite
<1>3. SpareOf(open, later) = old \ cut /\ old \cap cut = cut
  <2>1. ASSUME NEW i \in 1 .. Reservation
        PROVE  i > a + t <=> i > a /\ i \notin a + 1 .. top
    BY ReservationIsNat, SMT
  <2>2. ASSUME NEW i \in a + 1 .. top PROVE i \in 1 .. Reservation /\ i > a
    BY ReservationIsNat, SMT
  <2> HIDE DEF top
  <2>3. ASSUME NEW b PROVE b \in SpareOf(open, later) <=> b \in old \ cut
    <3>1. CASE b \in open \X (1 .. Reservation)
      <4>1. PICK u \in open, i \in 1 .. Reservation : b = <<u, i>>
        BY <3>1, SMT
      <4>2. b[1] = u /\ b[2] = i
        BY <4>1, SMT
      <4>3. b \in cut <=> u = v /\ i \in a + 1 .. top
        BY <4>1, SMT
      <4>4. b \in SpareOf(open, later) <=> i > later[u]
        BY <3>1, <4>2 DEF SpareOf
      <4>5. b \in old <=> i > used[u]
        BY <3>1, <4>2 DEF SpareOf
      <4>6. u = v => (i > later[u] <=> i > a /\ i \notin a + 1 .. top)
        BY <2>1
      <4>7. u # v => later[u] = used[u]
        OBVIOUS
      <4> HIDE DEF cut, old
      <4> QED
        BY <4>3, <4>4, <4>5, <4>6, <4>7
    <3> QED
      BY <3>1 DEF SpareOf
  <2>4. ASSUME NEW b \in cut PROVE b \in old
    <3>1. PICK i \in a + 1 .. top : b = <<v, i>>
      BY SMT
    <3>2. b[1] = v /\ b[2] = i /\ b \in open \X (1 .. Reservation)
      BY <2>2, <3>1, SMT
    <3> QED
      BY <2>2, <3>2 DEF SpareOf
  <2> QED
    BY <2>3, <2>4
<1>. HIDE DEF cut
<1>4. Cardinality(old \ cut) = Cardinality(old) - Cardinality(old \cap cut)
  BY <1>2, FS_Difference
<1>. HIDE DEF old
<1>5. Cardinality(SpareOf(open, later)) = Cardinality(old) - (top - a)
  BY <1>1, <1>3, <1>4
<1>6. PICK s \in Nat : s = a + t
  BY SMT
<1>7. /\ Max({Reservation, a}) = IF Reservation <= a THEN a ELSE Reservation
      /\ Max({Reservation, s}) = IF Reservation <= s THEN s ELSE Reservation
  BY LargerOfTwo, ReservationIsNat
<1> QED
  BY <1>0, <1>2, <1>5, <1>6, <1>7, ReservationIsNat, SMT DEF old

\* The bytes each upload owns among some objects, and what is then charged.
UsedOf(table, loose) ==
    [u \in Upload |-> Cardinality(BytesOf(table, {o \in loose : table[o].owner = u}))]
ChargedOf(table, loose, open) ==
    Cardinality(BytesOf(table, loose)) + Cardinality(SpareOf(open, UsedOf(table, loose)))

\* Every upload owns a number of bytes.
LEMMA UsedIsNat ==
    ASSUME NEW table, NEW loose, IsFiniteSet(loose), NEW u \in Upload
    PROVE  /\ UsedOf(table, loose)[u] = Cardinality(BytesOf(table, {o \in loose : table[o].owner = u}))
           /\ IsFiniteSet({o \in loose : table[o].owner = u})
           /\ UsedOf(table, loose)[u] \in Nat
<1>1. IsFiniteSet({o \in loose : table[o].owner = u})
  BY FS_Subset
<1>2. UsedOf(table, loose)[u] = Cardinality(BytesOf(table, {o \in loose : table[o].owner = u}))
  BY DEF UsedOf
<1> QED
  BY <1>1, <1>2, BytesAreFinite

\* The same objects with the same owners and lengths use the same.
LEMMA UsedOfSame ==
    ASSUME NEW table, NEW other, NEW loose,
           \A o \in loose : other[o].owner = table[o].owner /\ other[o].length = table[o].length
    PROVE  /\ BytesOf(other, loose) = BytesOf(table, loose)
           /\ UsedOf(other, loose) = UsedOf(table, loose)
<1>1. BytesOf(other, loose) = BytesOf(table, loose)
  BY BytesOfSameLengths
<1>2. ASSUME NEW u \in Upload
      PROVE  BytesOf(other, {o \in loose : other[o].owner = u})
                 = BytesOf(table, {o \in loose : table[o].owner = u})
  <2>1. {o \in loose : other[o].owner = u} = {o \in loose : table[o].owner = u}
    OBVIOUS
  <2>2. BytesOf(other, {o \in loose : table[o].owner = u})
            = BytesOf(table, {o \in loose : table[o].owner = u})
    BY BytesOfSameLengths
  <2> QED
    BY <2>1, <2>2
<1> QED
  BY <1>1, <1>2 DEF UsedOf

\* An object more is added to what its owner uses, and to nobody else's.
LEMMA UsedOfOneMore ==
    ASSUME NEW table, NEW loose, IsFiniteSet(loose), NEW x, x \notin loose,
           table[x].length \in 0 .. Length, NEW u \in Upload
    PROVE  /\ table[x].owner = u =>
                  UsedOf(table, loose \cup {x})[u] = UsedOf(table, loose)[u] + table[x].length
           /\ table[x].owner # u =>
                  UsedOf(table, loose \cup {x})[u] = UsedOf(table, loose)[u]
<1>. DEFINE own == {o \in loose : table[o].owner = u}
            more == {o \in loose \cup {x} : table[o].owner = u}
<1>1. UsedOf(table, loose)[u] = Cardinality(BytesOf(table, own)) /\ IsFiniteSet(own)
  <2>1. IsFiniteSet(own)
    BY FS_Subset
  <2> QED
    BY <2>1 DEF UsedOf
<1>2. UsedOf(table, loose \cup {x})[u] = Cardinality(BytesOf(table, more))
  BY DEF UsedOf
<1>3. CASE table[x].owner = u
  <2>1. more = own \cup {x} /\ x \notin own
    BY <1>3
  <2> HIDE DEF own, more
  <2>2. Cardinality(BytesOf(table, own \cup {x})) = Cardinality(BytesOf(table, own)) + table[x].length
    BY <1>1, <2>1, BytesOfOneMore
  <2> QED
    BY <1>1, <1>2, <1>3, <2>1, <2>2
<1>4. CASE table[x].owner # u
  <2>1. more = own
    BY <1>4
  <2> QED
    BY <1>1, <1>2, <1>4, <2>1
<1> QED
  BY <1>3, <1>4

\* What is charged is a number.
LEMMA ChargeIsNat ==
    ASSUME NEW table, NEW loose, IsFiniteSet(loose), NEW open, IsFiniteSet(open)
    PROVE  ChargedOf(table, loose, open) \in Nat
<1>1. /\ Cardinality(BytesOf(table, loose)) \in Nat
      /\ Cardinality(SpareOf(open, UsedOf(table, loose))) \in Nat
  BY BytesAreFinite, SpareIsFinite
<1> QED
  BY <1>1, SMT DEF ChargedOf

\* Nothing more is charged when uploads end and no object becomes loose.
LEMMA ChargeKept ==
    ASSUME NEW table, NEW other, NEW loose, IsFiniteSet(loose),
           \A o \in loose : other[o].owner = table[o].owner /\ other[o].length = table[o].length,
           NEW open \in SUBSET Upload, IsFiniteSet(open), NEW less \in SUBSET open
    PROVE  ChargedOf(other, loose, less) <= ChargedOf(table, loose, open)
<1>. DEFINE used == UsedOf(table, loose)
<1>1. BytesOf(other, loose) = BytesOf(table, loose) /\ UsedOf(other, loose) = used
  BY UsedOfSame
<1>2. SpareOf(less, used) \in SUBSET SpareOf(open, used)
  BY SMT DEF SpareOf
<1>3. /\ IsFiniteSet(SpareOf(open, used)) /\ Cardinality(SpareOf(open, used)) \in Nat
      /\ Cardinality(BytesOf(table, loose)) \in Nat
  BY SpareIsFinite, BytesAreFinite
<1>4. /\ Cardinality(SpareOf(less, used)) <= Cardinality(SpareOf(open, used))
      /\ Cardinality(SpareOf(less, used)) \in Nat
  BY <1>2, <1>3, FS_Subset, FS_CardinalityType
<1>. HIDE DEF used
<1> QED
  BY <1>1, <1>3, <1>4, SMT DEF ChargedOf, used

\* Nothing more is charged when an object goes: its owner gets back what it was charged for.
LEMMA ChargeRemoved ==
    ASSUME NEW table, NEW other, NEW loose, IsFiniteSet(loose), NEW x \in loose,
           table[x].length \in 0 .. Length,
           \A o \in loose \ {x} :
               other[o].owner = table[o].owner /\ other[o].length = table[o].length,
           NEW open \in SUBSET Upload, IsFiniteSet(open), NEW less \in SUBSET open
    PROVE  ChargedOf(other, loose \ {x}, less) <= ChargedOf(table, loose, open)
<1>. DEFINE rest == loose \ {x}
            n == table[x].length
            v == table[x].owner
            used == UsedOf(table, loose)
            later == UsedOf(table, rest)
<1>1. IsFiniteSet(rest) /\ x \notin rest /\ rest \cup {x} = loose
  <2>1. x \notin rest /\ rest \cup {x} = loose
    OBVIOUS
  <2> QED
    BY <2>1, FS_RemoveElement
<1>2. BytesOf(other, rest) = BytesOf(table, rest) /\ UsedOf(other, rest) = later
  BY UsedOfSame
<1>. HIDE DEF rest
<1>3. Cardinality(BytesOf(table, loose)) = Cardinality(BytesOf(table, rest)) + n
  BY <1>1, BytesOfOneMore
<1>4. \A u \in Upload : /\ v = u => used[u] = later[u] + n
                        /\ v # u => used[u] = later[u]
  <2>1. IsFiniteSet(rest) /\ x \notin rest
    BY <1>1
  <2>2. \A u \in Upload :
            /\ v = u => UsedOf(table, rest \cup {x})[u] = UsedOf(table, rest)[u] + n
            /\ v # u => UsedOf(table, rest \cup {x})[u] = UsedOf(table, rest)[u]
    <3> HIDE DEF used, later
    <3> SUFFICES ASSUME NEW u \in Upload
                 PROVE  /\ v = u => UsedOf(table, rest \cup {x})[u] = UsedOf(table, rest)[u] + n
                        /\ v # u => UsedOf(table, rest \cup {x})[u] = UsedOf(table, rest)[u]
      OBVIOUS
    <3> QED
      BY <2>1, UsedOfOneMore, SMT
  <2> QED
    BY <1>1, <2>2
<1>5. \A u \in Upload : used[u] \in Nat /\ later[u] \in Nat
  BY <1>1, UsedIsNat
<1>6. n \in Nat /\ 0 \in Nat
  BY ReservationIsNat, SMT
<1>. HIDE DEF used, later, v, n
<1>7. Cardinality(SpareOf(less, later)) <= Cardinality(SpareOf(open, used)) + n
  <2>1. PICK a \in Nat : v \in less => later[v] = a
    BY <1>5, <1>6
  <2>2. \A u \in less : used[u] \in Nat
    BY <1>5
  <2>3. \A u \in less : u # v => later[u] = used[u]
    BY <1>4
  <2>4. v \in less => later[v] = a /\ used[v] = a + n
    BY <1>4, <2>1
  <2> QED
    BY <1>6, <2>2, <2>3, <2>4, SpareGivenBack
<1>8. IsFiniteSet(less)
  BY FS_Subset
<1>9. /\ Cardinality(SpareOf(less, later)) \in Nat /\ Cardinality(SpareOf(open, used)) \in Nat
      /\ Cardinality(BytesOf(table, rest)) \in Nat
  BY <1>1, <1>8, SpareIsFinite, BytesAreFinite
<1>10. /\ ChargedOf(table, loose, open)
             = Cardinality(BytesOf(table, loose)) + Cardinality(SpareOf(open, used))
       /\ ChargedOf(other, rest, less)
             = Cardinality(BytesOf(table, rest)) + Cardinality(SpareOf(less, later))
  BY <1>2 DEF ChargedOf, used
<1>11. ChargedOf(other, rest, less) <= ChargedOf(table, loose, open)
  BY <1>3, <1>6, <1>7, <1>9, <1>10, SMT
<1> QED
  BY <1>11 DEF rest

\* An object that an open upload adds is charged as put_piece computes it.
LEMMA ChargeAdded ==
    ASSUME NEW table, NEW other, NEW loose, IsFiniteSet(loose), NEW x, x \notin loose,
           \A o \in loose : other[o].owner = table[o].owner /\ other[o].length = table[o].length,
           NEW open \in SUBSET Upload, IsFiniteSet(open), NEW v \in open,
           other[x].owner = v, NEW t \in 0 .. Length, other[x].length = t
    PROVE  ChargedOf(other, loose \cup {x}, open)
               = ChargedOf(table, loose, open)
                 + (Max({Reservation, UsedOf(table, loose)[v] + t})
                    - Max({Reservation, UsedOf(table, loose)[v]}))
<1>. DEFINE more == loose \cup {x}
            used == UsedOf(table, loose)
            later == UsedOf(other, more)
            extra == Max({Reservation, used[v] + t}) - Max({Reservation, used[v]})
<1>1. BytesOf(other, loose) = BytesOf(table, loose) /\ UsedOf(other, loose) = used
  BY UsedOfSame
<1>2. Cardinality(BytesOf(other, more)) = Cardinality(BytesOf(table, loose)) + t
  <2>1. Cardinality(BytesOf(other, more)) = Cardinality(BytesOf(other, loose)) + other[x].length
    BY BytesOfOneMore
  <2> QED
    BY <1>1, <2>1
<1>3. \A u \in Upload : /\ v = u => later[u] = used[u] + t
                        /\ v # u => later[u] = used[u]
  <2> HIDE DEF used
  <2> SUFFICES ASSUME NEW u \in Upload
               PROVE  /\ v = u => later[u] = used[u] + t
                      /\ v # u => later[u] = used[u]
    OBVIOUS
  <2>1. /\ v = u => later[u] = UsedOf(other, loose)[u] + t
        /\ v # u => later[u] = UsedOf(other, loose)[u]
    BY UsedOfOneMore, SMT
  <2> QED
    BY <1>1, <2>1
<1>4. used[v] \in Nat /\ t \in Nat
  <2>1. t \in Nat
    BY ReservationIsNat, SMT
  <2> QED
    BY <2>1, UsedIsNat
<1>. HIDE DEF later, more, used
<1>5. Cardinality(SpareOf(open, later)) + t = Cardinality(SpareOf(open, used)) + extra
  <2>1. PICK a \in Nat : a = used[v]
    BY <1>4
  <2>2. used[v] = a /\ later[v] = a + t /\ \A u \in open : u # v => later[u] = used[u]
    BY <1>3, <2>1
  <2>3. Cardinality(SpareOf(open, later)) + t
            = Cardinality(SpareOf(open, used)) + (Max({Reservation, a + t}) - Max({Reservation, a}))
    BY <1>4, <2>2, SpareConsumed, SMT
  <2> QED
    BY <2>1, <2>3
<1>6. extra \in Int
  <2>0. used[v] + t \in Nat
    BY <1>4, SMT
  <2>1. PICK a \in Nat, b \in Nat : a = used[v] /\ b = used[v] + t
    BY <1>4, <2>0
  <2>2. /\ Max({Reservation, a}) = IF Reservation <= a THEN a ELSE Reservation
        /\ Max({Reservation, b}) = IF Reservation <= b THEN b ELSE Reservation
    BY LargerOfTwo, ReservationIsNat
  <2>3. Max({Reservation, a}) \in Int /\ Max({Reservation, b}) \in Int
    BY <2>2, ReservationIsNat, SMT
  <2>4. extra = Max({Reservation, b}) - Max({Reservation, a})
    BY <2>1
  <2> QED
    BY <2>3, <2>4, SMT
<1>7. /\ Cardinality(SpareOf(open, later)) \in Nat /\ Cardinality(SpareOf(open, used)) \in Nat
      /\ Cardinality(BytesOf(table, loose)) \in Nat
  BY SpareIsFinite, BytesAreFinite
<1>8. /\ ChargedOf(table, loose, open)
            = Cardinality(BytesOf(table, loose)) + Cardinality(SpareOf(open, used))
      /\ ChargedOf(other, more, open)
            = Cardinality(BytesOf(other, more)) + Cardinality(SpareOf(open, later))
  BY DEF ChargedOf, used, later
<1>. HIDE DEF extra
<1>9. ChargedOf(other, more, open) = ChargedOf(table, loose, open) + extra
  BY <1>2, <1>4, <1>5, <1>6, <1>7, <1>8, SMT
<1> QED
  BY <1>9 DEF more, used, extra

\* An upload that is opened is charged at most its reservation.
LEMMA ChargeOpened ==
    ASSUME NEW table, NEW loose, IsFiniteSet(loose), NEW open, IsFiniteSet(open),
           NEW v, NEW more \in SUBSET (open \cup {v})
    PROVE  ChargedOf(table, loose, more) <= ChargedOf(table, loose, open) + Reservation
<1>. DEFINE used == UsedOf(table, loose)
<1>1. Cardinality(SpareOf(more, used)) <= Cardinality(SpareOf(open, used)) + Reservation
  BY SpareOpened
<1>2. IsFiniteSet(more)
  <2>1. IsFiniteSet(open \cup {v})
    BY FS_AddElement
  <2> QED
    BY <2>1, FS_Subset
<1>. HIDE DEF used
<1>3. /\ Cardinality(SpareOf(more, used)) \in Nat /\ Cardinality(SpareOf(open, used)) \in Nat
      /\ Cardinality(BytesOf(table, loose)) \in Nat
  BY <1>2, SpareIsFinite, BytesAreFinite
<1> QED
  BY <1>1, <1>3, ReservationIsNat, SMT DEF ChargedOf, used

-----------------------------------------------------------------------------
(* The limit on temporary bytes.                                           *)

Counted(o) == objects[o].state \notin {"none", "deleted"}

\* The rows in use are finitely many and never charge more than the limit.  A manifest gives up
\* its piece only once the row of the piece is deleted, so that it is not charged again.
QuotaInv ==
    /\ IsFiniteSet({o \in Object : objects[o].state # "none"})
    /\ IsFiniteSet({u \in Upload : uploads[u].live})
    /\ Charged <= MaxTemporary
    /\ \A w \in Worker : workers[w].pc = "closing" => objects[workers[w].object].state = "deleted"

\* A step leaves what the quota reads of an object.
Alike(o) ==
    /\ Counted(o)' <=> Counted(o)
    /\ objects'[o].owner = objects[o].owner /\ objects'[o].length = objects[o].length
    /\ objects'[o].state # "none" => objects[o].state # "none"

\* Apart from put_piece, a step deletes at most one object and leaves the others alike.
LEMMA RowSteps ==
    ASSUME Inv, [Next]_vars, ~\E r \in Request : PutPiece(r)
    PROVE  \E x : \A o \in Object : Alike(o) \/ (o = x /\ objects'[o].state = "deleted")
<1>0. objects \in [Object -> ObjectRow]
  BY DEF Inv, TypeOK
<1>1. ASSUME UNCHANGED objects PROVE \A o \in Object : Alike(o)
  BY <1>1 DEF Alike, Counted
<1>2. ASSUME NEW x, objects' = [objects EXCEPT ![x] = Deleted]
      PROVE  \A o \in Object : Alike(o) \/ (o = x /\ objects'[o].state = "deleted")
  BY <1>0, <1>2 DEF Alike, Counted, Deleted
<1>3. ASSUME NEW x, objects' = [objects EXCEPT ![x].located = TRUE]
      PROVE  \A o \in Object : Alike(o)
  BY <1>0, <1>3 DEF Alike, Counted, ObjectRow
<1>4. ASSUME NEW r \in Request, RequestStep(r)
      PROVE  \E x : \A o \in Object : Alike(o) \/ (o = x /\ objects'[o].state = "deleted")
  <2>1. CASE \/ Claim(r, "append") \/ Claim(r, "finish") \/ ReadTail(r) \/ CheckPieces(r)
             \/ Publish(r) \/ Fail(r) \/ Release(r) \/ Crash(r)
    BY <1>1, <2>1 DEF Claim, ReadTail, CheckPieces, Publish, Fail, Release, Crash, db
  <2>2. CASE Locate(r)
    BY <1>3, <2>2 DEF Locate
  <2>3. CASE NotWritten(r)
    BY <1>1, <1>2, <2>3 DEF NotWritten
  <2>4. CASE MarkReady(r)
    <3>1. \/ UNCHANGED objects
          \/ /\ objects[requests[r].object].state = "pending"
             /\ objects' = [objects EXCEPT ![requests[r].object].state = "ready"]
      BY <2>4 DEF MarkReady
    <3>2. ASSUME NEW x, objects[x].state = "pending",
                 objects' = [objects EXCEPT ![x].state = "ready"]
          PROVE  \A o \in Object : Alike(o)
      BY <1>0, <3>2 DEF Alike, Counted, ObjectRow
    <3> QED
      BY <1>1, <3>1, <3>2
  <2>5. CASE SaveFrontier(r)
    <3>1. ASSUME NEW o \in Object
          PROVE  objects'[o] = objects[o] \/ objects'[o] = [objects[o] EXCEPT !.expires = 0]
      BY <2>5 DEF SaveFrontier
    <3>2. ASSUME NEW o \in Object PROVE Alike(o)
      <4>1. objects[o] \in ObjectRow
        BY <1>0
      <4> QED
        BY <3>1, <4>1 DEF Alike, Counted, ObjectRow
    <3> QED
      BY <3>2
  <2> QED
    BY <1>4, <2>1, <2>2, <2>3, <2>4, <2>5 DEF RequestStep
<1>5. ASSUME NEW w \in Worker, WorkerStep(w)
      PROVE  \E x : \A o \in Object : Alike(o) \/ (o = x /\ objects'[o].state = "deleted")
  <2>1. CASE \/ DeleteOrphan(w) \/ SweepUploads(w) \/ ListGarbage(w) \/ Reclaim(w) \/ Refuse(w)
             \/ StartRemove(w) \/ ErasePiece(w) \/ CloseManifest(w) \/ DeleteUnconfirmed(w)
             \/ WorkerFails(w)
    BY <1>1, <2>1 DEF DeleteOrphan, SweepUploads, ListGarbage, Reclaim, Refuse, StartRemove, ErasePiece,
       CloseManifest, DeleteUnconfirmed, WorkerFails, db
  <2>2. CASE SettleOrphan(w) \/ SettlePiece(w)
    <3>1. objects' = [objects EXCEPT ![workers[w].object] = Deleted]
      BY <2>2 DEF SettleOrphan, SettlePiece
    <3>2. PICK x : x = workers[w].object
      OBVIOUS
    <3>3. \A o \in Object : Alike(o) \/ (o = x /\ objects'[o].state = "deleted")
      BY <1>2, <3>1, <3>2
    <3> QED
      BY <3>3, SMT
  <2>3. CASE LocateOrphan(w)
    BY <1>1, <1>3, <2>3 DEF LocateOrphan
  <2>4. CASE MarkOrphans(w)
    <3> PICK now \in Now, rows \in SUBSET Object : Marks(w, now, rows)
      BY <2>4, MarkStep
    <3>1. ASSUME NEW o \in Object
          PROVE  \/ objects'[o] = objects[o]
                 \/ Counted(o) /\ objects'[o] = [objects[o] EXCEPT !.state = "deleting"]
      BY DEF Orphan, Loose, Counted, Marks
    <3>2. ASSUME NEW o \in Object PROVE Alike(o)
      <4>1. objects[o] \in ObjectRow
        BY <1>0
      <4> QED
        BY <3>1, <4>1 DEF Alike, Counted, ObjectRow
    <3> QED
      BY <3>2
  <2> QED
    BY <1>5, <2>1, <2>2, <2>3, <2>4 DEF WorkerStep
<1>6. CASE \/ \E u \in Upload : Begin(u)
           \/ \E o \in Object : Land(o) \/ Lose(o)
           \/ \E d \in Reader : Pin(d) \/ Unpin(d)
           \/ Refer \/ Tick \/ UNCHANGED vars
  BY <1>1, <1>6 DEF Begin, Land, Lose, Pin, Unpin, Refer, Tick, vars, db
<1> QED
  BY <1>4, <1>5, <1>6 DEF Next

\* Apart from begin, no step opens an upload.
LEMMA OpenSteps ==
    ASSUME Inv, [Next]_vars, NEW u \in Upload, ~Begin(u)
    PROVE  (Open(u)' => Open(u)) /\ (uploads'[u].live => uploads[u].live)
<1>0. uploads \in [Upload -> UploadRow] /\ uploads[u] \in UploadRow
  BY DEF Inv, TypeOK
<1>1. ASSUME uploads'[u] = uploads[u] \/ uploads'[u] = NoUpload
      PROVE  (Open(u)' => Open(u)) /\ (uploads'[u].live => uploads[u].live)
  BY <1>1, FreshRows DEF Open
<1>2. ASSUME uploads[u].live, ~uploads[u].complete
      PROVE  (Open(u)' => Open(u)) /\ (uploads'[u].live => uploads[u].live)
  BY <1>2 DEF Open
<1>3. ASSUME NEW x \in Upload, Begin(x) PROVE uploads'[u] = uploads[u]
  BY <1>0, <1>3 DEF Begin
<1>4. ASSUME NEW r \in Request, RequestStep(r)
      PROVE  (Open(u)' => Open(u)) /\ (uploads'[u].live => uploads[u].live)
  <2>1. ASSUME NEW kind \in {"append", "finish"}, Claim(r, kind)
        PROVE  uploads'[u] = uploads[u] \/ (uploads[u].live /\ ~uploads[u].complete)
    <3> PICK v \in Upload, held \in Time :
           /\ uploads[v].live /\ ~uploads[v].complete
           /\ uploads' = [uploads EXCEPT ![v].epoch = r, ![v].held = held]
      BY <2>1 DEF Claim
    <3> QED
      BY <1>0
  <2>2. CASE Publish(r) \/ SaveFrontier(r)
    <3>1. Owns(r) /\ (u # requests[r].upload => uploads'[u] = uploads[u])
      BY <1>0, <2>2 DEF Publish, SaveFrontier
    <3> QED
      BY <1>1, <1>2, <3>1 DEF Owns
  <2>3. CASE Release(r)
    <3>1. \/ uploads'[u] = uploads[u]
          \/ uploads'[u] = [uploads[u] EXCEPT !.held = 0, !.epoch = Nil]
      BY <1>0, <2>3 DEF Release
    <3>2. CASE uploads'[u] = [uploads[u] EXCEPT !.held = 0, !.epoch = Nil]
      BY <1>0, <3>2 DEF Open, UploadRow
    <3> QED
      BY <1>1, <3>1, <3>2
  <2>4. CASE \/ ReadTail(r) \/ PutPiece(r) \/ Locate(r) \/ NotWritten(r) \/ MarkReady(r)
             \/ CheckPieces(r) \/ Fail(r) \/ Crash(r)
    BY <1>1, <2>4 DEF ReadTail, PutPiece, Locate, NotWritten, MarkReady, CheckPieces, Fail, Crash, db
  <2> QED
    BY <1>1, <1>2, <1>4, <2>1, <2>2, <2>3, <2>4 DEF RequestStep
<1>5. ASSUME ~\E r \in Request : RequestStep(r)
      PROVE  (Open(u)' => Open(u)) /\ (uploads'[u].live => uploads[u].live)
  <2>1. uploads'[u] = uploads[u] \/ uploads'[u] = NoUpload \/ \E x \in Upload : Begin(x)
    <3>1. CASE \/ \E o \in Object : Land(o) \/ Lose(o)
               \/ \E d \in Reader : Pin(d) \/ Unpin(d)
               \/ Refer \/ Tick \/ UNCHANGED vars
      BY <3>1 DEF Land, Lose, Pin, Unpin, Refer, Tick, vars, db
    <3>2. ASSUME NEW w \in Worker, WorkerStep(w)
          PROVE  uploads'[u] = uploads[u] \/ uploads'[u] = NoUpload
      <4>1. SweepUploads(w) => uploads'[u] = uploads[u] \/ uploads'[u] = NoUpload
        BY <1>0 DEF SweepUploads
      <4>2. SweepUploads(w) \/ UNCHANGED uploads
        BY <3>2, ZenonT(30)
           DEF WorkerStep, MarkOrphans, LocateOrphan, DeleteOrphan, SettleOrphan, ListGarbage, Reclaim, Refuse,
               StartRemove, ErasePiece, SettlePiece, CloseManifest, DeleteUnconfirmed, WorkerFails, db
      <4> QED
        BY <4>1, <4>2
    <3> QED
      BY <1>5, <3>1, <3>2 DEF Next
  <2> QED
    BY <1>1, <1>3, <2>1
<1> QED
  BY <1>4, <1>5

\* What is charged for an object after a step that adds none is what was charged before; one
\* object may be no more charged.
Settles(x) ==
    \A o \in Object :
        \/ /\ Loose(o)' <=> Loose(o)
           /\ objects'[o].owner = objects[o].owner /\ objects'[o].length = objects[o].length
        \/ o = x /\ ~Loose(o)'

\* Apart from put_piece, no step makes an object loose, and at most one ceases to be.
LEMMA LooseSteps ==
    ASSUME Inv, QuotaInv, [Next]_vars, ~\E r \in Request : PutPiece(r)
    PROVE  \E x : Settles(x)
<1>1. PICK x : \A o \in Object : Alike(o) \/ (o = x /\ objects'[o].state = "deleted")
  BY RowSteps
<1>2. ASSUME \A o \in Object : Listed(o)' <=> Listed(o)
      PROVE  Settles(x)
  BY <1>1, <1>2 DEF Settles, Alike, Loose, Counted
<1>3. ASSUME UNCHANGED objects, NEW p, \A o \in Object : o # p => (Listed(o)' <=> Listed(o)), ~Loose(p)'
      PROVE  Settles(p)
  BY <1>3 DEF Settles, Loose
<1>4. manifest \in ManifestRow
  BY DEF Inv, TypeOK
<1>5. CASE manifest' = manifest
  BY <1>2, <1>5 DEF Listed
<1>6. ASSUME NEW r \in Request, Publish(r) PROVE \E p : Settles(p)
  <2>. PICK p : p = uploads[requests[r].upload].piece
    OBVIOUS
  <2>1. /\ manifest.state # "deleting" /\ UNCHANGED objects /\ manifest'.state = "ready"
        /\ manifest'.piece = IF manifest.state = "ready" THEN manifest.piece ELSE p
    BY <1>6 DEF Publish
  <2>2. CASE manifest.state = "ready"
    BY <1>2, <2>1, <2>2 DEF Listed
  <2>3. CASE manifest.state # "ready"
    <3>1. \A o \in Object : o # p => (Listed(o)' <=> Listed(o))
      BY <2>1, <2>3 DEF Listed
    <3>2. ~Loose(p)'
      BY <2>1, <2>3 DEF Listed, Loose
    <3> QED
      BY <1>3, <2>1, <3>1, <3>2
  <2> QED
    BY <2>2, <2>3
<1>7. ASSUME NEW w \in Worker, Reclaim(w), manifest' = [manifest EXCEPT !.state = "deleting"]
      PROVE  Settles(x)
  BY <1>2, <1>4, <1>7 DEF Listed, Reclaim, Unused, ManifestRow
<1>8. ASSUME NEW w \in Worker, CloseManifest(w), manifest' # manifest PROVE \E p : Settles(p)
  <2>. PICK p : p = workers[w].object
    OBVIOUS
  <2>1. /\ manifest.piece = p /\ manifest' = [manifest EXCEPT !.state = "deleted"]
        /\ UNCHANGED objects /\ objects[p].state = "deleted"
    BY <1>8 DEF CloseManifest, QuotaInv
  <2>2. \A o \in Object : o # p => (Listed(o)' <=> Listed(o))
    BY <1>4, <2>1 DEF Listed, ManifestRow
  <2>3. ~Loose(p)'
    BY <2>1 DEF Loose
  <2> QED
    BY <1>3, <2>1, <2>2, <2>3
<1> QED
  BY <1>5, <1>6, <1>7, <1>8, ManifestSteps

LooseOnes == {o \in Object : Loose(o)}
OpenOnes == {u \in Upload : Open(u)}

\* The charge of the tables as they are, and as a step leaves them.
LEMMA ChargedIsOf ==
    /\ Charged = ChargedOf(objects, LooseOnes, OpenOnes)
    /\ Charged' = ChargedOf(objects', LooseOnes', OpenOnes')
    /\ \A u \in Upload : Physical(u) = UsedOf(objects, LooseOnes)[u]
<1>1. ASSUME NEW u
      PROVE  /\ {o \in Object : objects[o].owner = u /\ Loose(o)}
                     = {o \in LooseOnes : objects[o].owner = u}
             /\ {o \in Object : objects'[o].owner = u /\ Loose(o)'}
                     = {o \in LooseOnes' : objects'[o].owner = u}
  BY DEF LooseOnes
<1>2. \A set : Bytes(set) = BytesOf(objects, set)
  BY DEF Bytes, BytesOf
<1>3. \A u \in Upload : Physical(u) = UsedOf(objects, LooseOnes)[u]
  BY <1>1, <1>2 DEF Physical, UsedOf
<1>4. ASSUME NEW u \in Upload
      PROVE  Physical(u)' = UsedOf(objects', LooseOnes')[u]
  <2>1. Physical(u)' = Cardinality(BytesOf(objects', {o \in Object : objects'[o].owner = u /\ Loose(o)'}))
    BY DEF Physical, Bytes, BytesOf
  <2> QED
    BY <1>1, <2>1 DEF UsedOf
<1>5. Spare = SpareOf(OpenOnes, UsedOf(objects, LooseOnes))
  <2>1. ASSUME NEW b \in OpenOnes \X (1 .. Reservation)
        PROVE  b[1] \in Upload
    BY SMT DEF OpenOnes
  <2> QED
    BY <1>3, <2>1 DEF Spare, SpareOf, OpenOnes
<1>6. Spare' = SpareOf(OpenOnes', UsedOf(objects', LooseOnes'))
  <2>1. ASSUME NEW b \in OpenOnes' \X (1 .. Reservation)
        PROVE  b[1] \in Upload
    BY SMT DEF OpenOnes
  <2> QED
    BY <1>4, <2>1 DEF Spare, SpareOf, OpenOnes, Reservation
<1>7. Charged = ChargedOf(objects, LooseOnes, OpenOnes)
  BY <1>2, <1>5 DEF Charged, ChargedOf, LooseOnes
<1>8. Charged' = ChargedOf(objects', LooseOnes', OpenOnes')
  BY <1>6 DEF Charged, ChargedOf, LooseOnes, Bytes, BytesOf
<1> QED
  BY <1>3, <1>7, <1>8

\* The rows that count are finitely many.
LEMMA CountedAreFinite ==
    ASSUME QuotaInv
    PROVE  IsFiniteSet(LooseOnes) /\ IsFiniteSet(OpenOnes) /\ OpenOnes \in SUBSET Upload
<1>1. LooseOnes \in SUBSET {o \in Object : objects[o].state # "none"}
  BY DEF LooseOnes, Loose
<1>2. OpenOnes \in SUBSET {u \in Upload : uploads[u].live} /\ OpenOnes \in SUBSET Upload
  BY DEF OpenOnes, Open
<1> QED
  BY <1>1, <1>2, FS_Subset DEF QuotaInv

\* A step that adds neither an object nor an upload charges no more.
LEMMA QuietCharge ==
    ASSUME Inv, QuotaInv, NEW x, Settles(x), \A u \in Upload : Open(u)' => Open(u)
    PROVE  Charged' <= MaxTemporary
<1>1. IsFiniteSet(LooseOnes) /\ IsFiniteSet(OpenOnes) /\ OpenOnes \in SUBSET Upload
  BY CountedAreFinite
<1>2. OpenOnes' \in SUBSET OpenOnes
  BY DEF OpenOnes
<1>3. \A o \in Object : objects[o].length \in 0 .. Length
  BY DEF Inv, TypeOK, ObjectRow
<1>4. ASSUME NEW T, NEW L, NEW O, T = objects', L = LooseOnes', O = OpenOnes'
      PROVE  ChargedOf(T, L, O) <= ChargedOf(objects, LooseOnes, OpenOnes)
  <2>1. CASE x \in LooseOnes /\ x \notin L
    <3>1. L = LooseOnes \ {x} /\ x \in Object
      BY <1>4, <2>1 DEF Settles, LooseOnes
    <3>2. \A o \in LooseOnes \ {x} : T[o].owner = objects[o].owner /\ T[o].length = objects[o].length
      BY <1>4 DEF Settles, LooseOnes
    <3>3. ChargedOf(T, LooseOnes \ {x}, O) <= ChargedOf(objects, LooseOnes, OpenOnes)
      BY <1>1, <1>2, <1>3, <1>4, <2>1, <3>1, <3>2, ChargeRemoved
    <3> QED
      BY <3>1, <3>3
  <2>2. CASE x \notin LooseOnes \/ x \in L
    <3>1. L = LooseOnes
      BY <1>4, <2>2 DEF Settles, LooseOnes
    <3>2. \A o \in LooseOnes : T[o].owner = objects[o].owner /\ T[o].length = objects[o].length
      BY <1>4, <2>2, <3>1 DEF Settles, LooseOnes
    <3>3. ChargedOf(T, LooseOnes, O) <= ChargedOf(objects, LooseOnes, OpenOnes)
      BY <1>1, <1>2, <1>4, <3>2, ChargeKept
    <3> QED
      BY <3>1, <3>3
  <2> QED
    BY <2>1, <2>2
<1>5. ASSUME NEW T, NEW L, NEW O, L = LooseOnes', O = OpenOnes'
      PROVE  ChargedOf(T, L, O) \in Nat
  <2>1. L \in SUBSET LooseOnes /\ O \in SUBSET OpenOnes
    BY <1>2, <1>5 DEF Settles, LooseOnes
  <2>2. IsFiniteSet(L) /\ IsFiniteSet(O)
    BY <1>1, <2>1, FS_Subset
  <2> QED
    BY <2>2, ChargeIsNat
<1>6. Charged' <= Charged /\ Charged' \in Nat /\ Charged \in Nat
  BY <1>1, <1>4, <1>5, ChargedIsOf, ChargeIsNat
<1>7. Charged <= MaxTemporary
  BY DEF QuotaInv
<1> QED
  BY <1>6, <1>7, TimesAssumption, SMT

\* begin is charged the reservation its quota allowed for.
LEMMA BeginCharge ==
    ASSUME Inv, QuotaInv, [Next]_vars, NEW v \in Upload, Begin(v)
    PROVE  Charged' <= MaxTemporary
<1>1. IsFiniteSet(LooseOnes) /\ IsFiniteSet(OpenOnes) /\ OpenOnes \in SUBSET Upload
  BY CountedAreFinite
<1>2. uploads \in [Upload -> UploadRow] /\ UNCHANGED <<objects, manifest>>
        /\ Charged + Reservation <= MaxTemporary
  BY DEF Begin, Inv, TypeOK, Quota
<1>3. \A u \in Upload : u # v => uploads'[u] = uploads[u]
  BY <1>2 DEF Begin
<1>4. LooseOnes' = LooseOnes /\ OpenOnes' \in SUBSET (OpenOnes \cup {v})
  BY <1>2, <1>3 DEF LooseOnes, Loose, Listed, OpenOnes, Open
<1>5. ASSUME NEW O, O = OpenOnes'
      PROVE  /\ ChargedOf(objects, LooseOnes, O) <= ChargedOf(objects, LooseOnes, OpenOnes) + Reservation
             /\ ChargedOf(objects, LooseOnes, O) \in Nat
  <2>1. O \in SUBSET (OpenOnes \cup {v}) /\ IsFiniteSet(OpenOnes \cup {v})
    BY <1>1, <1>4, <1>5, FS_AddElement
  <2>2. IsFiniteSet(O)
    BY <2>1, FS_Subset
  <2> QED
    BY <1>1, <2>1, <2>2, ChargeOpened, ChargeIsNat
<1>6. Charged' <= Charged + Reservation /\ Charged' \in Nat
  BY <1>2, <1>4, <1>5, ChargedIsOf
<1>7. Charged \in Nat
  BY <1>1, ChargedIsOf, ChargeIsNat
<1> QED
  BY <1>2, <1>6, <1>7, ReservationIsNat, TimesAssumption, SMT

\* put_piece is charged what its quota allowed for.
LEMMA PutPieceCharge ==
    ASSUME Inv, QuotaInv, [Next]_vars, NEW r \in Request, PutPiece(r)
    PROVE  Charged' <= MaxTemporary
<1>. PICK v, t : v = requests[r].upload /\ t = requests[r].target
  OBVIOUS
<1>1. IsFiniteSet(LooseOnes) /\ IsFiniteSet(OpenOnes) /\ OpenOnes \in SUBSET Upload
  BY CountedAreFinite
<1>2. v \in Upload /\ t \in 0 .. Length /\ v \in OpenOnes
  <2>1. requests[r] \in RequestState /\ RequestInv(r)
    BY DEF Inv, TypeOK
  <2>2. requests[r].pc # "idle" /\ Owns(r)
    BY DEF PutPiece, Running
  <2> QED
    BY <2>1, <2>2 DEF RequestInv, RequestState, Owns, OpenOnes, Open
<1>3. PICK x \in Object :
        /\ objects[x].state = "none"
        /\ objects' = [objects EXCEPT ![x] = [state |-> "pending", owner |-> v, located |-> FALSE,
                               expires |-> uploads[v].expires, length |-> t]]
  BY DEF PutPiece
<1>4. /\ Quota(Max({Reservation, Physical(v) + t}) - Max({Reservation, Physical(v)}))
      /\ UNCHANGED <<uploads, manifest>>
  BY DEF PutPiece
<1>5. /\ objects \in [Object -> ObjectRow] /\ ManifestInv
      /\ objects'[x].state = "pending" /\ objects'[x].owner = v /\ objects'[x].length = t
      /\ \A o \in Object : o # x => objects'[o] = objects[o]
  BY <1>3 DEF Inv, TypeOK
<1>6. ~Listed(x)
  BY <1>3, <1>5, NilAssumption DEF Listed, ManifestInv, Landed
<1>7. x \notin LooseOnes /\ LooseOnes' = LooseOnes \cup {x} /\ OpenOnes' = OpenOnes
  BY <1>3, <1>4, <1>5, <1>6 DEF LooseOnes, Loose, Listed, OpenOnes, Open
<1>8. \A o \in LooseOnes : o # x /\ o \in Object
  BY <1>7 DEF LooseOnes
<1>9. ASSUME NEW T, T = objects'
      PROVE  ChargedOf(T, LooseOnes \cup {x}, OpenOnes)
                 = ChargedOf(objects, LooseOnes, OpenOnes)
                   + (Max({Reservation, UsedOf(objects, LooseOnes)[v] + t})
                      - Max({Reservation, UsedOf(objects, LooseOnes)[v]}))
  <2>1. /\ \A o \in LooseOnes : T[o].owner = objects[o].owner /\ T[o].length = objects[o].length
        /\ T[x].owner = v /\ T[x].length = t
    BY <1>5, <1>8, <1>9
  <2> QED
    BY <1>1, <1>2, <1>7, <2>1, ChargeAdded, SMT
<1>10. Charged' = Charged + (Max({Reservation, Physical(v) + t}) - Max({Reservation, Physical(v)}))
  BY <1>2, <1>7, <1>9, ChargedIsOf
<1> QED
  BY <1>4, <1>10 DEF Quota

\* A collector that closes a manifest has deleted its piece.
LEMMA NextClosing ==
    ASSUME Inv, QuotaInv, [Next]_vars, NEW w \in Worker, workers'[w].pc = "closing"
    PROVE  objects'[workers'[w].object].state = "deleted"
<1>0. workers \in [Worker -> WorkerState] /\ workers[w] \in WorkerState /\ WorkerInv(w)
  BY DEF Inv, TypeOK
<1>. PICK p : p = workers[w].object
  OBVIOUS
<1>1. ASSUME p \in Object, objects[p].state = "deleted"
      PROVE  objects'[p].state = "deleted"
  <2>1. CASE \E r \in Request : PutPiece(r)
    <3> PICK r \in Request : PutPiece(r)
      BY <2>1
    <3> PICK x \in Object :
           /\ objects[x].state = "none"
           /\ objects' = [objects EXCEPT ![x] =
                            [state |-> "pending", owner |-> requests[r].upload, located |-> FALSE,
                             expires |-> uploads[requests[r].upload].expires,
                             length |-> requests[r].target]]
      BY DEF PutPiece
    <3> QED
      BY <1>1 DEF Inv, TypeOK
  <2>2. CASE ~\E r \in Request : PutPiece(r)
    <3>1. Alike(p) \/ objects'[p].state = "deleted"
      BY <1>1, <2>2, RowSteps
    <3>2. objects'[p].state # "none"
      BY <1>1, NextObjects DEF Evolves
    <3> QED
      BY <1>1, <3>1, <3>2 DEF Alike, Counted
  <2> QED
    BY <2>1, <2>2
<1>2. workers[w].pc \in {"erasing", "erased", "closing"} => p \in Object
  BY <1>0 DEF WorkerInv, Collecting, WorkerState
<1>3. CASE workers'[w] = workers[w]
  BY <1>1, <1>2, <1>3 DEF QuotaInv
<1>4. CASE ErasePiece(w)
  <2>1. workers' = [workers EXCEPT ![w].pc = workers'[w].pc] /\ workers[w].pc = "erasing"
    BY <1>0, <1>4 DEF ErasePiece, Worked
  <2>2. workers'[w].object = p /\ objects[p].state = "deleted"
    BY <1>0, <1>4 DEF ErasePiece, Worked, WorkerState
  <2> QED
    BY <1>1, <1>2, <2>1, <2>2
<1>5. CASE SettlePiece(w)
  <2>1. workers'[w].object = p /\ p \in Object /\ objects' = [objects EXCEPT ![p] = Deleted]
    BY <1>0, <1>2, <1>5 DEF SettlePiece, Worked, WorkerState
  <2> QED
    BY <2>1 DEF Inv, TypeOK, Deleted
<1>6. ASSUME \/ MarkOrphans(w) \/ LocateOrphan(w) \/ DeleteOrphan(w) \/ SettleOrphan(w)
             \/ SweepUploads(w) \/ ListGarbage(w) \/ Reclaim(w) \/ Refuse(w) \/ StartRemove(w)
             \/ CloseManifest(w) \/ DeleteUnconfirmed(w) \/ WorkerFails(w)
      PROVE  FALSE
  <2>1. CASE MarkOrphans(w)
    <3> PICK now \in Now, rows \in SUBSET Object : Marks(w, now, rows)
      BY <2>1, MarkStep
    <3>1. workers'[w] = [pc |-> "cleaning", now |-> now, rows |-> rows, object |-> Nil,
                         known |-> {x \in rows : objects[x].located}]
      BY <1>0 DEF Marks
    <3>2. workers'[w].pc = "cleaning"
      BY <3>1, SMT
    <3> QED
      BY <3>2
  <2>2. CASE LocateOrphan(w)
    <3> PICK x \in workers[w].rows :
           LET found == x \in workers[w].known \/ Recovered(x)
           IN  workers' = [workers EXCEPT
                                ![w].rows = @ \ {x}, ![w].known = @ \ {x},
                                ![w].pc = IF found THEN "deleting" ELSE "cleaning",
                                ![w].object = IF found THEN x ELSE Nil]
      BY <2>2 DEF LocateOrphan
    <3>1. workers'[w].pc \in {"cleaning", "deleting"}
      BY <1>0 DEF WorkerState
    <3> QED
      BY <3>1
  <2>3. CASE DeleteOrphan(w) \/ SettleOrphan(w) \/ SweepUploads(w) \/ Reclaim(w) \/ DeleteUnconfirmed(w)
    BY <1>0, <2>3, SMT DEF DeleteOrphan, SettleOrphan, SweepUploads, Reclaim, DeleteUnconfirmed,
       Worked, WorkerState
  <2>4. CASE ListGarbage(w)
    BY <2>4, ListStep, SMT DEF Inv, NoWork
  <2>5. CASE Refuse(w) \/ StartRemove(w) \/ CloseManifest(w) \/ WorkerFails(w)
    BY <1>0, <2>5, SMT DEF Refuse, StartRemove, CloseManifest, WorkerFails, NoWork, WorkerState
  <2> QED
    BY <1>6, <2>1, <2>2, <2>3, <2>4, <2>5
<1> QED
  BY <1>3, <1>4, <1>5, <1>6, OtherWorkers DEF WorkerStep

\* A step uses at most one row more.
LEMMA NextFinite ==
    ASSUME Inv, QuotaInv, [Next]_vars
    PROVE  /\ IsFiniteSet({o \in Object : objects[o].state # "none"})'
           /\ IsFiniteSet({u \in Upload : uploads[u].live})'
<1>. DEFINE rows == {o \in Object : objects[o].state # "none"}
            lives == {u \in Upload : uploads[u].live}
<1>0. IsFiniteSet(rows) /\ IsFiniteSet(lives)
  BY DEF QuotaInv
<1>1. PICK x : \A o \in Object : objects'[o].state # "none" => objects[o].state # "none" \/ o = x
  <2>1. CASE \E r \in Request : PutPiece(r)
    <3> PICK r \in Request : PutPiece(r)
      BY <2>1
    <3> PICK p \in Object :
           objects' = [objects EXCEPT ![p] =
                         [state |-> "pending", owner |-> requests[r].upload, located |-> FALSE,
                          expires |-> uploads[requests[r].upload].expires,
                          length |-> requests[r].target]]
      BY DEF PutPiece
    <3>1. \A o \in Object : objects'[o].state # "none" => objects[o].state # "none" \/ o = p
      BY DEF Inv, TypeOK
    <3> QED
      BY <3>1, SMT
  <2>2. CASE ~\E r \in Request : PutPiece(r)
    <3> PICK p : \A o \in Object : Alike(o) \/ (o = p /\ objects'[o].state = "deleted")
      BY <2>2, RowSteps
    <3>1. \A o \in Object : objects'[o].state # "none" => objects[o].state # "none" \/ o = p
      BY DEF Alike
    <3> QED
      BY <3>1, SMT
  <2> QED
    BY <2>1, <2>2
<1>2. PICK v : \A u \in Upload : uploads'[u].live => uploads[u].live \/ u = v
  <2>1. CASE \E z \in Upload : Begin(z)
    <3> PICK z \in Upload : Begin(z)
      BY <2>1
    <3>1. \A u \in Upload : u # z => uploads'[u] = uploads[u]
      BY DEF Begin, Inv, TypeOK
    <3>2. \A u \in Upload : uploads'[u].live => uploads[u].live \/ u = z
      BY <3>1
    <3> QED
      BY <3>2, SMT
  <2>2. CASE ~\E z \in Upload : Begin(z)
    <3>1. \A u \in Upload : uploads'[u].live => uploads[u].live
      BY <2>2, OpenSteps
    <3> QED
      BY <3>1
  <2> QED
    BY <2>1, <2>2
<1>3. {o \in Object : objects'[o].state # "none"} \in SUBSET (rows \cup {x})
  BY <1>1
<1>4. {u \in Upload : uploads'[u].live} \in SUBSET (lives \cup {v})
  BY <1>2
<1>5. IsFiniteSet(rows \cup {x}) /\ IsFiniteSet(lives \cup {v})
  BY <1>0, FS_AddElement
<1> QED
  BY <1>3, <1>4, <1>5, FS_Subset

\* Every step keeps what is charged within the limit.
LEMMA NextQuota ==
    ASSUME Inv, QuotaInv, [Next]_vars
    PROVE  QuotaInv'
<1>1. (\E v \in Upload : Begin(v)) => Charged' <= MaxTemporary
  BY BeginCharge
<1>2. (\E r \in Request : PutPiece(r)) => Charged' <= MaxTemporary
  BY PutPieceCharge
<1>3. ASSUME ~(\E v \in Upload : Begin(v)), ~\E r \in Request : PutPiece(r)
      PROVE  Charged' <= MaxTemporary
  <2>1. PICK x : Settles(x)
    BY <1>3, LooseSteps
  <2>2. \A u \in Upload : Open(u)' => Open(u)
    BY <1>3, OpenSteps
  <2> QED
    BY <2>1, <2>2, QuietCharge
<1>4. Charged' <= MaxTemporary
  BY <1>1, <1>2, <1>3
<1> QED
  BY <1>4, NextFinite, NextClosing DEF QuotaInv

\* Nothing is charged initially.
LEMMA InitQuota == Init => QuotaInv
<1> SUFFICES ASSUME Init PROVE QuotaInv
  OBVIOUS
<1>1. {o \in Object : objects[o].state # "none"} = {} /\ {u \in Upload : uploads[u].live} = {}
  BY DEF Init, NoObject, NoUpload
<1>2. LooseOnes = {} /\ OpenOnes = {}
  BY DEF Init, NoObject, NoUpload, LooseOnes, Loose, OpenOnes, Open
<1>3. IsFiniteSet({}) /\ Cardinality({}) = 0
  BY FS_EmptySet
<1>4. BytesOf(objects, {}) = {} /\ \A used : SpareOf({}, used) = {}
  BY SMT DEF BytesOf, SpareOf
<1>5. Charged = 0 + 0
  BY <1>2, <1>3, <1>4, ChargedIsOf DEF ChargedOf
<1>6. Charged <= MaxTemporary
  BY <1>5, TimesAssumption, SMT
<1>7. \A w \in Worker : workers[w].pc # "closing"
  BY DEF Init, NoWork
<1> QED
  BY <1>1, <1>3, <1>6, <1>7 DEF QuotaInv

\* The charge of the whole store is within the limit in every reachable state.
THEOREM QuotaInvariance == Spec => []QuotaInv
<1>1. Inv /\ QuotaInv /\ [Next]_vars => QuotaInv'
  BY NextQuota
<1> QED
  BY <1>1, InitQuota, Invariance, PTL DEF Spec

\* The bytes written or being written outside a manifest stay within the configured limit,
\* however many uploads, retries, failed writes and collectors there are and however stale
\* their clocks.
THEOREM TemporaryIsAlwaysBounded == Spec => []TemporaryIsBounded
<1>1. ASSUME Inv, QuotaInv PROVE TemporaryIsBounded
  <2>. DEFINE bytes == {o \in stored \cup (inflight \ fenced) : ~Listed(o)}
  <2>1. bytes \in SUBSET LooseOnes
    BY <1>1 DEF Inv, TypeOK, ObjectInv, Gone, LooseOnes, Loose
  <2>2. IsFiniteSet(LooseOnes) /\ IsFiniteSet(OpenOnes)
    BY <1>1, CountedAreFinite
  <2> HIDE DEF bytes
  <2>3. /\ Cardinality(BytesOf(objects, bytes)) <= Cardinality(BytesOf(objects, LooseOnes))
        /\ Cardinality(BytesOf(objects, LooseOnes)) \in Nat
        /\ Cardinality(SpareOf(OpenOnes, UsedOf(objects, LooseOnes))) \in Nat
    BY <2>1, <2>2, BytesOfFewer, BytesAreFinite, SpareIsFinite
  <2>4. IsFiniteSet(bytes)
    BY <2>1, <2>2, FS_Subset
  <2>5. Cardinality(BytesOf(objects, bytes)) \in Nat
    BY <2>4, BytesAreFinite
  <2>6. Charged = Cardinality(BytesOf(objects, LooseOnes))
                  + Cardinality(SpareOf(OpenOnes, UsedOf(objects, LooseOnes)))
    BY ChargedIsOf DEF ChargedOf
  <2>7. Cardinality(BytesOf(objects, bytes)) <= MaxTemporary
    BY <1>1, <2>3, <2>5, <2>6, TimesAssumption, SMT DEF QuotaInv
  <2> QED
    BY <2>7 DEF TemporaryIsBounded, Bytes, BytesOf, bytes
<1> QED
  BY <1>1, Invariance, QuotaInvariance, PTL


-----------------------------------------------------------------------------
(* A collection that stopped can continue.                                 *)

\* The deletion of the object is recorded, or it can be tried again.
Resumable(o) == objects[o].state = "deleted" \/ Addressable(o)

\* Whatever became a frontier or a document was written and located before.
SettleInv ==
    /\ \A u \in Upload : uploads[u].piece # Nil => Resumable(uploads[u].piece)
    /\ \A r \in Request :
         /\ requests[r].pc \in {"located", "ready"} =>
                objects[requests[r].object].located \/ objects[requests[r].object].state = "deleted"
         /\ requests[r].pc = "ready" => Resumable(requests[r].object)
    /\ manifest.state # "none" => Resumable(manifest.piece)
    /\ manifest.state = "deleted" => objects[manifest.piece].state = "deleted"

\* What no step takes back of an object that was located.
Advances(o) ==
    /\ objects[o].state = "deleted" => objects'[o].state = "deleted"
    /\ objects[o].located => objects'[o].located \/ objects'[o].state = "deleted"
    /\ Addressable(o) => Resumable(o)'

\* No step takes back a recorded deletion, or a coordinate before it is recorded.
LEMMA NextAdvances ==
    ASSUME Inv, [Next]_vars, NEW o \in Object
    PROVE  Advances(o)
<1>0. objects \in [Object -> ObjectRow] /\ objects[o] \in ObjectRow /\ ObjectInv(o)
  BY DEF Inv, TypeOK
<1>1. ASSUME \/ objects'[o] = objects[o]
             \/ objects'[o] = Deleted
             \/ objects'[o] = [objects[o] EXCEPT !.located = TRUE]
             \/ objects'[o] = [objects[o] EXCEPT !.expires = 0]
             \/ /\ objects[o].state \notin {"none", "deleted"}
                /\ \E state \in {"ready", "deleting"} :
                       objects'[o] = [objects[o] EXCEPT !.state = state]
             \/ objects[o].state = "none"
      PROVE  Advances(o)
  <2>1. CASE objects'[o] = objects[o]
    BY <2>1 DEF Advances, Resumable, Addressable
  <2>2. CASE objects'[o] = Deleted
    <3>1. objects'[o].state = "deleted"
      BY <2>2, SMT DEF Deleted
    <3> QED
      BY <3>1 DEF Advances, Resumable
  <2>3. CASE \/ objects'[o] = [objects[o] EXCEPT !.located = TRUE]
             \/ objects'[o] = [objects[o] EXCEPT !.expires = 0]
    <3>1. objects'[o].state = objects[o].state /\ (objects[o].located => objects'[o].located)
      BY <1>0, <2>3 DEF ObjectRow
    <3> QED
      BY <3>1 DEF Advances, Resumable, Addressable
  <2>4. CASE /\ objects[o].state \notin {"none", "deleted"}
             /\ \E state \in {"ready", "deleting"} :
                    objects'[o] = [objects[o] EXCEPT !.state = state]
    <3>1. objects'[o].state \in {"ready", "deleting"} /\ objects'[o].located = objects[o].located
      BY <1>0, <2>4 DEF ObjectRow
    <3> QED
      BY <2>4, <3>1 DEF Advances, Resumable, Addressable
  <2>5. CASE objects[o].state = "none"
    BY <1>0, <2>5 DEF Advances, Addressable, ObjectInv, Landed
  <2> QED
    BY <1>1, <2>1, <2>2, <2>3, <2>4, <2>5
<1>2. ASSUME NEW r \in Request, RequestStep(r)
      PROVE  Advances(o)
  <2>1. CASE \/ Claim(r, "append") \/ Claim(r, "finish") \/ ReadTail(r) \/ CheckPieces(r)
             \/ Publish(r) \/ Fail(r) \/ Release(r) \/ Crash(r)
    BY <1>1, <2>1 DEF Claim, ReadTail, CheckPieces, Publish, Fail, Release, Crash, db
  <2>2. CASE PutPiece(r)
    BY <1>0, <1>1, <2>2, ZenonT(30) DEF PutPiece
  <2>3. CASE Locate(r)
    BY <1>0, <1>1, <2>3 DEF Locate
  <2>4. CASE NotWritten(r)
    BY <1>0, <1>1, <2>4 DEF NotWritten
  <2>5. CASE MarkReady(r)
    BY <1>0, <1>1, <2>5 DEF MarkReady
  <2>6. CASE SaveFrontier(r)
    BY <1>0, <1>1, <2>6 DEF SaveFrontier
  <2> QED
    BY <1>2, <2>1, <2>2, <2>3, <2>4, <2>5, <2>6 DEF RequestStep
<1>3. ASSUME NEW w \in Worker, WorkerStep(w)
      PROVE  Advances(o)
  <2>1. CASE \/ DeleteOrphan(w) \/ SweepUploads(w) \/ ListGarbage(w) \/ Reclaim(w) \/ Refuse(w)
             \/ StartRemove(w) \/ ErasePiece(w) \/ CloseManifest(w) \/ DeleteUnconfirmed(w)
             \/ WorkerFails(w)
    BY <1>1, <2>1 DEF DeleteOrphan, SweepUploads, ListGarbage, Reclaim, Refuse, StartRemove,
       ErasePiece, CloseManifest, DeleteUnconfirmed, WorkerFails, db
  <2>2. CASE SettleOrphan(w) \/ SettlePiece(w)
    BY <1>0, <1>1, <2>2 DEF SettleOrphan, SettlePiece
  <2>3. CASE LocateOrphan(w)
    BY <1>0, <1>1, <2>3 DEF LocateOrphan
  <2>4. CASE MarkOrphans(w)
    <3> PICK now \in Now, rows \in SUBSET Object : Marks(w, now, rows)
      BY <2>4, MarkStep
    <3>1. \/ objects'[o] = objects[o]
          \/ /\ objects[o].state \notin {"none", "deleted"}
             /\ objects'[o] = [objects[o] EXCEPT !.state = "deleting"]
      BY DEF Marks, Orphan, Loose
    <3> QED
      BY <1>1, <3>1
  <2> QED
    BY <1>3, <2>1, <2>2, <2>3, <2>4 DEF WorkerStep
<1>4. CASE \/ \E u \in Upload : Begin(u)
           \/ \E x \in Object : Land(x) \/ Lose(x)
           \/ \E d \in Reader : Pin(d) \/ Unpin(d)
           \/ Refer \/ Tick \/ UNCHANGED vars
  BY <1>1, <1>4 DEF Begin, Land, Lose, Pin, Unpin, Refer, Tick, vars, db
<1> QED
  BY <1>2, <1>3, <1>4 DEF Next

\* Only its own steps bring a request to the state in which its object is located or ready.
LEMMA LocatedSteps ==
    ASSUME Inv, [Next]_vars, NEW r \in Request, requests'[r].pc \in {"located", "ready"}
    PROVE  requests'[r] = requests[r] \/ Locate(r) \/ MarkReady(r)
<1>0. requests \in [Request -> RequestState] /\ requests[r] \in RequestState
  BY DEF Inv, TypeOK
<1>1. ASSUME NEW kind \in {"append", "finish"}, Claim(r, kind)
      PROVE  FALSE
  <2> PICK v \in Upload, now \in Now, held \in Time, t \in 0 .. Length :
         Claims(r, kind, v, now, held, t)
    BY <1>1, ClaimStep DEF Inv
  <2>1. requests'[r].pc = kind
    BY <1>0, SMT DEF Claims
  <2> QED
    BY <2>1
<1>2. CASE PutPiece(r)
  <2>1. requests'[r].pc = "writing"
    BY <1>0, <1>2, SMT DEF PutPiece, RequestState
  <2> QED
    BY <2>1
<1>3. CASE ReadTail(r) \/ CheckPieces(r) \/ NotWritten(r) \/ Publish(r) \/ Fail(r)
  <2>1. requests'[r].pc \in {"buffered", "checked", "release"}
    BY <1>0, <1>3, SMT DEF ReadTail, CheckPieces, NotWritten, Publish, Fail, At, Ends, RequestState
  <2> QED
    BY <2>1
<1>4. CASE SaveFrontier(r) \/ Release(r) \/ Crash(r)
  <2>1. requests'[r] = Idle
    BY <1>0, <1>4 DEF SaveFrontier, Release, Crash
  <2> QED
    BY <2>1, SMT DEF Idle
<1> QED
  BY <1>1, <1>2, <1>3, <1>4, OtherRequests DEF RequestStep

\* Every step keeps frontiers and documents resumable.
LEMMA NextSettle ==
    ASSUME Inv, QuotaInv, SettleInv, [Next]_vars
    PROVE  SettleInv'
<1>0. /\ \A o \in Object : objects[o].state = "deleted" => objects'[o].state = "deleted"
      /\ \A o \in Object : objects[o].located =>
             objects'[o].located \/ objects'[o].state = "deleted"
      /\ \A o \in Object : Resumable(o) => Resumable(o)'
  BY NextAdvances DEF Advances, Resumable
<1>1. ASSUME NEW r \in Request, requests[r].pc \in {"writing", "located", "ready"}
      PROVE  requests[r].object \in Object /\ objects[requests[r].object].state # "none"
  BY <1>1 DEF Inv, RequestInv, TypeOK, RequestState
<1>2. ASSUME NEW u \in Upload, uploads'[u].piece # Nil
      PROVE  Resumable(uploads[u].piece)'
  <2>1. CASE uploads'[u].piece = uploads[u].piece
    <3>1. uploads[u].piece \in Object /\ Resumable(uploads[u].piece)
      BY <1>2, <2>1 DEF SettleInv, Inv, TypeOK, UploadRow
    <3> QED
      BY <1>0, <2>1, <3>1 DEF Resumable, Addressable
  <2>2. ASSUME NEW r \in Request, SaveFrontier(r), uploads'[u].piece = requests[r].object
        PROVE  Resumable(uploads[u].piece)'
    <3>1. requests[r].object \in Object /\ Resumable(requests[r].object)
      BY <1>1, <2>2 DEF SaveFrontier, Running, SettleInv
    <3> QED
      BY <1>0, <2>2, <3>1 DEF Resumable, Addressable
  <2> QED
    BY <1>2, <2>1, <2>2, PieceSteps
<1>3. ASSUME NEW r \in Request, requests'[r].pc \in {"located", "ready"}
      PROVE  /\ objects'[requests'[r].object].located \/ objects'[requests'[r].object].state = "deleted"
             /\ requests'[r].pc = "ready" => Resumable(requests[r].object)'
  <2>0. requests \in [Request -> RequestState] /\ objects \in [Object -> ObjectRow]
    BY DEF Inv, TypeOK
  <2>1. CASE requests'[r] = requests[r]
    <3>1. requests[r].object \in Object
      BY <1>1, <1>3, <2>1
    <3> QED
      BY <1>0, <1>3, <2>1, <3>1 DEF SettleInv, Resumable, Addressable
  <2>2. CASE Locate(r)
    <3>1. requests[r].object \in Object
      BY <1>1, <2>2 DEF Locate, Running
    <3>2. requests'[r].object = requests[r].object /\ requests'[r].pc = "located"
      BY <2>0, <2>2, SMT DEF Locate, At, RequestState
    <3>3. objects'[requests[r].object].located
      BY <2>0, <2>2, <3>1 DEF Locate, ObjectRow
    <3> QED
      BY <3>2, <3>3
  <2>3. CASE MarkReady(r)
    <3>. PICK o : o = requests[r].object
      OBVIOUS
    <3>1. /\ o \in Object /\ objects[o] \in ObjectRow /\ objects[o].state # "none"
          /\ objects[o].located \/ objects[o].state = "deleted"
      BY <1>1, <2>0, <2>3 DEF MarkReady, Running, SettleInv
    <3>2. requests'[r].object = o
      BY <2>0, <2>3, SMT DEF MarkReady, At, RequestState
    <3>3. objects' = IF objects[o].state = "pending"
                     THEN [objects EXCEPT ![o].state = "ready"] ELSE objects
      BY <2>3 DEF MarkReady
    <3>4. CASE objects[o].state = "pending"
      <4>1. objects'[o].state = "ready" /\ objects'[o].located
        BY <2>0, <3>1, <3>3, <3>4, SMT DEF ObjectRow
      <4> QED
        BY <3>2, <4>1 DEF Resumable, Addressable
    <3>5. CASE objects[o].state # "pending"
      BY <3>1, <3>2, <3>3, <3>5 DEF Resumable, Addressable, ObjectRow
    <3> QED
      BY <3>4, <3>5
  <2> QED
    BY <1>3, <2>1, <2>2, <2>3, LocatedSteps
<1>4. ASSUME manifest'.state # "none"
      PROVE  Resumable(manifest.piece)'
  <2>0. manifest'.piece # Nil
    BY <1>4, NextManifest DEF ManifestInv
  <2>1. CASE manifest'.piece = manifest.piece /\ manifest.state # "none"
    <3>1. manifest.piece \in Object /\ Resumable(manifest.piece)
      BY <2>1 DEF SettleInv, Inv, ManifestInv, TypeOK, ManifestRow
    <3> QED
      BY <1>0, <2>1, <3>1 DEF Resumable, Addressable
  <2>2. ASSUME NEW r \in Request, Publish(r), manifest'.piece = uploads[requests[r].upload].piece
        PROVE  Resumable(manifest.piece)'
    <3>1. requests[r].upload \in Upload
      BY <2>2 DEF Publish, Running, Inv, RequestInv, TypeOK, RequestState
    <3>2. manifest'.piece \in Object /\ Resumable(uploads[requests[r].upload].piece)
      BY <2>0, <2>2, <3>1 DEF SettleInv, Inv, TypeOK, UploadRow
    <3> QED
      BY <1>0, <2>2, <3>2 DEF Resumable, Addressable
  <2> QED
    BY <1>4, <2>1, <2>2, DocumentSteps
<1>5. ASSUME manifest'.state = "deleted"
      PROVE  objects'[manifest'.piece].state = "deleted"
  <2>0. manifest \in ManifestRow
    BY DEF Inv, TypeOK
  <2>1. CASE manifest' = manifest
    <3>1. manifest.piece \in Object /\ objects[manifest.piece].state = "deleted"
      BY <1>5, <2>0, <2>1 DEF SettleInv, Inv, ManifestInv, ManifestRow
    <3> QED
      BY <1>0, <2>1, <3>1
  <2>2. ASSUME NEW w \in Worker, CloseManifest(w), manifest' # manifest
        PROVE  objects'[manifest'.piece].state = "deleted"
    <3>1. manifest'.piece = workers[w].object /\ workers[w].pc = "closing" /\ UNCHANGED objects
      BY <2>0, <2>2 DEF CloseManifest, ManifestRow
    <3> QED
      BY <3>1 DEF QuotaInv
  <2>3. ASSUME NEW r \in Request, Publish(r)
        PROVE  manifest'.state = "ready"
    BY <2>3 DEF Publish
  <2>4. ASSUME manifest' = [manifest EXCEPT !.state = "deleting"]
        PROVE  manifest'.state = "deleting"
    BY <2>0, <2>4 DEF ManifestRow
  <2> QED
    BY <1>5, <2>1, <2>2, <2>3, <2>4, ManifestSteps
<1> QED
  BY <1>2, <1>3, <1>4, <1>5 DEF SettleInv

\* Wherever a collection stops and however many run at once, its manifest can be taken up
\* again: the deletion of the piece is recorded or can be tried again, and the manifest is
\* closed only after it is recorded.
THEOREM CollectionCanAlwaysContinue == Spec => []CollectionCanContinue
<1>1. ASSUME Init PROVE SettleInv
  <2>1. \A u \in Upload : uploads[u].piece = Nil
    BY <1>1, FreshRows DEF Init
  <2>2. \A r \in Request : requests[r].pc = "idle"
    BY <1>1 DEF Init, Idle
  <2>3. manifest.state = "none"
    BY <1>1 DEF Init
  <2> QED
    BY <2>1, <2>2, <2>3 DEF SettleInv
<1>2. Inv /\ QuotaInv /\ SettleInv /\ [Next]_vars => SettleInv'
  BY NextSettle
<1>3. SettleInv => CollectionCanContinue
  BY DEF SettleInv, CollectionCanContinue, Resumable
<1> QED
  BY <1>1, <1>2, <1>3, Invariance, QuotaInvariance, PTL DEF Spec
=============================================================================
