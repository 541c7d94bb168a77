---------------------------- MODULE ContentStore ----------------------------
(***************************************************************************)
(* The content store: resumable uploads, the objects they write to a       *)
(* storage provider, the manifest that publishes one artifact, readers'    *)
(* pins, and the two collectors (of orphan objects, of unused manifests).  *)
(* PostgreSQL rows and provider bytes are separate states; every action is *)
(* one transaction or one provider call, and a fault may stop its caller   *)
(* after any of them.                                                      *)
(*                                                                         *)
(* All uploads are of one artifact (same class, digest and length), so     *)
(* there is one manifest row.  The artifact is smaller than a chunk: the   *)
(* frontier of an upload is one object, rewritten by every append.         *)
(* Installer inspection and storage generations are left out.              *)
(***************************************************************************)
EXTENDS Integers, FiniteSets, FiniteSetsExt

CONSTANTS Upload,       \* upload rows (actor and operation)
          Object,       \* object ids: random, so each is used once
          Request,      \* append and finish calls in flight; also lease epochs
          Reader,       \* holders of pins
          Worker,       \* runs of clean_orphans and of the manifest collection
          Nil,          \* SQL NULL
          Length,       \* length of the artifact
          Retention, PinTime,   \* retention of an upload, lifetime of a pin
          Transfer,     \* the longest lease: the upload budget, rounded up to whole seconds
          MaxTemporary, MaxUploads,       \* the configured limits
          Page,         \* rows a collector takes in one run (128 in the code)
          Lag,          \* how old a caller's `now` may be when its transaction commits
          Backends,     \* provider kinds to consider
          MaxTime       \* bound on the clock

ASSUME TimesAssumption ==
    /\ Length \in Nat \ {0} /\ Retention \in Nat \ {0} /\ Transfer \in Nat \ {0}
    /\ PinTime \in Nat \ {0} /\ Lag \in Nat /\ MaxTime \in Nat
    /\ MaxTemporary \in Nat /\ MaxUploads \in Nat /\ Page \in Nat \ {0}
ASSUME BackendsAssumption == Backends \subseteq {"volume", "s3"}
ASSUME NilAssumption == Nil \notin Object \cup Request \cup Upload

VARIABLES backend,      \* the configured provider
          clock,        \* seconds
          uploads,      \* mdm_content.uploads
          objects,      \* mdm_content.objects
          manifest,     \* mdm_content.manifests
          pins,         \* mdm_content.pins, with the document their holder read
          referenced,   \* an unarchived resource names the artifact
          stored,       \* objects whose bytes the provider holds
          inflight,     \* writes issued that may still reach the provider
          fenced,       \* volume: the lock file carries the deletion marker
          requests,     \* progress of each append or finish
          workers,      \* progress of each collector
          overdue       \* history: objects that were the frontier of an upload when a request
                        \* claimed it, although the upload had expired by then

db == <<uploads, objects, manifest, pins>>
provider == <<stored, inflight, fenced>>
env == <<backend, clock, referenced, overdue>>
vars == <<env, db, provider, requests, workers>>

Time == 0 .. MaxTime
UploadRow == [live: BOOLEAN, offset: 0 .. Length, piece: Object \cup {Nil}, complete: BOOLEAN,
              expires: Time, epoch: Request \cup {Nil}, held: Time]
ObjectRow == [state: {"none", "pending", "ready", "deleting", "deleted"}, owner: Upload \cup {Nil},
              located: BOOLEAN, expires: Time, length: 0 .. Length]
ManifestRow == [state: {"none", "ready", "deleting", "deleted"}, piece: Object \cup {Nil},
                expires: Time]
PinRow == [live: BOOLEAN, expires: Time, piece: Object \cup {Nil}]
RequestState == [pc: {"idle", "append", "buffered", "finish", "writing", "located", "ready",
                      "checked", "release"},
                 upload: Upload \cup {Nil}, object: Object \cup {Nil}, target: 0 .. Length, held: Time]
WorkerState == [pc: {"idle", "cleaning", "deleting", "settling", "swept", "listed",
                     "removing", "erasing", "erased", "closing"},
                now: Time, rows: SUBSET Object, known: SUBSET Object, object: Object \cup {Nil}]

TypeOK ==
    /\ backend \in Backends /\ clock \in 0 .. MaxTime
    /\ referenced \in BOOLEAN
    /\ uploads \in [Upload -> UploadRow] /\ objects \in [Object -> ObjectRow]
    /\ manifest \in ManifestRow /\ pins \in [Reader -> PinRow]
    /\ stored \subseteq Object /\ inflight \subseteq Object /\ fenced \subseteq Object
    /\ requests \in [Request -> RequestState] /\ workers \in [Worker -> WorkerState]
    /\ overdue \subseteq Object

NoUpload == [live |-> FALSE, offset |-> 0, piece |-> Nil, complete |-> FALSE,
             expires |-> 0, epoch |-> Nil, held |-> 0]
Opened(expires) == [live |-> TRUE, offset |-> 0, piece |-> Nil, complete |-> FALSE,
                    expires |-> expires, epoch |-> Nil, held |-> 0]
NoObject == [state |-> "none", owner |-> Nil, located |-> FALSE, expires |-> 0, length |-> 0]
NoPin == [live |-> FALSE, expires |-> 0, piece |-> Nil]
Idle == [pc |-> "idle", upload |-> Nil, object |-> Nil, target |-> 0, held |-> 0]
NoWork == [pc |-> "idle", now |-> 0, rows |-> {}, known |-> {}, object |-> Nil]

\* The other columns of a deleted row are not read any more.
Deleted == [state |-> "deleted", owner |-> Nil, located |-> FALSE, expires |-> 0, length |-> 0]

Init ==
    /\ backend \in Backends /\ clock = 0 /\ referenced = FALSE
    /\ uploads = [u \in Upload |-> NoUpload]
    /\ objects = [o \in Object |-> NoObject]
    /\ manifest = [state |-> "none", piece |-> Nil, expires |-> 0]
    /\ pins = [d \in Reader |-> NoPin]
    /\ stored = {} /\ inflight = {} /\ fenced = {}
    /\ requests = [r \in Request |-> Idle]
    /\ workers = [w \in Worker |-> NoWork]
    /\ overdue = {}

-----------------------------------------------------------------------------
(* The predicates of the SQL.                                              *)

\* What a caller's clock read may have returned when its first transaction commits: callers
\* read the clock and then wait for admission, and a mirror for its origin too.
Now == {n \in 0 .. clock : clock - n <= Lag}

\* A manifest that is not deleted lists the object.
Listed(o) == manifest.state \in {"ready", "deleting"} /\ manifest.piece = o

\* An object that still counts: not deleted and in no manifest.
Loose(o) == objects[o].state \notin {"none", "deleted"} /\ ~Listed(o)

\* The bytes of some objects, one by one; a sum of lengths is their number.
Bytes(set) == {b \in set \X (1 .. Length) : b[2] <= objects[b[1]].length}

Physical(u) == Cardinality(Bytes({o \in Object : objects[o].owner = u /\ Loose(o)}))

\* protected::reservation: the content and one rewrite of its tail.
Reservation == 2 * Length

Open(u) == uploads[u].live /\ (~uploads[u].complete \/ uploads[u].epoch # Nil)

\* What open and leased uploads have reserved and not used, byte by byte.
Spare == {b \in {u \in Upload : Open(u)} \X (1 .. Reservation) : b[2] > Physical(b[1])}

\* An open or leased upload is charged its reservation, or more if it stored more; other
\* bytes outside a manifest are charged as they are.
Charged == Cardinality(Bytes({o \in Object : Loose(o)})) + Cardinality(Spare)

\* Mutant of Quota: the bytes the caller is about to add are left out.
QuotaSpent(extra) == Charged <= MaxTemporary

Quota(extra) == Charged + extra <= MaxTemporary

\* The lease of r on its upload is still the one the row names.
Owns(r) ==
    LET row == uploads[requests[r].upload]
    IN  row.live /\ row.epoch = r /\ ~row.complete

Pinned == \E d \in Reader : pins[d].live /\ pins[d].expires > clock

\* Mutant of Orphan: a lease that is still held does not protect the objects.
OrphanHeld(o, now) ==
    LET row == uploads[objects[o].owner]
    IN  /\ Loose(o)
        /\ objects[o].expires <= now
        /\ ~(/\ row.live
             /\ row.expires > now /\ (row.piece = o \/ ~objects[o].located))

\* What clean_orphans selects.
Orphan(o, now) ==
    LET row == uploads[objects[o].owner]
    IN  /\ Loose(o)
        /\ objects[o].expires <= now
        /\ ~(/\ row.live
             /\ \/ row.held > now
                \/ row.expires > now /\ (row.piece = o \/ ~objects[o].located))

-----------------------------------------------------------------------------
(* Uploads.  begin and append first run clean_orphans, as a Worker below.  *)

\* begin: a new row; an existing one is returned unchanged or refused.
Begin(u) ==
    /\ ~uploads[u].live /\ clock + Retention <= MaxTime
    /\ Quota(Reservation)
    /\ \E now \in Now :
         /\ Cardinality({v \in Upload : /\ uploads[v].live /\ ~uploads[v].complete
                                        /\ uploads[v].expires > now}) < MaxUploads
         /\ uploads' = [uploads EXCEPT ![u] = Opened(now + Retention)]
    /\ UNCHANGED <<env, objects, manifest, pins, provider, requests, workers>>

\* claim: a fresh epoch holds the row for what is left of the caller's budget.  The expiry is
\* compared with the caller's now, the lease is counted from the database's clock.  At the last
\* offset an epoch that was not released stays.
Claim(r, kind) ==
    /\ requests[r].pc = "idle"
    /\ \E u \in Upload, now \in Now, held \in Time :
         LET row == uploads[u]
         IN  /\ clock < held /\ held <= clock + Transfer
             /\ row.live /\ row.expires > now /\ row.held <= now /\ ~row.complete
             /\ ~(row.offset = Length /\ row.epoch # Nil)
             /\ \E t \in IF kind = "append" THEN row.offset + 1 .. Length ELSE {row.offset} :
                  requests' = [requests EXCEPT ![r] =
                                 [pc |-> kind, upload |-> u, object |-> Nil, target |-> t,
                                  held |-> held]]
             /\ uploads' = [uploads EXCEPT ![u].epoch = r, ![u].held = held]
             /\ overdue' = overdue \cup (IF row.expires <= clock THEN {row.piece} \ {Nil} ELSE {})
    /\ UNCHANGED <<backend, clock, referenced, objects, manifest, pins, provider, workers>>

\* Every step below happens within the caller's budget.
Running(r, pc) == requests[r].pc = pc /\ clock < requests[r].held

At(r, pc) == requests' = [requests EXCEPT ![r].pc = pc]

\* What is left of a request is its lease.
Ends(r) == requests' = [requests EXCEPT ![r].pc = "release", ![r].target = 0, ![r].held = 0]

\* coordinate: the row still resolves.
Addressable(o) == objects[o].state \in {"ready", "deleting"} /\ objects[o].located

\* coordinate and read: the provider still has the bytes, too.
Readable(o) == Addressable(o) /\ o \in stored

\* append_claimed: the tail is read back, the body is received behind it.
ReadTail(r) ==
    LET piece == uploads[requests[r].upload].piece
    IN  /\ Running(r, "append")
        /\ piece # Nil => Readable(piece)
        /\ At(r, "buffered")
        /\ UNCHANGED <<env, db, provider, workers>>

\* put_piece: the intent is durable before the write is on its way.
PutPiece(r) ==
    LET u == requests[r].upload
        t == requests[r].target
    IN  /\ Running(r, "buffered") /\ Owns(r)
        /\ Quota(Max({Reservation, Physical(u) + t}) - Max({Reservation, Physical(u)}))
        /\ \E o \in Object :
             /\ objects[o].state = "none"
             /\ objects' = [objects EXCEPT ![o] =
                              [state |-> "pending", owner |-> u, located |-> FALSE,
                               expires |-> uploads[u].expires, length |-> t]]
             /\ inflight' = inflight \cup {o}
             /\ requests' = [requests EXCEPT ![r].pc = "writing", ![r].object = o]
        /\ UNCHANGED <<env, uploads, manifest, pins, stored, fenced, workers>>

\* The provider: a write reaches it, or never will.  A marked volume refuses it.
Land(o) ==
    /\ o \in inflight
    /\ inflight' = inflight \ {o}
    /\ stored' = IF o \in fenced THEN stored ELSE stored \cup {o}
    /\ UNCHANGED <<env, db, fenced, requests, workers>>

Lose(o) ==
    /\ o \in inflight
    /\ inflight' = inflight \ {o}
    /\ UNCHANGED <<env, db, stored, fenced, requests, workers>>

\* put_piece: the write is known, its coordinate is saved whatever the row's state.
Locate(r) ==
    /\ Running(r, "writing") /\ requests[r].object \in stored
    /\ objects' = [objects EXCEPT ![requests[r].object].located = TRUE]
    /\ At(r, "located")
    /\ UNCHANGED <<env, uploads, manifest, pins, provider, workers>>

\* put_piece: the provider call completed and proves that nothing was published.
NotWritten(r) ==
    LET o == requests[r].object
    IN  /\ Running(r, "writing") /\ backend = "s3" /\ o \notin stored \cup inflight
        /\ objects' = IF objects[o].state \in {"pending", "deleting"} /\ ~objects[o].located
                      THEN [objects EXCEPT ![o] = Deleted] ELSE objects
        /\ Ends(r)
        /\ UNCHANGED <<env, uploads, manifest, pins, provider, workers>>

\* put_piece: read back, then ready unless a collector was faster.
MarkReady(r) ==
    LET o == requests[r].object
    IN  /\ Running(r, "located") /\ o \in stored
        /\ objects' = IF objects[o].state = "pending"
                      THEN [objects EXCEPT ![o].state = "ready"] ELSE objects
        /\ At(r, "ready")
        /\ UNCHANGED <<env, uploads, manifest, pins, provider, workers>>

\* save_frontier: the new tail replaces the old one, whose objects expire at once.
SaveFrontier(r) ==
    LET u == requests[r].upload
        o == requests[r].object
    IN  /\ Running(r, "ready") /\ Owns(r)
        /\ uploads' = [uploads EXCEPT ![u].offset = requests[r].target, ![u].piece = o,
                                      ![u].held = 0, ![u].epoch = Nil]
        /\ objects' = [p \in Object |->
                         IF objects[p].owner = u /\ objects[p].state = "ready" /\ p # o
                         THEN [objects[p] EXCEPT !.expires = 0] ELSE objects[p]]
        /\ requests' = [requests EXCEPT ![r] = Idle]
        /\ UNCHANGED <<env, manifest, pins, provider, workers>>

\* finish up to check_pieces: every byte is read and hashed.
CheckPieces(r) ==
    LET row == uploads[requests[r].upload]
    IN  /\ Running(r, "finish") /\ requests[r].target = Length
        /\ Readable(row.piece)
        /\ At(r, "checked")
        /\ UNCHANGED <<env, db, provider, workers>>

\* Mutant of Publish: identical content replaces the pieces of the ready manifest.
PublishReplaces(r) ==
    LET u == requests[r].upload
    IN  /\ Running(r, "checked") /\ Owns(r) /\ manifest.state # "deleting"
        /\ manifest' = [state |-> "ready", expires |-> uploads[u].expires,
                        piece |-> uploads[u].piece]
        /\ uploads' = [uploads EXCEPT ![u].complete = TRUE]
        /\ Ends(r)
        /\ UNCHANGED <<env, objects, pins, provider, workers>>

\* finish: a ready manifest keeps its pieces, a deleted one is published again.
Publish(r) ==
    LET u == requests[r].upload
    IN  /\ Running(r, "checked") /\ Owns(r) /\ manifest.state # "deleting"
        /\ manifest' = [state |-> "ready", expires |-> uploads[u].expires,
                        piece |-> IF manifest.state = "ready" THEN manifest.piece
                                  ELSE uploads[u].piece]
        /\ uploads' = [uploads EXCEPT ![u].complete = TRUE]
        /\ Ends(r)
        /\ UNCHANGED <<env, objects, pins, provider, workers>>

\* Any error, timeout or cancellation of a claimed request.
Fail(r) ==
    /\ requests[r].pc \notin {"idle", "release"}
    /\ Ends(r)
    /\ UNCHANGED <<env, db, provider, workers>>

\* UploadLease::release: only the holder's own epoch is cleared.  The blocking writer of a
\* volume shares the lease until it has ended.
Release(r) ==
    LET u == requests[r].upload
    IN  /\ requests[r].pc = "release"
        /\ backend = "volume" => requests[r].object \notin inflight
        /\ uploads' = IF uploads[u].live /\ uploads[u].epoch = r
                      THEN [uploads EXCEPT ![u].held = 0, ![u].epoch = Nil] ELSE uploads
        /\ requests' = [requests EXCEPT ![r] = Idle]
        /\ UNCHANGED <<env, objects, manifest, pins, provider, workers>>

\* The process stops, or the release itself fails: the lease stays in the row.
Crash(r) ==
    /\ requests[r].pc # "idle"
    /\ requests' = [requests EXCEPT ![r] = Idle]
    /\ UNCHANGED <<env, db, provider, workers>>

-----------------------------------------------------------------------------
(* Readers, resources, time.                                               *)

\* pin: the manifest is read and pinned in one transaction.
Pin(d) ==
    /\ ~pins[d].live /\ manifest.state = "ready" /\ Quota(0) /\ clock + PinTime <= MaxTime
    /\ pins' = [pins EXCEPT ![d] = [live |-> TRUE, expires |-> clock + PinTime,
                                    piece |-> manifest.piece]]
    /\ UNCHANGED <<env, uploads, objects, manifest, provider, requests, workers>>

Unpin(d) ==
    /\ pins[d].live
    /\ pins' = [pins EXCEPT ![d] = NoPin]
    /\ UNCHANGED <<env, uploads, objects, manifest, provider, requests, workers>>

\* A resource version that names the artifact is created, or the last one is archived.
Refer ==
    /\ referenced' = ~referenced
    /\ UNCHANGED <<backend, clock, overdue, db, provider, requests, workers>>

Tick ==
    /\ clock < MaxTime
    /\ clock' = clock + 1
    /\ UNCHANGED <<backend, referenced, overdue, db, provider, requests, workers>>

-----------------------------------------------------------------------------
(* clean_orphans, and the collection of manifests that follows it.         *)

Worked(w, pc) == workers' = [workers EXCEPT ![w].pc = pc]

\* Bytes are removed; a volume is marked before, for good.
Erase(o) ==
    /\ stored' = stored \ {o}
    /\ fenced' = IF backend = "volume" THEN fenced \cup {o} ELSE fenced
    /\ UNCHANGED inflight

\* ORDER BY o.id LIMIT 128: ids are random, so any of the rows may come first.
Pages(set) == kSubset(Min({Page, Cardinality(set)}), set)

\* Expired pins go, a page of orphans is marked, in one transaction.
MarkOrphans(w) ==
    /\ workers[w].pc = "idle"
    /\ \E now \in Now :
         \E rows \in Pages({o \in Object : Orphan(o, now)}) :
             /\ objects' = [o \in Object |-> IF o \in rows
                              THEN [objects[o] EXCEPT !.state = "deleting"] ELSE objects[o]]
             /\ workers' = [workers EXCEPT ![w] =
                              [pc |-> "cleaning", now |-> now, rows |-> rows, object |-> Nil,
                               known |-> {o \in rows : objects[o].located}]]
    /\ pins' = [d \in Reader |-> IF pins[d].live /\ pins[d].expires <= clock
                                 THEN NoPin ELSE pins[d]]
    /\ UNCHANGED <<env, uploads, manifest, provider, requests>>

\* recover: a volume's coordinate follows from the intent, S3 is asked for a matching version.
Recovered(o) == backend = "volume" \/ o \in stored

\* One row: its coordinate is known, or recovered and saved before the delete.
LocateOrphan(w) ==
    /\ workers[w].pc = "cleaning"
    /\ \E o \in workers[w].rows :
         LET found == o \in workers[w].known \/ Recovered(o)
         IN  /\ objects' = IF found THEN [objects EXCEPT ![o].located = TRUE] ELSE objects
             /\ workers' = [workers EXCEPT
                              ![w].rows = @ \ {o}, ![w].known = @ \ {o},
                              ![w].pc = IF found THEN "deleting" ELSE "cleaning",
                              ![w].object = IF found THEN o ELSE Nil]
    /\ UNCHANGED <<env, uploads, manifest, pins, provider, requests>>

\* Mutant of DeleteOrphan: the volume's lock file goes with the bytes.
DeleteOrphanUnmarked(w) ==
    /\ workers[w].pc = "deleting"
    /\ stored' = stored \ {workers[w].object}
    /\ Worked(w, "settling")
    /\ UNCHANGED <<env, db, inflight, fenced, requests>>

DeleteOrphan(w) ==
    /\ workers[w].pc = "deleting"
    /\ Erase(workers[w].object)
    /\ Worked(w, "settling")
    /\ UNCHANGED <<env, db, requests>>

\* S3 answers neither yes nor no; the row stays for a later run.
DeleteUnconfirmed(w) ==
    /\ workers[w].pc = "deleting" /\ backend = "s3"
    /\ Erase(workers[w].object) \/ UNCHANGED provider
    /\ workers' = [workers EXCEPT ![w].pc = "cleaning", ![w].object = Nil]
    /\ UNCHANGED <<env, db, requests>>

SettleOrphan(w) ==
    /\ workers[w].pc = "settling"
    /\ objects' = [objects EXCEPT ![workers[w].object] = Deleted]
    /\ workers' = [workers EXCEPT ![w].pc = "cleaning", ![w].object = Nil]
    /\ UNCHANGED <<env, uploads, manifest, pins, provider, requests>>

\* The end of clean_orphans: expired rows go once nothing of theirs is left outside a manifest.
SweepUploads(w) ==
    LET now == workers[w].now
    IN  /\ workers[w].pc = "cleaning" /\ workers[w].rows = {}
        /\ uploads' = [u \in Upload |->
             IF /\ uploads[u].live /\ uploads[u].expires <= now /\ uploads[u].held <= now
                /\ uploads[u].epoch = Nil \/ uploads[u].offset < Length
                /\ \A o \in Object : objects[o].owner = u => ~Loose(o)
             THEN NoUpload ELSE uploads[u]]
        /\ Worked(w, "swept")
        /\ UNCHANGED <<env, objects, manifest, pins, provider, requests>>

\* What the collection of manifests looks at: nobody reads it and it has expired, or an
\* earlier collection was stopped.
Candidate(now) ==
    /\ \/ manifest.state = "ready" /\ manifest.expires <= now
       \/ manifest.state = "deleting"
    /\ ~Pinned

\* garbage: the document of a candidate is kept.  A full page of the manifests of other
\* artifacts may come before it; it is then not looked at in this run.
ListGarbage(w) ==
    /\ workers[w].pc = "swept"
    /\ \/ /\ Candidate(workers[w].now)
          /\ workers' = [workers EXCEPT ![w] = [NoWork EXCEPT !.pc = "listed",
                                                              !.object = manifest.piece]]
       \/ workers' = [workers EXCEPT ![w] = NoWork]
    /\ UNCHANGED <<env, db, provider, requests>>

\* lock_in: the same document, not deleted, and neither a pin nor an upload needs it.
Unused(w) ==
    /\ manifest.piece = workers[w].object /\ manifest.state \in {"ready", "deleting"}
    /\ ~Pinned
    /\ \A u \in Upload : ~(uploads[u].live /\ uploads[u].expires > clock)

\* Mutant of Reclaim: the candidate is trusted as it was listed.
ReclaimListed(w) ==
    /\ workers[w].pc = "listed" /\ manifest.state # "deleted"
    /\ manifest' = [manifest EXCEPT !.state = "deleting"]
    /\ Worked(w, "removing")
    /\ UNCHANGED <<env, uploads, objects, pins, provider, requests>>

\* reclaim_in: qualification, under the lock on the resources.
Reclaim(w) ==
    /\ workers[w].pc = "listed" /\ Unused(w) /\ ~referenced
    /\ manifest' = [manifest EXCEPT !.state = "deleting"]
    /\ Worked(w, "removing")
    /\ UNCHANGED <<env, uploads, objects, pins, provider, requests>>

Refuse(w) ==
    /\ workers[w].pc = "listed"
    /\ ~Unused(w) \/ referenced
    /\ workers' = [workers EXCEPT ![w] = NoWork]
    /\ UNCHANGED <<env, db, provider, requests>>

\* remove: still the same manifest, still being deleted.
StartRemove(w) ==
    /\ workers[w].pc = "removing"
    /\ workers' = [workers EXCEPT ![w] =
                     IF manifest.state = "deleting" /\ manifest.piece = workers[w].object
                     THEN [workers[w] EXCEPT !.pc = "erasing"] ELSE NoWork]
    /\ UNCHANGED <<env, db, provider, requests>>

\* Mutant of ErasePiece: a deletion that is not confirmed is passed over like a settled piece.
ErasePieceUnconfirmed(w) ==
    LET o == workers[w].object
    IN  /\ workers[w].pc = "erasing"
        /\ \/ objects[o].state = "deleted" /\ Worked(w, "closing") /\ UNCHANGED provider
           \/ Addressable(o) /\ Erase(o) /\ Worked(w, "erased")
           \/ Addressable(o) /\ backend = "s3" /\ Worked(w, "closing") /\ UNCHANGED provider
        /\ UNCHANGED <<env, db, requests>>

\* remove: a piece that an earlier run settled is passed over; else coordinate and delete.
ErasePiece(w) ==
    LET o == workers[w].object
    IN  /\ workers[w].pc = "erasing"
        /\ \/ objects[o].state = "deleted" /\ Worked(w, "closing") /\ UNCHANGED provider
           \/ Addressable(o) /\ Erase(o) /\ Worked(w, "erased")
        /\ UNCHANGED <<env, db, requests>>

SettlePiece(w) ==
    /\ workers[w].pc = "erased"
    /\ objects' = [objects EXCEPT ![workers[w].object] = Deleted]
    /\ Worked(w, "closing")
    /\ UNCHANGED <<env, uploads, manifest, pins, provider, requests>>

CloseManifest(w) ==
    /\ workers[w].pc = "closing"
    /\ manifest' = IF manifest.state = "deleting" /\ manifest.piece = workers[w].object
                   THEN [manifest EXCEPT !.state = "deleted"] ELSE manifest
    /\ workers' = [workers EXCEPT ![w] = NoWork]
    /\ UNCHANGED <<env, uploads, objects, pins, provider, requests>>

\* The collector stops: a crash, a provider or database error; or it was a clean_orphans of
\* begin or append, which lists no garbage.
WorkerFails(w) ==
    /\ workers[w].pc # "idle"
    /\ workers' = [workers EXCEPT ![w] = NoWork]
    /\ UNCHANGED <<env, db, provider, requests>>

-----------------------------------------------------------------------------
RequestStep(r) ==
    \/ Claim(r, "append") \/ Claim(r, "finish") \/ ReadTail(r) \/ PutPiece(r) \/ Locate(r)
    \/ NotWritten(r) \/ MarkReady(r) \/ SaveFrontier(r) \/ CheckPieces(r) \/ Publish(r)
    \/ Fail(r) \/ Release(r) \/ Crash(r)

WorkerStep(w) ==
    \/ MarkOrphans(w) \/ LocateOrphan(w) \/ DeleteOrphan(w) \/ DeleteUnconfirmed(w)
    \/ SettleOrphan(w) \/ SweepUploads(w) \/ ListGarbage(w) \/ Reclaim(w) \/ Refuse(w)
    \/ StartRemove(w) \/ ErasePiece(w) \/ SettlePiece(w) \/ CloseManifest(w) \/ WorkerFails(w)

Next ==
    \/ \E u \in Upload : Begin(u)
    \/ \E r \in Request : RequestStep(r)
    \/ \E o \in Object : Land(o) \/ Lose(o)
    \/ \E d \in Reader : Pin(d) \/ Unpin(d)
    \/ \E w \in Worker : WorkerStep(w)
    \/ Refer \/ Tick

Spec == Init /\ [][Next]_vars

-----------------------------------------------------------------------------
(* Properties.                                                             *)

\* A published artifact can be read: its object is ready, complete, and its bytes are with
\* the provider.  The exception is an object whose upload a request claimed after its expiry,
\* because the now it compares was read before it waited: that one may be lost.
ReadyIsStored ==
    manifest.state = "ready" /\ manifest.piece \notin overdue =>
        /\ objects[manifest.piece].state = "ready" /\ Readable(manifest.piece)
        /\ objects[manifest.piece].length = Length

\* An upload can be resumed: while it is not expired, the object of its frontier is readable
\* and as long as the offset it acknowledged, however old the clock reads of requests and
\* collectors are.  While it is open and leased this holds past the expiry as well, unless the
\* lease was itself taken after the expiry.
FrontierIsStored ==
    \A u \in Upload :
        /\ uploads[u].live /\ uploads[u].offset > 0
        /\ \/ uploads[u].expires > clock
           \/ uploads[u].held > clock /\ ~uploads[u].complete /\ uploads[u].piece \notin overdue
        => /\ Readable(uploads[u].piece)
           /\ objects[uploads[u].piece].length = uploads[u].offset

\* A reader is served from the document it pinned until its pin expires, with the exception
\* that ReadyIsStored makes.
PinnedIsStored ==
    \A d \in Reader :
        pins[d].live /\ pins[d].expires > clock /\ pins[d].piece \notin overdue =>
            Readable(pins[d].piece)

\* A deleted object leaves no bytes behind, and no write under way can bring them back.
DeletedIsGone ==
    \A o \in Object : objects[o].state = "deleted" =>
        o \notin stored /\ (o \in inflight => o \in fenced)

\* The bytes written or being written outside a manifest never exceed the configured limit,
\* failed, abandoned and unresolved writes included.
TemporaryIsBounded ==
    Cardinality(Bytes({o \in stored \cup (inflight \ fenced) : ~Listed(o)})) <= MaxTemporary

\* A ready manifest leaves that state only when no resource, pin or unexpired upload is
\* left, and then for deletion.
KeptWhileNeeded ==
    [][manifest.state = "ready" /\ manifest' # manifest =>
         \/ manifest'.state = "ready" /\ manifest'.piece = manifest.piece
         \/ /\ manifest'.state = "deleting" /\ ~referenced /\ ~Pinned
            /\ \A u \in Upload : ~(uploads[u].live /\ uploads[u].expires > clock)]_vars

\* A collection that stopped anywhere can be taken up by a later run: the piece of a manifest
\* that is being deleted is settled or can still be addressed, and a manifest is closed only
\* once its piece is settled, whichever of several runs settled it.
CollectionCanContinue ==
    /\ manifest.state = "deleting" =>
         objects[manifest.piece].state = "deleted" \/ Addressable(manifest.piece)
    /\ manifest.state = "deleted" => objects[manifest.piece].state = "deleted"

\* backup::validate_pieces: a row that is not deleted and knows its coordinate.
Recorded(o) == objects[o].state \notin {"none", "deleted"} /\ objects[o].located

\* backup::validate_catalog, which a backup demands: whatever can still be read or resumed has
\* its physical record.
CatalogIsConsumable ==
    /\ manifest.state = "ready" => Recorded(manifest.piece)
    /\ \A u \in Upload :
         uploads[u].live /\ uploads[u].expires > clock /\ uploads[u].piece # Nil =>
             Recorded(uploads[u].piece)

=============================================================================
