------------------------------- MODULE Catalog -------------------------------
(****************************************************************************)
(* The song catalog: the library scanner (internal/scanner), the songs      *)
(* table it fills (internal/store/songs.go) and the administrator's upload  *)
(* (handleAdminUploadSong), all working on one object bucket.               *)
(*                                                                          *)
(* Nothing but the scanner's mutex orders them: a scan takes a snapshot of  *)
(* the table, then lists the bucket, then downloads and indexes with a few  *)
(* workers, then prunes; an upload puts its object and indexes it at any    *)
(* point of that; the bucket's owner replaces and removes objects; any call *)
(* can fail, and the process can stop between any two steps.                *)
(*                                                                          *)
(* Time is counted in ticks of half a second, so that the one-second        *)
(* tolerance of mtimeEqual and the whole seconds of a HEAD answer are both  *)
(* visible.  An object is identified with its modification time.  All       *)
(* objects of a path have the same size (the case in which a change shows   *)
(* in the time only), and every playable file carries a genre tag and an    *)
(* embedded picture.  No administrator deletes a genre's category: what a   *)
(* deletion does to the songs of a category is in Categories.               *)
(****************************************************************************)
EXTENDS Integers

CONSTANTS
  Library,        \* audio keys the bucket's owner writes and removes
  Uploads,        \* upload requests; each is also the fresh key uploads/<id>
  Scans,          \* callers of Scanner.Run: start-up, cron, POST /api/scan
  Workers,        \* workers of one Run (4 in the code)
  DeleteMissing,  \* ND_SCANNER_DELETE_MISSING
  Form,           \* Form[u]: the optional fields upload u fills in
  Genre,          \* Genre[k]: the genre tag of the files under key k
  RewriteGap,     \* least ticks between two writes of a library key
  MaxTime,        \* bound: the clock stops at this tick
  MaxFaults,      \* bound: failed calls and crashes in a behaviour
  None            \* no scan, no key

Keys == Library \cup Uploads
Crew == Scans \X Workers
Procs == Crew \cup Uploads     \* whoever can be inside indexAudio
Second == 2
Fields == {"meta", "category", "photo"}

ASSUME CatalogAssumption ==
  /\ Library \cap Uploads = {} /\ Crew \cap Uploads = {}
  /\ None \notin Keys \cup Scans
  /\ DeleteMissing \in BOOLEAN
  /\ Form \in [Uploads -> SUBSET Fields]
  /\ RewriteGap \in Nat /\ RewriteGap >= Second
  /\ MaxTime \in Nat /\ MaxFaults \in Nat

VARIABLES
  now,      \* the clock of the object store
  bucket,   \* bucket[k]: the object stored under k
  songs,    \* songs[k]: the row whose path is k
  minted,   \* minted[k]: how many ids the rows of path k have had
  lock,     \* Scanner.mu: the Run that holds it
  scan,     \* scan[s]: where Run s is
  existing,     \* existing[s]: its snapshot, the modification time of each row
  inv,      \* inv[s]: its inventory, the modification time of each object
  todo,     \* todo[s]: the keys it has still to list, then to index
  ix,       \* ix[p]: the locals of the indexAudio call p is in
  upc,      \* upc[u]: where the handler of upload u is
  categories,   \* the genres that have a category
  faults,   \* failed calls and crashes so far
  wasGone,  \* history: keys without a listable object since the last Run began
  overtaken \* history: rows whose last query of the category ran while it was created

scanVars == <<lock, scan, existing, inv, todo>>
genreVars == <<categories, overtaken>>
vars == <<now, bucket, songs, minted, scanVars, ix, upc, genreVars, faults, wasGone>>

Object == [mtime : Nat, kind : {"none", "audio", "junk", "empty"}]
NoObject == [mtime |-> 0, kind |-> "none"]

(* id 0 is "no row"; title and art say where the value came from; genre and *)
(* chosen are the song's rows in category_songs (the genre's category and   *)
(* the one picked in the upload form), which go with the song's row.        *)
Song == [id : Nat, mtime : Nat, content : Nat, title : {"none", "tags", "form"},
         art : {"none", "tags", "form"}, genre : BOOLEAN, chosen : BOOLEAN]
NoSong == [id |-> 0, mtime |-> 0, content |-> 0, title |-> "none",
           art |-> "none", genre |-> FALSE, chosen |-> FALSE]

Genres == {Genre[k] : k \in Keys}

ScanPC == {"idle", "wait", "load", "list", "index", "prune"}
NoTimes == [k \in Keys |-> 0]

Index == [pc : {"idle", "open", "upsert", "genre", "create", "assign", "art"},
          key : Keys \cup {None}, mtime : Nat, content : Nat, id : Nat]
NoIndex == [pc |-> "idle", key |-> None, mtime |-> 0, content |-> 0, id |-> 0]

UploadPC == {"new", "index", "retry", "cleanup", "meta", "category", "photo",
             "done", "failed"}

TypeOK ==
  /\ now \in Nat
  /\ bucket \in [Keys -> Object]
  /\ songs \in [Keys -> Song]
  /\ minted \in [Keys -> Nat]
  /\ lock \in Scans \cup {None}
  /\ scan \in [Scans -> ScanPC]
  /\ existing \in [Scans -> [Keys -> Nat]]
  /\ inv \in [Scans -> [Keys -> Nat]]
  /\ todo \in [Scans -> SUBSET Keys]
  /\ ix \in [Procs -> Index]
  /\ \A p \in Procs : ix[p].pc # "idle" => ix[p].key \in Keys
  /\ upc \in [Uploads -> UploadPC]
  /\ categories \in SUBSET Genres
  /\ faults \in Nat
  /\ wasGone \in SUBSET Keys
  /\ overtaken \in SUBSET (Keys \X Nat)

Init ==
  /\ now = Second
  /\ bucket = [k \in Keys |-> NoObject]
  /\ songs = [k \in Keys |-> NoSong]
  /\ minted = [k \in Keys |-> 0]
  /\ lock = None
  /\ scan = [s \in Scans |-> "idle"]
  /\ existing = [s \in Scans |-> NoTimes]
  /\ inv = [s \in Scans |-> NoTimes]
  /\ todo = [s \in Scans |-> {}]
  /\ ix = [p \in Procs |-> NoIndex]
  /\ upc = [u \in Uploads |-> "new"]
  /\ categories = {}
  /\ faults = 0
  /\ wasGone = Keys
  /\ overtaken = {}

-----------------------------------------------------------------------------
(* The object store.                                                        *)

(* collectInventory skips empty objects.                                    *)
Listable(o) == o.kind \notin {"none", "empty"}

(* The time a HEAD request reports, in whole seconds.                       *)
StatTime(o) == o.mtime - (o.mtime % Second)

ExternalPut(k, kind) ==
  /\ now + RewriteGap <= MaxTime
  /\ now' = now + RewriteGap
  /\ bucket' = [bucket EXCEPT ![k] = [mtime |-> now + RewriteGap, kind |-> kind]]
  /\ wasGone' = IF kind = "empty" THEN wasGone \cup {k} ELSE wasGone
  /\ UNCHANGED <<songs, minted, scanVars, ix, upc, faults, genreVars>>

ExternalRemove(k) ==
  /\ bucket[k].kind # "none"
  /\ bucket' = [bucket EXCEPT ![k] = NoObject]
  /\ wasGone' = wasGone \cup {k}
  /\ UNCHANGED <<now, songs, minted, scanVars, ix, upc, faults, genreVars>>

(* Any call may fail, MaxFaults times in all.                               *)
Fault == faults < MaxFaults /\ faults' = faults + 1

-----------------------------------------------------------------------------
(* Scanner.Run.                                                             *)

Request(s) ==
  /\ scan[s] = "idle"
  /\ scan' = [scan EXCEPT ![s] = "wait"]
  /\ UNCHANGED <<now, bucket, songs, minted, lock, existing, inv, todo,
                 ix, upc, faults, wasGone, genreVars>>

(* Mistake: Run without the mutex.                                          *)
FreeIgnored == TRUE

Free == lock = None

Lock(s) ==
  /\ scan[s] = "wait" /\ Free
  /\ lock' = s
  /\ scan' = [scan EXCEPT ![s] = "load"]
  /\ wasGone' = {k \in Keys : ~Listable(bucket[k])}
  /\ UNCHANGED <<now, bucket, songs, minted, existing, inv, todo,
                 ix, upc, faults, genreVars>>

(* The deferred Unlock of every return of Run.                              *)
Unlock == lock' = None

Return(s) ==
  /\ Unlock
  /\ scan' = [scan EXCEPT ![s] = "idle"]
  /\ existing' = [existing EXCEPT ![s] = NoTimes]
  /\ inv' = [inv EXCEPT ![s] = NoTimes]
  /\ todo' = [todo EXCEPT ![s] = {}]

LoadSongPaths(s) ==
  /\ scan[s] = "load"
  /\ scan' = [scan EXCEPT ![s] = "list"]
  /\ existing' = [existing EXCEPT ![s] = [k \in Keys |-> songs[k].mtime]]
  /\ todo' = [todo EXCEPT ![s] = Keys]
  /\ UNCHANGED <<now, bucket, songs, minted, lock, inv,
                 ix, upc, faults, wasGone, genreVars>>

Entry(o) == IF Listable(o) THEN o.mtime ELSE 0

(* One entry of the listing: each key is read at its own moment.            *)
ListObject(s) ==
  /\ scan[s] = "list"
  /\ \E k \in todo[s] :
       /\ todo' = [todo EXCEPT ![s] = @ \ {k}]
       /\ inv' = [inv EXCEPT ![s][k] = Entry(bucket[k])]
  /\ UNCHANGED <<now, bucket, songs, minted, lock, scan, existing,
                 ix, upc, faults, wasGone, genreVars>>

Seen(s) == {k \in Keys : inv[s][k] # 0}

(* The whole inventory is there: hand the audio objects to the workers.     *)
InventoryDone(s) ==
  /\ scan[s] = "list" /\ todo[s] = {}
  /\ scan' = [scan EXCEPT ![s] = "index"]
  /\ todo' = [todo EXCEPT ![s] = Seen(s)]
  /\ UNCHANGED <<now, bucket, songs, minted, lock, existing, inv,
                 ix, upc, faults, wasGone, genreVars>>

(* Mistake: a listing error ends the listing but not the scan.              *)
ScanCallFailsPartial(s) ==
  /\ scan[s] = "list"
  /\ Fault
  /\ scan' = [scan EXCEPT ![s] = "index"]
  /\ todo' = [todo EXCEPT ![s] = Seen(s)]
  /\ UNCHANGED <<now, bucket, songs, minted, lock, existing, inv,
                 ix, upc, wasGone, genreVars>>

(* A failing snapshot or listing aborts the scan; a failing prune ends it.  *)
ScanCallFails(s) ==
  /\ scan[s] \in {"load", "list", "prune"}
  /\ Fault
  /\ Return(s)
  /\ UNCHANGED <<now, bucket, songs, minted, ix, upc, wasGone, genreVars>>

(* Mistakes: no tolerance; too much of it; any known path is unchanged.     *)
UnchangedExact(a, b) == a # 0 /\ b # 0 /\ a = b
UnchangedLax(a, b) == a # 0 /\ b # 0 /\ a - b <= Second /\ b - a <= Second
UnchangedKnown(a, b) == a # 0

(* mtimeEqual, with equal sizes.                                            *)
Unchanged(a, b) ==
  /\ a # 0 /\ b # 0
  /\ a - b < Second /\ b - a < Second

(* A worker takes the next object: processAudio skips or starts indexAudio. *)
TakeJob(s, w) ==
  /\ scan[s] = "index" /\ ix[<<s, w>>].pc = "idle"
  /\ \E k \in todo[s] :
       /\ todo' = [todo EXCEPT ![s] = @ \ {k}]
       /\ ix' = IF Unchanged(existing[s][k], inv[s][k]) THEN ix
                ELSE [ix EXCEPT ![<<s, w>>] =
                       [NoIndex EXCEPT !.pc = "open", !.key = k, !.mtime = inv[s][k]]]
  /\ UNCHANGED <<now, bucket, songs, minted, lock, scan, existing,
                 inv, upc, faults, wasGone, genreVars>>

BeginPrune(s) ==
  /\ scan' = [scan EXCEPT ![s] = "prune"]
  /\ UNCHANGED <<lock, existing, inv, todo>>

(* Mistakes: a prune that is not opt-in; none.                              *)
PruneAlways == TRUE
PruneNever == FALSE

(* wg.Wait.                                                                 *)
WorkersDone(s) == \A w \in Workers : ix[<<s, w>>].pc = "idle"

PruneConfigured == DeleteMissing

IndexDone(s) ==
  /\ scan[s] = "index" /\ todo[s] = {} /\ WorkersDone(s)
  /\ \/ PruneConfigured /\ BeginPrune(s)
     \/ ~PruneConfigured /\ Return(s)
  /\ UNCHANGED <<now, bucket, songs, minted, ix, upc, faults, wasGone, genreVars>>

(* Store.DeleteMissing(keep): rows go with their category_songs.            *)
Prune(s) ==
  /\ scan[s] = "prune"
  /\ songs' = [k \in Keys |-> IF k \in Seen(s) THEN songs[k] ELSE NoSong]
  /\ Return(s)
  /\ UNCHANGED <<now, bucket, minted, ix, upc, faults, wasGone, genreVars>>

-----------------------------------------------------------------------------
(* indexAudio, run by a worker or by an upload.                             *)

(* Mistake: the result of the second attempt is not looked at.              *)
AfterFailureIgnored(u) == IF upc[u] = "index" THEN "retry" ELSE "meta"

(* The handler retries a failed IndexFile once, then cleans up.             *)
AfterFailure(u) == IF upc[u] = "index" THEN "retry" ELSE "cleanup"

Abandon(p) ==
  /\ ix' = [ix EXCEPT ![p] = NoIndex]
  /\ upc' = IF p \in Uploads THEN [upc EXCEPT ![p] = AfterFailure(p)] ELSE upc

(* The download: its bytes are those of the object that is there now, not   *)
(* of the one that was listed.                                              *)
Download(p) ==
  LET o == bucket[ix[p].key] IN
  /\ ix[p].pc = "open"
  /\ \/ /\ o.kind = "audio"
        /\ ix' = [ix EXCEPT ![p] = [@ EXCEPT !.pc = "upsert", !.content = o.mtime]]
        /\ upc' = upc
     \/ o.kind # "audio" /\ Abandon(p)
  /\ UNCHANGED <<now, bucket, songs, minted, scanVars, faults, wasGone, genreVars>>

(* Mistake: stamp the row with the object's time as of the upsert.          *)
StampNow(p) == bucket[ix[p].key].mtime

(* The modification time a row is given: the listed one.                    *)
Stamp(p) == ix[p].mtime

(* INSERT ... ON CONFLICT (path) DO UPDATE ... RETURNING id: the row keeps  *)
(* its id and what hangs from it, and takes the tags' title and the listed  *)
(* modification time.                                                       *)
UpsertSong(p) ==
  LET k == ix[p].key
      id == IF songs[k].id # 0 THEN songs[k].id ELSE minted[k] + 1 IN
  /\ ix[p].pc = "upsert"
  /\ songs' = [songs EXCEPT ![k] = [@ EXCEPT !.id = id, !.mtime = Stamp(p),
                                    !.content = ix[p].content, !.title = "tags"]]
  /\ minted' = [minted EXCEPT ![k] = IF songs[k].id # 0 THEN @ ELSE @ + 1]
  /\ ix' = [ix EXCEPT ![p] = [@ EXCEPT !.pc = "genre", !.id = id]]
  /\ UNCHANGED <<now, bucket, scanVars, upc, faults, wasGone, genreVars>>

Row(p) == <<ix[p].key, ix[p].id>>

(* Mistake: only the name that was inserted comes back with an id.          *)
QueryGenreInserted(p) ==
  LET known == Genre[ix[p].key] \in categories IN
  /\ ix[p].pc = "genre"
  /\ ix' = [ix EXCEPT ![p].pc = IF known THEN "art" ELSE "create"]
  /\ overtaken' = overtaken \ {Row(p)}
  /\ UNCHANGED <<now, bucket, songs, minted, scanVars, upc, categories, faults, wasGone>>

(* GetOrCreateCategory is one statement.  Its snapshot has the category, or *)
(* else it goes on to insert one.                                           *)
QueryGenre(p) ==
  LET known == Genre[ix[p].key] \in categories IN
  /\ ix[p].pc = "genre"
  /\ ix' = [ix EXCEPT ![p].pc = IF known THEN "assign" ELSE "create"]
  /\ overtaken' = overtaken \ {Row(p)}
  /\ UNCHANGED <<now, bucket, songs, minted, scanVars, upc, categories, faults, wasGone>>

(* The insert.  Who finds the category inserted since his snapshot neither  *)
(* inserts nor selects it, and has no id to assign the song to.             *)
Insert(p) ==
  LET genre == Genre[ix[p].key]
      waiting == {q \in Procs \ {p} : ix[q].pc = "create" /\ Genre[ix[q].key] = genre}
  IN /\ genre \notin categories
     /\ categories' = categories \cup {genre}
     /\ overtaken' = overtaken \cup {Row(q) : q \in waiting}

CreateGenre(p) ==
  /\ ix[p].pc = "create"
  /\ \/ Insert(p) /\ ix' = [ix EXCEPT ![p].pc = "assign"]
     \/ /\ Genre[ix[p].key] \in categories
        /\ ix' = [ix EXCEPT ![p].pc = "art"]
        /\ UNCHANGED genreVars
  /\ UNCHANGED <<now, bucket, songs, minted, scanVars, upc, faults, wasGone>>

(* AddSongToCategory: refused by the foreign key when the row is gone.      *)
AssignGenre(p) ==
  LET k == ix[p].key IN
  /\ ix[p].pc = "assign"
  /\ songs' = IF songs[k].id = ix[p].id THEN [songs EXCEPT ![k].genre = TRUE] ELSE songs
  /\ ix' = [ix EXCEPT ![p].pc = "art"]
  /\ UNCHANGED <<now, bucket, minted, scanVars, upc, faults, wasGone, genreVars>>

(* indexAudio returns the song: a worker is free, an upload goes on with    *)
(* the id.                                                                  *)
ReturnSong(p) ==
  /\ ix' = [ix EXCEPT ![p] = IF p \in Uploads THEN [NoIndex EXCEPT !.id = ix[p].id]
                             ELSE NoIndex]
  /\ upc' = IF p \in Uploads THEN [upc EXCEPT ![p] = "meta"] ELSE upc

(* UpsertArt of the embedded picture.                                       *)
AttachArt(p) ==
  LET k == ix[p].key IN
  /\ ix[p].pc = "art"
  /\ songs' = IF songs[k].id = ix[p].id THEN [songs EXCEPT ![k].art = "tags"] ELSE songs
  /\ ReturnSong(p)
  /\ UNCHANGED <<now, bucket, minted, scanVars, faults, wasGone, genreVars>>

(* A failed download or upsert is indexAudio's error ...                    *)
IndexCallFails(p) ==
  /\ ix[p].pc \in {"open", "upsert"}
  /\ Fault
  /\ Abandon(p)
  /\ UNCHANGED <<now, bucket, songs, minted, scanVars, wasGone, genreVars>>

(* ... a failed category or picture is only logged; an insert that answers  *)
(* an error may have been carried out.                                      *)
AttachCallFails(p) ==
  /\ Fault
  /\ \/ /\ ix[p].pc \in {"genre", "create", "assign"}
        /\ ix' = [ix EXCEPT ![p].pc = "art"]
        /\ upc' = upc
        /\ \/ UNCHANGED genreVars
           \/ ix[p].pc = "create" /\ Insert(p)
     \/ ix[p].pc = "art" /\ ReturnSong(p) /\ UNCHANGED genreVars
  /\ UNCHANGED <<now, bucket, songs, minted, scanVars, wasGone>>

-----------------------------------------------------------------------------
(* handleAdminUploadSong.                                                   *)

(* storage.Put of audio checked beforehand.                                 *)
PutObject(u) ==
  /\ upc[u] = "new" /\ now < MaxTime
  /\ now' = now + 1
  /\ bucket' = [bucket EXCEPT ![u] = [mtime |-> now + 1, kind |-> "audio"]]
  /\ upc' = [upc EXCEPT ![u] = "index"]
  /\ UNCHANGED <<songs, minted, scanVars, ix, faults, wasGone, genreVars>>

(* A Put that answers an error may have stored the object all the same.     *)
PutFails(u) ==
  /\ upc[u] = "new" /\ now < MaxTime
  /\ Fault
  /\ upc' = [upc EXCEPT ![u] = "failed"]
  /\ \/ UNCHANGED <<now, bucket>>
     \/ /\ now' = now + 1
        /\ bucket' = [bucket EXCEPT ![u] = [mtime |-> now + 1, kind |-> "audio"]]
  /\ UNCHANGED <<songs, minted, scanVars, ix, wasGone, genreVars>>

(* IndexFile: Stat, then indexAudio with no previous record.                *)
IndexFile(u) ==
  /\ upc[u] \in {"index", "retry"} /\ ix[u].pc = "idle"
  /\ \/ /\ bucket[u].kind # "none"
        /\ ix' = [ix EXCEPT ![u] = [NoIndex EXCEPT !.pc = "open", !.key = u,
                                                   !.mtime = StatTime(bucket[u])]]
        /\ upc' = upc
     \/ bucket[u].kind = "none" /\ Abandon(u)
  /\ UNCHANGED <<now, bucket, songs, minted, scanVars, faults, wasGone, genreVars>>

StatFails(u) ==
  /\ upc[u] \in {"index", "retry"} /\ ix[u].pc = "idle"
  /\ Fault
  /\ Abandon(u)
  /\ UNCHANGED <<now, bucket, songs, minted, scanVars, wasGone, genreVars>>

(* Best-effort removal of the object of an upload that cannot be indexed.   *)
Cleanup(u) ==
  /\ upc[u] = "cleanup"
  /\ upc' = [upc EXCEPT ![u] = "failed"]
  /\ \/ /\ bucket' = [bucket EXCEPT ![u] = NoObject]
        /\ wasGone' = wasGone \cup {u}
        /\ UNCHANGED faults
     \/ Fault /\ UNCHANGED <<bucket, wasGone>>
  /\ UNCHANGED <<now, songs, minted, scanVars, ix, genreVars>>

NextField == [meta |-> "category", category |-> "photo", photo |-> "done"]

(* Mistake: the category picked in the form replaces the song's others.     *)
ApplyFieldReplacing(u) ==
  LET f == upc[u]
      applies == f \in Form[u] /\ songs[u].id = ix[u].id IN
  /\ f \in Fields
  /\ songs' = IF ~applies THEN songs ELSE
       [songs EXCEPT ![u] = CASE f = "meta" -> [@ EXCEPT !.title = "form"]
                              [] f = "category" -> [@ EXCEPT !.chosen = TRUE, !.genre = FALSE]
                              [] f = "photo" -> [@ EXCEPT !.art = "form"]]
  /\ upc' = [upc EXCEPT ![u] = NextField[f]]
  /\ UNCHANGED <<now, bucket, minted, scanVars, ix, faults, wasGone, genreVars>>

(* UpdateSongMeta, AddSongToCategory and UploadSongPhoto, each for a form   *)
(* field that is filled in; they address the id IndexFile returned and do   *)
(* nothing when no row has it.                                              *)
ApplyField(u) ==
  LET f == upc[u]
      applies == f \in Form[u] /\ songs[u].id = ix[u].id IN
  /\ f \in Fields
  /\ songs' = IF ~applies THEN songs ELSE
       [songs EXCEPT ![u] = CASE f = "meta" -> [@ EXCEPT !.title = "form"]
                              [] f = "category" -> [@ EXCEPT !.chosen = TRUE]
                              [] f = "photo" -> [@ EXCEPT !.art = "form"]]
  /\ upc' = [upc EXCEPT ![u] = NextField[f]]
  /\ UNCHANGED <<now, bucket, minted, scanVars, ix, faults, wasGone, genreVars>>

(* A failure there is only logged; the answer is 201.                       *)
FieldCallFails(u) ==
  /\ upc[u] \in Form[u]
  /\ Fault
  /\ upc' = [upc EXCEPT ![u] = NextField[upc[u]]]
  /\ UNCHANGED <<now, bucket, songs, minted, scanVars, ix, wasGone, genreVars>>

-----------------------------------------------------------------------------
(* The process stops and starts again: locals and mutex are gone, requests  *)
(* in flight are lost.                                                      *)
Crash ==
  /\ Fault
  /\ lock' = None
  /\ scan' = [s \in Scans |-> "idle"]
  /\ existing' = [s \in Scans |-> NoTimes]
  /\ inv' = [s \in Scans |-> NoTimes]
  /\ todo' = [s \in Scans |-> {}]
  /\ ix' = [p \in Procs |-> NoIndex]
  /\ upc' = [u \in Uploads |-> IF upc[u] \in {"new", "done"} THEN upc[u] ELSE "failed"]
  /\ UNCHANGED <<now, bucket, songs, minted, wasGone, genreVars>>

ScanStep(s) ==
  \/ LoadSongPaths(s) \/ ListObject(s) \/ InventoryDone(s)
  \/ \E w \in Workers : TakeJob(s, w)
  \/ IndexDone(s) \/ Prune(s)

IndexStep(p) ==
  \/ Download(p) \/ UpsertSong(p)
  \/ QueryGenre(p) \/ CreateGenre(p) \/ AssignGenre(p)
  \/ AttachArt(p)

UploadStep(u) == PutObject(u) \/ IndexFile(u) \/ Cleanup(u) \/ ApplyField(u)

Failure ==
  \/ \E s \in Scans : ScanCallFails(s)
  \/ \E p \in Procs : IndexCallFails(p) \/ AttachCallFails(p)
  \/ \E u \in Uploads : PutFails(u) \/ StatFails(u) \/ FieldCallFails(u)
  \/ Crash

Environment ==
  \/ \E k \in Library, kind \in {"audio", "junk", "empty"} : ExternalPut(k, kind)
  \/ \E k \in Keys : ExternalRemove(k)

Next ==
  \/ Environment
  \/ \E s \in Scans : Request(s) \/ Lock(s) \/ ScanStep(s)
  \/ \E p \in Procs : IndexStep(p)
  \/ \E u \in Uploads : UploadStep(u)
  \/ Failure

Spec == Init /\ [][Next]_vars

(* Scans keep being asked for (cron); sync.Mutex starves no waiter; a       *)
(* goroutine that can go on does.  Uploads need not come, but go on.        *)
Fairness ==
  /\ \A s \in Scans : WF_vars(Request(s)) /\ SF_vars(Lock(s)) /\ WF_vars(ScanStep(s))
  /\ \A p \in Procs : WF_vars(IndexStep(p))
  /\ \A u \in Uploads : WF_vars(IndexFile(u) \/ Cleanup(u) \/ ApplyField(u))

FairSpec == Spec /\ Fairness

-----------------------------------------------------------------------------
(* What the catalog promises.                                               *)

(* A row is never stamped newer than the bytes it was made from: the listed *)
(* time is read before the download (scanner.go:176, 232, 306), so a file   *)
(* replaced in between is found changed by the next scan, not skipped.      *)
StampNeverAhead == \A k \in Keys : songs[k].mtime <= songs[k].content

(* Types, and honest stamps.                                                *)
Sound == TypeOK /\ StampNeverAhead

(* The change detector is sound: a row that processAudio would skip was     *)
(* made from the object that is in the bucket (scanner.go:196, 477), also   *)
(* after races with rewrites, failed calls and crashes.                     *)
UnchangedMeansIndexed ==
  \A k \in Keys :
    Listable(bucket[k]) /\ Unchanged(songs[k].mtime, bucket[k].mtime)
      => songs[k].content = bucket[k].mtime

(* Indexing never takes a row back to an older version of its file: the     *)
(* mutex (scanner.go:73) and wg.Wait (117) keep a slow worker of one scan   *)
(* from writing after a worker of the next.                                 *)
NeverGoesBack ==
  [][\A k \in Keys : songs'[k].id # 0 => songs'[k].content >= songs[k].content]_vars

(* An answered upload (201, handlers_api.go:1128) is in the catalog, made   *)
(* from the bytes in the bucket, whatever scans, retries and failures came  *)
(* in between (where nothing is pruned).                                    *)
AcknowledgedUpload ==
  ~DeleteMissing =>
    \A u \in Uploads : upc[u] = "done" =>
      /\ songs[u].id # 0
      /\ bucket[u].kind = "none" \/ songs[u].content = bucket[u].mtime

(* Somebody is at one of these steps with the row that k has now.           *)
Attaching(k, steps) ==
  \E p \in Procs : ix[p].pc \in steps /\ ix[p].key = k /\ ix[p].id = songs[k].id

(* Every row has the category of its genre and a picture, or somebody is    *)
(* still attaching them to that very row, whatever other scans, uploads and *)
(* prunings do to it meanwhile (scanner.go:318, 332): without a failed call *)
(* or a crash only the category can stay away behind a stamp that later     *)
(* scans believe, and only if somebody else created it just then, between   *)
(* snapshot and insert of the row's last query for it (categories.go:43).   *)
AttachedUnlessFault ==
  faults = 0 =>
    \A k \in Keys : songs[k].id # 0 =>
      /\ \/ songs[k].genre
         \/ <<k, songs[k].id>> \in overtaken
         \/ Attaching(k, {"genre", "create", "assign"})
      /\ songs[k].art # "none" \/ Attaching(k, {"genre", "create", "assign", "art"})

(* Without the opt-in the catalog only grows: no scan, failure or crash     *)
(* takes a row, its id, or its category rows away (scanner.go:124).         *)
CatalogOnlyGrows ==
  [][~DeleteMissing => \A k \in Keys : songs[k].id # 0 =>
       /\ songs'[k].id = songs[k].id
       /\ songs[k].genre => songs'[k].genre
       /\ songs[k].chosen => songs'[k].chosen]_vars

(* So rows only go forward, for as long as nothing is pruned.               *)
RowsKept == NeverGoesBack /\ CatalogOnlyGrows

(* A title typed in the upload form is lost only to a scan whose snapshot   *)
(* is older than the upload's row: later scans find the file unchanged      *)
(* although Stat and List report its time differently (scanner.go:477).     *)
OverrideSurvivesLaterScans ==
  [][\A u \in Uploads :
       songs[u].title = "form" /\ songs'[u].id # 0 /\ songs'[u].title # "form"
         => \E s \in Scans : lock = s /\ existing[s][u] = 0]_vars

(* Only files that were missing (or empty) at some moment since the scan    *)
(* began are pruned: a broken listing prunes nothing (scanner.go:86, 160).  *)
PrunedWasGone ==
  [][\A k \in Keys : songs[k].id # 0 /\ songs'[k].id = 0 => k \in wasGone]_vars

(* Every requested scan gets the mutex, whatever scans before it ran into   *)
(* (scanner.go:73, 74).                                                     *)
RequestServed == \A s \in Scans : scan[s] = "wait" ~> scan[s] # "wait"

(* Once the bucket is left alone and calls stop failing, scans bring every  *)
(* playable object's current version into the catalog (scanner.go:72).      *)
CatalogConverges ==
  \A k \in Keys : <>[](bucket[k].kind = "audio" =>
                        songs[k].id # 0 /\ songs[k].content = bucket[k].mtime)

(* Scans run, and bring the catalog up to date.                             *)
ScansKeepUp == RequestServed /\ CatalogConverges

(* With pruning, no row outlives its object for ever, not even the row a    *)
(* scan made of an upload that failed and was cleaned up (scanner.go:125).  *)
NoGhostRows ==
  DeleteMissing =>
    \A k \in Keys : <>[](songs[k].id # 0 => Listable(bucket[k]))

(* Claims of the source that the code does not keep.                        *)

(* songs.go:150: "DeleteMissing removes songs whose path is no longer in    *)
(* the bucket".                                                             *)
PrunedIsGone ==
  [][\A k \in Keys : songs[k].id # 0 /\ songs'[k].id = 0 => bucket[k].kind = "none"]_vars

(* songs.go:69: "UpdateSongMeta overrides the title/artist of a song (admin *)
(* upload form)".                                                           *)
OverrideSticks ==
  [][\A u \in Uploads :
       songs[u].title = "form" /\ songs'[u].id = songs[u].id => songs'[u].title = "form"]_vars

(* scanner.go:312: "each song with a genre tag is assigned to a category    *)
(* named after it (created on demand)", here without any failure.           *)
GenreAssigned ==
  faults = 0 =>
    \A k \in Keys : songs[k].id # 0 =>
      songs[k].genre \/ Attaching(k, {"genre", "create", "assign"})
=============================================================================
