# Verification of play-music

TLA+ models of the play-music server and its browser client, TLC runs that
check them on small instances, and theorems that TLAPS proves for every instance: about
the song catalog, the transcoder's cache, accounts, playlists, covers, the browser's session,
start-up, the removal of karaoke and the service worker. Paths are relative to `src/`; a Go file named without
a directory is under `internal/`.

## 1. The system

play-music is one Go process over PostgreSQL, an S3 bucket and, if configured,
Redis, with a single-page client in plain JavaScript. Several processes may run
over one database. There is no message bus: components meet in database rows, in
objects of the bucket, in files of a cache directory, and in the browser in the
`<audio>` element, `localStorage` and answers to requests.

| Component | State | Operations | Hard behaviour | What makes it correct | Module |
| --- | --- | --- | --- | --- | --- |
| Library scanner and upload (`scanner`, `store/songs.go`, `handleAdminUploadSong`) | the mutex, per run a snapshot, an inventory and a job queue; song rows by path; objects | `Run`, `processAudio`, `indexAudio`, `IndexFile`, `UpsertSong`, `DeleteMissing`, the upload's put/index/retry/cleanup/fields | worker pool, uploads beside scans, stale snapshots, partial listings, rewritten objects, genres created by two at once, failing calls, crashes | no file is skipped whose row is out of date; rows never go back; an acknowledged upload is in the catalog; only missing files are pruned; the catalog catches up | `Catalog` |
| Albums and artists (`scanner`, `store/songs.go`) | rows of albums and artists, a song's names and ids | `GetOrCreateArtist`, `GetOrCreateAlbum`, `UpsertSong`, `UpdateSongMeta`, `DeleteMissing` | look-ups of one worker between the statements of a prune and of a renaming | one row of a name; names and ids agree; a prune takes orphans only | `Library` |
| Transcoder (`stream`) | per-song mutexes, cache files, temporary files | `Transcode`, `fresh`, `enforceCacheLimit` | concurrent requests and sweeps, killed encoders, files that vanish, reindexing during an encoding | one encoding per need, whole files only, never an older version over a newer, the limit, every request answered | `TranscodeCache` |
| Accounts (`auth`, `store/users.go`, admin user handlers) | the users table; tokens that outlive what they claim | register, login, create, update, delete, restart with bootstrap | check-then-act over several calls, outdated tokens | roles are exclusive; who can cost the last administrator; a restart lets somebody in | `Accounts` |
| Playlists (`store/playlists.go`) | positions of tracks, row locks of READ COMMITTED transactions | create, add, remove, reorder, delete, import | overlapping transactions, database deadlocks, prunings | nobody's entry is lost; an edit alone gives the order asked for; positions heal | `Playlists` |
| Covers (`artwork`) | rows, copies in the bucket, resized copies on disk or in Redis | serve, upload, delete, invalidate, evict | fill after invalidate, pictures of an album that changes, look-ups whose failure is swallowed, two stores without a transaction, restarts that change the cache | a wrong copy has a known cause; row and object agree | `Artwork` |
| Start-up (`db`, `store`, `auth.New`, `main.go`) | advisory lock, version records, JWT secret, rows of before | migrate, get or create the secret, bootstrap, backfill | instances together, the lock on a pooled connection, crashes between calls | migrations once and in order, every instance serves | `Boot` |
| Karaoke removal (`cmd/remove-karaoke`, migration 0010) | tables, objects, records | preview, delete objects, verify, commit; drop, record | a bucket outside the transaction, runs again, an instance left running | no song's object is deleted, nothing is left, it ends | `Upgrade` |
| Categories (`store/categories.go`, form in `admin.js`) | category rows and their songs | open, save, assign, delete | two saves and a delete at once, saves without a name | the list of one save, unless one without a name overlapped another | `Categories` |
| Administration page (`web/assets/admin.js`) | active tab, its list, refreshes under way; a folder being sent | switch tab, save, refresh; choose, start, send, close | late refreshes; a selection that changes under a running loop | the list of the active tab, with one's own saves; every file once into the category asked for | `AdminPage`, `FolderUpload` |
| Recommendations (`store/recommendations.go`) | listenings and likes, pure ranking | record, like, `RecommendSongs` | two rounds with caps, shared weights | selection against a reference; order of the unrelated | `Recommendations` |
| Player (`web/assets/player.js`) | queue, current, flags, element and its task queue | play, next, seek, shuffle, media keys, events | events after source swaps, refused `play()` | page and element agree | `Player` |
| Session (`web/assets/app.js`, `api.js`) | shared token, per tab user, caches, search | login, logout, refresh, 401, fetch, search | late answers, changes of account, tabs | caches belong to the user shown; the latest search wins | `Session`, `OwnedCache` |
| Playlists in the browser (`web/assets/app.js`) | the sidebar's list, the library's, the page of a playlist | navigate, create, pick, remove, load | each list is fetched by itself, answers in any order, after some changes only | a list has the user's own changes; a page is that of its last render | `PlaylistPages` |
| Likes (`web/assets/app.js`, `store/user.go`) | flags of rows, queue, bar and server | click, answer, failure | optimistic updates, songs that change before the answer | an answer touches its own song | `Likes` |
| Service worker and static files (`web/assets/sw.js`, `server/static.go`) | its cache, the page's scripts, the build deployed | navigate, fetch, install, revalidate, redeploy | answers from the cache while newer ones are put, outages, a worker stopped before its put | no versioned script of a build before the page's; visitors come to have the last build | `Shell` |
| Listening (`web/assets/listening.js`) | anchors, elapsed and media time | sample, seek, pause, report | stalls, rates, seeks, accounts | only what was heard counts, once, for its listener | `Listening` |

Interactions between them: the scanner creates the categories of genres and the
embedded covers (in `Catalog` as flags of a row, in `Artwork` as steps of a scan);
prunings delete the songs that playlists, categories and covers refer to
(environment actions there); uploads assign songs to categories; accounts own
playlists and likes; a change of account in `Session` clears the player
(`Player`, `Listening` have it as an action). These edges are actions of the
environment in the module that suffers them, so every module is checked against
its neighbours without one product of all of them.

## 2. Conventions

* Names of operators and variables are those of the code where TLA+ allows it.
  `map` in `PROJECT.json` gives the lines behind every definition.
* `Sound` is, in every module that has it, the type invariant `TypeOK` together
  with the state invariants named beside it; `RowsKept`, `ScansKeepUp` and
  `FreshnessSound` are conjunctions of two named properties as well. The named
  parts may be checked by themselves by putting them into a `.cfg`. In an `MC` module of
  several parts (section 3), `Sound` says of each part what that part's own `Sound` says
  (of `Likes` its `TypeOK`); what `Recommendations!Sound` says is `RankingSound` there.
* A definition whose comment begins with *Mistake* is a plausible wrong version
  of the definition after it. `mutants` in `PROJECT.json` lists, for every
  property, those that make it fail: the evidence that it depends on the code.
* A failing call or a crash is an action bounded by `MaxFaults` (or
  `MaxFailures`); a call that failed may have had its effect where the code's
  caller cannot tell (`Put`, commits).
* Every row of the database, object or file is changed by one step per call of
  the code; a transaction's statements are steps of their own where READ
  COMMITTED lets others see or block them (`Playlists`, `Categories`), and one
  step where nothing else could tell.
* A last section of some modules has statements of comments and docs that the code
  does not keep; see section 7.

## 3. The modules

**Catalog.** Variables `bucket`, `songs`, the scanner's `lock`, per run
`scan`/`existing`/`inv`/`todo`, per `indexAudio` call `ix`, per upload `upc`.
A run goes load → list → index → prune as in `scanner.go:72-176`; `ListObject`
reads one key at a time because a listing is no snapshot; `TakeJob` is
`processAudio`; `Download`, `UpsertSong`, `AssignGenre`, `AttachArt` are the calls
of `indexAudio`, run by workers and by the upload handler alike. An object is
identified with its modification time, in ticks of half a second, so that both
the one-second tolerance of `mtimeEqual` and the whole seconds of a HEAD answer
matter. All objects of a path have one size: the case in which only the time tells
versions apart. A row is stamped before its category and its picture are
attached (`AttachedUnlessFault`). A genre's category is created on demand, by one statement that
takes a snapshot (`QueryGenre`) and inserts (`CreateGenre`); whoever loses the race to insert finds
the category in neither, and the song stays without it. The history variable `overtaken` has the
rows to which that happened. The rows of albums and artists are in
`Library`, covers in `Artwork`; the cover of a folder is left out.

**Library.** `artists`, `albums` and `songs` are committed rows; `ix[w]` is a file between
two of its statements, `meta` and `prune` the transactions of `UpdateSongMeta` and `DeleteMissing`.
Each statement of `indexAudio` commits by itself. A `DELETE` finds its rows in one step and
deletes them in another, as READ COMMITTED lets a song come to refer to them in between; rows
a transaction has changed are waited for (`HeldArtist`, `HeldAlbum`, `HeldSong`). `Ghost` is
an id drawn for a row that an error kept from being inserted: the code goes on with it.
`written` is a history variable, the rows others wrote since the prune began. A behaviour begins
with one of the libraries `Begun` whose rows are `Sound`: the migration leaves no row at all, and
what the program has left since is sound by the theorem of section 6.

**TranscodeCache.** `files` is the directory (finished and temporary files),
`flight` the per-song mutex, `req` a request's position in `Transcode`. A sweep
lists, sorts and removes file by file beside everything else. Time is in minutes,
the unit of the slack of `fresh`. `unswept` is a history variable: since the
last listing a crash or a failing ffmpeg may have kept a request from its sweep.

**Accounts.** `account`, `tokens` (whose token claims the administrator's role),
`req` (the values a handler has read and the call it is about to make), `up`.
Every handler is the sequence of its database calls.

**Playlists.** `row` (list, song, position), `tx` (the transaction of a request,
with the rows it read), `lock` (row locks), `songs`, `granted`; `alone` is a
history variable: nothing was committed since the transaction read. A cycle of
waiting transactions loses a victim, as PostgreSQL's deadlock detection does.

**Artwork.** `art` (rows), `object` (copies of categories' covers), `disk`/`redis`
(resized copies), `serve` and `admin` (requests). `albumOf` is the album a song, artist or
playlist shows the picture of when it has none of its own; indexing, renaming and edits change it.
`resolve` goes on without an album if the look-up fails (`FindAlbum`), and its placeholder is then
cached, while the failure of another query is answered with one that is not (`ResolveFails`).
`excused` and `apart` are history variables: they name the causes after which a wrong copy, or two
different covers, can remain. `MCArtwork` is one instance of it, in which `part` says what the
requests are about: an album with its song, a song that may change its album, a playlist, or a
category.

**Boot**, **Upgrade.** One step per call of `Migrate`, `GetOrCreateSecret`,
`bootstrapAdmin`/`BackfillLegacy`, and of the command and its migration. In `Boot`
an advisory lock belongs to a connection and every call may take any connection of
the pool, so an unlock may miss.

**Categories.** `form` is an administrator's form with the transaction of its save;
`by` records which save put a song on the list, and how it ran: alone, or beside another one and
with a name or without. Only a save with a name locks the category's row; `crossed` is the history
variable that says of a transaction that another ran beside it.

**AdminPage.** `flying` are the refreshes without an answer, of which the last one has the
current `adminRefreshSeq`; a list is known by the revision of the database it was read at,
any between that of the request and that of the answer. Saves are answered, or fail whether
they were carried out or not, and other administrators save as well.

**FolderUpload.** `loops` are the runs of `start`. The loop reads selection and category
anew for each file, the overlay can be dismissed under it, and the listener of the button
stays when its `onclick` becomes that of "Fechar". Of the list of failures only its length is kept.

**Recommendations.** Pure: `Weight`, `Scores`, `Ranked` and `Recommend` translate
the SQL, and the actions add one signal at a time, so that the properties are
evaluated at every history of signals within the bounds.

**Shell.** `cache` has one entry per URL: the page, the scripts with `?v=` by version, the
modules they import without one. A script comes from the cache if it is there, and the network's
answer is put there for the next time; puts are carried out in any order, or lost with the worker
that the browser stops. `Install` caches the page anew, or fails to and goes on.

**Player**, **Session**, **Likes**, **Listening**, **PlaylistPages.** JavaScript handlers run to
completion, so a click, an event or an answer is one step; requests in flight are
a set and are answered in any order. `Player` has the element's task queue: setting
`src` removes queued tasks, engines differ in whether they fire `pause` for it, and any `play()` may
be refused. A refusal during a change of `src` is rejected while `switching` is set, so that the page
does not notice; the history variable `denied` says that this is so. `Listening` has the `pause`
event as a step after the pause.
`Session` carries in each request whether its epoch and sequence number are still
the latest, which is all the code uses them for. `PlaylistPages` knows a list by the revision
of the user's playlists it was read at; `late` is a history variable, the sidebar's list is from an
answer that a later one had overtaken.

**OwnedCache** is what `setAuth` promises: whoever is signed in in a tab starts with no data and only
comes to have his own. `Session` implements it: its `user` is the tab's user, and its `cache` the owners
of everything the tab keeps. A change of user and the emptying of the caches have to be one
step of `Session` for that; `CachesOwned` is the abstract specification, a `PROPERTY` of `browser`.

**CatalogProofs**, **TranscodeCacheProofs**, **AccountsProofs**, **PlaylistsProofs**,
**ArtworkProofs**, **BrowserProofs**, **StartupProofs** and **SongListsProofs** have the proofs of
section 6. Each extends the module it is about, the last three `MCBrowser`, `MCStartup` and
`MCSongLists`, whose constants are parameters.

The `MC` modules give constants values, symmetry and definitions of parameters.
`MCStartup` (Boot, Upgrade, Shell), `MCSongLists` (Categories, Recommendations, Library,
AdminPage, FolderUpload) and `MCBrowser` (Player, Session, Likes, Listening, PlaylistPages)
put several instances into one run: the instances share no variable, the
variable `part`, chosen initially, says which of them moves, and the others rest in one
initial state. So the states of such a run are the *sum* of the parts' states, and it
checks each part exactly as a run by itself would. It is no composition and claims nothing
about interaction; what one part does to another is in the part itself, as an action of
its environment.

## 4. The runs

States are the distinct states of a complete search. Unless stated, a run uses no
constraint: bounds are guards in the actions.

| Run | Instance | Question | States |
| --- | --- | --- | --- |
| `catalog_keep` | one library key, one upload with a full form, two scans with two workers, clock to 6 ticks, one fault, no pruning | Are stamps honest, skipped files indexed (`UnchangedMeansIndexed`), acknowledged uploads there, do rows only go forward (`RowsKept`), does an override survive scans that begin after it; has every row its category and picture unless a call failed or somebody else created the category at once (`AttachedUnlessFault`)? | 1.07 M |
| `catalog_prune` | one library key, one upload, one scan with one worker, clock to 6 ticks, pruning, one fault, fair | What may a prune take (`PrunedWasGone`); do requested scans run and bring the catalog up to date (`ScansKeepUp`); does no row outlive its object (`NoGhostRows`)? | 657 k |
| `transcode_fresh` | one song rewritten under three requests, unlimited cache, one fault | Is nothing encoded that is there (`FreshnessSound`, with what staleness the slack allows), and never older over newer (`CacheNeverOlder`)? | 888 k |
| `transcode_evict` | two songs, two requests, room for one file, two faults, fair | Are answers whole files (`Sound`), is the limit kept when all is quiet, is every request answered? | 232 k |
| `accounts_roles` | three accounts, two at once, one phone, two names, two requests, restarts | Do roles stay exclusive and a restart restore an administrator (`Sound`); who can cost the last one (`OnlyFormerAdmins`, `DemotionNeedsOutdatedRead`)? | 1.05 M |
| `playlists_order` | one playlist of up to three entries of one song that may be hidden, two requests | Are entries kept (`EntriesKept`), do edits that met no other one do as asked, do positions heal? | 774 k |
| `artwork` | an album with a song, its copies in two sizes on disk, one request, one upload; or a song, or a playlist, that falls back to one of two albums; or a category in Redis or on disk, two requests, two uploads; two administrators, room for two files, faults and restarts | Has every wrong copy one of the named causes; do row and object agree? | 463 k |
| `startup` | two instances with two connections each, three migrations, one fault; or the karaoke upgrade with two paths, two commands, two instances, three failures; or one redeploy under a page with a versioned script and a module without, one outage or lost put; fair | Migrations once and in order, all instances come to serve, backfill; nothing of karaoke left, no song lost, the upgrade ends; no script before its page, the last build arrives (`CatchesUp`) | 123 k |
| `song_lists` | two forms on two songs, saved with or without a name; or four songs, weights of two ages, four signals; or two files of one album, two workers, one renaming, one prune, one fault; or two tabs, two revisions, three refreshes; or a folder of two files or one of them, two categories, two starts | One save's list; selection and ranking (`RankingSound`, `OthersKeepOrder`); unique rows whose names and ids agree, what a prune may take (`KeepsAlbums`) and must (`PrunesOrphans`); lists of the active tab, files as asked | 991 k |
| `browser` | queues of one to three entries with a song twice, any `play()` refused; one tab, two users with one token each, two queries, two requests; two songs' hearts, one click awaited at a time; one play of six ticks; one revision of the playlists, one change and two fetches at a time | Page and element agree, caches owned (a refinement), tokens, searches, hearts, listening, lists of playlists | 851 k |
| `accounts_last_admin` | as `accounts_roles` | *violated*: see section 7 | |
| `catalog_genre` | one library key and one upload of one genre, one scan with one worker, no fault | *violated*: see section 7 | |

Why the bounds are enough. Two of an actor make every pairwise race; a third request
in `transcode_fresh` makes one wait behind a waiter. One fault in `catalog_keep` fails any one call or crashes the process once; that further ones, such
as a failed retry after a failed attempt, change nothing is what the theorems say. Its upload and
its library keys are of one genre, so that two come to create its category. Six ticks allow an upload and
a rewrite of the library key after it is first put, a whole second apart. Three entries are the fewest for which a
move passes over a track that stays. Three migrations have a first, the one that matters
to old rows, and one after. Four signals over four songs with two ages distinguish all pairs of
weights. `MaxTime` and `MaxHeard` end the clocks; nothing else of the models depends on them. In `Library`,
three ids are one more than there are names, so a row can be deleted and another one made of its
name. A revision tells a list from before a change from one after it, and three refreshes put one
answer between two others. Two builds have every script of the page before, of the page's own and, of
one without a version, of the page after. `Likes` has 1.6 M states
with a second awaited click; songs that change before the answer, its difficulty, need only one. `Session` with a second token
per user, as `api.js:29` brings one, has more than 4 M states: in the run a token changes by logins,
logouts and 401s, and the refresh is covered by the theorem `TokenChangesHold` alone.

Symmetry is used over requests, forms, workers, scans, paths, accounts' ids and songs only where the
specification names none of them; not in the runs with liveness properties.

Deadlock is checked, except where the system may really stop: in `startup` the upgrade ends (or
migration 0010 refuses for good while karaokes are left and nobody deletes them), in
`song_lists` the category and all songs may be deleted, all files be indexed, and the folder's
form be closed.

The weak spots of what a run can say: `AcknowledgedUpload`, `RowsKept` (its second half) and
`NoGhostRows` are about one setting of `DeleteMissing`, the one of their run.
`UnchangedMeansIndexed` needs `RewriteGap >= Second`: two writes of a key within a second are
the case that the tolerance of `mtimeEqual` gives up.

## 5. Fairness

* `Catalog!FairSpec`: weak fairness of `Request` (cron asks for scans again and again),
  strong fairness of `Lock` (Go's `sync.Mutex` goes over to starvation mode, so a waiter gets
  it), weak fairness of the steps of runs, workers and uploads already begun (goroutines
  and the calls they make return, with an answer or an error). Uploads need not come. Failures and
  the bucket's owner are not fair, and finite (`MaxFaults`, `MaxTime`).
* `TranscodeCache!FairSpec`: weak fairness of the steps of a request (ffmpeg and the copy to
  the client come to an end or are cancelled), strong fairness of taking the song's mutex. A
  client that never reads and never leaves is outside of it.
* `Boot`: weak fairness of starting again (a supervisor restarts the process), of the
  calls of start-up, and of the pool closing idle connections (`SetConnMaxLifetime`); strong fairness
  of `pg_advisory_lock`, which queues.
* `Upgrade`: somebody runs the command again after a failure (weak), starts the
  instances again (strong, since the migration is refused now and then), and they record (weak).
* `Shell`: weak fairness of the network's return, of the next script's loading, and for each
  key of the answer to its revalidation and of its put, which may still be lost `MaxFaults` times.
  That somebody visits is no assumption but the premise of `CatchesUp`.
* `MCStartup` states the same conditions for the part that moves.
* Nothing else is assumed of the browser: its other properties are safety properties.

## 6. Proofs

TLAPS proves the theorems below for any sets and any bounds that satisfy the module's
assumption. What none of them needs is that a set of actors or of data is small; where one
needs a set to be finite the assumption says so. Every proof has the same plan: an inductive
invariant `IInv`, which TLC checked on the module's run before it was proved, one lemma for each
action or group of actions, and theorems that follow from `IInv` alone (state invariants) or
from `IInv` and a step (action properties). Names in the third column are conjuncts of `IInv`.

**`CatalogProofs`**, from `CatalogAssumption` (keys of library and uploads differ, callers of
`indexAudio` are distinct, `None` is neither key nor scan, library keys are rewritten at least
a second apart):

| Theorem | Statement | Argument |
| --- | --- | --- |
| `StampsCorrect` | `Spec => []Sound` | part of the inductive invariant |
| `ChangeDetectionSound` | `Spec => []UnchangedMeansIndexed` | from `RowInv` and the arithmetic of `Unchanged` |
| `RowsOnlyGoForward` | `Spec => RowsKept` | per step, from `IndexInv` and, for the second half, `PruneInv` |
| `RowsCompleted` | `Spec => []AttachedUnlessFault` | inductive together with `TypeOK` |
| `PruningSound` | `Spec => PrunedWasGone` | per step, from a second invariant, `GoneInv` |
| `AnsweredUploadsIndexed` | `Spec => []AcknowledgedUpload` | `IndexedInv`, with `OneVersion` and `PruneInv` |
| `FormTitlesKept` | `Spec => OverrideSurvivesLaterScans` | `FormInv`: List and HEAD tell the time of an object less than the tolerance apart |

`UnchangedMeansIndexed` is not inductive. What makes it true is that what anybody remembers of
a path, in an inventory, in the hands of a worker or in the row, is nothing, the present object,
or one that was rewritten at least a second later (`Version`, `InventoryInv`, `IndexInv`,
`RowInv`), and that the stamp is never ahead of the bytes. Keeping `IndexInv` needs that a
library key is in the hands of one worker only, of the one run that holds the mutex (`Serial`),
and that an upload's key is unknown before its put and has had one version only (`Fresh`,
`OneVersion`), since its handler and a worker may index it at the same time. `GoneInv` says that
a path missing from the bucket now, or from the inventory of the run that may prune, was missing
since that run began. `PruneInv` says that a run comes to pruning only where it is configured.
`AttachedUnlessFault` is inductive as it stands, once types are known: whatever a row lacks,
some call of `indexAudio` is at the step that attaches it to that very row, or the row's category is
the one that somebody else created between the two halves of its last query (`overtaken`); after a
failure or a crash nothing is claimed.

**`TranscodeCacheProofs`**, from `TranscodeAssumption` (songs, requests and what crashes leave
are different names, of which there are finitely many):

| Theorem | Statement | Argument |
| --- | --- | --- |
| `AnswersWhole` | `Spec => []Sound` | `HitInv`, `TempInv`: only `Rename` gives a file the song's name, and a file once opened stays whole |
| `FreshnessKept` | `Spec => []FreshnessSound` | `HitInv`, `NoWastedTranscode`: under the mutex nobody else can have made the file that `fresh` did not find |
| `LimitHolds` | `Spec => []CacheFitsWhenQuiet` | `SweepInv`: what a sweep in progress has still to remove covers the excess |
| `OlderNeverReplacesNewer` | `Spec => CacheNeverOlder` | `SongFileInv`, `FlightInv`, `TimeInv`: encodings of a song follow one another |

**`AccountsProofs`**, from `AccountsAssumption` (finitely many ids, more than accounts may be
made; blanks are no identifiers):

| Theorem | Statement | Argument |
| --- | --- | --- |
| `RolesSound` | `Spec => []Sound` | `RolesExclusive`, with `CarriedInv` for what a handler has read |
| `LastAdminOnlyLostToFormerOnes` | `Spec => OnlyFormerAdmins` | `AdminsLive`: a deletion is of somebody else, so its sender is left unless he is none any more |
| `DemotionOfTheLastIsOutdated` | `Spec => DemotionNeedsOutdatedRead` | per step, from `CarriedInv` |

**`PlaylistsProofs`**, from `PlaylistsAssumption` (finitely many entries and requests, the file
is a list of songs):

| Theorem | Statement | Argument |
| --- | --- | --- |
| `RowsBelong` | `Spec => []TypeOK` | with `LocksOK`: a lock is held by a transaction that writes |
| `EntriesStay` | `Spec => EntriesKept` | per step: whose rows a transaction may delete (`RequestOK`) |
| `NewSongsComeLast` | `Spec => AppendsWhenAlone` | `AloneOK`: what the transaction read is what is there |
| `EditsHealPositions` | `Spec => HealsPositions` | the renumbering is a bijection onto 0 .. n-1, whatever ties there were |
| `ReorderingMovesOne` | `Spec => ReordersWhenAlone` | `AloneOK`, and what `Moved` does to the order |

**`ArtworkProofs`**, from `ArtworkAssumption` (ids of songs, albums, categories, artists and
playlists are different, `None` is no id and no picture):

| Theorem | Statement | Argument |
| --- | --- | --- |
| `CoversTogether` | `Spec => []Sound` | `CoverInv`, `AdminInv`: between the two calls of an upload or deletion the one that makes it is known, or `apart` says why not |
| `WrongCopiesAreExcused` | `Spec => []StaleOnlyIfExcused` | `CopyInv`, `ServeInv`: a copy is right, or is going to be invalidated by somebody under way, or excused; so are the picture a request carries to the cache and the album it has found |

**`BrowserProofs`**, about `MCBrowser` and from `BrowserAssumption`, the assumptions of its parts
(queues are lists of songs with one at least; songs are played at the single or the double rate;
`None`, `Nobody` and what stands for a list that is not there are no users, songs or numbers):

| Theorem | Statement | Argument |
| --- | --- | --- |
| `BrowserSound` | `Spec => []Sound` | `PlayerInv`, `SessionInv`, `ListeningInv`, `PagesInv`, and `Likes!TypeOK` |
| `PlayerIsHonest` | `Spec => []HonestWhenSettled` | `Told`: the element's queue of tasks ends in the truth, or `denied` |
| `TokenChangesHold` | `Spec => TokenChanges` | per step; a late answer finds another token |
| `OneTabOwnsItsCaches` | with one tab, `Spec => CachesOwned` | `Own`: what a request of this epoch may bring is of the user shown; every step of `Session` is a step of `OwnedCache` or leaves its variables alone |
| `RowAnswersKeepToTheirSong` | `Spec => RowAnswersOwnSong` | per step: what `setLiked` writes, where row, queue and current song may be of three different songs |

`PlayerInv` needs besides `Sound` that an element without a song has nothing to tell but a pause
(`Unloaded`), since its other events take the current song for granted. `Told`: of the tasks
queued on the element, the last one that tells whether it plays is right, there is one as long as
the page is wrong, and the pause a change of `src` fires comes before the play of the next song.
A refused `play()` is rejected without an event. Outside of a change of `src` the page sets its flag
itself when the promise is rejected; within one it ignores the rejection, and until a `play()` is
accepted the element is paused (`denied`), whatever the page shows: that is the one case in which the
two may differ, and `HonestWhenSettled` names it. `SettledInv`: whoever waits for a search or the library has a request
for it under way that carries the latest number. `ListeningInv`: what a sample would credit to
the play is no more than was heard since its anchor (`Anchored`), at either rate and with the slack
the code grants, and a play without a report is of its beginner and has no row (`Unreported`).
`PagesInv`: the last fetch of the sidebar's list, if no later answer has overtaken it, asked after
what is known (`RecentIn`), and a page that waits on the screen waits for its own list (`BoxIsOfPage`).

**`StartupProofs`**, about `MCStartup` and from the assumptions of `Boot`, `Upgrade` and `Shell`
(some instance and connection, migrations 1 to `Last`; `None` is no command; a page has scripts):

| Theorem | Statement | Argument |
| --- | --- | --- |
| `StartupSound` | `Spec => []Sound` | `BootInv`, `UpgradeInv`, `ShellInv` |
| `SongsAreKept` | `Spec => SongsKept` | `KeysInv`: no song has a path that a command is to delete |

`BootInv`: whoever is between the lock and the unlock has it on one of his connections, whichever
(`HolderInv`), so he is alone; a migration was carried out at most once more than there were
faults, and no more often than that if it is neither recorded nor about to be (`CountInv`); and
whoever is at a migration has seen those before it (`CompleteInv`). `UpgradeInv`: where the
application was stopped, objects still in the bucket have their rows (`RowsInv`), even if the lock
was lost with its connection, since nobody deletes rows before he has emptied his list.
`ShellInv`: a version is in a URL only after it was deployed, so neither a put nor an answer under
it, however late, is of a build before it (`CacheInv`).

**`SongListsProofs`**, about `MCSongLists` and from the assumptions of its parts (folders are
sequences of files; `None` is no path, name, title or id; `Ghost` is no id):

| Theorem | Statement | Argument |
| --- | --- | --- |
| `SongListsSound` | `Spec => []Sound` | `CategoryInv`, `LibraryInv`, `AdminInv`, `FolderInv` |
| `PruningKeepsAlbums` | `Spec => KeepsAlbums` | `GoInv`: what is about to be deleted, no song refers to that stays and was not written since |
| `PruningTakesOrphans` | `Spec => PrunesOrphans` | `OrphanInv`: if nothing was written since, it is all that no song refers to |
| `OthersKeepTheirOrder` | `Spec => OthersKeepOrder` | per step: the weights a song's score is made of do not contain the signals of a song it has nothing in common with |
| `RankingIsSound` | `Spec => []RankingSound` | for any signals: `RankedOnce`, `CappedSelects`, `FilledSelects`, `TwinsInOrder` |

A save with a name locks the category's row, one without locks nothing, as the code allows. So
`CategoryInv` says of a transaction past its `UPDATE` that it has found, and then deleted, the row of
every other save but those excused (`FormOK`): rows of a save that ran beside another one (`Excused`),
one of the two without a name. Of two transactions with a name one waits, any other two that run
together know of each other, and none holds rows of another (`Apart`). That is what makes the songs
of a save that ran alone, or of two with a name, never mix (`OneList`). `Library!Sound` is not
inductive: uniqueness and the agreement of names and ids rest on what those under way hold.
A worker's ids, of rows that are still there, are of the names in its tags (`IndexOK`), also after the
failure that leaves it with an id nobody inserted; and what a renaming is to insert is, of its name,
the only row to be, under an id no row and no worker refers to (`MetaArtistOK`, `MetaAlbumOK`): an
`INSERT ... ON CONFLICT` of the name has to wait for it. `AdminInv`: one refresh at most is current, of
the active tab, asked for after the last save the page knows of. `FolderInv`: while the form is left
alone its only loop has sent the files before its index, and only those.

The ranking is a bijection of places and songs, since `Before` is a strict order where no two songs
were created at once, as the assumption says (`RankedOnce`). After k songs the first round has taken as many as there are
within the cap among them, up to `Limit` (`CappedSelects`): a song finds room if fewer than `Cap` of
its artist's earlier ones were *taken*, which is the same as fewer than `Cap` being *there*, since the
first one that was not taken already had `Cap` before it (`WithinOfEarlier`). Then the second round
takes the others (`FilledSelects`). `TwinsInOrder` needs that totals are sums: an artist weighs at
least what each of its songs does (`TotalIsSum`), so that 100 % of it is more than 35 %.

**What stays with TLC.** Liveness under fairness: `ScansKeepUp`, `NoGhostRows`,
`EveryRequestAnswered`, `EveryInstanceServes`, `BackfilledUnlessFault`, `UpgradeEnds`, `CatchesUp`;
TLAPS knows neither `ENABLED` nor what follows from fairness beyond propositional logic. And with
several tabs, what `CachesOwned` says is not true (section 7), so that neither TLC nor a theorem says
it.

Induction: the library's theorems take operators as parameters, which the provers cannot
instantiate. Where a proof needs the first of something, as the last track of a playlist, it takes
the least element of a set of numbers instead, and with the same lemma (`LeastNat`, `AllNumbers`,
`AllSubsets`) what the folds of `Recommendations` compute is proved by induction all the same: the
function that a fold's `CHOOSE` asks for exists (`FoldExists`), so it has the values the recursion
says. (Such a lemma is about a set, never about an operator; a `RECURSIVE` operator would be out of
reach, but there is none in a module that is proved about. And a model that is proved about names
a part of a sequence by its indices, as `Artwork!Without`, since `SelectSeq` means nothing to the
provers.)

## 7. Where code and comments differ

Two of the differences met while modelling have a run whose counterexample shows them:

* **The last administrator** (`accounts_last_admin`, `NeverDemotesTheLast`).
  `server/handlers_api.go:644` says "never demote the last admin (would lock the app out)". The
  administrators are counted in one query and the role is taken in a later transaction; in between
  another administrator may be deleted or demoted. The sender's own role is that of its
  token, so "not yourself" does not help against a sender who has been deleted.
* **Genres** (`catalog_genre`, `GenreAssigned`). `scanner/scanner.go:312` says "each song with a
  genre tag is assigned to a category named after it (created on demand)". Of two who create a category
  at once (an upload beside a scan, or two workers) the second inserts nothing
  (`ON CONFLICT DO NOTHING`), and the `SELECT` of the same statement has the snapshot from before:
  `GetOrCreateCategory` (`store/categories.go:43`) returns no id and no error, `scanner.go:319` skips
  the assignment, and the row is stamped, so that no later scan makes up for it.

The modules state further claims of comments, docs and tests that the code does not keep. They
are kept as definitions, each with its quotation, without a run of their own; given the named
definition as a property, and constants that let the case happen, TLC gives a counterexample.

| Definition | Claim | What the code does |
| --- | --- | --- |
| `Catalog!PrunedIsGone` | `store/songs.go:150` "removes songs whose path is no longer in the bucket" | prunes by the run's own listing: a song uploaded after the listing passed its key loses its row |
| `Catalog!OverrideSticks` | `store/songs.go:69` "overrides the title/artist" | a scan with a snapshot from before the upload writes the tags' title over it |
| `Library!AlbumArtistsExist` | `store/artists.go:18` "resolves a name to an artist id, creating it if needed" | after a failed statement the id drawn is used, and `albums.artist_id` has no foreign key to refuse it |
| `TranscodeCache!ServesCurrent` | `stream/stream.go:62` "keyed by song id + file mtime" | keyed by id; a transcoding of the old file that ended within the slack counts as fresh |
| `TranscodeCache!LimitKept` | `stream/stream.go:147` "removes oldest files once the dir exceeds the limit" | a sweep that removes another request's file, which has grown since it was listed, counts more as freed than it had counted and stops early; if that request's ffmpeg then fails nobody sweeps again |
| `TranscodeCache!TranscodeServes` | `stream/stream.go:62` "writes an mp3 version of the song to w" | another request's sweep may remove the file just found fresh: 404 |
| `Accounts!IdentifiersResolve` | `store/users.go:72` "username or e-mail (both are valid admin identifiers)" | a user name may be another's e-mail, and one row is taken |
| `Playlists!AppendsAtEnd` | `store/playlists.go:152` "appends songs" | the end is read without a lock: two additions interleave |
| `Playlists!ImportReplaces` | `store/playlists.go:230` "creates or replaces a playlist (by owner+name)" | the only key is the id drawn for the insert, so `ON CONFLICT DO NOTHING` never meets a conflict, and every scan adds a copy |
| `Playlists!ReorderMovesVisible` | `store/playlists.go:185` "0-based indices over the visible ordered list" | indices count hidden rows too |
| `Artwork!UploadShows` | `artwork/artwork.go:170` "so the new photo shows immediately" | a request that overlaps the upload fills the cache with the former cover |
| `Artwork!ClearsDiskAndRedis` | `artwork/artwork.go:262` "clears every cached size (disk + redis)" | Redis is cleared only if this process uses it |
| `Artwork!DeleteRestoresEmbedded` | `artwork/artwork.go:188` "restoring the embedded cover" | photo and embedded cover share a row |
| `Artwork!CustomPhotoStays` | `artwork/artwork.go:197` "overriding the album/embedded fallback" | indexing a changed file overwrites it |
| `Artwork!CoversAgree` | `artwork/artwork.go:224` "saved to both" | two calls without a lock; overlapping uploads leave two covers |
| `Boot!MigrateSucceeds` | `db/db.go:41` "Safe to run concurrently" | `CREATE TABLE IF NOT EXISTS` comes before the lock, and may collide |
| `Boot!SecretPersists` | `store/store.go:54` "so tokens survive restarts" | any error of the read counts as missing, and the secret is replaced |
| `Boot!LegacyReachesAdmin` | `auth/auth.go:79` "Migrate legacy rows" | a crash after `CreateUser` leaves them without an owner (with `Legacy` including likes migration 0002 itself fails) |
| `Categories!RenameKeepsSongs` | `store/categories.go:115` "renames a category and optionally replaces its songs" | a form saved before its list has come sends an empty list |
| `Categories!OnlyOneList` | the same | without a name nothing serialises two saves, and their lists merge |
| `FolderUpload!ClosingOnlyCloses` | `admin.js:734` "Fechar" | the button keeps the listener that starts the upload, and the folder is sent again |
| `Shell!FetchesCurrentBuild` | `sw.js:7` "a redeploy (new ?v= URLs) always fetches the current build" | the modules `app.js` imports have no `?v=` and may be cached from the build before |
| `Player!HonestWhenRefused` | `player.js:135` "the UI state stays honest (paused)" | a refused `play()` during a swap leaves the page playing |
| `Player!RestartForgetsSeek` | `player.js:281` "Restart the current track" | a pending seek survives it |
| `Session!ShowsLatestSearch` | `app.js:545` "only the latest request may write results" | a render in between shows the former results under the new query |
| `Session!CachesOwned` with two tabs | `e2e/tests/session-isolation.spec.js:4` | a login in another tab changes the token, not this tab's user |
| `PlaylistPages!LatestListWins` | `app.js:545` "only the latest request may write results", which `loadPlaylists` has no number for | an earlier answer that comes later replaces the list by an older one |
| `PlaylistPages!LibraryHasOwnChanges` | `app.js:315`, the other lists are fetched again after a change | `libData` is forgotten by `setAuth` only; the library shows the playlists of its first visit |
| `Likes!BarAnswersOwnSong` | `app.js:1454` "sem desync" | the failure of a like on the bar marks whatever song is current by then |
| `Likes!HeartsAgree` | `app.js:1669` | playing a list copies the flags it was fetched with over its rows |

## 8. Not modelled

* Search and the queries of albums, artists and access: they read committed rows and change nothing.
  The access filter they share is switched off (`filterUser` in `server/helpers.go` returns the
  empty string), so that there is no rule to check.
* Play counts, history and the stored play queue: a transaction of one insert and one addition,
  and one row that the last writer replaces; no client in the repository stores a queue.
* Failures of `os.Remove` and `ReadDir` in a sweep of the transcoder's cache: such a sweep leaves more
  than the limit to the next one, so that `CacheFitsWhenQuiet` is about those whose calls succeed.
* Phone numbers: pure functions on strings. Configuration: read once; its switches are constants
  of the modules. Tags of audio files: a library's parsing and `ffprobe`; `Catalog` and `Library`
  have what a file says as a version, or as a record of the tags that matter.
* Streaming of originals (`StreamURL`), which signs a URL.
* The fields of the forms for users, songs and photos of the administration page, whose calls
  are in `Accounts`, `Library` and `Artwork`; the install button (`pwa.js`).
* Logging, wording, layout and the contents of lists everywhere.

`PROJECT.json` lists every component with what is left out of it.

## 9. Plan

Order of work, the most important behaviour first. Done: `Catalog` with its
proofs, `TranscodeCache`, `Accounts`, `Playlists`, `Artwork`, `Boot`, `Upgrade`,
the browser's five modules with the refinement of `OwnedCache`, `Categories`, `Recommendations`,
`Library`, `AdminPage`, `FolderUpload`, `Shell`.

1. *More of the system.* The photos' forms with `Artwork`; likes of albums and artists; a product of
   `Catalog`'s indexing and `Library`'s rows, once a smaller instance of both is found.
2. *Abstract specifications and refinements.* The catalog as a reconciliation of rows with
   versions; `TranscodeCache` implementing a cache whose answers are atomic; a
   playlist as a sequence that `Playlists` implements where edits do not overlap;
   `Categories` implementing an atomic replacement.
3. *Proofs*: the refinements of 2, step by step.
