---------------------------- MODULE TranscodeCache ----------------------------
(*****************************************************************************)
(* The transcoder's disk cache (internal/stream): Service.Transcode, its     *)
(* per-song flights and enforceCacheLimit, called by any number of           *)
(* concurrent stream requests.                                               *)
(*                                                                           *)
(* The cache is a directory shared by finished files (one per song) and the  *)
(* temporary files ffmpeg is writing; only the requests of one song exclude  *)
(* each other, so whoever trims the directory works beside other songs'      *)
(* transcodings and beside requests that serve straight from the cache.      *)
(*                                                                           *)
(* Time is counted in minutes, the unit of fresh's slack.  Every file with   *)
(* data has size 1 and Limit counts such files.  A song's version counts the *)
(* writes of its object.                                                     *)
(*****************************************************************************)
EXTENDS Integers, FiniteSets

CONSTANTS
  Songs,        \* the songs in a format that has to be transcoded
  Requests,     \* stream requests; each also names its temporary file
  Slack,        \* fresh's tolerance (2 minutes)
  Limit,        \* TranscodingCacheSize; 0 means no limit
  MaxTime,      \* bound: the clock stops here
  MaxVersion,   \* bound: writes of an object
  MaxFaults,    \* bound: failures and crashes in a behaviour
  None          \* no request, no song

Left == Requests \X {"left"}     \* temporary files that outlived the process
Names == Songs \cup Requests \cup Left

ASSUME TranscodeAssumption ==
  /\ Songs \cap Requests = {} /\ (Songs \cup Requests) \cap Left = {} /\ None \notin Names
  /\ IsFiniteSet(Names)
  /\ Slack \in Nat /\ Limit \in Nat
  /\ MaxTime \in Nat /\ MaxVersion \in Nat /\ MaxFaults \in Nat

VARIABLES
  now,       \* the clock
  object,    \* object[g]: the version in the bucket
  row,       \* row[g]: updated_at, and the version it was indexed from
  files,     \* the cache directory: files[g] finished, files[r] temporary
  flight,    \* flight[g]: the request that holds the song's mutex
  req,       \* req[r]: the locals of request r
  victims,   \* victims[r]: the directory as r's enforceCacheLimit read it
  total,     \* total[r]: the size it still counts
  faults,    \* failures and crashes so far
  unswept    \* history: since the last listing a crash or a failing ffmpeg may
             \* have kept a request from its sweep

cacheVars == <<files, flight>>
sweepVars == <<victims, total>>
vars == <<now, object, row, cacheVars, req, sweepVars, faults, unswept>>

File == [mtime : Nat, size : {0, 1}, version : Nat, whole : BOOLEAN]

NoFile == [mtime |-> 0, size |-> 0, version |-> 0, whole |-> FALSE]

There(f) == f.mtime # 0

Row == [updated : Nat, version : Nat]

PC == {"idle", "stat", "hit", "wait", "temp", "open", "encode", "rename", "list",
       "evict", "serve"}

(* song, updated and wanted are of the row handleStream read; source is the *)
(* version ffmpeg is fed; path is the file to be served.                    *)
Request == [pc : PC, song : Songs \cup {None}, updated : Nat, wanted : Nat,
            source : Nat, path : Names \cup {None}]
NoRequest == [pc |-> "idle", song |-> None, updated |-> 0, wanted |-> 0, source |-> 0,
              path |-> None]

TypeOK ==
  /\ now \in Nat
  /\ object \in [Songs -> Nat]
  /\ row \in [Songs -> Row]
  /\ files \in [Names -> File]
  /\ flight \in [Songs -> Requests \cup {None}]
  /\ req \in [Requests -> Request]
  /\ \A r \in Requests : req[r].pc # "idle" => req[r].song \in Songs
  /\ victims \in [Requests -> [Names -> Nat]]
  /\ total \in [Requests -> Nat]
  /\ faults \in Nat
  /\ unswept \in BOOLEAN

NoVictims == [n \in Names |-> 0]

Init ==
  /\ now = 1
  /\ object = [g \in Songs |-> 1]
  /\ row = [g \in Songs |-> [updated |-> 1, version |-> 1]]
  /\ files = [n \in Names |-> NoFile]
  /\ flight = [g \in Songs |-> None]
  /\ req = [r \in Requests |-> NoRequest]
  /\ victims = [r \in Requests |-> NoVictims]
  /\ total = [r \in Requests |-> 0]
  /\ faults = 0
  /\ unswept = FALSE

-----------------------------------------------------------------------------
(* The world outside.                                                       *)

Tick ==
  /\ now < MaxTime
  /\ now' = now + 1
  /\ UNCHANGED <<object, row, cacheVars, req, sweepVars, faults, unswept>>

Rewrite(g) ==
  /\ object[g] < MaxVersion
  /\ object' = [object EXCEPT ![g] = @ + 1]
  /\ UNCHANGED <<now, row, cacheVars, req, sweepVars, faults, unswept>>

(* UpsertSong sets updated_at, whether or not the object has changed.       *)
Reindex(g) ==
  /\ row' = [row EXCEPT ![g] = [updated |-> now, version |-> object[g]]]
  /\ UNCHANGED <<now, object, cacheVars, req, sweepVars, faults, unswept>>

Fault == faults < MaxFaults /\ faults' = faults + 1

-----------------------------------------------------------------------------
(* Service.Transcode.                                                       *)

Goto(r, pc) == req' = [req EXCEPT ![r].pc = pc]

(* handleStream reads the row, then calls Transcode.                        *)
Ask(r, g) ==
  /\ req[r].pc = "idle"
  /\ req' = [req EXCEPT ![r] = [NoRequest EXCEPT !.pc = "stat", !.song = g,
                                  !.updated = row[g].updated, !.wanted = row[g].version]]
  /\ UNCHANGED <<now, object, row, cacheVars, sweepVars, faults, unswept>>

(* Mistake: any cached file is fresh.                                       *)
FreshAlways(f, updated) == There(f)

Fresh(f, updated) == There(f) /\ f.mtime > updated - Slack

(* The first look, without the mutex.                                       *)
StatCache(r) ==
  LET g == req[r].song IN
  /\ req[r].pc = "stat"
  /\ req' = [req EXCEPT ![r] =
       IF Fresh(files[g], req[r].updated) THEN [@ EXCEPT !.pc = "hit", !.path = g]
                                          ELSE [@ EXCEPT !.pc = "wait"]]
  /\ UNCHANGED <<now, object, row, cacheVars, sweepVars, faults, unswept>>

(* Mistakes: a mutex per request; no second look.                           *)
NotFlying(g) == TRUE
NoSecondLook(r) == FALSE

Landed(g) == flight[g] = None
SecondLook(r) == Fresh(files[req[r].song], req[r].updated)

(* flight(song).Lock and the second look.                                   *)
EnterFlight(r) ==
  LET g == req[r].song IN
  /\ req[r].pc = "wait" /\ Landed(g)
  /\ flight' = [flight EXCEPT ![g] = r]
  /\ req' = [req EXCEPT ![r] =
       IF SecondLook(r) THEN [@ EXCEPT !.pc = "serve", !.path = g] ELSE [@ EXCEPT !.pc = "temp"]]
  /\ UNCHANGED <<now, object, row, files, sweepVars, faults, unswept>>

CreateTemp(r) ==
  /\ req[r].pc = "temp"
  /\ files' = [files EXCEPT ![r] = [NoFile EXCEPT !.mtime = now]]
  /\ Goto(r, "open")
  /\ UNCHANGED <<now, object, row, flight, sweepVars, faults, unswept>>

(* Mistake: ffmpeg writes straight into the cache file.                     *)
OutputInPlace(r) == req[r].song
Output(r) == r

(* storage.Open fixes the version; ffmpeg -y creates its output, also when  *)
(* the temporary file has been removed.                                     *)
StartEncode(r) ==
  LET v == object[req[r].song] IN
  /\ req[r].pc = "open"
  /\ files' = [files EXCEPT ![Output(r)] =
                 [mtime |-> now, size |-> 1, version |-> v, whole |-> FALSE]]
  /\ req' = [req EXCEPT ![r] = [@ EXCEPT !.pc = "encode", !.source = v]]
  /\ UNCHANGED <<now, object, row, flight, sweepVars, faults, unswept>>

(* ffmpeg ends well; a file removed meanwhile stays removed.                *)
FinishEncode(r) ==
  /\ req[r].pc = "encode"
  /\ files' = IF There(files[Output(r)])
                THEN [files EXCEPT ![Output(r)] = [@ EXCEPT !.mtime = now, !.whole = TRUE]]
                ELSE files
  /\ Goto(r, "rename")
  /\ UNCHANGED <<now, object, row, flight, sweepVars, faults, unswept>>

(* When the rename fails the temporary file is to be served.                *)
Rename(r) ==
  LET g == req[r].song IN
  /\ req[r].pc = "rename"
  /\ \/ /\ There(files[r])
        /\ files' = [files EXCEPT ![g] = files[r], ![r] = NoFile]
        /\ req' = [req EXCEPT ![r] = [@ EXCEPT !.pc = "list", !.path = g]]
        /\ UNCHANGED faults
     \/ /\ IF There(files[r]) THEN Fault ELSE UNCHANGED faults
        /\ req' = [req EXCEPT ![r] = [@ EXCEPT !.pc = "list", !.path = r]]
        /\ UNCHANGED files
  /\ UNCHANGED <<now, object, row, flight, sweepVars, unswept>>

OverLimit(n) == n > Limit

Size == Cardinality({n \in Names : There(files[n]) /\ files[n].size = 1})

(* enforceCacheLimit reads the directory ...                                *)
ListFiles(r) ==
  /\ req[r].pc = "list"
  /\ unswept' = FALSE
  /\ IF Limit # 0 /\ OverLimit(Size)
       THEN /\ victims' = [victims EXCEPT ![r] = [n \in Names |-> files[n].mtime]]
            /\ total' = [total EXCEPT ![r] = Size]
            /\ Goto(r, "evict")
       ELSE Goto(r, "serve") /\ UNCHANGED sweepVars
  /\ UNCHANGED <<now, object, row, cacheVars, faults>>

Listed(r) == {n \in Names : victims[r][n] # 0}

(* Mistake: what another sweep has already removed counts as freed again.   *)
FreedListed(n) == 1

(* What removing n frees, as a Stat just before it finds.                   *)
Freed(n) == files[n].size

(* ... and removes file by file, oldest first, by name.                     *)
Evict(r) ==
  /\ req[r].pc = "evict"
  /\ \/ /\ OverLimit(total[r])
        /\ \E n \in Listed(r) :
             /\ \A m \in Listed(r) : victims[r][n] <= victims[r][m]
             /\ total' = [total EXCEPT ![r] = @ - Freed(n)]
             /\ victims' = [victims EXCEPT ![r][n] = 0]
             /\ files' = [files EXCEPT ![n] = NoFile]
        /\ UNCHANGED req
     \/ /\ ~OverLimit(total[r]) \/ Listed(r) = {}
        /\ victims' = [victims EXCEPT ![r] = NoVictims]
        /\ total' = [total EXCEPT ![r] = 0]
        /\ Goto(r, "serve")
        /\ UNCHANGED files
  /\ UNCHANGED <<now, object, row, flight, faults, unswept>>

(* Mistake: a failing transcoding keeps the mutex.                          *)
LeaveFlying(r) == flight

LeaveFlight(r) == [g \in Songs |-> IF flight[g] = r THEN None ELSE flight[g]]

(* The deferred calls: remove the temporary file, unlock.                   *)
Return(r) ==
  /\ req' = [req EXCEPT ![r] = NoRequest]
  /\ files' = [files EXCEPT ![r] = NoFile]
  /\ flight' = LeaveFlight(r)

(* http.ServeFile: sends the file that is at the path now, if any.          *)
Serving(r) == req[r].pc \in {"hit", "serve"}

Serve(r) ==
  /\ Serving(r)
  /\ Return(r)
  /\ UNCHANGED <<now, object, row, sweepVars, faults, unswept>>

(* No temporary file, no object, a failing ffmpeg, a client that leaves.    *)
Fail(r) ==
  /\ req[r].pc \in {"temp", "open", "encode"}
  /\ Fault
  /\ Return(r)
  /\ unswept' = (unswept \/ req[r].pc = "encode")
  /\ UNCHANGED <<now, object, row, sweepVars>>

(* The process restarts: the directory stays, under names nobody will use   *)
(* again (bound: one such file per request slot).                           *)
Crash ==
  /\ \A r \in Requests : ~(There(files[r]) /\ There(files[<<r, "left">>]))
  /\ Fault
  /\ files' = [n \in Names |-> IF n \in Requests THEN NoFile
                              ELSE IF n \in Left /\ There(files[n[1]]) THEN files[n[1]]
                              ELSE files[n]]
  /\ flight' = [g \in Songs |-> None]
  /\ req' = [r \in Requests |-> NoRequest]
  /\ victims' = [r \in Requests |-> NoVictims]
  /\ total' = [r \in Requests |-> 0]
  /\ unswept' = TRUE
  /\ UNCHANGED <<now, object, row>>

TranscodeStep(r) ==
  \/ StatCache(r) \/ CreateTemp(r) \/ StartEncode(r) \/ FinishEncode(r) \/ Rename(r)
  \/ ListFiles(r) \/ Evict(r) \/ Serve(r)

Next ==
  \/ Tick
  \/ \E g \in Songs : Rewrite(g) \/ Reindex(g)
  \/ \E r \in Requests, g \in Songs : Ask(r, g)
  \/ \E r \in Requests : TranscodeStep(r) \/ EnterFlight(r) \/ Fail(r)
  \/ Crash

Spec == Init /\ [][Next]_vars

(* Handlers run on; clients read their answers; sync.Mutex starves no one.  *)
Fairness == \A r \in Requests : WF_vars(TranscodeStep(r)) /\ SF_vars(EnterFlight(r))

FairSpec == Spec /\ Fairness

-----------------------------------------------------------------------------
(* What the cache promises.                                                 *)

Cached(g) == There(files[g])

(* Nobody transcodes what is already there: while a request is at it, the   *)
(* song has no cached file that it would have accepted (stream.go:78-87).   *)
NoWastedTranscode ==
  \A r \in Requests : req[r].pc \in {"temp", "open", "encode", "rename"} =>
    ~(Cached(req[r].song) /\ files[req[r].song].mtime > req[r].updated - Slack)

(* What r is sent if it opens its file now; There when it gets one.         *)
Sent(r) == files[req[r].path]

(* No half-written file is ever served, whatever failed, was killed or was  *)
(* evicted before (stream.go:89-117).                                       *)
ServedWhole == \A r \in Requests : Serving(r) /\ There(Sent(r)) => Sent(r).whole

(* An outdated file is served only if it was finished less than the slack   *)
(* before the row it should match was updated, or later (stream.go:121).    *)
StaleOnlyBySlack ==
  \A r \in Requests : Serving(r) /\ There(Sent(r)) =>
    Sent(r).version >= req[r].wanted \/ Sent(r).mtime > req[r].updated - Slack

(* The test for freshness is neither too strict nor too lax.                *)
FreshnessSound == NoWastedTranscode /\ StaleOnlyBySlack

(* A transcoding never puts an older version over a newer one, although it  *)
(* read its source long before (stream.go:78, 97, 112).                     *)
CacheNeverOlder ==
  [][\A g \in Songs : Cached(g) /\ Cached(g)' => files'[g].version >= files[g].version]_vars

(* Types, and whole files.                                                  *)
Sound == TypeOK /\ ServedWhole

(* Sweeps run side by side, on directories that change under them; once all *)
(* are done the cache is within its limit, unless since the last listing a  *)
(* request was kept from its own sweep (stream.go:148).                     *)
CacheFitsWhenQuiet ==
  Limit # 0 /\ ~unswept /\ (\A r \in Requests : req[r].pc = "idle") => Size <= Limit

(* Every request is answered, behind any number of others for its song,     *)
(* failing ones too (stream.go:79-80).                                      *)
EveryRequestAnswered == \A r \in Requests : req[r].pc # "idle" ~> req[r].pc = "idle"

(* stream.go:62-63: "using the on-disk cache keyed by song id + file mtime" *)
(* - so a changed file would not be answered with the transcoding of the    *)
(* old one.                                                                 *)
ServesCurrent ==
  \A r \in Requests : Serving(r) /\ There(Sent(r)) => Sent(r).version >= req[r].wanted

(* stream.go:62: "Transcode writes an mp3 version of the song to w" - when  *)
(* nothing fails.                                                           *)
TranscodeServes == \A r \in Requests : Serving(r) => There(Sent(r))

(* stream.go:147: "removes oldest files once the dir exceeds the limit".  A *)
(* sweep that finds a file larger than it listed it counts more as freed    *)
(* than it ever counted, and stops early; the file's own request would      *)
(* sweep again, but not when its ffmpeg fails.                              *)
LimitKept == Limit # 0 /\ (\A r \in Requests : req[r].pc = "idle") => Size <= Limit
=============================================================================
