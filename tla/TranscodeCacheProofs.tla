------------------------- MODULE TranscodeCacheProofs -------------------------
(*****************************************************************************)
(* Proofs about TranscodeCache, for every set of songs and requests, every   *)
(* limit and slack, and any number of writes, failures and crashes.          *)
(*                                                                           *)
(* The state predicates below are the inductive invariant.  TempInv relates  *)
(* the file a request is writing to the one it will replace, HitInv what a   *)
(* request has found without the mutex to what may be put there before it    *)
(* opens the file, SweepInv the sweeps of all requests to the directory.     *)
(*****************************************************************************)
EXTENDS TranscodeCache, TLAPS, FiniteSetTheorems

Busy == {"temp", "open", "encode", "rename", "list", "evict", "serve"}

(* Who is past the mutex holds it.                                          *)
FlightInv ==
  /\ \A r \in Requests : req[r].pc \in Busy => flight[req[r].song] = r
  /\ \A g \in Songs : flight[g] # None =>
       req[flight[g]].song = g /\ req[flight[g]].pc \in Busy

TimeInv ==
  /\ now >= 1
  /\ \A n \in Names : files[n].mtime <= now /\ (files[n].size = 1 => There(files[n]))
  /\ \A g \in Songs : row[g].updated <= now /\ row[g].version <= object[g]
  /\ \A r \in Requests : req[r].pc # "idle" =>
       req[r].updated <= now /\ req[r].wanted <= object[req[r].song]

SongFileInv ==
  \A g \in Songs : Cached(g) => files[g].whole /\ files[g].version <= object[g]

(* The file being written is no older than the row and the cached file.     *)
TempInv ==
  \A r \in Requests : req[r].pc \in {"encode", "rename"} /\ There(files[r]) =>
    /\ req[r].wanted <= files[r].version /\ files[r].version <= object[req[r].song]
    /\ Cached(req[r].song) => files[req[r].song].version <= files[r].version
    /\ req[r].pc = "rename" =>
         files[r].whole /\ (Cached(req[r].song) => files[req[r].song].mtime <= files[r].mtime)

Late(f, r) == f.mtime > req[r].updated - Slack

Fits(f, r) == f.version >= req[r].wanted \/ Late(f, r)

(* Who holds the mutex serves what was found or made under it.              *)
PathInv ==
  \A r \in Requests : req[r].pc \in {"list", "evict", "serve"} =>
    /\ req[r].path \in {req[r].song, r}
    /\ There(Sent(r)) => Sent(r).whole /\ Fits(Sent(r), r)

(* Who does not hold it serves the file he saw, or a later one.             *)
HitInv ==
  \A r \in Requests : req[r].pc = "hit" =>
    /\ req[r].path = req[r].song
    /\ now > req[r].updated - Slack
    /\ Cached(req[r].song) => Late(files[req[r].song], r)
    /\ \A q \in Requests :
         req[q].pc = "rename" /\ req[q].song = req[r].song /\ There(files[q]) => Late(files[q], r)

Sized == {n \in Names : There(files[n]) /\ files[n].size = 1}

(* Somebody will sweep, or somebody sweeps who has counted all there is, or *)
(* there is room.                                                           *)
SweepInv ==
  Limit # 0 /\ ~unswept =>
    \/ \E r \in Requests : req[r].pc \in {"encode", "rename", "list"}
    \/ \E r \in Requests : req[r].pc = "evict" /\ Sized \subseteq Listed(r) /\ Size <= total[r]
    \/ Size <= Limit

FileInv == TimeInv /\ SongFileInv /\ TempInv /\ PathInv /\ HitInv /\ NoWastedTranscode

IInv == TypeOK /\ FlightInv /\ FileInv /\ SweepInv

-----------------------------------------------------------------------------
(* Type correctness.                                                        *)

LEMMA NameSets == Songs \subseteq Names /\ Requests \subseteq Names /\ Left \subseteq Names
BY DEF Names

LEMMA FileFacts ==
  /\ NoFile \in File /\ ~There(NoFile)
  /\ \A m, v \in Nat, w \in BOOLEAN : [mtime |-> m, size |-> 1, version |-> v, whole |-> w] \in File
BY DEF NoFile, File, There

LEMMA SizeType == Size \in Nat /\ Size = Cardinality(Sized) /\ IsFiniteSet(Sized)
<1>1. Sized \subseteq Names  BY DEF Sized
<1>2. IsFiniteSet(Sized)  BY <1>1, TranscodeAssumption, FS_Subset
<1> QED  BY <1>2, FS_CardinalityType DEF Size, Sized

LEMMA IdleRequest == NoRequest \in Request /\ NoRequest.pc = "idle"
BY DEF NoRequest, Request, PC

RequestType(f) ==
  f \in [Requests -> Request] /\ \A r \in Requests : f[r].pc # "idle" => f[r].song \in Songs

(* A request goes on with another position, source and path.                *)
LEMMA MoveType ==
  ASSUME TypeOK, NEW r \in Requests, NEW p \in PC, NEW v \in Nat, NEW n \in Names \cup {None},
         req[r].pc # "idle",
         \/ req' = [req EXCEPT ![r].pc = p]
         \/ req' = [req EXCEPT ![r] = [@ EXCEPT !.pc = p]]
         \/ req' = [req EXCEPT ![r] = [@ EXCEPT !.pc = p, !.path = n]]
         \/ req' = [req EXCEPT ![r] = [@ EXCEPT !.pc = p, !.source = v]]
  PROVE  RequestType(req')
<1>1. req \in [Requests -> Request] /\ req[r] \in Request /\ req[r].song \in Songs
  BY DEF TypeOK
<1>2. \E q \in Request : q.song = req[r].song /\ req' = [req EXCEPT ![r] = q]
  <2>1. [req[r] EXCEPT !.pc = p] \in Request /\ [req[r] EXCEPT !.pc = p].song = req[r].song
    BY <1>1 DEF Request
  <2>2. /\ [req[r] EXCEPT !.pc = p, !.path = n] \in Request
        /\ [req[r] EXCEPT !.pc = p, !.path = n].song = req[r].song
    BY <1>1 DEF Request
  <2>3. /\ [req[r] EXCEPT !.pc = p, !.source = v] \in Request
        /\ [req[r] EXCEPT !.pc = p, !.source = v].song = req[r].song
    BY <1>1 DEF Request
  <2> QED  BY <1>1, <2>1, <2>2, <2>3
<1> QED  BY <1>1, <1>2 DEF TypeOK, RequestType

LEMMA ReturnType ==
  ASSUME TypeOK, NEW r \in Requests, Return(r)
  PROVE  RequestType(req') /\ files' \in [Names -> File] /\ flight' \in [Songs -> Requests \cup {None}]
BY IdleRequest, FileFacts, NameSets DEF TypeOK, Return, LeaveFlight, RequestType

LEMMA InitType == Init => TypeOK
<1> SUFFICES ASSUME Init PROVE TypeOK
  OBVIOUS
<1>1. files \in [Names -> File]  BY FileFacts DEF Init
<1>2. RequestType(req)  BY IdleRequest DEF Init, RequestType
<1>3. victims \in [Requests -> [Names -> Nat]]  BY DEF Init, NoVictims
<1>4. row \in [Songs -> Row]  BY DEF Init, Row
<1> QED  BY <1>1, <1>2, <1>3, <1>4 DEF Init, TypeOK, RequestType

LEMMA StepType == TypeOK /\ [Next]_vars => TypeOK'
<1> SUFFICES ASSUME TypeOK, [Next]_vars PROVE TypeOK'
  OBVIOUS
<1> USE TranscodeAssumption, NameSets
<1>1. CASE Tick
  BY <1>1 DEF Tick, TypeOK, cacheVars, sweepVars
<1>2. ASSUME NEW g \in Songs, Rewrite(g) PROVE TypeOK'
  BY <1>2 DEF Rewrite, TypeOK, cacheVars, sweepVars
<1>3. ASSUME NEW g \in Songs, Reindex(g) PROVE TypeOK'
  BY <1>3 DEF Reindex, TypeOK, Row, cacheVars, sweepVars
<1>4. ASSUME NEW r \in Requests, NEW g \in Songs, Ask(r, g) PROVE TypeOK'
  <2> DEFINE new == [NoRequest EXCEPT !.pc = "stat", !.song = g,
                       !.updated = row[g].updated, !.wanted = row[g].version]
  <2>1. new \in Request /\ new.song \in Songs
    <3>1. row[g] \in Row  BY DEF TypeOK
    <3> QED  BY <3>1 DEF NoRequest, Request, PC, Row
  <2>2. req' = [req EXCEPT ![r] = new]  BY <1>4 DEF Ask
  <2> HIDE DEF new
  <2>3. RequestType(req')  BY <2>1, <2>2 DEF TypeOK, RequestType
  <2> QED  BY <1>4, <2>3 DEF Ask, TypeOK, RequestType, cacheVars, sweepVars
<1>5. ASSUME NEW r \in Requests, StatCache(r) PROVE TypeOK'
  <2>1. req[r].song \in Songs /\ "hit" \in PC /\ "wait" \in PC
    BY <1>5 DEF StatCache, TypeOK, PC
  <2>2. RequestType(req')
    <3>1. CASE Fresh(files[req[r].song], req[r].updated)
      BY <1>5, <2>1, <3>1, MoveType DEF StatCache
    <3>2. CASE ~Fresh(files[req[r].song], req[r].updated)
      BY <1>5, <2>1, <3>2, MoveType DEF StatCache
    <3> QED  BY <3>1, <3>2
  <2> QED  BY <1>5, <2>2 DEF StatCache, TypeOK, RequestType, cacheVars, sweepVars
<1>6. ASSUME NEW r \in Requests, EnterFlight(r) PROVE TypeOK'
  <2>1. req[r].song \in Songs /\ "serve" \in PC /\ "temp" \in PC
    BY <1>6 DEF EnterFlight, TypeOK, PC
  <2>2. RequestType(req')
    <3>1. CASE SecondLook(r)
      BY <1>6, <2>1, <3>1, MoveType DEF EnterFlight
    <3>2. CASE ~SecondLook(r)
      BY <1>6, <2>1, <3>2, MoveType DEF EnterFlight
    <3> QED  BY <3>1, <3>2
  <2> QED  BY <1>6, <2>2 DEF EnterFlight, TypeOK, RequestType, sweepVars
<1>7. ASSUME NEW r \in Requests, CreateTemp(r) PROVE TypeOK'
  <2>1. RequestType(req')
    BY <1>7, MoveType DEF CreateTemp, Goto, PC
  <2>2. files' \in [Names -> File]
    BY <1>7 DEF CreateTemp, TypeOK, File, NoFile
  <2> QED  BY <1>7, <2>1, <2>2 DEF CreateTemp, TypeOK, RequestType, sweepVars
<1>8. ASSUME NEW r \in Requests, StartEncode(r) PROVE TypeOK'
  <2>1. object[req[r].song] \in Nat  BY <1>8 DEF StartEncode, TypeOK
  <2>2. RequestType(req')
    BY <1>8, <2>1, MoveType DEF StartEncode, PC
  <2>3. files' \in [Names -> File]
    BY <1>8, <2>1, FileFacts DEF StartEncode, Output, TypeOK
  <2> QED  BY <1>8, <2>2, <2>3 DEF StartEncode, TypeOK, RequestType, sweepVars
<1>9. ASSUME NEW r \in Requests, FinishEncode(r) PROVE TypeOK'
  <2>1. RequestType(req')
    BY <1>9, MoveType DEF FinishEncode, Goto, PC
  <2>2. [files[r] EXCEPT !.mtime = now, !.whole = TRUE] \in File
    <3>1. files[r] \in File /\ now \in Nat  BY DEF TypeOK
    <3> QED  BY <3>1 DEF File
  <2>3. files' \in [Names -> File]
    BY <1>9, <2>2 DEF FinishEncode, Output, TypeOK
  <2> QED  BY <1>9, <2>1, <2>3 DEF FinishEncode, TypeOK, RequestType, sweepVars
<1>10. ASSUME NEW r \in Requests, Rename(r) PROVE TypeOK'
  <2>1. req[r].song \in Songs  BY <1>10 DEF Rename, TypeOK
  <2>2. RequestType(req')
    BY <1>10, <2>1, MoveType DEF Rename, PC
  <2>3. files' \in [Names -> File]
    <3>1. files[r] \in File /\ files \in [Names -> File]  BY DEF TypeOK
    <3>2. \/ files' = [files EXCEPT ![req[r].song] = files[r], ![r] = NoFile]
          \/ files' = files
      BY <1>10 DEF Rename
    <3> QED  BY <2>1, <3>1, <3>2, FileFacts
  <2>4. faults' \in Nat  BY <1>10 DEF Rename, Fault, TypeOK
  <2> QED  BY <1>10, <2>2, <2>3, <2>4 DEF Rename, TypeOK, RequestType, sweepVars
<1>11. ASSUME NEW r \in Requests, ListFiles(r) PROVE TypeOK'
  <2>1. RequestType(req')
    BY <1>11, MoveType DEF ListFiles, Goto, PC
  <2>2. [n \in Names |-> files[n].mtime] \in [Names -> Nat]  BY DEF TypeOK, File
  <2>3. victims' \in [Requests -> [Names -> Nat]]
    <3>1. PICK m \in [Names -> Nat] : m = [n \in Names |-> files[n].mtime]  BY <2>2
    <3>2. victims' = [victims EXCEPT ![r] = m] \/ victims' = victims
      BY <1>11, <3>1 DEF ListFiles, sweepVars
    <3>3. victims \in [Requests -> [Names -> Nat]]  BY DEF TypeOK
    <3> QED  BY <3>2, <3>3
  <2>4. total' \in [Requests -> Nat]
    <3>1. total \in [Requests -> Nat] /\ Size \in Nat  BY SizeType DEF TypeOK
    <3>2. total' = [total EXCEPT ![r] = Size] \/ total' = total
      BY <1>11 DEF ListFiles, sweepVars
    <3> QED  BY <3>1, <3>2
  <2> QED  BY <1>11, <2>1, <2>3, <2>4 DEF ListFiles, TypeOK, RequestType, cacheVars
<1>12. ASSUME NEW r \in Requests, Evict(r) PROVE TypeOK'
  <2>1. CASE /\ OverLimit(total[r])
             /\ \E n \in Listed(r) :
                  /\ total' = [total EXCEPT ![r] = @ - Freed(n)]
                  /\ victims' = [victims EXCEPT ![r][n] = 0]
                  /\ files' = [files EXCEPT ![n] = NoFile]
             /\ UNCHANGED req
    <3>1. PICK n \in Listed(r) :
                  /\ total' = [total EXCEPT ![r] = @ - Freed(n)]
                  /\ victims' = [victims EXCEPT ![r][n] = 0]
                  /\ files' = [files EXCEPT ![n] = NoFile]
      BY <2>1
    <3>2. n \in Names /\ Freed(n) \in {0, 1}  BY DEF Listed, Freed, TypeOK, File
    <3>3. total[r] - Freed(n) \in Nat  BY <2>1, <3>2 DEF OverLimit, TypeOK
    <3>4. total' \in [Requests -> Nat]  BY <3>1, <3>3 DEF TypeOK
    <3>5. victims' \in [Requests -> [Names -> Nat]]  BY <3>1, <3>2 DEF TypeOK
    <3>6. files' \in [Names -> File]  BY <3>1, <3>2, FileFacts DEF TypeOK
    <3> QED  BY <1>12, <2>1, <3>4, <3>5, <3>6 DEF Evict, TypeOK
  <2>2. CASE /\ victims' = [victims EXCEPT ![r] = NoVictims]
             /\ total' = [total EXCEPT ![r] = 0]
             /\ Goto(r, "serve")
             /\ UNCHANGED files
    <3>1. RequestType(req')
      BY <1>12, <2>2, MoveType DEF Evict, Goto, PC
    <3> QED  BY <1>12, <2>2, <3>1 DEF Evict, TypeOK, RequestType, NoVictims
  <2> QED  BY <1>12, <2>1, <2>2 DEF Evict
<1>13. ASSUME NEW r \in Requests, Serve(r) PROVE TypeOK'
  BY <1>13, ReturnType DEF Serve, TypeOK, RequestType, sweepVars
<1>14. ASSUME NEW r \in Requests, Fail(r) PROVE TypeOK'
  BY <1>14, ReturnType DEF Fail, Fault, TypeOK, RequestType, sweepVars
<1>15. CASE Crash
  <2>1. files' \in [Names -> File]
    <3>1. \A n \in Left : n[1] \in Requests  BY DEF Left
    <3> QED  BY <1>15, <3>1, FileFacts DEF Crash, TypeOK
  <2>2. RequestType(req')  BY <1>15, IdleRequest DEF Crash, RequestType
  <2> QED  BY <1>15, <2>1, <2>2 DEF Crash, Fault, TypeOK, RequestType, NoVictims
<1>16. CASE UNCHANGED vars
  BY <1>16 DEF vars, cacheVars, sweepVars, TypeOK
<1> QED
  BY <1>1, <1>2, <1>3, <1>4, <1>5, <1>6, <1>7, <1>8, <1>9, <1>10, <1>11, <1>12, <1>13,
     <1>14, <1>15, <1>16
  DEF Next, TranscodeStep

-----------------------------------------------------------------------------
(* Where a request goes.                                                    *)

(* r goes on to p, with n as the file to be served.                         *)
Moved(r, p, n) ==
  /\ req'[r].pc = p /\ req'[r].path = n
  /\ req'[r].song = req[r].song /\ req'[r].updated = req[r].updated
  /\ req'[r].wanted = req[r].wanted
  /\ \A q \in Requests \ {r} : req'[q] = req[q]

LEMMA GotoMoves ==
  ASSUME TypeOK, NEW r \in Requests, NEW p \in PC, Goto(r, p)
  PROVE  Moved(r, p, req[r].path)
<1>1. req[r] \in Request  BY DEF TypeOK
<1>2. req' = [req EXCEPT ![r] = [req[r] EXCEPT !.pc = p]]  BY DEF Goto
<1> QED  BY <1>1, <1>2 DEF TypeOK, Moved, Request

LEMMA PathMoves ==
  ASSUME TypeOK, NEW r \in Requests, NEW p \in PC, NEW n \in Names \cup {None},
         req' = [req EXCEPT ![r] = [@ EXCEPT !.pc = p, !.path = n]]
  PROVE  Moved(r, p, n)
<1>1. req[r] \in Request  BY DEF TypeOK
<1> DEFINE new == [req[r] EXCEPT !.pc = p, !.path = n]
<1>2. /\ new.pc = p /\ new.path = n /\ new.song = req[r].song
      /\ new.updated = req[r].updated /\ new.wanted = req[r].wanted
  BY <1>1 DEF Request
<1>3. req' = [req EXCEPT ![r] = new]  OBVIOUS
<1> HIDE DEF new
<1> QED  BY <1>2, <1>3 DEF TypeOK, Moved

LEMMA SourceMoves ==
  ASSUME TypeOK, NEW r \in Requests, NEW p \in PC, NEW v \in Nat,
         req' = [req EXCEPT ![r] = [@ EXCEPT !.pc = p, !.source = v]]
  PROVE  Moved(r, p, req[r].path)
<1>1. req[r] \in Request  BY DEF TypeOK
<1> DEFINE new == [req[r] EXCEPT !.pc = p, !.source = v]
<1>2. /\ new.pc = p /\ new.path = req[r].path /\ new.song = req[r].song
      /\ new.updated = req[r].updated /\ new.wanted = req[r].wanted
  BY <1>1 DEF Request
<1>3. req' = [req EXCEPT ![r] = new]  OBVIOUS
<1> HIDE DEF new
<1> QED  BY <1>2, <1>3 DEF TypeOK, Moved

LEMMA StepMoves ==
  ASSUME TypeOK, NEW r \in Requests, req[r].pc # "idle"
  PROVE  /\ StatCache(r) => IF Fresh(files[req[r].song], req[r].updated)
                              THEN Moved(r, "hit", req[r].song)
                              ELSE Moved(r, "wait", req[r].path)
         /\ EnterFlight(r) => IF Fresh(files[req[r].song], req[r].updated)
                              THEN Moved(r, "serve", req[r].song)
                              ELSE Moved(r, "temp", req[r].path)
         /\ CreateTemp(r) => Moved(r, "open", req[r].path)
         /\ StartEncode(r) => Moved(r, "encode", req[r].path)
         /\ FinishEncode(r) => Moved(r, "rename", req[r].path)
         /\ Rename(r) => Moved(r, "list", req[r].song) \/ Moved(r, "list", r)
         /\ ListFiles(r) => Moved(r, "evict", req[r].path) \/ Moved(r, "serve", req[r].path)
         /\ Evict(r) => UNCHANGED req \/ Moved(r, "serve", req[r].path)
<1> USE NameSets
<1>1. req[r].song \in Songs  BY DEF TypeOK
<1>2. object[req[r].song] \in Nat  BY <1>1 DEF TypeOK
<1>3. {"hit", "wait", "serve", "temp", "open", "encode", "rename", "list", "evict"} \subseteq PC
  BY DEF PC
<1>4. ASSUME NEW p \in PC, req' = [req EXCEPT ![r] = [@ EXCEPT !.pc = p]]
      PROVE  Moved(r, p, req[r].path)
  BY <1>4, GotoMoves DEF Goto
<1>5. StatCache(r) => IF Fresh(files[req[r].song], req[r].updated)
                        THEN Moved(r, "hit", req[r].song) ELSE Moved(r, "wait", req[r].path)
  BY <1>1, <1>3, <1>4, PathMoves DEF StatCache
<1>6. EnterFlight(r) => IF Fresh(files[req[r].song], req[r].updated)
                          THEN Moved(r, "serve", req[r].song) ELSE Moved(r, "temp", req[r].path)
  BY <1>1, <1>3, <1>4, PathMoves DEF EnterFlight, SecondLook
<1>7. Rename(r) => Moved(r, "list", req[r].song) \/ Moved(r, "list", r)
  BY <1>1, <1>3, PathMoves DEF Rename
<1>8. StartEncode(r) => Moved(r, "encode", req[r].path)
  BY <1>2, <1>3, SourceMoves DEF StartEncode
<1>9. /\ CreateTemp(r) => Moved(r, "open", req[r].path)
      /\ FinishEncode(r) => Moved(r, "rename", req[r].path)
      /\ ListFiles(r) => Moved(r, "evict", req[r].path) \/ Moved(r, "serve", req[r].path)
      /\ Evict(r) => UNCHANGED req \/ Moved(r, "serve", req[r].path)
  BY <1>3, GotoMoves DEF CreateTemp, FinishEncode, ListFiles, Evict
<1> QED  BY <1>5, <1>6, <1>7, <1>8, <1>9

LEMMA ReturnMoves ==
  ASSUME TypeOK, NEW r \in Requests, Return(r)
  PROVE  /\ req'[r].pc = "idle" /\ \A q \in Requests \ {r} : req'[q] = req[q]
         /\ \A g \in Songs : flight'[g] = IF flight[g] = r THEN None ELSE flight[g]
         /\ ~There(files'[r]) /\ \A n \in Names \ {r} : files'[n] = files[n]
BY IdleRequest, FileFacts, NameSets DEF TypeOK, Return, LeaveFlight

LEMMA AskMoves ==
  ASSUME TypeOK, NEW r \in Requests, NEW g \in Songs, Ask(r, g)
  PROVE  /\ req'[r].pc = "stat" /\ req'[r].song = g /\ req'[r].updated = row[g].updated
         /\ req'[r].wanted = row[g].version
         /\ \A q \in Requests \ {r} : req'[q] = req[q]
<1> DEFINE new == [NoRequest EXCEPT !.pc = "stat", !.song = g,
                     !.updated = row[g].updated, !.wanted = row[g].version]
<1>1. /\ new.pc = "stat" /\ new.song = g /\ new.updated = row[g].updated
      /\ new.wanted = row[g].version
  BY DEF NoRequest
<1>2. req' = [req EXCEPT ![r] = new]  BY DEF Ask
<1> HIDE DEF new
<1> QED  BY <1>1, <1>2 DEF TypeOK

-----------------------------------------------------------------------------
(* The mutex.                                                               *)

LEMMA FlightStep == TypeOK /\ FlightInv /\ [Next]_vars => FlightInv'
<1> SUFFICES ASSUME TypeOK, FlightInv, [Next]_vars PROVE FlightInv'
  OBVIOUS
<1> USE TranscodeAssumption
<1>1. None \notin Requests  BY NameSets
(* Nobody enters, leaves or changes his song.                               *)
<1> DEFINE Stays == /\ flight' = flight
                    /\ \A q \in Requests : (req'[q].pc \in Busy <=> req[q].pc \in Busy)
                         /\ (req[q].pc \in Busy => req'[q].song = req[q].song)
<1>2. Stays => FlightInv'
  <2> SUFFICES ASSUME Stays PROVE FlightInv'
    OBVIOUS
  <2>1. \A q \in Requests : req'[q].pc \in Busy => flight'[req'[q].song] = q
    BY DEF FlightInv
  <2>2. ASSUME NEW g \in Songs, flight'[g] # None
        PROVE  req'[flight'[g]].song = g /\ req'[flight'[g]].pc \in Busy
    <3>1. flight'[g] = flight[g] /\ flight[g] \in Requests  BY <2>2 DEF TypeOK
    <3>2. req[flight[g]].song = g /\ req[flight[g]].pc \in Busy
      BY <2>2, <3>1 DEF FlightInv
    <3> QED  BY <3>1, <3>2
  <2> QED  BY <2>1, <2>2 DEF FlightInv
<1>3. ASSUME NEW r \in Requests, Return(r) PROVE FlightInv'
  <2>1. /\ req'[r].pc = "idle"
        /\ \A q \in Requests \ {r} : req'[q] = req[q]
        /\ \A g \in Songs : flight'[g] = IF flight[g] = r THEN None ELSE flight[g]
    BY <1>3, ReturnMoves
  <2>2. \A q \in Requests : req'[q].pc \in Busy => flight'[req'[q].song] = q
    BY <2>1 DEF FlightInv, TypeOK, Busy
  <2>3. \A g \in Songs : flight'[g] # None =>
          req'[flight'[g]].song = g /\ req'[flight'[g]].pc \in Busy
    BY <2>1 DEF FlightInv, TypeOK
  <2> QED  BY <2>2, <2>3 DEF FlightInv
<1>4. CASE Tick \/ (\E g \in Songs : Rewrite(g) \/ Reindex(g))
  <2>1. UNCHANGED <<req, flight>>  BY <1>4 DEF Tick, Rewrite, Reindex, cacheVars
  <2> QED  BY <2>1, <1>2
<1>5. ASSUME NEW r \in Requests, NEW g \in Songs, Ask(r, g) PROVE FlightInv'
  <2>1. req[r].pc \notin Busy /\ UNCHANGED flight  BY <1>5 DEF Ask, Busy, cacheVars
  <2>2. req'[r].pc \notin Busy /\ \A q \in Requests \ {r} : req'[q] = req[q]
    BY <1>5, AskMoves DEF Busy
  <2> QED  BY <1>2, <2>1, <2>2
<1>6. ASSUME NEW r \in Requests, StatCache(r) PROVE FlightInv'
  <2>1. req[r].pc = "stat" /\ UNCHANGED flight  BY <1>6 DEF StatCache, cacheVars
  <2>2. Moved(r, "hit", req[r].song) \/ Moved(r, "wait", req[r].path)
    BY <1>6, <2>1, StepMoves
  <2>3. req'[r].pc \notin Busy /\ \A q \in Requests \ {r} : req'[q] = req[q]
    BY <2>2 DEF Moved, Busy
  <2> QED  BY <1>2, <2>1, <2>3 DEF Busy
<1>7. ASSUME NEW r \in Requests, EnterFlight(r) PROVE FlightInv'
  <2>1. /\ req'[r].pc \in {"serve", "temp"} /\ req'[r].song = req[r].song
        /\ \A q \in Requests \ {r} : req'[q] = req[q]
    BY <1>7, StepMoves DEF EnterFlight, Moved
  <2>2. req[r].song \in Songs /\ flight[req[r].song] = None
    BY <1>7 DEF EnterFlight, Landed, TypeOK
  <2>3. /\ flight'[req[r].song] = r
        /\ \A g \in Songs \ {req[r].song} : flight'[g] = flight[g]
    BY <1>7, <2>2 DEF EnterFlight, TypeOK
  <2>4. \A q \in Requests \ {r} : req[q].pc \in Busy => req[q].song \in Songs \ {req[r].song}
    BY <1>1, <2>2 DEF FlightInv, TypeOK, Busy
  <2>5. \A q \in Requests : req'[q].pc \in Busy => flight'[req'[q].song] = q
    BY <2>1, <2>3, <2>4 DEF FlightInv
  <2>6. \A g \in Songs : flight'[g] # None =>
          req'[flight'[g]].song = g /\ req'[flight'[g]].pc \in Busy
    <3>1. \A g \in Songs \ {req[r].song} : flight[g] # None => flight[g] # r
      BY <1>7 DEF FlightInv, EnterFlight, Busy
    <3> QED  BY <2>1, <2>2, <2>3, <3>1 DEF FlightInv, TypeOK, Busy
  <2> QED  BY <2>5, <2>6 DEF FlightInv
<1>8. ASSUME NEW r \in Requests,
             CreateTemp(r) \/ StartEncode(r) \/ FinishEncode(r) \/ Rename(r) \/ ListFiles(r)
               \/ Evict(r)
      PROVE  FlightInv'
  <2>1. req[r].pc \in Busy /\ UNCHANGED flight
    BY <1>8 DEF CreateTemp, StartEncode, FinishEncode, Rename, ListFiles, Evict, Busy, cacheVars
  <2>2. UNCHANGED req \/ \E p \in Busy : \E n : Moved(r, p, n)
    BY <1>8, <2>1, StepMoves DEF Busy
  <2> QED  BY <1>2, <2>1, <2>2 DEF Moved
<1>9. CASE \E r \in Requests : Serve(r) \/ Fail(r)
  BY <1>3, <1>9 DEF Serve, Fail
<1>10. CASE Crash
  BY <1>10, IdleRequest DEF Crash, FlightInv, Busy
<1>11. CASE UNCHANGED vars
  BY <1>2, <1>11 DEF vars, cacheVars
<1> QED
  BY <1>4, <1>5, <1>6, <1>7, <1>8, <1>9, <1>10, <1>11 DEF Next, TranscodeStep

-----------------------------------------------------------------------------
(* The sweeps.                                                              *)

(* Files without data or that were there keep the size within what it was.  *)
LEMMA SizeShrinks ==
  ASSUME Sized' \subseteq Sized
  PROVE  Size' <= Size /\ Size' \in Nat
<1>1. Size \in Nat /\ Size = Cardinality(Sized) /\ IsFiniteSet(Sized)  BY SizeType
<1>2. Size' = Cardinality(Sized')  BY DEF Size, Sized
<1>3. Cardinality(Sized') \in Nat /\ Cardinality(Sized') <= Cardinality(Sized)
  BY <1>1, FS_Subset, FS_CardinalityType
<1> QED  BY <1>1, <1>2, <1>3

(* Nobody turns away from the directory, and no data is added.              *)
LEMMA SweepKept ==
  ASSUME TypeOK, SweepInv, Sized' \subseteq Sized,
         UNCHANGED <<victims, total>>, unswept' = unswept \/ unswept',
         \A r \in Requests : req[r].pc \in {"encode", "rename", "list"} =>
           req'[r].pc \in {"encode", "rename", "list"} \/ unswept',
         \A r \in Requests : req[r].pc = "evict" => req'[r].pc = "evict"
  PROVE  SweepInv'
<1> SUFFICES ASSUME Limit # 0, ~unswept'
             PROVE  SweepInv!2'
  BY DEF SweepInv
<1>1. ~unswept  BY DEF TypeOK
<1>2. Size' <= Size /\ Size' \in Nat /\ Size \in Nat  BY SizeShrinks, SizeType
<1>3. CASE \E r \in Requests : req[r].pc \in {"encode", "rename", "list"}
  BY <1>3
<1>4. CASE \E r \in Requests : req[r].pc = "evict" /\ Sized \subseteq Listed(r) /\ Size <= total[r]
  <2>1. PICK r \in Requests : req[r].pc = "evict" /\ Sized \subseteq Listed(r) /\ Size <= total[r]
    BY <1>4
  <2>2. req'[r].pc = "evict" /\ Sized' \subseteq Listed(r)' /\ Size' <= total'[r]
    <3>1. total[r] \in Nat /\ total' = total  BY DEF TypeOK
    <3> QED  BY <2>1, <1>2, <3>1 DEF Listed
  <2> QED  BY <2>2
<1>5. CASE Size <= Limit
  BY <1>2, <1>5, TranscodeAssumption
<1> QED  BY <1>1, <1>3, <1>4, <1>5 DEF SweepInv

LEMMA SweepStep == TypeOK /\ TypeOK' /\ TimeInv /\ SweepInv /\ [Next]_vars => SweepInv'
<1> SUFFICES ASSUME TypeOK, TypeOK', TimeInv, SweepInv, [Next]_vars PROVE SweepInv'
  OBVIOUS
<1> USE NameSets
<1>1. ASSUME UNCHANGED files PROVE Sized' \subseteq Sized
  BY <1>1 DEF Sized
<1>2. ASSUME \A n \in Names : files'[n] = files[n] \/ ~There(files'[n]) \/ files'[n].size = 0
      PROVE  Sized' \subseteq Sized
  BY <1>2 DEF Sized
<1>3. CASE Tick \/ (\E g \in Songs : Rewrite(g) \/ Reindex(g))
  <2>1. UNCHANGED <<req, files, victims, total, unswept>>
    BY <1>3 DEF Tick, Rewrite, Reindex, cacheVars, sweepVars
  <2> QED  BY <1>1, <2>1, SweepKept
<1>4. ASSUME NEW r \in Requests, NEW g \in Songs, Ask(r, g) PROVE SweepInv'
  <2>1. UNCHANGED <<files, victims, total, unswept>> /\ req[r].pc = "idle"
    BY <1>4 DEF Ask, cacheVars, sweepVars
  <2>2. \A q \in Requests \ {r} : req'[q] = req[q]  BY <1>4, AskMoves
  <2> QED  BY <1>1, <2>1, <2>2, SweepKept
<1>5. ASSUME NEW r \in Requests, StatCache(r) \/ EnterFlight(r) PROVE SweepInv'
  <2>1. UNCHANGED <<files, victims, total, unswept>> /\ req[r].pc \in {"stat", "wait"}
    BY <1>5 DEF StatCache, EnterFlight, cacheVars, sweepVars
  <2>2. \A q \in Requests \ {r} : req'[q] = req[q]
    BY <1>5, <2>1, StepMoves DEF Moved
  <2> QED  BY <1>1, <2>1, <2>2, SweepKept
<1>6. ASSUME NEW r \in Requests, CreateTemp(r) PROVE SweepInv'
  <2>1. UNCHANGED <<victims, total, unswept>> /\ req[r].pc = "temp"
    BY <1>6 DEF CreateTemp, sweepVars
  <2>2. \A q \in Requests \ {r} : req'[q] = req[q]  BY <1>6, <2>1, StepMoves DEF Moved
  <2>3. files'[r].size = 0 /\ \A n \in Names \ {r} : files'[n] = files[n]
    BY <1>6 DEF CreateTemp, TypeOK, NoFile
  <2> QED  BY <1>2, <2>1, <2>2, <2>3, SweepKept
<1>7. ASSUME NEW r \in Requests, StartEncode(r) \/ FinishEncode(r) PROVE SweepInv'
  <2>1. req'[r].pc \in {"encode", "rename"}
    BY <1>7, StepMoves DEF StartEncode, FinishEncode, Moved
  <2> QED  BY <2>1 DEF SweepInv
<1>8. ASSUME NEW r \in Requests, Rename(r) PROVE SweepInv'
  <2>1. req'[r].pc = "list"  BY <1>8, StepMoves DEF Rename, Moved
  <2> QED  BY <2>1 DEF SweepInv
<1>9. ASSUME NEW r \in Requests, ListFiles(r) PROVE SweepInv'
  <2>1. req[r].pc = "list" /\ UNCHANGED files  BY <1>9 DEF ListFiles, cacheVars
  <2>2. Size' = Size /\ Sized' = Sized /\ Size \in Nat
    BY <2>1, SizeType DEF Size, Sized
  <2>3. CASE Limit # 0 /\ OverLimit(Size)
    <3>1. /\ victims' = [victims EXCEPT ![r] = [n \in Names |-> files[n].mtime]]
          /\ total' = [total EXCEPT ![r] = Size] /\ Goto(r, "evict")
      BY <1>9, <2>3 DEF ListFiles
    <3>2. req'[r].pc = "evict"  BY <3>1, GotoMoves DEF Moved, PC
    <3>3. total'[r] = Size  BY <3>1 DEF TypeOK
    <3>4. \A n \in Names : victims'[r][n] = files[n].mtime  BY <3>1 DEF TypeOK
    <3>5. Sized' \subseteq Listed(r)'  BY <2>2, <3>4 DEF Sized, Listed, There
    <3> QED  BY <2>2, <3>2, <3>3, <3>5 DEF SweepInv
  <2>4. CASE ~(Limit # 0 /\ OverLimit(Size))
    BY <2>2, <2>4, TranscodeAssumption DEF SweepInv, OverLimit
  <2> QED  BY <2>3, <2>4
<1>10. ASSUME NEW r \in Requests, Evict(r) PROVE SweepInv'
  <2>1. req[r].pc = "evict" /\ UNCHANGED unswept  BY <1>10 DEF Evict
  <2>2. UNCHANGED req \/ Moved(r, "serve", req[r].path)  BY <1>10, <2>1, StepMoves
  <2>3. \A q \in Requests : req[q].pc \in {"encode", "rename", "list"} => req'[q] = req[q]
    BY <2>1, <2>2 DEF Moved
  <2> SUFFICES ASSUME Limit # 0, ~unswept,
                      ~\E q \in Requests : req[q].pc \in {"encode", "rename", "list"}
               PROVE  SweepInv!2!2' \/ SweepInv!2!3'
    BY <2>1, <2>3 DEF SweepInv
  <2>0. \/ \E q \in Requests : req[q].pc = "evict" /\ Sized \subseteq Listed(q) /\ Size <= total[q]
        \/ Size <= Limit
    BY DEF SweepInv
  <2>4. CASE /\ OverLimit(total[r])
             /\ \E n \in Listed(r) :
                  /\ total' = [total EXCEPT ![r] = @ - Freed(n)]
                  /\ victims' = [victims EXCEPT ![r][n] = 0]
                  /\ files' = [files EXCEPT ![n] = NoFile]
             /\ UNCHANGED req
    <3>1. PICK n \in Listed(r) :
                  /\ total' = [total EXCEPT ![r] = @ - Freed(n)]
                  /\ victims' = [victims EXCEPT ![r][n] = 0]
                  /\ files' = [files EXCEPT ![n] = NoFile]
      BY <2>4
    <3>2. n \in Names  BY DEF Listed
    <3>3. ~There(files'[n]) /\ \A m \in Names \ {n} : files'[m] = files[m]
      BY <3>1, <3>2, FileFacts DEF TypeOK
    <3>4. Sized' = Sized \ {n}  BY <3>3 DEF Sized
    <3>5. Size \in Nat /\ Size' \in Nat /\ Size' = Size - (IF n \in Sized THEN 1 ELSE 0)
      <4>1. Size = Cardinality(Sized) /\ Size \in Nat /\ IsFiniteSet(Sized)  BY SizeType
      <4>2. Size' = Cardinality(Sized')  BY DEF Size, Sized
      <4>3. Cardinality(Sized \ {n}) = IF n \in Sized THEN Cardinality(Sized) - 1 ELSE Cardinality(Sized)
        BY <4>1, FS_RemoveElement
      <4>4. Cardinality(Sized \ {n}) \in Nat
        BY <4>1, FS_Subset, FS_CardinalityType
      <4> QED  BY <3>4, <4>1, <4>2, <4>3, <4>4
    <3>6. Freed(n) = (IF n \in Sized THEN 1 ELSE 0)
      BY <3>2 DEF Freed, Sized, TypeOK, File, TimeInv
    <3>7. CASE Size <= Limit
      BY <3>5, <3>7, TranscodeAssumption
    <3>8. ASSUME NEW q \in Requests, req[q].pc = "evict", Sized \subseteq Listed(q), Size <= total[q]
          PROVE  req'[q].pc = "evict" /\ Sized' \subseteq Listed(q)' /\ Size' <= total'[q]
      <4>1. CASE q = r
        <5>1. total'[r] = total[r] - Freed(n) /\ total[r] \in Nat  BY <3>1 DEF TypeOK
        <5>2. \A m \in Names \ {n} : victims'[r][m] = victims[r][m]
          BY <3>1, <3>2 DEF TypeOK
        <5>3. Sized' \subseteq Listed(r)'  BY <3>4, <3>8, <4>1, <5>2 DEF Listed, Sized
        <5> QED  BY <2>4, <3>5, <3>6, <3>8, <4>1, <5>1, <5>3
      <4>2. CASE q # r
        <5>1. total'[q] = total[q] /\ total[q] \in Nat /\ victims'[q] = victims[q]
          BY <3>1, <4>2 DEF TypeOK
        <5> QED  BY <2>4, <3>4, <3>5, <3>8, <5>1 DEF Listed
      <4> QED  BY <4>1, <4>2
    <3> QED  BY <2>0, <3>7, <3>8 DEF SweepInv
  <2>5. CASE /\ ~OverLimit(total[r]) \/ Listed(r) = {}
             /\ victims' = [victims EXCEPT ![r] = NoVictims]
             /\ total' = [total EXCEPT ![r] = 0]
             /\ Goto(r, "serve")
             /\ UNCHANGED files
    <3>1. Size' = Size /\ Sized' = Sized /\ Size \in Nat
      BY <2>5, SizeType DEF Size, Sized
    <3>2. CASE Size <= Limit  BY <3>1, <3>2
    <3>3. ASSUME NEW q \in Requests, req[q].pc = "evict", Sized \subseteq Listed(q), Size <= total[q]
          PROVE  \/ Size <= Limit
                 \/ req'[q].pc = "evict" /\ Sized' \subseteq Listed(q)' /\ Size' <= total'[q]
      <4>1. CASE q # r
        <5>1. total'[q] = total[q] /\ victims'[q] = victims[q] /\ req'[q] = req[q]
          BY <2>2, <2>5, <4>1 DEF TypeOK, Moved
        <5> QED  BY <3>1, <3>3, <5>1 DEF Listed
      <4>2. CASE q = r /\ ~OverLimit(total[r])
        BY <3>1, <3>3, <4>2, TranscodeAssumption DEF OverLimit, TypeOK
      <4>3. CASE q = r /\ Listed(r) = {}
        <5>1. Sized = {}  BY <3>3, <4>3
        <5>2. Size = 0  BY <5>1, SizeType, FS_EmptySet
        <5> QED  BY <5>2, TranscodeAssumption
      <4> QED  BY <2>5, <4>1, <4>2, <4>3
    <3> QED  BY <2>0, <3>1, <3>2, <3>3 DEF SweepInv
  <2> QED  BY <1>10, <2>4, <2>5 DEF Evict
<1>11. ASSUME NEW r \in Requests, Serve(r) \/ Fail(r) PROVE SweepInv'
  <2>1. /\ Return(r) /\ UNCHANGED <<victims, total>>
        /\ unswept' = unswept \/ unswept'
        /\ req[r].pc \in {"hit", "serve", "temp", "open"} \/ (req[r].pc = "encode" /\ unswept')
    BY <1>11 DEF Serve, Serving, Fail, sweepVars, TypeOK
  <2>2. /\ \A q \in Requests \ {r} : req'[q] = req[q]
        /\ \A n \in Names : files'[n] = files[n] \/ ~There(files'[n])
    BY <2>1, ReturnMoves
  <2> QED  BY <1>2, <2>1, <2>2, SweepKept
<1>12. CASE Crash
  BY <1>12 DEF Crash, SweepInv
<1>13. CASE UNCHANGED vars
  BY <1>1, <1>13, SweepKept DEF vars, cacheVars, sweepVars
<1> QED
  BY <1>3, <1>4, <1>5, <1>6, <1>7, <1>8, <1>9, <1>10, <1>11, <1>12, <1>13 DEF Next, TranscodeStep

-----------------------------------------------------------------------------
(* The files.                                                               *)

(* What the arithmetic of the steps needs.                                  *)
LEMMA Numbers ==
  ASSUME TypeOK
  PROVE  /\ now \in Nat /\ Slack \in Nat
         /\ \A g \in Songs : object[g] \in Nat /\ row[g].updated \in Nat /\ row[g].version \in Nat
         /\ \A n \in Names : files[n].mtime \in Nat /\ files[n].version \in Nat
         /\ \A r \in Requests : req[r].updated \in Nat /\ req[r].wanted \in Nat
BY TranscodeAssumption DEF TypeOK, Row, File, Request

(* Two requests past the mutex are about different songs.                   *)
LEMMA Apart ==
  ASSUME FlightInv, NEW q \in Requests, NEW r \in Requests, q # r,
         req[q].pc \in Busy, req[r].pc \in Busy
  PROVE  req[q].song # req[r].song
BY DEF FlightInv

(* Files disappear, and requests end or come closer to serving.             *)
LEMMA Winding ==
  ASSUME TypeOK, FileInv, UNCHANGED <<now, object, row>>,
         \A n \in Names : files'[n] = files[n] \/ files'[n] = NoFile,
         \A q \in Requests :
           \/ req'[q] = req[q] \/ req'[q].pc = "idle"
           \/ /\ req[q].pc \in {"list", "evict"}
              /\ \E p \in {"evict", "serve"} : Moved(q, p, req[q].path)
  PROVE  FileInv'
<1> USE NameSets, FileFacts, Numbers
<1>1. \A n \in Names : There(files'[n]) => files'[n] = files[n]
  OBVIOUS
<1>2. ASSUME NEW q \in Requests, req'[q].pc # "idle"
      PROVE  /\ req'[q].song = req[q].song /\ req'[q].updated = req[q].updated
             /\ req'[q].wanted = req[q].wanted /\ req'[q].path = req[q].path
             /\ req[q].pc # "idle"
             /\ req'[q].pc \notin {"list", "evict", "serve"} => req'[q] = req[q]
             /\ req'[q].pc \in {"list", "evict", "serve"} => req[q].pc \in {"list", "evict", "serve"}
  BY <1>2 DEF Moved
<1>3. TimeInv'
  <2>1. \A n \in Names : TimeInv!2!(n)'  BY DEF FileInv, TimeInv, NoFile, There
  <2> QED  BY <1>2, <2>1 DEF FileInv, TimeInv
<1>4. SongFileInv'  BY <1>1 DEF FileInv, SongFileInv, Cached
<1>5. ASSUME NEW q \in Requests, req'[q].pc # "idle" PROVE req[q].song \in Songs
  BY <1>2, <1>5 DEF TypeOK
<1>6. TempInv'  BY <1>1, <1>2, <1>5 DEF FileInv, TempInv, Cached
<1>7. PathInv'
  <2> SUFFICES ASSUME NEW q \in Requests, req'[q].pc \in {"list", "evict", "serve"}
               PROVE  PathInv!(q)!2'
    BY DEF PathInv
  <2>1. PathInv!(q)!2  BY <1>2 DEF FileInv, PathInv
  <2>2. req[q].path \in Names /\ req'[q].path = req[q].path  BY <1>2, <1>5, <2>1
  <2>3. There(Sent(q)') => Sent(q)' = Sent(q)  BY <1>1, <2>2 DEF Sent
  <2> QED  BY <1>2, <2>1, <2>2, <2>3 DEF Fits, Late, Sent
<1>8. HitInv'  BY <1>1, <1>2, <1>5 DEF FileInv, HitInv, Cached, Late
<1>9. NoWastedTranscode'  BY <1>1, <1>2, <1>5 DEF FileInv, NoWastedTranscode, Cached
<1> QED  BY <1>3, <1>4, <1>6, <1>7, <1>8, <1>9 DEF FileInv

(* Nothing happens in the cache, and time, objects and rows go forward.     *)
LEMMA WorldFiles ==
  ASSUME TypeOK, TypeOK', FileInv, UNCHANGED <<files, req>>,
         now <= now', \A g \in Songs : object[g] <= object'[g],
         \A g \in Songs : row'[g] = row[g] \/ row'[g] = [updated |-> now, version |-> object[g]]
  PROVE  FileInv'
<1> USE NameSets, Numbers
<1>1. now' \in Nat /\ \A g \in Songs : object'[g] \in Nat  BY DEF TypeOK
<1>2. ASSUME NEW q \in Requests, req[q].pc # "idle" PROVE req[q].song \in Songs
  BY <1>2 DEF TypeOK
<1>3. TimeInv'
  <2>1. ASSUME NEW g \in Songs PROVE TimeInv!3!(g)'
    <3>1. TimeInv!3!(g)  BY DEF FileInv, TimeInv
    <3>2. CASE row'[g] = row[g]  BY <1>1, <3>1, <3>2
    <3>3. CASE row'[g] = [updated |-> now, version |-> object[g]]
      <4>1. row'[g].updated = now /\ row'[g].version = object[g]  BY <3>3
      <4> QED  BY <1>1, <4>1
    <3> QED  BY <3>2, <3>3
  <2>2. \A n \in Names : TimeInv!2!(n)'  BY <1>1 DEF FileInv, TimeInv
  <2>3. \A q \in Requests : TimeInv!4!(q)'  BY <1>1, <1>2 DEF FileInv, TimeInv
  <2> QED  BY <1>1, <2>1, <2>2, <2>3 DEF FileInv, TimeInv
<1>4. SongFileInv'  BY <1>1 DEF FileInv, SongFileInv, Cached
<1>5. TempInv'  BY <1>1, <1>2 DEF FileInv, TempInv, Cached
<1>6. PathInv'  BY DEF FileInv, PathInv, Sent, Fits, Late
<1>7. HitInv'  BY <1>1 DEF FileInv, HitInv, Cached, Late
<1>8. NoWastedTranscode'  BY DEF FileInv, NoWastedTranscode, Cached
<1> QED  BY <1>3, <1>4, <1>5, <1>6, <1>7, <1>8 DEF FileInv

LEMMA AskFiles ==
  ASSUME TypeOK, FileInv, NEW r \in Requests, NEW g \in Songs, Ask(r, g)
  PROVE  FileInv'
<1> USE NameSets, Numbers
<1>1. /\ req'[r].pc = "stat" /\ req'[r].song = g /\ req'[r].updated = row[g].updated
      /\ req'[r].wanted = row[g].version /\ \A q \in Requests \ {r} : req'[q] = req[q]
  BY AskMoves
<1>2. UNCHANGED <<now, object, row, files>>  BY DEF Ask, cacheVars
<1>3. TimeInv'  BY <1>1, <1>2 DEF FileInv, TimeInv
<1>4. SongFileInv'  BY <1>2 DEF FileInv, SongFileInv, Cached
<1>5. TempInv'  BY <1>1, <1>2 DEF FileInv, TempInv, Cached
<1>6. PathInv'  BY <1>1, <1>2 DEF FileInv, PathInv, Sent, Fits, Late
<1>7. HitInv'  BY <1>1, <1>2 DEF FileInv, HitInv, Cached, Late
<1>8. NoWastedTranscode'  BY <1>1, <1>2 DEF FileInv, NoWastedTranscode, Cached
<1> QED  BY <1>3, <1>4, <1>5, <1>6, <1>7, <1>8 DEF FileInv

LEMMA LookFiles ==
  ASSUME TypeOK, FlightInv, FileInv, NEW r \in Requests, StatCache(r) \/ EnterFlight(r)
  PROVE  FileInv'
<1> USE NameSets, Numbers
<1> DEFINE g == req[r].song
<1>1. g \in Songs /\ req[r].pc \in {"stat", "wait"} /\ UNCHANGED <<now, object, row, files>>
  BY DEF StatCache, EnterFlight, cacheVars, TypeOK
<1>2. /\ req'[r].song = g /\ req'[r].updated = req[r].updated /\ req'[r].wanted = req[r].wanted
      /\ \A q \in Requests \ {r} : req'[q] = req[q]
      /\ IF Fresh(files[g], req[r].updated)
           THEN req'[r].path = g /\ req'[r].pc \in {"hit", "serve"}
           ELSE req'[r].pc \in {"wait", "temp"}
  <2>1. CASE StatCache(r)
    <3>1. IF Fresh(files[g], req[r].updated) THEN Moved(r, "hit", g)
                                             ELSE Moved(r, "wait", req[r].path)
      BY <1>1, <2>1, StepMoves
    <3> QED  BY <3>1 DEF Moved
  <2>2. CASE EnterFlight(r)
    <3>1. IF Fresh(files[g], req[r].updated) THEN Moved(r, "serve", g)
                                             ELSE Moved(r, "temp", req[r].path)
      BY <1>1, <2>2, StepMoves
    <3> QED  BY <3>1 DEF Moved
  <2> QED  BY <2>1, <2>2
<1>3. Fresh(files[g], req[r].updated) <=> Cached(g) /\ Late(files[g], r)
  BY DEF Fresh, Cached, Late
<1>4. now \in Nat /\ files[g].mtime <= now /\ files[g].mtime \in Nat /\ req[r].updated - Slack \in Int
  BY <1>1 DEF FileInv, TimeInv
<1> HIDE DEF g
<1>5. TimeInv'  BY <1>1, <1>2 DEF FileInv, TimeInv, g
<1>6. SongFileInv'  BY <1>1 DEF FileInv, SongFileInv, Cached
<1>7. TempInv'  BY <1>1, <1>2 DEF FileInv, TempInv, Cached
<1>8. PathInv'
  <2>1. ASSUME req'[r].pc = "serve" PROVE PathInv!(r)!2'
    <3>1. req'[r].path = g /\ Cached(g) /\ Late(files[g], r)  BY <1>2, <1>3, <2>1
    <3>2. files[g].whole  BY <1>1, <3>1 DEF FileInv, SongFileInv
    <3> QED  BY <1>1, <1>2, <3>1, <3>2 DEF Sent, Fits, Late
  <2>2. \A q \in Requests \ {r} : PathInv!(q)'
    BY <1>1, <1>2 DEF FileInv, PathInv, Sent, Fits, Late
  <2> QED  BY <1>2, <2>1, <2>2 DEF PathInv
<1>9. HitInv'
  <2>1. ASSUME req'[r].pc = "hit" PROVE HitInv!(r)!2'
    <3>1. req'[r].path = g /\ Cached(g) /\ Late(files[g], r)  BY <1>2, <1>3, <2>1
    <3>2. now > req[r].updated - Slack  BY <1>4, <3>1 DEF Late
    <3>3. ASSUME NEW q \in Requests, req'[q].pc = "rename", req'[q].song = g, There(files[q])
          PROVE  files[q].mtime > req[r].updated - Slack
      <4>1. req[q].pc = "rename" /\ req[q].song = g /\ q # r  BY <1>2, <2>1, <3>3
      <4>2. files[g].mtime <= files[q].mtime  BY <3>1, <3>3, <4>1 DEF FileInv, TempInv
      <4> QED  BY <1>4, <3>1, <4>2 DEF Late
    <3> QED  BY <1>1, <1>2, <3>1, <3>2, <3>3 DEF Late
  <2>2. ASSUME NEW q \in Requests \ {r}, req'[q].pc = "hit" PROVE HitInv!(q)!2'
    BY <1>1, <1>2, <2>2 DEF FileInv, HitInv, Cached, Late
  <2> QED  BY <2>1, <2>2 DEF HitInv
<1>10. NoWastedTranscode'
  <2>1. req'[r].pc = "temp" => ~(Cached(g) /\ Late(files[g], r))  BY <1>2, <1>3
  <2> QED  BY <1>1, <1>2, <2>1 DEF FileInv, NoWastedTranscode, Cached, Late
<1> QED  BY <1>5, <1>6, <1>7, <1>8, <1>9, <1>10 DEF FileInv

(* A request goes on with its temporary file.                               *)
LEMMA CreateTempFiles ==
  ASSUME TypeOK, FileInv, NEW r \in Requests, CreateTemp(r)
  PROVE  FileInv'
<1> USE NameSets, Numbers, TranscodeAssumption
<1>1. req[r].pc = "temp" /\ Moved(r, "open", req[r].path) /\ UNCHANGED <<now, object, row>>
  BY StepMoves DEF CreateTemp
<1>2. /\ files'[r].mtime = now /\ files'[r].size = 0
      /\ \A n \in Names \ {r} : files'[n] = files[n]
  BY DEF CreateTemp, TypeOK, NoFile
<1>3. /\ \A q \in Requests : /\ req'[q].song = req[q].song /\ req'[q].updated = req[q].updated
                           /\ req'[q].wanted = req[q].wanted /\ req'[q].path = req[q].path
      /\ req'[r].pc = "open" /\ \A q \in Requests \ {r} : req'[q].pc = req[q].pc
  BY <1>1 DEF Moved
<1>4. \A q \in Requests : req[q].pc # "idle" => req[q].song \in Names \ {r}
  BY DEF TypeOK
<1>5. TimeInv'  BY <1>1, <1>2, <1>3 DEF FileInv, TimeInv, There
<1>6. SongFileInv'  BY <1>1, <1>2 DEF FileInv, SongFileInv, Cached
<1>7. TempInv'  BY <1>1, <1>2, <1>3, <1>4 DEF FileInv, TempInv, Cached
<1>8. PathInv'
  <2> SUFFICES ASSUME NEW q \in Requests \ {r}, req[q].pc \in {"list", "evict", "serve"}
               PROVE  PathInv!(q)!2'
    BY <1>3 DEF PathInv
  <2>1. req[q].path \in Names \ {r}  BY <1>4 DEF FileInv, PathInv
  <2> QED  BY <1>2, <1>3, <2>1 DEF FileInv, PathInv, Sent, Fits, Late
<1>9. HitInv'  BY <1>1, <1>2, <1>3, <1>4 DEF FileInv, HitInv, Cached, Late
<1>10. NoWastedTranscode'  BY <1>1, <1>2, <1>3, <1>4 DEF FileInv, NoWastedTranscode, Cached
<1> QED  BY <1>5, <1>6, <1>7, <1>8, <1>9, <1>10 DEF FileInv

LEMMA EncodeFiles ==
  ASSUME TypeOK, FileInv, NEW r \in Requests, StartEncode(r) \/ FinishEncode(r)
  PROVE  FileInv'
<1> USE NameSets, Numbers, TranscodeAssumption
<1> DEFINE g == req[r].song
<1>1. /\ g \in Songs /\ UNCHANGED <<now, object, row>> /\ req[r].pc \in {"open", "encode"}
      /\ \/ Moved(r, "encode", req[r].path) /\ req[r].pc = "open"
         \/ Moved(r, "rename", req[r].path) /\ req[r].pc = "encode"
  BY StepMoves DEF StartEncode, FinishEncode, TypeOK
<1>2. /\ \A n \in Names \ {r} : files'[n] = files[n]
      /\ \/ files'[r] = files[r] /\ ~There(files[r])
         \/ /\ files'[r].mtime = now
            /\ \/ req[r].pc = "open" /\ files'[r].version = object[g]
               \/ req[r].pc = "encode" /\ There(files[r]) /\ files'[r].version = files[r].version
                  /\ files'[r].whole
  <2>1. CASE StartEncode(r)
    BY <2>1 DEF StartEncode, Output, TypeOK
  <2>2. CASE FinishEncode(r) /\ ~There(files[r])
    BY <2>2 DEF FinishEncode, Output
  <2>3. CASE FinishEncode(r) /\ There(files[r])
    <3>1. files[r] \in File /\ files \in [Names -> File]  BY DEF TypeOK
    <3> DEFINE f == [files[r] EXCEPT !.mtime = now, !.whole = TRUE]
    <3>2. f.mtime = now /\ f.version = files[r].version /\ f.whole  BY <3>1 DEF File
    <3>3. files' = [files EXCEPT ![r] = f]  BY <2>3 DEF FinishEncode, Output
    <3> HIDE DEF f
    <3> QED  BY <2>3, <3>1, <3>2, <3>3 DEF FinishEncode
  <2> QED  BY <2>1, <2>2, <2>3
<1>3. /\ \A q \in Requests : /\ req'[q].song = req[q].song /\ req'[q].updated = req[q].updated
                           /\ req'[q].wanted = req[q].wanted /\ req'[q].path = req[q].path
      /\ \A q \in Requests \ {r} : req'[q].pc = req[q].pc
      /\ \/ req'[r].pc = "encode" /\ req[r].pc = "open"
         \/ req'[r].pc = "rename" /\ req[r].pc = "encode"
  BY <1>1 DEF Moved
<1>4. \A q \in Requests : req[q].pc # "idle" => req[q].song \in Names \ {r}
  BY DEF TypeOK
<1>5. now >= 1 /\ req[r].wanted <= object[g] /\ (Cached(g) => files[g].version <= object[g])
      /\ (Cached(g) => files[g].mtime <= now)
  BY <1>1 DEF FileInv, TimeInv, SongFileInv
<1>6. TimeInv'
  <2>1. files'[r].mtime <= now /\ (files'[r].size = 1 => There(files'[r]))
    BY <1>2, <1>5 DEF FileInv, TimeInv, There
  <2> QED  BY <1>1, <1>2, <1>3, <2>1 DEF FileInv, TimeInv
<1>7. SongFileInv'  BY <1>1, <1>2 DEF FileInv, SongFileInv, Cached
<1>8. TempInv'
  <2>1. ASSUME There(files'[r]) PROVE TempInv!(r)!2'
    <3>1. CASE req[r].pc = "open"
      BY <1>1, <1>2, <1>3, <1>4, <1>5, <2>1, <3>1 DEF Cached
    <3>2. CASE req[r].pc = "encode"
      BY <1>1, <1>2, <1>3, <1>4, <1>5, <2>1, <3>2 DEF FileInv, TempInv, Cached
    <3> QED  BY <1>1, <3>1, <3>2
  <2>2. \A q \in Requests \ {r} : TempInv!(q)'
    BY <1>1, <1>2, <1>3, <1>4 DEF FileInv, TempInv, Cached
  <2> QED  BY <2>1, <2>2 DEF TempInv
<1>9. PathInv'
  <2> SUFFICES ASSUME NEW q \in Requests \ {r}, req[q].pc \in {"list", "evict", "serve"}
               PROVE  PathInv!(q)!2'
    BY <1>3 DEF PathInv
  <2>1. req[q].path \in Names \ {r}  BY <1>4 DEF FileInv, PathInv
  <2> QED  BY <1>2, <1>3, <2>1 DEF FileInv, PathInv, Sent, Fits, Late
<1>10. HitInv'
  <2> SUFFICES ASSUME NEW h \in Requests \ {r}, req[h].pc = "hit" PROVE HitInv!(h)!2'
    BY <1>3 DEF HitInv
  <2>1. now > req[h].updated - Slack  BY DEF FileInv, HitInv
  <2>2. ASSUME req'[r].pc = "rename", There(files'[r]) PROVE files'[r].mtime > req[h].updated - Slack
    BY <1>2, <1>3, <2>1, <2>2
  <2>3. \A q \in Requests \ {r} :
          req'[q].pc = "rename" /\ req'[q].song = req[h].song /\ There(files'[q])
            => files'[q].mtime > req[h].updated - Slack
    BY <1>2, <1>3 DEF FileInv, HitInv, Late
  <2> QED  BY <1>1, <1>2, <1>3, <1>4, <2>2, <2>3 DEF FileInv, HitInv, Cached, Late
<1>11. NoWastedTranscode'  BY <1>1, <1>2, <1>3, <1>4 DEF FileInv, NoWastedTranscode, Cached
<1> QED  BY <1>6, <1>7, <1>8, <1>9, <1>10, <1>11 DEF FileInv

LEMMA RenameFiles ==
  ASSUME TypeOK, FlightInv, FileInv, NEW r \in Requests, Rename(r)
  PROVE  FileInv'
<1> USE NameSets, Numbers, TranscodeAssumption
<1> DEFINE g == req[r].song
<1>1. g \in Songs /\ req[r].pc = "rename" /\ UNCHANGED <<now, object, row>> /\ r # g
  BY DEF Rename, TypeOK
<1>2. /\ \A q \in Requests : /\ req'[q].song = req[q].song /\ req'[q].updated = req[q].updated
                           /\ req'[q].wanted = req[q].wanted
      /\ \A q \in Requests \ {r} : req'[q] = req[q]
      /\ req'[r].pc = "list"
  BY <1>1, StepMoves DEF Moved
<1>3. \/ /\ There(files[r]) /\ req'[r].path = g /\ files'[g] = files[r] /\ files'[r] = NoFile
         /\ \A n \in Names \ {g, r} : files'[n] = files[n]
      \/ files' = files /\ req'[r].path = r
  <2>1. CASE There(files[r]) /\ files' = [files EXCEPT ![g] = files[r], ![r] = NoFile]
             /\ req' = [req EXCEPT ![r] = [@ EXCEPT !.pc = "list", !.path = g]]
    <3>1. "list" \in PC /\ g \in Names  BY <1>1 DEF PC
    <3>2. Moved(r, "list", g)  BY <2>1, <3>1, PathMoves
    <3>3. files \in [Names -> File]  BY DEF TypeOK
    <3> QED  BY <1>1, <2>1, <3>2, <3>3 DEF Moved
  <2>2. CASE files' = files /\ req' = [req EXCEPT ![r] = [@ EXCEPT !.pc = "list", !.path = r]]
    <3>1. "list" \in PC /\ r \in Names \cup {None}  BY DEF PC, Names
    <3>2. Moved(r, "list", r)  BY <2>2, <3>1, PathMoves
    <3> QED  BY <2>2, <3>2 DEF Moved
  <2> QED  BY <2>1, <2>2 DEF Rename
<1>4. \A q \in Requests \ {r} : req[q].pc \in Busy => req[q].song # g
  BY <1>1, Apart DEF Busy
<1>5. \A q \in Requests : req[q].pc # "idle" => req[q].song \in Songs
  BY DEF TypeOK
<1>6. There(files[r]) => /\ files[r].whole /\ files[r].version <= object[g]
                         /\ req[r].wanted <= files[r].version
  BY <1>1 DEF FileInv, TempInv
<1> HIDE DEF g
<1>7. TimeInv'
  <2>1. \A n \in Names : TimeInv!2!(n)'
    BY <1>1, <1>3 DEF FileInv, TimeInv, NoFile, There
  <2> QED  BY <1>1, <1>2, <2>1 DEF FileInv, TimeInv
<1>8. SongFileInv'  BY <1>1, <1>3, <1>6 DEF FileInv, SongFileInv, Cached
<1>9. TempInv'
  <2> SUFFICES ASSUME NEW q \in Requests \ {r}, req[q].pc \in {"encode", "rename"}, There(files'[q])
               PROVE  TempInv!(q)!2'
    BY <1>2 DEF TempInv
  <2>1. req[q].song \in Songs \ {g}  BY <1>4, <1>5 DEF Busy
  <2> QED  BY <1>1, <1>2, <1>3, <2>1 DEF FileInv, TempInv, Cached
<1>10. PathInv'
  <2>1. PathInv!(r)!2'
    BY <1>1, <1>2, <1>3, <1>6 DEF Sent, Fits, g
  <2>2. ASSUME NEW q \in Requests \ {r}, req[q].pc \in {"list", "evict", "serve"} PROVE PathInv!(q)!2'
    <3>1. req[q].song \in Songs \ {g}  BY <1>4, <1>5, <2>2 DEF Busy
    <3>2. req[q].path \in {req[q].song, q}  BY <2>2 DEF FileInv, PathInv
    <3>3. req[q].path \in Names \ {g, r}  BY <1>1, <3>1, <3>2
    <3> QED  BY <1>2, <1>3, <2>2, <3>3 DEF FileInv, PathInv, Sent, Fits, Late
  <2> QED  BY <1>2, <2>1, <2>2 DEF PathInv
<1>11. HitInv'
  <2> SUFFICES ASSUME NEW h \in Requests \ {r}, req[h].pc = "hit" PROVE HitInv!(h)!2'
    BY <1>2 DEF HitInv
  <2>1. HitInv!(h)!2  BY DEF FileInv, HitInv
  <2>2. req[h].song \in Songs  BY <1>5
  <2>3. Cached(req[h].song)' => files'[req[h].song].mtime > req[h].updated - Slack
    BY <1>1, <1>2, <1>3, <2>1, <2>2 DEF Cached, Late, g
  <2>4. \A q \in Requests \ {r} : There(files'[q]) => files'[q] = files[q]
    BY <1>1, <1>3
  <2> QED  BY <1>1, <1>2, <2>1, <2>3, <2>4 DEF Late
<1>12. NoWastedTranscode'
  <2> SUFFICES ASSUME NEW q \in Requests \ {r}, req[q].pc \in {"temp", "open", "encode", "rename"}
               PROVE  NoWastedTranscode!(q)!2'
    BY <1>2 DEF NoWastedTranscode
  <2>1. req[q].song \in Songs \ {g}  BY <1>4, <1>5 DEF Busy
  <2> QED  BY <1>1, <1>2, <1>3, <2>1 DEF FileInv, NoWastedTranscode, Cached
<1> QED  BY <1>7, <1>8, <1>9, <1>10, <1>11, <1>12 DEF FileInv

LEMMA CrashFiles ==
  ASSUME TypeOK, FileInv, Crash
  PROVE  FileInv'
<1> USE NameSets, Numbers, TranscodeAssumption
<1>1. \A r \in Requests : req'[r].pc = "idle"  BY IdleRequest DEF Crash
<1>2. UNCHANGED <<now, object, row>>  BY DEF Crash
<1>3. \A n \in Names : files'[n] = NoFile \/ \E m \in Names : files'[n] = files[m]
  <2>1. \A n \in Left : n[1] \in Names  BY DEF Left
  <2> QED  BY <2>1 DEF Crash
<1>4. \A g \in Songs : files'[g] = files[g]  BY DEF Crash
<1>5. TimeInv'
  <2>1. \A n \in Names : TimeInv!2!(n)'  BY <1>2, <1>3 DEF FileInv, TimeInv, NoFile, There
  <2> QED  BY <1>1, <1>2, <2>1 DEF FileInv, TimeInv
<1>6. SongFileInv'  BY <1>2, <1>4 DEF FileInv, SongFileInv, Cached
<1> QED
  BY <1>1, <1>5, <1>6 DEF FileInv, TempInv, PathInv, HitInv, NoWastedTranscode

LEMMA FileStep == TypeOK /\ TypeOK' /\ FlightInv /\ FileInv /\ [Next]_vars => FileInv'
<1> SUFFICES ASSUME TypeOK, TypeOK', FlightInv, FileInv, [Next]_vars PROVE FileInv'
  OBVIOUS
<1> USE Numbers
<1>1. CASE Tick
  BY <1>1, WorldFiles DEF Tick, cacheVars
<1>2. ASSUME NEW g \in Songs, Rewrite(g) PROVE FileInv'
  <2>1. \A h \in Songs : object[h] <= object'[h]  BY <1>2 DEF Rewrite, TypeOK
  <2> QED  BY <1>2, <2>1, WorldFiles DEF Rewrite, cacheVars
<1>3. ASSUME NEW g \in Songs, Reindex(g) PROVE FileInv'
  <2>1. \A h \in Songs : row'[h] = row[h] \/ row'[h] = [updated |-> now, version |-> object[h]]
    BY <1>3 DEF Reindex, TypeOK
  <2> QED  BY <1>3, <2>1, WorldFiles DEF Reindex, cacheVars
<1>4. ASSUME NEW r \in Requests, NEW g \in Songs, Ask(r, g) PROVE FileInv'
  BY <1>4, AskFiles
<1>5. ASSUME NEW r \in Requests, StatCache(r) \/ EnterFlight(r) PROVE FileInv'
  BY <1>5, LookFiles
<1>6. ASSUME NEW r \in Requests, CreateTemp(r) PROVE FileInv'
  BY <1>6, CreateTempFiles
<1>7. ASSUME NEW r \in Requests, StartEncode(r) \/ FinishEncode(r) PROVE FileInv'
  BY <1>7, EncodeFiles
<1>8. ASSUME NEW r \in Requests, Rename(r) PROVE FileInv'
  BY <1>8, RenameFiles
<1>9. ASSUME NEW r \in Requests, ListFiles(r) \/ Evict(r) PROVE FileInv'
  <2>1. UNCHANGED <<now, object, row>> /\ req[r].pc \in {"list", "evict"}
    BY <1>9 DEF ListFiles, Evict
  <2>2. UNCHANGED req \/ \E p \in {"evict", "serve"} : Moved(r, p, req[r].path)
    BY <1>9, <2>1, StepMoves
  <2>3. \A n \in Names : files'[n] = files[n] \/ files'[n] = NoFile
    BY <1>9 DEF ListFiles, Evict, TypeOK, cacheVars
  <2>4. \A q \in Requests \ {r} : req'[q] = req[q]  BY <2>2 DEF Moved
  <2> QED  BY <2>1, <2>2, <2>3, <2>4, Winding
<1>10. ASSUME NEW r \in Requests, Serve(r) \/ Fail(r) PROVE FileInv'
  <2>1. Return(r) /\ UNCHANGED <<now, object, row>>  BY <1>10 DEF Serve, Fail
  <2>2. \A n \in Names : files'[n] = files[n] \/ files'[n] = NoFile
    BY <2>1 DEF Return, TypeOK
  <2>3. req'[r].pc = "idle" /\ \A q \in Requests \ {r} : req'[q] = req[q]
    BY <2>1, ReturnMoves
  <2> QED  BY <2>1, <2>2, <2>3, Winding
<1>11. CASE Crash
  BY <1>11, CrashFiles
<1>12. CASE UNCHANGED vars
  BY <1>12, Winding DEF vars, cacheVars
<1> QED
  BY <1>1, <1>2, <1>3, <1>4, <1>5, <1>6, <1>7, <1>8, <1>9, <1>10, <1>11, <1>12
  DEF Next, TranscodeStep

-----------------------------------------------------------------------------
(* The invariant, and what follows from it.                                 *)

LEMMA InitInv == Init => IInv
<1> SUFFICES ASSUME Init PROVE IInv
  OBVIOUS
<1> USE NameSets, FileFacts, IdleRequest
<1>1. TypeOK  BY InitType
<1>2. \A n \in Names : files[n] = NoFile  BY DEF Init
<1>3. \A r \in Requests : req[r].pc = "idle"  BY DEF Init
<1>4. FlightInv  BY <1>3 DEF Init, FlightInv, Busy
<1>5. TimeInv
  <2>1. \A g \in Songs : row[g].updated = 1 /\ row[g].version = 1 /\ object[g] = 1 /\ now = 1
    BY DEF Init
  <2>2. now = 1  BY DEF Init
  <2> QED  BY <1>2, <1>3, <2>1, <2>2 DEF TimeInv, NoFile
<1>6. FileInv
  BY <1>2, <1>3, <1>5 DEF FileInv, SongFileInv, Cached, TempInv, PathInv, HitInv, NoWastedTranscode
<1>7. SweepInv
  <2>1. Sized = {}  BY <1>2 DEF Sized
  <2>2. Size = 0  BY <2>1, SizeType, FS_EmptySet
  <2> QED  BY <2>2, TranscodeAssumption DEF SweepInv
<1> QED  BY <1>1, <1>4, <1>6, <1>7 DEF IInv

LEMMA StepInv == IInv /\ [Next]_vars => IInv'
BY StepType, FlightStep, FileStep, SweepStep DEF IInv, FileInv

LEMMA Invariant == Spec => []IInv
BY InitInv, StepInv, PTL DEF Spec

(* Whoever gets a file gets all of it: never one that ffmpeg is writing,    *)
(* also after failures, restarts and other requests' sweeps.                *)
THEOREM AnswersWhole == Spec => []Sound
<1>1. IInv => Sound
  <2> SUFFICES ASSUME IInv PROVE Sound
    OBVIOUS
  <2>1. TypeOK  BY DEF IInv
  <2>2. ASSUME NEW r \in Requests, Serving(r), There(Sent(r)) PROVE Sent(r).whole
    <3>1. req[r].song \in Songs  BY <2>1, <2>2 DEF TypeOK, Serving
    <3>2. CASE req[r].pc = "hit"
      BY <2>2, <3>1, <3>2 DEF IInv, FileInv, HitInv, SongFileInv, Cached, Sent
    <3>3. CASE req[r].pc = "serve"
      BY <2>2, <3>3 DEF IInv, FileInv, PathInv
    <3> QED  BY <2>2, <3>2, <3>3 DEF Serving
  <2> QED  BY <2>1, <2>2 DEF Sound, ServedWhole
<1> QED  BY <1>1, Invariant, PTL

(* The test for freshness: nobody encodes what he would have accepted, and  *)
(* who is sent an outdated transcoding is sent one from within the slack.   *)
THEOREM FreshnessKept == Spec => []FreshnessSound
<1>1. IInv => FreshnessSound
  <2> SUFFICES ASSUME IInv PROVE FreshnessSound
    OBVIOUS
  <2>1. ASSUME NEW r \in Requests, Serving(r), There(Sent(r)) PROVE Fits(Sent(r), r)
    <3>1. CASE req[r].pc = "hit"
      BY <2>1, <3>1 DEF IInv, FileInv, HitInv, Cached, Sent, Fits
    <3>2. CASE req[r].pc = "serve"
      BY <2>1, <3>2 DEF IInv, FileInv, PathInv
    <3> QED  BY <2>1, <3>1, <3>2 DEF Serving
  <2>2. StaleOnlyBySlack  BY <2>1 DEF StaleOnlyBySlack, Fits, Late
  <2> QED  BY <2>2 DEF FreshnessSound, IInv, FileInv
<1> QED  BY <1>1, Invariant, PTL

(* Once all requests have returned the directory is within its limit, if    *)
(* after the last listing none was kept from its sweep.                     *)
THEOREM LimitHolds == Spec => []CacheFitsWhenQuiet
<1>1. IInv => CacheFitsWhenQuiet
  BY DEF IInv, SweepInv, CacheFitsWhenQuiet
<1> QED  BY <1>1, Invariant, PTL

(* The transcoding that replaces a cached one is of the same version or of  *)
(* a later one, whenever its source was read.                               *)
THEOREM OlderNeverReplacesNewer == Spec => CacheNeverOlder
<1>1. IInv /\ [Next]_vars =>
        [\A g \in Songs : Cached(g) /\ Cached(g)' => files'[g].version >= files[g].version]_vars
  <2> SUFFICES ASSUME IInv, [Next]_vars, NEW g \in Songs, Cached(g), Cached(g)'
               PROVE  files'[g].version >= files[g].version
    OBVIOUS
  <2> USE NameSets, TranscodeAssumption
  <2>1. TypeOK /\ files[g].version \in Nat  BY Numbers DEF IInv
  <2>2. ASSUME NEW r \in Requests, Rename(r) PROVE files'[g].version >= files[g].version
    <3>1. CASE There(files[r]) /\ files' = [files EXCEPT ![req[r].song] = files[r], ![r] = NoFile]
               /\ req[r].song = g
      <4>1. req[r].pc = "rename" /\ files'[g] = files[r] /\ files[r].version \in Nat
        BY <2>1, <2>2, <3>1, Numbers DEF Rename, TypeOK
      <4> QED  BY <2>1, <3>1, <4>1 DEF IInv, FileInv, TempInv
    <3>2. CASE files' = files \/ (req[r].song # g
               /\ files' = [files EXCEPT ![req[r].song] = files[r], ![r] = NoFile])
      BY <2>1, <3>2 DEF TypeOK
    <3> QED  BY <2>2, <3>1, <3>2 DEF Rename
  <2>3. ASSUME NEW r \in Requests, Evict(r) PROVE files'[g].version >= files[g].version
    <3>1. files' = files \/ \E n \in Names : files' = [files EXCEPT ![n] = NoFile]
      BY <2>3 DEF Evict, Listed
    <3>2. files' = files \/ files'[g] = files[g] \/ files'[g] = NoFile
      BY <2>1, <3>1 DEF TypeOK
    <3> QED  BY <2>1, <3>2, FileFacts DEF Cached
  <2>4. ASSUME ~\E r \in Requests : Rename(r) \/ Evict(r) PROVE files'[g] = files[g]
    <3>1. g \notin Requests /\ g \notin Left  OBVIOUS
    <3>2. ASSUME NEW r \in Requests, CreateTemp(r) \/ StartEncode(r) \/ FinishEncode(r)
          PROVE  files'[g] = files[g]
      BY <2>1, <3>1, <3>2 DEF CreateTemp, StartEncode, FinishEncode, Output, TypeOK
    <3>3. ASSUME NEW r \in Requests, Serve(r) \/ Fail(r) PROVE files'[g] = files[g]
      BY <2>1, <3>1, <3>3, ReturnMoves DEF Serve, Fail
    <3>4. CASE Crash  BY <3>1, <3>4 DEF Crash
    <3>5. CASE UNCHANGED files  BY <3>5
    <3>6. ASSUME NEW r \in Requests, \/ \E h \in Songs : Ask(r, h)
                                    \/ StatCache(r) \/ EnterFlight(r) \/ ListFiles(r)
          PROVE  UNCHANGED files
      BY <3>6 DEF Ask, StatCache, EnterFlight, ListFiles, cacheVars
    <3>7. Tick \/ (\E h \in Songs : Rewrite(h) \/ Reindex(h)) \/ UNCHANGED vars => UNCHANGED files
      BY DEF Tick, Rewrite, Reindex, vars, cacheVars
    <3> QED  BY <2>4, <3>2, <3>3, <3>4, <3>5, <3>6, <3>7 DEF Next, TranscodeStep
  <2> QED  BY <2>1, <2>2, <2>3, <2>4
<1> QED  BY <1>1, Invariant, PTL DEF Spec, CacheNeverOlder

===============================================================================
