---------------------------- MODULE CatalogProofs ----------------------------
(****************************************************************************)
(* Proofs about Catalog, for every set of keys, uploads, scans and workers, *)
(* with and without pruning, and for any number of faults.                  *)
(*                                                                          *)
(* The state predicates below are the inductive invariant.  Version says    *)
(* that whatever is remembered of a path is its present object or older by  *)
(* at least a second; Fresh that nobody knows the key of                    *)
(* an upload before it is put; Serial that a key is in the hands of at most *)
(* one worker.                                                              *)
(****************************************************************************)
EXTENDS Catalog, TLAPS

(* c, remembered as a version of k, is nothing, the present object, or one  *)
(* that was rewritten at least a second later.                              *)
Version(c, k) ==
  /\ c <= now
  /\ bucket[k].kind # "none" => c = 0 \/ c = bucket[k].mtime \/ c + Second <= bucket[k].mtime

BucketInv ==
  \A k \in Keys :
    /\ bucket[k].mtime <= now
    /\ bucket[k].kind = "none" <=> bucket[k].mtime = 0

(* The listed time of a key never exceeds that of its object.               *)
InventoryInv ==
  \A s \in Scans : \A k \in Keys :
    /\ inv[s][k] <= now
    /\ bucket[k].kind # "none" => inv[s][k] <= bucket[k].mtime
    /\ scan[s] = "index" /\ k \in todo[s] => inv[s][k] # 0

IndexInv ==
  \A p \in Procs :
    /\ ix[p].pc = "open" =>
         /\ ix[p].mtime <= now
         /\ bucket[ix[p].key].kind # "none" => ix[p].mtime <= bucket[ix[p].key].mtime
    /\ ix[p].pc = "upsert" =>
         /\ ix[p].mtime <= ix[p].content
         /\ songs[ix[p].key].content <= ix[p].content
         /\ Version(ix[p].content, ix[p].key)

RowInv ==
  \A k \in Keys :
    /\ songs[k].mtime <= songs[k].content
    /\ Version(songs[k].content, k)

(* Before its Put nobody knows the key of an upload.                        *)
Fresh ==
  \A u \in Uploads : upc[u] = "new" =>
    /\ bucket[u].kind = "none" /\ songs[u].content = 0
    /\ \A s \in Scans : inv[s][u] = 0
    /\ \A p \in Procs : ix[p].pc # "idle" => ix[p].key # u

(* An upload's key has had one object only.                                 *)
OneVersion == \A u \in Uploads :
  /\ bucket[u].kind # "none" => songs[u].content \in {0, bucket[u].mtime}
  /\ \A p \in Procs : ix[p].pc = "upsert" /\ ix[p].key = u =>
       /\ songs[u].content \in {0, ix[p].content}
       /\ bucket[u].kind # "none" => bucket[u].mtime = ix[p].content
       /\ \A q \in Procs : ix[q].pc = "upsert" /\ ix[q].key = u => ix[q].content = ix[p].content

(* A library key is in the hands of at most one worker, of the one Run that *)
(* holds the mutex; an upload indexes its own key.                          *)
Serial ==
  /\ \A s \in Scans : scan[s] \notin {"idle", "wait"} => lock = s
  /\ \A s \in Scans : \A w \in Workers : ix[<<s, w>>].pc # "idle" =>
       scan[s] = "index" /\ ix[<<s, w>>].key \notin todo[s]
  /\ \A s \in Scans : \A v, w \in Workers :
       v # w /\ ix[<<s, v>>].pc # "idle" /\ ix[<<s, w>>].pc # "idle"
         => ix[<<s, v>>].key # ix[<<s, w>>].key
  /\ \A u \in Uploads : ix[u].pc # "idle" => ix[u].key = u

IInv ==
  /\ TypeOK /\ BucketInv /\ InventoryInv /\ IndexInv /\ RowInv
  /\ Fresh /\ OneVersion /\ Serial

-----------------------------------------------------------------------------
(* Type correctness.                                                        *)

IndexType(f) ==
  f \in [Procs -> Index] /\ \A p \in Procs : f[p].pc # "idle" => f[p].key \in Keys

LEMMA KeySets == Library \subseteq Keys /\ Uploads \subseteq Keys /\ Uploads \subseteq Procs
BY DEF Keys, Procs

LEMMA IdleType == NoIndex \in Index /\ NoIndex.pc = "idle"
BY DEF NoIndex, Index

(* A call comes on with what its song still has to be given.                *)
Attach == {"genre", "create", "assign", "art"}

GoesOn(p) ==
  /\ ix[p].pc \in {"genre", "create", "assign"} /\ upc' = upc
  /\ \E step \in {"create", "assign", "art"} : ix' = [ix EXCEPT ![p].pc = step]

LEMMA GenreSteps ==
  ASSUME NEW p \in Procs, QueryGenre(p) \/ CreateGenre(p) \/ AssignGenre(p)
  PROVE  GoesOn(p)
<1>1. CASE QueryGenre(p)  BY <1>1 DEF QueryGenre, GoesOn
<1>2. CASE CreateGenre(p)  BY <1>2 DEF CreateGenre, GoesOn
<1>3. CASE AssignGenre(p)  BY <1>3 DEF AssignGenre, GoesOn
<1> QED  BY <1>1, <1>2, <1>3

LEMMA FailedSteps ==
  ASSUME NEW p \in Procs, AttachCallFails(p)
  PROVE  GoesOn(p) \/ (ix[p].pc = "art" /\ ReturnSong(p))
BY DEF AttachCallFails, GoesOn

LEMMA GoneOn ==
  ASSUME TypeOK, NEW p \in Procs, GoesOn(p)
  PROVE  /\ IndexType(ix') /\ ix[p].key \in Keys
         /\ ix'[p].key = ix[p].key /\ ix'[p].id = ix[p].id
         /\ ix'[p].pc \in {"create", "assign", "art"}
         /\ \A q \in Procs \ {p} : ix'[q] = ix[q]
<1>1. PICK step \in {"create", "assign", "art"} : ix' = [ix EXCEPT ![p].pc = step]
  BY DEF GoesOn
<1>2. ix \in [Procs -> Index] /\ ix[p] \in Index /\ ix[p].key \in Keys
  BY DEF TypeOK, GoesOn
<1> DEFINE call == [ix[p] EXCEPT !.pc = step]
<1>3. call \in Index /\ call.pc = step /\ call.key = ix[p].key /\ call.id = ix[p].id
  BY <1>2 DEF Index
<1>4. ix' = [ix EXCEPT ![p] = call]  BY <1>1
<1> HIDE DEF call
<1>5. ix'[p] = call /\ \A q \in Procs \ {p} : ix'[q] = ix[q]  BY <1>2, <1>4
<1>6. IndexType(ix')  BY <1>2, <1>3, <1>4 DEF TypeOK, IndexType
<1> QED  BY <1>2, <1>3, <1>5, <1>6

LEMMA GenresType ==
  ASSUME TypeOK, NEW p \in Procs,
         \/ QueryGenre(p) \/ CreateGenre(p)
         \/ AttachCallFails(p)
  PROVE  categories' \in SUBSET Genres /\ overtaken' \in SUBSET (Keys \X Nat)
<1>1. \A q \in Procs : ix[q].pc # "idle" => Row(q) \in Keys \X Nat /\ Genre[ix[q].key] \in Genres
  BY DEF TypeOK, Index, Row, Genres
<1>2. ASSUME ix[p].pc = "create", Insert(p)
      PROVE  categories' \in SUBSET Genres /\ overtaken' \in SUBSET (Keys \X Nat)
  BY <1>1, <1>2 DEF TypeOK, Insert
<1>3. CASE UNCHANGED genreVars  BY <1>3 DEF TypeOK, genreVars
<1>4. CASE QueryGenre(p)  BY <1>4 DEF TypeOK, QueryGenre
<1>5. CASE CreateGenre(p)  BY <1>2, <1>3, <1>5 DEF CreateGenre
<1>6. CASE AttachCallFails(p)  BY <1>2, <1>3, <1>6 DEF AttachCallFails
<1> QED  BY <1>4, <1>5, <1>6

LEMMA AbandonType ==
  ASSUME TypeOK, NEW p \in Procs, Abandon(p)
  PROVE  IndexType(ix') /\ upc' \in [Uploads -> UploadPC]
<1>1. IndexType(ix')
  BY IdleType DEF TypeOK, IndexType, Abandon
<1>2. upc' \in [Uploads -> UploadPC]
  BY DEF TypeOK, Abandon, AfterFailure, UploadPC
<1> QED  BY <1>1, <1>2

LEMMA ReturnSongType ==
  ASSUME TypeOK, NEW p \in Procs, ReturnSong(p)
  PROVE  IndexType(ix') /\ upc' \in [Uploads -> UploadPC]
<1>1. [NoIndex EXCEPT !.id = ix[p].id] \in Index /\ [NoIndex EXCEPT !.id = ix[p].id].pc = "idle"
  <2>1. ix[p].id \in Nat  BY DEF TypeOK, Index
  <2> QED  BY <2>1 DEF NoIndex, Index
<1>2. IndexType(ix')
  BY <1>1, IdleType DEF TypeOK, IndexType, ReturnSong
<1>3. upc' \in [Uploads -> UploadPC]
  BY DEF TypeOK, ReturnSong, UploadPC
<1> QED  BY <1>2, <1>3

LEMMA ReturnType ==
  ASSUME TypeOK, NEW s \in Scans, Return(s)
  PROVE  /\ lock' \in Scans \cup {None} /\ scan' \in [Scans -> ScanPC]
         /\ existing' \in [Scans -> [Keys -> Nat]] /\ inv' \in [Scans -> [Keys -> Nat]]
         /\ todo' \in [Scans -> SUBSET Keys]
BY DEF TypeOK, Return, Unlock, ScanPC, NoTimes

LEMMA RowUpdateType ==
  ASSUME TypeOK, NEW k \in Keys
  PROVE  /\ [songs[k] EXCEPT !.genre = TRUE] \in Song
         /\ [songs[k] EXCEPT !.chosen = TRUE] \in Song
         /\ \A from \in {"tags", "form"} : [songs[k] EXCEPT !.art = from] \in Song
         /\ [songs[k] EXCEPT !.title = "form"] \in Song
<1>1. songs[k] \in Song  BY DEF TypeOK
<1> QED  BY <1>1 DEF Song

LEMMA PutType ==
  ASSUME TypeOK, NEW k \in Keys, NEW t \in Nat, NEW kind \in {"audio", "junk", "empty"}
  PROVE  [bucket EXCEPT ![k] = [mtime |-> t, kind |-> kind]] \in [Keys -> Object]
BY DEF TypeOK, Object

LEMMA InitType == Init => TypeOK
BY CatalogAssumption DEF Init, TypeOK, Object, NoObject, Song, NoSong, ScanPC, NoTimes, Index,
   NoIndex, UploadPC, Second, Keys

LEMMA StepType == TypeOK /\ [Next]_vars => TypeOK'
<1> SUFFICES ASSUME TypeOK, [Next]_vars PROVE TypeOK'
  OBVIOUS
<1> USE CatalogAssumption, KeySets DEF genreVars
<1>1. ASSUME NEW k \in Library, NEW kind \in {"audio", "junk", "empty"}, ExternalPut(k, kind)
      PROVE  TypeOK'
  <2>1. now' \in Nat  BY <1>1 DEF ExternalPut, TypeOK
  <2>2. bucket' \in [Keys -> Object]  BY <1>1, <2>1, PutType DEF ExternalPut
  <2>3. wasGone' \in SUBSET Keys  BY <1>1 DEF ExternalPut, TypeOK
  <2> QED  BY <1>1, <2>1, <2>2, <2>3 DEF ExternalPut, TypeOK, scanVars
<1>2. ASSUME NEW k \in Keys, ExternalRemove(k) PROVE TypeOK'
  BY <1>2 DEF ExternalRemove, TypeOK, Object, NoObject, scanVars
<1>3. ASSUME NEW s \in Scans, Request(s) PROVE TypeOK'
  BY <1>3 DEF Request, TypeOK, ScanPC
<1>4. ASSUME NEW s \in Scans, Lock(s) PROVE TypeOK'
  BY <1>4 DEF Lock, TypeOK, ScanPC
<1>5. ASSUME NEW s \in Scans, LoadSongPaths(s) PROVE TypeOK'
  BY <1>5 DEF LoadSongPaths, TypeOK, ScanPC, Song
<1>6. ASSUME NEW s \in Scans, ListObject(s) PROVE TypeOK'
  BY <1>6 DEF ListObject, Entry, TypeOK, Object
<1>7. ASSUME NEW s \in Scans, InventoryDone(s) PROVE TypeOK'
  BY <1>7 DEF InventoryDone, Seen, TypeOK, ScanPC
<1>8. ASSUME NEW s \in Scans, NEW w \in Workers, TakeJob(s, w) PROVE TypeOK'
  <2>1. <<s, w>> \in Procs  BY DEF Procs, Crew
  <2>2. PICK k \in todo[s] :
          /\ todo' = [todo EXCEPT ![s] = @ \ {k}]
          /\ ix' = IF Unchanged(existing[s][k], inv[s][k]) THEN ix
                   ELSE [ix EXCEPT ![<<s, w>>] =
                          [NoIndex EXCEPT !.pc = "open", !.key = k, !.mtime = inv[s][k]]]
    BY <1>8 DEF TakeJob
  <2>3. k \in Keys /\ inv[s][k] \in Nat  BY DEF TypeOK
  <2>4. [NoIndex EXCEPT !.pc = "open", !.key = k, !.mtime = inv[s][k]] \in Index
    BY <2>3 DEF NoIndex, Index
  <2>5. [NoIndex EXCEPT !.pc = "open", !.key = k, !.mtime = inv[s][k]].key = k
    BY DEF NoIndex
  <2>6. IndexType(ix')  BY <2>1, <2>2, <2>3, <2>4, <2>5 DEF TypeOK, IndexType
  <2>7. todo' \in [Scans -> SUBSET Keys]  BY <2>2 DEF TypeOK
  <2> QED  BY <1>8, <2>6, <2>7 DEF TakeJob, TypeOK, IndexType
<1>9. ASSUME NEW s \in Scans, IndexDone(s) PROVE TypeOK'
  <2>1. CASE BeginPrune(s)  BY <1>9, <2>1 DEF IndexDone, BeginPrune, TypeOK, ScanPC
  <2>2. CASE Return(s)  BY <1>9, <2>2, ReturnType DEF IndexDone, TypeOK
  <2> QED  BY <1>9, <2>1, <2>2 DEF IndexDone
<1>10. ASSUME NEW s \in Scans, Prune(s) PROVE TypeOK'
  <2>1. songs' \in [Keys -> Song]  BY <1>10 DEF Prune, TypeOK, Song, NoSong
  <2> QED  BY <1>10, <2>1, ReturnType DEF Prune, TypeOK
<1>11. ASSUME NEW p \in Procs, Download(p) PROVE TypeOK'
  <2>1. CASE bucket[ix[p].key].kind = "audio"
    <3>1. ix[p] \in Index /\ ix[p].key \in Keys
      BY <1>11 DEF Download, TypeOK
    <3>2. bucket[ix[p].key].mtime \in Nat  BY <3>1 DEF TypeOK, Object
    <3>3. [ix[p] EXCEPT !.pc = "upsert", !.content = bucket[ix[p].key].mtime] \in Index
      BY <3>1, <3>2 DEF Index
    <3>4. [ix[p] EXCEPT !.pc = "upsert", !.content = bucket[ix[p].key].mtime].key = ix[p].key
      BY <3>1 DEF Index
    <3>5. ix' = [ix EXCEPT ![p] = [ix[p] EXCEPT !.pc = "upsert",
                                                !.content = bucket[ix[p].key].mtime]]
          /\ upc' = upc
      BY <1>11, <2>1 DEF Download, TypeOK
    <3>6. IndexType(ix')  BY <3>1, <3>3, <3>4, <3>5 DEF TypeOK, IndexType
    <3> QED  BY <1>11, <3>5, <3>6 DEF Download, TypeOK, IndexType, scanVars
  <2>2. CASE Abandon(p)
    BY <1>11, <2>2, AbandonType DEF Download, TypeOK, IndexType, scanVars
  <2> QED  BY <1>11, <2>1, <2>2 DEF Download
<1>12. ASSUME NEW p \in Procs, UpsertSong(p) PROVE TypeOK'
  <2> DEFINE k == ix[p].key
             id == IF songs[k].id # 0 THEN songs[k].id ELSE minted[k] + 1
             row == [songs[k] EXCEPT !.id = id, !.mtime = Stamp(p),
                                     !.content = ix[p].content, !.title = "tags"]
             call == [ix[p] EXCEPT !.pc = "genre", !.id = id]
  <2>1. k \in Keys /\ ix[p] \in Index  BY <1>12 DEF UpsertSong, TypeOK
  <2>2. songs[k] \in Song /\ minted[k] \in Nat  BY <2>1 DEF TypeOK
  <2>3. id \in Nat /\ ix[p].content \in Nat /\ Stamp(p) \in Nat
    BY <2>1, <2>2 DEF Song, Index, Stamp
  <2>4. row \in Song
    <3> HIDE DEF k, id
    <3> QED  BY <2>2, <2>3 DEF Song
  <2>5. call \in Index /\ call.key = k
    <3> HIDE DEF id
    <3> QED  BY <2>1, <2>3 DEF Index
  <2>6. /\ songs' = [songs EXCEPT ![k] = row]
        /\ ix' = [ix EXCEPT ![p] = call]
        /\ minted' = [minted EXCEPT ![k] = IF songs[k].id # 0 THEN @ ELSE @ + 1]
    BY <1>12, <2>1 DEF UpsertSong, TypeOK
  <2> HIDE DEF k, row, call
  <2>7. songs' \in [Keys -> Song]  BY <2>1, <2>4, <2>6 DEF TypeOK
  <2>8. IndexType(ix')  BY <2>1, <2>5, <2>6 DEF TypeOK, IndexType
  <2>9. minted' \in [Keys -> Nat]  BY <2>1, <2>2, <2>6 DEF TypeOK
  <2> QED  BY <1>12, <2>7, <2>8, <2>9 DEF UpsertSong, TypeOK, IndexType, scanVars
<1>13. ASSUME NEW p \in Procs, AssignGenre(p) PROVE TypeOK'
  <2>1. ix[p].key \in Keys /\ ix[p] \in Index  BY <1>13 DEF AssignGenre, TypeOK
  <2>2. [songs[ix[p].key] EXCEPT !.genre = TRUE] \in Song  BY <2>1, RowUpdateType
  <2>3. songs' \in [Keys -> Song]  BY <1>13, <2>1, <2>2 DEF AssignGenre, TypeOK
  <2>4. IndexType(ix')  BY <1>13, GenreSteps, GoneOn
  <2> QED  BY <1>13, <2>3, <2>4 DEF AssignGenre, TypeOK, IndexType, scanVars
<1>14. ASSUME NEW p \in Procs, AttachArt(p) PROVE TypeOK'
  <2>1. ix[p].key \in Keys  BY <1>14 DEF AttachArt, TypeOK
  <2>2. [songs[ix[p].key] EXCEPT !.art = "tags"] \in Song  BY <2>1, RowUpdateType
  <2>3. songs' \in [Keys -> Song]  BY <1>14, <2>1, <2>2 DEF AttachArt, TypeOK
  <2> QED  BY <1>14, <2>3, ReturnSongType DEF AttachArt, TypeOK, IndexType, scanVars
<1>15. ASSUME NEW u \in Uploads, PutObject(u) PROVE TypeOK'
  <2>1. now + 1 \in Nat  BY DEF TypeOK
  <2>2. bucket' \in [Keys -> Object]  BY <1>15, <2>1, PutType DEF PutObject
  <2> QED  BY <1>15, <2>1, <2>2 DEF PutObject, TypeOK, UploadPC, scanVars
<1>16. ASSUME NEW u \in Uploads, IndexFile(u) PROVE TypeOK'
  <2>1. CASE Abandon(u)
    BY <1>16, <2>1, AbandonType DEF IndexFile, TypeOK, IndexType, scanVars
  <2>2. CASE /\ ix' = [ix EXCEPT ![u] = [NoIndex EXCEPT !.pc = "open", !.key = u,
                                                       !.mtime = StatTime(bucket[u])]]
             /\ upc' = upc
    <3> DEFINE call == [NoIndex EXCEPT !.pc = "open", !.key = u, !.mtime = StatTime(bucket[u])]
    <3>1. bucket[u].mtime \in Nat  BY DEF TypeOK, Object
    <3>2. StatTime(bucket[u]) \in Nat  BY <3>1 DEF StatTime, Second
    <3>3. call \in Index /\ call.key = u  BY <3>2 DEF NoIndex, Index
    <3> HIDE DEF call
    <3>4. IndexType(ix')  BY <2>2, <3>3 DEF call, TypeOK, IndexType
    <3> QED  BY <1>16, <2>2, <3>4 DEF IndexFile, TypeOK, IndexType, scanVars
  <2> QED  BY <1>16, <2>1, <2>2 DEF IndexFile
<1>17. ASSUME NEW u \in Uploads, Cleanup(u) PROVE TypeOK'
  <2>1. NoObject \in Object  BY DEF NoObject, Object
  <2>3. bucket \in [Keys -> Object] /\ u \in Keys  BY DEF TypeOK
  <2>4. bucket' = bucket \/ bucket' = [bucket EXCEPT ![u] = NoObject]
    BY <1>17 DEF Cleanup
  <2>5. bucket' \in [Keys -> Object]  BY <2>1, <2>3, <2>4
  <2>2. faults' \in Nat /\ wasGone' \in SUBSET Keys
    BY <1>17 DEF Cleanup, Fault, TypeOK
  <2> QED  BY <1>17, <2>5, <2>2 DEF Cleanup, TypeOK, UploadPC, scanVars
<1>18. ASSUME NEW u \in Uploads, ApplyField(u) PROVE TypeOK'
  <2>1. /\ [songs[u] EXCEPT !.title = "form"] \in Song
        /\ [songs[u] EXCEPT !.chosen = TRUE] \in Song
        /\ [songs[u] EXCEPT !.art = "form"] \in Song
    BY RowUpdateType
  <2>2. songs' \in [Keys -> Song]  BY <1>18, <2>1 DEF ApplyField, TypeOK, Fields
  <2>3. upc' \in [Uploads -> UploadPC]
    BY <1>18 DEF ApplyField, NextField, Fields, UploadPC, TypeOK
  <2> QED  BY <1>18, <2>2, <2>3 DEF ApplyField, TypeOK, scanVars
<1>19. ASSUME NEW s \in Scans, ScanCallFails(s) PROVE TypeOK'
  BY <1>19, ReturnType DEF ScanCallFails, Fault, TypeOK
<1>20. ASSUME NEW p \in Procs, IndexCallFails(p) PROVE TypeOK'
  BY <1>20, AbandonType DEF IndexCallFails, Fault, TypeOK, IndexType, scanVars
<1>21. ASSUME NEW p \in Procs, AttachCallFails(p) PROVE TypeOK'
  <2>1. IndexType(ix') /\ upc' \in [Uploads -> UploadPC]
    <3>1. CASE ReturnSong(p)  BY <3>1, ReturnSongType
    <3>2. CASE GoesOn(p)  BY <3>2, GoneOn DEF GoesOn, TypeOK
    <3> QED  BY <1>21, <3>1, <3>2, FailedSteps
  <2> QED  BY <1>21, <2>1, GenresType DEF AttachCallFails, Fault, TypeOK, IndexType, scanVars
<1>22. ASSUME NEW u \in Uploads, PutFails(u) PROVE TypeOK'
  <2>1. now + 1 \in Nat  BY DEF TypeOK
  <2>2. bucket' \in [Keys -> Object] /\ now' \in Nat
    <3>1. CASE UNCHANGED <<now, bucket>>  BY <3>1 DEF TypeOK
    <3>2. CASE /\ now' = now + 1
               /\ bucket' = [bucket EXCEPT ![u] = [mtime |-> now + 1, kind |-> "audio"]]
      BY <3>2, <2>1, PutType
    <3> QED  BY <1>22, <3>1, <3>2 DEF PutFails
  <2> QED  BY <1>22, <2>2 DEF PutFails, Fault, TypeOK, UploadPC, scanVars
<1>23. ASSUME NEW u \in Uploads, StatFails(u) PROVE TypeOK'
  BY <1>23, AbandonType DEF StatFails, Fault, TypeOK, IndexType, scanVars
<1>24. ASSUME NEW u \in Uploads, FieldCallFails(u) PROVE TypeOK'
  <2>1. upc[u] \in Fields  BY <1>24 DEF FieldCallFails
  <2>2. upc' \in [Uploads -> UploadPC]
    BY <1>24, <2>1 DEF FieldCallFails, NextField, Fields, UploadPC, TypeOK
  <2> QED  BY <1>24, <2>2 DEF FieldCallFails, Fault, TypeOK, scanVars
<1>25. ASSUME Crash PROVE TypeOK'
  <2>1. ix' \in [Procs -> Index] /\ \A p \in Procs : ix'[p].pc = "idle"
    BY <1>25, IdleType DEF Crash
  <2> QED  BY <1>25, <2>1 DEF Crash, Fault, TypeOK, ScanPC, NoTimes, UploadPC
<1>27. ASSUME NEW p \in Procs, QueryGenre(p) \/ CreateGenre(p) PROVE TypeOK'
  <2>1. IndexType(ix')  BY <1>27, GenreSteps, GoneOn
  <2> QED
    BY <1>27, <2>1, GenresType DEF QueryGenre, CreateGenre, TypeOK, IndexType, scanVars
<1>26. CASE UNCHANGED vars
  BY <1>26 DEF vars, scanVars, TypeOK
<1> QED
  BY <1>1, <1>2, <1>3, <1>4, <1>5, <1>6, <1>7, <1>8, <1>9, <1>10, <1>11, <1>12, <1>13,
     <1>14, <1>15, <1>16, <1>17, <1>18, <1>19, <1>20, <1>21, <1>22, <1>23, <1>24, <1>25,
     <1>26, <1>27
  DEF Next, Environment, ScanStep, IndexStep, UploadStep, Failure

-----------------------------------------------------------------------------
(* The invariant is inductive.                                              *)

(* What the rest of the invariant sees of the rows: their two times.        *)
RowsCarried == \A k \in Keys :
  \/ songs'[k].mtime = songs[k].mtime /\ songs'[k].content = songs[k].content
  \/ songs'[k].mtime = 0 /\ songs'[k].content = 0

(* Calls move on without starting, downloading, or changing their key.      *)
CallsMoveOn == \A p \in Procs :
  /\ ix'[p].pc # "idle" => ix[p].pc # "idle" /\ ix'[p].key = ix[p].key
  /\ ix'[p].pc \in {"open", "upsert"} => ix'[p] = ix[p]

NothingNew == \A u \in Uploads : upc'[u] = "new" => upc[u] = "new"

LEMMA RowsCarriedInv ==
  ASSUME IInv, TypeOK', RowsCarried, CallsMoveOn, NothingNew, UNCHANGED <<now, bucket>>
  PROVE  BucketInv' /\ IndexInv' /\ RowInv' /\ OneVersion'
<1>1. BucketInv'  BY DEF IInv, BucketInv
<1>2. IndexInv'
  <2> SUFFICES ASSUME NEW p \in Procs, ix'[p].pc \in {"open", "upsert"}
               PROVE  IndexInv!(p)'
    BY DEF IndexInv
  <2>1. ix'[p] = ix[p]  BY DEF CallsMoveOn
  <2>2. ix[p].key \in Keys /\ ix[p].content \in Nat  BY <2>1 DEF IInv, TypeOK, Index
  <2> QED  BY <2>1, <2>2 DEF IInv, IndexInv, Version, RowsCarried
<1>3. RowInv'
  <2>1. now \in Nat  BY DEF IInv, TypeOK
  <2> SUFFICES ASSUME NEW k \in Keys PROVE RowInv!(k)'
    BY DEF RowInv
  <2>2. CASE songs'[k].mtime = songs[k].mtime /\ songs'[k].content = songs[k].content
    BY <2>2 DEF IInv, RowInv, Version
  <2>3. CASE songs'[k].mtime = 0 /\ songs'[k].content = 0
    BY <2>1, <2>3 DEF Version
  <2> QED  BY <2>2, <2>3 DEF RowsCarried
<1>4. OneVersion'
  BY KeySets DEF IInv, OneVersion, RowsCarried, CallsMoveOn
<1> QED  BY <1>1, <1>2, <1>3, <1>4

LEMMA CallsMoveOnInv ==
  ASSUME IInv, TypeOK', RowsCarried, CallsMoveOn, NothingNew,
         UNCHANGED <<now, bucket, lock, scan, inv, todo>>
  PROVE  IInv'
<1>1. InventoryInv'  BY DEF IInv, InventoryInv
<1>2. Fresh'  BY KeySets DEF IInv, Fresh, RowsCarried, CallsMoveOn, NothingNew
<1>3. Serial'
  <2>1. \A s \in Scans, w \in Workers : <<s, w>> \in Procs  BY DEF Procs, Crew
  <2> QED  BY <2>1, KeySets DEF IInv, Serial, CallsMoveOn
<1> QED  BY <1>1, <1>2, <1>3, RowsCarriedInv DEF IInv

LEMMA ReturnInv ==
  ASSUME IInv, TypeOK', RowsCarried, NEW s \in Scans, scan[s] \notin {"idle", "wait"},
         \A w \in Workers : ix[<<s, w>>].pc = "idle",
         Return(s), UNCHANGED <<now, bucket, ix, upc>>
  PROVE  IInv'
<1>1. CallsMoveOn /\ NothingNew  BY DEF CallsMoveOn, NothingNew
<1>2. /\ lock' = None
      /\ scan'[s] = "idle" /\ inv'[s] = NoTimes
      /\ \A t \in Scans \ {s} : scan'[t] = scan[t] /\ inv'[t] = inv[t] /\ todo'[t] = todo[t]
  BY DEF Return, Unlock, IInv, TypeOK
<1>3. InventoryInv'
  <2>1. now \in Nat /\ \A k \in Keys : bucket[k].mtime \in Nat
    BY DEF IInv, TypeOK, Object
  <2>2. \A k \in Keys : inv'[s][k] = 0  BY <1>2 DEF NoTimes
  <2>3. \A k \in Keys : InventoryInv!(s)!(k)'
    BY <1>2, <2>1, <2>2
  <2>4. \A t \in Scans \ {s}, k \in Keys : InventoryInv!(t)!(k)'
    BY <1>2 DEF IInv, InventoryInv
  <2> QED  BY <2>3, <2>4 DEF InventoryInv
<1>4. Fresh'
  BY <1>1, <1>2, KeySets DEF IInv, Fresh, RowsCarried, NothingNew, NoTimes
<1>5. Serial'
  <2>1. \A t \in Scans \ {s} : scan[t] \in {"idle", "wait"}  BY DEF IInv, Serial
  <2>2. \A t \in Scans, w \in Workers : ix[<<t, w>>].pc = "idle"
    BY <2>1 DEF IInv, Serial
  <2>3. \A t \in Scans : scan'[t] \in {"idle", "wait"}  BY <1>2, <2>1
  <2> QED  BY <2>2, <2>3 DEF IInv, Serial
<1> QED  BY <1>1, <1>3, <1>4, <1>5, RowsCarriedInv DEF IInv

LEMMA AbandonMoves ==
  ASSUME TypeOK, NEW p \in Procs, Abandon(p)
  PROVE  CallsMoveOn /\ NothingNew
<1>1. CallsMoveOn
  BY IdleType DEF TypeOK, CallsMoveOn, Abandon
<1>2. NothingNew
  BY DEF TypeOK, NothingNew, Abandon, AfterFailure
<1> QED  BY <1>1, <1>2

LEMMA ReturnSongMoves ==
  ASSUME TypeOK, NEW p \in Procs, ReturnSong(p)
  PROVE  CallsMoveOn /\ NothingNew
<1>1. [NoIndex EXCEPT !.id = ix[p].id].pc = "idle"  BY DEF NoIndex
<1>2. CallsMoveOn
  BY <1>1, IdleType DEF TypeOK, CallsMoveOn, ReturnSong
<1>3. NothingNew
  BY DEF TypeOK, NothingNew, ReturnSong
<1> QED  BY <1>2, <1>3

LEMMA GoneOnMoves ==
  ASSUME TypeOK, NEW p \in Procs, GoesOn(p)
  PROVE  CallsMoveOn /\ NothingNew
BY GoneOn DEF GoesOn, CallsMoveOn, NothingNew

LEMMA SameRowsCarried == songs' = songs => RowsCarried
BY DEF RowsCarried

LEMMA RowUpdateKept ==
  ASSUME TypeOK, NEW k \in Keys, NEW row \in Song, row.mtime = songs[k].mtime,
         row.content = songs[k].content,
         songs' = songs \/ songs' = [songs EXCEPT ![k] = row]
  PROVE  RowsCarried
BY DEF TypeOK, RowsCarried

(* Two callers hold the same key only when one of them is its upload.       *)
LEMMA Exclusive ==
  ASSUME IInv, NEW p \in Procs, NEW q \in Procs, p # q,
         ix[p].pc # "idle", ix[q].pc # "idle", ix[p].key = ix[q].key
  PROVE  ix[p].key \in Uploads
<1>1. CASE p \in Uploads \/ q \in Uploads  BY <1>1 DEF IInv, Serial
<1>2. CASE p \in Crew /\ q \in Crew
  <2>1. PICK s \in Scans, w \in Workers : p = <<s, w>>  BY <1>2 DEF Crew
  <2>2. PICK t \in Scans, v \in Workers : q = <<t, v>>  BY <1>2 DEF Crew
  <2>3. scan[s] = "index" /\ scan[t] = "index"  BY <2>1, <2>2 DEF IInv, Serial
  <2>4. s = t  BY <2>3 DEF IInv, Serial
  <2>5. v # w  BY <2>1, <2>2, <2>4
  <2> QED  BY <2>1, <2>2, <2>4, <2>5 DEF IInv, Serial
<1> QED  BY <1>1, <1>2 DEF Procs

LEMMA ExternalPutInv ==
  ASSUME IInv, TypeOK', NEW k \in Library, NEW kind \in {"audio", "junk", "empty"},
         ExternalPut(k, kind)
  PROVE  IInv'
<1> USE CatalogAssumption, KeySets
<1>1. now \in Nat /\ now' = now + RewriteGap /\ now + Second <= now'
  BY DEF ExternalPut, IInv, TypeOK, Second
<1>2. /\ bucket'[k].mtime = now' /\ bucket'[k].kind # "none"
      /\ \A j \in Keys \ {k} : bucket'[j] = bucket[j]
  <2>1. bucket \in [Keys -> Object]  BY DEF IInv, TypeOK
  <2> QED  BY <1>1, <2>1 DEF ExternalPut
<1>3. UNCHANGED <<songs, lock, scan, existing, inv, todo, ix, upc>>
  BY DEF ExternalPut, scanVars
<1>4. \A j \in Keys : bucket[j].mtime \in Nat  BY DEF IInv, TypeOK, Object
<1>5. ASSUME NEW c \in Nat, NEW j \in Keys, Version(c, j)
      PROVE  Version(c, j)'
  BY <1>1, <1>2, <1>5 DEF Version, Second
<1>6. BucketInv'
  <2>1. BucketInv!(k)'  BY <1>1, <1>2 DEF Second
  <2>2. \A j \in Keys \ {k} : BucketInv!(j)'
    BY <1>1, <1>2, <1>4 DEF IInv, BucketInv
  <2> QED  BY <2>1, <2>2 DEF BucketInv
<1>7. InventoryInv'
  <2> SUFFICES ASSUME NEW s \in Scans, NEW j \in Keys PROVE InventoryInv!(s)!(j)'
    BY DEF InventoryInv
  <2>1. inv[s][j] \in Nat  BY DEF IInv, TypeOK
  <2> QED  BY <2>1, <1>1, <1>2, <1>3 DEF IInv, InventoryInv
<1>8. IndexInv'
  <2> SUFFICES ASSUME NEW p \in Procs, ix[p].pc # "idle" PROVE IndexInv!(p)'
    BY <1>3 DEF IndexInv
  <2>1. ix[p].key \in Keys /\ ix[p].mtime \in Nat /\ ix[p].content \in Nat
    BY DEF IInv, TypeOK, Index
  <2>2. ix[p].pc = "open" => IndexInv!(p)!1'
    BY <2>1, <1>1, <1>2, <1>3 DEF IInv, IndexInv
  <2>3. ix[p].pc = "upsert" => Version(ix[p].content, ix[p].key)'
    BY <2>1, <1>3, <1>5 DEF IInv, IndexInv, Version
  <2> QED  BY <2>1, <2>2, <2>3, <1>3 DEF IInv, IndexInv, Version
<1>9. RowInv'
  <2>1. \A j \in Keys : songs[j].content \in Nat  BY DEF IInv, TypeOK, Song
  <2> QED  BY <2>1, <1>3, <1>5 DEF IInv, RowInv, Version
<1>10. Fresh'  BY <1>2, <1>3 DEF IInv, Fresh
<1>11. OneVersion'  BY <1>2, <1>3 DEF IInv, OneVersion
<1>12. Serial'  BY <1>3 DEF IInv, Serial
<1> QED  BY <1>6, <1>7, <1>8, <1>9, <1>10, <1>11, <1>12 DEF IInv

LEMMA UpsertSongInv ==
  ASSUME IInv, TypeOK', NEW p \in Procs, UpsertSong(p)
  PROVE  IInv'
<1> USE CatalogAssumption, KeySets
<1> DEFINE k == ix[p].key
           c == ix[p].content
<1>1. k \in Keys /\ ix[p] \in Index /\ songs[k] \in Song /\ ix[p].pc = "upsert"
  BY DEF UpsertSong, IInv, TypeOK
<1>2. /\ songs'[k].content = c /\ songs'[k].mtime = ix[p].mtime
      /\ \A j \in Keys \ {k} : songs'[j] = songs[j]
  <2>1. songs \in [Keys -> Song]  BY DEF IInv, TypeOK
  <2>2. \A id : LET row == [songs[k] EXCEPT !.id = id, !.mtime = ix[p].mtime,
                                            !.content = c, !.title = "tags"]
                IN  row.content = c /\ row.mtime = ix[p].mtime
    BY <1>1 DEF Song
  <2> QED  BY <1>1, <2>1, <2>2 DEF UpsertSong, Stamp
<1>3. /\ ix'[p].pc = "genre" /\ ix'[p].key = k
      /\ \A q \in Procs \ {p} : ix'[q] = ix[q]
  <2>1. ix \in [Procs -> Index]  BY DEF IInv, TypeOK
  <2>2. \A id : LET call == [ix[p] EXCEPT !.pc = "genre", !.id = id]
                IN  call.pc = "genre" /\ call.key = k
    BY <1>1 DEF Index
  <2> QED  BY <2>1, <2>2 DEF UpsertSong
<1>4. UNCHANGED <<now, bucket, lock, scan, existing, inv, todo, upc>>
  BY DEF UpsertSong, scanVars
<1>5. ASSUME NEW q \in Procs \ {p}, ix[q].pc = "upsert", ix[q].key = k
      PROVE  k \in Uploads /\ ix[q].content = c
  <2>1. k \in Uploads  BY <1>1, <1>5, Exclusive
  <2> QED  BY <1>1, <1>5, <2>1 DEF IInv, OneVersion
<1>6. c \in Nat /\ ix[p].mtime \in Nat  BY <1>1 DEF Index
<1>7. ix[p].mtime <= c /\ Version(c, k)  BY <1>1 DEF IInv, IndexInv
<1> HIDE DEF k, c
<1>8. BucketInv'  BY <1>4 DEF IInv, BucketInv
<1>9. InventoryInv'  BY <1>4 DEF IInv, InventoryInv
<1>10. IndexInv'
  <2> SUFFICES ASSUME NEW q \in Procs \ {p} PROVE IndexInv!(q)'
    BY <1>3 DEF IndexInv
  <2>1. ix[q].pc = "open" => IndexInv!(q)!1!2'
    BY <1>3, <1>4 DEF IInv, IndexInv
  <2>2. CASE ix[q].pc = "upsert" /\ ix[q].key = k
    BY <1>2, <1>3, <1>4, <1>5, <1>6, <2>2 DEF IInv, IndexInv, Version
  <2>3. CASE ix[q].pc = "upsert" /\ ix[q].key # k
    <3>1. ix[q].key \in Keys  BY <2>3 DEF IInv, TypeOK
    <3> QED  BY <1>2, <1>3, <1>4, <2>3, <3>1 DEF IInv, IndexInv, Version
  <2> QED  BY <1>3, <1>4, <2>2, <2>3 DEF IInv, IndexInv
<1>11. RowInv'
  BY <1>1, <1>2, <1>4, <1>7 DEF IInv, RowInv, Version
<1>12. Fresh'
  <2>1. \A u \in Uploads : upc[u] = "new" => u # k  BY <1>1 DEF IInv, Fresh, k
  <2>2. \A q \in Procs : ix'[q].pc # "idle" => ix[q].pc # "idle" /\ ix'[q].key = ix[q].key
    BY <1>1, <1>3 DEF k
  <2> QED  BY <1>2, <1>4, <2>1, <2>2 DEF IInv, Fresh
<1>13. OneVersion'
  <2>1. \A q \in Procs : ix'[q].pc = "upsert" => ix'[q] = ix[q]
    BY <1>3
  <2>2. ASSUME NEW u \in Uploads, u # k PROVE OneVersion!(u)'
    BY <1>2, <1>4, <2>1, <2>2 DEF IInv, OneVersion
  <2>3. ASSUME NEW u \in Uploads, u = k PROVE OneVersion!(u)'
    <3>1. bucket[u].kind # "none" => bucket[u].mtime = c
      BY <1>1, <2>3 DEF IInv, OneVersion, k, c
    <3>2. \A q \in Procs : ix'[q].pc = "upsert" /\ ix'[q].key = u => ix'[q].content = c
      BY <1>3, <1>5, <2>3
    <3> QED  BY <1>2, <1>4, <2>3, <3>1, <3>2
  <2> QED  BY <2>2, <2>3 DEF OneVersion
<1>14. Serial'
  <2>1. \A s \in Scans, w \in Workers : <<s, w>> \in Procs  BY DEF Procs, Crew
  <2>2. \A q \in Procs : ix'[q].pc # "idle" => ix[q].pc # "idle" /\ ix'[q].key = ix[q].key
    BY <1>1, <1>3 DEF k
  <2> QED  BY <1>4, <2>1, <2>2 DEF IInv, Serial
<1> QED  BY <1>8, <1>9, <1>10, <1>11, <1>12, <1>13, <1>14 DEF IInv

(* An upload's object arrives.                                              *)
LEMMA StoredInv ==
  ASSUME IInv, TypeOK', NEW u \in Uploads, upc[u] = "new", upc'[u] # "new", NothingNew,
         now' = now + 1,
         bucket' = [bucket EXCEPT ![u] = [mtime |-> now + 1, kind |-> "audio"]],
         UNCHANGED <<songs, lock, scan, inv, todo, ix>>
  PROVE  IInv'
<1> USE CatalogAssumption, KeySets
<1>1. now \in Nat /\ \A j \in Keys : bucket[j].mtime \in Nat
  BY DEF IInv, TypeOK, Object
<1>2. /\ bucket'[u].mtime = now' /\ bucket'[u].kind # "none"
      /\ \A j \in Keys \ {u} : bucket'[j] = bucket[j]
  <2>1. bucket \in [Keys -> Object]  BY DEF IInv, TypeOK
  <2> QED  BY <2>1
<1>3. /\ songs[u].content = 0
      /\ \A s \in Scans : inv[s][u] = 0
      /\ \A p \in Procs : ix[p].pc # "idle" => ix[p].key # u
  BY DEF IInv, Fresh
<1>4. BucketInv'
  <2>1. \A j \in Keys \ {u} : BucketInv!(j)'
    BY <1>1, <1>2 DEF IInv, BucketInv
  <2> QED  BY <1>1, <1>2, <2>1 DEF BucketInv
<1>5. InventoryInv'
  <2> SUFFICES ASSUME NEW s \in Scans, NEW j \in Keys PROVE InventoryInv!(s)!(j)'
    BY DEF InventoryInv
  <2>1. inv[s][j] \in Nat  BY DEF IInv, TypeOK
  <2>2. CASE j = u  BY <1>1, <1>2, <1>3, <2>2 DEF IInv, InventoryInv
  <2>3. CASE j # u  BY <2>1, <1>1, <1>2, <2>3 DEF IInv, InventoryInv
  <2> QED  BY <2>2, <2>3
<1>6. IndexInv'
  <2> SUFFICES ASSUME NEW p \in Procs, ix[p].pc # "idle" PROVE IndexInv!(p)'
    BY DEF IndexInv
  <2>1. ix[p].key \in Keys \ {u} /\ ix[p].mtime \in Nat /\ ix[p].content \in Nat
    BY <1>3 DEF IInv, TypeOK, Index
  <2> QED  BY <1>1, <1>2, <2>1 DEF IInv, IndexInv, Version
<1>7. RowInv'
  <2>1. \A j \in Keys : songs[j].content \in Nat  BY DEF IInv, TypeOK, Song
  <2>2. RowInv!(u)'  BY <1>1, <1>2, <1>3 DEF IInv, RowInv, Version
  <2>3. \A j \in Keys \ {u} : RowInv!(j)'  BY <1>1, <1>2, <2>1 DEF IInv, RowInv, Version
  <2> QED  BY <2>2, <2>3 DEF RowInv
<1>8. Fresh'  BY <1>2 DEF IInv, Fresh, NothingNew
<1>9. OneVersion'
  <2>1. OneVersion!(u)'  BY <1>3
  <2>2. \A v \in Uploads \ {u} : OneVersion!(v)'  BY <1>2 DEF IInv, OneVersion
  <2> QED  BY <2>1, <2>2 DEF OneVersion
<1>10. Serial'  BY DEF IInv, Serial
<1> QED  BY <1>4, <1>5, <1>6, <1>7, <1>8, <1>9, <1>10 DEF IInv

(* An object is removed.                                                    *)
LEMMA RemovedInv ==
  ASSUME IInv, TypeOK', NEW k \in Keys, NothingNew,
         bucket' = [bucket EXCEPT ![k] = NoObject],
         UNCHANGED <<now, songs, lock, scan, inv, todo, ix>>
  PROVE  IInv'
<1>1. /\ bucket'[k].mtime = 0 /\ bucket'[k].kind = "none"
      /\ \A j \in Keys \ {k} : bucket'[j] = bucket[j]
  BY DEF IInv, TypeOK, NoObject
<1>2. now \in Nat  BY DEF IInv, TypeOK
<1>3. BucketInv'  BY <1>1, <1>2 DEF IInv, BucketInv
<1>4. InventoryInv'  BY <1>1 DEF IInv, InventoryInv
<1>5. IndexInv'
  <2>1. \A p \in Procs : ix[p].pc # "idle" => ix[p].key \in Keys  BY DEF IInv, TypeOK
  <2>2. \A j \in Keys : bucket'[j].kind # "none" => bucket'[j] = bucket[j]  BY <1>1
  <2> HIDE DEF NoObject
  <2> QED  BY <2>1, <2>2 DEF IInv, IndexInv, Version
<1>6. RowInv'  BY <1>1 DEF IInv, RowInv, Version
<1>7. Fresh'  BY <1>1, KeySets DEF IInv, Fresh, NothingNew
<1>8. OneVersion'  BY <1>1, KeySets DEF IInv, OneVersion
<1>9. Serial'  BY DEF IInv, Serial
<1> QED  BY <1>3, <1>4, <1>5, <1>6, <1>7, <1>8, <1>9 DEF IInv

(* A call starts with an object's listed or reported time.                  *)
LEMMA StartedInv ==
  ASSUME IInv, TypeOK', NEW p \in Procs, NEW k \in Keys, ix[p].pc = "idle",
         ix'[p].pc = "open", ix'[p].key = k,
         ix'[p].mtime <= now,
         bucket[k].kind # "none" => ix'[p].mtime <= bucket[k].mtime,
         \A q \in Procs \ {p} : ix'[q] = ix[q],
         k \in Uploads => upc[k] # "new",
         UNCHANGED <<now, bucket, songs, inv, upc>>
  PROVE  IndexInv' /\ Fresh' /\ OneVersion'
<1>1. IndexInv'  BY DEF IInv, IndexInv, Version
<1>2. Fresh'  BY DEF IInv, Fresh
<1>3. OneVersion'
  <2>1. \A q \in Procs : ix'[q].pc = "upsert" => ix'[q] = ix[q]  OBVIOUS
  <2> QED  BY <2>1 DEF IInv, OneVersion
<1> QED  BY <1>1, <1>2, <1>3

LEMMA ListObjectInv ==
  ASSUME IInv, TypeOK', NEW s \in Scans, ListObject(s)
  PROVE  IInv'
<1>1. PICK k \in todo[s] : /\ todo' = [todo EXCEPT ![s] = @ \ {k}]
                           /\ inv' = [inv EXCEPT ![s][k] = Entry(bucket[k])]
  BY DEF ListObject
<1>2. k \in Keys /\ bucket[k] \in Object /\ scan[s] = "list"
  BY DEF ListObject, IInv, TypeOK
<1>3. UNCHANGED <<now, bucket, songs, lock, scan, ix, upc>>
  BY DEF ListObject
<1>4. /\ inv'[s][k] = Entry(bucket[k])
      /\ \A t \in Scans, j \in Keys : t # s \/ j # k => inv'[t][j] = inv[t][j]
  BY <1>1, <1>2 DEF IInv, TypeOK
<1>5. \A t \in Scans : t # s => todo'[t] = todo[t]
  BY <1>1 DEF IInv, TypeOK
<1>6. Entry(bucket[k]) \in {0, bucket[k].mtime}  BY DEF Entry
<1>7. InventoryInv'
  <2> SUFFICES ASSUME NEW t \in Scans, NEW j \in Keys PROVE InventoryInv!(t)!(j)'
    BY DEF InventoryInv
  <2>1. CASE t = s /\ j = k
    <3>1. bucket[k].mtime \in Nat /\ bucket[k].mtime <= now /\ now \in Nat
      BY <1>2 DEF IInv, TypeOK, BucketInv, Object
    <3>2. scan'[s] # "index"  BY <1>2, <1>3
    <3> QED  BY <1>3, <1>4, <1>6, <2>1, <3>1, <3>2
  <2>2. CASE t = s /\ j # k
    BY <1>2, <1>3, <1>4, <2>2 DEF IInv, InventoryInv
  <2>3. CASE t # s
    BY <1>3, <1>4, <1>5, <2>3 DEF IInv, InventoryInv
  <2> QED  BY <2>1, <2>2, <2>3
<1>8. Fresh'
  <2>1. \A u \in Uploads : upc[u] = "new" => Entry(bucket[u]) = 0
    BY DEF IInv, Fresh, Entry, Listable
  <2>2. \A u \in Uploads, t \in Scans : upc[u] = "new" => inv'[t][u] = 0
    BY <1>4, <2>1, KeySets DEF IInv, Fresh
  <2> QED  BY <1>3, <2>2 DEF IInv, Fresh
<1>9. Serial'
  <2>1. \A t \in Scans : scan[t] = "index" => todo'[t] = todo[t]
    BY <1>2, <1>5
  <2> QED  BY <1>3, <2>1 DEF IInv, Serial
<1>10. BucketInv' /\ IndexInv' /\ RowInv' /\ OneVersion'
  BY <1>3 DEF IInv, BucketInv, IndexInv, RowInv, OneVersion, Version
<1> QED  BY <1>7, <1>8, <1>9, <1>10 DEF IInv

LEMMA TakeJobInv ==
  ASSUME IInv, TypeOK', NEW s \in Scans, NEW w \in Workers, TakeJob(s, w)
  PROVE  IInv'
<1> DEFINE p == <<s, w>>
<1>1. PICK k \in todo[s] :
        /\ todo' = [todo EXCEPT ![s] = @ \ {k}]
        /\ ix' = IF Unchanged(existing[s][k], inv[s][k]) THEN ix
                 ELSE [ix EXCEPT ![p] =
                        [NoIndex EXCEPT !.pc = "open", !.key = k, !.mtime = inv[s][k]]]
  BY DEF TakeJob
<1>2. /\ k \in Keys /\ scan[s] = "index" /\ ix[p].pc = "idle"
      /\ p \in Procs /\ \A t \in Scans, v \in Workers : <<t, v>> \in Procs
  BY DEF TakeJob, IInv, TypeOK, Procs, Crew
<1>3. UNCHANGED <<now, bucket, songs, lock, scan, inv, upc>>
  BY DEF TakeJob
<1>4. /\ todo'[s] = todo[s] \ {k}
      /\ \A t \in Scans \ {s} : todo'[t] = todo[t]
  BY <1>1 DEF IInv, TypeOK
<1>5. \/ ix' = ix
      \/ /\ ix'[p].pc = "open" /\ ix'[p].key = k /\ ix'[p].mtime = inv[s][k]
         /\ \A q \in Procs \ {p} : ix'[q] = ix[q]
  <2>1. ix \in [Procs -> Index]  BY DEF IInv, TypeOK
  <2> QED  BY <1>1, <1>2, <2>1 DEF NoIndex
<1>6. BucketInv' /\ RowInv'
  BY <1>3 DEF IInv, BucketInv, RowInv, Version
<1>7. InventoryInv'
  <2>1. \A t \in Scans : todo'[t] \subseteq todo[t]  BY <1>4
  <2> QED  BY <1>3, <2>1 DEF IInv, InventoryInv
<1> HIDE DEF p
<1>8. IndexInv' /\ Fresh' /\ OneVersion'
  <2>1. CASE ix' = ix
    BY <1>3, <2>1 DEF IInv, IndexInv, Fresh, OneVersion, Version
  <2>2. CASE ix' # ix
    <3>1. inv[s][k] <= now /\ (bucket[k].kind # "none" => inv[s][k] <= bucket[k].mtime)
      BY <1>2 DEF IInv, InventoryInv
    <3>2. k \in Uploads => upc[k] # "new"
      BY <1>2 DEF IInv, InventoryInv, Fresh
    <3> QED  BY <1>2, <1>3, <1>5, <2>2, <3>1, <3>2, StartedInv
  <2> QED  BY <2>1, <2>2
<1>9. Serial'
  <2>1. \A q \in Procs : q # p => ix'[q].pc = ix[q].pc /\ ix'[q].key = ix[q].key
    BY <1>5
  <2>2. \A u \in Uploads : u # p
    BY CatalogAssumption DEF p, Crew
  <2>3. ix'[p].pc # "idle" => ix'[p].key = k
    BY <1>2, <1>5
  <2>4. \A t \in Scans, v \in Workers : ix'[<<t, v>>].pc # "idle" =>
          scan'[t] = "index" /\ ix'[<<t, v>>].key \notin todo'[t]
    <3> SUFFICES ASSUME NEW t \in Scans, NEW v \in Workers, ix'[<<t, v>>].pc # "idle"
                 PROVE  scan'[t] = "index" /\ ix'[<<t, v>>].key \notin todo'[t]
      OBVIOUS
    <3>1. CASE <<t, v>> = p
      <4>1. t = s  BY <3>1 DEF p
      <4> QED  BY <1>2, <1>3, <1>4, <2>3, <3>1, <4>1
    <3>2. CASE <<t, v>> # p
      <4>1. ix[<<t, v>>].pc # "idle" /\ ix'[<<t, v>>].key = ix[<<t, v>>].key
        BY <1>2, <2>1, <3>2
      <4>2. scan[t] = "index" /\ ix[<<t, v>>].key \notin todo[t]
        BY <4>1 DEF IInv, Serial
      <4> QED  BY <1>3, <1>4, <4>1, <4>2
    <3> QED  BY <3>1, <3>2
  <2>5. \A t \in Scans, v, x \in Workers :
          v # x /\ ix'[<<t, v>>].pc # "idle" /\ ix'[<<t, x>>].pc # "idle"
            => ix'[<<t, v>>].key # ix'[<<t, x>>].key
    <3>1. ASSUME NEW v \in Workers, v # w, ix'[<<s, v>>].pc # "idle"
          PROVE  ix'[<<s, v>>].key # k
      <4>1. <<s, v>> # p  BY <3>1 DEF p
      <4>2. ix[<<s, v>>].pc # "idle" /\ ix'[<<s, v>>].key = ix[<<s, v>>].key
        BY <1>2, <2>1, <3>1, <4>1
      <4>3. ix[<<s, v>>].key \notin todo[s]
        BY <4>2 DEF IInv, Serial
      <4> QED  BY <4>2, <4>3
    <3> SUFFICES ASSUME NEW t \in Scans, NEW v \in Workers, NEW x \in Workers, v # x,
                        ix'[<<t, v>>].pc # "idle", ix'[<<t, x>>].pc # "idle"
                 PROVE  ix'[<<t, v>>].key # ix'[<<t, x>>].key
      OBVIOUS
    <3>2. CASE t = s /\ v = w  BY <2>3, <3>1, <3>2 DEF p
    <3>3. CASE t = s /\ x = w  BY <2>3, <3>1, <3>3 DEF p
    <3>4. CASE ~(t = s /\ v = w) /\ ~(t = s /\ x = w)
      <4>1. <<t, v>> # p /\ <<t, x>> # p  BY <3>4 DEF p
      <4>2. /\ ix[<<t, v>>].pc # "idle" /\ ix[<<t, x>>].pc # "idle"
            /\ ix'[<<t, v>>].key = ix[<<t, v>>].key /\ ix'[<<t, x>>].key = ix[<<t, x>>].key
        BY <1>2, <2>1, <4>1
      <4> QED  BY <4>2 DEF IInv, Serial
    <3> QED  BY <3>2, <3>3, <3>4
  <2>6. \A t \in Scans : scan'[t] \notin {"idle", "wait"} => lock' = t
    BY <1>3 DEF IInv, Serial
  <2>7. \A u \in Uploads : ix'[u].pc # "idle" => ix'[u].key = u
    BY <2>1, <2>2, KeySets DEF IInv, Serial
  <2> QED  BY <2>4, <2>5, <2>6, <2>7 DEF Serial
<1> QED  BY <1>6, <1>7, <1>8, <1>9 DEF IInv

LEMMA DownloadInv ==
  ASSUME IInv, TypeOK', NEW p \in Procs, Download(p)
  PROVE  IInv'
<1>1. UNCHANGED <<now, bucket, songs, lock, scan, existing, inv, todo>>
  BY DEF Download, scanVars
<1>2. CASE Abandon(p)
  <2>1. TypeOK  BY DEF IInv
  <2> QED  BY <1>1, <1>2, <2>1, SameRowsCarried, AbandonMoves, CallsMoveOnInv
<1>3. CASE ~Abandon(p)
  <2> DEFINE k == ix[p].key
  <2>1. k \in Keys /\ ix[p] \in Index /\ ix[p].pc = "open" /\ bucket[k].kind = "audio"
    BY <1>3 DEF Download, IInv, TypeOK
  <2>2. /\ ix'[p].pc = "upsert" /\ ix'[p].key = k /\ ix'[p].mtime = ix[p].mtime
        /\ ix'[p].content = bucket[k].mtime
        /\ \A q \in Procs \ {p} : ix'[q] = ix[q]
    <3>1. ix \in [Procs -> Index]  BY DEF IInv, TypeOK
    <3> DEFINE call == [ix[p] EXCEPT !.pc = "upsert", !.content = bucket[k].mtime]
    <3>2. /\ call.pc = "upsert" /\ call.key = k
          /\ call.content = bucket[k].mtime /\ call.mtime = ix[p].mtime
      BY <2>1 DEF Index
    <3>3. ix' = [ix EXCEPT ![p] = call]  BY <1>3, <3>1 DEF Download
    <3> HIDE DEF call
    <3> QED  BY <3>1, <3>2, <3>3
  <2>3. UNCHANGED upc  BY <1>3 DEF Download
  <2>4. bucket[k].mtime \in Nat /\ bucket[k].mtime # 0 /\ bucket[k].mtime <= now
    BY <2>1 DEF IInv, BucketInv, TypeOK, Object
  <2> HIDE DEF k
  <2>5. songs[k].content \in Nat /\ songs[k].content <= bucket[k].mtime
    <3>1. songs[k].content \in Nat  BY <2>1 DEF IInv, TypeOK, Song
    <3> QED  BY <2>1, <2>4, <3>1 DEF IInv, RowInv, Version, Second
  <2>6. IndexInv'
    <3>1. IndexInv!(p)'
      <4>1. ix[p].mtime <= bucket[k].mtime  BY <2>1 DEF IInv, IndexInv, k
      <4> QED  BY <1>1, <2>2, <2>4, <2>5, <4>1 DEF Version
    <3>2. \A q \in Procs \ {p} : IndexInv!(q)'
      BY <1>1, <2>2 DEF IInv, IndexInv, Version
    <3> QED  BY <3>1, <3>2 DEF IndexInv
  <2>7. Fresh'
    <3>1. \A q \in Procs : ix'[q].pc # "idle" => ix[q].pc # "idle" /\ ix'[q].key = ix[q].key
      BY <2>1, <2>2 DEF k
    <3> QED  BY <1>1, <2>3, <3>1 DEF IInv, Fresh
  <2>8. OneVersion'
    <3>1. ASSUME NEW u \in Uploads, u # k PROVE OneVersion!(u)'
      <4>1. \A q \in Procs : ix'[q].pc = "upsert" /\ ix'[q].key = u => ix'[q] = ix[q]
        BY <2>2, <3>1
      <4> QED  BY <1>1, <4>1 DEF IInv, OneVersion
    <3>2. ASSUME NEW u \in Uploads, u = k PROVE OneVersion!(u)'
      <4>1. \A q \in Procs : ix'[q].pc = "upsert" /\ ix'[q].key = u
              => ix'[q].content = bucket[u].mtime
        BY <2>1, <2>2, <3>2 DEF IInv, OneVersion
      <4>2. songs[u].content \in {0, bucket[u].mtime}
        BY <2>1, <3>2 DEF IInv, OneVersion
      <4> QED  BY <1>1, <4>1, <4>2
    <3> QED  BY <3>1, <3>2 DEF OneVersion
  <2>9. Serial'
    <3>1. \A s \in Scans, w \in Workers : <<s, w>> \in Procs  BY DEF Procs, Crew
    <3>2. \A q \in Procs : ix'[q].pc # "idle" => ix[q].pc # "idle" /\ ix'[q].key = ix[q].key
      BY <2>1, <2>2 DEF k
    <3> QED  BY <1>1, <3>1, <3>2, KeySets DEF IInv, Serial
  <2>10. BucketInv' /\ InventoryInv' /\ RowInv'
    BY <1>1 DEF IInv, BucketInv, InventoryInv, RowInv, Version
  <2> QED  BY <2>6, <2>7, <2>8, <2>9, <2>10 DEF IInv
<1> QED  BY <1>2, <1>3

LEMMA IndexFileInv ==
  ASSUME IInv, TypeOK', NEW u \in Uploads, IndexFile(u)
  PROVE  IInv'
<1> USE KeySets
<1>1. UNCHANGED <<now, bucket, songs, lock, scan, existing, inv, todo>>
  BY DEF IndexFile, scanVars
<1>2. CASE Abandon(u)
  <2>1. TypeOK  BY DEF IInv
  <2> QED  BY <1>1, <1>2, <2>1, SameRowsCarried, AbandonMoves, CallsMoveOnInv
<1>3. CASE ~Abandon(u)
  <2>1. ix[u].pc = "idle" /\ upc[u] # "new" /\ UNCHANGED upc
    BY <1>3 DEF IndexFile
  <2>2. /\ ix'[u].pc = "open" /\ ix'[u].key = u /\ ix'[u].mtime = StatTime(bucket[u])
        /\ \A q \in Procs \ {u} : ix'[q] = ix[q]
    <3>1. ix \in [Procs -> Index]  BY DEF IInv, TypeOK
    <3> QED  BY <1>3, <3>1 DEF IndexFile, NoIndex
  <2>3. StatTime(bucket[u]) <= bucket[u].mtime /\ StatTime(bucket[u]) <= now
    <3>1. bucket[u].mtime \in Nat /\ bucket[u].mtime <= now /\ now \in Nat
      BY DEF IInv, BucketInv, TypeOK, Object
    <3> QED  BY <3>1 DEF StatTime, Second
  <2>4. IndexInv' /\ Fresh' /\ OneVersion'
    BY <1>1, <2>1, <2>2, <2>3, StartedInv
  <2>5. Serial'
    <3>1. \A s \in Scans, w \in Workers : <<s, w>> \in Procs /\ <<s, w>> # u
      BY CatalogAssumption DEF Procs, Crew
    <3>2. \A s \in Scans, w \in Workers : ix'[<<s, w>>] = ix[<<s, w>>]
      BY <2>2, <3>1
    <3> QED  BY <1>1, <2>2, <3>2 DEF IInv, Serial
  <2>6. BucketInv' /\ InventoryInv' /\ RowInv'
    BY <1>1 DEF IInv, BucketInv, InventoryInv, RowInv, Version
  <2> QED  BY <2>4, <2>5, <2>6 DEF IInv
<1> QED  BY <1>2, <1>3

(* The actions of a scan that neither list nor index.                       *)
LEMMA ScanInv ==
  ASSUME IInv, TypeOK', NEW s \in Scans,
         Request(s) \/ Lock(s) \/ LoadSongPaths(s) \/ InventoryDone(s) \/ BeginPrune(s),
         BeginPrune(s) => scan[s] = "index" /\ WorkersDone(s),
         UNCHANGED <<now, bucket, songs, ix, upc>>
  PROVE  IInv'
<1>1. inv' = inv
  BY DEF Request, Lock, LoadSongPaths, InventoryDone, BeginPrune
<1>2. /\ \A t \in Scans \ {s} : scan'[t] = scan[t] /\ todo'[t] = todo[t]
      /\ scan'[s] = "index" => todo'[s] = Seen(s)
  BY DEF IInv, TypeOK, Request, Lock, LoadSongPaths, InventoryDone, BeginPrune
<1>3. BucketInv' /\ IndexInv' /\ RowInv' /\ Fresh' /\ OneVersion'
  BY <1>1 DEF IInv, BucketInv, IndexInv, RowInv, Fresh, OneVersion, Version
<1>4. InventoryInv'
  BY <1>1, <1>2 DEF IInv, InventoryInv, Seen
<1>5. Serial'
  <2>1. \A t \in Scans : scan'[t] \notin {"idle", "wait"} => lock' = t
    <3>1. scan \in [Scans -> ScanPC] /\ \A t \in Scans : scan[t] \notin {"idle", "wait"} => lock = t
      BY DEF IInv, TypeOK, Serial
    <3>2. CASE Request(s)  BY <3>1, <3>2 DEF Request
    <3>3. CASE Lock(s)
      <4>1. \A t \in Scans : scan[t] \in {"idle", "wait"}
        BY <3>1, <3>3, CatalogAssumption DEF Lock, Free
      <4> QED  BY <3>1, <3>3, <4>1 DEF Lock
    <3>4. CASE LoadSongPaths(s)  BY <3>1, <3>4 DEF LoadSongPaths
    <3>5. CASE InventoryDone(s)  BY <3>1, <3>5 DEF InventoryDone
    <3>6. CASE BeginPrune(s)  BY <3>1, <3>6 DEF BeginPrune
    <3> QED  BY <3>2, <3>3, <3>4, <3>5, <3>6
  <2>2. \A w \in Workers : ix[<<s, w>>].pc = "idle"
    BY DEF IInv, Serial, Request, Lock, LoadSongPaths, InventoryDone, WorkersDone
  <2> QED  BY <1>2, <2>1, <2>2 DEF IInv, Serial
<1> QED  BY <1>3, <1>4, <1>5 DEF IInv

LEMMA InitInv == Init => IInv
<1> SUFFICES ASSUME Init PROVE IInv
  OBVIOUS
<1>1. TypeOK  BY InitType
<1>2. BucketInv  BY DEF Init, BucketInv, NoObject, Second
<1>3. InventoryInv  BY DEF Init, InventoryInv, NoTimes, NoObject, Second
<1>4. IndexInv  BY DEF Init, IndexInv, NoIndex
<1>5. RowInv  BY DEF Init, RowInv, Version, NoSong, NoObject, Second
<1>6. Fresh  BY KeySets DEF Init, Fresh, NoSong, NoObject, NoTimes, NoIndex
<1>7. OneVersion  BY KeySets DEF Init, OneVersion, NoSong, NoObject, NoIndex
<1>8. Serial
  <2>1. \A s \in Scans, w \in Workers : <<s, w>> \in Procs  BY DEF Procs, Crew
  <2> QED  BY <2>1, KeySets DEF Init, Serial, NoIndex
<1> QED  BY <1>1, <1>2, <1>3, <1>4, <1>5, <1>6, <1>7, <1>8 DEF IInv

LEMMA StepInv == IInv /\ [Next]_vars => IInv'
<1> SUFFICES ASSUME IInv, [Next]_vars PROVE IInv'
  OBVIOUS
<1>T. TypeOK /\ TypeOK'  BY StepType DEF IInv
<1> USE <1>T, KeySets
<1>1. ASSUME NEW k \in Library, NEW kind \in {"audio", "junk", "empty"}, ExternalPut(k, kind)
      PROVE  IInv'
  BY <1>1, ExternalPutInv
<1>2. ASSUME NEW k \in Keys, ExternalRemove(k) PROVE IInv'
  BY <1>2, RemovedInv DEF ExternalRemove, scanVars, NothingNew
<1>3. ASSUME NEW s \in Scans, Request(s) \/ Lock(s) \/ LoadSongPaths(s) \/ InventoryDone(s)
      PROVE  IInv'
  <2>1. BeginPrune(s) => FALSE
    BY <1>3 DEF Request, Lock, LoadSongPaths, InventoryDone, BeginPrune, TypeOK
  <2> QED  BY <1>3, <2>1, ScanInv DEF Request, Lock, LoadSongPaths, InventoryDone
<1>4. ASSUME NEW s \in Scans, ListObject(s) PROVE IInv'
  BY <1>4, ListObjectInv
<1>5. ASSUME NEW s \in Scans, NEW w \in Workers, TakeJob(s, w) PROVE IInv'
  BY <1>5, TakeJobInv
<1>6. ASSUME NEW s \in Scans, IndexDone(s) PROVE IInv'
  <2>1. CASE BeginPrune(s)  BY <1>6, <2>1, ScanInv DEF IndexDone
  <2>2. CASE Return(s)
    BY <1>6, <2>2, SameRowsCarried, ReturnInv DEF IndexDone, WorkersDone
  <2> QED  BY <1>6, <2>1, <2>2 DEF IndexDone
<1>7. ASSUME NEW s \in Scans, Prune(s) PROVE IInv'
  <2>1. RowsCarried  BY <1>7 DEF Prune, NoSong, RowsCarried
  <2>2. scan[s] = "prune" /\ \A w \in Workers : ix[<<s, w>>].pc = "idle"
    BY <1>7 DEF Prune, IInv, Serial
  <2> QED  BY <1>7, <2>1, <2>2, ReturnInv DEF Prune
<1>8. ASSUME NEW s \in Scans, ScanCallFails(s) PROVE IInv'
  <2>1. /\ scan[s] \notin {"idle", "wait"}
        /\ \A w \in Workers : ix[<<s, w>>].pc = "idle"
    BY <1>8 DEF ScanCallFails, IInv, Serial
  <2> QED  BY <1>8, <2>1, SameRowsCarried, ReturnInv DEF ScanCallFails
<1>9. ASSUME NEW p \in Procs, Download(p) PROVE IInv'
  BY <1>9, DownloadInv
<1>10. ASSUME NEW p \in Procs, UpsertSong(p) PROVE IInv'
  BY <1>10, UpsertSongInv
<1>11. ASSUME NEW p \in Procs, AssignGenre(p) PROVE IInv'
  <2>1. CallsMoveOn /\ NothingNew  BY <1>11, GenreSteps, GoneOnMoves
  <2>2. RowsCarried
    <3>1. ix[p].key \in Keys /\ songs[ix[p].key] \in Song  BY <1>11 DEF AssignGenre, TypeOK
    <3> DEFINE row == [songs[ix[p].key] EXCEPT !.genre = TRUE]
    <3>2. /\ row \in Song /\ row.mtime = songs[ix[p].key].mtime
          /\ row.content = songs[ix[p].key].content
      BY <3>1 DEF Song
    <3>3. songs' = songs \/ songs' = [songs EXCEPT ![ix[p].key] = row]
      BY <1>11, <3>1 DEF AssignGenre, TypeOK
    <3> HIDE DEF row
    <3> QED  BY <3>1, <3>2, <3>3, RowUpdateKept
  <2> QED  BY <1>11, <2>1, <2>2, CallsMoveOnInv DEF AssignGenre, scanVars
<1>12. ASSUME NEW p \in Procs, AttachArt(p) PROVE IInv'
  <2>1. CallsMoveOn /\ NothingNew  BY <1>12, ReturnSongMoves DEF AttachArt
  <2>2. RowsCarried
    <3>1. ix[p].key \in Keys /\ songs[ix[p].key] \in Song  BY <1>12 DEF AttachArt, TypeOK
    <3> DEFINE row == [songs[ix[p].key] EXCEPT !.art = "tags"]
    <3>2. /\ row \in Song /\ row.mtime = songs[ix[p].key].mtime
          /\ row.content = songs[ix[p].key].content
      BY <3>1 DEF Song
    <3>3. songs' = songs \/ songs' = [songs EXCEPT ![ix[p].key] = row]
      BY <1>12, <3>1 DEF AttachArt, TypeOK
    <3> HIDE DEF row
    <3> QED  BY <3>1, <3>2, <3>3, RowUpdateKept
  <2> QED  BY <1>12, <2>1, <2>2, CallsMoveOnInv DEF AttachArt, scanVars
<1>13. ASSUME NEW p \in Procs, IndexCallFails(p) PROVE IInv'
  BY <1>13, SameRowsCarried, AbandonMoves, CallsMoveOnInv DEF IndexCallFails, scanVars
<1>14. ASSUME NEW p \in Procs, AttachCallFails(p) PROVE IInv'
  <2>1. CallsMoveOn /\ NothingNew
    <3>1. CASE ReturnSong(p)  BY <3>1, ReturnSongMoves
    <3>2. CASE GoesOn(p)  BY <3>2, GoneOnMoves
    <3> QED  BY <1>14, <3>1, <3>2, FailedSteps
  <2> QED  BY <1>14, <2>1, SameRowsCarried, CallsMoveOnInv DEF AttachCallFails, scanVars
<1>15. ASSUME NEW u \in Uploads, PutObject(u) PROVE IInv'
  <2>1. upc'[u] # "new" /\ NothingNew  BY <1>15 DEF PutObject, NothingNew, TypeOK
  <2> QED  BY <1>15, <2>1, StoredInv DEF PutObject, scanVars
<1>16. ASSUME NEW u \in Uploads, PutFails(u) PROVE IInv'
  <2>1. upc'[u] # "new" /\ NothingNew  BY <1>16 DEF PutFails, NothingNew, TypeOK
  <2>2. CASE UNCHANGED <<now, bucket>>
    <3>1. CallsMoveOn  BY <1>16 DEF PutFails, CallsMoveOn
    <3> QED  BY <1>16, <2>1, <2>2, <3>1, SameRowsCarried, CallsMoveOnInv DEF PutFails, scanVars
  <2>3. CASE ~UNCHANGED <<now, bucket>>
    BY <1>16, <2>1, <2>3, StoredInv DEF PutFails, scanVars
  <2> QED  BY <2>2, <2>3
<1>17. ASSUME NEW u \in Uploads, IndexFile(u) PROVE IInv'
  BY <1>17, IndexFileInv
<1>18. ASSUME NEW u \in Uploads, StatFails(u) PROVE IInv'
  BY <1>18, SameRowsCarried, AbandonMoves, CallsMoveOnInv DEF StatFails, scanVars
<1>19. ASSUME NEW u \in Uploads, Cleanup(u) PROVE IInv'
  <2>1. NothingNew  BY <1>19 DEF Cleanup, NothingNew, TypeOK
  <2>2. CASE UNCHANGED bucket
    <3>1. CallsMoveOn  BY <1>19 DEF Cleanup, CallsMoveOn
    <3> QED  BY <1>19, <2>1, <2>2, <3>1, SameRowsCarried, CallsMoveOnInv DEF Cleanup, scanVars
  <2>3. CASE ~UNCHANGED bucket
    BY <1>19, <2>1, <2>3, RemovedInv DEF Cleanup, scanVars
  <2> QED  BY <2>2, <2>3
<1>20. ASSUME NEW u \in Uploads, ApplyField(u) PROVE IInv'
  <2>1. CallsMoveOn  BY <1>20 DEF ApplyField, CallsMoveOn
  <2>2. NothingNew
    BY <1>20 DEF ApplyField, NothingNew, NextField, Fields, TypeOK
  <2>3. RowsCarried
    <3>1. songs[u] \in Song  BY DEF TypeOK
    <3>2. \A row \in {[songs[u] EXCEPT !.title = "form"], [songs[u] EXCEPT !.chosen = TRUE],
                      [songs[u] EXCEPT !.art = "form"]} :
            row \in Song /\ row.mtime = songs[u].mtime /\ row.content = songs[u].content
      BY <3>1 DEF Song
    <3>3. \/ songs' = songs
          \/ songs' = [songs EXCEPT ![u] = [songs[u] EXCEPT !.title = "form"]]
          \/ songs' = [songs EXCEPT ![u] = [songs[u] EXCEPT !.chosen = TRUE]]
          \/ songs' = [songs EXCEPT ![u] = [songs[u] EXCEPT !.art = "form"]]
      BY <1>20 DEF ApplyField, Fields, TypeOK
    <3> QED  BY <3>2, <3>3, RowUpdateKept
  <2> QED  BY <1>20, <2>1, <2>2, <2>3, CallsMoveOnInv DEF ApplyField, scanVars
<1>21. ASSUME NEW u \in Uploads, FieldCallFails(u) PROVE IInv'
  <2>1. CallsMoveOn  BY <1>21 DEF FieldCallFails, CallsMoveOn
  <2>2. upc[u] \in Fields  BY <1>21, CatalogAssumption DEF FieldCallFails
  <2>3. NothingNew
    BY <1>21, <2>2 DEF FieldCallFails, NothingNew, NextField, Fields, TypeOK
  <2> QED  BY <1>21, <2>1, <2>3, SameRowsCarried, CallsMoveOnInv DEF FieldCallFails, scanVars
<1>22. ASSUME Crash PROVE IInv'
  <2>1. CallsMoveOn /\ NothingNew
    BY <1>22, IdleType DEF Crash, CallsMoveOn, NothingNew
  <2>2. now \in Nat /\ \A k \in Keys : bucket[k].mtime \in Nat  BY DEF TypeOK, Object
  <2>3. InventoryInv'
    <3>1. \A s \in Scans, k \in Keys : inv'[s][k] = 0 /\ scan'[s] = "idle"
      BY <1>22 DEF Crash, NoTimes
    <3>2. UNCHANGED <<now, bucket>>  BY <1>22 DEF Crash
    <3> QED  BY <2>2, <3>1, <3>2 DEF InventoryInv
  <2>4. Fresh'
    <3>1. \A u \in Uploads : upc'[u] = "new" => upc[u] = "new"  BY <2>1 DEF NothingNew
    <3>2. \A p \in Procs : ix'[p].pc = "idle"  BY <1>22, IdleType DEF Crash
    <3>3. \A s \in Scans, k \in Keys : inv'[s][k] = 0  BY <1>22 DEF Crash, NoTimes
    <3>4. UNCHANGED <<bucket, songs>>  BY <1>22 DEF Crash
    <3> QED  BY <3>1, <3>2, <3>3, <3>4 DEF IInv, Fresh
  <2>5. Serial'
    <3>1. \A s \in Scans, w \in Workers : <<s, w>> \in Procs  BY DEF Procs, Crew
    <3>2. \A p \in Procs : ix'[p].pc = "idle"  BY <1>22, IdleType DEF Crash
    <3>3. \A s \in Scans : scan'[s] = "idle"  BY <1>22 DEF Crash
    <3> QED  BY <3>1, <3>2, <3>3 DEF Serial
  <2> QED  BY <1>22, <2>1, <2>3, <2>4, <2>5, SameRowsCarried, RowsCarriedInv DEF Crash, IInv
<1>24. ASSUME NEW p \in Procs, QueryGenre(p) \/ CreateGenre(p) PROVE IInv'
  <2>1. CallsMoveOn /\ NothingNew  BY <1>24, GenreSteps, GoneOnMoves
  <2> QED
    BY <1>24, <2>1, SameRowsCarried, CallsMoveOnInv DEF QueryGenre, CreateGenre, scanVars
<1>23. CASE UNCHANGED vars
  <2>1. CallsMoveOn /\ NothingNew  BY <1>23 DEF vars, CallsMoveOn, NothingNew
  <2> QED  BY <1>23, <2>1, SameRowsCarried, CallsMoveOnInv DEF vars, scanVars
<1> QED
  BY <1>1, <1>2, <1>3, <1>4, <1>5, <1>6, <1>7, <1>8, <1>9, <1>10, <1>11, <1>12, <1>13,
     <1>14, <1>15, <1>16, <1>17, <1>18, <1>19, <1>20, <1>21, <1>22, <1>23, <1>24
  DEF Next, Environment, ScanStep, IndexStep, UploadStep, Failure

(* The inductive invariant holds throughout.                                *)
LEMMA Invariant == Spec => []IInv
<1> QED  BY InitInv, StepInv, PTL DEF Spec

(* Every variable keeps its type, a call in progress has a key, and no row  *)
(* is stamped newer than the bytes it was made from (scanner.go:176, 232,   *)
(* 306), for any number of scans, workers, uploads and faults.              *)
THEOREM StampsCorrect == Spec => []Sound
<1>1. IInv => Sound  BY DEF IInv, RowInv, Sound, StampNeverAhead
<1> QED  BY <1>1, Invariant, PTL

(* A row that processAudio skips was made from the object in the bucket     *)
(* (scanner.go:196, 477), if keys are rewritten at least a second apart.    *)
THEOREM ChangeDetectionSound == Spec => []UnchangedMeansIndexed
<1>1. IInv => UnchangedMeansIndexed
  <2> SUFFICES ASSUME IInv, NEW k \in Keys, Listable(bucket[k]),
                      Unchanged(songs[k].mtime, bucket[k].mtime)
               PROVE  songs[k].content = bucket[k].mtime
    BY DEF UnchangedMeansIndexed
  <2>1. songs[k].mtime \in Nat /\ songs[k].content \in Nat /\ bucket[k].mtime \in Nat
    BY DEF IInv, TypeOK, Song, Object
  <2>2. songs[k].mtime <= songs[k].content /\ Version(songs[k].content, k)
    BY DEF IInv, RowInv
  <2> QED  BY <2>1, <2>2 DEF Version, Listable, Unchanged, Second
<1> QED  BY <1>1, Invariant, PTL


LEMMA StepNeverGoesBack ==
  ASSUME IInv, TypeOK', [Next]_vars, NEW k \in Keys, songs'[k].id # 0
  PROVE  songs'[k].content >= songs[k].content
<1>1. songs[k] \in Song /\ songs[k].content \in Nat  BY DEF IInv, TypeOK, Song
<1>2. CASE songs'[k].content = songs[k].content  BY <1>1, <1>2
<1>3. ASSUME NEW p \in Procs, UpsertSong(p)
      PROVE  songs'[k].content >= songs[k].content
  <2>1. /\ ix[p].key \in Keys /\ songs[ix[p].key] \in Song
        /\ ix[p].content \in Nat /\ songs[ix[p].key].content <= ix[p].content
    BY <1>3 DEF UpsertSong, IInv, IndexInv, TypeOK, Index
  <2>2. CASE k # ix[p].key
    BY <1>1, <1>3, <2>2 DEF UpsertSong, IInv, TypeOK
  <2>3. CASE k = ix[p].key
    <3>1. songs'[k].content = ix[p].content
      <4>1. songs \in [Keys -> Song]  BY DEF IInv, TypeOK
      <4> QED  BY <1>1, <1>3, <2>3, <4>1 DEF UpsertSong, Song
    <3> QED  BY <2>1, <2>3, <3>1
  <2> QED  BY <2>2, <2>3
<1>4. ASSUME NEW s \in Scans, Prune(s)
      PROVE  songs'[k].content >= songs[k].content
  BY <1>1, <1>4 DEF Prune, NoSong
<1>5. ASSUME NEW p \in Procs, AssignGenre(p) \/ AttachArt(p)
      PROVE  songs'[k].content >= songs[k].content
  <2>1. songs'[k].content = songs[k].content
    <3>1. songs \in [Keys -> Song] /\ ix[p].key \in Keys
      BY <1>5 DEF AssignGenre, AttachArt, IInv, TypeOK
    <3>2. \/ songs' = songs
          \/ songs' = [songs EXCEPT ![ix[p].key].genre = TRUE]
          \/ songs' = [songs EXCEPT ![ix[p].key].art = "tags"]
      BY <1>5 DEF AssignGenre, AttachArt
    <3> QED  BY <3>1, <3>2 DEF Song
  <2> QED  BY <1>1, <2>1
<1>6. ASSUME NEW u \in Uploads, ApplyField(u)
      PROVE  songs'[k].content >= songs[k].content
  <2>1. songs'[k].content = songs[k].content
    BY <1>1, <1>6 DEF ApplyField, Fields, IInv, TypeOK, Song
  <2> QED  BY <1>1, <2>1
<1>7. CASE UNCHANGED songs  BY <1>1, <1>7
<1> QED
  BY <1>3, <1>4, <1>5, <1>6, <1>7
  DEF Next, Environment, ScanStep, IndexStep, UploadStep, Failure, vars,
      ExternalPut, ExternalRemove, Request, Lock, LoadSongPaths, ListObject, InventoryDone,
      TakeJob, IndexDone, ScanCallFails, Download, QueryGenre, CreateGenre, IndexCallFails,
   AttachCallFails,
      PutObject, PutFails, IndexFile, StatFails, Cleanup, FieldCallFails, Crash

(* Only a Run that was configured to prune comes to pruning.                *)
PruneInv == \A s \in Scans : scan[s] = "prune" => DeleteMissing

LEMMA PruneInit == Init => PruneInv
BY DEF Init, PruneInv

LEMMA PruneStep == TypeOK /\ PruneInv /\ [Next]_vars => PruneInv'
<1> SUFFICES ASSUME TypeOK, PruneInv, [Next]_vars PROVE PruneInv'
  OBVIOUS
<1>0. scan \in [Scans -> ScanPC]  BY DEF TypeOK
<1>1. ASSUME NEW s \in Scans, \/ Request(s) \/ Lock(s) \/ LoadSongPaths(s)
                              \/ InventoryDone(s) \/ ScanCallFails(s) \/ Prune(s)
      PROVE  PruneInv'
  BY <1>0, <1>1 DEF PruneInv, Request, Lock, LoadSongPaths, InventoryDone, ScanCallFails,
     Prune, Return
<1>2. ASSUME NEW s \in Scans, IndexDone(s) PROVE PruneInv'
  BY <1>0, <1>2 DEF PruneInv, IndexDone, BeginPrune, PruneConfigured, Return
<1>3. CASE Crash  BY <1>3 DEF PruneInv, Crash
<1>4. CASE UNCHANGED scan  BY <1>4 DEF PruneInv
<1> QED
  BY <1>1, <1>2, <1>3, <1>4
  DEF Next, Environment, ScanStep, IndexStep, UploadStep, Failure, vars, scanVars,
      ExternalPut, ExternalRemove, ListObject, TakeJob, Download, UpsertSong, QueryGenre,
      CreateGenre, AssignGenre,
      AttachArt, ApplyField, IndexCallFails, AttachCallFails, PutObject, PutFails, IndexFile,
      StatFails, Cleanup, FieldCallFails

LEMMA StepOnlyGrows ==
  ASSUME TypeOK, PruneInv, [Next]_vars, ~DeleteMissing, NEW k \in Keys, songs[k].id # 0
  PROVE  /\ songs'[k].id = songs[k].id
         /\ songs[k].genre => songs'[k].genre
         /\ songs[k].chosen => songs'[k].chosen
<1> DEFINE Grows == /\ songs'[k].id = songs[k].id
                    /\ songs[k].genre => songs'[k].genre
                    /\ songs[k].chosen => songs'[k].chosen
<1>0. songs \in [Keys -> Song] /\ songs[k] \in Song  BY DEF TypeOK
<1>1. ASSUME NEW p \in Procs, UpsertSong(p)
      PROVE  Grows
  <2> DEFINE id == IF songs[ix[p].key].id # 0 THEN songs[ix[p].key].id
                   ELSE minted[ix[p].key] + 1
             row == [songs[ix[p].key] EXCEPT !.id = id, !.mtime = Stamp(p),
                                             !.content = ix[p].content, !.title = "tags"]
  <2>1. songs' = [songs EXCEPT ![ix[p].key] = row]  BY <1>1 DEF UpsertSong
  <2>2. CASE k # ix[p].key
    <3> HIDE DEF row
    <3> QED  BY <1>0, <2>1, <2>2
  <2>3. CASE k = ix[p].key
    <3>1. id = songs[k].id  BY <2>3
    <3>2. /\ row.id = id /\ row.genre = songs[k].genre /\ row.chosen = songs[k].chosen
      <4> HIDE DEF id
      <4> QED  BY <1>0, <2>3 DEF Song
    <3>3. songs'[k] = row
      <4> HIDE DEF row
      <4> QED  BY <1>0, <2>1, <2>3
    <3> HIDE DEF row, id
    <3> QED  BY <3>1, <3>2, <3>3
  <2> QED  BY <2>2, <2>3
<1>2. ASSUME NEW s \in Scans, Prune(s) PROVE FALSE
  BY <1>2 DEF Prune, PruneInv
<1>3. ASSUME NEW p \in Procs, AssignGenre(p) \/ AttachArt(p)
      PROVE  Grows
  <2>1. \/ songs' = songs
        \/ songs' = [songs EXCEPT ![ix[p].key].genre = TRUE]
        \/ songs' = [songs EXCEPT ![ix[p].key].art = "tags"]
    BY <1>3 DEF AssignGenre, AttachArt
  <2> QED  BY <1>0, <2>1 DEF Song
<1>4. ASSUME NEW u \in Uploads, ApplyField(u)
      PROVE  Grows
  BY <1>0, <1>4 DEF ApplyField, Fields, Song
<1>5. ASSUME UNCHANGED songs PROVE Grows
  BY <1>5
<1>6. \/ \E p \in Procs : UpsertSong(p) \/ AssignGenre(p) \/ AttachArt(p)
      \/ \E s \in Scans : Prune(s)
      \/ \E u \in Uploads : ApplyField(u)
      \/ UNCHANGED songs
  BY DEF Next, Environment, ScanStep, IndexStep, UploadStep, Failure, vars,
     ExternalPut, ExternalRemove, Request, Lock, LoadSongPaths, ListObject, InventoryDone,
     TakeJob, IndexDone, ScanCallFails, Download, QueryGenre, CreateGenre, IndexCallFails,
   AttachCallFails,
     PutObject, PutFails, IndexFile, StatFails, Cleanup, FieldCallFails, Crash
<1>7. Grows
  <2> HIDE DEF Grows
  <2> QED  BY <1>1, <1>2, <1>3, <1>4, <1>5, <1>6
<1> QED  BY <1>7

(* Indexing never takes a row back to an older version (scanner.go:73, 117), *)
(* and without pruning rows keep their ids and categories (scanner.go:124).  *)
THEOREM RowsOnlyGoForward == Spec => RowsKept
<1>1. TypeOK /\ [Next]_vars => TypeOK'  BY StepType
<1>2. IInv /\ [Next]_vars =>
        [\A k \in Keys : songs'[k].id # 0 => songs'[k].content >= songs[k].content]_vars
  BY <1>1, StepNeverGoesBack DEF IInv
<1>3. IInv /\ PruneInv /\ [Next]_vars =>
        [~DeleteMissing => \A k \in Keys : songs[k].id # 0 =>
           /\ songs'[k].id = songs[k].id
           /\ songs[k].genre => songs'[k].genre
           /\ songs[k].chosen => songs'[k].chosen]_vars
  BY StepOnlyGrows DEF IInv
<1>4. IInv => TypeOK  BY DEF IInv
<1> QED
  BY <1>2, <1>3, <1>4, Invariant, PruneInit, PruneStep, PTL
  DEF Spec, RowsKept, NeverGoesBack, CatalogOnlyGrows

(* What PrunedWasGone needs: a path missing now, or missing from the        *)
(* inventory of the Run that may prune, was missing since that Run began.   *)
GoneInv ==
  /\ \A k \in Keys : ~Listable(bucket[k]) => k \in wasGone
  /\ \A s \in Scans : \A k \in Keys :
       (scan[s] = "list" /\ k \notin todo[s]) \/ scan[s] \in {"index", "prune"}
         => inv[s][k] # 0 \/ k \in wasGone

LEMMA GoneInit == Init => GoneInv
BY DEF Init, GoneInv

LEMMA GoneStep == IInv /\ GoneInv /\ [Next]_vars => GoneInv'
<1> SUFFICES ASSUME IInv, GoneInv, [Next]_vars PROVE GoneInv'
  OBVIOUS
<1> USE KeySets
<1>T. /\ bucket \in [Keys -> Object] /\ scan \in [Scans -> ScanPC]
      /\ inv \in [Scans -> [Keys -> Nat]] /\ todo \in [Scans -> SUBSET Keys]
  BY DEF IInv, TypeOK
<1>1. ASSUME NEW k \in Library, NEW kind \in {"audio", "junk", "empty"}, ExternalPut(k, kind)
      PROVE  GoneInv'
  BY <1>1, <1>T DEF GoneInv, ExternalPut, Listable, scanVars
<1>2. ASSUME NEW k \in Keys, ExternalRemove(k) PROVE GoneInv'
  BY <1>2, <1>T DEF GoneInv, ExternalRemove, Listable, scanVars
<1>3. ASSUME NEW s \in Scans, Lock(s) PROVE GoneInv'
  <2>1. \A t \in Scans : scan[t] \in {"idle", "wait"}
    BY <1>3, CatalogAssumption DEF Lock, Free, IInv, Serial
  <2>2. \A t \in Scans : scan'[t] \in {"idle", "wait", "load"}
    BY <1>3, <1>T, <2>1 DEF Lock
  <2>3. \A k \in Keys : ~Listable(bucket[k])' => k \in wasGone'
    BY <1>3 DEF Lock
  <2> QED  BY <2>2, <2>3 DEF GoneInv
<1>4. ASSUME NEW s \in Scans, ListObject(s) PROVE GoneInv'
  <2>1. PICK k \in todo[s] : /\ todo' = [todo EXCEPT ![s] = @ \ {k}]
                             /\ inv' = [inv EXCEPT ![s][k] = Entry(bucket[k])]
    BY <1>4 DEF ListObject
  <2>2. k \in Keys /\ bucket[k] \in Object  BY <1>T
  <2>3. Entry(bucket[k]) # 0 \/ k \in wasGone
    BY <2>2 DEF IInv, BucketInv, GoneInv, Entry, Listable
  <2>4. UNCHANGED <<bucket, scan, wasGone>>  BY <1>4 DEF ListObject
  <2>5. /\ inv'[s][k] = Entry(bucket[k])
        /\ \A t \in Scans, j \in Keys : t # s \/ j # k =>
             inv'[t][j] = inv[t][j] /\ (j \in todo'[t] <=> j \in todo[t])
    BY <1>T, <2>1, <2>2
  <2> QED  BY <2>3, <2>4, <2>5 DEF GoneInv
<1>5. ASSUME NEW s \in Scans,
             Request(s) \/ LoadSongPaths(s) \/ InventoryDone(s) \/ IndexDone(s) \/ Prune(s)
               \/ ScanCallFails(s) \/ \E w \in Workers : TakeJob(s, w)
      PROVE  GoneInv'
  <2>1. UNCHANGED <<bucket, wasGone>> /\ \A t \in Scans \ {s} :
          scan'[t] = scan[t] /\ todo'[t] = todo[t] /\ inv'[t] = inv[t]
    BY <1>5, <1>T DEF Request, LoadSongPaths, InventoryDone, IndexDone, BeginPrune, Prune,
                      ScanCallFails, Return, TakeJob
  <2>2. \A k \in Keys : (scan'[s] = "list" /\ k \notin todo'[s]) \/ scan'[s] \in {"index", "prune"}
          => inv'[s] = inv[s] /\ ((scan[s] = "list" /\ k \notin todo[s])
                                  \/ scan[s] \in {"index", "prune"})
    BY <1>5, <1>T DEF Request, LoadSongPaths, InventoryDone, IndexDone, BeginPrune, Prune,
                      ScanCallFails, Return, TakeJob
  <2> QED  BY <2>1, <2>2 DEF GoneInv
<1>6. ASSUME NEW p \in Procs,
             IndexStep(p) \/ IndexCallFails(p) \/ AttachCallFails(p)
      PROVE  GoneInv'
  BY <1>6 DEF GoneInv, IndexStep, Download, UpsertSong, QueryGenre, CreateGenre, AssignGenre,
     AttachArt,
              IndexCallFails, AttachCallFails, scanVars
<1>7. ASSUME NEW u \in Uploads,
             UploadStep(u) \/ PutFails(u) \/ StatFails(u) \/ FieldCallFails(u)
      PROVE  GoneInv'
  <2>1. UNCHANGED scanVars
    BY <1>7 DEF UploadStep, PutObject, PutFails, IndexFile, StatFails, Cleanup, ApplyField,
                FieldCallFails
  <2>2. wasGone \subseteq wasGone'
    BY <1>7 DEF UploadStep, PutObject, PutFails, IndexFile, StatFails, Cleanup, ApplyField,
                FieldCallFails
  <2>3. \A k \in Keys : ~Listable(bucket[k])' => k \in wasGone'
    <3>1. CASE PutObject(u) \/ PutFails(u)
      BY <1>T, <3>1 DEF PutObject, PutFails, GoneInv, Listable
    <3>2. CASE Cleanup(u)  BY <1>T, <3>2 DEF Cleanup, GoneInv, Listable
    <3>3. CASE IndexFile(u) \/ ApplyField(u) \/ StatFails(u) \/ FieldCallFails(u)
      BY <3>3 DEF IndexFile, ApplyField, StatFails, FieldCallFails, GoneInv
    <3> QED  BY <1>7, <3>1, <3>2, <3>3 DEF UploadStep
  <2> QED  BY <2>1, <2>2, <2>3 DEF GoneInv, scanVars
<1>8. CASE Crash
  <2>1. \A s \in Scans : scan'[s] = "idle"  BY <1>8 DEF Crash
  <2> QED  BY <1>8, <2>1 DEF Crash, GoneInv
<1>9. CASE UNCHANGED vars  BY <1>9 DEF vars, scanVars, GoneInv
<1> QED
  BY <1>1, <1>2, <1>3, <1>4, <1>5, <1>6, <1>7, <1>8, <1>9
  DEF Next, Environment, ScanStep, UploadStep, Failure

LEMMA StepPrunedWasGone ==
  ASSUME TypeOK, GoneInv, [Next]_vars, NEW k \in Keys, songs[k].id # 0, songs'[k].id = 0
  PROVE  k \in wasGone
<1>T. songs \in [Keys -> Song] /\ minted \in [Keys -> Nat] /\ songs' # songs
  BY DEF TypeOK
<1>1. ASSUME NEW s \in Scans, Prune(s) PROVE k \in wasGone
  BY <1>T, <1>1 DEF Prune, Seen, GoneInv
<1>2. ASSUME NEW p \in Procs, UpsertSong(p) PROVE FALSE
  <2> DEFINE j == ix[p].key
             id == IF songs[j].id # 0 THEN songs[j].id ELSE minted[j] + 1
             row == [songs[j] EXCEPT !.id = id, !.mtime = Stamp(p),
                                     !.content = ix[p].content, !.title = "tags"]
  <2>1. j \in Keys /\ songs[j] \in Song  BY <1>2, <1>T DEF UpsertSong, TypeOK
  <2>2. id # 0  BY <1>T, <2>1
  <2>3. row.id = id
    <3> HIDE DEF id, j
    <3> QED  BY <2>1 DEF Song
  <2>4. songs' = [songs EXCEPT ![j] = row]  BY <1>2 DEF UpsertSong
  <2> HIDE DEF row, id, j
  <2> QED  BY <1>T, <2>1, <2>2, <2>3, <2>4
<1>3. ASSUME NEW p \in Procs, AssignGenre(p) \/ AttachArt(p) PROVE FALSE
  <2>1. ix[p].key \in Keys  BY <1>3 DEF AssignGenre, AttachArt, TypeOK
  <2>2. \/ songs' = [songs EXCEPT ![ix[p].key].genre = TRUE]
        \/ songs' = [songs EXCEPT ![ix[p].key].art = "tags"]
    BY <1>3, <1>T DEF AssignGenre, AttachArt
  <2> QED  BY <1>T, <2>1, <2>2 DEF Song
<1>4. ASSUME NEW u \in Uploads, ApplyField(u) PROVE FALSE
  BY <1>T, <1>4 DEF ApplyField, Fields, Song
<1> QED
  BY <1>T, <1>1, <1>2, <1>3, <1>4
  DEF Next, Environment, ScanStep, IndexStep, UploadStep, Failure, vars,
      ExternalPut, ExternalRemove, Request, Lock, LoadSongPaths, ListObject, InventoryDone,
      TakeJob, IndexDone, ScanCallFails, Download, QueryGenre, CreateGenre, IndexCallFails,
   AttachCallFails,
      PutObject, PutFails, IndexFile, StatFails, Cleanup, FieldCallFails, Crash

(* Only what was missing since the scan began is pruned (scanner.go:86).    *)
THEOREM PruningSound == Spec => PrunedWasGone
<1>1. IInv /\ GoneInv /\ [Next]_vars =>
        [\A k \in Keys : songs[k].id # 0 /\ songs'[k].id = 0 => k \in wasGone]_vars
  BY StepPrunedWasGone DEF IInv
<1> QED  BY <1>1, Invariant, GoneInit, GoneStep, PTL DEF Spec, PrunedWasGone

-----------------------------------------------------------------------------
(* Category and picture of a row.                                           *)

Settled(k, steps) ==
  songs[k].genre \/ <<k, songs[k].id>> \in overtaken \/ Attaching(k, steps)

(* Whoever is about to lose the race for the genre has been overtaken since *)
(* its row was last queried, or somebody queried for that row after him.    *)
Complete(k) ==
  /\ Settled(k, {"genre", "create", "assign"})
  /\ songs[k].art # "none" \/ Attaching(k, Attach)
  /\ Attaching(k, {"create"}) /\ Genre[k] \in categories => Settled(k, {"genre", "assign"})

CompleteInv == faults = 0 => \A k \in Keys : songs[k].id # 0 => Complete(k)

(* A row stays complete when it keeps what it has and everybody who was     *)
(* attaching to it still is.                                                *)
SameCalls ==
  /\ \A q \in Procs : ix[q].pc \in Attach => ix'[q] = ix[q]
  /\ \A q \in Procs : ix'[q].pc = "create" => ix'[q] = ix[q]

LEMMA StillComplete ==
  ASSUME NEW k \in Keys, Complete(k), songs'[k] = songs[k], SameCalls, UNCHANGED genreVars
  PROVE  Complete(k)'
<1>1. ASSUME NEW steps \in SUBSET Attach, Attaching(k, steps) PROVE Attaching(k, steps)'
  BY <1>1 DEF Attaching, SameCalls
<1>2. Attaching(k, {"create"})' => Attaching(k, {"create"})
  BY DEF Attaching, SameCalls
<1>3. ASSUME NEW steps \in SUBSET Attach, Settled(k, steps) PROVE Settled(k, steps)'
  BY <1>1, <1>3 DEF Settled, genreVars
<1>4. /\ {"genre", "create", "assign"} \in SUBSET Attach
      /\ {"genre", "assign"} \in SUBSET Attach /\ Attach \in SUBSET Attach
  BY DEF Attach
<1> HIDE DEF Attach
<1> QED  BY <1>1, <1>2, <1>3, <1>4 DEF Complete, genreVars

LEMMA UpsertComplete ==
  ASSUME TypeOK, NEW k \in Keys, songs[k].id # 0 => Complete(k), NEW p \in Procs, UpsertSong(p),
         songs'[k].id # 0
  PROVE  Complete(k)'
<1> DEFINE j == ix[p].key
           id == IF songs[j].id # 0 THEN songs[j].id ELSE minted[j] + 1
           row == [songs[j] EXCEPT !.id = id, !.mtime = Stamp(p),
                                   !.content = ix[p].content, !.title = "tags"]
<1>1. /\ ix[p].pc = "upsert" /\ j \in Keys /\ songs[j] \in Song
      /\ songs \in [Keys -> Song] /\ ix \in [Procs -> Index] /\ ix[p] \in Index
  BY DEF UpsertSong, TypeOK
<1>2. songs' = [songs EXCEPT ![j] = row]  BY DEF UpsertSong
<1>3. ix' = [ix EXCEPT ![p] = [ix[p] EXCEPT !.pc = "genre", !.id = id]]  BY DEF UpsertSong
<1>4. row.id = id
  <2> HIDE DEF id, j
  <2> QED  BY <1>1 DEF Song
<1>5. CASE k = j
  <2>1. songs'[k].id = id
    <3> HIDE DEF row, id, j
    <3> QED  BY <1>1, <1>2, <1>4, <1>5
  <2>2. ix'[p].pc = "genre" /\ ix'[p].key = k /\ ix'[p].id = id
    <3> HIDE DEF id
    <3> QED  BY <1>1, <1>3, <1>5 DEF Index
  <2>3. \A steps : "genre" \in steps => Attaching(k, steps)'  BY <2>1, <2>2 DEF Attaching
  <2> QED  BY <2>3 DEF Complete, Settled, Attach
<1>6. CASE k # j
  <2> HIDE DEF row, id, j
  <2>1. songs'[k] = songs[k]  BY <1>1, <1>2, <1>6
  <2>2. ix'[p].pc = "genre"  BY <1>1, <1>3 DEF Index
  <2>3. SameCalls /\ UNCHANGED genreVars
    BY <1>1, <1>3, <2>2 DEF SameCalls, Attach, UpsertSong
  <2> QED  BY <2>1, <2>3, StillComplete
<1> QED  BY <1>5, <1>6

(* The call at a row's genre goes on to create or to assign it.             *)
LEMMA QueryComplete ==
  ASSUME TypeOK, NEW k \in Keys, Complete(k), NEW p \in Procs, QueryGenre(p)
  PROVE  Complete(k)'
<1>1. /\ ix[p].pc = "genre" /\ songs' = songs /\ categories' = categories
      /\ overtaken' = overtaken \ {Row(p)}
      /\ ix'[p].pc = IF Genre[ix[p].key] \in categories THEN "assign" ELSE "create"
  BY DEF QueryGenre, TypeOK
<1>2. /\ ix'[p].key = ix[p].key /\ ix'[p].id = ix[p].id
      /\ \A q \in Procs \ {p} : ix'[q] = ix[q]
  BY GenreSteps, GoneOn
<1>3. CASE ix[p].key = k /\ ix[p].id = songs[k].id
  <2>1. \A steps : ix'[p].pc \in steps => Attaching(k, steps)'
    BY <1>1, <1>2, <1>3 DEF Attaching
  <2>2. Attaching(k, {"genre", "create", "assign"})' /\ Attaching(k, Attach)'
    BY <1>1, <2>1 DEF Attach
  <2>3. Genre[k] \in categories => Attaching(k, {"genre", "assign"})'
    BY <1>1, <1>3, <2>1
  <2> QED  BY <1>1, <2>2, <2>3 DEF Complete, Settled
<1>4. CASE ~(ix[p].key = k /\ ix[p].id = songs[k].id)
  <2>1. \A steps : Attaching(k, steps)' <=> Attaching(k, steps)
    BY <1>1, <1>2, <1>4 DEF Attaching
  <2>2. <<k, songs[k].id>> \in overtaken' <=> <<k, songs[k].id>> \in overtaken
    BY <1>1, <1>4 DEF Row
  <2>3. \A steps : Settled(k, steps)' <=> Settled(k, steps)
    BY <1>1, <2>1, <2>2 DEF Settled
  <2> QED  BY <1>1, <2>1, <2>3 DEF Complete
<1> QED  BY <1>3, <1>4

(* Who inserts the category goes on to assign it and overtakes the others   *)
(* at it; who finds it inserted has been overtaken.                         *)
LEMMA CreateComplete ==
  ASSUME TypeOK, NEW k \in Keys, Complete(k), NEW p \in Procs, CreateGenre(p)
  PROVE  Complete(k)'
<1>1. ix[p].pc = "create" /\ songs' = songs /\ ix \in [Procs -> Index]
  BY DEF CreateGenre, TypeOK
<1>2. /\ ix'[p].key = ix[p].key /\ ix'[p].id = ix[p].id /\ ix'[p].pc \in {"assign", "art"}
      /\ \A q \in Procs \ {p} : ix'[q] = ix[q]
  <2>1. \/ ix' = [ix EXCEPT ![p].pc = "assign"]
        \/ ix' = [ix EXCEPT ![p].pc = "art"]
    BY DEF CreateGenre
  <2>2. ix[p] \in Index  BY <1>1
  <2>3. ix'[p].pc \in {"assign", "art"}  BY <1>1, <2>1, <2>2 DEF Index
  <2> QED  BY <2>3, GenreSteps, GoneOn
<1>3. Attaching(k, {"genre", "assign"}) => Attaching(k, {"genre", "assign"})'
  BY <1>1, <1>2 DEF Attaching
<1>4. songs[k].art # "none" \/ Attaching(k, Attach)'
  <2>1. CASE songs[k].art # "none"  BY <2>1
  <2>2. CASE Attaching(k, Attach)  BY <1>1, <1>2, <2>2 DEF Attaching, Attach
  <2> QED  BY <2>1, <2>2 DEF Complete
<1>5. CASE Insert(p) /\ ix' = [ix EXCEPT ![p].pc = "assign"]
  <2>1. ix'[p].pc = "assign"  BY <1>1, <1>5
  <2>2. overtaken \subseteq overtaken' /\ Genre[ix[p].key] \notin categories
        /\ categories' = categories \cup {Genre[ix[p].key]}
    BY <1>5 DEF Insert
  <2>3. Settled(k, {"genre", "create", "assign"})'
    <3>1. Attaching(k, {"genre", "create", "assign"})
            => Attaching(k, {"genre", "create", "assign"})'
      BY <1>1, <1>2, <2>1 DEF Attaching
    <3> QED  BY <1>1, <2>2, <3>1 DEF Complete, Settled
  <2>4. ASSUME Attaching(k, {"create"})', Genre[k] \in categories'
        PROVE  Settled(k, {"genre", "assign"})'
    <3>1. CASE Genre[k] = Genre[ix[p].key]
      <4>1. PICK q \in Procs : ix'[q].pc = "create" /\ ix'[q].key = k /\ ix'[q].id = songs'[k].id
        BY <2>4 DEF Attaching
      <4>2. q # p /\ ix[q] = ix'[q]  BY <1>2, <2>1, <4>1
      <4>3. Row(q) = <<k, songs[k].id>>  BY <1>1, <4>1, <4>2 DEF Row
      <4>4. Row(q) \in overtaken'  BY <1>5, <3>1, <4>1, <4>2 DEF Insert
      <4> QED  BY <1>1, <4>3, <4>4 DEF Settled
    <3>2. CASE Genre[k] # Genre[ix[p].key]
      <4>1. Genre[k] \in categories  BY <2>2, <2>4, <3>2
      <4>2. Attaching(k, {"create"})  BY <1>1, <1>2, <2>4 DEF Attaching
      <4> QED  BY <1>1, <1>3, <2>2, <4>1, <4>2 DEF Complete, Settled
    <3> QED  BY <3>1, <3>2
  <2> QED  BY <1>1, <1>4, <2>3, <2>4 DEF Complete
<1>6. CASE Genre[ix[p].key] \in categories /\ UNCHANGED genreVars
  <2>1. UNCHANGED <<categories, overtaken>>  BY <1>6 DEF genreVars
  <2>2. Attaching(k, {"create"}) /\ Genre[k] \in categories => Settled(k, {"genre", "assign"})'
    BY <1>1, <1>3, <2>1 DEF Complete, Settled
  <2>3. Attaching(k, {"create"})' => Attaching(k, {"create"})
    BY <1>1, <1>2 DEF Attaching
  <2>4. Settled(k, {"genre", "create", "assign"})'
    <3>1. CASE ix[p].key = k /\ ix[p].id = songs[k].id
      <4>1. Attaching(k, {"create"})  BY <1>1, <3>1 DEF Attaching
      <4>2. Settled(k, {"genre", "assign"})'  BY <1>6, <2>2, <3>1, <4>1
      <4>3. Attaching(k, {"genre", "assign"})' => Attaching(k, {"genre", "create", "assign"})'
        BY DEF Attaching
      <4> QED  BY <4>2, <4>3 DEF Settled
    <3>2. CASE ~(ix[p].key = k /\ ix[p].id = songs[k].id)
      <4>1. Attaching(k, {"genre", "create", "assign"})
              => Attaching(k, {"genre", "create", "assign"})'
        BY <1>1, <1>2, <3>2 DEF Attaching
      <4> QED  BY <1>1, <2>1, <4>1 DEF Complete, Settled
    <3> QED  BY <3>1, <3>2
  <2> QED  BY <1>1, <1>4, <2>1, <2>2, <2>3, <2>4 DEF Complete
<1> QED  BY <1>5, <1>6 DEF CreateGenre

LEMMA GenreComplete ==
  ASSUME TypeOK, NEW k \in Keys, Complete(k), NEW p \in Procs, AssignGenre(p)
  PROVE  Complete(k)'
<1>1. /\ ix[p].pc = "assign" /\ ix[p].key \in Keys
      /\ songs \in [Keys -> Song] /\ songs[k] \in Song /\ ix \in [Procs -> Index]
      /\ UNCHANGED <<categories, overtaken>>
  BY DEF AssignGenre, TypeOK, genreVars
<1>2. /\ ix'[p].key = ix[p].key /\ ix'[p].id = ix[p].id
      /\ \A q \in Procs \ {p} : ix'[q] = ix[q]
  BY GenreSteps, GoneOn
<1>3. ix'[p].pc = "art"  BY <1>1 DEF AssignGenre
<1>4. CASE ix[p].key = k /\ ix[p].id = songs[k].id
  <2>1. songs'[k].genre /\ songs'[k].id = songs[k].id  BY <1>1, <1>4 DEF AssignGenre, Song
  <2>2. Attaching(k, Attach)'  BY <1>2, <1>3, <1>4, <2>1 DEF Attaching, Attach
  <2> QED  BY <2>1, <2>2 DEF Complete, Settled
<1>5. CASE ~(ix[p].key = k /\ ix[p].id = songs[k].id)
  <2>1. songs'[k] = songs[k]  BY <1>1, <1>5 DEF AssignGenre
  <2>2. \A steps : Attaching(k, steps)' <=> Attaching(k, steps)
    BY <1>2, <1>5, <2>1 DEF Attaching
  <2> QED  BY <1>1, <2>1, <2>2 DEF Complete, Settled
<1> QED  BY <1>4, <1>5

LEMMA ArtComplete ==
  ASSUME TypeOK, NEW k \in Keys, Complete(k), NEW p \in Procs, AttachArt(p)
  PROVE  Complete(k)'
<1>1. /\ ix[p].pc = "art" /\ ix[p].key \in Keys /\ ix \in [Procs -> Index]
      /\ songs \in [Keys -> Song] /\ songs[k] \in Song
      /\ UNCHANGED <<categories, overtaken>>
  BY DEF AttachArt, TypeOK, genreVars
<1>2. ix'[p].pc = "idle" /\ \A q \in Procs \ {p} : ix'[q] = ix[q]
  <2>1. [NoIndex EXCEPT !.id = ix[p].id].pc = "idle" /\ NoIndex.pc = "idle"  BY DEF NoIndex
  <2> QED  BY <1>1, <2>1 DEF AttachArt, ReturnSong
<1>3. /\ songs'[k].id = songs[k].id /\ songs'[k].genre = songs[k].genre
      /\ songs[k].art # "none" => songs'[k].art # "none"
      /\ ix[p].key = k /\ ix[p].id = songs[k].id => songs'[k].art # "none"
  BY <1>1 DEF AttachArt, Song
<1>4. \A steps : "art" \notin steps =>
        (Attaching(k, steps) => Attaching(k, steps)')
  BY <1>1, <1>2, <1>3 DEF Attaching
<1>5. Attaching(k, {"create"})' => Attaching(k, {"create"})
  BY <1>2, <1>3 DEF Attaching
<1>6. songs'[k].art # "none" \/ Attaching(k, Attach)'
  <2>1. CASE songs[k].art # "none" \/ (ix[p].key = k /\ ix[p].id = songs[k].id)
    BY <1>3, <2>1
  <2>2. CASE Attaching(k, Attach) /\ ~(ix[p].key = k /\ ix[p].id = songs[k].id)
    BY <1>2, <1>3, <2>2 DEF Attaching
  <2> QED  BY <2>1, <2>2 DEF Complete
<1>7. /\ Settled(k, {"genre", "create", "assign"}) => Settled(k, {"genre", "create", "assign"})'
      /\ Settled(k, {"genre", "assign"}) => Settled(k, {"genre", "assign"})'
  BY <1>1, <1>3, <1>4 DEF Settled
<1> QED  BY <1>1, <1>5, <1>6, <1>7 DEF Complete

LEMMA FieldComplete ==
  ASSUME TypeOK, NEW k \in Keys, Complete(k), NEW u \in Uploads, ApplyField(u)
  PROVE  Complete(k)'
<1>1. /\ songs \in [Keys -> Song] /\ songs[k] \in Song /\ ix' = ix
      /\ UNCHANGED <<categories, overtaken>>
  BY DEF ApplyField, TypeOK, genreVars
<1>2. /\ songs'[k].id = songs[k].id
      /\ songs[k].genre => songs'[k].genre
      /\ songs[k].art # "none" => songs'[k].art # "none"
  BY <1>1 DEF ApplyField, Fields, Song
<1>3. \A steps : Attaching(k, steps)' <=> Attaching(k, steps)
  BY <1>1, <1>2 DEF Attaching
<1> QED  BY <1>1, <1>2, <1>3 DEF Complete, Settled

LEMMA StepComplete ==
  TypeOK /\ CompleteInv /\ [Next]_vars => CompleteInv'
<1> SUFFICES ASSUME TypeOK, CompleteInv, [Next]_vars, faults' = 0,
                    NEW k \in Keys, songs'[k].id # 0
             PROVE  Complete(k)'
  BY DEF CompleteInv
<1>0. songs \in [Keys -> Song] /\ ix \in [Procs -> Index] /\ faults \in Nat
  BY DEF TypeOK
<1>1. ~Fault  BY <1>0 DEF Fault
<1>2. ~Failure
  BY <1>1 DEF Failure, ScanCallFails, IndexCallFails, AttachCallFails, PutFails, StatFails,
     FieldCallFails, Crash
<1>3. faults = 0
  BY <1>0, <1>1, <1>2
  DEF Next, Environment, ScanStep, IndexStep, UploadStep, vars, ExternalPut, ExternalRemove,
      Request, Lock, LoadSongPaths, ListObject, InventoryDone, TakeJob, IndexDone, Prune,
      Download, UpsertSong, QueryGenre, CreateGenre, AssignGenre, AttachArt, PutObject,
      IndexFile, Cleanup, ApplyField
<1>4. songs[k].id # 0 => Complete(k)  BY <1>3 DEF CompleteInv
<1>5. CASE \E p \in Procs : UpsertSong(p)  BY <1>4, <1>5, UpsertComplete
<1>6. CASE songs'[k] = songs[k] /\ SameCalls /\ UNCHANGED genreVars
  BY <1>4, <1>6, StillComplete
<1>7. ASSUME NEW p \in Procs, Download(p) PROVE Complete(k)'
  <2>1. SameCalls
    <3>1. CASE Abandon(p)
      BY <1>0, <1>7, <3>1 DEF Download, Abandon, SameCalls, Attach, NoIndex
    <3>2. CASE ~Abandon(p)
      <4> DEFINE call == [ix[p] EXCEPT !.pc = "upsert", !.content = bucket[ix[p].key].mtime]
      <4>1. ix' = [ix EXCEPT ![p] = call] /\ ix[p].pc = "open"
        BY <1>0, <1>7, <3>2 DEF Download
      <4>2. call.pc = "upsert"  BY <1>0 DEF Index
      <4> HIDE DEF call
      <4> QED  BY <1>0, <4>1, <4>2 DEF SameCalls, Attach
    <3> QED  BY <3>1, <3>2
  <2> QED  BY <1>6, <1>7, <2>1 DEF Download
<1>8. ASSUME NEW s \in Scans, NEW w \in Workers, TakeJob(s, w) PROVE Complete(k)'
  <2>1. SameCalls  BY <1>0, <1>8 DEF TakeJob, SameCalls, Attach, NoIndex
  <2> QED  BY <1>6, <1>8, <2>1 DEF TakeJob
<1>9. ASSUME NEW u \in Uploads, IndexFile(u) PROVE Complete(k)'
  <2>1. SameCalls
    <3>1. CASE Abandon(u)
      BY <1>0, <1>9, <3>1 DEF IndexFile, Abandon, SameCalls, Attach, NoIndex
    <3>2. CASE ~Abandon(u)
      <4> DEFINE call == [NoIndex EXCEPT !.pc = "open", !.key = u,
                                         !.mtime = StatTime(bucket[u])]
      <4>1. ix' = [ix EXCEPT ![u] = call] /\ ix[u].pc = "idle"
        BY <1>0, <1>9, <3>2 DEF IndexFile
      <4>2. call.pc = "open"  BY DEF NoIndex
      <4> HIDE DEF call
      <4> QED  BY <1>0, <4>1, <4>2, KeySets DEF SameCalls, Attach
    <3> QED  BY <3>1, <3>2
  <2> QED  BY <1>6, <1>9, <2>1 DEF IndexFile
<1>10. ASSUME NEW s \in Scans, Prune(s) PROVE Complete(k)'
  <2>1. songs'[k] = songs[k] /\ ix' = ix /\ UNCHANGED genreVars  BY <1>10 DEF Prune, NoSong
  <2> QED  BY <1>6, <2>1 DEF SameCalls
<1>11. ASSUME NEW p \in Procs, AssignGenre(p) PROVE Complete(k)'
  <2>1. songs[k].id # 0  BY <1>0, <1>11 DEF AssignGenre, TypeOK, Song
  <2> QED  BY <1>4, <1>11, <2>1, GenreComplete
<1>12. ASSUME NEW p \in Procs, AttachArt(p) PROVE Complete(k)'
  <2>1. songs[k].id # 0  BY <1>0, <1>12 DEF AttachArt, TypeOK, Song
  <2> QED  BY <1>4, <1>12, <2>1, ArtComplete
<1>13. ASSUME NEW u \in Uploads, ApplyField(u) PROVE Complete(k)'
  <2>1. songs[k].id # 0  BY <1>0, <1>13 DEF ApplyField, Fields, Song
  <2> QED  BY <1>4, <1>13, <2>1, FieldComplete
<1>14. ASSUME NEW p \in Procs, QueryGenre(p) \/ CreateGenre(p) PROVE Complete(k)'
  <2>1. songs' = songs  BY <1>14 DEF QueryGenre, CreateGenre
  <2> QED  BY <1>4, <1>14, <2>1, QueryComplete, CreateComplete
<1>15. CASE UNCHANGED <<songs, ix, genreVars>>  BY <1>6, <1>15 DEF SameCalls
<1> QED
  BY <1>2, <1>5, <1>7, <1>8, <1>9, <1>10, <1>11, <1>12, <1>13, <1>14, <1>15
  DEF Next, Environment, ScanStep, IndexStep, UploadStep, vars, ExternalPut, ExternalRemove,
      Request, Lock, LoadSongPaths, ListObject, InventoryDone, IndexDone, PutObject, Cleanup

(* Without a fault a stamped row has its category and its picture, or       *)
(* somebody is attaching them to that very row (scanner.go:318, 332), or    *)
(* the category was created by somebody else between snapshot and insert of *)
(* the row's last query for it (categories.go:43): nothing else a scan,     *)
(* upload or prune does meanwhile leaves a stamped row incomplete.          *)
THEOREM RowsCompleted == Spec => []AttachedUnlessFault
<1>1. Init => CompleteInv  BY DEF Init, CompleteInv, NoSong
<1>2. CompleteInv => AttachedUnlessFault
  BY DEF CompleteInv, Complete, Settled, Attach, AttachedUnlessFault
<1> QED  BY <1>1, <1>2, InitType, StepType, StepComplete, PTL DEF Spec

-----------------------------------------------------------------------------
(* Uploads that were answered.                                              *)

(* The row of u is there, and made from the object if that is still there.  *)
Indexed(u) ==
  songs[u].id # 0 /\ (bucket[u].kind = "none" \/ songs[u].content = bucket[u].mtime)

(* From the upsert on the upload is in the catalog.                         *)
IndexedInv ==
  ~DeleteMissing => \A u \in Uploads :
    upc[u] \in {"meta", "category", "photo", "done"} \/ ix[u].pc \in Attach
      => Indexed(u)

(* Whose steps change what a row says of its file.                          *)
LEMMA RowSteps ==
  ASSUME [Next]_vars
  PROVE  \/ \E p \in Procs : UpsertSong(p)
         \/ \E p \in Procs : AssignGenre(p) \/ AttachArt(p)
         \/ \E s \in Scans : Prune(s)
         \/ \E u \in Uploads : ApplyField(u)
         \/ UNCHANGED songs
BY DEF Next, Environment, ScanStep, IndexStep, UploadStep, Failure, vars,
   ExternalPut, ExternalRemove, Request, Lock, LoadSongPaths, ListObject, InventoryDone,
   TakeJob, IndexDone, ScanCallFails, Download, QueryGenre, CreateGenre, IndexCallFails,
   AttachCallFails,
   PutObject, PutFails, IndexFile, StatFails, Cleanup, FieldCallFails, Crash

(* What an upsert leaves of a row.                                          *)
LEMMA Upserted ==
  ASSUME TypeOK, NEW p \in Procs, UpsertSong(p)
  PROVE  LET k == ix[p].key IN
         /\ k \in Keys /\ ix[p] \in Index /\ ix[p].pc = "upsert"
         /\ songs'[k].id # 0 /\ songs'[k].content = ix[p].content
         /\ songs'[k].mtime = ix[p].mtime /\ songs'[k].title = "tags"
         /\ \A j \in Keys \ {k} : songs'[j] = songs[j]
         /\ \A q \in Procs \ {p} : ix'[q] = ix[q]
         /\ ix'[p].pc = "genre"
         /\ UNCHANGED <<now, bucket, lock, scan, existing, inv, todo, upc>>
<1> DEFINE k == ix[p].key
           id == IF songs[k].id # 0 THEN songs[k].id ELSE minted[k] + 1
           row == [songs[k] EXCEPT !.id = id, !.mtime = ix[p].mtime,
                                   !.content = ix[p].content, !.title = "tags"]
           call == [ix[p] EXCEPT !.pc = "genre", !.id = id]
<1>1. /\ k \in Keys /\ ix[p] \in Index /\ ix[p].pc = "upsert"
      /\ songs \in [Keys -> Song] /\ songs[k] \in Song /\ ix \in [Procs -> Index]
      /\ minted[k] \in Nat
  BY DEF UpsertSong, TypeOK
<1>2. songs' = [songs EXCEPT ![k] = row] /\ ix' = [ix EXCEPT ![p] = call]
  BY DEF UpsertSong, Stamp
<1>3. id # 0  BY <1>1
<1>4. /\ row.id = id /\ row.content = ix[p].content /\ row.mtime = ix[p].mtime
      /\ row.title = "tags" /\ call.pc = "genre"
  <2> HIDE DEF id, k
  <2> QED  BY <1>1 DEF Song, Index
<1>5. UNCHANGED <<now, bucket, lock, scan, existing, inv, todo, upc>>
  BY DEF UpsertSong, scanVars
<1> HIDE DEF row, call, id, k
<1>6. /\ songs'[k] = row /\ ix'[p] = call
      /\ \A j \in Keys \ {k} : songs'[j] = songs[j]
      /\ \A q \in Procs \ {p} : ix'[q] = ix[q]
  BY <1>1, <1>2
<1> QED  BY <1>1, <1>3, <1>4, <1>5, <1>6 DEF k

(* The other steps, short of a prune, leave what a row says of its file.    *)
LEMMA RowTimesKept ==
  ASSUME TypeOK, NEW k \in Keys,
         \/ \E p \in Procs : AssignGenre(p) \/ AttachArt(p)
         \/ \E u \in Uploads : ApplyField(u)
         \/ UNCHANGED songs
  PROVE  songs'[k].content = songs[k].content /\ songs'[k].mtime = songs[k].mtime
<1>0. songs \in [Keys -> Song]  BY DEF TypeOK
<1>1. ASSUME NEW p \in Procs, AssignGenre(p) \/ AttachArt(p)
      PROVE  songs'[k].content = songs[k].content /\ songs'[k].mtime = songs[k].mtime
  <2>1. \/ songs' = songs
        \/ songs' = [songs EXCEPT ![ix[p].key].genre = TRUE]
        \/ songs' = [songs EXCEPT ![ix[p].key].art = "tags"]
    BY <1>1 DEF AssignGenre, AttachArt
  <2> QED  BY <1>0, <2>1 DEF Song
<1>2. ASSUME NEW u \in Uploads, ApplyField(u)
      PROVE  songs'[k].content = songs[k].content /\ songs'[k].mtime = songs[k].mtime
  BY <1>0, <1>2 DEF ApplyField, Fields, Song
<1> QED  BY <1>1, <1>2

(* The object of an upload that was put stays, or is removed.               *)
LEMMA ObjectKept ==
  ASSUME TypeOK, [Next]_vars, NEW u \in Uploads, upc[u] # "new"
  PROVE  bucket'[u] = bucket[u] \/ (bucket'[u].kind = "none" /\ bucket'[u].mtime = 0)
<1> USE KeySets
<1>0. bucket \in [Keys -> Object]  BY DEF TypeOK
<1>1. ASSUME NEW k \in Library, NEW kind \in {"audio", "junk", "empty"}, ExternalPut(k, kind)
      PROVE  bucket'[u] = bucket[u]
  BY <1>0, <1>1, CatalogAssumption DEF ExternalPut
<1>2. ASSUME NEW k \in Keys, bucket' = [bucket EXCEPT ![k] = NoObject]
      PROVE  bucket'[u] = bucket[u] \/ (bucket'[u].kind = "none" /\ bucket'[u].mtime = 0)
  BY <1>0, <1>2 DEF NoObject
<1>3. ASSUME NEW v \in Uploads, PutObject(v) \/ PutFails(v)
      PROVE  bucket'[u] = bucket[u]
  BY <1>0, <1>3 DEF PutObject, PutFails
<1>4. \/ \E k \in Library, kind \in {"audio", "junk", "empty"} : ExternalPut(k, kind)
      \/ \E k \in Keys : bucket' = [bucket EXCEPT ![k] = NoObject]
      \/ \E v \in Uploads : PutObject(v) \/ PutFails(v)
      \/ UNCHANGED bucket
  BY DEF Next, Environment, ScanStep, IndexStep, UploadStep, Failure, vars,
     ExternalRemove, Request, Lock, LoadSongPaths, ListObject, InventoryDone,
     TakeJob, IndexDone, Prune, ScanCallFails, Download, UpsertSong, QueryGenre, CreateGenre,
     AssignGenre, AttachArt,
     IndexCallFails, AttachCallFails, IndexFile, StatFails, Cleanup, ApplyField,
     FieldCallFails, Crash
<1> QED  BY <1>1, <1>2, <1>3, <1>4

LEMMA StillIndexed ==
  ASSUME IInv, PruneInv, ~DeleteMissing, [Next]_vars, NEW u \in Uploads, upc[u] # "new",
         Indexed(u)
  PROVE  Indexed(u)'
<1> USE KeySets
<1>1. TypeOK  BY DEF IInv
<1>2. songs'[u].id # 0  BY <1>1, StepOnlyGrows DEF Indexed
<1>3. bucket'[u] = bucket[u] \/ bucket'[u].kind = "none"  BY <1>1, ObjectKept
<1>4. ASSUME NEW p \in Procs, UpsertSong(p) PROVE Indexed(u)'
  <2>1. CASE ix[p].key = u
    <3>1. songs'[u].content = ix[p].content /\ ix[p].pc = "upsert" /\ bucket' = bucket
      BY <1>1, <1>4, <2>1, Upserted
    <3>2. bucket[u].kind # "none" => bucket[u].mtime = ix[p].content
      BY <2>1, <3>1 DEF IInv, OneVersion
    <3> QED  BY <1>2, <3>1, <3>2 DEF Indexed
  <2>2. CASE ix[p].key # u
    BY <1>1, <1>3, <1>4, <2>2, Upserted DEF Indexed
  <2> QED  BY <2>1, <2>2
<1>5. ASSUME NEW s \in Scans, Prune(s) PROVE FALSE
  BY <1>5 DEF Prune, PruneInv
<1>6. CASE ~\E p \in Procs : UpsertSong(p)
  <2>1. songs'[u].content = songs[u].content
    BY <1>1, <1>5, <1>6, RowSteps, RowTimesKept
  <2> QED  BY <1>2, <1>3, <2>1 DEF Indexed
<1> QED  BY <1>4, <1>6

(* An upload comes past its upsert by the upsert only.                      *)
LEMMA PastUpsert ==
  ASSUME IInv, [Next]_vars, NEW u \in Uploads,
         \/ upc'[u] \in {"meta", "category", "photo", "done"}
         \/ ix'[u].pc \in Attach
  PROVE  \/ upc[u] \in {"meta", "category", "photo", "done"}
         \/ ix[u].pc \in Attach
         \/ UpsertSong(u)
<1> USE KeySets, CatalogAssumption
<1>0. /\ ix \in [Procs -> Index] /\ upc \in [Uploads -> UploadPC]
      /\ \A s \in Scans, w \in Workers : <<s, w>> # u
  BY DEF IInv, TypeOK, Crew
<1> DEFINE Past == \/ upc[u] \in {"meta", "category", "photo", "done"}
                   \/ ix[u].pc \in Attach
<1>1. ASSUME NEW p \in Procs, UpsertSong(p) PROVE Past \/ UpsertSong(u)
  <2>1. TypeOK  BY DEF IInv
  <2>2. \A q \in Procs \ {p} : ix'[q] = ix[q] /\ upc' = upc  BY <1>1, <2>1, Upserted
  <2> QED  BY <1>1, <2>2
<1>2. ASSUME NEW p \in Procs, Abandon(p) PROVE Past
  BY <1>0, <1>2 DEF Abandon, AfterFailure, NoIndex, Attach
<1>3. ASSUME NEW p \in Procs, ReturnSong(p), ix[p].pc = "art" PROVE Past
  <2>1. [NoIndex EXCEPT !.id = ix[p].id].pc = "idle"  BY DEF NoIndex
  <2> QED  BY <1>0, <1>3, <2>1 DEF ReturnSong, NoIndex, Attach
<1>4. ASSUME NEW p \in Procs, GoesOn(p) PROVE Past
  BY <1>0, <1>4, GoneOn DEF GoesOn, Attach, IInv
<1>5. ASSUME NEW p \in Procs, IndexStep(p) \/ IndexCallFails(p) \/ AttachCallFails(p)
      PROVE  Past \/ UpsertSong(u)
  <2>1. CASE Download(p) /\ ~Abandon(p)
    <3>1. /\ ix' = [ix EXCEPT ![p] = [ix[p] EXCEPT !.pc = "upsert",
                                          !.content = bucket[ix[p].key].mtime]]
          /\ upc' = upc
      BY <1>0, <2>1 DEF Download
    <3>2. [ix[p] EXCEPT !.pc = "upsert", !.content = bucket[ix[p].key].mtime].pc = "upsert"
      BY <1>0 DEF Index
    <3> QED  BY <1>0, <3>1, <3>2 DEF Attach
  <2> QED
    BY <1>1, <1>2, <1>3, <1>4, <1>5, <2>1, GenreSteps, FailedSteps
    DEF IndexStep, Download, IndexCallFails, AttachArt
<1>6. ASSUME NEW s \in Scans, NEW w \in Workers, TakeJob(s, w) PROVE Past
  <2>1. <<s, w>> \in Procs  BY DEF Procs, Crew
  <2> QED  BY <1>0, <1>6, <2>1 DEF TakeJob
<1>7. ASSUME NEW v \in Uploads, PutObject(v) \/ PutFails(v) \/ Cleanup(v) PROVE Past
  BY <1>0, <1>7 DEF PutObject, PutFails, Cleanup
<1>8. ASSUME NEW v \in Uploads, IndexFile(v) \/ StatFails(v) PROVE Past
  <2>1. CASE Abandon(v)  BY <1>2, <2>1
  <2>2. CASE /\ ix' = [ix EXCEPT ![v] = [NoIndex EXCEPT !.pc = "open", !.key = v,
                                                       !.mtime = StatTime(bucket[v])]]
             /\ upc' = upc
    BY <1>0, <2>2 DEF NoIndex, Attach
  <2> QED  BY <1>8, <2>1, <2>2 DEF IndexFile, StatFails
<1>9. ASSUME NEW v \in Uploads, ApplyField(v) \/ FieldCallFails(v) PROVE Past
  <2>1. upc[v] \in Fields  BY <1>9 DEF ApplyField, FieldCallFails
  <2>2. upc' = [upc EXCEPT ![v] = NextField[upc[v]]] /\ ix' = ix
    BY <1>9 DEF ApplyField, FieldCallFails
  <2> QED  BY <1>0, <2>1, <2>2 DEF Fields
<1>10. ASSUME Crash PROVE Past
  BY <1>0, <1>10 DEF Crash, NoIndex, Attach
<1>11. ASSUME UNCHANGED <<upc, ix>> PROVE Past
  BY <1>11
<1> HIDE DEF Past
<1>12. \/ \E p \in Procs : IndexStep(p) \/ IndexCallFails(p) \/ AttachCallFails(p)
       \/ \E s \in Scans, w \in Workers : TakeJob(s, w)
       \/ \E v \in Uploads : \/ PutObject(v) \/ PutFails(v) \/ Cleanup(v) \/ IndexFile(v)
                             \/ StatFails(v) \/ ApplyField(v) \/ FieldCallFails(v)
       \/ Crash
       \/ UNCHANGED <<upc, ix>>
  BY DEF Next, Environment, ScanStep, UploadStep, Failure, vars, ExternalPut, ExternalRemove,
     Request, Lock, LoadSongPaths, ListObject, InventoryDone, IndexDone, Prune, ScanCallFails
<1>13. Past \/ UpsertSong(u)
  BY <1>5, <1>6, <1>7, <1>8, <1>9, <1>10, <1>11, <1>12
<1> QED  BY <1>13 DEF Past

LEMMA IndexedInit == Init => IndexedInv
BY KeySets DEF Init, IndexedInv, NoIndex, Attach

LEMMA IndexedStep == IInv /\ PruneInv /\ IndexedInv /\ [Next]_vars => IndexedInv'
<1> SUFFICES ASSUME IInv, PruneInv, IndexedInv, [Next]_vars, ~DeleteMissing, NEW u \in Uploads,
                    \/ upc'[u] \in {"meta", "category", "photo", "done"}
                    \/ ix'[u].pc \in Attach
             PROVE  Indexed(u)'
  BY DEF IndexedInv, Indexed
<1> USE KeySets
<1>1. CASE UpsertSong(u)
  <2>1. ix[u].pc = "upsert"  BY <1>1 DEF UpsertSong
  <2>2. ix[u].key = u  BY <2>1 DEF IInv, Serial
  <2>3. songs'[u].id # 0 /\ songs'[u].content = ix[u].content /\ bucket' = bucket
    BY <1>1, <2>2, Upserted DEF IInv
  <2>4. bucket[u].kind # "none" => bucket[u].mtime = ix[u].content
    BY <2>1, <2>2 DEF IInv, OneVersion
  <2> QED  BY <2>3, <2>4 DEF Indexed
<1>2. CASE ~UpsertSong(u)
  <2>1. \/ upc[u] \in {"meta", "category", "photo", "done"}
        \/ ix[u].pc \in Attach
    BY <1>2, PastUpsert
  <2>2. upc[u] # "new"
    <3>1. ix[u].pc # "idle" => ix[u].key = u  BY DEF IInv, Serial
    <3> QED  BY <2>1, <3>1 DEF IInv, Fresh, Attach
  <2>3. Indexed(u)  BY <2>1 DEF IndexedInv
  <2> QED  BY <2>2, <2>3, StillIndexed
<1> QED  BY <1>1, <1>2

(* An upload that was answered is in the catalog, made from the bytes in    *)
(* the bucket (handlers_api.go:1128), where nothing is pruned.              *)
THEOREM AnsweredUploadsIndexed == Spec => []AcknowledgedUpload
<1>1. IndexedInv => AcknowledgedUpload  BY DEF IndexedInv, AcknowledgedUpload, Indexed
<1> QED
  BY <1>1, Invariant, PruneInit, PruneStep, IndexedInit, IndexedStep, PTL DEF Spec, IInv

-----------------------------------------------------------------------------
(* What the upload form overrode.                                           *)

(* The times an object of time t is given: List's, a HEAD request's, none.  *)
TimesOf(t) == {0, t, t - (t % Second)}

(* Whatever is remembered of an upload's file was read from one object.     *)
OneTime(u, t) ==
  /\ bucket[u].mtime \in {0, t} /\ songs[u].mtime \in TimesOf(t)
  /\ \A s \in Scans : existing[s][u] \in TimesOf(t) /\ inv[s][u] \in TimesOf(t)
  /\ \A p \in Procs : ix[p].pc \in {"open", "upsert"} /\ ix[p].key = u
       => ix[p].mtime \in TimesOf(t)

(* An upload is indexing in its two attempts only, and the form comes after *)
(* them; a worker indexes an upload only if its Run's snapshot had no row   *)
(* of it.                                                                   *)
FormInv ==
  /\ \A u \in Uploads :
       /\ \E t \in Nat : OneTime(u, t)
       /\ upc[u] = "new" => \A s \in Scans : existing[s][u] = 0
       /\ upc[u] \notin {"index", "retry"} => ix[u].pc = "idle"
       /\ songs[u].title = "form" => upc[u] \notin {"new", "index", "retry"}
  /\ \A s \in Scans, w \in Workers :
       ix[<<s, w>>].pc \in {"open", "upsert"} /\ ix[<<s, w>>].key \in Uploads
         => existing[s][ix[<<s, w>>].key] = 0

(* Two times of one object are told to be the same.                         *)
LEMMA SameObjectUnchanged ==
  ASSUME NEW t \in Nat, NEW a \in TimesOf(t), NEW b \in TimesOf(t), a # 0, b # 0
  PROVE  Unchanged(a, b)
<1>1. t % Second \in {0, 1}  BY DEF Second
<1> QED  BY <1>1 DEF TimesOf, Unchanged, Second

(* Calls that are reading or storing a file go on as they were, stop, or    *)
(* start; this is all the times see of them.                                *)
CallTimesKept(u) == \A p \in Procs :
  ix'[p].pc \in {"open", "upsert"} /\ ix'[p].key = u =>
    /\ ix[p].pc \in {"open", "upsert"} /\ ix[p].key = u
    /\ ix'[p].mtime = ix[p].mtime
ScanTimesKept == \A s \in Scans, k \in Keys :
  existing'[s][k] \in {0, existing[s][k]} /\ inv'[s][k] \in {0, inv[s][k]}

LEMMA OneTimeKept ==
  ASSUME NEW u \in Uploads, NEW t \in Nat, OneTime(u, t), CallTimesKept(u), ScanTimesKept,
         bucket'[u].mtime \in {0, bucket[u].mtime}, songs'[u].mtime \in {0, songs[u].mtime}
  PROVE  OneTime(u, t)'
BY KeySets DEF OneTime, CallTimesKept, ScanTimesKept, TimesOf

(* Steps on a call other than its start.                                    *)
LEMMA CallsKeepTimes ==
  ASSUME TypeOK, NEW u \in Uploads, NEW p \in Procs,
         IndexStep(p) \/ IndexCallFails(p) \/ AttachCallFails(p)
  PROVE  CallTimesKept(u)
<1>0. ix \in [Procs -> Index] /\ ix[p] \in Index  BY DEF TypeOK
<1>1. CASE \A q \in Procs : ix'[q] = ix[q] \/ ix'[q].pc \notin {"open", "upsert"}
  BY <1>1 DEF CallTimesKept
<1>2. CASE Abandon(p)
  BY <1>0, <1>2 DEF Abandon, CallTimesKept, NoIndex
<1>3. CASE ReturnSong(p)
  <2>1. [NoIndex EXCEPT !.id = ix[p].id].pc = "idle"  BY DEF NoIndex
  <2> QED  BY <1>0, <1>3, <2>1 DEF ReturnSong, CallTimesKept, NoIndex
<1>4. CASE GoesOn(p)
  BY <1>4, GoneOn DEF CallTimesKept
<1>5. CASE UpsertSong(p)
  BY <1>5, Upserted DEF CallTimesKept
<1>6. CASE Download(p) /\ ~Abandon(p)
  <2> DEFINE call == [ix[p] EXCEPT !.pc = "upsert", !.content = bucket[ix[p].key].mtime]
  <2>1. ix' = [ix EXCEPT ![p] = call] /\ ix[p].pc = "open"
    BY <1>0, <1>6 DEF Download
  <2>2. call.key = ix[p].key /\ call.mtime = ix[p].mtime
    BY <1>0 DEF Index
  <2> HIDE DEF call
  <2> QED  BY <1>0, <2>1, <2>2 DEF CallTimesKept
<1> QED
  BY <1>2, <1>3, <1>4, <1>5, <1>6, GenreSteps, FailedSteps
  DEF IndexStep, IndexCallFails, AttachArt

(* A row's time changes by an upsert or a prune only.                       *)
LEMMA RowTimeSteps ==
  ASSUME TypeOK, [Next]_vars, NEW u \in Uploads,
         ~\E p \in Procs : UpsertSong(p) /\ ix[p].key = u
  PROVE  songs'[u].mtime \in {0, songs[u].mtime}
<1>1. ASSUME NEW p \in Procs, UpsertSong(p) PROVE songs'[u].mtime = songs[u].mtime
  BY <1>1, Upserted, KeySets
<1>2. ASSUME NEW s \in Scans, Prune(s) PROVE songs'[u].mtime \in {0, songs[u].mtime}
  BY <1>2, KeySets DEF Prune, NoSong
<1> QED  BY <1>1, <1>2, RowSteps, RowTimesKept, KeySets

LEMMA ReturnTimes ==
  ASSUME TypeOK, NEW s \in Scans, Return(s)
  PROVE  ScanTimesKept
BY DEF TypeOK, Return, NoTimes, ScanTimesKept

(* An upload leaves its first state by its Put.                             *)
LEMMA FreshLeft ==
  ASSUME IInv, [Next]_vars, NEW u \in Uploads, upc[u] = "new", upc'[u] # "new"
  PROVE  PutObject(u) \/ PutFails(u)
<1> USE KeySets
<1>0. upc \in [Uploads -> UploadPC] /\ TypeOK  BY DEF IInv, TypeOK
<1>1. ix[u].pc = "idle"  BY DEF IInv, Fresh, Serial
<1>2. ASSUME NEW p \in Procs, Abandon(p) \/ ReturnSong(p) PROVE p = u
  BY <1>0, <1>2 DEF Abandon, ReturnSong
<1>3. ASSUME NEW p \in Procs, IndexStep(p) \/ IndexCallFails(p) \/ AttachCallFails(p) PROVE FALSE
  <2>1. p # u
    BY <1>1, <1>3 DEF IndexStep, Download, UpsertSong, QueryGenre, CreateGenre, AssignGenre,
       AttachArt, IndexCallFails,
                      AttachCallFails
  <2> QED
    BY <1>2, <1>3, <2>1 DEF IndexStep, Download, UpsertSong, QueryGenre, CreateGenre,
       AssignGenre, AttachArt,
                            IndexCallFails, AttachCallFails
<1>4. ASSUME NEW v \in Uploads,
             IndexFile(v) \/ StatFails(v) \/ Cleanup(v) \/ ApplyField(v) \/ FieldCallFails(v)
      PROVE  FALSE
  <2>1. v # u
    BY <1>4, CatalogAssumption
    DEF IndexFile, StatFails, Cleanup, ApplyField, FieldCallFails, Fields
  <2> QED
    BY <1>0, <1>2, <1>4, <2>1 DEF IndexFile, StatFails, Cleanup, ApplyField, FieldCallFails
<1>5. ASSUME NEW v \in Uploads, PutObject(v) \/ PutFails(v) PROVE v = u
  BY <1>0, <1>5 DEF PutObject, PutFails
<1>6. ~Crash  BY DEF Crash
<1> QED
  BY <1>3, <1>4, <1>5, <1>6
  DEF Next, Environment, ScanStep, UploadStep, Failure, vars, scanVars,
      ExternalPut, ExternalRemove, Request, Lock, LoadSongPaths, ListObject, TakeJob,
      InventoryDone, IndexDone, Prune, ScanCallFails

(* A scan neither lists nor has a row of an upload that has not been put.   *)
LEMMA FreshUnseen ==
  ASSUME IInv, FormInv, [Next]_vars, NEW u \in Uploads, upc[u] = "new"
  PROVE  \A s \in Scans : existing'[s][u] = 0 /\ inv'[s][u] = 0
<1> USE KeySets
<1>1. /\ TypeOK /\ bucket[u].mtime = 0 /\ songs[u].mtime = 0
      /\ \A s \in Scans : existing[s][u] = 0 /\ inv[s][u] = 0
  <2>1. songs[u].mtime \in Nat /\ songs[u].mtime <= songs[u].content /\ songs[u].content = 0
    BY DEF IInv, TypeOK, Song, RowInv, Fresh
  <2> QED  BY <2>1 DEF IInv, Fresh, FormInv, BucketInv
<1>2. ScanTimesKept => \A s \in Scans : existing'[s][u] = 0 /\ inv'[s][u] = 0
  BY <1>1 DEF ScanTimesKept
<1>3. ASSUME NEW s \in Scans, LoadSongPaths(s)
      PROVE  \A r \in Scans : existing'[r][u] = 0 /\ inv'[r][u] = 0
  BY <1>1, <1>3 DEF LoadSongPaths, TypeOK
<1>4. ASSUME NEW s \in Scans, ListObject(s)
      PROVE  \A r \in Scans : existing'[r][u] = 0 /\ inv'[r][u] = 0
  BY <1>1, <1>4 DEF ListObject, TypeOK, Entry
<1>5. ASSUME NEW s \in Scans, Return(s) PROVE ScanTimesKept
  BY <1>1, <1>5, ReturnTimes
<1>6. ASSUME Crash PROVE ScanTimesKept
  BY <1>6 DEF Crash, NoTimes, ScanTimesKept
<1>7. ASSUME UNCHANGED <<existing, inv>> PROVE ScanTimesKept
  BY <1>7 DEF ScanTimesKept
<1> HIDE DEF ScanTimesKept
<1>8. \/ \E s \in Scans : LoadSongPaths(s) \/ ListObject(s) \/ Return(s)
      \/ Crash \/ UNCHANGED <<existing, inv>>
  BY DEF Next, Environment, ScanStep, IndexStep, UploadStep, Failure, vars, scanVars,
     ExternalPut, ExternalRemove, Request, Lock, InventoryDone, TakeJob, IndexDone,
     BeginPrune, Prune, ScanCallFails, Download, UpsertSong, QueryGenre, CreateGenre,
     AssignGenre, AttachArt,
     IndexCallFails, AttachCallFails, PutObject, PutFails, IndexFile, StatFails, Cleanup,
     ApplyField, FieldCallFails
<1> QED  BY <1>2, <1>3, <1>4, <1>5, <1>6, <1>7, <1>8

LEMMA TimesStep ==
  ASSUME IInv, IInv', FormInv, [Next]_vars, NEW u \in Uploads
  PROVE  \E t \in Nat : OneTime(u, t)'
<1> USE KeySets, CatalogAssumption
<1>1. PICK t \in Nat : OneTime(u, t)  BY DEF FormInv
<1>2. TypeOK /\ u \in Keys  BY DEF IInv
<1>3. CASE upc[u] = "new"
  <2>1. /\ bucket[u].mtime = 0 /\ songs[u].mtime = 0
        /\ \A s \in Scans : existing[s][u] = 0 /\ inv[s][u] = 0
        /\ \A p \in Procs : ix[p].pc # "idle" => ix[p].key # u
    <3>1. songs[u].mtime \in Nat /\ songs[u].mtime <= songs[u].content /\ songs[u].content = 0
      BY <1>2, <1>3 DEF IInv, TypeOK, Song, RowInv, Fresh
    <3> QED  BY <1>2, <1>3, <3>1 DEF IInv, Fresh, FormInv, BucketInv
  <2>2. songs'[u].mtime = 0
    <3>1. ~\E p \in Procs : UpsertSong(p) /\ ix[p].key = u  BY <2>1 DEF UpsertSong
    <3> QED  BY <1>2, <2>1, <3>1, RowTimeSteps
  <2>3. \A s \in Scans : existing'[s][u] = 0 /\ inv'[s][u] = 0
    BY <1>3, FreshUnseen
  <2>4. \A p \in Procs : ix'[p].pc \in {"open", "upsert"} => ix'[p].key # u
    <3>1. CASE upc'[u] = "new"  BY <3>1 DEF IInv, Fresh
    <3>2. CASE upc'[u] # "new"
      <4>1. PutObject(u) \/ PutFails(u)
        BY <1>2, <1>3, <2>1, <3>2, AbandonMoves, FreshLeft
      <4> QED  BY <2>1, <4>1 DEF PutObject, PutFails
    <3> QED  BY <3>1, <3>2
  <2>5. PICK r \in Nat : bucket'[u].mtime = r  BY DEF IInv, TypeOK, Object
  <2>6. OneTime(u, r)'
    BY <2>2, <2>3, <2>4, <2>5 DEF OneTime, TimesOf
  <2> QED  BY <2>6
<1>4. CASE upc[u] # "new"
  <2>1. bucket'[u].mtime \in {0, bucket[u].mtime}
    BY <1>2, <1>4, ObjectKept
  <2>2. ASSUME NEW p \in Procs, UpsertSong(p), ix[p].key = u
        PROVE  OneTime(u, t)'
    <3>1. /\ songs'[u].mtime = ix[p].mtime /\ ix[p].pc = "upsert"
          /\ existing' = existing /\ inv' = inv
      BY <1>2, <2>2, Upserted
    <3>2. CallTimesKept(u)  BY <1>2, <2>2, CallsKeepTimes DEF IndexStep
    <3> QED  BY <1>1, <2>1, <2>2, <3>1, <3>2 DEF OneTime, CallTimesKept
  <2>3. CASE ~\E p \in Procs : UpsertSong(p) /\ ix[p].key = u
    <3>1. songs'[u].mtime \in {0, songs[u].mtime}  BY <1>2, <2>3, RowTimeSteps
    <3>2. ASSUME NEW s \in Scans, LoadSongPaths(s) PROVE OneTime(u, t)'
      <4>1. /\ existing' = [existing EXCEPT ![s] = [k \in Keys |-> songs[k].mtime]]
            /\ UNCHANGED <<bucket, songs, inv, ix>>
        BY <3>2 DEF LoadSongPaths
      <4>2. \A r \in Scans : existing'[r][u] \in {existing[r][u], songs[u].mtime}
        BY <1>2, <4>1 DEF TypeOK
      <4> QED  BY <1>1, <4>1, <4>2 DEF OneTime
    <3>3. ASSUME NEW s \in Scans, ListObject(s) PROVE OneTime(u, t)'
      <4>1. UNCHANGED <<bucket, songs, existing, ix>>  BY <3>3 DEF ListObject
      <4>2. PICK k \in todo[s] : inv' = [inv EXCEPT ![s][k] = Entry(bucket[k])]
        BY <3>3 DEF ListObject
      <4>3. \A r \in Scans : inv'[r][u] \in {0, inv[r][u], bucket[u].mtime}
        BY <1>2, <4>2 DEF TypeOK, Entry
      <4> QED  BY <1>1, <4>1, <4>3 DEF OneTime, TimesOf
    <3>4. ASSUME NEW s \in Scans, NEW w \in Workers, TakeJob(s, w) PROVE OneTime(u, t)'
      <4>1. UNCHANGED <<bucket, songs, existing, inv>>  BY <3>4 DEF TakeJob
      <4>2. <<s, w>> \in Procs  BY DEF Procs, Crew
      <4>3. \A p \in Procs : \/ ix'[p] = ix[p]
                             \/ \E k \in Keys : ix'[p].key = k /\ ix'[p].mtime = inv[s][k]
        <5>1. PICK k \in todo[s] :
                ix' = IF Unchanged(existing[s][k], inv[s][k]) THEN ix
                      ELSE [ix EXCEPT ![<<s, w>>] =
                             [NoIndex EXCEPT !.pc = "open", !.key = k, !.mtime = inv[s][k]]]
          BY <3>4 DEF TakeJob
        <5> QED  BY <1>2, <4>2, <5>1 DEF TypeOK, NoIndex
      <4> QED  BY <1>1, <4>1, <4>3 DEF OneTime
    <3>5. ASSUME NEW v \in Uploads, IndexFile(v) PROVE OneTime(u, t)'
      <4>1. UNCHANGED <<bucket, songs, existing, inv>>  BY <3>5 DEF IndexFile, scanVars
      <4>2. CASE Abandon(v)
        <5>1. CallTimesKept(u)
          BY <1>2, <4>2 DEF TypeOK, Abandon, CallTimesKept, NoIndex
        <5> QED  BY <1>1, <4>1, <5>1 DEF OneTime, CallTimesKept
      <4>3. CASE ~Abandon(v)
        <5> DEFINE call == [NoIndex EXCEPT !.pc = "open", !.key = v,
                                           !.mtime = StatTime(bucket[v])]
        <5>3. bucket[v].kind # "none" /\ ix' = [ix EXCEPT ![v] = call]
          BY <3>5, <4>3 DEF IndexFile
        <5>4. call.key = v /\ call.mtime = StatTime(bucket[v])  BY DEF NoIndex
        <5> HIDE DEF call
        <5>1. bucket[v].kind # "none" /\ \A p \in Procs :
                \/ ix'[p] = ix[p]
                \/ ix'[p].key = v /\ ix'[p].mtime = StatTime(bucket[v])
          BY <1>2, <5>3, <5>4 DEF TypeOK
        <5>2. v = u => StatTime(bucket[v]) \in TimesOf(t)
          <6>1. bucket[v].mtime # 0  BY <5>1 DEF IInv, BucketInv
          <6> QED  BY <1>1, <6>1 DEF OneTime, TimesOf, StatTime
        <5> QED  BY <1>1, <4>1, <5>1, <5>2 DEF OneTime
      <4> QED  BY <4>2, <4>3
    <3>6. ASSUME NEW p \in Procs, IndexStep(p) \/ IndexCallFails(p) \/ AttachCallFails(p)
          PROVE  OneTime(u, t)'
      <4>1. CallTimesKept(u)  BY <1>2, <3>6, CallsKeepTimes
      <4>2. ScanTimesKept
        BY <3>6 DEF ScanTimesKept, IndexStep, Download, UpsertSong, QueryGenre, CreateGenre,
           AssignGenre, AttachArt,
                    IndexCallFails, AttachCallFails, scanVars
      <4> QED  BY <1>1, <2>1, <3>1, <4>1, <4>2, OneTimeKept
    <3>7. ASSUME NEW v \in Uploads, StatFails(v) PROVE OneTime(u, t)'
      <4>1. CallTimesKept(u)
        BY <1>2, <3>7 DEF StatFails, TypeOK, Abandon, CallTimesKept, NoIndex
      <4>2. ScanTimesKept  BY <3>7 DEF ScanTimesKept, StatFails, scanVars
      <4> QED  BY <1>1, <2>1, <3>1, <4>1, <4>2, OneTimeKept
    <3>8. CASE Crash
      <4>1. CallTimesKept(u)  BY <3>8 DEF Crash, CallTimesKept, NoIndex
      <4>2. ScanTimesKept  BY <3>8 DEF Crash, ScanTimesKept, NoTimes
      <4> QED  BY <1>1, <2>1, <3>1, <4>1, <4>2, OneTimeKept
    <3>9. ASSUME UNCHANGED ix, ScanTimesKept PROVE OneTime(u, t)'
      <4>1. CallTimesKept(u)  BY <3>9 DEF CallTimesKept
      <4> QED  BY <1>1, <2>1, <3>1, <3>9, <4>1, OneTimeKept
    <3>10. ASSUME NEW s \in Scans, Return(s) PROVE ScanTimesKept
      BY <1>2, <3>10, ReturnTimes
    <3>11. ASSUME UNCHANGED <<existing, inv>> PROVE ScanTimesKept
      BY <3>11 DEF ScanTimesKept
    <3> HIDE DEF ScanTimesKept
    <3>12. \/ \E s \in Scans : LoadSongPaths(s) \/ ListObject(s)
           \/ \E s \in Scans, w \in Workers : TakeJob(s, w)
           \/ \E v \in Uploads : IndexFile(v) \/ StatFails(v)
           \/ \E p \in Procs : IndexStep(p) \/ IndexCallFails(p) \/ AttachCallFails(p)
           \/ Crash
           \/ UNCHANGED ix /\ ((\E s \in Scans : Return(s)) \/ UNCHANGED <<existing, inv>>)
      BY DEF Next, Environment, ScanStep, UploadStep, Failure, vars, scanVars,
         ExternalPut, ExternalRemove, Request, Lock, InventoryDone, IndexDone,
         BeginPrune, Prune, ScanCallFails, PutObject, PutFails, Cleanup,
         ApplyField, FieldCallFails
    <3> QED
      BY <3>2, <3>3, <3>4, <3>5, <3>6, <3>7, <3>8, <3>9, <3>10, <3>11, <3>12
  <2> QED  BY <2>2, <2>3
<1> QED  BY <1>3, <1>4

(* A call of an upload goes on under the phase that started it.             *)
LEMMA UploadPhase ==
  ASSUME IInv, FormInv, [Next]_vars, NEW u \in Uploads
  PROVE  /\ upc'[u] \notin {"index", "retry"} => ix'[u].pc = "idle"
         /\ upc[u] \notin {"new", "index", "retry"} => upc'[u] \notin {"new", "index", "retry"}
         /\ upc[u] # "new" => upc'[u] # "new"
<1> USE KeySets, CatalogAssumption
<1>0. /\ ix \in [Procs -> Index] /\ upc \in [Uploads -> UploadPC] /\ TypeOK
      /\ \A s \in Scans, w \in Workers : <<s, w>> # u
  BY DEF IInv, TypeOK, Crew
<1>P. upc[u] \notin {"index", "retry"} => ix[u].pc = "idle"  BY DEF FormInv
<1> DEFINE Goal == /\ upc'[u] \notin {"index", "retry"} => ix'[u].pc = "idle"
                   /\ upc[u] \notin {"new", "index", "retry"}
                        => upc'[u] \notin {"new", "index", "retry"}
                   /\ upc[u] # "new" => upc'[u] # "new"
<1>1. ASSUME NEW p \in Procs, Abandon(p) PROVE Goal
  BY <1>0, <1>P, <1>1 DEF Abandon, AfterFailure, NoIndex
<1>2. ASSUME NEW p \in Procs, ReturnSong(p) PROVE Goal
  <2>1. [NoIndex EXCEPT !.id = ix[p].id].pc = "idle"  BY DEF NoIndex
  <2> QED  BY <1>0, <1>P, <1>2, <2>1 DEF ReturnSong, NoIndex
<1>3. ASSUME NEW p \in Procs, ix[p].pc # "idle", upc' = upc, \A q \in Procs \ {p} : ix'[q] = ix[q]
      PROVE  Goal
  BY <1>P, <1>3
<1>4. ASSUME NEW p \in Procs, IndexStep(p) \/ IndexCallFails(p) \/ AttachCallFails(p)
      PROVE  Goal
  <2>1. ASSUME UpsertSong(p) PROVE Goal  BY <1>0, <1>3, <2>1, Upserted
  <2>2. ASSUME Download(p), ~Abandon(p) PROVE Goal
    BY <1>0, <1>3, <2>2 DEF Download
  <2>3. ASSUME GoesOn(p) PROVE Goal
    BY <1>0, <1>3, <2>3, GoneOn DEF GoesOn
  <2> HIDE DEF Goal
  <2> QED
    BY <1>1, <1>2, <1>4, <2>1, <2>2, <2>3, GenreSteps, FailedSteps
    DEF IndexStep, IndexCallFails, AttachArt
<1>5. ASSUME NEW s \in Scans, NEW w \in Workers, TakeJob(s, w) PROVE Goal
  <2>1. <<s, w>> \in Procs  BY DEF Procs, Crew
  <2> QED  BY <1>0, <1>P, <1>5, <2>1 DEF TakeJob
<1>6. ASSUME NEW v \in Uploads, PutObject(v) \/ PutFails(v) \/ Cleanup(v) PROVE Goal
  BY <1>0, <1>P, <1>6 DEF PutObject, PutFails, Cleanup
<1>7. ASSUME NEW v \in Uploads, IndexFile(v) \/ StatFails(v) PROVE Goal
  <2>1. CASE Abandon(v)  BY <1>1, <2>1
  <2>2. CASE ~Abandon(v)
    BY <1>0, <1>P, <1>7, <2>2 DEF IndexFile, StatFails
  <2> QED  BY <2>1, <2>2
<1>8. ASSUME NEW v \in Uploads, ApplyField(v) \/ FieldCallFails(v) PROVE Goal
  <2>1. upc[v] \in Fields  BY <1>8 DEF ApplyField, FieldCallFails
  <2>2. upc' = [upc EXCEPT ![v] = NextField[upc[v]]] /\ ix' = ix
    BY <1>8 DEF ApplyField, FieldCallFails
  <2>3. NextField[upc[v]] \in {"category", "photo", "done"}  BY <2>1 DEF Fields, NextField
  <2> QED  BY <1>0, <1>P, <2>1, <2>2, <2>3 DEF Fields
<1>9. ASSUME Crash PROVE Goal
  BY <1>0, <1>9 DEF Crash, NoIndex
<1>10. ASSUME UNCHANGED <<upc, ix>> PROVE Goal
  BY <1>P, <1>10
<1>11. \/ \E p \in Procs : IndexStep(p) \/ IndexCallFails(p) \/ AttachCallFails(p)
       \/ \E s \in Scans, w \in Workers : TakeJob(s, w)
       \/ \E v \in Uploads : \/ PutObject(v) \/ PutFails(v) \/ Cleanup(v) \/ IndexFile(v)
                             \/ StatFails(v) \/ ApplyField(v) \/ FieldCallFails(v)
       \/ Crash
       \/ UNCHANGED <<upc, ix>>
  BY DEF Next, Environment, ScanStep, UploadStep, Failure, vars, ExternalPut, ExternalRemove,
     Request, Lock, LoadSongPaths, ListObject, InventoryDone, IndexDone, Prune, ScanCallFails
<1> HIDE DEF Goal
<1>12. Goal
  BY <1>4, <1>5, <1>6, <1>7, <1>8, <1>9, <1>10, <1>11
<1> QED  BY <1>12 DEF Goal

LEMMA TitleSteps ==
  ASSUME TypeOK, [Next]_vars, NEW u \in Uploads, songs'[u].title = "form"
  PROVE  songs[u].title = "form" \/ upc[u] = "meta"
<1> USE KeySets
<1>0. songs \in [Keys -> Song]  BY DEF TypeOK
<1>1. ASSUME NEW p \in Procs, UpsertSong(p) PROVE songs[u].title = "form"
  BY <1>1, Upserted
<1>2. ASSUME NEW p \in Procs, AssignGenre(p) \/ AttachArt(p) PROVE songs[u].title = "form"
  <2>1. \/ songs' = songs
        \/ songs' = [songs EXCEPT ![ix[p].key].genre = TRUE]
        \/ songs' = [songs EXCEPT ![ix[p].key].art = "tags"]
    BY <1>2 DEF AssignGenre, AttachArt
  <2> QED  BY <1>0, <2>1 DEF Song
<1>3. ASSUME NEW s \in Scans, Prune(s) PROVE songs[u].title = "form"
  BY <1>3 DEF Prune, NoSong
<1>4. ASSUME NEW v \in Uploads, ApplyField(v) PROVE songs[u].title = "form" \/ upc[u] = "meta"
  BY <1>0, <1>4 DEF ApplyField, Fields, Song
<1> QED  BY <1>1, <1>2, <1>3, <1>4, RowSteps

(* A Run's snapshot stays while its workers are at work.                    *)
LEMMA SnapshotKept ==
  ASSUME TypeOK, [Next]_vars, NEW s \in Scans, scan'[s] = "index"
  PROVE  existing'[s] = existing[s]
<1>1. ASSUME NEW r \in Scans, LoadSongPaths(r) \/ Return(r) PROVE existing'[s] = existing[s]
  BY <1>1 DEF LoadSongPaths, Return, TypeOK
<1>2. ~Crash  BY DEF Crash
<1> QED
  BY <1>1, <1>2
  DEF Next, Environment, ScanStep, IndexStep, UploadStep, Failure, vars, scanVars,
      ExternalPut, ExternalRemove, Request, Lock, ListObject, InventoryDone, TakeJob,
      IndexDone, BeginPrune, Prune, ScanCallFails, Download, UpsertSong, QueryGenre, CreateGenre,
      AssignGenre,
      AttachArt, IndexCallFails, AttachCallFails, PutObject, PutFails, IndexFile, StatFails,
      Cleanup, ApplyField, FieldCallFails

(* A worker starts on an upload's file only without a row in the snapshot.  *)
LEMMA TakenUnknown ==
  ASSUME IInv, FormInv, NEW s \in Scans, NEW w \in Workers, TakeJob(s, w),
         ix'[<<s, w>>].pc \in {"open", "upsert"}, ix'[<<s, w>>].key \in Uploads
  PROVE  existing[s][ix'[<<s, w>>].key] = 0
<1> USE KeySets
<1>1. <<s, w>> \in Procs /\ ix[<<s, w>>].pc = "idle" /\ ix \in [Procs -> Index]
      /\ scan[s] = "index"
  BY DEF Procs, Crew, TakeJob, IInv, TypeOK
<1>2. PICK k \in todo[s] :
        ix' = IF Unchanged(existing[s][k], inv[s][k]) THEN ix
              ELSE [ix EXCEPT ![<<s, w>>] =
                     [NoIndex EXCEPT !.pc = "open", !.key = k, !.mtime = inv[s][k]]]
  BY DEF TakeJob
<1>3. ~Unchanged(existing[s][k], inv[s][k]) /\ ix'[<<s, w>>].key = k
  BY <1>1, <1>2 DEF NoIndex
<1>4. k \in Uploads  BY <1>3
<1>5. PICK t \in Nat : OneTime(k, t)  BY <1>4 DEF FormInv
<1>6. existing[s][k] \in TimesOf(t) /\ inv[s][k] \in TimesOf(t)
  BY <1>4, <1>5 DEF OneTime
<1>7. inv[s][k] # 0  BY <1>1, <1>4 DEF IInv, InventoryInv
<1> QED  BY <1>3, <1>6, <1>7, SameObjectUnchanged

(* A worker is at the file it was at, unless it has just been given one.    *)
LEMMA NotStarted ==
  ASSUME TypeOK, [Next]_vars, NEW s \in Scans, NEW w \in Workers, ~TakeJob(s, w),
         ix'[<<s, w>>].pc \in {"open", "upsert"}, ix'[<<s, w>>].key \in Uploads
  PROVE  ix[<<s, w>>].pc \in {"open", "upsert"} /\ ix'[<<s, w>>].key = ix[<<s, w>>].key
<1>1. /\ <<s, w>> \in Procs /\ ix \in [Procs -> Index]
      /\ \A v \in Uploads : v # <<s, w>>
  BY CatalogAssumption DEF Procs, Crew, TypeOK
<1>2. ASSUME NEW p \in Procs, IndexStep(p) \/ IndexCallFails(p) \/ AttachCallFails(p)
      PROVE  ix[<<s, w>>].pc \in {"open", "upsert"} /\ ix'[<<s, w>>].key = ix[<<s, w>>].key
  BY <1>1, <1>2, CallsKeepTimes DEF CallTimesKept
<1>3. ASSUME ix'[<<s, w>>] = ix[<<s, w>>]
      PROVE  ix[<<s, w>>].pc \in {"open", "upsert"} /\ ix'[<<s, w>>].key = ix[<<s, w>>].key
  BY <1>3
<1>4. ASSUME NEW r \in Scans, NEW v \in Workers, TakeJob(r, v)
      PROVE  ix'[<<s, w>>] = ix[<<s, w>>]
  <2>1. <<r, v>> # <<s, w>>  BY <1>4
  <2> QED  BY <1>1, <1>4, <2>1 DEF TakeJob
<1>5. ASSUME NEW v \in Uploads, IndexFile(v) \/ StatFails(v)
      PROVE  ix'[<<s, w>>] = ix[<<s, w>>]
  BY <1>1, <1>5 DEF IndexFile, StatFails, Abandon
<1>6. ~Crash  BY <1>1 DEF Crash, NoIndex
<1>7. \/ \E p \in Procs : IndexStep(p) \/ IndexCallFails(p) \/ AttachCallFails(p)
      \/ \E r \in Scans, v \in Workers : TakeJob(r, v)
      \/ \E v \in Uploads : IndexFile(v) \/ StatFails(v)
      \/ UNCHANGED ix
  BY <1>6
  DEF Next, Environment, ScanStep, UploadStep, Failure, vars, ExternalPut, ExternalRemove,
      Request, Lock, LoadSongPaths, ListObject, InventoryDone, IndexDone, Prune, ScanCallFails,
      PutObject, PutFails, Cleanup, ApplyField, FieldCallFails
<1> QED  BY <1>2, <1>3, <1>4, <1>5, <1>7

LEMMA FormInit == Init => FormInv
<1> SUFFICES ASSUME Init PROVE FormInv
  OBVIOUS
<1>1. \A s \in Scans, w \in Workers : <<s, w>> \in Procs  BY DEF Procs, Crew
<1>2. \A u \in Uploads : OneTime(u, 0)
  BY KeySets DEF Init, OneTime, TimesOf, NoObject, NoSong, NoTimes, NoIndex
<1> QED  BY <1>1, <1>2, KeySets DEF Init, FormInv, NoObject, NoSong, NoTimes, NoIndex

LEMMA FormStep == IInv /\ FormInv /\ [Next]_vars => FormInv'
<1> SUFFICES ASSUME IInv, FormInv, [Next]_vars PROVE FormInv'
  OBVIOUS
<1> USE KeySets
<1>1. TypeOK /\ IInv'  BY StepInv DEF IInv
<1>2. ASSUME NEW u \in Uploads PROVE \E t \in Nat : OneTime(u, t)'
  BY <1>1, TimesStep
<1>3. ASSUME NEW u \in Uploads, upc'[u] = "new" PROVE \A s \in Scans : existing'[s][u] = 0
  <2>1. upc[u] = "new"  BY <1>3, UploadPhase
  <2> QED  BY <2>1, FreshUnseen
<1>4. ASSUME NEW u \in Uploads, upc'[u] \notin {"index", "retry"} PROVE ix'[u].pc = "idle"
  BY <1>4, UploadPhase
<1>5. ASSUME NEW u \in Uploads, songs'[u].title = "form"
      PROVE  upc'[u] \notin {"new", "index", "retry"}
  <2>1. upc[u] \notin {"new", "index", "retry"}
    BY <1>1, <1>5, TitleSteps DEF FormInv
  <2> QED  BY <2>1, UploadPhase
<1>6. ASSUME NEW s \in Scans, NEW w \in Workers,
             ix'[<<s, w>>].pc \in {"open", "upsert"}, ix'[<<s, w>>].key \in Uploads
      PROVE  existing'[s][ix'[<<s, w>>].key] = 0
  <2>1. scan'[s] = "index"  BY <1>1, <1>6 DEF IInv, Serial
  <2>2. existing'[s] = existing[s]  BY <1>1, <2>1, SnapshotKept
  <2>3. CASE TakeJob(s, w)  BY <1>6, <2>2, <2>3, TakenUnknown
  <2>4. CASE ~TakeJob(s, w)
    <3>1. /\ ix[<<s, w>>].pc \in {"open", "upsert"}
          /\ ix'[<<s, w>>].key = ix[<<s, w>>].key
      BY <1>1, <1>6, <2>4, NotStarted
    <3> QED  BY <1>6, <2>2, <3>1 DEF FormInv
  <2> QED  BY <2>3, <2>4
<1> QED  BY <1>2, <1>3, <1>4, <1>5, <1>6 DEF FormInv

LEMMA StepOverride ==
  ASSUME IInv, FormInv, [Next]_vars, NEW u \in Uploads, songs[u].title = "form",
         songs'[u].id # 0, songs'[u].title # "form"
  PROVE  \E s \in Scans : lock = s /\ existing[s][u] = 0
<1> USE KeySets
<1>0. songs \in [Keys -> Song] /\ TypeOK  BY DEF IInv, TypeOK
<1>1. ASSUME NEW p \in Procs, UpsertSong(p)
      PROVE  \E s \in Scans : lock = s /\ existing[s][u] = 0
  <2>1. ix[p].pc = "upsert" /\ ix[p].key = u  BY <1>0, <1>1, Upserted
  <2>2. p \notin Uploads
    <3>1. p \in Uploads => p = u  BY <2>1 DEF IInv, Serial
    <3> QED  BY <2>1, <3>1 DEF FormInv
  <2>3. PICK s \in Scans, w \in Workers : p = <<s, w>>  BY <2>2 DEF Procs, Crew
  <2>4. existing[s][u] = 0  BY <2>1, <2>3 DEF FormInv
  <2>5. lock = s  BY <2>1, <2>3 DEF IInv, Serial
  <2> QED  BY <2>4, <2>5
<1>2. ASSUME NEW p \in Procs, AssignGenre(p) \/ AttachArt(p) PROVE FALSE
  <2>1. \/ songs' = songs
        \/ songs' = [songs EXCEPT ![ix[p].key].genre = TRUE]
        \/ songs' = [songs EXCEPT ![ix[p].key].art = "tags"]
    BY <1>2 DEF AssignGenre, AttachArt
  <2> QED  BY <1>0, <2>1 DEF Song
<1>3. ASSUME NEW s \in Scans, Prune(s) PROVE FALSE
  BY <1>3 DEF Prune, NoSong
<1>4. ASSUME NEW v \in Uploads, ApplyField(v) PROVE FALSE
  BY <1>0, <1>4 DEF ApplyField, Fields, Song
<1> QED  BY <1>1, <1>2, <1>3, <1>4, RowSteps

(* A title typed in the upload form is lost only to a scan whose snapshot   *)
(* is older than the upload's row (scanner.go:477): List and HEAD report    *)
(* the time of one object less than mtimeEqual's tolerance apart.           *)
THEOREM FormTitlesKept == Spec => OverrideSurvivesLaterScans
<1>1. IInv /\ FormInv /\ [Next]_vars =>
        [\A u \in Uploads :
           songs[u].title = "form" /\ songs'[u].id # 0 /\ songs'[u].title # "form"
             => \E s \in Scans : lock = s /\ existing[s][u] = 0]_vars
  BY StepOverride
<1> QED
  BY <1>1, Invariant, FormInit, FormStep, PTL DEF Spec, OverrideSurvivesLaterScans
=============================================================================
