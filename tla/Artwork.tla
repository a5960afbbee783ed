------------------------------- MODULE Artwork -------------------------------
(*******************************************************************************)
(* Cover pictures (artwork/artwork.go, artwork/redis.go).  A picture is a row  *)
(* of artworks, for a category also an object of the bucket; a resized copy    *)
(* for each requested size is kept in a cache, which is a directory or, if it  *)
(* answered when the process started, Redis.                                   *)
(*                                                                             *)
(* Nothing ties a cached copy to the row it was made from: Serve reads the row *)
(* and fills the cache later, an upload writes the row and clears the cache    *)
(* later, and the scanner writes rows and clears nothing.  excused records     *)
(* what may leave a wrong copy, so that the properties say that nothing else   *)
(* does.                                                                       *)
(*                                                                             *)
(* A song, an artist or a playlist without a picture of its own shows that of  *)
(* its album (of its first one): albumOf changes whenever files are indexed,   *)
(* songs renamed and playlists edited.  Pictures are ones that can be decoded: *)
(* for others Serve keeps the placeholder.                                     *)
(*******************************************************************************)
EXTENDS Naturals, FiniteSets, SequencesExt

CONSTANTS
  Albums, Songs, Categories,
  Lists,       \* artists and playlists: they have no picture of their own
  Embedded,    \* the songs whose file has a cover inside
  Folders,     \* the albums whose folder has a cover file
  Sizes,       \* requested sizes
  Serves,      \* requests for pictures in flight
  Admins,      \* uploads and deletions in flight
  RedisUsed,   \* ND_REDIS_ENABLED
  Faults,      \* storage and Redis calls may fail
  Restarts,    \* the process may be restarted
  Limit,       \* ND_IMAGECACHESIZE, in files
  MaxUploads,  \* bound: uploads
  None, Placeholder

(* All ids are drawn from one large space.                                  *)
ASSUME ArtworkAssumption ==
  /\ Songs \cap Albums = {} /\ Categories \cap (Songs \cup Albums) = {}
  /\ Lists \cap (Songs \cup Albums \cup Categories) = {}
  /\ Embedded \subseteq Songs /\ Folders \subseteq Albums
  /\ RedisUsed \in BOOLEAN /\ Faults \in BOOLEAN /\ Restarts \in BOOLEAN
  /\ Limit \in Nat \ {0} /\ MaxUploads \in Nat
  /\ None \notin Songs \cup Albums \cup Categories \cup Lists \cup Sizes \cup {Placeholder}
  /\ None \notin [kind : {"custom", "embedded", "folder"}, id : Nat \cup Songs \cup Albums]

VARIABLES
  art,      \* the rows of artworks
  albumOf,  \* the album whose picture a song, artist or playlist falls back to
  object,   \* covers/<id>.jpg in the bucket
  mode,     \* the cache the process uses
  disk,     \* the files of the cache directory, oldest first
  redis,    \* the keys of Redis
  serve,    \* serve[r]: the locals of a Serve
  admin,    \* admin[u]: the locals of an upload or deletion
  uploads,  \* number of pictures uploaded
  excused,  \* history: excused[e], a wrong copy of e may be cached
  apart     \* history: apart[c], the row and the object of c may differ

vars == <<art, albumOf, object, mode, disk, redis, serve, admin, uploads, excused, apart>>

Followers == Songs \cup Lists
Entities == Followers \cup Albums \cup Categories
Keys == Entities \X Sizes

Custom == [kind : {"custom"}, id : 1..MaxUploads]
Picture == Custom \cup [kind : {"embedded"}, id : Songs] \cup [kind : {"folder"}, id : Albums]
Image == Picture \cup {Placeholder}

Free == [pc |-> "idle", entity |-> None, size |-> None, album |-> None, image |-> None]
Done == [pc |-> "idle", entity |-> None, image |-> None, alone |-> FALSE]

Dependents(e) == {e} \cup {f \in Followers : albumOf[f] = e}

Cover(album) == IF album = None THEN None ELSE art[album]

(* What resolve finds when the entity has no row of its own.                *)
Fallback(e) ==
  IF e \in Followers THEN Cover(albumOf[e]) ELSE IF e \in Categories THEN object[e] ELSE None

Or(image, other) == IF image # None THEN image ELSE other

(* What Serve would make of the rows and objects as they are.               *)
Resolved(e) == Or(art[e], Or(Fallback(e), Placeholder))

OnDisk == {<<f.key, f.image>> : f \in Range(disk)}
InRedis == {<<k, redis[k]>> : k \in {k \in Keys : redis[k] # None}}
Cached == IF mode = "disk" THEN OnDisk ELSE InRedis

-----------------------------------------------------------------------------
(* Serve.                                                                   *)

(* A copy that is cached is sent as it is, and nothing changes; a failing Redis *)
(* counts as one without a copy.                                                *)
Miss(r) ==
  \E e \in Entities, z \in Sizes :
    /\ serve[r].pc = "idle"
    /\ (\A c \in Cached : c[1] # <<e, z>>) \/ (mode = "redis" /\ Faults)
    /\ serve' = [serve EXCEPT ![r] = [Free EXCEPT !.pc = "own", !.entity = e, !.size = z]]
    /\ UNCHANGED <<art, albumOf, object, mode, disk, redis, admin, uploads, excused, apart>>

ReadOwn(r) ==
  LET e == serve[r].entity
      next == IF art[e] # None THEN "set" ELSE IF e \in Followers THEN "find" ELSE "cover"
  IN
  /\ serve[r].pc = "own"
  /\ serve' = [serve EXCEPT ![r].image = art[e], ![r].pc = next]
  /\ UNCHANGED <<art, albumOf, object, mode, disk, redis, admin, uploads, excused, apart>>

(* FirstAlbumByArtist, FirstPlaylistAlbum or FirstSongAlbum: if it fails, resolve *)
(* goes on as if there were no album.                                             *)
FindAlbum(r) ==
  LET e == serve[r].entity IN
  /\ serve[r].pc = "find"
  /\ \/ /\ serve' = [serve EXCEPT ![r].album = albumOf[e], ![r].pc = "cover"]
        /\ UNCHANGED excused
     \/ /\ Faults /\ albumOf[e] # None
        /\ serve' = [serve EXCEPT ![r].pc = "cover"]
        /\ excused' = [excused EXCEPT ![e] = TRUE]
  /\ UNCHANGED <<art, albumOf, object, mode, disk, redis, admin, uploads, apart>>

(* The cover of the album found, or the object of a category: a bucket that fails *)
(* counts as one without the cover.                                               *)
ReadCover(r) ==
  LET e == serve[r].entity
      found == IF e \in Categories THEN object[e] ELSE Cover(serve[r].album)
  IN
  /\ serve[r].pc = "cover"
  /\ \/ /\ serve' = [serve EXCEPT ![r].image = Or(found, Placeholder), ![r].pc = "set"]
        /\ UNCHANGED excused
     \/ /\ Faults /\ e \in Categories /\ found # None
        /\ serve' = [serve EXCEPT ![r].image = Placeholder, ![r].pc = "set"]
        /\ excused' = [excused EXCEPT ![e] = TRUE]
  /\ UNCHANGED <<art, albumOf, object, mode, disk, redis, admin, uploads, apart>>

(* A query of GetArt fails: the placeholder is sent and, unlike the one that a   *)
(* failure in FindAlbum leads to, not cached.                                    *)
ResolveFails(r) ==
  /\ Faults /\ serve[r].pc \in {"own", "cover"}
  /\ serve' = [serve EXCEPT ![r] = Free]
  /\ UNCHANGED <<art, albumOf, object, mode, disk, redis, admin, uploads, excused, apart>>

(* The files but those of the given keys, in their order.                   *)
Without(files, keys) ==
  LET kept == {i \in DOMAIN files : files[i].key \notin keys}
      Nth(n) == CHOOSE i \in kept : Cardinality({j \in kept : j <= i}) = n
  IN [n \in 1..Cardinality(kept) |-> files[Nth(n)]]

(* enforceLimit removes the oldest files.                                   *)
Trimmed(files) == IF Len(files) <= Limit THEN files
                  ELSE SubSeq(files, Len(files) - Limit + 1, Len(files))

DiskSet(key, image) ==
  Trimmed(Append(Without(disk, {key}), [key |-> key, image |-> image]))

Fill(r) ==
  LET key == <<serve[r].entity, serve[r].size>> IN
  /\ serve[r].pc = "set"
  /\ \/ mode = "disk" /\ disk' = DiskSet(key, serve[r].image) /\ UNCHANGED redis
     \/ mode = "redis" /\ redis' = [redis EXCEPT ![key] = serve[r].image] /\ UNCHANGED disk
     \/ mode = "redis" /\ Faults /\ UNCHANGED <<disk, redis>>
  /\ serve' = [serve EXCEPT ![r] = Free]
  /\ UNCHANGED <<art, albumOf, object, mode, admin, uploads, excused, apart>>

(* The TTL of Redis.                                                        *)
Expire(k) ==
  /\ redis[k] # None
  /\ redis' = [redis EXCEPT ![k] = None]
  /\ UNCHANGED <<art, albumOf, object, mode, disk, serve, admin, uploads, excused, apart>>

-----------------------------------------------------------------------------
(* UploadAlbumPhoto, UploadSongPhoto, UploadCategoryPhoto and the deletions. *)

Busy(e) == {u \in Admins : admin[u].pc # "idle" /\ admin[u].entity = e}

(* The row first.  What was cached for the followers of an album stays.     *)
Write(u, e, image) ==
  /\ admin[u].pc = "idle"
  /\ art' = [art EXCEPT ![e] = image]
  /\ admin' = [v \in Admins |->
       IF v = u THEN [pc |-> IF e \in Categories THEN "object" ELSE "invalidate",
                      entity |-> e, image |-> image, alone |-> Busy(e) = {}]
       ELSE IF v \in Busy(e) THEN [admin[v] EXCEPT !.alone = FALSE] ELSE admin[v]]
  /\ excused' = [d \in Entities |-> excused[d] \/ d \in Dependents(e) \ {e}]
  /\ UNCHANGED <<albumOf, object, mode, disk, redis, serve, apart>>

Upload(u) ==
  /\ uploads < MaxUploads
  /\ uploads' = uploads + 1
  /\ \E e \in Entities \ Lists : Write(u, e, [kind |-> "custom", id |-> uploads + 1])

Delete(u) ==
  /\ UNCHANGED uploads
  /\ \E e \in Entities \ Lists : Write(u, e, None)

(* Mistake: the object of a deleted cover stays.                            *)
WrittenObjectKept(u) ==
  [object EXCEPT ![admin[u].entity] = IF admin[u].image = None THEN @ ELSE admin[u].image]

(* Put or Remove.                                                           *)
WrittenObject(u) == [object EXCEPT ![admin[u].entity] = admin[u].image]

(* The second copy of a category's cover; a failure is only logged.         *)
WriteObject(u) ==
  LET e == admin[u].entity IN
  /\ admin[u].pc = "object"
  /\ \/ object' = WrittenObject(u) /\ apart' = [apart EXCEPT ![e] = ~admin[u].alone]
     \/ Faults /\ UNCHANGED object /\ apart' = [apart EXCEPT ![e] = TRUE]
  /\ admin' = [admin EXCEPT ![u].pc = "invalidate"]
  /\ UNCHANGED <<art, albumOf, mode, disk, redis, serve, uploads, excused>>

(* Mistake: only one of the sizes is cleared.                               *)
InvalidatedOne(k, e) == k[1] = e /\ k[2] = CHOOSE z \in Sizes : TRUE

Invalidated(k, e) == k[1] = e

(* Files always; Redis only if it is the cache.  What a Serve has read before *)
(* comes back afterwards.                                                     *)
Invalidate(u) ==
  LET e == admin[u].entity
      cleared == [k \in Keys |-> IF Invalidated(k, e) THEN None ELSE redis[k]]
      inFlight == \E r \in Serves : serve[r].entity = e /\ serve[r].pc \in {"find", "cover", "set"}
      left == \E c \in InRedis : c[1][1] = e
  IN
  /\ admin[u].pc = "invalidate"
  /\ disk' = Without(disk, {k \in Keys : Invalidated(k, e)})
  /\ \/ mode = "redis" /\ redis' = cleared /\ excused' = [excused EXCEPT ![e] = inFlight]
     \/ mode = "redis" /\ Faults /\ UNCHANGED redis /\ excused' = [excused EXCEPT ![e] = TRUE]
     \/ mode = "disk" /\ UNCHANGED redis /\ excused' = [excused EXCEPT ![e] = inFlight \/ left]
  /\ admin' = [admin EXCEPT ![u] = Done]
  /\ UNCHANGED <<art, albumOf, object, mode, serve, uploads, apart>>

-----------------------------------------------------------------------------
(* The scanner, changes of albums, and the process.                         *)

Doubtful(changed) == [e \in Entities |-> excused[e] \/ e \in changed]

(* IndexFile of a file with a cover: the song is put under the album its tags     *)
(* name, and the cover becomes the song's and the album's.                        *)
IndexFile(s) ==
  /\ s \in Embedded
  /\ \E a \in Albums :
       LET cover == [kind |-> "embedded", id |-> s] IN
       /\ albumOf' = [albumOf EXCEPT ![s] = a]
       /\ art' = [art EXCEPT ![s] = cover, ![a] = cover]
       /\ excused' = Doubtful({s} \cup Dependents(a))
  /\ UNCHANGED <<object, mode, disk, redis, serve, admin, uploads, apart>>

(* UpsertSong of a file without a cover, a playlist edited or a song deleted: what *)
(* follows an album follows another, or none.                                      *)
Move(f) ==
  /\ \E a \in (Albums \cup {None}) \ {albumOf[f]} : albumOf' = [albumOf EXCEPT ![f] = a]
  /\ excused' = Doubtful({f})
  /\ UNCHANGED <<art, object, mode, disk, redis, serve, admin, uploads, apart>>

(* UpdateSongMeta with another artist: the song goes to that artist's album of the *)
(* same name, which gets a copy of the former album's cover if it has none.        *)
Rename(s) ==
  /\ albumOf[s] # None
  /\ \E b \in Albums \ {albumOf[s]} :
       /\ albumOf' = [albumOf EXCEPT ![s] = b]
       /\ art' = [art EXCEPT ![b] = Or(@, art[albumOf[s]])]
       /\ excused' = Doubtful({s} \cup IF art[b] = None THEN Dependents(b) ELSE {})
  /\ UNCHANGED <<object, mode, disk, redis, serve, admin, uploads, apart>>

(* importFolderCovers, for albums without a row.                            *)
ImportFolderCover(a) ==
  /\ a \in Folders /\ art[a] = None
  /\ art' = [art EXCEPT ![a] = [kind |-> "folder", id |-> a]]
  /\ excused' = Doubtful(Dependents(a))
  /\ UNCHANGED <<albumOf, object, mode, disk, redis, serve, admin, uploads, apart>>

(* The process ends with its requests; New picks the cache again.           *)
Restart ==
  /\ Restarts
  /\ mode' \in IF RedisUsed THEN {"disk", "redis"} ELSE {"disk"}
  /\ serve' = [r \in Serves |-> Free]
  /\ admin' = [u \in Admins |-> Done]
  /\ excused' = [e \in Entities |-> excused[e] \/ Busy(e) # {}]
  /\ apart' = [c \in Categories |-> apart[c] \/ \E u \in Busy(c) : admin[u].pc = "object"]
  /\ UNCHANGED <<art, albumOf, object, disk, redis, uploads>>

-----------------------------------------------------------------------------
Init ==
  /\ art = [e \in Entities |-> None]
  /\ albumOf = [f \in Followers |-> None]
  /\ object = [c \in Categories |-> None]
  /\ mode \in IF RedisUsed THEN {"disk", "redis"} ELSE {"disk"}
  /\ disk = <<>>
  /\ redis = [k \in Keys |-> None]
  /\ serve = [r \in Serves |-> Free]
  /\ admin = [u \in Admins |-> Done]
  /\ uploads = 0
  /\ excused = [e \in Entities |-> FALSE]
  /\ apart = [c \in Categories |-> FALSE]

Next ==
  \/ \E r \in Serves : \/ Miss(r) \/ ReadOwn(r) \/ FindAlbum(r) \/ ReadCover(r)
                       \/ ResolveFails(r) \/ Fill(r)
  \/ \E u \in Admins : Upload(u) \/ Delete(u) \/ WriteObject(u) \/ Invalidate(u)
  \/ \E k \in Keys : Expire(k)
  \/ \E s \in Songs : IndexFile(s) \/ Rename(s)
  \/ \E f \in Followers : Move(f)
  \/ \E a \in Albums : ImportFolderCover(a)
  \/ Restart

Spec == Init /\ [][Next]_vars

-----------------------------------------------------------------------------
(* Properties.                                                              *)

(* Types; a file name appears once in the directory, which keeps its limit. *)
TypeOK ==
  /\ art \in [Entities -> Picture \cup {None}]
  /\ albumOf \in [Followers -> Albums \cup {None}]
  /\ object \in [Categories -> Picture \cup {None}]
  /\ mode \in {"disk", "redis"} /\ uploads \in 0..MaxUploads
  /\ Len(disk) <= Limit
  /\ \A i \in DOMAIN disk :
       /\ disk[i] \in [key : Keys, image : Image]
       /\ \A j \in DOMAIN disk : disk[i].key = disk[j].key => i = j
  /\ redis \in [Keys -> Image \cup {None}]
  /\ serve \in [Serves -> [pc : {"idle", "own", "find", "cover", "set"},
                           entity : Entities \cup {None}, size : Sizes \cup {None},
                           album : Albums \cup {None}, image : Image \cup {None}]]
  /\ admin \in [Admins -> [pc : {"idle", "object", "invalidate"}, entity : Entities \cup {None},
                           image : Custom \cup {None}, alone : BOOLEAN]]
  /\ excused \in [Entities -> BOOLEAN] /\ apart \in [Categories -> BOOLEAN]

(* A copy of any size is the picture the rows and objects give, unless one of   *)
(* the causes that excused names has come up since the entity was last          *)
(* invalidated: a Serve that overlapped the upload, a failed Redis or bucket    *)
(* call, a failed look-up of the album to fall back to (swallowed by resolve),  *)
(* a crash before the invalidation, copies left in Redis while files were used, *)
(* a scan, a change of album, or a change of the album's own picture.           *)
StaleOnlyIfExcused ==
  \A c \in Cached : LET e == c[1][1] IN c[2] = Resolved(e) \/ excused[e] \/ Busy(e) # {}

(* The row and the object of a category are the same picture, or both absent, *)
(* after uploads and deletions that did not overlap, fail or crash.           *)
CoversAgreeUnlessApart ==
  \A c \in Categories : Busy(c) = {} => art[c] = object[c] \/ apart[c]

(* Types, and the two copies of a category's cover.                         *)
Sound == TypeOK /\ CoversAgreeUnlessApart

(* "every cached size is invalidated so the new photo shows immediately" (the *)
(* comment on UploadAlbumPhoto): once the upload is answered no cached copy   *)
(* of the album is another picture.                                           *)
UploadShows ==
  \A a \in Albums : Busy(a) = {} /\ art[a] \in Custom =>
    \A c \in Cached : c[1][1] = a => c[2] = art[a]

(* "clears every cached size (disk + redis) for an entity" (the comment on  *)
(* invalidate).                                                             *)
ClearsDiskAndRedis ==
  [][\A u \in Admins :
       Invalidate(u) => \A c \in (OnDisk \cup InRedis)' : c[1][1] # admin[u].entity]_vars

(* "removes a custom photo, restoring the embedded cover" (the comment on   *)
(* DeleteAlbumPhoto): if a song of the album has its embedded cover, so has *)
(* the album.                                                               *)
DeleteRestoresEmbedded ==
  [][\A a \in Albums :
       art[a] \in Custom /\ art'[a] \notin Custom
         /\ (\E s \in Songs : albumOf[s] = a /\ art[s] # None /\ art[s].kind = "embedded")
       => Resolved(a)' # Placeholder /\ Resolved(a)'.kind = "embedded"]_vars

(* "a custom photo for a song, overriding the album/embedded fallback" (the    *)
(* comment on UploadSongPhoto): only the administrator changes a custom photo. *)
CustomPhotoStays ==
  [][admin' = admin => \A e \in Entities : art[e] \in Custom => art'[e] = art[e]]_vars

(* "saved to both ..., so either storage can recover the other" (the comment on *)
(* UploadCategoryPhoto): between requests the two hold the same cover.          *)
CoversAgree == \A c \in Categories : Busy(c) = {} => art[c] = object[c]

=============================================================================
