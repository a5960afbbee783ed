-------------------------------- MODULE Library --------------------------------
(*******************************************************************************)
(* Albums and artists: indexAudio (internal/scanner/scanner.go) finds or       *)
(* creates the rows a song refers to, one statement at a time, while the       *)
(* transactions of UpdateSongMeta and DeleteMissing (internal/store/songs.go)  *)
(* rename a song and delete what no song refers to.                            *)
(*                                                                             *)
(* PostgreSQL at READ COMMITTED: a statement sees what was committed before it *)
(* began and waits for rows others have changed or deleted.  The rows a DELETE *)
(* found are deleted even if a song came to refer to them meanwhile: the       *)
(* foreign keys of songs then become NULL, and albums.artist_id has none.      *)
(* A name stands for all its spellings in other letters, years are left out.   *)
(*******************************************************************************)
EXTENDS Naturals

CONSTANTS
  Paths,
  Names,      \* of artists
  Titles,     \* of albums
  Tags,       \* what files may say: [title, artist, albumArtist]
  Ids,        \* of artists, and of albums
  Begun,      \* libraries to begin with, if sound: [artists, albums, songs]
  Workers,    \* files indexed at a time
  MaxFiles, MaxRenames, MaxPrunes, MaxFaults,   \* bounds: how many of each begin
  None,
  Ghost       \* an id drawn for a row that was never inserted

LibraryAssumption ==
  /\ {MaxFiles, MaxRenames, MaxPrunes, MaxFaults} \subseteq Nat
  /\ None \notin Names \cup Titles \cup Ids \cup Paths /\ Ghost \notin Ids \cup {None}
  /\ Tags \subseteq [title : Titles, artist : Names \cup {None}, albumArtist : Names \cup {None}]

VARIABLES
  artists,   \* artists[i]: the name of a row
  albums,    \* albums[i]: title, artist's name, artist's id
  songs,     \* songs[p]: artist's name, artist's id, title of the album, its id
  ix,        \* ix[w]: a file being indexed
  meta,      \* the transaction of UpdateSongMeta
  prune,     \* the transaction of DeleteMissing
  written,   \* the songs, and None for other rows, that others wrote since it began
  left       \* what may still begin

vars == <<artists, albums, songs, ix, meta, prune, written, left>>

Absent == [title |-> None, by |-> None, artist |-> None, album |-> None]

NoIndex == [at |-> "idle", path |-> None, tags |-> None, artist |-> None, own |-> None,
            album |-> None]
NoMeta == [at |-> "idle", path |-> None, by |-> None, artist |-> None, album |-> None]
NoPrune == [at |-> "idle", seen |-> {}, songs |-> {}, albums |-> {}, artists |-> {}]

Artists == {i \in Ids : artists[i] # None}
Albums == {i \in Ids : albums[i].title # None}
Present == {p \in Paths : songs[p].title # None}
Named(n) == {i \in Artists : artists[i] = n}
Titled(t, n) == {i \in Albums : albums[i].title = t /\ albums[i].by = n}

(* No row and nobody has seen a new id.                                     *)
NewArtist == Artists \cup {meta.artist} \cup {albums[i].artist : i \in Ids}
               \cup UNION {{ix[w].artist, ix[w].own} : w \in Workers}
NewAlbum == Albums \cup {meta.album} \cup {ix[w].album : w \in Workers}
Noted(row) == IF prune.at = "idle" THEN {} ELSE written \cup {row}

Fresh(used) == IF Ids \subseteq used THEN {} ELSE {CHOOSE i \in Ids : i \notin used}

Fault == left.faults > 0 /\ left' = [left EXCEPT !.faults = @ - 1]

-----------------------------------------------------------------------------
(* Rows that a transaction in progress has changed.                         *)

HeldArtist(n) == (meta.at \in {"album", "song"} /\ meta.by = n)
                   \/ \E i \in prune.artists : artists[i] = n
HeldAlbum(t, n) ==
  \/ meta.at = "song" /\ songs[meta.path].title = t /\ meta.by = n
  \/ \E i \in prune.albums : albums[i].title = t /\ albums[i].by = n
Nulled(p) == songs[p].album \in prune.albums \/ songs[p].artist \in prune.artists
HeldSong(p) == meta.path = p \/ p \in prune.songs \/ Nulled(p)

-----------------------------------------------------------------------------
(* indexAudio.                                                              *)

AlbumArtist(tags) == IF tags.albumArtist # None THEN tags.albumArtist ELSE tags.artist
SongArtist(tags) == IF tags.artist # None THEN tags.artist ELSE tags.albumArtist

AfterAlbum(tags) ==
  IF tags.artist \notin {None, AlbumArtist(tags)} THEN "own" ELSE "song"

Index(w, p, tags) ==
  /\ ix[w].at = "idle" /\ left.files > 0
  /\ left' = [left EXCEPT !.files = @ - 1]
  /\ ix' = [ix EXCEPT ![w] =
       [NoIndex EXCEPT !.at = IF AlbumArtist(tags) # None THEN "artist" ELSE "album",
                       !.path = p, !.tags = tags]]
  /\ UNCHANGED <<artists, albums, songs, meta, prune, written>>

(* The two calls of GetOrCreateArtist, for the album's and for the song's own. *)
Asked(w) == IF ix[w].at \in {"artist", "artist select"} THEN AlbumArtist(ix[w].tags)
                                                       ELSE ix[w].tags.artist
Answered(w, i) ==
  IF ix[w].at \in {"artist", "artist select"}
  THEN [ix[w] EXCEPT !.at = "album", !.artist = i, !.own = i]
  ELSE [ix[w] EXCEPT !.at = "song", !.own = i]

InsertArtist(w) ==
  /\ ix[w].at \in {"artist", "own"} /\ ~HeldArtist(Asked(w))
  /\ IF Named(Asked(w)) = {}
     THEN \E i \in Fresh(NewArtist) :
            /\ artists' = [artists EXCEPT ![i] = Asked(w)]
            /\ ix' = [ix EXCEPT ![w] = Answered(w, i)]
            /\ written' = Noted(None)
     ELSE /\ ix' = [ix EXCEPT ![w].at = IF @ = "artist" THEN "artist select" ELSE "own select"]
          /\ UNCHANGED <<artists, written>>
  /\ UNCHANGED <<albums, songs, meta, prune, left>>

SelectArtist(w) ==
  /\ ix[w].at \in {"artist select", "own select"}
  /\ \E i \in Named(Asked(w)) : ix' = [ix EXCEPT ![w] = Answered(w, i)]
  /\ UNCHANGED <<artists, albums, songs, meta, prune, written, left>>

(* An error (a deadlock with DeleteMissing too), or no row any more: the    *)
(* album's artist becomes the id drawn, and for the song's own the album's  *)
(* stays.                                                                   *)
ArtistFails(w) ==
  /\ ix[w].at \in {"artist", "artist select", "own", "own select"}
  /\ IF ix[w].at \in {"artist select", "own select"} /\ Named(Asked(w)) = {}
     THEN UNCHANGED left
     ELSE Fault
  /\ ix' = [ix EXCEPT ![w] = Answered(w, IF @.at \in {"artist", "artist select"} THEN Ghost
                                                                                ELSE @.own)]
  /\ UNCHANGED <<artists, albums, songs, meta, prune, written>>

(* Mistake: the conflict is not looked for.                                 *)
MatchNone(t, n) == {}

(* ON CONFLICT (lower(name), lower(artist)).                                *)
Match(t, n) == Titled(t, n)

(* GetOrCreateAlbum: the row's id, and its artist_id unless it has to stay. *)
UpsertAlbum(w) ==
  LET x == ix[w]
      n == AlbumArtist(x.tags)
      found == Match(x.tags.title, n)
  IN /\ x.at = "album" /\ ~HeldAlbum(x.tags.title, n)
     /\ \E i \in IF found # {} THEN found ELSE Fresh(NewAlbum) :
          /\ albums' = [albums EXCEPT ![i] =
               [@ EXCEPT !.title = x.tags.title, !.by = n,
                         !.artist = IF x.artist # None THEN x.artist ELSE albums[i].artist]]
          /\ ix' = [ix EXCEPT ![w].at = AfterAlbum(x.tags), ![w].album = i]
          /\ written' = Noted(None)
     /\ UNCHANGED <<artists, songs, meta, prune, left>>

(* The error is only logged, and the id drawn is used.                      *)
AlbumFails(w) ==
  /\ ix[w].at = "album"
  /\ Fault
  /\ ix' = [ix EXCEPT ![w].at = AfterAlbum(ix[w].tags), ![w].album = Ghost]
  /\ UNCHANGED <<artists, albums, songs, meta, prune, written>>

(* Mistake: no foreign keys.                                                *)
NoReferences(artist, album) == TRUE

(* The foreign keys of songs; a row deleted but not committed is waited for. *)
References(artist, album) ==
  artist \in (Artists \ prune.artists) \cup {None} /\ album \in Albums \ prune.albums

(* UpsertSong.                                                              *)
UpsertSong(w) ==
  LET x == ix[w]
  IN /\ x.at = "song" /\ ~HeldSong(x.path) /\ References(x.own, x.album)
     /\ songs' = [songs EXCEPT ![x.path] =
          [title |-> x.tags.title, by |-> SongArtist(x.tags), artist |-> x.own, album |-> x.album]]
     /\ ix' = [ix EXCEPT ![w] = NoIndex]
     /\ written' = Noted(x.path)
     /\ UNCHANGED <<artists, albums, meta, prune, left>>

SongFails(w) ==
  /\ ix[w].at = "song"
  /\ IF References(ix[w].own, ix[w].album) THEN Fault ELSE UNCHANGED left
  /\ ix' = [ix EXCEPT ![w] = NoIndex]
  /\ UNCHANGED <<artists, albums, songs, meta, prune, written>>

-----------------------------------------------------------------------------
(* UpdateSongMeta with an artist; without one it changes nothing here.      *)

MetaBegin(p, n) ==
  /\ left.renames > 0 /\ left' = [left EXCEPT !.renames = @ - 1]
  /\ meta.at = "idle" /\ p \in Present /\ ~HeldSong(p)
  /\ meta' = [NoMeta EXCEPT !.at = "artist", !.path = p, !.by = n]
  /\ UNCHANGED <<artists, albums, songs, ix, prune, written>>

(* INSERT ... ON CONFLICT DO UPDATE holds the row until the end.            *)
MetaArtist ==
  /\ meta.at = "artist" /\ ~HeldArtist(meta.by)
  /\ \E i \in IF Named(meta.by) # {} THEN Named(meta.by) ELSE Fresh(NewArtist) :
       meta' = [meta EXCEPT !.at = "album", !.artist = i]
  /\ UNCHANGED <<artists, albums, songs, ix, prune, written, left>>

MetaAlbum ==
  LET found == Titled(songs[meta.path].title, meta.by)
  IN /\ meta.at = "album" /\ ~HeldAlbum(songs[meta.path].title, meta.by)
     /\ \E i \in IF found # {} THEN found ELSE Fresh(NewAlbum) :
          meta' = [meta EXCEPT !.at = "song", !.album = i]
     /\ UNCHANGED <<artists, albums, songs, ix, prune, written, left>>

(* Mistake: the song's artist_id stays.                                     *)
RenamedNameOnly(song) == [song EXCEPT !.by = meta.by, !.album = meta.album]

Renamed(song) == [song EXCEPT !.by = meta.by, !.artist = meta.artist, !.album = meta.album]

MetaCommit ==
  /\ meta.at = "song"
  /\ artists' = [artists EXCEPT ![meta.artist] = meta.by]
  /\ albums' = [albums EXCEPT ![meta.album] =
       [@ EXCEPT !.title = songs[meta.path].title, !.by = meta.by, !.artist = meta.artist]]
  /\ songs' = [songs EXCEPT ![meta.path] = Renamed(@)]
  /\ written' = Noted(meta.path)
  /\ meta' = NoMeta
  /\ UNCHANGED <<ix, prune, left>>

MetaFails ==
  /\ meta.at # "idle"
  /\ Fault
  /\ meta' = NoMeta
  /\ UNCHANGED <<artists, albums, songs, ix, prune, written>>

-----------------------------------------------------------------------------
(* DeleteMissing.                                                           *)

Kept == Present \ prune.songs

(* Mistake: the albums of the songs that were deleted.                      *)
AlbumsOfDeleted == {i \in Albums : \E p \in prune.songs : songs[p].album = i}

OrphanAlbums == {i \in Albums : ~ \E p \in Kept : songs[p].album = i}

(* Mistake: an artist only has songs.                                       *)
ArtistsWithoutSong == {i \in Artists : ~ \E p \in Kept : songs[p].artist = i}

(* Mistake: artists before albums.                                          *)
ArtistsFirst ==
  {i \in Artists : /\ ~ \E p \in Kept : songs[p].artist = i
                   /\ ~ \E a \in Albums : albums[a].artist = i}

OrphanArtists ==
  {i \in Artists : /\ ~ \E p \in Kept : songs[p].artist = i
                   /\ ~ \E a \in Albums \ prune.albums : albums[a].artist = i}

DeleteSongs(keep) ==
  /\ left.prunes > 0 /\ left' = [left EXCEPT !.prunes = @ - 1]
  /\ prune.at = "idle" /\ meta.path \in keep \cup {None}
  /\ prune' = [NoPrune EXCEPT !.at = "albums", !.songs = Present \ keep]
  /\ written' = {}
  /\ UNCHANGED <<artists, albums, songs, ix, meta>>

SeeAlbums ==
  /\ prune.at = "albums"
  /\ prune' = [prune EXCEPT !.at = "delete albums", !.seen = OrphanAlbums]
  /\ UNCHANGED <<artists, albums, songs, ix, meta, written, left>>

DeleteAlbums ==
  /\ prune.at = "delete albums"
  /\ meta.album \notin prune.seen
  /\ meta.path # None => songs[meta.path].album \notin prune.seen
  /\ prune' = [prune EXCEPT !.at = "artists", !.albums = prune.seen, !.seen = {}]
  /\ UNCHANGED <<artists, albums, songs, ix, meta, written, left>>

SeeArtists ==
  /\ prune.at = "artists"
  /\ prune' = [prune EXCEPT !.at = "delete artists", !.seen = OrphanArtists]
  /\ UNCHANGED <<artists, albums, songs, ix, meta, written, left>>

DeleteArtists ==
  /\ prune.at = "delete artists"
  /\ meta.artist \notin prune.seen
  /\ meta.path # None => songs[meta.path].artist \notin prune.seen
  /\ prune' = [prune EXCEPT !.at = "commit", !.artists = prune.seen, !.seen = {}]
  /\ UNCHANGED <<artists, albums, songs, ix, meta, written, left>>

PruneCommit ==
  /\ prune.at = "commit"
  /\ artists' = [i \in Ids |-> IF i \in prune.artists THEN None ELSE artists[i]]
  /\ albums' = [i \in Ids |-> IF i \in prune.albums THEN Absent ELSE albums[i]]
  /\ songs' = [p \in Paths |->
       IF p \in prune.songs THEN Absent
       ELSE [songs[p] EXCEPT !.artist = IF @ \in prune.artists THEN None ELSE @,
                             !.album = IF @ \in prune.albums THEN None ELSE @]]
  /\ prune' = NoPrune /\ written' = {}
  /\ UNCHANGED <<ix, meta, left>>

PruneFails ==
  /\ prune.at # "idle"
  /\ Fault
  /\ prune' = NoPrune /\ written' = {}
  /\ UNCHANGED <<artists, albums, songs, ix, meta>>

-----------------------------------------------------------------------------
(* What is kept of the rows.                                                *)

AlbumRow == [title : Titles, by : Names \cup {None}, artist : Ids \cup {Ghost, None},
             album : {None}]
SongRow == [title : Titles, by : Names \cup {None}, artist : Artists \cup {None},
            album : Albums \cup {None}]

TypeOK ==
  /\ artists \in [Ids -> Names \cup {None}]
  /\ albums \in [Ids -> AlbumRow \cup {Absent}]
  /\ songs \in [Paths -> SongRow \cup {Absent}]

(* One artist of a name, one album of a title and an artist (the indexes on   *)
(* lower(name) and lower(name), lower(artist)), whoever created it and again. *)
OneRowEach ==
  /\ \A i, j \in Artists : artists[i] = artists[j] => i = j
  /\ \A i, j \in Albums :
       albums[i].title = albums[j].title /\ albums[i].by = albums[j].by => i = j

(* What a song and an album say in words and in ids agrees: an album's artist, if *)
(* there, has its name, a song's album its title, and a song's artist its name or *)
(* that of the album's artist.                                                    *)
NamesAgree ==
  /\ \A i \in Albums : albums[i].artist \in Artists => artists[albums[i].artist] = albums[i].by
  /\ \A p \in Present : songs[p].album # None =>
       /\ albums[songs[p].album].title = songs[p].title
       /\ songs[p].artist # None => artists[songs[p].artist] \in {songs[p].by, albums[songs[p].album].by}

(* The rows of the catalogue are of their types, unique, and say one thing. *)
Sound == TypeOK /\ OneRowEach /\ NamesAgree

-----------------------------------------------------------------------------
(* The migration leaves no row; a process begins with what others left.     *)
Init ==
  /\ \E l \in Begun : artists = l.artists /\ albums = l.albums /\ songs = l.songs
  /\ Sound
  /\ ix = [w \in Workers |-> NoIndex]
  /\ meta = NoMeta /\ prune = NoPrune /\ written = {}
  /\ left = [files |-> MaxFiles, renames |-> MaxRenames, prunes |-> MaxPrunes,
              faults |-> MaxFaults]

Indexing(w) ==
  \/ InsertArtist(w) \/ SelectArtist(w) \/ ArtistFails(w)
  \/ UpsertAlbum(w) \/ AlbumFails(w) \/ UpsertSong(w) \/ SongFails(w)

Next ==
  \/ \E w \in Workers : Indexing(w) \/ \E p \in Paths, tags \in Tags : Index(w, p, tags)
  \/ \E p \in Paths, n \in Names : MetaBegin(p, n)
  \/ MetaArtist \/ MetaAlbum \/ MetaCommit \/ MetaFails
  \/ \E keep \in SUBSET Paths : DeleteSongs(keep)
  \/ SeeAlbums \/ DeleteAlbums \/ SeeArtists \/ DeleteArtists \/ PruneCommit \/ PruneFails

Spec == Init /\ [][Next]_vars

-----------------------------------------------------------------------------
(* Properties.                                                              *)

(* DeleteMissing takes the album or the artist only from songs that were    *)
(* written while it ran.                                                    *)
KeepsAlbums ==
  [][PruneCommit => \A p \in Present \cap Present' :
       songs[p].album # songs'[p].album \/ songs[p].artist # songs'[p].artist => p \in written]_vars

(* A DeleteMissing that met no other write leaves every album a song and every *)
(* artist a song or an album ("removes songs whose path is no longer in the    *)
(* bucket, plus orphaned albums, artists and likes").                          *)
PrunesOrphans ==
  [][PruneCommit /\ written = {} =>
       /\ \A i \in Albums' : /\ \E p \in Present' : songs'[p].album = i
                             /\ albums[i].artist \in Artists => albums[i].artist \in Artists'
       /\ \A i \in Artists' : \/ \E p \in Present' : songs'[p].artist = i
                              \/ \E a \in Albums' : albums'[a].artist = i]_vars

(* The artist an album names by id exists (GetOrCreateArtist "resolves a name to *)
(* an artist id, creating it if needed").                                        *)
AlbumArtistsExist == \A i \in Albums : albums[i].artist \in Artists \cup {None}

=============================================================================
