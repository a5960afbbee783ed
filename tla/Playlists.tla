------------------------------ MODULE Playlists ------------------------------
(******************************************************************************)
(* The playlists of one user (store/playlists.go).  The order of a playlist   *)
(* is a position in each of its rows, with no constraint on it: adding,       *)
(* removing and reordering read positions in one statement and write them in  *)
(* later ones, and two devices of the user do so at the same time.            *)
(*                                                                            *)
(* Transactions are PostgreSQL's READ COMMITTED: a query sees what others     *)
(* have committed and the transaction's own writes; an UPDATE or DELETE locks *)
(* its row until the end and waits for another's lock; a cycle of waiting     *)
(* transactions loses a victim.                                               *)
(*                                                                            *)
(* The songs and the user's grants change beside them: a song may be pruned,  *)
(* which takes its entries along, or be hidden from the user and shown again. *)
(******************************************************************************)
EXTENDS Integers, FiniteSets, SequencesExt

CONSTANTS
  Lists, Entries,  \* ids of playlists and of their rows (see FreshList)
  Songs,
  Requests,        \* requests in flight
  File,            \* the songs an .m3u file of the bucket names
  Hideable,        \* bound: the songs that are hidden from the user and shown again
  MaxAdd,          \* bound: songs added by one request
  MaxPosition,     \* bound: positions, which grow as long as no edit renumbers them
  None

ASSUME PlaylistsAssumption ==
  /\ IsFiniteSet(Entries) /\ IsFiniteSet(Requests)
  /\ File \in Seq(Songs) /\ Hideable \subseteq Songs
  /\ MaxAdd \in Nat \ {0} /\ MaxPosition \in Nat
  /\ None \notin Lists \cup Entries \cup Songs \cup Requests \cup {"user", "file"}

VARIABLES
  lists,    \* lists[l]: None, or who made l: the user, or an import of File
  row,      \* row[e]: committed row e of playlist_tracks
  songs,    \* the songs of the catalog
  granted,  \* the songs the user may see
  tx,       \* tx[r]: the locals of request r
  lock,     \* lock[e]: the transaction that has written row e
  alone     \* alone[r]: neither tx[r].list nor the grants have changed since r read it

vars == <<lists, row, songs, granted, tx, lock, alone>>

Row == [list : Lists \cup {None}, song : Songs \cup {None}, position : Nat]

NoRow == [list |-> None, song |-> None, position |-> 0]

Tx == [pc : {"idle", "create", "start", "insert", "delete", "read", "update"},
       op : {"none", "create", "add", "remove", "reorder"},
       list : Lists \cup {None}, entry : Entries \cup {None}, songs : Seq(Songs),
       from : Nat, to : Nat, start : Nat, ids : Seq(Entries), i : Nat]

Idle == [pc |-> "idle", op |-> "none", list |-> None, entry |-> None, songs |-> <<>>,
         from |-> 0, to |-> 0, start |-> 0, ids |-> <<>>, i |-> 0]

Live == {e \in Entries : row[e].list # None}
Tracks(l) == {e \in Live : row[e].list = l}
Visible(l) == {e \in Tracks(l) : row[e].song \in granted}
Existing == {l \in Lists : lists[l] # None}

(* ORDER BY position leaves the order of equal positions open.              *)
Ordered(S) ==
  {s \in [1..Cardinality(S) -> S] :
     \A i, j \in DOMAIN s : i < j => s[i] # s[j] /\ row[s[i]].position <= row[s[j]].position}

Index(s, e) == CHOOSE i \in DOMAIN s : s[i] = e

Distinct(s) == \A i, j \in DOMAIN s : i # j => s[i] # s[j]

(* newID never draws an id twice; an id of the model may be drawn again when *)
(* no request refers to it.                                                  *)
FreshLists == {l \in Lists : lists[l] = None /\ \A r \in Requests : tx[r].list # l}
FreshIds(n) ==
  LET used == Live \cup {tx[r].entry : r \in Requests}
                   \cup UNION {Range(tx[r].ids) : r \in Requests}
  IN {s \in [1..n -> Entries \ used] : Distinct(s)}

(* insertPlaylistTracks: one row for each song, positions from start on.    *)
WithRows(l, ids, tracks, start) ==
  [e \in Entries |-> IF \E i \in DOMAIN ids : ids[i] = e
                     THEN LET i == Index(ids, e) IN
                          [list |-> l, song |-> tracks[i], position |-> start + i - 1]
                     ELSE row[e]]

-----------------------------------------------------------------------------
(* Transactions.                                                            *)

Begin(r, t) ==
  /\ tx[r].pc = "idle"
  /\ tx' = [tx EXCEPT ![r] = t]
  /\ UNCHANGED <<lists, row, songs, granted, lock, alone>>

(* dbTx ends every transaction, by Commit or by the deferred Rollback.      *)
LocksReleased(r) == [e \in Entries |-> IF lock[e] = r THEN None ELSE lock[e]]

Touched(L) == alone' = [r \in Requests |-> alone[r] /\ tx'[r].list \notin L \cup {None}]

Rollback(r) ==
  /\ tx' = [tx EXCEPT ![r] = Idle]
  /\ lock' = LocksReleased(r)
  /\ Touched({})
  /\ UNCHANGED <<lists, row, songs, granted>>

Commit(r, rows) ==
  /\ row' = rows
  /\ tx' = [tx EXCEPT ![r] = Idle]
  /\ lock' = LocksReleased(r)
  /\ Touched({tx[r].list})
  /\ UNCHANGED <<lists, songs, granted>>

Holder(r) ==
  IF tx[r].pc = "delete" THEN lock[tx[r].entry]
  ELSE IF tx[r].pc = "update" /\ tx[r].i <= Len(tx[r].ids)
       THEN lock[tx[r].ids[tx[r].i]] ELSE None

Waits(r) == Holder(r) \notin {None, r}

(* r waits, through any number of others, for itself.                       *)
InCycle(r) ==
  LET chain[n \in 0..Cardinality(Requests)] ==
        IF n = 0 THEN r
        ELSE IF chain[n - 1] # None /\ Waits(chain[n - 1]) THEN Holder(chain[n - 1]) ELSE None
  IN \E n \in 1..Cardinality(Requests) : chain[n] = r

DeadlockVictim(r) == Waits(r) /\ InCycle(r) /\ Rollback(r)

(* The device goes away, or a database call fails.                          *)
Abandon(r) == tx[r].pc # "idle" /\ Rollback(r)

-----------------------------------------------------------------------------
(* CreatePlaylist, AddPlaylistTracks, ImportPlaylist, DeletePlaylist.       *)

(* validateSongAccess.  It only refuses, and only now: a song that is pruned *)
(* afterwards is caught by its foreign key.  Its count also refuses a song   *)
(* given twice.                                                              *)
Allowed(n) == {s \in [1..n -> songs \cap granted] : Distinct(s)}

CheckCreate(r) ==
  \E n \in 0..MaxAdd : \E s \in Allowed(n) :
    Begin(r, [Idle EXCEPT !.pc = "create", !.op = "create", !.songs = s])

(* A playlist no one else has seen; without a free id the insert fails (bound). *)
NewList(l, origin, tracks) ==
  \E ids \in FreshIds(Len(tracks)) :
    /\ lists' = [lists EXCEPT ![l] = origin]
    /\ row' = WithRows(l, ids, tracks, 0)

CreateList(r) ==
  /\ tx[r].pc = "create"
  /\ \/ /\ Range(tx[r].songs) \subseteq songs
        /\ \E l \in FreshLists : NewList(l, "user", tx[r].songs)
        /\ tx' = [tx EXCEPT ![r] = Idle]
        /\ UNCHANGED <<songs, granted, lock, alone>>
     \/ /\ \/ ~ Range(tx[r].songs) \subseteq songs
           \/ FreshLists = {} \/ FreshIds(Len(tx[r].songs)) = {}
        /\ Rollback(r)

(* importM3U, at every scan.  ON CONFLICT finds no conflict, the id being the *)
(* only key of the table: the branch that would replace an earlier playlist   *)
(* is never taken.                                                            *)
Import ==
  LET known == {i \in DOMAIN File : File[i] \in songs} IN
  /\ \E at \in [1..Cardinality(known) -> known], l \in FreshLists :
       /\ \A i, j \in DOMAIN at : i < j => at[i] < at[j]
       /\ NewList(l, "file", [i \in DOMAIN at |-> File[at[i]]])
  /\ UNCHANGED <<songs, granted, tx, lock, alone>>

(* playlistOwned and validateSongAccess.                                    *)
CheckAdd(r) ==
  \E l \in Existing : \E n \in 1..MaxAdd : \E s \in Allowed(n) :
    Begin(r, [Idle EXCEPT !.pc = "start", !.op = "add", !.list = l, !.songs = s])

(* Mistake: the number of tracks instead of the last position.              *)
StartCounted(l) == Cardinality(Tracks(l))

StartOf(l) ==
  IF Tracks(l) = {} THEN 0 ELSE Max({row[e].position : e \in Tracks(l)}) + 1

ReadStart(r) ==
  LET start == StartOf(tx[r].list) IN
  /\ tx[r].pc = "start"
  /\ IF start + Len(tx[r].songs) <= MaxPosition + 1
     THEN /\ tx' = [tx EXCEPT ![r].start = start, ![r].pc = "insert"]
          /\ alone' = [alone EXCEPT ![r] = TRUE]
          /\ UNCHANGED <<lists, row, songs, granted, lock>>
     ELSE Rollback(r)

(* Nobody sees or waits for the new rows before the commit, except who would *)
(* delete the playlist or a song, who comes after it then.                   *)
InsertTracks(r) ==
  LET exist == lists[tx[r].list] # None /\ Range(tx[r].songs) \subseteq songs
      fresh == FreshIds(Len(tx[r].songs))
  IN
  /\ tx[r].pc = "insert"
  /\ \/ /\ exist
        /\ \E ids \in fresh : Commit(r, WithRows(tx[r].list, ids, tx[r].songs, tx[r].start))
     \/ (~exist \/ fresh = {}) /\ Rollback(r)

(* A cascade waits for the rows that others have written.                   *)
Cascade(S) ==
  /\ \A e \in S : lock[e] = None
  /\ row' = [e \in Entries |-> IF e \in S THEN NoRow ELSE row[e]]
  /\ Touched({row[e].list : e \in S})

DeletePlaylist(l) ==
  /\ lists[l] # None
  /\ lists' = [lists EXCEPT ![l] = None]
  /\ UNCHANGED <<songs, granted, tx, lock>>
  /\ Cascade(Tracks(l))

-----------------------------------------------------------------------------
(* RemovePlaylistTrack and ReorderPlaylistTracks.                           *)

AskRemove(r) ==
  \E l \in Existing : \E e \in Tracks(l) :
    Begin(r, [Idle EXCEPT !.pc = "delete", !.op = "remove", !.list = l, !.entry = e])

DeleteTrack(r) ==
  LET e == tx[r].entry IN
  /\ tx[r].pc = "delete" /\ lock[e] = None
  /\ IF e \in Tracks(tx[r].list)
     THEN /\ lock' = [lock EXCEPT ![e] = r]
          /\ tx' = [tx EXCEPT ![r].pc = "read"]
          /\ UNCHANGED <<lists, row, songs, granted, alone>>
     ELSE Rollback(r)

(* The device takes the indices from what it shows.                         *)
CheckReorder(r) ==
  \E l \in Existing : \E from, to \in 0..(Cardinality(Visible(l)) - 1) :
    Begin(r, [Idle EXCEPT !.pc = "read", !.op = "reorder", !.list = l, !.from = from, !.to = to])

(* Mistake: the target counts the track that is moved as well.              *)
MovedOff(s, from, to) ==
  LET rest == SubSeq(s, 1, from) \o SubSeq(s, from + 2, Len(s))
      at == IF to > from THEN to - 1 ELSE to
  IN SubSeq(rest, 1, at) \o <<s[from + 1]>> \o SubSeq(rest, at + 1, Len(rest))

(* Indices count from 0.                                                    *)
Moved(s, from, to) ==
  LET rest == SubSeq(s, 1, from) \o SubSeq(s, from + 2, Len(s))
  IN SubSeq(rest, 1, to) \o <<s[from + 1]>> \o SubSeq(rest, to + 1, Len(rest))

ReadIds(r) ==
  /\ tx[r].pc = "read"
  /\ \E ids \in Ordered(Tracks(tx[r].list) \ {tx[r].entry}) :
       IF tx[r].op = "remove"
       THEN /\ tx' = [tx EXCEPT ![r].ids = ids, ![r].i = 1, ![r].pc = "update"]
            /\ alone' = [alone EXCEPT ![r] = TRUE]
            /\ UNCHANGED <<lists, row, songs, granted, lock>>
       ELSE IF tx[r].from < Len(ids) /\ tx[r].to < Len(ids)
            THEN /\ tx' = [tx EXCEPT ![r].ids = Moved(ids, tx[r].from, tx[r].to),
                                     ![r].i = 1, ![r].pc = "update"]
                 /\ alone' = [alone EXCEPT ![r] = TRUE]
                 /\ UNCHANGED <<lists, row, songs, granted, lock>>
            ELSE Rollback(r)

(* UPDATE ... WHERE id finds no row if it was deleted meanwhile.            *)
UpdatePosition(r) ==
  /\ tx[r].pc = "update" /\ tx[r].i <= Len(tx[r].ids) /\ ~Waits(r)
  /\ LET e == tx[r].ids[tx[r].i] IN
       lock' = IF e \in Live THEN [lock EXCEPT ![e] = r] ELSE lock
  /\ tx' = [tx EXCEPT ![r].i = @ + 1]
  /\ UNCHANGED <<lists, row, songs, granted, alone>>

(* Mistake: the rows of the playlist are replaced by those that were read.  *)
WrittenReplacing(r) ==
  [e \in Entries |->
     IF lock[e] = r /\ e # tx[r].entry
     THEN [row[e] EXCEPT !.position = Index(tx[r].ids, e) - 1]
     ELSE IF row[e].list = tx[r].list THEN NoRow ELSE row[e]]

(* Mistake: positions count from 1.                                         *)
WrittenFromOne(r) ==
  [e \in Entries |->
     IF lock[e] # r THEN row[e]
     ELSE IF e = tx[r].entry THEN NoRow
          ELSE [row[e] EXCEPT !.position = Index(tx[r].ids, e)]]

(* The rows with r's writes: the one deleted, and the updated positions.    *)
Written(r) ==
  [e \in Entries |->
     IF lock[e] # r THEN row[e]
     ELSE IF e = tx[r].entry THEN NoRow
          ELSE [row[e] EXCEPT !.position = Index(tx[r].ids, e) - 1]]

CommitPositions(r) ==
  /\ tx[r].pc = "update" /\ tx[r].i > Len(tx[r].ids)
  /\ Commit(r, Written(r))

-----------------------------------------------------------------------------
(* The catalog and the grants, around the playlists.                        *)

(* Mistake: entries do not reference songs.                                 *)
DropSongAlone(s) ==
  /\ s \in songs
  /\ songs' = songs \ {s}
  /\ UNCHANGED <<lists, row, granted, tx, lock, alone>>

(* The song is pruned, or returns as a new one.                             *)
DropSong(s) ==
  /\ s \in songs
  /\ songs' = songs \ {s}
  /\ UNCHANGED <<lists, granted, tx, lock>>
  /\ Cascade({e \in Live : row[e].song = s})

ScanSong(s) ==
  /\ s \notin songs /\ \A r \in Requests : s \notin Range(tx[r].songs)
  /\ songs' = songs \cup {s}
  /\ UNCHANGED <<lists, row, granted, tx, lock, alone>>

(* The administrator changes the categories of the song or of the user.     *)
ChangeGrant(s) ==
  /\ granted' = IF s \in granted THEN granted \ {s} ELSE granted \cup {s}
  /\ UNCHANGED <<lists, row, songs, tx, lock>>
  /\ Touched(Lists)

-----------------------------------------------------------------------------
(* Nothing, or a playlist from which the scanner has pruned all but one song. *)
Left(l, s, n) == [list |-> l, song |-> s, position |-> n]

Init ==
  /\ \/ lists = [l \in Lists |-> None] /\ row = [e \in Entries |-> NoRow]
     \/ \E l \in Lists, e \in Entries, s \in Songs, n \in 1..MaxPosition :
          /\ lists = [m \in Lists |-> IF m = l THEN "user" ELSE None]
          /\ row = [d \in Entries |-> IF d = e THEN Left(l, s, n) ELSE NoRow]
  /\ songs = Songs /\ granted = Songs
  /\ tx = [r \in Requests |-> Idle]
  /\ lock = [e \in Entries |-> None]
  /\ alone = [r \in Requests |-> FALSE]

Step(r) ==
  \/ CheckCreate(r) \/ CreateList(r)
  \/ CheckAdd(r) \/ ReadStart(r) \/ InsertTracks(r)
  \/ AskRemove(r) \/ DeleteTrack(r) \/ CheckReorder(r)
  \/ ReadIds(r) \/ UpdatePosition(r) \/ CommitPositions(r)
  \/ DeadlockVictim(r) \/ Abandon(r)

Next ==
  \/ \E r \in Requests : Step(r)
  \/ Import
  \/ \E l \in Lists : DeletePlaylist(l)
  \/ \E s \in Songs : DropSong(s) \/ ScanSong(s)
  \/ \E s \in Hideable : ChangeGrant(s)

Spec == Init /\ [][Next]_vars

-----------------------------------------------------------------------------
(* Properties.                                                              *)

(* Types; rows belong to playlists and songs that exist, and only a request *)
(* that is writing holds locks.                                             *)
TypeOK ==
  /\ lists \in [Lists -> {None, "user", "file"}]
  /\ row \in [Entries -> Row] /\ tx \in [Requests -> Tx]
  /\ lock \in [Entries -> Requests \cup {None}] /\ alone \in [Requests -> BOOLEAN]
  /\ songs \subseteq Songs /\ granted \subseteq Songs
  /\ \A e \in Live : row[e].list \in Existing /\ row[e].song \in songs
  /\ \A e \in Entries : lock[e] # None => e \in Live /\ tx[lock[e]].pc \in {"read", "update"}

(* No request makes another one's entries vanish or change playlist or song, *)
(* however reorderings, removals and additions overlap: an entry goes only   *)
(* with its own removal, its playlist or its song.                           *)
EntriesKept ==
  [][\A e \in Live :
       \/ row'[e].list = row[e].list /\ row'[e].song = row[e].song
       \/ row'[e] = NoRow
          /\ \/ lists'[row[e].list] = None \/ row[e].song \notin songs'
             \/ \E r \in Requests : tx[r].entry = e /\ tx[r].pc = "update" /\ tx'[r].pc = "idle"]_vars

Appended(r) ==
  tx[r].pc = "insert" /\ tx'[r].pc = "idle" =>
    \A e \in Entries \ Live, old \in Tracks(tx[r].list) :
      row'[e].list = tx[r].list => row[old].position < row'[e].position

(* New songs come after all that are there, whatever gaps earlier removals and *)
(* prunings left, if nothing was committed between reading the end of the      *)
(* playlist and inserting.                                                     *)
AppendsWhenAlone == [][\A r \in Requests : alone[r] => Appended(r)]_vars

(* "AddPlaylistTracks appends songs" (the comment), with no such condition. *)
AppendsAtEnd == [][\A r \in Requests : Appended(r)]_vars

OrderOf(S) == CHOOSE s \in Ordered(S) : TRUE
Untied(S) == \A e, f \in S : e # f => row[e].position # row[f].position

(* Positions of l are committed by r, from the playlist as it is.           *)
Edits(r, l) ==
  /\ tx[r].list = l /\ tx[r].pc = "update" /\ tx'[r].pc = "idle"
  /\ alone[r] /\ row' # row

Reorders(r, l) == tx[r].op = "reorder" /\ Untied(Tracks(l)) /\ Edits(r, l)

(* After a reordering the playlist is the former one with the track at from *)
(* taken out and put at index to, the others in their order.                *)
ReordersWhenAlone ==
  [][\A r \in Requests, l \in Lists :
       Reorders(r, l) =>
         LET was == OrderOf(Tracks(l))
             is == OrderOf(Tracks(l))'
             moved == was[tx[r].from + 1]
         IN /\ is[tx[r].to + 1] = moved
            /\ \A e, f \in Range(was) \ {moved} :
                 Index(was, e) < Index(was, f) => Index(is, e) < Index(is, f)]_vars

(* A removal or a reordering leaves the positions 0, 1, ..., n-1: what ties and *)
(* gaps there were are gone.                                                    *)
HealsPositions ==
  [][\A r \in Requests, l \in Lists :
       Edits(r, l) =>
         {row'[e].position : e \in Tracks(l)'} = 0..(Cardinality(Tracks(l)') - 1)]_vars

(* "0-based indices over the visible ordered list" (the comment on          *)
(* ReorderPlaylistTracks): the track the user moved is where he put it.     *)
ReorderMovesVisible ==
  [][\A r \in Requests, l \in Lists :
       Reorders(r, l) /\ {tx[r].from, tx[r].to} \subseteq 0..(Cardinality(Visible(l)) - 1) =>
         OrderOf(Visible(l))'[tx[r].to + 1] = OrderOf(Visible(l))[tx[r].from + 1]]_vars

(* "creates or replaces a playlist (by owner+name)" (the comment on         *)
(* ImportPlaylist): one playlist for the file.                              *)
ImportReplaces == Cardinality({l \in Lists : lists[l] = "file"}) <= 1

=============================================================================
