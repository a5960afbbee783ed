------------------------------ MODULE PlaylistPages ------------------------------
(*******************************************************************************)
(* The playlists in the browser (web/assets/app.js): the sidebar's list, the   *)
(* library's list and the page of a playlist are fetched by themselves, and    *)
(* fetched again after some changes but not others.  One user stays signed in; *)
(* what changes with the account is in Session.  A list is known by the        *)
(* revision of the user's playlists that the server read it at.                *)
(*******************************************************************************)
EXTENDS Naturals, Sequences, SequencesExt

CONSTANTS
  MaxRevision, MaxFlying, MaxChanges,   \* bounds: revisions, answers awaited, changes at a time
  None,      \* not fetched
  Empty,     \* the empty list that stands for a failed fetch
  Waiting    \* a spinner

PlaylistPagesAssumption ==
  /\ {MaxRevision, MaxFlying, MaxChanges} \subseteq Nat
  /\ {None, Empty, Waiting} \cap Nat = {}
  /\ Waiting \notin {None, Empty} /\ None # Empty

VARIABLES
  revision,   \* of the server
  at,         \* the page
  cache,      \* playlistsCache
  library,    \* libData.playlists
  page,       \* what the container of the page shows of playlists
  flying,     \* fetches without an answer, in the order they were sent
  changes,    \* the user's changes without an answer: kind, revision once committed or 0
  answered,   \* the last revision of one that has been answered, by what it refreshes
  late        \* history: cache is from an answer that a later one had overtaken

vars == <<revision, at, cache, library, page, flying, changes, answered, late>>

Pages == {"playlist", "settings", "library", "other"}
Request(kind) == [kind |-> kind, asked |-> revision, box |-> TRUE, overtaken |-> FALSE]

(* libLoading.                                                              *)
LibLoading(rs) == \E i \in DOMAIN rs : rs[i].kind = "library"

(* Mistake: a page is drawn into the container of the one before.           *)
DetachedNone(rs) == rs

(* root.innerHTML = '': what an earlier container waits for is not seen.    *)
Detached(rs) == [i \in DOMAIN rs |-> [rs[i] EXCEPT !.box = FALSE]]

(* render, of page p with these caches and fetches.                         *)
Fetches(p, lib, rs) ==
  CASE p \in {"playlist", "settings"} -> <<Request(p)>>
    [] p = "library" /\ lib = None /\ ~LibLoading(rs) -> <<Request("library")>>
    [] OTHER -> <<>>

Rendered(p, list, lib, rs) ==
  /\ at' = p
  /\ cache' = list /\ library' = lib
  /\ page' = CASE p \in {"playlist", "settings"} -> Waiting
               [] p = "library" -> IF lib = None THEN Waiting ELSE lib
               [] p = "other" -> list
  /\ flying' = Detached(rs) \o Fetches(p, lib, rs)
  /\ Len(flying') <= MaxFlying

Navigate(p) ==
  /\ Rendered(p, cache, library, flying)
  /\ UNCHANGED <<revision, changes, answered, late>>

-----------------------------------------------------------------------------
(* Changes.                                                                 *)

(* createPlaylist in the settings; the picker of a song's row, for a playlist that *)
(* is there or a new one; removePlaylistTrack on the playlist's page.              *)
Offered(kind) ==
  CASE kind = "create" -> at = "settings" /\ page # Waiting
    [] kind = "remove" -> at = "playlist" /\ page \in Nat
    [] kind = "pick" -> TRUE

Change(kind) ==
  /\ Offered(kind) /\ Len(changes) < MaxChanges
  /\ changes' = Append(changes, [kind |-> kind, revision |-> 0])
  /\ UNCHANGED <<revision, at, cache, library, page, flying, answered, late>>

Committed(i) ==
  /\ changes[i].revision = 0 /\ revision < MaxRevision
  /\ revision' = revision + 1
  /\ changes' = [changes EXCEPT ![i].revision = revision + 1]
  /\ UNCHANGED <<at, cache, library, page, flying, answered, late>>

(* Mistake: the list is fetched again for new playlists only.               *)
ReloadsCreated(kind) == kind = "create"

(* pm:playlists-changed, or loadPlaylists itself.                           *)
Reloads(kind) == kind \in {"create", "pick"}

Redraws(kind) == kind \in {"create", "remove"}

Later(a, b) == IF a > b THEN a ELSE b

Answered(i) ==
  LET c == changes[i]
      list == IF Reloads(c.kind) THEN Append(flying, Request("list")) ELSE flying
  IN /\ c.revision # 0
     /\ changes' = RemoveAt(changes, i)
     /\ answered' = IF c.kind = "remove" THEN [answered EXCEPT !.removed = Later(@, c.revision)]
                                         ELSE [answered EXCEPT !.listed = Later(@, c.revision)]
     /\ IF Redraws(c.kind) THEN Rendered(at, cache, library, list)
        ELSE flying' = list /\ Len(list) <= MaxFlying /\ UNCHANGED <<at, cache, library, page>>
     /\ UNCHANGED <<revision, late>>

(* An alert; the change may have been made all the same.                    *)
ChangeFails(i) ==
  /\ changes' = RemoveAt(changes, i)
  /\ UNCHANGED <<revision, at, cache, library, page, flying, answered, late>>

(* Another device of the user, an import, or a song that was deleted.       *)
OthersChange ==
  /\ revision < MaxRevision
  /\ revision' = revision + 1
  /\ UNCHANGED <<at, cache, library, page, flying, changes, answered, late>>

-----------------------------------------------------------------------------
(* Answers, in any order.                                                   *)

(* What the server read at some time since the fetch was sent, or its failure. *)
Lists(r) == (r.asked .. revision) \cup {Empty}

(* loadPlaylists.                                                           *)
ListArrives(i) ==
  LET rest == [j \in DOMAIN RemoveAt(flying, i) |->
                 [RemoveAt(flying, i)[j] EXCEPT !.overtaken = @ \/ j < i]]
  IN /\ flying[i].kind = "list"
     /\ \E list \in Lists(flying[i]) : Rendered(at, list, library, rest)
     /\ late' = flying[i].overtaken
     /\ UNCHANGED <<revision, changes, answered>>

(* loadLibrary.                                                             *)
LibraryArrives(i) ==
  /\ flying[i].kind = "library"
  /\ \E list \in Lists(flying[i]) : Rendered(at, cache, list, RemoveAt(flying, i))
  /\ UNCHANGED <<revision, changes, answered, late>>

(* The end of renderPlaylist and renderSettings, into their own container.  *)
PageArrives(i) ==
  LET r == flying[i]
  IN /\ r.kind \in {"playlist", "settings"}
     /\ flying' = RemoveAt(flying, i)
     /\ \E list \in IF r.kind = "playlist" THEN Lists(r) ELSE {cache} :
          page' = IF r.box THEN list ELSE page
     /\ UNCHANGED <<revision, at, cache, library, changes, answered, late>>

-----------------------------------------------------------------------------
(* Just signed in: setAuth has asked for the list.                          *)
Init ==
  /\ revision = 0 /\ at = "other" /\ cache = Empty /\ library = None /\ page = Empty
  /\ flying = <<Request("list")>>
  /\ changes = <<>> /\ answered = [listed |-> 0, removed |-> 0] /\ late = FALSE

Next ==
  \/ \E p \in Pages : Navigate(p)
  \/ \E kind \in {"create", "pick", "remove"} : Change(kind)
  \/ \E i \in DOMAIN changes : Committed(i) \/ Answered(i) \/ ChangeFails(i)
  \/ OthersChange
  \/ \E i \in DOMAIN flying : ListArrives(i) \/ LibraryArrives(i) \/ PageArrives(i)

Spec == Init /\ [][Next]_vars

-----------------------------------------------------------------------------
(* Properties.                                                              *)

Revisions == 0..MaxRevision

TypeOK ==
  /\ revision \in Revisions /\ at \in Pages
  /\ cache \in Revisions \cup {Empty} /\ library \in Revisions \cup {Empty, None}
  /\ page \in Revisions \cup {Empty, Waiting}
  /\ \A i \in DOMAIN flying : flying[i].asked \in Revisions
  /\ \A i \in DOMAIN changes : changes[i].revision \in Revisions
  /\ {answered.listed, answered.removed} \subseteq Revisions /\ late \in BOOLEAN

(* Once every list asked for has come, the sidebar has the playlists the user made   *)
(* and the songs he added, unless the last fetch failed or an answer came after that *)
(* of a later fetch: every such change is followed by a fetch of its own             *)
(* (app.js:315, 335, 1128, 1771).                                                    *)
ListHasOwnChanges ==
  \/ \E i \in DOMAIN flying : flying[i].kind = "list"
  \/ cache = Empty \/ late
  \/ cache >= answered.listed

(* The page of a playlist does not show a song again whose removal was answered     *)
(* (app.js:907), whatever pages were left and came back to, and whichever of their  *)
(* answers come late; and a page that waits has a fetch under way that will end it. *)
PageIsOfLastRender ==
  /\ at = "playlist" /\ page \in Nat => page >= answered.removed
  /\ page = Waiting => \E i \in DOMAIN flying : flying[i].kind = at /\ (at = "library" \/ flying[i].box)

Sound == TypeOK /\ ListHasOwnChanges /\ PageIsOfLastRender

(* The same, without the exception for late answers: loadPlaylists compares the *)
(* account but not the order, as the search does ("only the latest request may  *)
(* write results", app.js:545).                                                 *)
LatestListWins ==
  cache = Empty \/ cache >= answered.listed \/ \E i \in DOMAIN flying : flying[i].kind = "list"

(* The playlists of the library are as recent as the sidebar's; setAuth alone *)
(* forgets libData (app.js:127).                                              *)
LibraryHasOwnChanges == library \in Nat => library >= answered.listed

=============================================================================
