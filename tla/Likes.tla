--------------------------------- MODULE Likes ---------------------------------
(********************************************************************************)
(* The heart of a song in the browser client (web/assets/app.js): the buttons   *)
(* of the rows, the bar of the player, the flags of the songs in the queue, and *)
(* user_likes on the server.  A click shows its effect at once and asks the     *)
(* server; the flags of the player are copied to the rows now and then.         *)
(*                                                                              *)
(* The page shows one list, and the queue is that list, each song once.         *)
(********************************************************************************)
EXTENDS Naturals, FiniteSets

CONSTANTS
  Songs,
  MayFail,      \* whether requests may fail
  Patient,      \* whether the user waits for an answer before doing anything else
  MaxRequests,  \* bound: clicks not answered yet
  None

LikesAssumption == {MayFail, Patient} \subseteq BOOLEAN /\ MaxRequests \in Nat /\ None \notin Songs

VARIABLES
  server,    \* user_likes: the songs liked
  fetched,   \* song.liked in the list as it was fetched
  row,       \* class "liked" of the rows' buttons
  queue,     \* song.liked in the queue of the player
  current,   \* the song of the player
  pageKey,   \* lastPageStateKey: the song and its flag when the rows were last brought in line
  requests   \* clicks on their way to the server and back

vars == <<server, fetched, row, queue, current, pageKey, requests>>

Flags == [Songs -> BOOLEAN]

Request == [song : Songs, from : {"row", "bar"}, was : BOOLEAN, button : BOOLEAN,
            at : {"sent", "done", "failed"}]

Liked == [s \in Songs |-> s \in server]

(* player.setLiked: the current song.                                       *)
SetLiked(liked) == queue' = IF current = None THEN queue ELSE [queue EXCEPT ![current] = liked]

(* Mistake: every copy of the song in the queue, played or not.             *)
SetLikedAnywhere(song, liked) == queue' = [queue EXCEPT ![song] = liked]

(* isCurrent and setLiked.                                                  *)
SetLikedOf(song, liked) == IF current = song THEN SetLiked(liked) ELSE UNCHANGED queue

Free == Patient => requests = {}

Ask(s, from, was) ==
  /\ Free
  /\ Cardinality(requests) < MaxRequests
  /\ requests' = requests \cup {[song |-> s, from |-> from, was |-> was, button |-> TRUE, at |-> "sent"]}

-----------------------------------------------------------------------------
(* toggleLike, toggleLikeCurrent, up to the await.                          *)

ClickRow(s) ==
  /\ row' = [row EXCEPT ![s] = ~@]
  /\ Ask(s, "row", row[s])
  /\ UNCHANGED <<server, fetched, queue, current, pageKey>>

ClickBar ==
  /\ current # None
  /\ SetLiked(~queue[current])
  /\ Ask(current, "bar", queue[current])
  /\ UNCHANGED <<server, fetched, row, current, pageKey>>

(* SetLike on the server, where requests come in any order; one that fails may *)
(* have been done.                                                             *)
Becomes(r, at) == requests' = (requests \ {r}) \cup {[r EXCEPT !.at = at]}

Reaches(r) ==
  /\ r.at = "sent"
  /\ server' = IF r.was THEN server \ {r.song} ELSE server \cup {r.song}
  /\ \/ Becomes(r, "done")
     \/ MayFail /\ Becomes(r, "failed")
  /\ UNCHANGED <<fetched, row, queue, current, pageKey>>

IsLost(r) ==
  /\ MayFail /\ r.at = "sent" /\ Becomes(r, "failed")
  /\ UNCHANGED <<server, fetched, row, queue, current, pageKey>>

(* Mistake: the song of the player is not looked at again after the await.  *)
RowAnsweredUnseen(r) ==
  /\ r.from = "row" /\ r.at # "sent"
  /\ requests' = requests \ {r}
  /\ SetLiked(IF r.at = "done" THEN ~r.was ELSE r.was)
  /\ row' = IF r.at = "failed" /\ r.button THEN [row EXCEPT ![r.song] = r.was] ELSE row
  /\ UNCHANGED <<server, fetched, current, pageKey>>

(* The end of toggleLike.                                                   *)
RowAnswered(r) ==
  /\ r.from = "row" /\ r.at # "sent"
  /\ requests' = requests \ {r}
  /\ SetLikedOf(r.song, IF r.at = "done" THEN ~r.was ELSE r.was)
  /\ row' = IF r.at = "failed" /\ r.button THEN [row EXCEPT ![r.song] = r.was] ELSE row
  /\ UNCHANGED <<server, fetched, current, pageKey>>

(* The end of toggleLikeCurrent.                                            *)
BarAnswered(r) ==
  /\ r.from = "bar" /\ r.at # "sent"
  /\ requests' = requests \ {r}
  /\ IF r.at = "failed" THEN SetLiked(r.was) ELSE UNCHANGED queue
  /\ UNCHANGED <<server, fetched, row, current, pageKey>>

-----------------------------------------------------------------------------
(* A song of the list is played: the queue has the flags the list was fetched with. *)
PlayContext(s) ==
  /\ Free
  /\ current' = s /\ queue' = fetched
  /\ UNCHANGED <<server, fetched, row, pageKey, requests>>

Skip(s) ==
  /\ Free
  /\ current # None /\ current' = s
  /\ UNCHANGED <<server, fetched, row, queue, pageKey, requests>>

(* The page is fetched and built anew; buttons of the old one are of no more use. *)
LoadPage ==
  /\ Free
  /\ fetched' = Liked /\ row' = Liked
  /\ requests' = {[r EXCEPT !.button = FALSE] : r \in requests}
  /\ UNCHANGED <<server, queue, current, pageKey>>

(* syncPagePlayerState, with every timeupdate.                              *)
PlayerKey == IF current = None THEN <<None, FALSE>> ELSE <<current, queue[current]>>

Sync ==
  /\ pageKey # PlayerKey
  /\ pageKey' = PlayerKey
  /\ row' = IF current = None THEN row ELSE queue
  /\ UNCHANGED <<server, fetched, queue, current, requests>>

-----------------------------------------------------------------------------
Init ==
  /\ server \in SUBSET Songs
  /\ fetched = Liked /\ row = Liked
  /\ queue = [s \in Songs |-> FALSE] /\ current = None
  /\ pageKey = <<None, FALSE>> /\ requests = {}

Next ==
  \/ \E s \in Songs : ClickRow(s) \/ PlayContext(s) \/ Skip(s)
  \/ ClickBar
  \/ LoadPage
  \/ Sync
  \/ \E r \in requests : Reaches(r) \/ IsLost(r) \/ RowAnswered(r) \/ BarAnswered(r)

Spec == Init /\ [][Next]_vars

-----------------------------------------------------------------------------
(* Properties.                                                              *)

(* Types; and while nothing is played the queue is empty, with no flag in it. *)
TypeOK ==
  /\ server \subseteq Songs
  /\ {fetched, row, queue} \subseteq Flags
  /\ current \in Songs \cup {None}
  /\ pageKey \in (Songs \cup {None}) \X BOOLEAN
  /\ \A r \in requests : r \in Request
  /\ current = None => \A s \in Songs : ~queue[s]

(* The answer to a click on a row changes the flag of no other song, whatever is *)
(* played by then.                                                               *)
OnlyOf(r) == \A s \in Songs \ {r.song} : row'[s] = row[s] /\ queue'[s] = queue[s]

RowAnswersOwnSong == [][\A r \in requests : RowAnswered(r) => OnlyOf(r)]_vars

(* The same of a click on the bar ("Reverte o estado do player (barra e listas) - *)
(* sem desync", the comment on its failure).                                      *)
BarAnswersOwnSong == [][\A r \in requests : BarAnswered(r) => OnlyOf(r)]_vars

(* Where no request fails and the user waits for each answer, bar and rows show        *)
(* what the server has ("o estado curtido fica consistente entre a barra e as listas", *)
(* the comment on syncPagePlayerState).                                                *)
HeartsAgree ==
  requests = {} /\ pageKey = PlayerKey
    => /\ row = Liked
       /\ current # None => queue[current] = Liked[current]

=============================================================================
