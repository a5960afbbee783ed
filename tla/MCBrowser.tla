------------------------------- MODULE MCBrowser -------------------------------
(*******************************************************************************)
(* Player, Session, Likes, Listening and PlaylistPages in one specification    *)
(* for TLC and TLAPS.  They share no variable: every behaviour is one of one   *)
(* of them, which part says, and the others rest.                              *)
(*******************************************************************************)
EXTENDS Naturals

CONSTANTS
  Queues, MaxTasks,                                                     \* of Player
  Tabs, Users, Queries, MaxTokens, MaxRequests, Nobody,                 \* of Session
  Songs, MayFail, Patient, MaxClicks,                                   \* of Likes
  Accounts, MaxPlays, Length, Enough, Rates, SeekTo, Slack, Gap, MaxHeard,
                                                                        \* of Listening
  MaxRevision, MaxFlying, MaxChanges, NoLists, Spinner,                 \* of PlaylistPages
  None

VARIABLES part
VARIABLES loadFiresPause, queue, index, current, playing, progress, repeat, shuffle,
          pendingSeek, switching, tracker, src, ready, paused, failed, position, tasks,
          denied
VARIABLES token, expired, tab, requests
VARIABLES server, fetched, row, likeQueue, likeCurrent, pageKey, clicks
VARIABLES audioToken, element, listen, listens, heard, owner
VARIABLES playlists, at, cache, library, page, fetches, changes, known, late

playerVars == <<loadFiresPause, queue, index, current, playing, progress, repeat, shuffle,
                pendingSeek, switching, tracker, src, ready, paused, failed, position, tasks,
                denied>>
sessionVars == <<token, expired, tab, requests>>
likesVars == <<server, fetched, row, likeQueue, likeCurrent, pageKey, clicks>>
listeningVars == <<audioToken, element, listen, listens, heard, owner>>
pagesVars == <<playlists, at, cache, library, page, fetches, changes, known, late>>
vars == <<part, playerVars, sessionVars, likesVars, listeningVars, pagesVars>>

Player == INSTANCE Player

Session == INSTANCE Session

Likes ==
  INSTANCE Likes WITH MaxRequests <- MaxClicks,
                      queue <- likeQueue, current <- likeCurrent, requests <- clicks

Listening == INSTANCE Listening WITH token <- audioToken, tracker <- listen

PlaylistPages ==
  INSTANCE PlaylistPages WITH revision <- playlists, flying <- fetches, answered <- known,
                              Empty <- NoLists, Waiting <- Spinner

ASSUME BrowserAssumption ==
  /\ Player!PlayerAssumption
  /\ Session!SessionAssumption /\ Session!Owned!OwnedCacheAssumption
  /\ Likes!LikesAssumption /\ Listening!ListeningAssumption
  /\ PlaylistPages!PlaylistPagesAssumption

(* For TLC: a song by itself, and a list in which one comes twice.          *)
MCQueues == {<<"g1">>, <<"g2", "g1", "g2">>}

Init ==
  /\ part \in {"player", "session", "likes", "listening", "playlists"}
  /\ Player!Init /\ Session!Init /\ Likes!Init /\ Listening!Init
  /\ PlaylistPages!Init
  /\ part # "player" => ~loadFiresPause
  /\ part # "likes" => server = {}
  /\ part # "listening" =>
       /\ element.rate = CHOOSE r \in Rates : TRUE
       /\ audioToken = CHOOSE a \in Accounts : TRUE

Next ==
  /\ UNCHANGED part
  /\ \/ /\ part = "player" /\ Player!Step
        /\ UNCHANGED <<sessionVars, likesVars, listeningVars, pagesVars>>
     \/ /\ part = "session" /\ Session!Next
        /\ UNCHANGED <<playerVars, likesVars, listeningVars, pagesVars>>
     \/ /\ part = "likes" /\ Likes!Next
        /\ UNCHANGED <<playerVars, sessionVars, listeningVars, pagesVars>>
     \/ /\ part = "listening" /\ Listening!Next
        /\ UNCHANGED <<playerVars, sessionVars, likesVars, pagesVars>>
     \/ /\ part = "playlists" /\ PlaylistPages!Next
        /\ UNCHANGED <<playerVars, sessionVars, likesVars, listeningVars>>

Spec == Init /\ [][Next]_vars

-----------------------------------------------------------------------------
(* What the parts promise of every state.  player.js: the current song is the entry *)
(* of the queue at its index, whatever was skipped, shuffled, repeated or liked     *)
(* before, and the one the element plays and the listening is credited to.          *)
(* runSearch and the library: results are those of the last search, and a library   *)
(* that is waited for has been asked for in the present session.  listening.js: no  *)
(* more time is credited than was heard; a play is reported after thirty seconds or *)
(* half the song, once, for whoever began it.  app.js: the lists of playlists have  *)
(* the user's own changes, as far as they are fetched again.                        *)
Sound ==
  /\ part = "player" => Player!Sound
  /\ part = "session" => Session!Sound
  /\ part = "likes" => Likes!TypeOK
  /\ part = "listening" => Listening!Sound
  /\ part = "playlists" => PlaylistPages!Sound

(* player.js: once the element's events are dispatched the page shows it as playing *)
(* exactly if it is, but for a play() that was refused during a swap.               *)
HonestWhenSettled == part = "player" => Player!HonestWhenSettled

(* setAuth: nothing of the former account is kept after a change of account in the *)
(* tab.                                                                            *)
CachesOwned == Session!CachesOwned

(* api.js: a token is only replaced or removed by an answer that was asked with it, *)
(* or by the user.                                                                  *)
TokenChanges == Session!TokenChanges

(* toggleLike: the answer to a click on a row changes no other song's flag. *)
RowAnswersOwnSong == Likes!RowAnswersOwnSong

=============================================================================
