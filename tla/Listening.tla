-------------------------------- MODULE Listening --------------------------------
(***********************************************************************************)
(* What counts as having listened to a song (web/assets/listening.js and its       *)
(* use in web/assets/player.js): the time a play of a song is really heard is      *)
(* sampled from the media element, and once it is enough the play is reported      *)
(* to the server, which keeps one row for it.                                      *)
(*                                                                                 *)
(* Time goes in ticks of half a second, in which the element plays Rate ticks of   *)
(* the song or, paused, seeking or out of data, none.  tracker.wall is kept as its *)
(* distance to the present; elapsed is in tick / 2.  The comparisons are exact.    *)
(***********************************************************************************)
EXTENDS Integers, FiniteSets

CONSTANTS
  Accounts,
  None,
  MaxPlays,   \* bound: plays, the ids of which are numbers
  Length,     \* the duration of the song
  Enough,     \* thirty seconds
  Rates,      \* playback rates, 1 or 2
  SeekTo,     \* where seeks go
  Slack,      \* the discontinuity let through
  Gap,        \* bound: time from one sample to the next, while an anchor is kept
  MaxHeard    \* bound: time heard in one play

ListeningAssumption ==
  /\ None \notin Accounts
  /\ Rates \subseteq {1, 2} /\ SeekTo \subseteq 0 .. Length
  /\ {MaxPlays, Length, Enough, Slack, Gap, MaxHeard} \subseteq Nat

VARIABLES
  token,     \* whose token the page has; another tab may change it
  element,   \* the media element
  tracker,   \* listenTracker
  listens,   \* qualified_listens; each row with what had been heard by then
  heard,     \* ticks the play was heard for, and ticks of the song
  owner      \* owner[p]: who was signed in when play p began

vars == <<token, element, tracker, listens, heard, owner>>

Plays == 1 .. MaxPlays

NoTracker == [play |-> 0, user |-> None, elapsed |-> 0, media |-> 0,
              wall |-> -1, position |-> -1, sent |-> TRUE]

-----------------------------------------------------------------------------
(* sampleListen.                                                            *)

Least(a, b) == IF a <= b THEN a ELSE b

Forgotten(t) == [t EXCEPT !.wall = -1, !.position = -1]

Moved(t) == element.position - t.position

(* Mistake: time that passed counts, wherever the song is.                  *)
CreditedByClock(t) == [t EXCEPT !.elapsed = @ + 2 * t.wall, !.media = @ + t.wall * element.rate]

Credited(t) ==
  LET most == t.wall * element.rate
      part == Least(Moved(t), most)
  IN IF Moved(t) >= 0 /\ Moved(t) <= most + Slack
     THEN [t EXCEPT !.elapsed = @ + Least(2 * t.wall, (2 * part) \div element.rate),
                    !.media = @ + part]
     ELSE t

Sampled(t) ==
  IF ~element.playing \/ element.seeking
  THEN Forgotten(t)
  ELSE LET c == IF t.wall < 0 THEN t ELSE Credited(t)
           full == \/ c.elapsed >= 2 * Enough
                   \/ element.known /\ 2 * c.media >= Length
       IN [c EXCEPT !.wall = 0, !.position = element.position, !.sent = full]

(* Mistake: whoever is signed in by now is told to have listened.           *)
ReportsAnyone(t) == t.user # None /\ token # None

(* The account is compared, for the token may be another's by now.          *)
Reports(t) == t.user # None /\ t.user = token

Report(t) == [user |-> token, play |-> t.play, ticks |-> heard.ticks, media |-> heard.media]

(* sampleListening; the request may be lost, and the song be gone.          *)
Sample ==
  /\ ~tracker.sent
  /\ tracker' = Sampled(tracker)
  /\ \/ /\ tracker'.sent /\ Reports(tracker)
        /\ listens' = listens \cup {Report(tracker)}
     \/ UNCHANGED listens
  /\ UNCHANGED <<token, element, heard, owner>>

(* resetListenAnchor, on seeking, seeked and pause.                         *)
Reset == tracker' = Forgotten(tracker)

-----------------------------------------------------------------------------
(* The player and its element.                                              *)

(* startListening, with the first play or the next one.                     *)
Start ==
  /\ \E p \in Plays :
       /\ p = tracker.play + 1
       /\ tracker' = [NoTracker EXCEPT !.play = p, !.user = token, !.sent = FALSE]
       /\ owner' = [owner EXCEPT ![p] = token]
  /\ \E known, halted \in BOOLEAN :
       element' = [element EXCEPT !.position = 0, !.playing = TRUE, !.seeking = FALSE,
                                  !.known = known, !.halted = halted]
  /\ heard' = [ticks |-> 0, media |-> 0]
  /\ UNCHANGED <<token, listens>>

Aged == tracker' = IF tracker.wall < 0 THEN tracker ELSE [tracker EXCEPT !.wall = @ + 1]

CanAge == tracker.play # 0 /\ tracker.wall < Gap

Advances ==
  /\ CanAge /\ element.playing /\ ~element.seeking
  /\ heard.ticks < MaxHeard /\ element.position + element.rate <= Length
  /\ Aged
  /\ element' = [element EXCEPT !.position = @ + element.rate]
  /\ heard' = [ticks |-> heard.ticks + 1, media |-> heard.media + element.rate]
  /\ UNCHANGED <<token, listens, owner>>

(* Paused, seeking, or waiting for data.                                    *)
Waits ==
  /\ CanAge /\ tracker.wall >= 0
  /\ Aged
  /\ UNCHANGED <<token, element, listens, heard, owner>>

PausesOrResumes ==
  /\ element' = [element EXCEPT !.playing = ~@, !.halted = @ \/ element.playing]
  /\ UNCHANGED <<token, tracker, listens, heard, owner>>

(* It may come when the element plays again, or be a source swap's.         *)
PauseEvent ==
  /\ element.halted
  /\ element' = [element EXCEPT !.halted = FALSE]
  /\ Reset
  /\ UNCHANGED <<token, listens, heard, owner>>

(* The page has no control for it; not between two samples that count, where it *)
(* could be worth the time from one to the other.                               *)
ChangesRate ==
  /\ tracker.wall < 0
  /\ \E r \in Rates \ {element.rate} : element' = [element EXCEPT !.rate = r]
  /\ UNCHANGED <<token, tracker, listens, heard, owner>>

LearnsDuration ==
  /\ ~element.known
  /\ element' = [element EXCEPT !.known = TRUE]
  /\ UNCHANGED <<token, tracker, listens, heard, owner>>

(* The event comes later than the seek, which ends no sooner than it.       *)
Seeks ==
  /\ \E p \in SeekTo : element' = [element EXCEPT !.position = p, !.seeking = TRUE, !.told = FALSE]
  /\ UNCHANGED <<token, tracker, listens, heard, owner>>

SeekingEvent ==
  /\ element.seeking /\ ~element.told
  /\ element' = [element EXCEPT !.told = TRUE]
  /\ Reset
  /\ UNCHANGED <<token, listens, heard, owner>>

SeekedEvent ==
  /\ element.seeking /\ element.told
  /\ element' = [element EXCEPT !.seeking = FALSE]
  /\ Reset
  /\ UNCHANGED <<token, listens, heard, owner>>

(* A seek whose events the browser misses: back behind the last sample, or farther *)
(* from it than can be played before the next.  (A shorter one, forward, is credited *)
(* as far as the time until the next sample goes.)                                 *)
SeeksUnseen ==
  /\ ~element.seeking
  /\ \E p \in SeekTo :
       /\ tracker.wall >= 0 =>
            p < tracker.position \/ p > tracker.position + 2 * Gap + Slack
       /\ element' = [element EXCEPT !.position = p]
  /\ UNCHANGED <<token, tracker, listens, heard, owner>>

(* Another tab signs in or out.                                             *)
SwitchAccount ==
  /\ \E a \in (Accounts \cup {None}) \ {token} : token' = a
  /\ UNCHANGED <<element, tracker, listens, heard, owner>>

-----------------------------------------------------------------------------
Init ==
  /\ token \in Accounts
  /\ element \in [position : {0}, playing : {FALSE}, seeking : {FALSE}, told : {TRUE},
                  rate : Rates, known : {FALSE}, halted : {FALSE}]
  /\ tracker = NoTracker
  /\ listens = {}
  /\ heard = [ticks |-> 0, media |-> 0]
  /\ owner = [p \in Plays |-> None]

Next ==
  \/ Sample
  \/ Start
  \/ Advances
  \/ Waits
  \/ PausesOrResumes
  \/ PauseEvent
  \/ ChangesRate
  \/ LearnsDuration
  \/ Seeks
  \/ SeekingEvent
  \/ SeekedEvent
  \/ SeeksUnseen
  \/ SwitchAccount

Spec == Init /\ [][Next]_vars

-----------------------------------------------------------------------------
(* Properties.                                                              *)

(* Types; the anchor has both its parts or none.                            *)
TypeOK ==
  /\ token \in Accounts \cup {None}
  /\ element \in [position : 0 .. Length, playing : BOOLEAN, seeking : BOOLEAN, told : BOOLEAN,
                  rate : Rates, known : BOOLEAN, halted : BOOLEAN]
  /\ tracker \in [play : Nat, user : Accounts \cup {None}, elapsed : Nat, media : Nat,
                  wall : -1 .. Gap, position : -1 .. Length, sent : BOOLEAN]
  /\ tracker.wall = -1 <=> tracker.position = -1
  /\ owner \in [Plays -> Accounts \cup {None}]

(* Time is credited for what was heard alone: pauses, seeks that are noticed or are *)
(* discontinuities, waits for data and other rates never make it more.             *)
CountsHeardOnly == tracker.elapsed <= 2 * heard.ticks /\ tracker.media <= heard.media

(* A play on the books was heard for thirty seconds or half the song.       *)
ListenWasHeard ==
  \A l \in listens : l.ticks >= Enough \/ 2 * l.media >= Length

(* It is on the books of who began it, and once.                            *)
ListenIsOwn ==
  /\ \A l \in listens : l.user = owner[l.play]
  /\ \A l, k \in listens : l.play = k.play => l = k

(* Types, and reports of what was heard by whom.                            *)
Sound == TypeOK /\ CountsHeardOnly /\ ListenWasHeard /\ ListenIsOwn

=============================================================================
