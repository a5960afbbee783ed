-------------------------------- MODULE Player --------------------------------
(*******************************************************************************)
(* The player of the browser client (web/assets/player.js): one queue and one  *)
(* HTMLMediaElement.  The page's state and the element's are different things  *)
(* that only events keep together: the element queues tasks, setting src       *)
(* removes those that are queued, and play() may be refused, which no event    *)
(* tells (autoplay policies).                                                  *)
(*                                                                             *)
(* A handler or a click runs to its end, with the reactions to the promises it *)
(* settles; in between the element's tasks are dispatched in order.            *)
(* Positions are "start", "far" (more than 3 seconds) and "end".               *)
(*******************************************************************************)
EXTENDS Naturals, Sequences

CONSTANTS
  Queues,          \* the lists of song ids that may be played
  MaxTasks,        \* bound: tasks queued by one element
  None

Ids == UNION {{q[i] : i \in DOMAIN q} : q \in Queues}
Entry == [id : Ids, liked : BOOLEAN]

PlayerAssumption ==
  /\ Queues \subseteq Seq(Ids) \ {<<>>}
  /\ None \notin Ids \cup Entry
  /\ MaxTasks \in Nat

VARIABLES
  loadFiresPause,             \* replacing the source fires a pause event (engines differ)
  queue, index, current,      \* state.queue, currentIndex (from 1), current
  playing, progress,          \* what the page shows
  repeat, shuffle,
  pendingSeek,                \* a seek that waits for the metadata
  switching,                  \* a src swap whose play event has not come
  tracker,                    \* the song of listenTracker
  src, ready, paused, failed, position,  \* the media element
  tasks,                      \* its queued tasks
  denied                      \* history: the play() of the last source swap was refused, and
                              \* none has been accepted since

shown == <<queue, index, current, playing, progress, repeat, shuffle, pendingSeek, switching,
           tracker>>
element == <<src, ready, paused, failed, position, tasks, denied>>
vars == <<loadFiresPause, shown, element>>

Task == {"play", "pause", "metadata", "error", "ended"}

Queued(task) == Len(tasks) < MaxTasks /\ tasks' = Append(tasks, task)

-----------------------------------------------------------------------------
(* The element.                                                             *)

(* An element that plays is allowed to go on.                               *)
Refusals(wasPaused) == IF wasPaused THEN BOOLEAN ELSE {FALSE}

(* playAudio: an element whose source failed rejects the promise of play(), as *)
(* does a refusal; an element that is at the end starts again.                 *)
Play(wasPaused) ==
  \E refused \in Refusals(wasPaused) :
    IF failed \/ refused
    THEN playing' = (playing /\ switching) /\ UNCHANGED <<paused, position, tasks, denied>>
    ELSE /\ paused' = FALSE /\ denied' = FALSE
         /\ position' = IF position = "end" THEN "start" ELSE position
         /\ IF wasPaused THEN Queued("play") ELSE UNCHANGED tasks
         /\ UNCHANGED playing

(* pause().                                                                 *)
Pause(wasPaused) ==
  /\ paused' = TRUE
  /\ IF wasPaused THEN UNCHANGED tasks ELSE Queued("pause")
  /\ UNCHANGED denied

-----------------------------------------------------------------------------
(* loadAndPlay.  Setting src drops the element's tasks and pauses it; the    *)
(* promise of an earlier play() is rejected while switching is TRUE, so that *)
(* playAudio's catch does nothing, and so is this one's if it is refused.    *)
LoadAndPlay(song, wasPaused) ==
  /\ tracker' = song.id
  /\ switching' = TRUE /\ playing' = TRUE
  /\ pendingSeek' = None /\ progress' = "start"
  /\ src' = song.id /\ ready' = FALSE /\ failed' = FALSE /\ position' = "start"
  /\ \E refused \in BOOLEAN :
       /\ paused' = refused /\ denied' = refused
       /\ tasks' = (IF loadFiresPause /\ ~wasPaused THEN <<"pause">> ELSE <<>>)
                     \o (IF refused THEN <<>> ELSE <<"play">>)

GoTo(i, wasPaused) ==
  /\ index' = i /\ current' = queue[i]
  /\ LoadAndPlay(queue[i], wasPaused)
  /\ UNCHANGED <<queue, repeat, shuffle>>

(* playContext, playSong: a click on a song of a list.                      *)
PlayContext ==
  \E q \in Queues, l \in [Ids -> BOOLEAN] : \E i \in DOMAIN q :
    /\ queue' = [j \in DOMAIN q |-> [id |-> q[j], liked |-> l[q[j]]]]
    /\ index' = i /\ current' = queue'[i]
    /\ LoadAndPlay(queue'[i], paused)
    /\ UNCHANGED <<repeat, shuffle>>

Last == index + 1 > Len(queue) /\ ~repeat /\ (~shuffle \/ Len(queue) = 1)

Following ==
  IF shuffle /\ Len(queue) > 1 THEN DOMAIN queue \ {index}
  ELSE IF index < Len(queue) THEN {index + 1} ELSE {1}

(* The end of the queue stops the element.                                  *)
Stop(wasPaused) ==
  /\ playing' = FALSE /\ switching' = FALSE /\ progress' = "start"
  /\ index' = Len(queue)
  /\ Pause(wasPaused)
  /\ UNCHANGED <<queue, current, repeat, shuffle, pendingSeek, tracker, src, ready, failed>>

Next(wasPaused) ==
  /\ queue # <<>>
  /\ \/ ~Last /\ \E i \in Following : GoTo(i, wasPaused)
     \/ Last /\ Stop(wasPaused)

ClickNext == Next(paused) /\ (Last => UNCHANGED position)

(* prev.                                                                    *)
Restart ==
  /\ queue # <<>> /\ progress # "start"
  /\ progress' = "start"
  /\ position' = IF ready THEN "start" ELSE position
  /\ UNCHANGED <<queue, index, current, playing, repeat, shuffle, pendingSeek, switching, tracker,
                 src, ready, paused, failed, tasks, denied>>

Prev ==
  /\ queue # <<>> /\ progress = "start"
  /\ GoTo(IF index > 1 THEN index - 1 ELSE 1, paused)

(* togglePlay goes by what the page shows.                                  *)
TogglePlay ==
  /\ current # None
  /\ IF playing THEN Pause(paused) /\ UNCHANGED <<playing, position>> ELSE Play(paused)
  /\ UNCHANGED <<queue, index, current, progress, repeat, shuffle, pendingSeek, switching, tracker,
                 src, ready, failed>>

(* seek.                                                                    *)
Seek(target) ==
  /\ current # None
  /\ progress' = target
  /\ pendingSeek' = IF ready THEN None ELSE target
  /\ position' = IF ready THEN target ELSE position
  /\ UNCHANGED <<queue, index, current, playing, repeat, shuffle, switching, tracker,
                 src, ready, paused, failed, tasks, denied>>

Toggle ==
  /\ \/ repeat' = ~repeat /\ UNCHANGED shuffle
     \/ shuffle' = ~shuffle /\ UNCHANGED repeat
  /\ UNCHANGED <<queue, index, current, playing, progress, pendingSeek, switching, tracker,
                 element>>

(* Mistake: the entry of the queue keeps the former value.                  *)
WithLikeLost(liked) == queue

WithLike(liked) == [queue EXCEPT ![index].liked = liked]

SetLiked(liked) ==
  /\ current # None
  /\ current' = [current EXCEPT !.liked = liked]
  /\ queue' = WithLike(liked)
  /\ UNCHANGED <<index, playing, progress, repeat, shuffle, pendingSeek, switching, tracker,
                 element>>

(* Mistake: the listening of the former account goes on.                    *)
TrackerKept == tracker

TrackerCleared == None

(* The account changes.                                                     *)
ClearSession ==
  /\ queue' = <<>> /\ index' = 0 /\ current' = None
  /\ playing' = FALSE /\ progress' = "start" /\ repeat' = FALSE /\ shuffle' = FALSE
  /\ pendingSeek' = None /\ switching' = FALSE
  /\ tracker' = TrackerCleared
  /\ src' = None /\ ready' = FALSE /\ paused' = TRUE /\ failed' = FALSE /\ position' = "start"
  /\ tasks' = IF loadFiresPause /\ ~paused THEN <<"pause">> ELSE <<>>
  /\ denied' = FALSE

-----------------------------------------------------------------------------
(* Tasks of the element, and their listeners.                               *)

Dispatch(task) == tasks # <<>> /\ Head(tasks) = task

(* Mistake: the play event does not end the swap.                           *)
PlayEventSwapping ==
  /\ Dispatch("play")
  /\ tasks' = Tail(tasks)
  /\ IF current = None THEN UNCHANGED playing ELSE playing' = TRUE
  /\ UNCHANGED <<queue, index, current, progress, repeat, shuffle, pendingSeek, switching, tracker,
                 src, ready, paused, failed, position, denied>>

PlayEvent ==
  /\ Dispatch("play")
  /\ tasks' = Tail(tasks)
  /\ IF current = None THEN UNCHANGED <<playing, switching>>
     ELSE playing' = TRUE /\ switching' = FALSE
  /\ UNCHANGED <<queue, index, current, progress, repeat, shuffle, pendingSeek, tracker,
                 src, ready, paused, failed, position, denied>>

(* The first pause event after a swap is taken for the swap's own.          *)
PauseEvent ==
  /\ Dispatch("pause")
  /\ tasks' = Tail(tasks)
  /\ switching' = FALSE
  /\ playing' = (playing /\ switching)
  /\ progress' = IF position = "end" THEN "far" ELSE position
  /\ UNCHANGED <<queue, index, current, repeat, shuffle, pendingSeek, tracker,
                 src, ready, paused, failed, position, denied>>

(* loadedmetadata: updateDuration applies the seek that waits.              *)
MetadataEvent ==
  /\ Dispatch("metadata")
  /\ tasks' = Tail(tasks)
  /\ IF pendingSeek = None THEN UNCHANGED <<progress, position>>
     ELSE progress' = pendingSeek /\ position' = pendingSeek
  /\ pendingSeek' = None
  /\ UNCHANGED <<queue, index, current, playing, repeat, shuffle, switching, tracker,
                 src, ready, paused, failed, denied>>

(* The source cannot be had.                                                *)
ErrorEvent ==
  /\ Dispatch("error")
  /\ tasks' = Tail(tasks)
  /\ failed' = TRUE /\ switching' = FALSE
  /\ playing' = (playing /\ current = None)
  /\ UNCHANGED <<queue, index, current, progress, repeat, shuffle, pendingSeek, tracker,
                 src, ready, paused, position, denied>>

(* The track ends: the element pauses, fires pause and then ended.          *)
EndedEvent ==
  LET wasPaused == paused \/ position = "end" IN
  /\ Dispatch("ended")
  /\ \/ ~repeat /\ ~Last /\ \E i \in Following : GoTo(i, wasPaused)
     \/ /\ Last
        /\ playing' = FALSE /\ switching' = FALSE /\ progress' = "start" /\ index' = Len(queue)
        /\ paused' = TRUE
        /\ tasks' = IF wasPaused THEN Tail(tasks) ELSE Append(Tail(tasks), "pause")
        /\ UNCHANGED <<queue, current, repeat, shuffle, pendingSeek, tracker,
                       src, ready, failed, position, denied>>
     \/ /\ repeat
        /\ tracker' = current.id
        /\ position' = "start" /\ progress' = "start"
        /\ switching' = FALSE
        /\ \E refused \in Refusals(wasPaused) :
             /\ paused' = refused /\ denied' = (denied /\ refused)
             /\ tasks' = IF wasPaused /\ ~refused THEN Append(Tail(tasks), "play") ELSE Tail(tasks)
             /\ playing' = (playing /\ ~refused /\ ~wasPaused)
        /\ UNCHANGED <<queue, index, current, repeat, shuffle, pendingSeek, src, ready, failed>>

(* What the element does by itself.                                         *)
Answered == ready \/ failed \/ \E i \in DOMAIN tasks : tasks[i] = "error"

Loads ==
  /\ src # None /\ ~Answered /\ Queued("metadata")
  /\ ready' = TRUE
  /\ UNCHANGED <<shown, src, paused, failed, position, denied>>

Fails ==
  /\ src # None /\ ~Answered /\ Queued("error")
  /\ UNCHANGED <<shown, src, ready, paused, failed, position, denied>>

(* timeupdate.                                                              *)
Plays ==
  /\ ready /\ ~paused /\ ~failed /\ position = "start"
  /\ position' = "far" /\ progress' = "far"
  /\ UNCHANGED <<queue, index, current, playing, repeat, shuffle, pendingSeek, switching, tracker,
                 src, ready, paused, failed, tasks, denied>>

Ends ==
  /\ ready /\ ~paused /\ ~failed /\ position = "far" /\ Queued("ended")
  /\ position' = "end"
  /\ UNCHANGED <<shown, src, ready, paused, failed, denied>>

(* Headphones, a call, the keys of the system (Media Session).              *)
SystemPauses ==
  /\ src # None /\ ~paused /\ Pause(FALSE)
  /\ UNCHANGED <<shown, src, ready, failed, position>>

SystemPlays ==
  /\ src # None /\ paused /\ Play(TRUE)
  /\ UNCHANGED <<queue, index, current, progress, repeat, shuffle, pendingSeek, switching, tracker,
                 src, ready, failed>>

-----------------------------------------------------------------------------
Init ==
  /\ loadFiresPause \in BOOLEAN
  /\ queue = <<>> /\ index = 0 /\ current = None
  /\ playing = FALSE /\ progress = "start" /\ repeat = FALSE /\ shuffle = FALSE
  /\ pendingSeek = None /\ switching = FALSE /\ tracker = None
  /\ src = None /\ ready = FALSE /\ paused = TRUE /\ failed = FALSE /\ position = "start"
  /\ tasks = <<>> /\ denied = FALSE

Click ==
  \/ PlayContext \/ ClickNext \/ Restart \/ Prev \/ TogglePlay \/ Toggle \/ ClearSession
  \/ \E target \in {"start", "far"} : Seek(target)
  \/ \E liked \in BOOLEAN : SetLiked(liked)

Event == PlayEvent \/ PauseEvent \/ MetadataEvent \/ ErrorEvent \/ EndedEvent

Media == Loads \/ Fails \/ Plays \/ Ends \/ SystemPauses \/ SystemPlays

Step == (Click \/ Event \/ Media) /\ UNCHANGED loadFiresPause

Spec == Init /\ [][Step]_vars

-----------------------------------------------------------------------------
(* Properties.                                                              *)

TypeOK ==
  /\ queue \in Seq(Entry) /\ current \in Entry \cup {None}
  /\ {playing, repeat, shuffle, switching, ready, paused, failed, denied} \subseteq BOOLEAN
  /\ progress \in {"start", "far"} /\ pendingSeek \in {"start", "far", None}
  /\ {tracker, src} \subseteq Ids \cup {None}
  /\ position \in {"start", "far", "end"}
  /\ tasks \in Seq(Task)

(* The current song is the entry of the queue at currentIndex, liked or not, *)
(* whatever was skipped, shuffled, repeated or toggled before.               *)
CurrentInQueue ==
  IF current = None THEN queue = <<>> ELSE index \in DOMAIN queue /\ queue[index] = current

(* A listening is credited to the song the element plays, which is the one the *)
(* page shows; none outlives the account.                                      *)
CreditsCurrent ==
  /\ src = tracker
  /\ tracker = IF current = None THEN None ELSE current.id

(* Types, and one current song in queue, element and tracker.               *)
Sound == TypeOK /\ CurrentInQueue /\ CreditsCurrent

(* Once the element has no task left the page shows it as playing exactly if it *)
(* is: the pause events of source swaps neither stick nor swallow real ones, and *)
(* a refused play() is seen.  Only one refused during a swap is not, until the   *)
(* next that is accepted: the page shows a song as playing that has not begun.   *)
HonestWhenSettled == tasks = <<>> /\ ~failed => playing = ~paused \/ (denied /\ paused)

(* "the UI state stays honest (paused)" when play() is refused (the comment on *)
(* playAudio).                                                                 *)
HonestWhenRefused == tasks = <<>> /\ playing => ~paused

(* "Restart the current track" (the comment in prev): a seek from before the *)
(* restart does not move it on.                                              *)
RestartForgetsSeek == [][Restart => pendingSeek' = None]_vars

=============================================================================
