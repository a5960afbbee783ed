------------------------------ MODULE FolderUpload ------------------------------
(*******************************************************************************)
(* uploadFolderForm (web/assets/admin.js): the audio files of a folder are     *)
(* sent one after the other into one category.  The loop reads the selection   *)
(* and the category anew for every file, while both can still be changed.      *)
(*******************************************************************************)
EXTENDS Naturals, Sequences, FiniteSets

CONSTANTS
  Folders,        \* selections: sequences of audio files
  Offered, None,  \* the categories of the form
  MaxLoops, MaxChoices   \* bounds: how often the loop is started, and something chosen

Files == UNION {{files[i] : i \in DOMAIN files} : files \in Folders}

FolderUploadAssumption ==
  /\ None \notin Offered /\ {MaxLoops, MaxChoices} \subseteq Nat
  /\ Folders \subseteq Seq(Files)

VARIABLES
  selected, category,
  enabled,      \* the button is not disabled
  label,        \* "send" ("Enviar") or "close" ("Fechar")
  open,         \* the form is on the page
  loops,        \* start, as often as it was called and is under way or over
  uploads,      \* what the server was sent: file, category, by which loop
  asked,        \* what was selected when the button was last clicked as "Enviar"
  touched,      \* selection or category changed since
  choices       \* how often one of them changed

vars == <<selected, category, enabled, label, open, loops, uploads, asked, touched, choices>>

Startable(files, cat) == files # <<>> /\ cat # None

Chosen ==
  /\ choices < MaxChoices /\ choices' = choices + 1
  /\ touched' = TRUE

(* A folder chosen or dropped: updateFiles, updateStartBtn.                 *)
Choose(files) ==
  /\ Chosen /\ open /\ files # selected
  /\ selected' = files /\ enabled' = Startable(files, category)
  /\ UNCHANGED <<category, label, open, loops, uploads, asked>>

ChooseCategory(c) ==
  /\ Chosen /\ open /\ c # category
  /\ category' = c /\ enabled' = Startable(selected, c)
  /\ UNCHANGED <<selected, label, open, loops, uploads, asked>>

(* The overlay is clicked, or "Cancelar" before it is disabled; the loop goes on. *)
Dismiss ==
  /\ open
  /\ open' = FALSE
  /\ UNCHANGED <<selected, category, enabled, label, loops, uploads, asked, touched, choices>>

(* The files answered, and those that failed, of which the names are shown. *)
Loop == [i |-> 1, ok |-> 0, fails |-> 0, at |-> "next"]

(* The listener given to el(), which stays when onclick is set.             *)
Starts ==
  IF Startable(selected, category)
  THEN loops' = Append(loops, Loop) /\ enabled' = FALSE
  ELSE UNCHANGED <<loops, enabled>>

ClickSend ==
  /\ open /\ enabled /\ label = "send" /\ Len(loops) < MaxLoops
  /\ Starts
  /\ asked' = [files |-> selected, category |-> category] /\ touched' = FALSE
  /\ UNCHANGED <<selected, category, label, open, uploads, choices>>

ClickClose ==
  /\ open /\ enabled /\ label = "close" /\ Len(loops) < MaxLoops
  /\ Starts
  /\ open' = FALSE
  /\ UNCHANGED <<selected, category, label, uploads, asked, touched, choices>>

(* The head of the loop, as far as the request.                             *)
Send(l) ==
  /\ loops[l].at = "next" /\ loops[l].i <= Len(selected)
  /\ uploads' = Append(uploads, [file |-> selected[loops[l].i], category |-> category, loop |-> l])
  /\ loops' = [loops EXCEPT ![l].at = "sent"]
  /\ UNCHANGED <<selected, category, enabled, label, open, asked, touched, choices>>

Answer(l) ==
  /\ loops[l].at = "sent"
  /\ loops' = [loops EXCEPT ![l].at = "next", ![l].i = @ + 1, ![l].ok = @ + 1]
  /\ UNCHANGED <<selected, category, enabled, label, open, uploads, asked, touched, choices>>

(* Mistake: the first failure ends the loop.                                *)
AfterFailureEnds(loop) == Len(selected) + 1

(* The loop goes on.                                                        *)
AfterFailure(loop) == loop.i + 1

(* An error, or an answer that is lost.                                     *)
AnswerFails(l) ==
  /\ loops[l].at = "sent"
  /\ loops' = [loops EXCEPT ![l].at = "next", ![l].i = AfterFailure(loops[l]), ![l].fails = @ + 1]
  /\ UNCHANGED <<selected, category, enabled, label, open, uploads, asked, touched, choices>>

Finish(l) ==
  /\ loops[l].at = "next" /\ loops[l].i > Len(selected)
  /\ loops' = [loops EXCEPT ![l].at = "over"]
  /\ enabled' = TRUE /\ label' = "close"
  /\ UNCHANGED <<selected, category, open, uploads, asked, touched, choices>>

-----------------------------------------------------------------------------
Init ==
  /\ selected = <<>> /\ category = None /\ enabled = TRUE /\ label = "send" /\ open = TRUE
  /\ loops = <<>> /\ uploads = <<>>
  /\ asked = [files |-> <<>>, category |-> None] /\ touched = FALSE /\ choices = 0

Next ==
  \/ \E files \in Folders : Choose(files)
  \/ \E c \in Offered \cup {None} : ChooseCategory(c)
  \/ Dismiss \/ ClickSend \/ ClickClose
  \/ \E l \in DOMAIN loops : Send(l) \/ Answer(l) \/ AnswerFails(l) \/ Finish(l)

Spec == Init /\ [][Next]_vars

-----------------------------------------------------------------------------
(* Properties.                                                              *)

SentFile == [file : Files, category : Offered \cup {None}, loop : Nat]
LoopState == [i : Nat \ {0}, ok : Nat, fails : Nat, at : {"next", "sent", "over"}]
Asked == [files : Folders \cup {<<>>}, category : Offered \cup {None}]

TypeOK ==
  /\ selected \in Folders \cup {<<>>} /\ category \in Offered \cup {None}
  /\ enabled \in BOOLEAN /\ open \in BOOLEAN /\ touched \in BOOLEAN
  /\ label \in {"send", "close"} /\ choices \in Nat
  /\ loops \in Seq(LoopState)
  /\ uploads \in Seq(SentFile) /\ asked \in Asked

Of(l) == {j \in DOMAIN uploads : uploads[j].loop = l}

(* The count a loop ends with is that of its answers, whatever was chosen meanwhile. *)
CountsAnswers ==
  \A l \in DOMAIN loops :
    loops[l].ok + loops[l].fails + (IF loops[l].at = "sent" THEN 1 ELSE 0) = Cardinality(Of(l))

(* If nothing else is chosen meanwhile, every file goes into the category, in order and *)
(* once, also after others failed ("Todas as músicas ... serão enviadas em sequência",  *)
(* admin.js:622; "Todas as músicas da pasta entram nesta categoria", admin.js:670).     *)
SendsAsAsked ==
  ~touched /\ Len(loops) = 1 =>
    /\ \A j \in DOMAIN uploads : /\ j \in DOMAIN asked.files /\ uploads[j].file = asked.files[j]
                                 /\ uploads[j].category = asked.category
    /\ loops[1].at = "over" => Len(uploads) = Len(asked.files)

Sound == TypeOK /\ CountsAnswers /\ SendsAsAsked

(* One click of "Enviar" sends a file once; "Fechar" (admin.js:734) only closes. *)
ClosingOnlyCloses == [][ClickClose => loops' = loops]_vars

=============================================================================
