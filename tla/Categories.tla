------------------------------- MODULE Categories -------------------------------
(*******************************************************************************)
(* The songs of a category: the administrators' forms (web/assets/admin.js),   *)
(* the transactions their saves become (internal/store/categories.go), songs   *)
(* assigned one by one by uploads and scans, and what deletes the category or  *)
(* a song.                                                                     *)
(*                                                                             *)
(* PostgreSQL at READ COMMITTED: a statement sees what was committed before it *)
(* began, waits for rows others hold, and passes over those that are gone by   *)
(* then.  Positions are left out: a list is the set of its songs.              *)
(*******************************************************************************)
EXTENDS Naturals, FiniteSets

CONSTANTS
  Songs,
  Forms,      \* forms of administrators, all of one category
  Upload      \* whoever assigns single songs

CategoriesAssumption == Upload \notin Forms

VARIABLES
  live,    \* the category exists
  songs,   \* the songs that exist
  rows,    \* category_songs, committed
  by,      \* by[s]: which save, or who, put the row of s there
  form     \* form[f]: a form and the transaction of its save

vars == <<live, songs, rows, by, form>>

Form == [at : {"closed", "open", "name", "replace", "delete", "insert", "commit"},
         loaded : BOOLEAN,          \* the category's songs have come
         list : SUBSET Songs,       \* assigned.songIds
         sent : SUBSET Songs,       \* songIds of the request
         named : BOOLEAN,           \* the request has a name
         victims : SUBSET Songs,    \* rows the DELETE found
         gone : SUBSET Songs,       \* rows deleted, not committed
         put : SUBSET Songs,        \* rows inserted, not committed
         crossed : BOOLEAN]         \* history: another save ran beside it, as only those
                                    \* can of which one has no name

Closed == [at |-> "closed", loaded |-> FALSE, list |-> {}, sent |-> {},
           named |-> FALSE, victims |-> {}, gone |-> {}, put |-> {}, crossed |-> FALSE]

Origin == [form : Forms \cup {Upload}, save : {"alone", "named", "blank"}]

Assigned == [form |-> Upload, save |-> "alone"]

Saved(f) ==
  [form |-> f,
   save |-> IF ~form[f].crossed THEN "alone" ELSE IF form[f].named THEN "named" ELSE "blank"]

-----------------------------------------------------------------------------
(* The form.                                                                *)

Open(f) ==
  /\ live /\ form[f].at = "closed"
  /\ form' = [form EXCEPT ![f] = [Closed EXCEPT !.at = "open"]]
  /\ UNCHANGED <<live, songs, rows, by>>

(* The answer of CategoryDetail, which may never come.                      *)
Load(f) ==
  /\ live /\ form[f].at # "closed" /\ ~form[f].loaded
  /\ form' = [form EXCEPT ![f].loaded = TRUE, ![f].list = rows]
  /\ UNCHANGED <<live, songs, rows, by>>

Click(f, s) ==
  /\ form[f].at = "open"
  /\ form' = [form EXCEPT ![f].list = IF s \in @ THEN @ \ {s} ELSE @ \cup {s}]
  /\ UNCHANGED <<live, songs, rows, by>>

Cancel(f) ==
  /\ form[f].at = "open"
  /\ form' = [form EXCEPT ![f] = Closed]
  /\ UNCHANGED <<live, songs, rows, by>>

(* A save without a name begins with the songs.                             *)
Save(f) ==
  /\ form[f].at = "open"
  /\ \E named \in BOOLEAN :
       form' = [form EXCEPT ![f].at = IF named THEN "name" ELSE "replace",
                            ![f].sent = form[f].list, ![f].named = named]
  /\ UNCHANGED <<live, songs, rows, by>>

-----------------------------------------------------------------------------
(* UpdateCategory.                                                          *)

(* The UPDATE of the name holds the category's row until the end.           *)
Holds(f) == live /\ form[f].named /\ form[f].at \in {"replace", "delete", "insert", "commit"}

(* Mistake: the name is only written if it is another one.                  *)
RenameIfNew(f) ==
  /\ form[f].at = "name"
  /\ form' = [form EXCEPT ![f].at = "replace"]
  /\ UNCHANGED <<live, songs, rows, by>>

Rename(f) ==
  /\ form[f].at = "name"
  /\ \A g \in Forms \ {f} : ~Holds(g)
  /\ form' = [form EXCEPT ![f].at = "replace"]
  /\ UNCHANGED <<live, songs, rows, by>>

Crosses(f, g) ==
  /\ g # f /\ form[g].at \in {"delete", "insert", "commit"}
  /\ ~(form[f].named /\ form[g].named)

BeginDelete(f) ==
  /\ form[f].at = "replace"
  /\ form' = [g \in Forms |->
       IF g = f THEN [form[f] EXCEPT !.at = "delete", !.victims = rows,
                                     !.crossed = \E h \in Forms : Crosses(f, h)]
       ELSE [form[g] EXCEPT !.crossed = @ \/ Crosses(f, g)]]
  /\ UNCHANGED <<live, songs, rows, by>>

HeldByOthers(f) == UNION {form[g].gone \cup form[g].put : g \in Forms \ {f}}

Delete(f) ==
  /\ form[f].at = "delete"
  /\ form[f].victims \cap HeldByOthers(f) = {}
  /\ form' = [form EXCEPT ![f].at = "insert", ![f].gone = form[f].victims]
  /\ UNCHANGED <<live, songs, rows, by>>

(* Mistake: no foreign keys.                                                *)
InsertUnchecked(f) ==
  /\ form[f].at = "insert"
  /\ form[f].sent \cap HeldByOthers(f) = {}
  /\ form' = [form EXCEPT ![f].at = "commit", ![f].put = form[f].sent \ (rows \ form[f].gone)]
  /\ UNCHANGED <<live, songs, rows, by>>

(* ON CONFLICT DO NOTHING, the foreign keys permitting.                     *)
Insert(f) ==
  /\ form[f].at = "insert"
  /\ form[f].sent \cap HeldByOthers(f) = {}
  /\ form[f].sent # {} => live /\ form[f].sent \subseteq songs
  /\ form' = [form EXCEPT ![f].at = "commit", ![f].sent = {},
                          ![f].put = form[f].sent \ (rows \ form[f].gone)]
  /\ UNCHANGED <<live, songs, rows, by>>

(* The rows deleted are gone for a DELETE that waits for them.              *)
Commit(f) ==
  /\ form[f].at = "commit"
  /\ rows' = (rows \ form[f].gone) \cup form[f].put
  /\ by' = [s \in rows' |-> IF s \in form[f].put THEN Saved(f) ELSE by[s]]
  /\ form' = [g \in Forms |-> IF g = f THEN Closed
                              ELSE [form[g] EXCEPT !.victims = @ \ form[f].gone]]
  /\ UNCHANGED <<live, songs>>

(* An error, a foreign key's or any other; the form stays.                  *)
Fail(f) ==
  /\ form[f].at \notin {"closed", "open"}
  /\ form' = [form EXCEPT ![f] = [@ EXCEPT !.at = "open", !.sent = {}, !.named = FALSE,
                                          !.victims = {}, !.gone = {}, !.put = {},
                                          !.crossed = FALSE]]
  /\ UNCHANGED <<live, songs, rows, by>>

-----------------------------------------------------------------------------
(* The others.                                                              *)

Held == UNION {form[f].gone \cup form[f].put : f \in Forms}

(* AddSongToCategory.                                                       *)
AddSong(s) ==
  /\ live /\ s \in songs \ (rows \cup Held)
  /\ rows' = rows \cup {s}
  /\ by' = [t \in rows' |-> IF t = s THEN Assigned ELSE by[t]]
  /\ UNCHANGED <<live, songs, form>>

(* A scan deletes the song.                                                 *)
Prune(s) ==
  /\ s \in songs \ Held
  /\ songs' = songs \ {s} /\ rows' = rows \ {s} /\ by' = [t \in rows' |-> by[t]]
  /\ form' = [f \in Forms |-> [form[f] EXCEPT !.victims = @ \ {s}]]
  /\ UNCHANGED live

DeleteCategory ==
  /\ live /\ Held = {} /\ \A f \in Forms : ~Holds(f)
  /\ live' = FALSE /\ rows' = {} /\ by' = [t \in {} |-> Assigned]
  /\ form' = [f \in Forms |-> [form[f] EXCEPT !.victims = {}]]
  /\ UNCHANGED songs

-----------------------------------------------------------------------------
Init ==
  /\ live = TRUE /\ songs = Songs
  /\ rows \in SUBSET Songs
  /\ by = [s \in rows |-> Assigned]
  /\ form = [f \in Forms |-> Closed]

Saving(f) == Rename(f) \/ BeginDelete(f) \/ Delete(f) \/ Insert(f) \/ Commit(f) \/ Fail(f)

Next ==
  \/ \E f \in Forms : Open(f) \/ Load(f) \/ Cancel(f) \/ Save(f) \/ Saving(f)
  \/ \E f \in Forms, s \in Songs : Click(f, s)
  \/ \E s \in Songs : AddSong(s) \/ Prune(s)
  \/ DeleteCategory

Spec == Init /\ [][Next]_vars

-----------------------------------------------------------------------------
(* Properties.                                                              *)

(* Types; and a transaction that is over holds no rows, while those that others *)
(* have deleted are still there.                                                *)
TypeOK ==
  /\ live \in BOOLEAN /\ songs \subseteq Songs /\ rows \subseteq Songs
  /\ by \in [rows -> Origin]
  /\ \A f \in Forms : form[f] \in Form
  /\ \A f \in Forms : form[f].gone \subseteq rows
  /\ \A f \in Forms : form[f].at \in {"closed", "open"} => form[f].gone = {} /\ form[f].put = {}

(* Neither a category nor a song that is deleted while a list with it is saved *)
(* leaves a row behind.                                                        *)
NoOrphans == rows \subseteq (IF live THEN songs ELSE {})

(* A category has the list of one save and what was assigned since (UpdateCategory: *)
(* "renames a category and optionally replaces its songs").  Songs of two saves     *)
(* come together only if one of the two was sent without a name and they ran side   *)
(* by side: of a save that ran alone, and of any but one with a name, none stay.    *)
OneList ==
  \A s, t \in rows :
    {by[s].form, by[t].form} \subseteq Forms /\ by[s] # by[t] =>
      "alone" \notin {by[s].save, by[t].save} /\ "blank" \in {by[s].save, by[t].save}

(* The same without a condition.                                            *)
OnlyOneList == \A s, t \in rows : {by[s].form, by[t].form} \subseteq Forms => by[s] = by[t]

(* Types, and lists as they were saved.                                     *)
Sound == TypeOK /\ NoOrphans /\ OneList

(* The save of a form to which the category's songs have not come takes none away *)
(* ("renames a category and optionally replaces its songs").                      *)
RenameKeepsSongs ==
  [][\A f \in Forms : Commit(f) /\ ~form[f].loaded => rows \subseteq rows']_vars

=============================================================================
