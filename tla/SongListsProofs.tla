----------------------------- MODULE SongListsProofs -----------------------------
(***********************************************************************************)
(* Theorems about the specifications of MCSongLists: an inductive invariant each,  *)
(* for all values of the constants.  What categories, albums, artists and lists    *)
(* say agrees, a pruning takes what it says, a folder arrives as its form was, and *)
(* a signal moves no songs that have nothing in common with its own, and what the  *)
(* folds of Recommendations select is what two rounds are to select.               *)
(***********************************************************************************)
EXTENDS MCSongLists, FiniteSets, FiniteSetTheorems, SequenceTheorems, WellFoundedInduction,
        TLAPS

-----------------------------------------------------------------------------
(* Categories: the inductive invariant.                                     *)

(* The rows that saves put there.                                           *)
SavedRows == {s \in rows : by[s].form \in Forms}

Within == {"replace", "delete", "insert", "commit"}
Under == {"delete", "insert", "commit"}

(* A save may leave a row of another one that ran beside it, if one of the two has *)
(* no name.                                                                        *)
Excused(r, s) ==
  r.crossed = TRUE /\ by[s].save # "alone" /\ (r.named = TRUE => by[s].save = "blank")

(* What a transaction knows is committed, or its own, and it takes every row of *)
(* another save along, but for those excused.                                   *)
FormOK(r) ==
  /\ r \in Categories!Form
  /\ r.victims \subseteq rows /\ r.gone \subseteq rows /\ r.put \subseteq songs
  /\ r.put # {} => live
  /\ r.at \notin {"insert", "commit"} => r.gone = {}
  /\ r.at # "commit" => r.put = {}
  /\ live /\ r.at = "delete" => \A s \in SavedRows : s \in r.victims \/ Excused(r, s)
  /\ live /\ r.at \in {"insert", "commit"} => \A s \in SavedRows : s \in r.gone \/ Excused(r, s)

(* Of two transactions with a name one waits for the category's row; others know *)
(* of each other; and none holds rows of another.                                *)
Apart(q, r) ==
  /\ live /\ q.at \in Within /\ r.at \in Within => ~(q.named = TRUE /\ r.named = TRUE)
  /\ live /\ q.at \in Under /\ r.at \in Under => q.crossed = TRUE /\ r.crossed = TRUE
  /\ (q.gone \cup q.put) \cap (r.gone \cup r.put) = {}

CategoryRows ==
  /\ live \in BOOLEAN /\ songs \subseteq CategorySongs /\ rows \subseteq CategorySongs
  /\ by \in [rows -> Categories!Origin]
  /\ Categories!NoOrphans /\ Categories!OneList

CategoryInv ==
  /\ CategoryRows
  /\ DOMAIN form = Forms /\ \A f \in Forms : FormOK(form[f])
  /\ \A f, g \in Forms : f # g => Apart(form[f], form[g])

LEMMA ClosedIsOK ==
  /\ FormOK(Categories!Closed) /\ Categories!Closed.at = "closed"
  /\ Categories!Closed.gone = {} /\ Categories!Closed.put = {}
<1> DEFINE c == Categories!Closed
<1>1. c \in Categories!Form  BY DEF Categories!Closed, Categories!Form
<1>2. c.at = "closed" /\ c.victims = {} /\ c.gone = {} /\ c.put = {}  BY DEF Categories!Closed
<1> HIDE DEF c
<1>3. FormOK(c)  BY <1>1, <1>2 DEF FormOK
<1> QED  BY <1>2, <1>3 DEF c

LEMMA AssignedIsNobodys ==
  Categories!Assigned \in Categories!Origin /\ Categories!Assigned.form \notin Forms
<1>1. Upload \notin Forms  BY SongListsAssumption DEF Categories!CategoriesAssumption
<1> QED  BY <1>1 DEF Categories!Assigned, Categories!Origin

LEMMA ApartIsMutual == ASSUME NEW q, NEW r, Apart(q, r) PROVE Apart(r, q)
BY DEF Apart

(* Forms move on, and nothing is committed.                                 *)
LEMMA FormsMove ==
  ASSUME CategoryInv, UNCHANGED <<live, songs, rows, by>>, DOMAIN form' = Forms,
         \A f \in Forms : FormOK(form'[f]),
         \A f, g \in Forms : f # g => Apart(form'[f], form'[g])
  PROVE  CategoryInv'
<1>1. CategoryRows'
  BY DEF CategoryInv, CategoryRows, Categories!NoOrphans, Categories!OneList
<1>2. ASSUME NEW g \in Forms PROVE FormOK(form[g])'
  <2>1. PICK r : r = form'[g] /\ FormOK(r)  OBVIOUS
  <2>2. SavedRows' = SavedRows  BY DEF SavedRows
  <2>3. \A s : Excused(r, s)' <=> Excused(r, s)
    <3>1. PICK b : b = by /\ b = by'  OBVIOUS
    <3> QED  BY <2>1, <3>1 DEF Excused
  <2> QED  BY <2>1, <2>2, <2>3 DEF FormOK, Excused
<1>3. ASSUME NEW f \in Forms, NEW g \in Forms, f # g PROVE Apart(form[f], form[g])'
  <2>1. PICK q, r : q = form'[f] /\ r = form'[g] /\ Apart(q, r)  BY <1>3
  <2> QED  BY <2>1 DEF Apart
<1> QED  BY <1>1, <1>2, <1>3 DEF CategoryInv

(* One form does.                                                           *)
LEMMA FormMoves ==
  ASSUME CategoryInv, NEW f \in Forms, NEW t, FormOK(t), form' = [form EXCEPT ![f] = t],
         UNCHANGED <<live, songs, rows, by>>, \A g \in Forms \ {f} : Apart(t, form[g])
  PROVE  CategoryInv'
<1>1. /\ DOMAIN form' = Forms /\ form'[f] = t
      /\ \A g \in Forms : g # f => form'[g] = form[g]
  BY DEF CategoryInv
<1>2. \A g \in Forms : FormOK(form'[g])  BY <1>1 DEF CategoryInv
<1>3. ASSUME NEW g \in Forms, NEW h \in Forms, g # h PROVE Apart(form'[g], form'[h])
  <2>1. CASE g = f  BY <1>1, <1>3, <2>1
  <2>2. CASE h = f  BY <1>1, <1>3, <2>2, ApartIsMutual
  <2>3. CASE g # f /\ h # f  BY <1>1, <1>3, <2>3 DEF CategoryInv
  <2> QED  BY <2>1, <2>2, <2>3
<1> QED  BY <1>1, <1>2, <1>3, FormsMove

(* A form that is not in a transaction is apart from all.                   *)
LEMMA OutsideIsApart ==
  ASSUME CategoryInv, NEW f \in Forms, NEW t, NEW g \in Forms \ {f},
         t.at \notin Under, t.at \in Within => ~(t.named = TRUE), t.gone = {}, t.put = {}
  PROVE  Apart(t, form[g])
BY DEF Apart

LEMMA FormKeeps ==
  ASSUME CategoryInv, NEW f \in Forms,
         \/ Categories!Open(f) \/ Categories!Load(f) \/ Categories!Cancel(f) \/ Categories!Fail(f)
         \/ \E s \in CategorySongs : Categories!Click(f, s)
  PROVE  CategoryInv'
<1> DEFINE r == form[f]
<1>1. FormOK(r) /\ r \in Categories!Form  BY DEF CategoryInv, FormOK
<1>2. UNCHANGED <<live, songs, rows, by>>
  BY DEF Categories!Open, Categories!Load, Categories!Cancel, Categories!Fail, Categories!Click
<1>3. CASE Categories!Open(f)
  <2>1. PICK t : t = [Categories!Closed EXCEPT !.at = "open"]  OBVIOUS
  <2>2. /\ t \in Categories!Form /\ t.at = "open" /\ t.victims = {} /\ t.gone = {} /\ t.put = {}
    BY <2>1 DEF Categories!Closed, Categories!Form
  <2>3. FormOK(t)  BY <2>2 DEF FormOK
  <2>4. form' = [form EXCEPT ![f] = t]  BY <1>3, <2>1 DEF Categories!Open
  <2>5. t.at \notin Within /\ t.at \notin Under  BY <2>2 DEF Within, Under
  <2>6. \A g \in Forms \ {f} : Apart(t, form[g])  BY <2>2, <2>5, OutsideIsApart
  <2> QED  BY <1>2, <2>3, <2>4, <2>6, FormMoves
<1>4. CASE Categories!Load(f)
  <2>1. PICK t : t = [r EXCEPT !.loaded = TRUE, !.list = rows]  OBVIOUS
  <2>2. rows \subseteq CategorySongs  BY DEF CategoryInv, CategoryRows
  <2>3. t \in Categories!Form  BY <1>1, <2>1, <2>2 DEF Categories!Form
  <2>4. /\ t.at = r.at /\ t.victims = r.victims /\ t.gone = r.gone /\ t.put = r.put
        /\ t.named = r.named /\ t.crossed = r.crossed
    BY <1>1, <2>1 DEF Categories!Form
  <2>5. form' = [form EXCEPT ![f] = t]  BY <1>4, <2>1 DEF Categories!Load
  <2> HIDE DEF r
  <2>6. FormOK(t)  BY <1>1, <2>3, <2>4 DEF FormOK, Excused
  <2>7. \A g \in Forms \ {f} : Apart(r, form[g])  BY DEF CategoryInv, r
  <2>8. \A g \in Forms \ {f} : Apart(t, form[g])  BY <2>4, <2>7 DEF Apart
  <2> QED  BY <1>2, <2>5, <2>6, <2>8, FormMoves
<1>5. CASE Categories!Cancel(f)
  <2>1. form' = [form EXCEPT ![f] = Categories!Closed]  BY <1>5 DEF Categories!Cancel
  <2>2. Categories!Closed.at \notin Within /\ Categories!Closed.at \notin Under
    BY ClosedIsOK DEF Within, Under
  <2>3. \A g \in Forms \ {f} : Apart(Categories!Closed, form[g])
    BY <2>2, ClosedIsOK, OutsideIsApart
  <2> QED  BY <1>2, <2>1, <2>3, ClosedIsOK, FormMoves
<1>6. CASE Categories!Fail(f)
  <2>1. PICK t : t = [r EXCEPT !.at = "open", !.sent = {}, !.named = FALSE, !.victims = {},
                               !.gone = {}, !.put = {}, !.crossed = FALSE]
    OBVIOUS
  <2>2. t \in Categories!Form  BY <1>1, <2>1 DEF Categories!Form
  <2>3. t.at = "open" /\ t.victims = {} /\ t.gone = {} /\ t.put = {}
    BY <1>1, <2>1 DEF Categories!Form
  <2>4. FormOK(t)  BY <2>2, <2>3 DEF FormOK
  <2>5. form' = [form EXCEPT ![f] = t]  BY <1>6, <2>1 DEF Categories!Fail
  <2>6. t.at \notin Within /\ t.at \notin Under  BY <2>3 DEF Within, Under
  <2>7. \A g \in Forms \ {f} : Apart(t, form[g])  BY <2>3, <2>6, OutsideIsApart
  <2> QED  BY <1>2, <2>4, <2>5, <2>7, FormMoves
<1>7. ASSUME NEW s \in CategorySongs, Categories!Click(f, s) PROVE CategoryInv'
  <2>1. PICK t : t = [r EXCEPT !.list = IF s \in @ THEN @ \ {s} ELSE @ \cup {s}]
    OBVIOUS
  <2>2. r.list \subseteq CategorySongs /\ r.at = "open"
    BY <1>1, <1>7 DEF Categories!Form, Categories!Click
  <2>3. t \in Categories!Form  BY <1>1, <2>1, <2>2 DEF Categories!Form
  <2>4. t.at = "open" /\ t.victims = r.victims /\ t.gone = r.gone /\ t.put = r.put
    BY <1>1, <2>1, <2>2 DEF Categories!Form
  <2>5. form' = [form EXCEPT ![f] = t]  BY <1>7, <2>1 DEF Categories!Click
  <2> HIDE DEF r
  <2>6. FormOK(t) /\ t.gone = {} /\ t.put = {}  BY <1>1, <2>2, <2>3, <2>4 DEF FormOK
  <2>7. t.at \notin Within /\ t.at \notin Under  BY <2>4 DEF Within, Under
  <2>8. \A g \in Forms \ {f} : Apart(t, form[g])  BY <2>6, <2>7, OutsideIsApart
  <2> QED  BY <1>2, <2>5, <2>6, <2>8, FormMoves
<1> QED  BY <1>3, <1>4, <1>5, <1>6, <1>7

LEMMA SaveKeeps ==
  ASSUME CategoryInv, NEW f \in Forms, Categories!Save(f)
  PROVE  CategoryInv'
<1> DEFINE r == form[f]
<1>1. FormOK(r) /\ r \in Categories!Form /\ r.at = "open"
  BY DEF CategoryInv, FormOK, Categories!Save
<1>2. PICK n \in BOOLEAN :
        form' = [form EXCEPT ![f].at = IF n THEN "name" ELSE "replace",
                             ![f].sent = form[f].list, ![f].named = n]
  BY DEF Categories!Save
<1>3. PICK t : t = [r EXCEPT !.at = IF n THEN "name" ELSE "replace", !.sent = r.list, !.named = n]
  OBVIOUS
<1>4. form' = [form EXCEPT ![f] = t]  BY <1>2, <1>3 DEF CategoryInv
<1>5. t \in Categories!Form  BY <1>1, <1>3 DEF Categories!Form
<1>6. /\ t.at = (IF n THEN "name" ELSE "replace") /\ t.named = n
      /\ t.victims = r.victims /\ t.gone = r.gone /\ t.put = r.put
  BY <1>1, <1>3 DEF Categories!Form
<1>7. UNCHANGED <<live, songs, rows, by>>  BY DEF Categories!Save
<1> HIDE DEF r
<1>8. FormOK(t) /\ t.gone = {} /\ t.put = {}  BY <1>1, <1>5, <1>6 DEF FormOK
<1>9. t.at \notin Under /\ (t.at \in Within => ~(t.named = TRUE))  BY <1>6 DEF Within, Under
<1>10. \A g \in Forms \ {f} : Apart(t, form[g])  BY <1>8, <1>9, OutsideIsApart
<1> QED  BY <1>4, <1>7, <1>8, <1>10, FormMoves

LEMMA RenameKeeps ==
  ASSUME CategoryInv, NEW f \in Forms, Categories!Rename(f)
  PROVE  CategoryInv'
<1> DEFINE r == form[f]
<1>1. FormOK(r) /\ r \in Categories!Form /\ r.at = "name"
  BY DEF CategoryInv, FormOK, Categories!Rename
<1>2. PICK t : t = [r EXCEPT !.at = "replace"]  OBVIOUS
<1>3. form' = [form EXCEPT ![f] = t]  BY <1>2 DEF Categories!Rename
<1>4. t \in Categories!Form  BY <1>1, <1>2 DEF Categories!Form
<1>5. t.at = "replace" /\ t.victims = r.victims /\ t.gone = r.gone /\ t.put = r.put
  BY <1>1, <1>2 DEF Categories!Form
<1>6. UNCHANGED <<live, songs, rows, by>>  BY DEF Categories!Rename
<1>7. \A g \in Forms \ {f} : live /\ form[g].at \in Within => ~(form[g].named = TRUE)
  BY DEF Categories!Rename, Categories!Holds, Within
<1> HIDE DEF r
<1>8. FormOK(t) /\ t.gone = {} /\ t.put = {}  BY <1>1, <1>4, <1>5 DEF FormOK
<1>9. \A g \in Forms \ {f} : Apart(t, form[g])  BY <1>5, <1>7, <1>8 DEF Apart, Under
<1> QED  BY <1>3, <1>6, <1>8, <1>9, FormMoves

(* Two transactions that delete meet each other, if one of them has no name. *)
LEMMA BeginDeleteKeeps ==
  ASSUME CategoryInv, NEW f \in Forms, Categories!BeginDelete(f)
  PROVE  CategoryInv'
<1> DEFINE r == form[f]
           met == \E h \in Forms : Categories!Crosses(f, h)
<1>1. FormOK(r) /\ r \in Categories!Form /\ r.at = "replace"
  BY DEF CategoryInv, FormOK, Categories!BeginDelete
<1>2. /\ UNCHANGED <<live, songs, rows, by>> /\ DOMAIN form' = Forms
      /\ form'[f] = [r EXCEPT !.at = "delete", !.victims = rows, !.crossed = met]
      /\ \A g \in Forms \ {f} :
           form'[g] = [form[g] EXCEPT !.crossed = @ \/ Categories!Crosses(f, g)]
  BY DEF Categories!BeginDelete
<1>3. rows \subseteq CategorySongs /\ SavedRows \subseteq rows
  BY DEF CategoryInv, CategoryRows, SavedRows
<1>4. met \in BOOLEAN  OBVIOUS
<1> HIDE DEF met
<1>5. /\ form'[f] \in Categories!Form /\ form'[f].at = "delete" /\ form'[f].victims = rows
      /\ form'[f].gone = r.gone /\ form'[f].put = r.put /\ form'[f].named = r.named
      /\ form'[f].crossed = met
  <2>1. PICK t : t = [r EXCEPT !.at = "delete", !.victims = rows, !.crossed = met]  OBVIOUS
  <2>2. t \in Categories!Form  BY <1>1, <1>3, <1>4, <2>1 DEF Categories!Form
  <2>3. /\ t.at = "delete" /\ t.victims = rows /\ t.gone = r.gone /\ t.put = r.put
        /\ t.named = r.named /\ t.crossed = met
    BY <1>1, <2>1 DEF Categories!Form
  <2> QED  BY <1>2, <2>1, <2>2, <2>3
<1>6. ASSUME NEW g \in Forms \ {f}
      PROVE  /\ form'[g] \in Categories!Form /\ form'[g].at = form[g].at
             /\ form'[g].victims = form[g].victims /\ form'[g].gone = form[g].gone
             /\ form'[g].put = form[g].put /\ form'[g].named = form[g].named
             /\ form'[g].crossed = (form[g].crossed \/ Categories!Crosses(f, g))
  <2>1. form[g] \in Categories!Form  BY DEF CategoryInv, FormOK
  <2>2. Categories!Crosses(f, g) \in BOOLEAN  BY DEF Categories!Crosses
  <2>3. PICK x \in BOOLEAN : x = (form[g].crossed \/ Categories!Crosses(f, g))
    BY <2>1, <2>2 DEF Categories!Form
  <2>4. PICK t : t = [form[g] EXCEPT !.crossed = x]  OBVIOUS
  <2>5. t \in Categories!Form  BY <2>1, <2>4 DEF Categories!Form
  <2>6. /\ t.at = form[g].at /\ t.victims = form[g].victims /\ t.gone = form[g].gone
        /\ t.put = form[g].put /\ t.named = form[g].named /\ t.crossed = x
    BY <2>1, <2>4 DEF Categories!Form
  <2>7. form'[g] = t  BY <1>2, <2>3, <2>4
  <2> QED  BY <2>3, <2>5, <2>6, <2>7
<1> HIDE DEF r
<1>7. r.gone = {} /\ r.put = {}  BY <1>1 DEF FormOK
<1>8. FormOK(form'[f])
  <2>1. PICK t : t = form'[f]  OBVIOUS
  <2> QED  BY <1>3, <1>5, <1>7, <2>1 DEF FormOK
<1>9. ASSUME NEW g \in Forms \ {f} PROVE FormOK(form'[g])
  <2>1. PICK q, t : q = form[g] /\ t = form'[g]  OBVIOUS
  <2>2. FormOK(q)  BY <2>1 DEF CategoryInv
  <2>3. q.crossed = TRUE => t.crossed = TRUE  BY <1>6, <2>1
  <2>4. \A s : Excused(q, s) => Excused(t, s)  BY <1>6, <2>1, <2>3 DEF Excused
  <2> QED  BY <1>6, <2>1, <2>2, <2>4 DEF FormOK
<1>10. ASSUME NEW g \in Forms \ {f} PROVE Apart(form'[f], form'[g])
  <2>1. Apart(r, form[g])  BY DEF CategoryInv, r
  <2>2. live /\ form[g].at \in Within => ~(r.named = TRUE /\ form[g].named = TRUE)
    BY <1>1, <2>1 DEF Apart, Within
  <2>3. form[g] \in Categories!Form  BY DEF CategoryInv, FormOK
  <2>4. ASSUME live, form[g].at \in Under PROVE Categories!Crosses(f, g)
    <3>1. ~(r.named = TRUE /\ form[g].named = TRUE)  BY <2>2, <2>4 DEF Within, Under
    <3>2. r.named \in BOOLEAN /\ form[g].named \in BOOLEAN  BY <1>1, <2>3 DEF Categories!Form
    <3> QED  BY <2>4, <3>1, <3>2 DEF Categories!Crosses, Under, r
  <2>5. live /\ form[g].at \in Under => form'[f].crossed = TRUE /\ form'[g].crossed = TRUE
    <3>1. Categories!Crosses(f, g) => met  BY DEF met
    <3>2. form[g].crossed \in BOOLEAN  BY <2>3 DEF Categories!Form
    <3> QED  BY <1>4, <1>5, <1>6, <2>4, <3>1, <3>2
  <2>6. live /\ form'[g].at \in Within => ~(form'[f].named = TRUE /\ form'[g].named = TRUE)
    BY <1>5, <1>6, <2>2
  <2>7. live /\ form'[g].at \in Under => form'[f].crossed = TRUE /\ form'[g].crossed = TRUE
    BY <1>6, <2>5
  <2>8. form'[f].gone \cup form'[f].put = {}  BY <1>5, <1>7
  <2> QED  BY <2>6, <2>7, <2>8 DEF Apart
<1>11. \A g \in Forms : FormOK(form'[g])  BY <1>8, <1>9
<1>12. ASSUME NEW g \in Forms, NEW h \in Forms, g # h PROVE Apart(form'[g], form'[h])
  <2>1. CASE g = f  BY <1>10, <1>12, <2>1
  <2>2. CASE h = f  BY <1>10, <1>12, <2>2, ApartIsMutual
  <2>3. CASE g # f /\ h # f
    <3>1. PICK p, q, t, u : p = form[g] /\ q = form[h] /\ t = form'[g] /\ u = form'[h]
      OBVIOUS
    <3>2. Apart(p, q)  BY <1>12, <3>1 DEF CategoryInv
    <3>3. /\ t.at = p.at /\ t.gone = p.gone /\ t.put = p.put /\ t.named = p.named
          /\ u.at = q.at /\ u.gone = q.gone /\ u.put = q.put /\ u.named = q.named
          /\ p.crossed = TRUE => t.crossed = TRUE
          /\ q.crossed = TRUE => u.crossed = TRUE
      BY <1>6, <2>3, <3>1
    <3>4. Apart(t, u)  BY <3>2, <3>3 DEF Apart
    <3> QED  BY <3>1, <3>4
  <2> QED  BY <2>1, <2>2, <2>3
<1> QED  BY <1>2, <1>11, <1>12, FormsMove

(* The rows that a transaction takes, others do not hold.                   *)
LEMMA TakenIsApart ==
  ASSUME CategoryInv, NEW f \in Forms, NEW t, NEW g \in Forms \ {f},
         form[f].at \in Under, t.named = form[f].named, t.crossed = form[f].crossed,
         (t.gone \cup t.put) \cap (form[g].gone \cup form[g].put) = {}
  PROVE  Apart(t, form[g])
<1>1. Apart(form[f], form[g])  BY DEF CategoryInv
<1>2. form[f].at \in Within  BY DEF Within, Under
<1> QED  BY <1>1, <1>2 DEF Apart

LEMMA DeleteKeeps ==
  ASSUME CategoryInv, NEW f \in Forms, Categories!Delete(f)
  PROVE  CategoryInv'
<1> DEFINE r == form[f]
<1>1. FormOK(r) /\ r \in Categories!Form /\ r.at = "delete" /\ r.at \in Under
  BY DEF CategoryInv, FormOK, Categories!Delete, Under
<1>2. UNCHANGED <<live, songs, rows, by>>  BY DEF Categories!Delete
<1>3. PICK t : t = [r EXCEPT !.at = "insert", !.gone = r.victims]  OBVIOUS
<1>4. form' = [form EXCEPT ![f] = t]  BY <1>3 DEF Categories!Delete, CategoryInv
<1>5. t \in Categories!Form  BY <1>1, <1>3 DEF Categories!Form
<1>6. /\ t.at = "insert" /\ t.named = r.named /\ t.victims = r.victims /\ t.gone = r.victims
      /\ t.put = r.put /\ t.crossed = r.crossed
  BY <1>1, <1>3 DEF Categories!Form
<1>7. \A g \in Forms \ {f} : r.victims \cap (form[g].gone \cup form[g].put) = {}
  BY DEF Categories!Delete, Categories!HeldByOthers
<1>8. FormOK(t) /\ t.put = {}
  <2> HIDE DEF r
  <2> QED  BY <1>1, <1>5, <1>6 DEF FormOK, Excused
<1>9. \A g \in Forms \ {f} : Apart(t, form[g])  BY <1>1, <1>6, <1>7, <1>8, TakenIsApart
<1> QED  BY <1>2, <1>4, <1>8, <1>9, FormMoves

LEMMA InsertKeeps ==
  ASSUME CategoryInv, NEW f \in Forms, Categories!Insert(f)
  PROVE  CategoryInv'
<1> DEFINE r == form[f]
<1>1. FormOK(r) /\ r \in Categories!Form /\ r.at = "insert" /\ r.at \in Under
  BY DEF CategoryInv, FormOK, Categories!Insert, Under
<1>2. PICK t : t = [r EXCEPT !.at = "commit", !.sent = {}, !.put = r.sent \ (rows \ r.gone)]
  OBVIOUS
<1>3. form' = [form EXCEPT ![f] = t]  BY <1>2 DEF Categories!Insert, CategoryInv
<1>4. r.sent \subseteq CategorySongs  BY <1>1 DEF Categories!Form
<1>5. t \in Categories!Form  BY <1>1, <1>2, <1>4 DEF Categories!Form
<1>6. /\ t.at = "commit" /\ t.named = r.named /\ t.victims = r.victims /\ t.gone = r.gone
      /\ t.put \subseteq r.sent /\ t.crossed = r.crossed
  BY <1>1, <1>2 DEF Categories!Form
<1>7. r.sent # {} => live /\ r.sent \subseteq songs  BY DEF Categories!Insert
<1>8. t.put \subseteq songs /\ (t.put # {} => live)  BY <1>6, <1>7
<1>9. \A g \in Forms \ {f} : r.sent \cap (form[g].gone \cup form[g].put) = {}
  BY DEF Categories!Insert, Categories!HeldByOthers
<1>10. UNCHANGED <<live, songs, rows, by>>  BY DEF Categories!Insert
<1>11. FormOK(t)
  <2> HIDE DEF r
  <2> QED  BY <1>1, <1>5, <1>6, <1>8 DEF FormOK, Excused
<1>12. ASSUME NEW g \in Forms \ {f}
       PROVE  (t.gone \cup t.put) \cap (form[g].gone \cup form[g].put) = {}
  <2>1. Apart(r, form[g])  BY DEF CategoryInv
  <2> QED  BY <1>6, <1>9, <2>1 DEF Apart
<1>13. \A g \in Forms \ {f} : Apart(t, form[g])  BY <1>1, <1>6, <1>12, TakenIsApart
<1> QED  BY <1>3, <1>10, <1>11, <1>13, FormMoves

(* What a transaction leaves of other saves is excused for what it puts there, and *)
(* that for every other that is under way.                                         *)
LEMMA CommitKeeps ==
  ASSUME CategoryInv, NEW f \in Forms, Categories!Commit(f)
  PROVE  CategoryInv'
<1> DEFINE r == form[f]
           own == Categories!Saved(f)
<1>1. FormOK(r) /\ r \in Categories!Form /\ r.at = "commit" /\ r.at \in Under
  BY DEF CategoryInv, FormOK, Categories!Commit, Under
<1>2. /\ rows' = (rows \ r.gone) \cup r.put
      /\ by' = [s \in rows' |-> IF s \in r.put THEN own ELSE by[s]]
      /\ form' = [g \in Forms |-> IF g = f THEN Categories!Closed
                                  ELSE [form[g] EXCEPT !.victims = @ \ r.gone]]
      /\ live' = live /\ songs' = songs
  BY DEF Categories!Commit
<1>3. /\ own \in Categories!Origin /\ own.form = f
      /\ r.crossed = TRUE \/ own.save = "alone"
      /\ r.crossed = TRUE => own.save \in {"named", "blank"}
      /\ r.crossed = TRUE /\ r.named # TRUE => own.save = "blank"
  <2>1. r.crossed \in BOOLEAN /\ r.named \in BOOLEAN  BY <1>1 DEF Categories!Form
  <2> QED  BY <2>1 DEF Categories!Saved, Categories!Origin
<1>4. /\ songs \subseteq CategorySongs /\ rows \subseteq CategorySongs /\ live \in BOOLEAN
      /\ by \in [rows -> Categories!Origin]
      /\ rows \subseteq (IF live THEN songs ELSE {}) /\ Categories!OneList
  BY DEF CategoryInv, CategoryRows, Categories!NoOrphans
<1>5. /\ r.gone \subseteq rows /\ r.put \subseteq songs /\ (r.put # {} => live)
      /\ live => \A s \in SavedRows : s \in r.gone \/ Excused(r, s)
  <2> HIDE DEF r
  <2> QED  BY <1>1 DEF FormOK
<1>6. ASSUME NEW g \in Forms \ {f} PROVE Apart(r, form[g])
  BY DEF CategoryInv
<1> HIDE DEF own, r
<1>7. ASSUME NEW s \in rows', s \notin r.put
      PROVE  /\ s \in rows /\ by'[s] = by[s] /\ live
             /\ by'[s].form \in Forms => Excused(r, s)
  <2>1. s \in rows /\ s \notin r.gone /\ by'[s] = by[s] /\ live  BY <1>2, <1>4, <1>7
  <2> QED  BY <1>5, <2>1 DEF SavedRows
<1>8. ASSUME NEW s \in rows', s \in r.put PROVE by'[s] = own
  BY <1>2, <1>8
<1>9. CategoryRows'
  <2>1. rows' \subseteq CategorySongs  BY <1>2, <1>4, <1>5
  <2>2. by' \in [rows' -> Categories!Origin]
    <3>1. \A s \in rows' : (IF s \in r.put THEN own ELSE by[s]) \in Categories!Origin
      BY <1>2, <1>3, <1>4
    <3> QED  BY <1>2, <3>1
  <2>3. rows' \subseteq (IF live THEN songs ELSE {})  BY <1>2, <1>4, <1>5
  <2>4. Categories!NoOrphans'  BY <1>2, <2>3 DEF Categories!NoOrphans
  <2>5. ASSUME NEW s \in rows', NEW u \in rows', {by'[s].form, by'[u].form} \subseteq Forms,
               by'[s] # by'[u]
        PROVE  "alone" \notin {by'[s].save, by'[u].save} /\ "blank" \in {by'[s].save, by'[u].save}
    <3>1. CASE s \in r.put /\ u \in r.put  BY <1>8, <2>5, <3>1
    <3>2. CASE s \in r.put /\ u \notin r.put
      <4>1. by'[s] = own /\ by'[u] = by[u] /\ Excused(r, u)  BY <1>7, <1>8, <2>5, <3>2
      <4>2. /\ by'[s].save # "alone" /\ by'[u].save # "alone"
            /\ by'[s].save = "blank" \/ by'[u].save = "blank"
        <5>1. PICK a, b : a = own.save /\ b = by[u].save  OBVIOUS
        <5>2. a # "alone" /\ b # "alone" /\ (a = "blank" \/ b = "blank")
          BY <1>3, <4>1, <5>1 DEF Excused
        <5> QED  BY <4>1, <5>1, <5>2
      <4> QED  BY <4>2
    <3>3. CASE s \notin r.put /\ u \in r.put
      <4>1. by'[u] = own /\ by'[s] = by[s] /\ Excused(r, s)  BY <1>7, <1>8, <2>5, <3>3
      <4>2. /\ by'[s].save # "alone" /\ by'[u].save # "alone"
            /\ by'[s].save = "blank" \/ by'[u].save = "blank"
        <5>1. PICK a, b : a = own.save /\ b = by[s].save  OBVIOUS
        <5>2. a # "alone" /\ b # "alone" /\ (a = "blank" \/ b = "blank")
          BY <1>3, <4>1, <5>1 DEF Excused
        <5> QED  BY <4>1, <5>1, <5>2
      <4> QED  BY <4>2
    <3>4. CASE s \notin r.put /\ u \notin r.put
      <4>1. s \in rows /\ u \in rows /\ by'[s] = by[s] /\ by'[u] = by[u]  BY <1>7, <3>4
      <4> QED  BY <1>4, <2>5, <4>1 DEF Categories!OneList
    <3> QED  BY <3>1, <3>2, <3>3, <3>4
  <2>6. Categories!OneList'  BY <2>5 DEF Categories!OneList
  <2> QED  BY <1>2, <1>4, <2>1, <2>2, <2>4, <2>6 DEF CategoryRows
<1>10. DOMAIN form' = Forms /\ form'[f] = Categories!Closed  BY <1>2
<1>11. ASSUME NEW g \in Forms \ {f}
       PROVE  /\ form'[g] \in Categories!Form /\ form'[g].at = form[g].at
              /\ form'[g].named = form[g].named /\ form'[g].gone = form[g].gone
              /\ form'[g].put = form[g].put /\ form'[g].victims = form[g].victims \ r.gone
              /\ form'[g].crossed = form[g].crossed
  <2>1. form[g] \in Categories!Form  BY DEF CategoryInv, FormOK
  <2>2. PICK t : t = [form[g] EXCEPT !.victims = @ \ r.gone]  OBVIOUS
  <2>3. t \in Categories!Form  BY <2>1, <2>2 DEF Categories!Form
  <2>4. /\ t.at = form[g].at /\ t.named = form[g].named /\ t.gone = form[g].gone
        /\ t.put = form[g].put /\ t.victims = form[g].victims \ r.gone
        /\ t.crossed = form[g].crossed
    BY <2>1, <2>2 DEF Categories!Form
  <2>5. form'[g] = t  BY <1>2, <2>2
  <2> QED  BY <2>3, <2>4, <2>5
<1>12. FormOK(form[f])'
  <2>1. PICK c : c = Categories!Closed /\ c = form'[f]  BY <1>10
  <2>2. /\ c \in Categories!Form /\ c.at = "closed" /\ c.victims = {} /\ c.gone = {}
        /\ c.put = {}
    BY <2>1 DEF Categories!Closed, Categories!Form
  <2> QED  BY <2>1, <2>2 DEF FormOK
<1>13. ASSUME NEW g \in Forms \ {f} PROVE FormOK(form[g])'
  <2>1. PICK q, u : q = form[g] /\ u = form'[g]  OBVIOUS
  <2>2. /\ u \in Categories!Form /\ u.at = q.at /\ u.named = q.named /\ u.gone = q.gone
        /\ u.put = q.put /\ u.victims = q.victims \ r.gone /\ u.crossed = q.crossed
    BY <1>11, <2>1
  <2>3. FormOK(q)  BY <2>1 DEF CategoryInv
  <2>4. Apart(r, q)  BY <1>6, <2>1
  <2>5. u.victims \subseteq rows'  BY <1>2, <2>2, <2>3 DEF FormOK
  <2>6. u.gone \subseteq rows'
    <3>1. q.gone \subseteq rows  BY <2>3 DEF FormOK
    <3>2. q.gone \cap r.gone = {}  BY <2>4 DEF Apart
    <3> QED  BY <1>2, <2>2, <3>1, <3>2
  <2>7. /\ u.put \subseteq songs' /\ (u.put # {} => live')
        /\ u.at \notin {"insert", "commit"} => u.gone = {}
        /\ u.at # "commit" => u.put = {}
    BY <1>2, <2>2, <2>3 DEF FormOK
  <2>8. ASSUME live', u.at \in Under, NEW s \in rows', by'[s].form \in Forms
        PROVE  \/ s \in (IF u.at = "delete" THEN u.victims ELSE u.gone)
               \/ Excused(u, s)'
    <3>1. live /\ q.at \in Under  BY <1>2, <2>2, <2>8
    <3>2. r.crossed = TRUE /\ q.crossed = TRUE /\ ~(r.named = TRUE /\ q.named = TRUE)
      <4>1. r.at \in Within /\ q.at \in Within  BY <1>1, <3>1 DEF Within, Under
      <4> QED  BY <1>1, <2>4, <3>1, <4>1 DEF Apart
    <3>3. CASE s \in r.put
      <4>1. by'[s] = own  BY <1>8, <3>3
      <4>2. PICK b : b = by'[s]  OBVIOUS
      <4>3. b.save # "alone" /\ (u.named = TRUE => b.save = "blank")
        BY <1>3, <2>2, <3>2, <4>1, <4>2
      <4> QED  BY <2>2, <3>2, <4>2, <4>3 DEF Excused
    <3>4. CASE s \notin r.put
      <4>1. s \in rows /\ by'[s] = by[s] /\ s \notin r.gone  BY <1>2, <1>7, <3>4
      <4>2. s \in SavedRows  BY <2>8, <4>1 DEF SavedRows
      <4>3. s \in (IF q.at = "delete" THEN q.victims ELSE q.gone) \/ Excused(q, s)
        BY <2>3, <3>1, <4>2 DEF FormOK, Under
      <4>4. Excused(q, s) => Excused(u, s)'
        BY <2>2, <4>1 DEF Excused
      <4> QED  BY <2>2, <4>1, <4>3, <4>4
    <3> QED  BY <3>3, <3>4
  <2>9. live' /\ u.at = "delete" => \A s \in SavedRows' : s \in u.victims \/ Excused(u, s)'
    BY <2>8 DEF SavedRows, Under
  <2>10. live' /\ u.at \in {"insert", "commit"} =>
           \A s \in SavedRows' : s \in u.gone \/ Excused(u, s)'
    BY <2>8 DEF SavedRows, Under
  <2> QED  BY <2>1, <2>2, <2>5, <2>6, <2>7, <2>9, <2>10 DEF FormOK
<1>14. ASSUME NEW g \in Forms, NEW h \in Forms, g # h PROVE Apart(form[g], form[h])'
  <2>1. Apart(form[g], form[h])  BY <1>14 DEF CategoryInv
  <2>2. PICK p, q, t, u : p = form[g] /\ q = form[h] /\ t = form'[g] /\ u = form'[h]
    OBVIOUS
  <2>3. CASE g = f
    <3>1. t.at = "closed" /\ t.gone = {} /\ t.put = {}  BY <1>10, <2>2, <2>3, ClosedIsOK
    <3> QED  BY <1>2, <2>2, <3>1 DEF Apart, Within, Under
  <2>4. CASE h = f
    <3>1. u.at = "closed" /\ u.gone = {} /\ u.put = {}  BY <1>10, <2>2, <2>4, ClosedIsOK
    <3> QED  BY <1>2, <2>2, <3>1 DEF Apart, Within, Under
  <2>5. CASE g # f /\ h # f
    <3>1. /\ t.at = p.at /\ t.gone = p.gone /\ t.put = p.put /\ t.named = p.named
          /\ t.crossed = p.crossed
          /\ u.at = q.at /\ u.gone = q.gone /\ u.put = q.put /\ u.named = q.named
          /\ u.crossed = q.crossed
      BY <1>11, <2>2, <2>5
    <3> QED  BY <1>2, <2>1, <2>2, <3>1 DEF Apart
  <2> QED  BY <2>3, <2>4, <2>5
<1> QED  BY <1>9, <1>10, <1>12, <1>13, <1>14 DEF CategoryInv

LEMMA AddSongKeeps ==
  ASSUME CategoryInv, NEW s \in CategorySongs, Categories!AddSong(s)
  PROVE  CategoryInv'
<1>1. /\ live /\ s \in songs /\ s \notin rows /\ rows' = rows \cup {s}
      /\ by' = [t \in rows' |-> IF t = s THEN Categories!Assigned ELSE by[t]]
      /\ live' = live /\ songs' = songs /\ form' = form
  BY DEF Categories!AddSong
<1>2. /\ songs \subseteq CategorySongs /\ rows \subseteq CategorySongs /\ live \in BOOLEAN
      /\ by \in [rows -> Categories!Origin]
      /\ rows \subseteq (IF live THEN songs ELSE {}) /\ Categories!OneList
  BY DEF CategoryInv, CategoryRows, Categories!NoOrphans
<1>3. PICK a : a = Categories!Assigned /\ a \in Categories!Origin /\ a.form \notin Forms
  BY AssignedIsNobodys
<1>4. by'[s] = a /\ \A u \in rows : by'[u] = by[u]  BY <1>1, <1>2, <1>3
<1>5. {u \in rows' : by'[u].form \in Forms} = SavedRows  BY <1>1, <1>3, <1>4 DEF SavedRows
<1>6. CategoryRows'
  <2>1. by' \in [rows' -> Categories!Origin]  BY <1>1, <1>2, <1>3
  <2>2. rows' \subseteq songs  BY <1>1, <1>2
  <2>3. Categories!NoOrphans'  BY <1>1, <2>2 DEF Categories!NoOrphans
  <2>4. ASSUME NEW u \in rows', NEW v \in rows', {by'[u].form, by'[v].form} \subseteq Forms,
               by'[u] # by'[v]
        PROVE  "alone" \notin {by'[u].save, by'[v].save} /\ "blank" \in {by'[u].save, by'[v].save}
    <3>1. u \in rows /\ v \in rows  BY <1>1, <1>3, <1>4, <2>4
    <3>2. by'[u] = by[u] /\ by'[v] = by[v]  BY <1>4, <3>1
    <3> QED  BY <1>2, <2>4, <3>1, <3>2 DEF Categories!OneList
  <2>5. Categories!OneList'  BY <2>4 DEF Categories!OneList
  <2> QED  BY <1>1, <1>2, <2>1, <2>2, <2>3, <2>5 DEF CategoryRows
<1>7. ASSUME NEW g \in Forms PROVE FormOK(form[g])'
  <2>1. PICK u : u = form[g] /\ u = form'[g]  BY <1>1
  <2>2. FormOK(u)  BY <2>1 DEF CategoryInv
  <2>3. SavedRows' = SavedRows  BY <1>5 DEF SavedRows
  <2>4. \A t \in SavedRows : Excused(u, t) => Excused(u, t)'
    BY <1>4, <2>1 DEF SavedRows, Excused
  <2>5. \A t \in SavedRows : t \in SavedRows'  BY <2>3
  <2> QED  BY <1>1, <2>1, <2>2, <2>3, <2>4, <2>5 DEF FormOK
<1>8. ASSUME NEW g \in Forms, NEW h \in Forms, g # h PROVE Apart(form[g], form[h])'
  BY <1>1, <1>8 DEF CategoryInv, Apart
<1> QED  BY <1>1, <1>6, <1>7, <1>8 DEF CategoryInv

(* Rows are deleted with what they refer to, and from what DELETE found.    *)
LEMMA RowsGo ==
  ASSUME CategoryInv, NEW X, rows' = rows \ X, songs' \subseteq songs,
         by' = [t \in rows' |-> by[t]], live' = live \/ (live' = FALSE /\ rows' = {}),
         live' => rows' \subseteq songs',
         \A f \in Forms : /\ form[f].gone \cap X = {} /\ form[f].put \subseteq songs'
                          /\ live # live' => form[f].put = {},
         form' = [f \in Forms |-> [form[f] EXCEPT !.victims = @ \ X]]
  PROVE  CategoryInv'
<1>1. /\ songs \subseteq CategorySongs /\ rows \subseteq CategorySongs /\ live \in BOOLEAN
      /\ by \in [rows -> Categories!Origin]
      /\ rows \subseteq (IF live THEN songs ELSE {}) /\ Categories!OneList
  BY DEF CategoryInv, CategoryRows, Categories!NoOrphans
<1>2. \A s \in rows' : s \in rows /\ by'[s] = by[s]  OBVIOUS
<1>3. CategoryRows'
  <2>1. Categories!NoOrphans'  BY <1>1 DEF Categories!NoOrphans
  <2>2. Categories!OneList'  BY <1>1, <1>2 DEF Categories!OneList
  <2>3. by' \in [rows' -> Categories!Origin]  BY <1>1
  <2> QED  BY <1>1, <2>1, <2>2, <2>3 DEF CategoryRows
<1>4. DOMAIN form' = Forms  OBVIOUS
<1>5. ASSUME NEW g \in Forms
      PROVE  /\ form'[g] \in Categories!Form /\ form'[g].at = form[g].at
             /\ form'[g].named = form[g].named /\ form'[g].gone = form[g].gone
             /\ form'[g].put = form[g].put /\ form'[g].victims = form[g].victims \ X
             /\ form'[g].crossed = form[g].crossed
  <2>1. form[g] \in Categories!Form  BY DEF CategoryInv, FormOK
  <2>2. PICK t : t = [form[g] EXCEPT !.victims = @ \ X]  OBVIOUS
  <2>3. t \in Categories!Form  BY <2>1, <2>2 DEF Categories!Form
  <2>4. /\ t.at = form[g].at /\ t.named = form[g].named /\ t.gone = form[g].gone
        /\ t.put = form[g].put /\ t.victims = form[g].victims \ X
        /\ t.crossed = form[g].crossed
    BY <2>1, <2>2 DEF Categories!Form
  <2>5. form'[g] = t  BY <2>2
  <2> QED  BY <2>3, <2>4, <2>5
<1>6. \A s \in SavedRows' : s \in SavedRows \ X  BY <1>2 DEF SavedRows
<1>7. live' => live  OBVIOUS
<1>8. ASSUME NEW g \in Forms PROVE FormOK(form[g])'
  <2>1. PICK q, u : q = form[g] /\ u = form'[g]  OBVIOUS
  <2>2. /\ u \in Categories!Form /\ u.at = q.at /\ u.named = q.named /\ u.gone = q.gone
        /\ u.put = q.put /\ u.victims = q.victims \ X /\ u.crossed = q.crossed
    BY <1>5, <2>1
  <2>3. FormOK(q)  BY <2>1 DEF CategoryInv
  <2>4. u.victims \subseteq rows' /\ u.gone \subseteq rows'
    BY <2>1, <2>2, <2>3 DEF FormOK
  <2>5. u.put \subseteq songs' /\ (u.put # {} => live')
    BY <2>1, <2>2, <2>3 DEF FormOK
  <2>6. /\ u.at \notin {"insert", "commit"} => u.gone = {}
        /\ u.at # "commit" => u.put = {}
    BY <2>2, <2>3 DEF FormOK
  <2>7. \A s \in SavedRows' : Excused(q, s) => Excused(u, s)'
    BY <1>2, <2>2 DEF SavedRows, Excused
  <2>8. live' /\ u.at = "delete" => \A s \in SavedRows' : s \in u.victims \/ Excused(u, s)'
    BY <1>6, <1>7, <2>2, <2>3, <2>7 DEF FormOK
  <2>9. live' /\ u.at \in {"insert", "commit"} =>
          \A s \in SavedRows' : s \in u.gone \/ Excused(u, s)'
    BY <1>6, <1>7, <2>2, <2>3, <2>7 DEF FormOK
  <2> QED  BY <2>1, <2>2, <2>4, <2>5, <2>6, <2>8, <2>9 DEF FormOK
<1>9. ASSUME NEW g \in Forms, NEW h \in Forms, g # h PROVE Apart(form[g], form[h])'
  <2>1. Apart(form[g], form[h])  BY <1>9 DEF CategoryInv
  <2>2. PICK p, q, t, u : p = form[g] /\ q = form[h] /\ t = form'[g] /\ u = form'[h]
    OBVIOUS
  <2>3. /\ t.at = p.at /\ t.gone = p.gone /\ t.put = p.put /\ t.named = p.named
        /\ t.crossed = p.crossed
        /\ u.at = q.at /\ u.gone = q.gone /\ u.put = q.put /\ u.named = q.named
        /\ u.crossed = q.crossed
    BY <1>5, <2>2
  <2>4. Apart(p, q)  BY <2>1, <2>2
  <2>5. (t.gone \cup t.put) \cap (u.gone \cup u.put) = {}  BY <2>3, <2>4 DEF Apart
  <2>6. /\ live' /\ t.at \in Within /\ u.at \in Within => ~(t.named = TRUE /\ u.named = TRUE)
        /\ live' /\ t.at \in Under /\ u.at \in Under => t.crossed = TRUE /\ u.crossed = TRUE
    BY <1>7, <2>3, <2>4 DEF Apart
  <2> QED  BY <2>2, <2>5, <2>6 DEF Apart
<1> QED  BY <1>3, <1>4, <1>8, <1>9 DEF CategoryInv

LEMMA PruneKeeps ==
  ASSUME CategoryInv, NEW s \in CategorySongs, Categories!Prune(s)
  PROVE  CategoryInv'
<1>1. /\ songs' = songs \ {s} /\ rows' = rows \ {s} /\ live' = live
      /\ by' = [t \in rows' |-> by[t]]
      /\ form' = [f \in Forms |-> [form[f] EXCEPT !.victims = @ \ {s}]]
  BY DEF Categories!Prune
<1>2. ASSUME NEW f \in Forms
      PROVE  form[f].gone \cap {s} = {} /\ form[f].put \subseteq songs'
  <2>1. s \notin form[f].gone \cup form[f].put  BY DEF Categories!Prune, Categories!Held
  <2>2. form[f].put \subseteq songs  BY DEF CategoryInv, FormOK
  <2> QED  BY <1>1, <2>1, <2>2
<1>3. live' => rows' \subseteq songs'
  BY <1>1 DEF CategoryInv, CategoryRows, Categories!NoOrphans
<1>4. songs' \subseteq songs  BY <1>1
<1> QED  BY <1>1, <1>2, <1>3, <1>4, RowsGo

LEMMA DeleteCategoryKeeps ==
  ASSUME CategoryInv, Categories!DeleteCategory
  PROVE  CategoryInv'
<1>1. /\ live' = FALSE /\ rows' = {} /\ songs' = songs
      /\ by' = [t \in {} |-> Categories!Assigned]
      /\ form' = [f \in Forms |-> [form[f] EXCEPT !.victims = {}]]
  BY DEF Categories!DeleteCategory
<1>2. ASSUME NEW f \in Forms PROVE form[f].gone = {} /\ form[f].put = {}
  BY DEF Categories!DeleteCategory, Categories!Held
<1>3. ASSUME NEW f \in Forms PROVE form[f].victims \ rows = {}
  BY DEF CategoryInv, FormOK
<1>4. form' = [f \in Forms |-> [form[f] EXCEPT !.victims = @ \ rows]]  BY <1>1, <1>3
<1>5. rows' = rows \ rows  BY <1>1
<1>6. by' = [t \in rows' |-> by[t]]  BY <1>1
<1>7. \A f \in Forms : /\ form[f].gone \cap rows = {} /\ form[f].put \subseteq songs'
                       /\ live # live' => form[f].put = {}
  BY <1>2
<1> QED  BY <1>1, <1>4, <1>5, <1>6, <1>7, RowsGo

LEMMA CategoryBegins ==
  ASSUME Categories!Init
  PROVE  CategoryInv
<1>1. /\ live = TRUE /\ songs = CategorySongs /\ rows \subseteq CategorySongs
      /\ by = [s \in rows |-> Categories!Assigned] /\ form = [f \in Forms |-> Categories!Closed]
  BY DEF Categories!Init
<1>2. PICK a : a = Categories!Assigned /\ a \in Categories!Origin /\ a.form \notin Forms
  BY AssignedIsNobodys
<1>3. CategoryRows
  <2>1. \A s \in rows : by[s] = a  BY <1>1, <1>2
  <2>2. Categories!OneList  BY <2>1 DEF Categories!OneList
  <2>3. by \in [rows -> Categories!Origin]  BY <1>1, <1>2
  <2> QED  BY <1>1, <2>2, <2>3 DEF CategoryRows, Categories!NoOrphans
<1>4. \A f \in Forms : form[f] = Categories!Closed  BY <1>1
<1>5. \A f \in Forms : FormOK(form[f])  BY <1>4, ClosedIsOK
<1>6. ASSUME NEW f \in Forms, NEW g \in Forms, f # g PROVE Apart(form[f], form[g])
  BY <1>4, ClosedIsOK DEF Apart, Within, Under
<1> QED  BY <1>1, <1>3, <1>5, <1>6 DEF CategoryInv

LEMMA CategoryKeeps ==
  ASSUME CategoryInv, Categories!Next
  PROVE  CategoryInv'
<1>1. ASSUME NEW f \in Forms,
             \/ Categories!Open(f) \/ Categories!Load(f) \/ Categories!Cancel(f)
             \/ Categories!Save(f) \/ Categories!Saving(f)
      PROVE  CategoryInv'
  <2>1. CASE \/ Categories!Open(f) \/ Categories!Load(f) \/ Categories!Cancel(f)
             \/ Categories!Fail(f)
    BY <2>1, FormKeeps
  <2>2. CASE Categories!Save(f)  BY <2>2, SaveKeeps
  <2>3. CASE Categories!Rename(f)  BY <2>3, RenameKeeps
  <2>4. CASE Categories!BeginDelete(f)  BY <2>4, BeginDeleteKeeps
  <2>5. CASE Categories!Delete(f)  BY <2>5, DeleteKeeps
  <2>6. CASE Categories!Insert(f)  BY <2>6, InsertKeeps
  <2>7. CASE Categories!Commit(f)  BY <2>7, CommitKeeps
  <2> QED  BY <1>1, <2>1, <2>2, <2>3, <2>4, <2>5, <2>6, <2>7 DEF Categories!Saving
<1>2. ASSUME NEW f \in Forms, NEW s \in CategorySongs, Categories!Click(f, s) PROVE CategoryInv'
  BY <1>2, FormKeeps
<1>3. ASSUME NEW s \in CategorySongs, Categories!AddSong(s) PROVE CategoryInv'
  BY <1>3, AddSongKeeps
<1>4. ASSUME NEW s \in CategorySongs, Categories!Prune(s) PROVE CategoryInv'
  BY <1>4, PruneKeeps
<1>5. CASE Categories!DeleteCategory  BY <1>5, DeleteCategoryKeeps
<1> QED  BY <1>1, <1>2, <1>3, <1>4, <1>5 DEF Categories!Next

LEMMA CategoryRests ==
  ASSUME CategoryInv, UNCHANGED categoriesVars
  PROVE  CategoryInv'
<1>1. UNCHANGED <<live, songs, rows, by>> /\ form' = form  BY DEF categoriesVars
<1>2. /\ DOMAIN form' = Forms /\ \A f \in Forms : FormOK(form'[f])
      /\ \A f, g \in Forms : f # g => Apart(form'[f], form'[g])
  BY <1>1 DEF CategoryInv
<1> QED  BY <1>1, <1>2, FormsMove

LEMMA CategoriesAreSound ==
  ASSUME CategoryInv
  PROVE  Categories!Sound
<1>1. Categories!TypeOK
  BY DEF CategoryInv, CategoryRows, FormOK, Categories!TypeOK
<1> QED  BY <1>1 DEF CategoryInv, CategoryRows, Categories!Sound

-----------------------------------------------------------------------------
(* Library: the inductive invariant.                                        *)

IdsSeen == Ids \cup {Ghost, None}

IndexState ==
  [at : {"idle", "artist", "artist select", "album", "own", "own select", "song"},
   path : Paths \cup {None}, tags : Tags \cup {None},
   artist : IdsSeen, own : IdsSeen, album : IdsSeen]
MetaState ==
  [at : {"idle", "artist", "album", "song"}, path : Paths \cup {None}, by : Names \cup {None},
   artist : Ids \cup {None}, album : Ids \cup {None}]
PruneState ==
  [at : {"idle", "albums", "delete albums", "artists", "delete artists", "commit"},
   seen : SUBSET Ids, songs : SUBSET Paths, albums : SUBSET Ids, artists : SUBSET Ids]

(* The ids a worker has, of rows that are still there, are those of its tags. *)
IndexOK(x) ==
  /\ x \in IndexState
  /\ x.at = "idle" => x = Library!NoIndex
  /\ x.at # "idle" => x.path \in Paths /\ x.tags \in Tags
  /\ x.at \in {"artist", "artist select"} => Library!AlbumArtist(x.tags) # None
  /\ x.at \in {"own", "own select"} => x.tags.artist # None
  /\ x.artist \in Library!Artists => artists[x.artist] = Library!AlbumArtist(x.tags)
  /\ x.own \in Library!Artists =>
       artists[x.own] \in {Library!SongArtist(x.tags), Library!AlbumArtist(x.tags)}
  /\ x.album \in Library!Albums =>
       /\ albums[x.album].title = x.tags.title
       /\ albums[x.album].by = Library!AlbumArtist(x.tags)

(* The artist and the album a renaming will write are rows of these names   *)
(* that stay, or are to be the only ones, with ids nobody else has.         *)
MetaArtistOK(t) ==
  /\ t.artist \notin prune.artists
  /\ t.artist \in Library!Artists => artists[t.artist] = t.by
  /\ t.artist \notin Library!Artists =>
       /\ Library!Named(t.by) = {}
       /\ \A i \in Ids : albums[i].artist # t.artist
       /\ \A w \in Workers : ix[w].artist # t.artist /\ ix[w].own # t.artist

MetaAlbumOK(t) ==
  /\ t.album \notin prune.albums
  /\ t.album \in Library!Albums =>
       albums[t.album].title = librarySongs[t.path].title /\ albums[t.album].by = t.by
  /\ t.album \notin Library!Albums =>
       /\ Library!Titled(librarySongs[t.path].title, t.by) = {}
       /\ \A w \in Workers : ix[w].album # t.album

MetaOK(t) ==
  /\ t \in MetaState
  /\ t.at = "idle" => t = Library!NoMeta
  /\ t.at # "idle" => t.path \in Library!Present \ prune.songs /\ t.by \in Names
  /\ t.at = "artist" => t.artist = None
  /\ t.at \in {"artist", "album"} => t.album = None
  /\ t.at \in {"album", "song"} => t.artist \in Ids /\ MetaArtistOK(t)
  /\ t.at = "song" => t.album \in Ids /\ MetaAlbumOK(t)

PruneOK(r) ==
  /\ r \in PruneState
  /\ r.at = "idle" => r = Library!NoPrune
  /\ r.songs \subseteq Library!Present /\ r.albums \subseteq Library!Albums
  /\ r.artists \subseteq Library!Artists
  /\ r.at \in {"albums", "delete albums"} => r.albums = {}
  /\ r.at # "commit" => r.artists = {}
  /\ r.at = "delete albums" => r.seen \subseteq Library!Albums
  /\ r.at = "delete artists" => r.seen \subseteq Library!Artists

(* What is about to be deleted, seen or deleted already.                    *)
AlbumsGo == prune.albums \cup (IF prune.at = "delete albums" THEN prune.seen ELSE {})
ArtistsGo == prune.artists \cup (IF prune.at = "delete artists" THEN prune.seen ELSE {})

(* No song that stays refers to it, but those written since.                *)
GoInv ==
  \A p \in Library!Kept \ written :
    librarySongs[p].album \notin AlbumsGo /\ librarySongs[p].artist \notin ArtistsGo

(* And it is all that no song refers to, if nothing was written since.      *)
OrphanInv ==
  written = {} =>
    /\ prune.at = "delete albums" => prune.seen = Library!OrphanAlbums
    /\ prune.at \in {"artists", "delete artists", "commit"} => prune.albums = Library!OrphanAlbums
    /\ prune.at = "delete artists" => prune.seen = Library!OrphanArtists
    /\ prune.at = "commit" => prune.artists = Library!OrphanArtists

LibraryInv ==
  /\ Library!Sound
  /\ DOMAIN ix = Workers /\ \A w \in Workers : IndexOK(ix[w])
  /\ MetaOK(meta) /\ PruneOK(prune) /\ GoInv /\ OrphanInv

-----------------------------------------------------------------------------
(* Rows.                                                                    *)

LEMMA Distinct ==
  /\ None \notin Ids /\ None \notin Names /\ None \notin Titles /\ Ghost \notin Ids
  /\ None \notin Paths
  /\ Ghost # None
  /\ \A tags \in Tags : /\ tags.title \in Titles /\ tags.artist \in Names \cup {None}
                        /\ Library!AlbumArtist(tags) \in Names \cup {None}
                        /\ Library!SongArtist(tags) \in Names \cup {None}
BY SongListsAssumption
   DEF Library!LibraryAssumption, Library!AlbumArtist, Library!SongArtist

LEMMA AbsentFields ==
  /\ Library!Absent.title = None /\ Library!Absent.by = None
  /\ Library!Absent.artist = None /\ Library!Absent.album = None
BY DEF Library!Absent

LEMMA RowTypes ==
  ASSUME Library!TypeOK
  PROVE  /\ DOMAIN artists = Ids /\ DOMAIN albums = Ids /\ DOMAIN librarySongs = Paths
         /\ \A i \in Ids : artists[i] \in Names \cup {None}
         /\ \A i \in Library!Artists : i \in Ids /\ artists[i] \in Names
         /\ \A i \in Library!Albums : i \in Ids /\ albums[i] \in Library!AlbumRow
         /\ \A i \in Ids \ Library!Albums : albums[i] = Library!Absent /\ albums[i].artist = None
         /\ \A p \in Library!Present : /\ p \in Paths /\ librarySongs[p] \in Library!SongRow
                                       /\ librarySongs[p].title \in Titles
                                       /\ librarySongs[p].artist \in Library!Artists \cup {None}
                                       /\ librarySongs[p].album \in Library!Albums \cup {None}
         /\ \A p \in Paths \ Library!Present : librarySongs[p] = Library!Absent
<1>1. /\ artists \in [Ids -> Names \cup {None}]
      /\ albums \in [Ids -> Library!AlbumRow \cup {Library!Absent}]
      /\ librarySongs \in [Paths -> Library!SongRow \cup {Library!Absent}]
  BY DEF Library!TypeOK
<1>2. \A i \in Library!Artists : i \in Ids /\ artists[i] \in Names
  BY <1>1 DEF Library!Artists
<1>3. \A x \in Library!AlbumRow : x.title # None  BY Distinct DEF Library!AlbumRow
<1>4. \A x \in Library!SongRow : /\ x.title # None /\ x.title \in Titles
                                 /\ x.artist \in Library!Artists \cup {None}
                                 /\ x.album \in Library!Albums \cup {None}
  BY Distinct DEF Library!SongRow
<1>5. \A i \in Library!Albums : i \in Ids /\ albums[i] \in Library!AlbumRow
  BY <1>1, AbsentFields DEF Library!Albums
<1>6. \A i \in Ids \ Library!Albums : albums[i] = Library!Absent
  BY <1>1, <1>3 DEF Library!Albums
<1>7. \A p \in Library!Present : p \in Paths /\ librarySongs[p] \in Library!SongRow
  BY <1>1, AbsentFields DEF Library!Present
<1>8. \A p \in Paths \ Library!Present : librarySongs[p] = Library!Absent
  BY <1>1, <1>4 DEF Library!Present
<1> QED  BY <1>1, <1>2, <1>4, <1>5, <1>6, <1>7, <1>8, AbsentFields

(* What is said of rows that nothing changed.                               *)
LEMMA RowsStay ==
  ASSUME artists' = artists, albums' = albums, librarySongs' = librarySongs
  PROVE  /\ Library!Artists' = Library!Artists /\ Library!Albums' = Library!Albums
         /\ Library!Present' = Library!Present
         /\ \A n : Library!Named(n)' = Library!Named(n)
         /\ \A t, n : Library!Titled(t, n)' = Library!Titled(t, n)
         /\ Library!Sound => Library!Sound'
BY DEF Library!Artists, Library!Albums, Library!Present, Library!Named, Library!Titled,
       Library!Sound, Library!TypeOK, Library!OneRowEach, Library!NamesAgree,
       Library!AlbumRow, Library!SongRow

LEMMA FreshIds ==
  ASSUME NEW used, NEW i \in Library!Fresh(used)
  PROVE  i \in Ids /\ i \notin used
<1>1. \E j \in Ids : j \notin used  BY DEF Library!Fresh
<1>2. i = CHOOSE j \in Ids : j \notin used  BY DEF Library!Fresh
<1> QED  BY <1>1, <1>2

LEMMA GoStays ==
  ASSUME artists' = artists, albums' = albums, librarySongs' = librarySongs, prune' = prune,
         written' = written, GoInv, OrphanInv
  PROVE  GoInv' /\ OrphanInv'
<1>1. /\ Library!Artists' = Library!Artists /\ Library!Albums' = Library!Albums
      /\ Library!Present' = Library!Present
  BY RowsStay
<1>2. Library!Kept' = Library!Kept  BY <1>1 DEF Library!Kept
<1>3. Library!OrphanAlbums' = Library!OrphanAlbums  BY <1>1, <1>2 DEF Library!OrphanAlbums
<1>4. Library!OrphanArtists' = Library!OrphanArtists
  BY <1>1, <1>2 DEF Library!OrphanArtists
<1>5. AlbumsGo' = AlbumsGo /\ ArtistsGo' = ArtistsGo  BY DEF AlbumsGo, ArtistsGo
<1>6. GoInv'  BY <1>2, <1>5 DEF GoInv
<1>7. OrphanInv'  BY <1>3, <1>4 DEF OrphanInv
<1> QED  BY <1>6, <1>7

-----------------------------------------------------------------------------
(* Steps that write no row.                                                 *)

(* A worker moves on, with ids of artists there are, and no album it had not. *)
LEMMA IndexMoves ==
  ASSUME LibraryInv, NEW w \in Workers, NEW t, IndexOK(t), ix' = [ix EXCEPT ![w] = t],
         UNCHANGED <<artists, albums, librarySongs, meta, prune, written>>,
         t.artist \in Library!Artists \cup {Ghost, None, ix[w].artist, ix[w].own},
         t.own \in Library!Artists \cup {Ghost, None, ix[w].artist, ix[w].own},
         t.album \in {Ghost, None, ix[w].album}
  PROVE  LibraryInv'
<1>1. /\ Library!Artists' = Library!Artists /\ Library!Albums' = Library!Albums
      /\ Library!Present' = Library!Present
      /\ \A n : Library!Named(n)' = Library!Named(n)
      /\ \A u, n : Library!Titled(u, n)' = Library!Titled(u, n)
      /\ Library!Sound'
  BY RowsStay DEF LibraryInv
<1>2. /\ DOMAIN ix' = Workers /\ ix'[w] = t
      /\ \A v \in Workers : v # w => ix'[v] = ix[v]
  BY DEF LibraryInv
<1>3. ASSUME NEW v \in Workers PROVE IndexOK(ix[v])'
  <2>1. CASE v = w  BY <1>1, <1>2, <2>1 DEF IndexOK, IndexState, IdsSeen
  <2>2. CASE v # w  BY <1>1, <1>2, <2>2 DEF LibraryInv, IndexOK, IndexState, IdsSeen
  <2> QED  BY <2>1, <2>2
<1>4. MetaOK(meta)'
  <2>1. PICK m : m = meta /\ m = meta' /\ MetaOK(m)  BY DEF LibraryInv
  <2>2. m.at \in {"album", "song"} => MetaArtistOK(meta)'
    <3> SUFFICES ASSUME m.at \in {"album", "song"} PROVE MetaArtistOK(meta)'  OBVIOUS
    <3>1. MetaArtistOK(m) /\ m.artist \in Ids  BY <2>1 DEF MetaOK
    <3>2. m.artist \notin Library!Artists =>
            \A v \in Workers : ix'[v].artist # m.artist /\ ix'[v].own # m.artist
      BY <1>2, <3>1, Distinct DEF MetaArtistOK
    <3> QED  BY <1>1, <2>1, <3>1, <3>2 DEF MetaArtistOK
  <2>3. m.at = "song" => MetaAlbumOK(meta)'
    <3> SUFFICES ASSUME m.at = "song" PROVE MetaAlbumOK(meta)'  OBVIOUS
    <3>1. MetaAlbumOK(m) /\ m.album \in Ids  BY <2>1 DEF MetaOK
    <3>2. m.album \notin Library!Albums => \A v \in Workers : ix'[v].album # m.album
      BY <1>2, <3>1, Distinct DEF MetaAlbumOK
    <3> QED  BY <1>1, <2>1, <3>1, <3>2 DEF MetaAlbumOK
  <2> QED  BY <1>1, <2>1, <2>2, <2>3 DEF MetaOK, MetaState
<1>5. PruneOK(prune)'  BY <1>1 DEF LibraryInv, PruneOK, PruneState
<1>6. GoInv' /\ OrphanInv'
  BY GoStays DEF LibraryInv
<1> QED  BY <1>1, <1>2, <1>3, <1>4, <1>5, <1>6 DEF LibraryInv

(* A renaming moves on.                                                     *)
LEMMA MetaMoves ==
  ASSUME LibraryInv, NEW t, MetaOK(t), meta' = t,
         UNCHANGED <<artists, albums, librarySongs, ix, prune, written>>
  PROVE  LibraryInv'
<1>1. /\ Library!Artists' = Library!Artists /\ Library!Albums' = Library!Albums
      /\ Library!Present' = Library!Present
      /\ \A n : Library!Named(n)' = Library!Named(n)
      /\ \A u, n : Library!Titled(u, n)' = Library!Titled(u, n)
      /\ Library!Sound'
  BY RowsStay DEF LibraryInv
<1>2. DOMAIN ix' = Workers /\ \A v \in Workers : IndexOK(ix[v])'
  BY <1>1 DEF LibraryInv, IndexOK, IndexState, IdsSeen
<1>3. MetaOK(meta)'
  BY <1>1 DEF MetaOK, MetaState, MetaArtistOK, MetaAlbumOK
<1>4. PruneOK(prune)'  BY <1>1 DEF LibraryInv, PruneOK, PruneState
<1>5. GoInv' /\ OrphanInv'
  BY GoStays DEF LibraryInv
<1> QED  BY <1>1, <1>2, <1>3, <1>4, <1>5 DEF LibraryInv

(* A pruning moves on; a renaming keeps it from what that will write.       *)
LEMMA PruneMoves ==
  ASSUME LibraryInv, NEW r, PruneOK(r), prune' = r,
         UNCHANGED <<artists, albums, librarySongs, ix, meta>>,
         meta.at # "idle" => meta.path \notin r.songs,
         meta.at # "idle" => meta.artist \notin r.artists /\ meta.album \notin r.albums,
         GoInv', OrphanInv'
  PROVE  LibraryInv'
<1>1. /\ Library!Artists' = Library!Artists /\ Library!Albums' = Library!Albums
      /\ Library!Present' = Library!Present
      /\ \A n : Library!Named(n)' = Library!Named(n)
      /\ \A u, n : Library!Titled(u, n)' = Library!Titled(u, n)
      /\ Library!Sound'
  BY RowsStay DEF LibraryInv
<1>2. DOMAIN ix' = Workers /\ \A v \in Workers : IndexOK(ix[v])'
  BY <1>1 DEF LibraryInv, IndexOK, IndexState, IdsSeen
<1>3. MetaOK(meta)'
  BY <1>1 DEF LibraryInv, MetaOK, MetaState, MetaArtistOK, MetaAlbumOK
<1>4. PruneOK(prune)'  BY <1>1 DEF PruneOK, PruneState
<1> QED  BY <1>1, <1>2, <1>3, <1>4 DEF LibraryInv

(* A name that a worker asks for, and what it does with the answer.         *)
LEMMA AskedIs ==
  ASSUME LibraryInv, NEW w \in Workers,
         ix[w].at \in {"artist", "artist select", "own", "own select"}
  PROVE  /\ Library!Asked(w) \in Names /\ ix[w] \in IndexState /\ ix[w].tags \in Tags
         /\ Library!Asked(w) \in
              {Library!SongArtist(ix[w].tags), Library!AlbumArtist(ix[w].tags)}
         /\ ix[w].at \in {"artist", "artist select"} =>
              Library!Asked(w) = Library!AlbumArtist(ix[w].tags)
<1>1. /\ ix[w] \in IndexState /\ ix[w].tags \in Tags
      /\ ix[w].at \in {"artist", "artist select"} => Library!AlbumArtist(ix[w].tags) # None
      /\ ix[w].at \in {"own", "own select"} => ix[w].tags.artist # None
  BY DEF LibraryInv, IndexOK
<1>2. CASE ix[w].at \in {"artist", "artist select"}
  <2>1. Library!Asked(w) = Library!AlbumArtist(ix[w].tags)  BY <1>2 DEF Library!Asked
  <2> QED  BY <1>1, <1>2, <2>1, Distinct
<1>3. CASE ix[w].at \in {"own", "own select"}
  <2>1. Library!Asked(w) = ix[w].tags.artist  BY <1>3 DEF Library!Asked
  <2>2. Library!Asked(w) = Library!SongArtist(ix[w].tags)
    BY <1>1, <1>3, <2>1 DEF Library!SongArtist
  <2> QED  BY <1>1, <1>3, <2>1, <2>2, Distinct
<1> QED  BY <1>2, <1>3

LEMMA AnswerIs ==
  ASSUME LibraryInv, NEW w \in Workers,
         ix[w].at \in {"artist", "artist select", "own", "own select"}, NEW i \in IdsSeen
  PROVE  LET t == Library!Answered(w, i) IN
         /\ t \in IndexState /\ t.at \in {"album", "song"} /\ t.path = ix[w].path
         /\ t.tags = ix[w].tags /\ t.own = i /\ t.album = ix[w].album
         /\ \/ t.artist = i /\ ix[w].at \in {"artist", "artist select"}
            \/ t.artist = ix[w].artist /\ ix[w].at \in {"own", "own select"}
<1> DEFINE t == Library!Answered(w, i)
<1>1. ix[w] \in IndexState  BY AskedIs
<1>2. CASE ix[w].at \in {"artist", "artist select"}
  <2>1. t = [ix[w] EXCEPT !.at = "album", !.artist = i, !.own = i]
    BY <1>2 DEF Library!Answered
  <2>2. t \in IndexState  BY <1>1, <2>1 DEF IndexState
  <2>3. /\ t.at = "album" /\ t.path = ix[w].path /\ t.tags = ix[w].tags /\ t.own = i
        /\ t.album = ix[w].album /\ t.artist = i
    BY <1>1, <2>1 DEF IndexState
  <2> QED  BY <1>2, <2>2, <2>3
<1>3. CASE ix[w].at \in {"own", "own select"}
  <2>1. t = [ix[w] EXCEPT !.at = "song", !.own = i]  BY <1>3 DEF Library!Answered
  <2>2. t \in IndexState  BY <1>1, <2>1 DEF IndexState
  <2>3. /\ t.at = "song" /\ t.path = ix[w].path /\ t.tags = ix[w].tags /\ t.own = i
        /\ t.album = ix[w].album /\ t.artist = ix[w].artist
    BY <1>1, <2>1 DEF IndexState
  <2> QED  BY <1>3, <2>2, <2>3
<1> QED  BY <1>2, <1>3

(* An answer that is a row of that name, none, or what the worker had.      *)
LEMMA AnswerOK ==
  ASSUME LibraryInv, NEW w \in Workers,
         ix[w].at \in {"artist", "artist select", "own", "own select"}, NEW i \in IdsSeen,
         i \in Library!Artists => artists[i] = Library!Asked(w) \/ i = ix[w].own,
         ix[w].at \in {"artist", "artist select"} /\ i \in Library!Artists =>
           artists[i] = Library!Asked(w)
  PROVE  IndexOK(Library!Answered(w, i))
<1>1. PICK t : t = Library!Answered(w, i)  OBVIOUS
<1>2. /\ t \in IndexState /\ t.at \in {"album", "song"} /\ t.path = ix[w].path
      /\ t.tags = ix[w].tags /\ t.own = i /\ t.album = ix[w].album
      /\ \/ t.artist = i /\ ix[w].at \in {"artist", "artist select"}
         \/ t.artist = ix[w].artist /\ ix[w].at \in {"own", "own select"}
  BY <1>1, AnswerIs
<1>3. IndexOK(ix[w])  BY DEF LibraryInv
<1>4. t.path \in Paths /\ t.tags \in Tags  BY <1>2, <1>3 DEF IndexOK
<1>5. t.artist \in Library!Artists => artists[t.artist] = Library!AlbumArtist(t.tags)
  BY <1>2, <1>3, AskedIs DEF IndexOK
<1>6. t.own \in Library!Artists =>
        artists[t.own] \in {Library!SongArtist(t.tags), Library!AlbumArtist(t.tags)}
  BY <1>2, <1>3, AskedIs DEF IndexOK
<1>7. t.album \in Library!Albums =>
        /\ albums[t.album].title = t.tags.title
        /\ albums[t.album].by = Library!AlbumArtist(t.tags)
  BY <1>2, <1>3 DEF IndexOK
<1>8. t.at # "idle" /\ t.at \notin {"artist", "artist select", "own", "own select"}  BY <1>2
<1>9. IndexOK(t)  BY <1>2, <1>4, <1>5, <1>6, <1>7, <1>8 DEF IndexOK
<1> QED  BY <1>1, <1>9

LEMMA IndexKeeps ==
  ASSUME LibraryInv, NEW w \in Workers, NEW p \in Paths, NEW tags \in Tags,
         Library!Index(w, p, tags)
  PROVE  LibraryInv'
<1>1. PICK t : t = [Library!NoIndex EXCEPT
                      !.at = IF Library!AlbumArtist(tags) # None THEN "artist" ELSE "album",
                      !.path = p, !.tags = tags]
  OBVIOUS
<1>2. ix' = [ix EXCEPT ![w] = t]  BY <1>1 DEF Library!Index
<1>3. /\ t \in IndexState /\ t.at \in {"artist", "album"} /\ t.path = p /\ t.tags = tags
      /\ t.artist = None /\ t.own = None /\ t.album = None
      /\ t.at = "artist" => Library!AlbumArtist(tags) # None
  BY <1>1 DEF Library!NoIndex, IndexState, IdsSeen
<1>4. None \notin Library!Artists /\ None \notin Library!Albums
  BY Distinct DEF Library!Artists, Library!Albums
<1>5. t.at # "idle" /\ t.at \notin {"own", "own select", "artist select"}  BY <1>3
<1>6. IndexOK(t)  BY <1>3, <1>4, <1>5 DEF IndexOK
<1>7. UNCHANGED <<artists, albums, librarySongs, meta, prune, written>>  BY DEF Library!Index
<1> QED  BY <1>2, <1>3, <1>6, <1>7, IndexMoves

(* The row is found, or the worker makes do without.                        *)
LEMMA ArtistKnownKeeps ==
  ASSUME LibraryInv, NEW w \in Workers,
         \/ Library!SelectArtist(w) \/ Library!ArtistFails(w)
         \/ Library!InsertArtist(w) /\ Library!Named(Library!Asked(w)) # {}
  PROVE  LibraryInv'
<1>1. ix[w].at \in {"artist", "artist select", "own", "own select"}
  BY DEF Library!SelectArtist, Library!ArtistFails, Library!InsertArtist
<1>2. UNCHANGED <<artists, albums, librarySongs, meta, prune, written>>
  BY DEF Library!SelectArtist, Library!ArtistFails, Library!InsertArtist
<1>3. ix[w] \in IndexState /\ IndexOK(ix[w])  BY DEF LibraryInv, IndexOK
<1>4. CASE Library!SelectArtist(w)
  <2>1. PICK i \in Library!Named(Library!Asked(w)) :
          ix' = [ix EXCEPT ![w] = Library!Answered(w, i)]
    BY <1>4 DEF Library!SelectArtist
  <2>2. i \in Library!Artists /\ artists[i] = Library!Asked(w) /\ i \in IdsSeen
    BY DEF Library!Named, Library!Artists, IdsSeen
  <2>3. PICK t : t = Library!Answered(w, i)  OBVIOUS
  <2>4. IndexOK(t)  BY <1>1, <2>2, <2>3, AnswerOK
  <2>5. t.own = i /\ t.album = ix[w].album /\ (t.artist = i \/ t.artist = ix[w].artist)
    BY <1>1, <2>2, <2>3, AnswerIs
  <2> QED  BY <1>2, <2>1, <2>2, <2>3, <2>4, <2>5, IndexMoves
<1>5. CASE Library!ArtistFails(w)
  <2>1. PICK i : i = IF ix[w].at \in {"artist", "artist select"} THEN Ghost ELSE ix[w].own
    OBVIOUS
  <2>2. i \in IdsSeen  BY <1>3, <2>1 DEF IdsSeen, IndexState
  <2>3. PICK t : t = Library!Answered(w, i)  OBVIOUS
  <2>4. ix' = [ix EXCEPT ![w] = t]
    BY <1>5, <2>1, <2>3 DEF Library!ArtistFails, LibraryInv
  <2>5. Ghost \notin Library!Artists  BY Distinct DEF Library!Artists
  <2>6. IndexOK(t)  BY <1>1, <2>1, <2>2, <2>3, <2>5, AnswerOK
  <2>7. t.own = i /\ t.album = ix[w].album /\ (t.artist = i \/ t.artist = ix[w].artist)
    BY <1>1, <2>2, <2>3, AnswerIs
  <2> QED  BY <1>2, <2>1, <2>4, <2>6, <2>7, IndexMoves
<1>6. CASE Library!InsertArtist(w) /\ Library!Named(Library!Asked(w)) # {}
  <2>1. PICK t : t = [ix[w] EXCEPT !.at = IF @ = "artist" THEN "artist select" ELSE "own select"]
    OBVIOUS
  <2>2. ix' = [ix EXCEPT ![w] = t] /\ ix[w].at \in {"artist", "own"}
    BY <1>6, <2>1 DEF Library!InsertArtist
  <2>3. /\ t \in IndexState /\ t.path = ix[w].path /\ t.tags = ix[w].tags
        /\ t.artist = ix[w].artist /\ t.own = ix[w].own /\ t.album = ix[w].album
        /\ t.at = IF ix[w].at = "artist" THEN "artist select" ELSE "own select"
    BY <1>3, <2>1 DEF IndexState
  <2>4. /\ t.at \in {"artist select", "own select"}
        /\ t.at = "artist select" => Library!AlbumArtist(t.tags) # None
        /\ t.at = "own select" => t.tags.artist # None
    BY <1>3, <2>2, <2>3 DEF IndexOK
  <2>5. t.path \in Paths /\ t.tags \in Tags  BY <1>3, <2>2, <2>3 DEF IndexOK
  <2>6. IndexOK(t)  BY <1>3, <2>3, <2>4, <2>5 DEF IndexOK
  <2> QED  BY <1>2, <2>2, <2>3, <2>6, IndexMoves
<1> QED  BY <1>4, <1>5, <1>6

LEMMA AlbumFailsKeeps ==
  ASSUME LibraryInv, NEW w \in Workers, Library!AlbumFails(w)
  PROVE  LibraryInv'
<1>1. PICK t : t = [ix[w] EXCEPT !.at = Library!AfterAlbum(ix[w].tags), !.album = Ghost]
  OBVIOUS
<1>2. ix' = [ix EXCEPT ![w] = t] /\ ix[w].at = "album"  BY <1>1 DEF Library!AlbumFails
<1>3. ix[w] \in IndexState /\ IndexOK(ix[w])  BY DEF LibraryInv, IndexOK
<1>4. /\ Library!AfterAlbum(ix[w].tags) \in {"own", "song"}
      /\ Library!AfterAlbum(ix[w].tags) = "own" => ix[w].tags.artist # None
  BY DEF Library!AfterAlbum
<1>5. /\ t \in IndexState /\ t.path = ix[w].path /\ t.tags = ix[w].tags
      /\ t.artist = ix[w].artist /\ t.own = ix[w].own /\ t.album = Ghost
      /\ t.at = Library!AfterAlbum(ix[w].tags)
  BY <1>1, <1>3, <1>4 DEF IndexState, IdsSeen
<1>6. Ghost \notin Library!Albums  BY Distinct DEF Library!Albums
<1>7. IndexOK(t)  BY <1>2, <1>3, <1>4, <1>5, <1>6 DEF IndexOK
<1>8. UNCHANGED <<artists, albums, librarySongs, meta, prune, written>>
  BY DEF Library!AlbumFails
<1> QED  BY <1>2, <1>5, <1>7, <1>8, IndexMoves

LEMMA NoIndexOK ==
  /\ IndexOK(Library!NoIndex) /\ Library!NoIndex.artist = None /\ Library!NoIndex.own = None
  /\ Library!NoIndex.album = None
<1>1. PICK t : t = Library!NoIndex  OBVIOUS
<1>2. /\ t \in IndexState /\ t.at = "idle" /\ t.artist = None /\ t.own = None /\ t.album = None
  BY <1>1 DEF Library!NoIndex, IndexState, IdsSeen
<1>3. None \notin Library!Artists /\ None \notin Library!Albums
  BY Distinct DEF Library!Artists, Library!Albums
<1>4. IndexOK(t)  BY <1>1, <1>2, <1>3 DEF IndexOK
<1> QED  BY <1>1, <1>2, <1>4

LEMMA SongFailsKeeps ==
  ASSUME LibraryInv, NEW w \in Workers, Library!SongFails(w)
  PROVE  LibraryInv'
<1>1. /\ ix' = [ix EXCEPT ![w] = Library!NoIndex]
      /\ UNCHANGED <<artists, albums, librarySongs, meta, prune, written>>
  BY DEF Library!SongFails
<1> QED  BY <1>1, NoIndexOK, IndexMoves

LEMMA NoMetaOK == MetaOK(Library!NoMeta)
<1>1. PICK t : t = Library!NoMeta  OBVIOUS
<1>2. t \in MetaState /\ t.at = "idle" /\ t.artist = None /\ t.album = None
  BY <1>1 DEF Library!NoMeta, MetaState
<1>3. MetaOK(t)  BY <1>1, <1>2 DEF MetaOK
<1> QED  BY <1>1, <1>3

LEMMA MetaFailsKeeps ==
  ASSUME LibraryInv, Library!MetaFails
  PROVE  LibraryInv'
<1>1. /\ meta' = Library!NoMeta
      /\ UNCHANGED <<artists, albums, librarySongs, ix, prune, written>>
  BY DEF Library!MetaFails
<1> QED  BY <1>1, NoMetaOK, MetaMoves

LEMMA MetaBeginKeeps ==
  ASSUME LibraryInv, NEW p \in Paths, NEW n \in Names, Library!MetaBegin(p, n)
  PROVE  LibraryInv'
<1>1. PICK t : t = [Library!NoMeta EXCEPT !.at = "artist", !.path = p, !.by = n]  OBVIOUS
<1>2. /\ t \in MetaState /\ t.at = "artist" /\ t.path = p /\ t.by = n /\ t.artist = None
      /\ t.album = None
  BY <1>1 DEF Library!NoMeta, MetaState
<1>3. p \in Library!Present /\ p \notin prune.songs
  BY DEF Library!MetaBegin, Library!HeldSong
<1>4. MetaOK(t)  BY <1>2, <1>3 DEF MetaOK
<1>5. meta' = t /\ UNCHANGED <<artists, albums, librarySongs, ix, prune, written>>
  BY <1>1 DEF Library!MetaBegin
<1> QED  BY <1>4, <1>5, MetaMoves

LEMMA MetaArtistKeeps ==
  ASSUME LibraryInv, Library!MetaArtist
  PROVE  LibraryInv'
<1>1. PICK i : /\ i \in IF Library!Named(meta.by) # {} THEN Library!Named(meta.by)
                                                       ELSE Library!Fresh(Library!NewArtist)
               /\ meta' = [meta EXCEPT !.at = "album", !.artist = i]
  BY DEF Library!MetaArtist
<1>2. /\ meta.at = "artist" /\ ~Library!HeldArtist(meta.by)
      /\ UNCHANGED <<artists, albums, librarySongs, ix, prune, written>>
  BY DEF Library!MetaArtist
<1>3. MetaOK(meta) /\ meta \in MetaState  BY DEF LibraryInv, MetaOK
<1>4. PruneOK(prune)  BY DEF LibraryInv
<1>5. /\ i \in Ids /\ i \notin prune.artists
      /\ i \in Library!Artists => artists[i] = meta.by
      /\ i \notin Library!Artists =>
           /\ Library!Named(meta.by) = {}
           /\ \A j \in Ids : albums[j].artist # i
           /\ \A w \in Workers : ix[w].artist # i /\ ix[w].own # i
  <2>1. CASE i \in Library!Named(meta.by)
    <3>1. i \in Library!Artists /\ artists[i] = meta.by /\ i \in Ids
      BY <2>1 DEF Library!Named, Library!Artists
    <3>2. i \notin prune.artists  BY <1>2, <3>1 DEF Library!HeldArtist
    <3> QED  BY <3>1, <3>2
  <2>2. CASE Library!Named(meta.by) = {}
    <3>1. i \in Ids /\ i \notin Library!NewArtist  BY <1>1, <2>2, FreshIds
    <3>2. /\ i \notin Library!Artists /\ \A j \in Ids : albums[j].artist # i
          /\ \A w \in Workers : ix[w].artist # i /\ ix[w].own # i
      BY <3>1 DEF Library!NewArtist
    <3>3. i \notin prune.artists  BY <1>4, <3>2 DEF PruneOK
    <3> QED  BY <2>2, <3>1, <3>2, <3>3
  <2> QED  BY <1>1, <2>1, <2>2
<1>6. PICK t : t = [meta EXCEPT !.at = "album", !.artist = i]  OBVIOUS
<1>7. /\ t \in MetaState /\ t.at = "album" /\ t.path = meta.path /\ t.by = meta.by
      /\ t.artist = i /\ t.album = meta.album
  BY <1>3, <1>5, <1>6 DEF MetaState
<1>8. MetaArtistOK(t)  BY <1>5, <1>7 DEF MetaArtistOK
<1>9. MetaOK(t)  BY <1>2, <1>3, <1>5, <1>7, <1>8 DEF MetaOK
<1> QED  BY <1>1, <1>2, <1>6, <1>9, MetaMoves

LEMMA MetaAlbumKeeps ==
  ASSUME LibraryInv, Library!MetaAlbum
  PROVE  LibraryInv'
<1>1. PICK title : title = librarySongs[meta.path].title  OBVIOUS
<1>2. PICK i : /\ i \in IF Library!Titled(title, meta.by) # {}
                        THEN Library!Titled(title, meta.by)
                        ELSE Library!Fresh(Library!NewAlbum)
               /\ meta' = [meta EXCEPT !.at = "song", !.album = i]
  BY <1>1 DEF Library!MetaAlbum
<1>3. /\ meta.at = "album" /\ ~Library!HeldAlbum(title, meta.by)
      /\ UNCHANGED <<artists, albums, librarySongs, ix, prune, written>>
  BY <1>1 DEF Library!MetaAlbum
<1>4. MetaOK(meta) /\ meta \in MetaState  BY DEF LibraryInv, MetaOK
<1>5. PruneOK(prune)  BY DEF LibraryInv
<1>6. /\ i \in Ids /\ i \notin prune.albums
      /\ i \in Library!Albums => albums[i].title = title /\ albums[i].by = meta.by
      /\ i \notin Library!Albums =>
           /\ Library!Titled(title, meta.by) = {}
           /\ \A w \in Workers : ix[w].album # i
  <2>1. CASE i \in Library!Titled(title, meta.by)
    <3>1. i \in Library!Albums /\ albums[i].title = title /\ albums[i].by = meta.by /\ i \in Ids
      BY <2>1 DEF Library!Titled, Library!Albums
    <3>2. i \notin prune.albums  BY <1>3, <3>1 DEF Library!HeldAlbum
    <3> QED  BY <3>1, <3>2
  <2>2. CASE Library!Titled(title, meta.by) = {}
    <3>1. i \in Ids /\ i \notin Library!NewAlbum  BY <1>2, <2>2, FreshIds
    <3>2. i \notin Library!Albums /\ \A w \in Workers : ix[w].album # i
      BY <3>1 DEF Library!NewAlbum
    <3>3. i \notin prune.albums  BY <1>5, <3>2 DEF PruneOK
    <3> QED  BY <2>2, <3>1, <3>2, <3>3
  <2> QED  BY <1>2, <2>1, <2>2
<1>7. PICK t : t = [meta EXCEPT !.at = "song", !.album = i]  OBVIOUS
<1>8. /\ t \in MetaState /\ t.at = "song" /\ t.path = meta.path /\ t.by = meta.by
      /\ t.artist = meta.artist /\ t.album = i
  BY <1>4, <1>6, <1>7 DEF MetaState
<1>9. MetaAlbumOK(t)  BY <1>1, <1>6, <1>8 DEF MetaAlbumOK
<1>10. MetaArtistOK(meta) /\ meta.artist \in Ids  BY <1>3, <1>4 DEF MetaOK
<1>11. MetaArtistOK(t)  BY <1>8, <1>10 DEF MetaArtistOK
<1>12. MetaOK(t)  BY <1>3, <1>4, <1>6, <1>8, <1>9, <1>10, <1>11 DEF MetaOK
<1> QED  BY <1>2, <1>3, <1>7, <1>12, MetaMoves

-----------------------------------------------------------------------------
(* DeleteMissing: steps before it commits.                                  *)

LEMMA GoIs ==
  ASSUME LibraryInv
  PROVE  /\ prune.albums \subseteq AlbumsGo /\ prune.artists \subseteq ArtistsGo
         /\ prune \in PruneState /\ PruneOK(prune)
         /\ prune.at # "delete albums" => AlbumsGo = prune.albums
         /\ prune.at = "delete albums" => AlbumsGo = prune.seen
         /\ prune.at # "delete artists" => ArtistsGo = prune.artists
         /\ prune.at = "delete artists" => ArtistsGo = prune.seen
BY DEF LibraryInv, PruneOK, AlbumsGo, ArtistsGo

(* A renaming has nothing of what was deleted.                              *)
LEMMA MetaSpared ==
  ASSUME LibraryInv, meta.at # "idle"
  PROVE  /\ meta.path \notin prune.songs /\ meta.artist \notin prune.artists
         /\ meta.album \notin prune.albums
<1>1. MetaOK(meta) /\ meta \in MetaState  BY DEF LibraryInv, MetaOK
<1>2. prune.albums \subseteq Ids /\ prune.artists \subseteq Ids  BY GoIs DEF PruneState
<1>3. None \notin prune.albums /\ None \notin prune.artists  BY <1>2, Distinct
<1>4. meta.path \notin prune.songs  BY <1>1 DEF MetaOK
<1>5. meta.at \in {"artist", "album", "song"}  BY <1>1 DEF MetaState
<1>6. meta.artist \notin prune.artists  BY <1>1, <1>3, <1>5 DEF MetaOK, MetaArtistOK
<1>7. meta.album \notin prune.albums  BY <1>1, <1>3, <1>5 DEF MetaOK, MetaAlbumOK
<1> QED  BY <1>4, <1>6, <1>7

LEMMA DeleteSongsKeeps ==
  ASSUME LibraryInv, NEW keep \in SUBSET Paths, Library!DeleteSongs(keep)
  PROVE  LibraryInv'
<1>1. PICK r : r = [Library!NoPrune EXCEPT !.at = "albums", !.songs = Library!Present \ keep]
  OBVIOUS
<1>2. /\ prune' = r /\ meta.path \in keep \cup {None} /\ written' = {}
      /\ UNCHANGED <<artists, albums, librarySongs, ix, meta>>
  BY <1>1 DEF Library!DeleteSongs
<1>3. Library!Present \subseteq Paths  BY DEF Library!Present
<1>4. /\ r \in PruneState /\ r.at = "albums" /\ r.songs = Library!Present \ keep
      /\ r.albums = {} /\ r.artists = {}
  BY <1>1, <1>3 DEF Library!NoPrune, PruneState
<1>5. PruneOK(r)  BY <1>4 DEF PruneOK
<1>6. meta.at # "idle" => meta.path \in Library!Present  BY DEF LibraryInv, MetaOK
<1>7. meta.at # "idle" => meta.path \notin r.songs  BY <1>2, <1>3, <1>4, <1>6, Distinct
<1>8. GoInv' /\ OrphanInv'
  BY <1>2, <1>4 DEF GoInv, OrphanInv, AlbumsGo, ArtistsGo
<1> QED  BY <1>2, <1>4, <1>5, <1>7, <1>8, PruneMoves

LEMMA SeeAlbumsKeeps ==
  ASSUME LibraryInv, Library!SeeAlbums
  PROVE  LibraryInv'
<1>1. PICK r : r = [prune EXCEPT !.at = "delete albums", !.seen = Library!OrphanAlbums]
  OBVIOUS
<1>2. /\ prune' = r /\ prune.at = "albums"
      /\ UNCHANGED <<artists, albums, librarySongs, ix, meta, written>>
  BY <1>1 DEF Library!SeeAlbums
<1>3. Library!OrphanAlbums \subseteq Library!Albums /\ Library!Albums \subseteq Ids
  BY DEF Library!OrphanAlbums, Library!Albums
<1>4. PruneOK(prune) /\ prune \in PruneState /\ prune.albums = {} /\ prune.artists = {}
  BY <1>2, GoIs DEF PruneOK
<1>5. /\ r \in PruneState /\ r.at = "delete albums" /\ r.seen = Library!OrphanAlbums
      /\ r.songs = prune.songs /\ r.albums = {} /\ r.artists = {}
  BY <1>1, <1>3, <1>4 DEF PruneState
<1>6. PruneOK(r)  BY <1>3, <1>4, <1>5 DEF PruneOK
<1>7. Library!Kept' = Library!Kept
  BY <1>2, <1>5, RowsStay DEF Library!Kept
<1>8. AlbumsGo' = Library!OrphanAlbums /\ ArtistsGo' = {}
  BY <1>2, <1>5 DEF AlbumsGo, ArtistsGo
<1>9. GoInv'  BY <1>2, <1>7, <1>8 DEF GoInv, Library!OrphanAlbums
<1>10. Library!OrphanAlbums' = Library!OrphanAlbums
  BY <1>2, <1>7, RowsStay DEF Library!OrphanAlbums
<1>11. OrphanInv'  BY <1>2, <1>5, <1>10 DEF OrphanInv
<1>12. meta.at # "idle" => meta.path \notin r.songs
  BY <1>5, MetaSpared
<1> QED  BY <1>2, <1>5, <1>6, <1>9, <1>11, <1>12, PruneMoves

LEMMA DeleteAlbumsKeeps ==
  ASSUME LibraryInv, Library!DeleteAlbums
  PROVE  LibraryInv'
<1>1. PICK r : r = [prune EXCEPT !.at = "artists", !.albums = prune.seen, !.seen = {}]
  OBVIOUS
<1>2. /\ prune' = r /\ prune.at = "delete albums" /\ meta.album \notin prune.seen
      /\ UNCHANGED <<artists, albums, librarySongs, ix, meta, written>>
  BY <1>1 DEF Library!DeleteAlbums
<1>3. /\ PruneOK(prune) /\ prune \in PruneState /\ prune.artists = {}
      /\ prune.seen \subseteq Library!Albums
  BY <1>2, GoIs DEF PruneOK
<1>4. /\ r \in PruneState /\ r.at = "artists" /\ r.songs = prune.songs
      /\ r.albums = prune.seen /\ r.artists = {}
  BY <1>1, <1>3 DEF PruneState
<1>5. PruneOK(r)  BY <1>3, <1>4 DEF PruneOK
<1>6. Library!Kept' = Library!Kept
  BY <1>2, <1>4, RowsStay DEF Library!Kept
<1>7. AlbumsGo = prune.seen /\ AlbumsGo' = prune.seen /\ ArtistsGo' = {}
  BY <1>2, <1>4, GoIs DEF AlbumsGo, ArtistsGo
<1>8. GoInv'
  BY <1>2, <1>6, <1>7 DEF GoInv, LibraryInv
<1>9. Library!OrphanAlbums' = Library!OrphanAlbums
  BY <1>2, <1>6, RowsStay DEF Library!OrphanAlbums
<1>10. OrphanInv'  BY <1>2, <1>4, <1>9 DEF OrphanInv, LibraryInv
<1>11. meta.at # "idle" => meta.path \notin r.songs
  BY <1>4, MetaSpared
<1> QED  BY <1>2, <1>4, <1>5, <1>8, <1>10, <1>11, PruneMoves

LEMMA SeeArtistsKeeps ==
  ASSUME LibraryInv, Library!SeeArtists
  PROVE  LibraryInv'
<1>1. PICK r : r = [prune EXCEPT !.at = "delete artists", !.seen = Library!OrphanArtists]
  OBVIOUS
<1>2. /\ prune' = r /\ prune.at = "artists"
      /\ UNCHANGED <<artists, albums, librarySongs, ix, meta, written>>
  BY <1>1 DEF Library!SeeArtists
<1>3. Library!OrphanArtists \subseteq Library!Artists /\ Library!Artists \subseteq Ids
  BY DEF Library!OrphanArtists, Library!Artists
<1>4. PruneOK(prune) /\ prune \in PruneState /\ prune.artists = {}
  BY <1>2, GoIs DEF PruneOK
<1>5. /\ r \in PruneState /\ r.at = "delete artists" /\ r.seen = Library!OrphanArtists
      /\ r.songs = prune.songs /\ r.albums = prune.albums /\ r.artists = {}
  BY <1>1, <1>3, <1>4 DEF PruneState
<1>6. PruneOK(r)  BY <1>3, <1>4, <1>5 DEF PruneOK
<1>7. Library!Kept' = Library!Kept
  BY <1>2, <1>5, RowsStay DEF Library!Kept
<1>8. /\ AlbumsGo' = prune.albums /\ AlbumsGo = prune.albums
      /\ ArtistsGo' = Library!OrphanArtists
  BY <1>2, <1>5, GoIs DEF AlbumsGo, ArtistsGo
<1>9. \A p \in Library!Kept : librarySongs[p].artist \notin Library!OrphanArtists
  BY DEF Library!OrphanArtists
<1>10. GoInv'  BY <1>2, <1>7, <1>8, <1>9 DEF GoInv, LibraryInv
<1>11. Library!OrphanAlbums' = Library!OrphanAlbums
  BY <1>2, <1>7, RowsStay DEF Library!OrphanAlbums
<1>12. Library!OrphanArtists' = Library!OrphanArtists
  BY <1>2, <1>5, <1>7, RowsStay DEF Library!OrphanArtists
<1>13. OrphanInv'  BY <1>2, <1>5, <1>11, <1>12 DEF OrphanInv, LibraryInv
<1>14. meta.at # "idle" => meta.path \notin r.songs /\ meta.album \notin r.albums
  BY <1>5, MetaSpared
<1> QED  BY <1>2, <1>5, <1>6, <1>10, <1>13, <1>14, PruneMoves

LEMMA DeleteArtistsKeeps ==
  ASSUME LibraryInv, Library!DeleteArtists
  PROVE  LibraryInv'
<1>1. PICK r : r = [prune EXCEPT !.at = "commit", !.artists = prune.seen, !.seen = {}]
  OBVIOUS
<1>2. /\ prune' = r /\ prune.at = "delete artists" /\ meta.artist \notin prune.seen
      /\ UNCHANGED <<artists, albums, librarySongs, ix, meta, written>>
  BY <1>1 DEF Library!DeleteArtists
<1>3. /\ PruneOK(prune) /\ prune \in PruneState
      /\ prune.seen \subseteq Library!Artists
  BY <1>2, GoIs DEF PruneOK
<1>4. /\ r \in PruneState /\ r.at = "commit" /\ r.songs = prune.songs
      /\ r.albums = prune.albums /\ r.artists = prune.seen
  BY <1>1, <1>3 DEF PruneState
<1>5. PruneOK(r)  BY <1>3, <1>4 DEF PruneOK
<1>6. Library!Kept' = Library!Kept
  BY <1>2, <1>4, RowsStay DEF Library!Kept
<1>7. /\ AlbumsGo = prune.albums /\ AlbumsGo' = prune.albums
      /\ ArtistsGo = prune.seen /\ ArtistsGo' = prune.seen
  BY <1>2, <1>4, GoIs DEF AlbumsGo, ArtistsGo
<1>8. GoInv'
  BY <1>2, <1>6, <1>7 DEF GoInv, LibraryInv
<1>9. Library!OrphanAlbums' = Library!OrphanAlbums
  BY <1>2, <1>6, RowsStay DEF Library!OrphanAlbums
<1>10. Library!OrphanArtists' = Library!OrphanArtists
  BY <1>2, <1>4, <1>6, RowsStay DEF Library!OrphanArtists
<1>11. OrphanInv'  BY <1>2, <1>4, <1>9, <1>10 DEF OrphanInv, LibraryInv
<1>12. meta.at # "idle" => meta.path \notin r.songs /\ meta.album \notin r.albums
  BY <1>4, MetaSpared
<1> QED  BY <1>2, <1>4, <1>5, <1>8, <1>11, <1>12, PruneMoves

LEMMA NoPruneOK ==
  /\ PruneOK(Library!NoPrune) /\ Library!NoPrune.at = "idle" /\ Library!NoPrune.songs = {}
  /\ Library!NoPrune.albums = {} /\ Library!NoPrune.artists = {}
<1>1. PICK r : r = Library!NoPrune  OBVIOUS
<1>2. r \in PruneState /\ r.at = "idle" /\ r.songs = {} /\ r.albums = {} /\ r.artists = {}
  BY <1>1 DEF Library!NoPrune, PruneState
<1>3. PruneOK(r)  BY <1>1, <1>2 DEF PruneOK
<1> QED  BY <1>1, <1>2, <1>3

(* No pruning, nothing goes.                                                *)
LEMMA NothingGoes ==
  ASSUME prune' = Library!NoPrune
  PROVE  PruneOK(prune)' /\ GoInv' /\ OrphanInv'
<1>1. PICK r : r = Library!NoPrune  OBVIOUS
<1>2. /\ r.at = "idle" /\ r.songs = {} /\ r.albums = {} /\ r.artists = {}
      /\ r \in PruneState
  BY <1>1, NoPruneOK DEF PruneOK
<1>3. PruneOK(prune)'  BY <1>1, <1>2 DEF PruneOK, PruneState
<1>4. GoInv' /\ OrphanInv'
  BY <1>1, <1>2 DEF GoInv, OrphanInv, AlbumsGo, ArtistsGo
<1> QED  BY <1>3, <1>4

LEMMA PruneFailsKeeps ==
  ASSUME LibraryInv, Library!PruneFails
  PROVE  LibraryInv'
<1>1. /\ prune' = Library!NoPrune /\ UNCHANGED <<artists, albums, librarySongs, ix, meta>>
  BY DEF Library!PruneFails
<1> QED  BY <1>1, NoPruneOK, NothingGoes, PruneMoves

(* What others write while it runs is noted.                                *)
LEMMA WrittenKeeps ==
  ASSUME LibraryInv, prune' = prune, NEW row, written' = Library!Noted(row),
         \A p \in Library!Kept' \ {row} :
           /\ p \in Library!Kept
           /\ librarySongs'[p].album = librarySongs[p].album
           /\ librarySongs'[p].artist = librarySongs[p].artist
  PROVE  GoInv' /\ OrphanInv'
<1>1. CASE prune.at = "idle"
  <2>1. prune' = Library!NoPrune  BY <1>1, GoIs DEF PruneOK
  <2> QED  BY <2>1, NothingGoes
<1>2. CASE prune.at # "idle"
  <2>1. written' = written \cup {row}  BY <1>2 DEF Library!Noted
  <2>2. AlbumsGo' = AlbumsGo /\ ArtistsGo' = ArtistsGo  BY DEF AlbumsGo, ArtistsGo
  <2>3. ASSUME NEW p \in Library!Kept' \ written'
        PROVE  librarySongs'[p].album \notin AlbumsGo' /\ librarySongs'[p].artist \notin ArtistsGo'
    <3>1. p \in Library!Kept' \ {row} /\ p \notin written  BY <2>1, <2>3
    <3>2. p \in Library!Kept \ written  BY <3>1
    <3> QED  BY <2>2, <3>1, <3>2 DEF GoInv, LibraryInv
  <2>4. GoInv'  BY <2>3 DEF GoInv
  <2>5. OrphanInv'  BY <2>1 DEF OrphanInv
  <2> QED  BY <2>4, <2>5
<1> QED  BY <1>1, <1>2

-----------------------------------------------------------------------------
(* Steps that write rows.                                                   *)

(* The rows there are after one of them was written, and those they have.   *)
LEMMA RowsWritten ==
  ASSUME Library!TypeOK, NEW i, NEW row
  PROVE  /\ artists' = [artists EXCEPT ![i] = row] /\ i \in Ids /\ row \in Names =>
              /\ Library!Artists' = Library!Artists \cup {i} /\ artists'[i] = row
              /\ \A j : j # i => artists'[j] = artists[j]
              /\ artists' \in [Ids -> Names \cup {None}]
         /\ albums' = [albums EXCEPT ![i] = row] /\ i \in Ids /\ row \in Library!AlbumRow =>
              /\ Library!Albums' = Library!Albums \cup {i} /\ albums'[i] = row
              /\ \A j : j # i => albums'[j] = albums[j]
              /\ albums' \in [Ids -> Library!AlbumRow \cup {Library!Absent}]
         /\ librarySongs' = [librarySongs EXCEPT ![i] = row] /\ i \in Paths
            /\ row.title \in Titles =>
              /\ Library!Present' = Library!Present \cup {i} /\ librarySongs'[i] = row
              /\ \A j : j # i => librarySongs'[j] = librarySongs[j]
              /\ DOMAIN librarySongs' = Paths
<1>1. /\ artists \in [Ids -> Names \cup {None}]
      /\ albums \in [Ids -> Library!AlbumRow \cup {Library!Absent}]
      /\ librarySongs \in [Paths -> Library!SongRow \cup {Library!Absent}]
  BY DEF Library!TypeOK
<1>2. ASSUME artists' = [artists EXCEPT ![i] = row], i \in Ids, row \in Names
      PROVE  /\ Library!Artists' = Library!Artists \cup {i} /\ artists'[i] = row
             /\ \A j : j # i => artists'[j] = artists[j]
             /\ artists' \in [Ids -> Names \cup {None}]
  BY <1>1, <1>2, Distinct DEF Library!Artists
<1>3. ASSUME albums' = [albums EXCEPT ![i] = row], i \in Ids, row \in Library!AlbumRow
      PROVE  /\ Library!Albums' = Library!Albums \cup {i} /\ albums'[i] = row
             /\ \A j : j # i => albums'[j] = albums[j]
             /\ albums' \in [Ids -> Library!AlbumRow \cup {Library!Absent}]
  <2>1. row.title # None  BY <1>3, Distinct DEF Library!AlbumRow
  <2>2. albums' \in [Ids -> Library!AlbumRow \cup {Library!Absent}]  BY <1>1, <1>3
  <2>3. albums'[i] = row /\ \A j : j # i => albums'[j] = albums[j]  BY <1>1, <1>3
  <2>4. Library!Albums' = Library!Albums \cup {i}  BY <1>3, <2>1, <2>3 DEF Library!Albums
  <2> QED  BY <2>2, <2>3, <2>4
<1>4. ASSUME librarySongs' = [librarySongs EXCEPT ![i] = row], i \in Paths, row.title \in Titles
      PROVE  /\ Library!Present' = Library!Present \cup {i} /\ librarySongs'[i] = row
             /\ \A j : j # i => librarySongs'[j] = librarySongs[j]
             /\ DOMAIN librarySongs' = Paths
  <2>1. row.title # None  BY <1>4, Distinct
  <2>2. librarySongs'[i] = row /\ \A j : j # i => librarySongs'[j] = librarySongs[j]
    BY <1>1, <1>4
  <2>3. Library!Present' = Library!Present \cup {i}  BY <1>4, <2>1, <2>2 DEF Library!Present
  <2>4. DOMAIN librarySongs' = Paths  BY <1>1, <1>4
  <2> QED  BY <2>2, <2>3, <2>4
<1> QED  BY <1>2, <1>3, <1>4

LEMMA PruneStays ==
  ASSUME LibraryInv, prune' = prune, Library!Present \subseteq Library!Present',
         Library!Albums \subseteq Library!Albums', Library!Artists \subseteq Library!Artists'
  PROVE  PruneOK(prune)'
<1>1. PruneOK(prune)  BY DEF LibraryInv
<1> QED  BY <1>1 DEF PruneOK, PruneState

(* A worker's rows are what they were.                                      *)
LEMMA IndexStays ==
  ASSUME NEW x, IndexOK(x),
         \A i \in {x.artist, x.own} : i \in Library!Artists' =>
           i \in Library!Artists /\ artists'[i] = artists[i],
         x.album \in Library!Albums' =>
           /\ x.album \in Library!Albums
           /\ albums'[x.album].title = albums[x.album].title
           /\ albums'[x.album].by = albums[x.album].by
  PROVE  IndexOK(x)'
BY DEF IndexOK, IndexState, IdsSeen

LEMMA IndexAt ==
  ASSUME NEW v, NEW y, y = ix'[v], IndexOK(y)'
  PROVE  IndexOK(ix[v])'
BY DEF IndexOK

LEMMA InsertArtistKeeps ==
  ASSUME LibraryInv, NEW w \in Workers, Library!InsertArtist(w),
         Library!Named(Library!Asked(w)) = {}
  PROVE  LibraryInv'
<1>1. PICK n : n = Library!Asked(w)  OBVIOUS
<1>2. PICK i \in Library!Fresh(Library!NewArtist) :
        /\ artists' = [artists EXCEPT ![i] = n]
        /\ ix' = [ix EXCEPT ![w] = Library!Answered(w, i)]
        /\ written' = Library!Noted(None)
  BY <1>1 DEF Library!InsertArtist
<1>3. /\ ix[w].at \in {"artist", "own"} /\ ~Library!HeldArtist(n)
      /\ UNCHANGED <<albums, librarySongs, meta, prune>>
  BY <1>1 DEF Library!InsertArtist
<1>4. i \in Ids /\ i \notin Library!NewArtist  BY <1>2, FreshIds
<1>5. /\ i \notin Library!Artists /\ i # meta.artist /\ \A j \in Ids : albums[j].artist # i
      /\ \A v \in Workers : ix[v].artist # i /\ ix[v].own # i
  BY <1>4 DEF Library!NewArtist
<1>6. Library!Named(n) = {} /\ n \in Names  BY <1>1, <1>3, AskedIs
<1>7. Library!TypeOK /\ Library!OneRowEach /\ Library!NamesAgree
  BY DEF LibraryInv, Library!Sound
<1>8. /\ Library!Artists' = Library!Artists \cup {i} /\ artists'[i] = n
      /\ \A j : j # i => artists'[j] = artists[j]
      /\ artists' \in [Ids -> Names \cup {None}]
  BY <1>2, <1>4, <1>6, <1>7, RowsWritten
<1>9. /\ Library!Albums' = Library!Albums /\ Library!Present' = Library!Present
      /\ \A t, m : Library!Titled(t, m)' = Library!Titled(t, m)
  BY <1>3 DEF Library!Albums, Library!Present, Library!Titled
<1>10. Library!Sound'
  <2>1. Library!SongRow \subseteq Library!SongRow'
    BY <1>8, <1>9 DEF Library!SongRow
  <2>2. Library!AlbumRow' = Library!AlbumRow /\ Library!Absent' = Library!Absent
    BY DEF Library!AlbumRow, Library!Absent
  <2>3. Library!TypeOK'  BY <1>3, <1>7, <1>8, <2>1, <2>2 DEF Library!TypeOK
  <2>4. Library!OneRowEach'
    <3>1. \A j \in Library!Artists : artists[j] # n  BY <1>6 DEF Library!Named
    <3>2. \A j, k \in Library!Artists' : artists'[j] = artists'[k] => j = k
      BY <1>5, <1>7, <1>8, <3>1 DEF Library!OneRowEach
    <3> QED  BY <1>3, <1>7, <1>9, <3>2 DEF Library!OneRowEach
  <2>5. Library!NamesAgree'
    <3>1. \A j \in Library!Albums : albums[j].artist # i
      BY <1>5, <1>7, RowTypes
    <3>2. \A p \in Library!Present : librarySongs[p].artist # i
      BY <1>4, <1>5, <1>7, RowTypes, Distinct
    <3> QED  BY <1>3, <1>7, <1>8, <1>9, <3>1, <3>2 DEF Library!NamesAgree
  <2> QED  BY <2>3, <2>4, <2>5 DEF Library!Sound
<1>11. PICK t : t = Library!Answered(w, i)  OBVIOUS
<1>12. /\ t \in IndexState /\ t.at \in {"album", "song"} /\ t.path = ix[w].path
       /\ t.tags = ix[w].tags /\ t.own = i /\ t.album = ix[w].album
       /\ \/ t.artist = i /\ ix[w].at \in {"artist", "artist select"}
          \/ t.artist = ix[w].artist /\ ix[w].at \in {"own", "own select"}
  <2>1. i \in IdsSeen  BY <1>4 DEF IdsSeen
  <2>2. ix[w].at \in {"artist", "artist select", "own", "own select"}  BY <1>3
  <2>3. LET u == Library!Answered(w, i) IN
        /\ u \in IndexState /\ u.at \in {"album", "song"} /\ u.path = ix[w].path
        /\ u.tags = ix[w].tags /\ u.own = i /\ u.album = ix[w].album
        /\ \/ u.artist = i /\ ix[w].at \in {"artist", "artist select"}
           \/ u.artist = ix[w].artist /\ ix[w].at \in {"own", "own select"}
    BY <2>1, <2>2, AnswerIs
  <2> QED  BY <1>11, <2>3
<1>13. IndexOK(t)'
  <2>1. IndexOK(ix[w])  BY DEF LibraryInv
  <2>2. t.path \in Paths /\ t.tags \in Tags  BY <1>3, <1>12, <2>1 DEF IndexOK
  <2>3. t.artist \in Library!Artists' => artists'[t.artist] = Library!AlbumArtist(t.tags)
    <3>1. CASE t.artist = i /\ ix[w].at \in {"artist", "artist select"}
      BY <1>1, <1>8, <1>12, <3>1, AskedIs
    <3>2. CASE t.artist = ix[w].artist /\ ix[w].at \in {"own", "own select"}
      <4>1. t.artist # i  BY <1>5, <3>2
      <4> QED  BY <1>8, <1>12, <2>1, <3>2, <4>1 DEF IndexOK
    <3> QED  BY <1>12, <3>1, <3>2
  <2>4. artists'[t.own] \in {Library!SongArtist(t.tags), Library!AlbumArtist(t.tags)}
    BY <1>1, <1>3, <1>8, <1>12, AskedIs
  <2>5. t.album \in Library!Albums' =>
          /\ albums'[t.album].title = t.tags.title
          /\ albums'[t.album].by = Library!AlbumArtist(t.tags)
    BY <1>3, <1>9, <1>12, <2>1 DEF IndexOK
  <2>6. t.at # "idle" /\ t.at \notin {"artist", "artist select", "own", "own select"}
    BY <1>12
  <2> QED  BY <1>12, <2>2, <2>3, <2>4, <2>5, <2>6 DEF IndexOK, IndexState, IdsSeen
<1>14. /\ DOMAIN ix' = Workers /\ ix'[w] = t
       /\ \A v \in Workers : v # w => ix'[v] = ix[v]
  BY <1>2, <1>11 DEF LibraryInv
<1>15. ASSUME NEW v \in Workers PROVE IndexOK(ix[v])'
  <2>1. CASE v = w  BY <1>13, <1>14, <2>1, IndexAt
  <2>2. CASE v # w
    <3>1. PICK x : x = ix[v] /\ x = ix'[v]  BY <1>14, <2>2
    <3>2. IndexOK(x)  BY <3>1 DEF LibraryInv
    <3>3. x.artist # i /\ x.own # i  BY <1>5, <3>1
    <3>4. IndexOK(x)'  BY <1>3, <1>8, <1>9, <3>2, <3>3, IndexStays
    <3> QED  BY <3>1, <3>4, IndexAt
  <2> QED  BY <2>1, <2>2
<1>16. MetaOK(meta)'
  <2>1. PICK m : m = meta /\ m = meta' /\ MetaOK(m)  BY <1>3 DEF LibraryInv
  <2>2. m.at \in {"album", "song"} => MetaArtistOK(m)'
    <3> SUFFICES ASSUME m.at \in {"album", "song"} PROVE MetaArtistOK(m)'  OBVIOUS
    <3>1. MetaArtistOK(m) /\ m.artist \in Ids /\ m.artist # i
      BY <1>5, <2>1 DEF MetaOK
    <3>2. m.by # n  BY <1>3, <2>1 DEF Library!HeldArtist
    <3>3. m.artist \notin Library!Artists' =>
            /\ Library!Named(m.by)' = {}
            /\ \A j \in Ids : albums'[j].artist # m.artist
            /\ \A v \in Workers : ix'[v].artist # m.artist /\ ix'[v].own # m.artist
      <4> SUFFICES ASSUME m.artist \notin Library!Artists'
                   PROVE  /\ Library!Named(m.by)' = {}
                          /\ \A j \in Ids : albums'[j].artist # m.artist
                          /\ \A v \in Workers : ix'[v].artist # m.artist /\ ix'[v].own # m.artist
        OBVIOUS
      <4>1. /\ Library!Named(m.by) = {} /\ \A j \in Ids : albums[j].artist # m.artist
            /\ \A v \in Workers : ix[v].artist # m.artist /\ ix[v].own # m.artist
        BY <1>8, <3>1 DEF MetaArtistOK
      <4>2. Library!Named(m.by)' = {}
        BY <1>8, <3>2, <4>1 DEF Library!Named
      <4>3. t.artist # m.artist /\ t.own # m.artist  BY <1>12, <3>1, <4>1
      <4> QED  BY <1>3, <1>14, <4>1, <4>2, <4>3
    <3>4. m.artist \in Library!Artists' => artists'[m.artist] = m.by
      BY <1>8, <3>1 DEF MetaArtistOK
    <3> QED  BY <1>3, <3>1, <3>3, <3>4 DEF MetaArtistOK
  <2>3. m.at = "song" => MetaAlbumOK(m)'
    <3> SUFFICES ASSUME m.at = "song" PROVE MetaAlbumOK(m)'  OBVIOUS
    <3>1. MetaAlbumOK(m)  BY <2>1 DEF MetaOK
    <3>2. \A v \in Workers : ix'[v].album = ix[v].album  BY <1>12, <1>14
    <3> QED  BY <1>3, <1>9, <3>1, <3>2 DEF MetaAlbumOK
  <2>4. m.at # "idle" => m.path \in Library!Present' \ prune'.songs /\ m.by \in Names
    BY <1>3, <1>9, <2>1 DEF MetaOK
  <2>5. MetaOK(m)'  BY <2>1, <2>2, <2>3, <2>4 DEF MetaOK, MetaState
  <2> QED  BY <2>1, <2>5 DEF MetaOK, MetaState, MetaArtistOK, MetaAlbumOK
<1>17. PruneOK(prune)'  BY <1>3, <1>8, <1>9, PruneStays
<1>18. Library!Kept' = Library!Kept  BY <1>3, <1>9 DEF Library!Kept
<1>19. GoInv' /\ OrphanInv'  BY <1>2, <1>3, <1>18, WrittenKeeps
<1> QED  BY <1>10, <1>14, <1>15, <1>16, <1>17, <1>19 DEF LibraryInv

LEMMA UpsertAlbumKeeps ==
  ASSUME LibraryInv, NEW w \in Workers, Library!UpsertAlbum(w)
  PROVE  LibraryInv'
<1>1. PICK x : x = ix[w]  OBVIOUS
<1>2. PICK n : n = Library!AlbumArtist(x.tags)  OBVIOUS
<1>3. PICK title : title = x.tags.title  OBVIOUS
<1>4. PICK found : found = Library!Titled(title, n)  OBVIOUS
<1>5. PICK i \in IF found # {} THEN found ELSE Library!Fresh(Library!NewAlbum) :
        /\ albums' = [albums EXCEPT ![i] =
             [@ EXCEPT !.title = title, !.by = n,
                       !.artist = IF x.artist # None THEN x.artist ELSE albums[i].artist]]
        /\ ix' = [ix EXCEPT ![w].at = Library!AfterAlbum(x.tags), ![w].album = i]
        /\ written' = Library!Noted(None)
  BY <1>1, <1>2, <1>3, <1>4 DEF Library!UpsertAlbum, Library!Match
<1>6. /\ x.at = "album" /\ ~Library!HeldAlbum(title, n)
      /\ UNCHANGED <<artists, librarySongs, meta, prune>>
  BY <1>1, <1>2, <1>3 DEF Library!UpsertAlbum
<1>7. IndexOK(x) /\ x \in IndexState /\ x.tags \in Tags  BY <1>1, <1>6 DEF LibraryInv, IndexOK
<1>8. /\ i \in Ids
      /\ \/ i \in Library!Albums /\ albums[i].title = title /\ albums[i].by = n
         \/ /\ found = {} /\ i \notin Library!Albums /\ i # meta.album
            /\ \A v \in Workers : ix[v].album # i
  <2>1. CASE found # {}
    BY <1>4, <1>5, <2>1 DEF Library!Titled, Library!Albums
  <2>2. CASE found = {}
    <3>1. i \in Ids /\ i \notin Library!NewAlbum  BY <1>5, <2>2, FreshIds
    <3> QED  BY <2>2, <3>1 DEF Library!NewAlbum
  <2> QED  BY <2>1, <2>2
<1>9. Library!TypeOK /\ Library!OneRowEach /\ Library!NamesAgree
  BY DEF LibraryInv, Library!Sound
<1>10. PICK was : was = albums[i]  OBVIOUS
<1>11. /\ was \in [title : Titles \cup {None}, by : Names \cup {None},
                   artist : Ids \cup {Ghost, None}, album : {None}]
       /\ i \notin Library!Albums => was.artist = None
  <2>1. CASE i \in Library!Albums
    BY <1>9, <1>10, <2>1, RowTypes DEF Library!AlbumRow
  <2>2. CASE i \notin Library!Albums
    <3>1. was = Library!Absent  BY <1>8, <1>9, <1>10, <2>2, RowTypes
    <3> QED  BY <3>1 DEF Library!Absent
  <2> QED  BY <2>1, <2>2
<1>12. PICK row : row = [was EXCEPT !.title = title, !.by = n,
                                    !.artist = IF x.artist # None THEN x.artist ELSE was.artist]
  OBVIOUS
<1>13. title \in Titles /\ n \in Names \cup {None} /\ x.artist \in Ids \cup {Ghost, None}
  BY <1>2, <1>3, <1>7, Distinct DEF IndexState, IdsSeen
<1>14. /\ row \in Library!AlbumRow /\ row.title = title /\ row.by = n
       /\ row.artist = (IF x.artist # None THEN x.artist ELSE was.artist)
  BY <1>11, <1>12, <1>13 DEF Library!AlbumRow
<1>15. albums' = [albums EXCEPT ![i] = row]
  <2>1. albums' = [albums EXCEPT ![i] =
          [albums[i] EXCEPT !.title = title, !.by = n,
                            !.artist = IF x.artist # None THEN x.artist ELSE albums[i].artist]]
    BY <1>5
  <2> QED  BY <1>10, <1>12, <2>1
<1>16. /\ Library!Albums' = Library!Albums \cup {i} /\ albums'[i] = row
       /\ \A j : j # i => albums'[j] = albums[j]
       /\ albums' \in [Ids -> Library!AlbumRow \cup {Library!Absent}]
  BY <1>8, <1>9, <1>14, <1>15, RowsWritten
<1>17. /\ Library!Artists' = Library!Artists /\ Library!Present' = Library!Present
       /\ \A m : Library!Named(m)' = Library!Named(m)
  BY <1>6 DEF Library!Artists, Library!Present, Library!Named
<1>18. \A j \in Library!Albums :
         albums'[j].title = albums[j].title /\ albums'[j].by = albums[j].by
  BY <1>8, <1>14, <1>16
<1>19. Library!Sound'
  <2>1. Library!SongRow \subseteq Library!SongRow'
    BY <1>16, <1>17 DEF Library!SongRow
  <2>2. Library!AlbumRow' = Library!AlbumRow /\ Library!Absent' = Library!Absent
    BY DEF Library!AlbumRow, Library!Absent
  <2>3. Library!TypeOK'  BY <1>6, <1>9, <1>16, <2>1, <2>2 DEF Library!TypeOK
  <2>4. Library!OneRowEach'
    <3>1. ASSUME NEW j \in Library!Albums', NEW k \in Library!Albums',
                 albums'[j].title = albums'[k].title, albums'[j].by = albums'[k].by
          PROVE  j = k
      <4>1. CASE i \in Library!Albums
        BY <1>9, <1>16, <1>18, <3>1, <4>1 DEF Library!OneRowEach
      <4>2. CASE i \notin Library!Albums
        <5>1. found = {}  BY <1>8, <4>2
        <5>2. \A a \in Library!Albums : ~(albums[a].title = title /\ albums[a].by = n)
          BY <1>4, <5>1 DEF Library!Titled
        <5>3. j \in Library!Albums /\ k \in Library!Albums => j = k
          BY <1>9, <1>18, <3>1 DEF Library!OneRowEach
        <5>4. j = i /\ k \in Library!Albums => FALSE
          BY <1>14, <1>16, <1>18, <3>1, <5>2
        <5>5. k = i /\ j \in Library!Albums => FALSE
          BY <1>14, <1>16, <1>18, <3>1, <5>2
        <5> QED  BY <1>16, <3>1, <5>3, <5>4, <5>5
      <4> QED  BY <4>1, <4>2
    <3> QED  BY <1>6, <1>9, <1>17, <3>1 DEF Library!OneRowEach
  <2>5. Library!NamesAgree'
    <3>1. row.artist \in Library!Artists => artists[row.artist] = n
      <4>1. CASE x.artist # None
        <5>1. row.artist = x.artist  BY <1>14, <4>1
        <5> QED  BY <1>2, <1>7, <5>1 DEF IndexOK
      <4>2. CASE x.artist = None
        <5>1. row.artist = was.artist  BY <1>14, <4>2
        <5>2. CASE i \in Library!Albums
          BY <1>8, <1>9, <1>10, <5>1, <5>2 DEF Library!NamesAgree
        <5>3. CASE i \notin Library!Albums
          BY <1>11, <5>1, <5>3, Distinct DEF Library!Artists
        <5> QED  BY <5>2, <5>3
      <4> QED  BY <4>1, <4>2
    <3>2. \A j \in Library!Albums' :
            albums'[j].artist \in Library!Artists => artists[albums'[j].artist] = albums'[j].by
      BY <1>9, <1>14, <1>16, <3>1 DEF Library!NamesAgree
    <3>3. \A p \in Library!Present : librarySongs[p].album # None =>
            /\ librarySongs[p].album \in Library!Albums
            /\ albums'[librarySongs[p].album].title = albums[librarySongs[p].album].title
            /\ albums'[librarySongs[p].album].by = albums[librarySongs[p].album].by
      BY <1>9, <1>18, RowTypes
    <3> QED  BY <1>6, <1>9, <1>17, <3>2, <3>3 DEF Library!NamesAgree
  <2> QED  BY <2>3, <2>4, <2>5 DEF Library!Sound
<1>20. PICK t : t = [x EXCEPT !.at = Library!AfterAlbum(x.tags), !.album = i]  OBVIOUS
<1>21. /\ DOMAIN ix' = Workers /\ ix'[w] = t
       /\ \A v \in Workers : v # w => ix'[v] = ix[v]
  BY <1>1, <1>5, <1>7, <1>20 DEF LibraryInv
<1>22. /\ Library!AfterAlbum(x.tags) \in {"own", "song"}
       /\ Library!AfterAlbum(x.tags) = "own" => x.tags.artist # None
  BY DEF Library!AfterAlbum
<1>23. /\ t \in IndexState /\ t.path = x.path /\ t.tags = x.tags /\ t.artist = x.artist
       /\ t.own = x.own /\ t.album = i /\ t.at = Library!AfterAlbum(x.tags)
  BY <1>7, <1>8, <1>20, <1>22 DEF IndexState, IdsSeen
<1>24. IndexOK(t)'
  <2>1. t.path \in Paths /\ t.tags \in Tags  BY <1>6, <1>7, <1>23 DEF IndexOK
  <2>2. /\ t.artist \in Library!Artists => artists[t.artist] = Library!AlbumArtist(t.tags)
        /\ t.own \in Library!Artists =>
             artists[t.own] \in {Library!SongArtist(t.tags), Library!AlbumArtist(t.tags)}
    BY <1>7, <1>23 DEF IndexOK
  <2>3. albums'[t.album].title = t.tags.title /\ albums'[t.album].by = Library!AlbumArtist(t.tags)
    BY <1>2, <1>3, <1>14, <1>16, <1>23
  <2>4. /\ t.at # "idle" /\ t.at \notin {"artist", "artist select"}
        /\ t.at \in {"own", "own select"} => t.tags.artist # None
    BY <1>22, <1>23
  <2> QED  BY <1>6, <1>17, <1>23, <2>1, <2>2, <2>3, <2>4 DEF IndexOK, IndexState, IdsSeen
<1>25. ASSUME NEW v \in Workers PROVE IndexOK(ix[v])'
  <2>1. CASE v = w  BY <1>21, <1>24, <2>1, IndexAt
  <2>2. CASE v # w
    <3>1. PICK y : y = ix[v] /\ y = ix'[v]  BY <1>21, <2>2
    <3>2. IndexOK(y)  BY <3>1 DEF LibraryInv
    <3>3. y.album \in Library!Albums' => y.album \in Library!Albums
      BY <1>8, <1>16, <3>1
    <3>4. IndexOK(y)'  BY <1>6, <1>17, <1>18, <3>2, <3>3, IndexStays
    <3> QED  BY <3>1, <3>4, IndexAt
  <2> QED  BY <2>1, <2>2
<1>26. MetaOK(meta)'
  <2>1. PICK m : m = meta /\ m = meta' /\ MetaOK(m)  BY <1>6 DEF LibraryInv
  <2>2. m.at \in {"album", "song"} => MetaArtistOK(m)'
    <3> SUFFICES ASSUME m.at \in {"album", "song"} PROVE MetaArtistOK(m)'  OBVIOUS
    <3>1. MetaArtistOK(m) /\ m.artist \in Ids  BY <2>1 DEF MetaOK
    <3>2. m.artist \notin Library!Artists =>
            /\ \A j \in Ids : albums'[j].artist # m.artist
            /\ \A v \in Workers : ix'[v].artist # m.artist /\ ix'[v].own # m.artist
      <4> SUFFICES ASSUME m.artist \notin Library!Artists
                   PROVE  /\ \A j \in Ids : albums'[j].artist # m.artist
                          /\ \A v \in Workers : ix'[v].artist # m.artist /\ ix'[v].own # m.artist
        OBVIOUS
      <4>1. /\ \A j \in Ids : albums[j].artist # m.artist
            /\ \A v \in Workers : ix[v].artist # m.artist /\ ix[v].own # m.artist
        BY <3>1 DEF MetaArtistOK
      <4>2. row.artist # m.artist  BY <1>1, <1>8, <1>10, <1>14, <4>1
      <4>3. \A j \in Ids : albums'[j].artist # m.artist  BY <1>16, <4>1, <4>2
      <4>4. t.artist # m.artist /\ t.own # m.artist  BY <1>1, <1>23, <4>1
      <4> QED  BY <1>21, <4>1, <4>3, <4>4
    <3> QED  BY <1>6, <1>17, <3>1, <3>2 DEF MetaArtistOK
  <2>3. m.at = "song" => MetaAlbumOK(m)'
    <3> SUFFICES ASSUME m.at = "song" PROVE MetaAlbumOK(m)'  OBVIOUS
    <3>1. MetaAlbumOK(m) /\ m.album \in Ids /\ m.album # None
      BY <2>1, Distinct DEF MetaOK
    <3>2. PICK s : s = librarySongs[m.path].title  OBVIOUS
    <3>3. m.album \in Library!Albums' => albums'[m.album].title = s /\ albums'[m.album].by = m.by
      <4> SUFFICES ASSUME m.album \in Library!Albums'
                   PROVE  albums'[m.album].title = s /\ albums'[m.album].by = m.by
        OBVIOUS
      <4>1. m.album \in Library!Albums  BY <1>8, <1>16, <2>1
      <4>2. albums[m.album].title = s /\ albums[m.album].by = m.by
        BY <3>1, <3>2, <4>1 DEF MetaAlbumOK
      <4> QED  BY <1>18, <4>1, <4>2
    <3>4. m.album \notin Library!Albums' =>
            /\ Library!Titled(s, m.by)' = {}
            /\ \A v \in Workers : ix'[v].album # m.album
      <4> SUFFICES ASSUME m.album \notin Library!Albums'
                   PROVE  /\ Library!Titled(s, m.by)' = {}
                          /\ \A v \in Workers : ix'[v].album # m.album
        OBVIOUS
      <4>1. m.album \notin Library!Albums /\ m.album # i  BY <1>16
      <4>2. Library!Titled(s, m.by) = {} /\ \A v \in Workers : ix[v].album # m.album
        BY <3>1, <3>2, <4>1 DEF MetaAlbumOK
      <4>3. ~(s = title /\ m.by = n)  BY <1>6, <2>1, <3>2 DEF Library!HeldAlbum
      <4>4. \A a \in Library!Albums : ~(albums[a].title = s /\ albums[a].by = m.by)
        BY <4>2 DEF Library!Titled
      <4>5. \A a \in Library!Albums' : ~(albums'[a].title = s /\ albums'[a].by = m.by)
        BY <1>14, <1>16, <1>18, <4>3, <4>4
      <4>6. Library!Titled(s, m.by)' = {}  BY <4>5 DEF Library!Titled
      <4> QED  BY <1>21, <1>23, <4>1, <4>2, <4>6
    <3>5. m.album \notin prune.albums  BY <3>1 DEF MetaAlbumOK
    <3> QED  BY <1>6, <3>2, <3>3, <3>4, <3>5 DEF MetaAlbumOK
  <2>4. m.at # "idle" => m.path \in Library!Present' \ prune'.songs /\ m.by \in Names
    BY <1>6, <1>17, <2>1 DEF MetaOK
  <2>5. MetaOK(m)'  BY <2>1, <2>2, <2>3, <2>4 DEF MetaOK, MetaState
  <2> QED  BY <2>1, <2>5 DEF MetaOK, MetaState, MetaArtistOK, MetaAlbumOK
<1>27. PruneOK(prune)'  BY <1>6, <1>16, <1>17, PruneStays
<1>28. Library!Kept' = Library!Kept  BY <1>6, <1>17 DEF Library!Kept
<1>29. GoInv' /\ OrphanInv'  BY <1>5, <1>6, <1>28, WrittenKeeps
<1> QED  BY <1>19, <1>21, <1>25, <1>26, <1>27, <1>29 DEF LibraryInv

LEMMA UpsertSongKeeps ==
  ASSUME LibraryInv, NEW w \in Workers, Library!UpsertSong(w)
  PROVE  LibraryInv'
<1>1. PICK x : x = ix[w]  OBVIOUS
<1>2. PICK row : row = [title |-> x.tags.title, by |-> Library!SongArtist(x.tags),
                        artist |-> x.own, album |-> x.album]
  OBVIOUS
<1>3. /\ x.at = "song" /\ ~Library!HeldSong(x.path) /\ Library!References(x.own, x.album)
      /\ librarySongs' = [librarySongs EXCEPT ![x.path] = row]
      /\ ix' = [ix EXCEPT ![w] = Library!NoIndex]
      /\ written' = Library!Noted(x.path)
      /\ UNCHANGED <<artists, albums, meta, prune>>
  BY <1>1, <1>2 DEF Library!UpsertSong
<1>4. IndexOK(x) /\ x.tags \in Tags /\ x.path \in Paths
  BY <1>1, <1>3 DEF LibraryInv, IndexOK
<1>5. x.own \in Library!Artists \cup {None} /\ x.album \in Library!Albums
  BY <1>3 DEF Library!References
<1>6. row.title = x.tags.title /\ row.by = Library!SongArtist(x.tags) /\ row.artist = x.own
      /\ row.album = x.album
  BY <1>2
<1>7. row \in Library!SongRow
  BY <1>2, <1>4, <1>5, Distinct DEF Library!SongRow
<1>8. Library!TypeOK /\ Library!OneRowEach /\ Library!NamesAgree
  BY DEF LibraryInv, Library!Sound
<1>9. /\ Library!Present' = Library!Present \cup {x.path} /\ librarySongs'[x.path] = row
      /\ \A p : p # x.path => librarySongs'[p] = librarySongs[p]
      /\ DOMAIN librarySongs' = Paths
  BY <1>3, <1>4, <1>6, <1>8, Distinct, RowsWritten
<1>10. /\ Library!Artists' = Library!Artists /\ Library!Albums' = Library!Albums
       /\ \A m : Library!Named(m)' = Library!Named(m)
       /\ \A s, m : Library!Titled(s, m)' = Library!Titled(s, m)
  BY <1>3 DEF Library!Artists, Library!Albums, Library!Named, Library!Titled
<1>11. Library!Sound'
  <2>1. Library!SongRow' = Library!SongRow  BY <1>10 DEF Library!SongRow
  <2>2. Library!AlbumRow' = Library!AlbumRow /\ Library!Absent' = Library!Absent
    BY DEF Library!AlbumRow, Library!Absent
  <2>3. librarySongs' \in [Paths -> Library!SongRow \cup {Library!Absent}]
    BY <1>3, <1>7, <1>8 DEF Library!TypeOK
  <2>4. Library!TypeOK'  BY <1>3, <1>8, <2>1, <2>2, <2>3 DEF Library!TypeOK
  <2>5. Library!OneRowEach'  BY <1>3, <1>8, <1>10 DEF Library!OneRowEach
  <2>6. /\ albums[row.album].title = row.title
        /\ row.artist # None => artists[row.artist] \in {row.by, albums[row.album].by}
    BY <1>4, <1>5, <1>6 DEF IndexOK
  <2>7. \A p \in Library!Present' : librarySongs'[p].album # None =>
          /\ albums[librarySongs'[p].album].title = librarySongs'[p].title
          /\ librarySongs'[p].artist # None =>
               artists[librarySongs'[p].artist] \in
                 {librarySongs'[p].by, albums[librarySongs'[p].album].by}
    BY <1>8, <1>9, <2>6 DEF Library!NamesAgree
  <2>8. Library!NamesAgree'  BY <1>3, <1>8, <1>10, <2>7 DEF Library!NamesAgree
  <2> QED  BY <2>4, <2>5, <2>8 DEF Library!Sound
<1>12. /\ DOMAIN ix' = Workers /\ ix'[w] = Library!NoIndex
       /\ \A v \in Workers : v # w => ix'[v] = ix[v]
  BY <1>3 DEF LibraryInv
<1>13. ASSUME NEW v \in Workers PROVE IndexOK(ix[v])'
  <2>1. PICK y : y = ix'[v]  OBVIOUS
  <2>2. IndexOK(y)  BY <1>12, <2>1, NoIndexOK DEF LibraryInv
  <2>3. IndexOK(y)'  BY <1>3, <1>10, <2>2, IndexStays
  <2> QED  BY <2>1, <2>3, IndexAt
<1>14. MetaOK(meta)'
  <2>1. PICK m : m = meta /\ m = meta' /\ MetaOK(m)  BY <1>3 DEF LibraryInv
  <2>2. m.path # x.path  BY <1>3, <2>1 DEF Library!HeldSong
  <2>3. m.at \in {"album", "song"} => MetaArtistOK(m)'
    <3> SUFFICES ASSUME m.at \in {"album", "song"} PROVE MetaArtistOK(m)'  OBVIOUS
    <3>1. MetaArtistOK(m) /\ m.artist # None  BY <2>1, Distinct DEF MetaOK
    <3>2. m.artist \notin Library!Artists =>
            \A v \in Workers : ix'[v].artist # m.artist /\ ix'[v].own # m.artist
      BY <1>12, <3>1, NoIndexOK DEF MetaArtistOK
    <3> QED  BY <1>3, <1>10, <3>1, <3>2 DEF MetaArtistOK
  <2>4. m.at = "song" => MetaAlbumOK(m)'
    <3> SUFFICES ASSUME m.at = "song" PROVE MetaAlbumOK(m)'  OBVIOUS
    <3>1. MetaAlbumOK(m) /\ m.album # None  BY <2>1, Distinct DEF MetaOK
    <3>2. m.album \notin Library!Albums => \A v \in Workers : ix'[v].album # m.album
      BY <1>12, <3>1, NoIndexOK DEF MetaAlbumOK
    <3>3. librarySongs'[m.path] = librarySongs[m.path]  BY <1>9, <2>2
    <3> QED  BY <1>3, <1>10, <3>1, <3>2, <3>3 DEF MetaAlbumOK
  <2>5. m.at # "idle" => m.path \in Library!Present' \ prune'.songs /\ m.by \in Names
    BY <1>3, <1>9, <2>1 DEF MetaOK
  <2>6. MetaOK(m)'  BY <2>1, <2>3, <2>4, <2>5 DEF MetaOK, MetaState
  <2> QED  BY <2>1, <2>6 DEF MetaOK, MetaState, MetaArtistOK, MetaAlbumOK
<1>15. PruneOK(prune)'  BY <1>3, <1>9, <1>10, PruneStays
<1>16. \A p \in Library!Kept' \ {x.path} :
         p \in Library!Kept /\ librarySongs'[p] = librarySongs[p]
  BY <1>3, <1>9 DEF Library!Kept
<1>17. GoInv' /\ OrphanInv'  BY <1>3, <1>16, WrittenKeeps
<1> QED  BY <1>11, <1>12, <1>13, <1>14, <1>15, <1>17 DEF LibraryInv

LEMMA MetaCommitKeeps ==
  ASSUME LibraryInv, Library!MetaCommit
  PROVE  LibraryInv'
<1>1. PICK m : m = meta  OBVIOUS
<1>2. /\ m.at = "song" /\ MetaOK(m) /\ MetaArtistOK(m) /\ MetaAlbumOK(m)
      /\ m.artist \in Ids /\ m.album \in Ids /\ m.by \in Names
      /\ m.path \in Library!Present \ prune.songs
  BY <1>1 DEF Library!MetaCommit, LibraryInv, MetaOK
<1>3. PICK song : song = librarySongs[m.path]  OBVIOUS
<1>4. PICK was : was = albums[m.album]  OBVIOUS
<1>5. Library!TypeOK /\ Library!OneRowEach /\ Library!NamesAgree
  BY DEF LibraryInv, Library!Sound
<1>6. song \in Library!SongRow /\ song.title \in Titles /\ m.path \in Paths
  BY <1>2, <1>3, <1>5, RowTypes
<1>7. was \in [title : Titles \cup {None}, by : Names \cup {None},
               artist : Ids \cup {Ghost, None}, album : {None}]
  <2>1. CASE m.album \in Library!Albums
    BY <1>4, <1>5, <2>1, RowTypes DEF Library!AlbumRow
  <2>2. CASE m.album \notin Library!Albums
    <3>1. was = Library!Absent  BY <1>2, <1>4, <1>5, <2>2, RowTypes
    <3> QED  BY <3>1 DEF Library!Absent
  <2> QED  BY <2>1, <2>2
<1>8. PICK album : album = [was EXCEPT !.title = song.title, !.by = m.by, !.artist = m.artist]
  OBVIOUS
<1>9. PICK row : row = [song EXCEPT !.by = m.by, !.artist = m.artist, !.album = m.album]
  OBVIOUS
<1>10. /\ artists' = [artists EXCEPT ![m.artist] = m.by]
       /\ albums' = [albums EXCEPT ![m.album] = album]
       /\ librarySongs' = [librarySongs EXCEPT ![m.path] = row]
       /\ written' = Library!Noted(m.path) /\ meta' = Library!NoMeta
       /\ UNCHANGED <<ix, prune>>
  BY <1>1, <1>3, <1>4, <1>8, <1>9 DEF Library!MetaCommit, Library!Renamed
<1>11. /\ album \in Library!AlbumRow /\ album.title = song.title /\ album.by = m.by
       /\ album.artist = m.artist
  BY <1>2, <1>6, <1>7, <1>8 DEF Library!AlbumRow
<1>12. /\ row.title = song.title /\ row.by = m.by /\ row.artist = m.artist
       /\ row.album = m.album
  BY <1>6, <1>9 DEF Library!SongRow
<1>13. /\ Library!Artists' = Library!Artists \cup {m.artist} /\ artists'[m.artist] = m.by
       /\ \A i : i # m.artist => artists'[i] = artists[i]
       /\ artists' \in [Ids -> Names \cup {None}]
  BY <1>2, <1>5, <1>10, RowsWritten
<1>14. /\ Library!Albums' = Library!Albums \cup {m.album} /\ albums'[m.album] = album
       /\ \A i : i # m.album => albums'[i] = albums[i]
       /\ albums' \in [Ids -> Library!AlbumRow \cup {Library!Absent}]
  BY <1>2, <1>5, <1>10, <1>11, RowsWritten
<1>15. /\ Library!Present' = Library!Present /\ librarySongs'[m.path] = row
       /\ \A p : p # m.path => librarySongs'[p] = librarySongs[p]
  <2>1. row.title \in Titles  BY <1>6, <1>12
  <2>2. /\ Library!Present' = Library!Present \cup {m.path} /\ librarySongs'[m.path] = row
        /\ \A p : p # m.path => librarySongs'[p] = librarySongs[p]
    BY <1>5, <1>6, <1>10, <2>1, RowsWritten
  <2> QED  BY <1>2, <2>2
<1>16. \A i \in Library!Artists : artists'[i] = artists[i]
  BY <1>2, <1>13 DEF MetaArtistOK
<1>17. \A i \in Library!Albums :
         albums'[i].title = albums[i].title /\ albums'[i].by = albums[i].by
  BY <1>2, <1>3, <1>11, <1>14 DEF MetaAlbumOK
<1>18. m.artist \notin Library!Artists => \A i \in Ids : albums[i].artist # m.artist
  BY <1>2 DEF MetaArtistOK
<1>19. Library!TypeOK'
  <2>1. Library!SongRow \subseteq Library!SongRow'
    BY <1>13, <1>14 DEF Library!SongRow
  <2>2. Library!AlbumRow' = Library!AlbumRow /\ Library!Absent' = Library!Absent
    BY DEF Library!AlbumRow, Library!Absent
  <2>3. row \in Library!SongRow'
    BY <1>2, <1>6, <1>9, <1>13, <1>14 DEF Library!SongRow
  <2>4. librarySongs' \in [Paths -> Library!SongRow' \cup {Library!Absent}]
    BY <1>5, <1>10, <2>1, <2>3 DEF Library!TypeOK
  <2> QED  BY <1>13, <1>14, <2>2, <2>4 DEF Library!TypeOK
<1>20. Library!OneRowEach'
  <2>1. ASSUME NEW i \in Library!Artists', NEW j \in Library!Artists', artists'[i] = artists'[j]
        PROVE  i = j
    <3>1. i \in Library!Artists /\ j \in Library!Artists => i = j
      BY <1>5, <1>16, <2>1 DEF Library!OneRowEach
    <3>2. m.artist \notin Library!Artists => \A k \in Library!Artists : artists[k] # m.by
      BY <1>2 DEF MetaArtistOK, Library!Named
    <3> QED  BY <1>13, <1>16, <2>1, <3>1, <3>2
  <2>2. ASSUME NEW i \in Library!Albums', NEW j \in Library!Albums',
               albums'[i].title = albums'[j].title, albums'[i].by = albums'[j].by
        PROVE  i = j
    <3>1. i \in Library!Albums /\ j \in Library!Albums => i = j
      BY <1>5, <1>17, <2>2 DEF Library!OneRowEach
    <3>2. m.album \notin Library!Albums =>
            \A k \in Library!Albums : ~(albums[k].title = song.title /\ albums[k].by = m.by)
      BY <1>2, <1>3 DEF MetaAlbumOK, Library!Titled
    <3> QED  BY <1>11, <1>14, <1>17, <2>2, <3>1, <3>2
  <2> QED  BY <2>1, <2>2 DEF Library!OneRowEach
<1>21. Library!NamesAgree'
  <2>1. ASSUME NEW i \in Library!Albums', albums'[i].artist \in Library!Artists'
        PROVE  artists'[albums'[i].artist] = albums'[i].by
    <3>1. CASE i = m.album  BY <1>11, <1>13, <1>14, <3>1
    <3>2. CASE i # m.album
      <4>1. i \in Library!Albums /\ albums'[i] = albums[i] /\ i \in Ids
        BY <1>14, <2>1, <3>2 DEF Library!Albums
      <4>2. albums[i].artist \in Library!Artists  BY <1>13, <1>18, <2>1, <4>1
      <4> QED  BY <1>5, <1>16, <4>1, <4>2 DEF Library!NamesAgree
    <3> QED  BY <3>1, <3>2
  <2>2. ASSUME NEW p \in Library!Present, librarySongs'[p].album # None
        PROVE  /\ albums'[librarySongs'[p].album].title = librarySongs'[p].title
               /\ librarySongs'[p].artist # None =>
                    artists'[librarySongs'[p].artist] \in
                      {librarySongs'[p].by, albums'[librarySongs'[p].album].by}
    <3>1. CASE p = m.path  BY <1>11, <1>12, <1>13, <1>14, <1>15, <3>1
    <3>2. CASE p # m.path
      <4>1. PICK s : s = librarySongs[p] /\ s = librarySongs'[p]  BY <1>15, <3>2
      <4>2. s.album \in Library!Albums /\ s.artist \in Library!Artists \cup {None}
        BY <1>5, <2>2, <4>1, RowTypes
      <4>3. /\ albums[s.album].title = s.title
            /\ s.artist # None => artists[s.artist] \in {s.by, albums[s.album].by}
        BY <1>5, <2>2, <4>1 DEF Library!NamesAgree
      <4>4. /\ albums'[s.album].title = albums[s.album].title
            /\ albums'[s.album].by = albums[s.album].by
        BY <1>17, <4>2
      <4>5. s.artist # None => artists'[s.artist] = artists[s.artist]  BY <1>16, <4>2
      <4> QED  BY <4>1, <4>3, <4>4, <4>5
    <3> QED  BY <3>1, <3>2
  <2> QED  BY <1>15, <2>1, <2>2 DEF Library!NamesAgree
<1>22. DOMAIN ix' = Workers  BY <1>10 DEF LibraryInv
<1>23. ASSUME NEW v \in Workers PROVE IndexOK(ix[v])'
  <2>1. PICK y : y = ix[v]  OBVIOUS
  <2>2. IndexOK(y)  BY <2>1 DEF LibraryInv
  <2>3. m.artist \notin Library!Artists => y.artist # m.artist /\ y.own # m.artist
    BY <1>2, <2>1 DEF MetaArtistOK
  <2>4. m.album \notin Library!Albums => y.album # m.album
    BY <1>2, <2>1 DEF MetaAlbumOK
  <2>5. \A i \in {y.artist, y.own} : i \in Library!Artists' =>
          i \in Library!Artists /\ artists'[i] = artists[i]
    BY <1>13, <1>16, <2>3
  <2>6. y.album \in Library!Albums' =>
          /\ y.album \in Library!Albums
          /\ albums'[y.album].title = albums[y.album].title
          /\ albums'[y.album].by = albums[y.album].by
    BY <1>14, <1>17, <2>4
  <2>7. IndexOK(y)'  BY <2>2, <2>5, <2>6, IndexStays
  <2>8. y = ix'[v]  BY <1>10, <2>1
  <2> QED  BY <2>7, <2>8, IndexAt
<1>24. MetaOK(meta)'
  <2>1. PICK t : t = Library!NoMeta  OBVIOUS
  <2>2. t \in MetaState /\ t.at = "idle"  BY <2>1 DEF Library!NoMeta, MetaState
  <2> QED  BY <1>10, <2>1, <2>2 DEF MetaOK, MetaState
<1>25. PruneOK(prune)'  BY <1>10, <1>13, <1>14, <1>15, PruneStays
<1>26. \A p \in Library!Kept' \ {m.path} :
         p \in Library!Kept /\ librarySongs'[p] = librarySongs[p]
  BY <1>10, <1>15 DEF Library!Kept
<1>27. GoInv' /\ OrphanInv'  BY <1>10, <1>26, WrittenKeeps
<1> QED
  BY <1>19, <1>20, <1>21, <1>22, <1>23, <1>24, <1>25, <1>27 DEF LibraryInv, Library!Sound

-----------------------------------------------------------------------------
(* The rows that are left when a pruning commits.                           *)
LEMMA RowsPruned ==
  ASSUME LibraryInv, Library!PruneCommit
  PROVE  /\ Library!Artists' = Library!Artists \ prune.artists
         /\ Library!Albums' = Library!Albums \ prune.albums
         /\ Library!Present' = Library!Present \ prune.songs
         /\ \A i \in Library!Artists' : artists'[i] = artists[i]
         /\ \A i \in Library!Albums' : albums'[i] = albums[i]
         /\ \A i \in Ids : albums'[i] = albums[i] \/ albums'[i].artist = None
         /\ \A p \in Library!Present' :
              /\ librarySongs'[p].title = librarySongs[p].title
              /\ librarySongs'[p].by = librarySongs[p].by
              /\ librarySongs[p].artist \in prune.artists => librarySongs'[p].artist = None
              /\ librarySongs[p].artist \notin prune.artists =>
                   librarySongs'[p].artist = librarySongs[p].artist
              /\ librarySongs[p].album \in prune.albums => librarySongs'[p].album = None
              /\ librarySongs[p].album \notin prune.albums =>
                   librarySongs'[p].album = librarySongs[p].album
         /\ Library!TypeOK'
<1>1. /\ artists' = [i \in Ids |-> IF i \in prune.artists THEN None ELSE artists[i]]
      /\ albums' = [i \in Ids |-> IF i \in prune.albums THEN Library!Absent ELSE albums[i]]
      /\ librarySongs' = [p \in Paths |->
           IF p \in prune.songs THEN Library!Absent
           ELSE [librarySongs[p] EXCEPT
                   !.artist = IF librarySongs[p].artist \in prune.artists THEN None
                                                              ELSE librarySongs[p].artist,
                   !.album = IF librarySongs[p].album \in prune.albums THEN None
                                                            ELSE librarySongs[p].album]]
  BY DEF Library!PruneCommit
<1>2. Library!TypeOK  BY DEF LibraryInv, Library!Sound
<1>3. /\ prune.artists \subseteq Library!Artists /\ prune.albums \subseteq Library!Albums
      /\ prune.songs \subseteq Library!Present
  BY GoIs DEF PruneOK
<1>4. None \notin prune.artists /\ None \notin prune.albums
  BY <1>3, Distinct DEF Library!Artists, Library!Albums
<1>5. Library!Artists' = Library!Artists \ prune.artists  BY <1>1 DEF Library!Artists
<1>6. Library!Albums' = Library!Albums \ prune.albums
  BY <1>1, AbsentFields DEF Library!Albums
<1>7. \A i \in Library!Artists' : artists'[i] = artists[i]
  BY <1>1, <1>5 DEF Library!Artists
<1>8. \A i \in Library!Albums' : albums'[i] = albums[i]
  BY <1>1, <1>6 DEF Library!Albums
<1>9. \A i \in Ids : albums'[i] = albums[i] \/ albums'[i].artist = None
  BY <1>1, AbsentFields
<1>10. ASSUME NEW p \in Library!Present \ prune.songs
       PROVE  /\ librarySongs'[p] \in [title : Titles, by : Names \cup {None},
                                       artist : Library!Artists' \cup {None},
                                       album : Library!Albums' \cup {None}]
              /\ librarySongs'[p].title = librarySongs[p].title
              /\ librarySongs'[p].by = librarySongs[p].by
              /\ librarySongs[p].artist \in prune.artists => librarySongs'[p].artist = None
              /\ librarySongs[p].artist \notin prune.artists =>
                   librarySongs'[p].artist = librarySongs[p].artist
              /\ librarySongs[p].album \in prune.albums => librarySongs'[p].album = None
              /\ librarySongs[p].album \notin prune.albums =>
                   librarySongs'[p].album = librarySongs[p].album
  <2>1. PICK s : s = librarySongs[p]  OBVIOUS
  <2>2. PICK a : a = IF s.artist \in prune.artists THEN None ELSE s.artist  OBVIOUS
  <2>3. PICK b : b = IF s.album \in prune.albums THEN None ELSE s.album  OBVIOUS
  <2>4. PICK t : t = [s EXCEPT !.artist = a, !.album = b]  OBVIOUS
  <2>5. p \in Paths /\ s \in Library!SongRow  BY <1>2, <2>1, RowTypes
  <2>6. librarySongs'[p] = t  BY <1>1, <2>1, <2>2, <2>3, <2>4, <2>5
  <2>7. a \in Library!Artists' \cup {None} /\ b \in Library!Albums' \cup {None}
    BY <1>5, <1>6, <2>2, <2>3, <2>5 DEF Library!SongRow
  <2>8. /\ t \in [title : Titles, by : Names \cup {None},
                  artist : Library!Artists' \cup {None}, album : Library!Albums' \cup {None}]
        /\ t.title = s.title /\ t.by = s.by /\ t.artist = a /\ t.album = b
    BY <2>4, <2>5, <2>7 DEF Library!SongRow
  <2> QED  BY <2>1, <2>2, <2>3, <2>6, <2>8
<1>11. \A p \in Paths : p \notin Library!Present \ prune.songs => librarySongs'[p] = Library!Absent
  <2> SUFFICES ASSUME NEW p \in Paths, p \notin Library!Present \ prune.songs
               PROVE  librarySongs'[p] = Library!Absent
    OBVIOUS
  <2>1. CASE p \in prune.songs  BY <1>1, <2>1
  <2>2. CASE p \notin prune.songs
    <3>1. librarySongs[p] = Library!Absent  BY <1>2, <2>2, RowTypes
    <3>2. librarySongs'[p] = [Library!Absent EXCEPT !.artist = None, !.album = None]
      BY <1>1, <1>4, <2>2, <3>1, AbsentFields
    <3>3. [Library!Absent EXCEPT !.artist = None, !.album = None] = Library!Absent
      <4>1. PICK a : a = Library!Absent  OBVIOUS
      <4>2. PICK t : t = [a EXCEPT !.artist = None, !.album = None]  OBVIOUS
      <4>3. a \in [title : {None}, by : {None}, artist : {None}, album : {None}]
        BY <4>1 DEF Library!Absent
      <4>4. t \in [title : {None}, by : {None}, artist : {None}, album : {None}]
        BY <4>2, <4>3
      <4>5. t = [title |-> None, by |-> None, artist |-> None, album |-> None]  BY <4>4
      <4> QED  BY <4>1, <4>2, <4>5 DEF Library!Absent
    <3> QED  BY <3>2, <3>3
  <2> QED  BY <2>1, <2>2
<1>12. Library!Present' = Library!Present \ prune.songs
  <2>1. \A p \in Library!Present \ prune.songs : p \in Paths /\ librarySongs'[p].title # None
    BY <1>2, <1>10, RowTypes, Distinct
  <2>2. \A p \in Paths : p \notin Library!Present \ prune.songs => librarySongs'[p].title = None
    BY <1>11, AbsentFields
  <2> QED  BY <2>1, <2>2 DEF Library!Present
<1>13. Library!TypeOK'
  <2>1. artists' \in [Ids -> Names \cup {None}]  BY <1>1, <1>2 DEF Library!TypeOK
  <2>2. albums' \in [Ids -> Library!AlbumRow \cup {Library!Absent}]
    BY <1>1, <1>2 DEF Library!TypeOK
  <2>3. Library!SongRow' = [title : Titles, by : Names \cup {None},
                            artist : Library!Artists' \cup {None},
                            album : Library!Albums' \cup {None}]
    BY DEF Library!SongRow
  <2>4. librarySongs' \in [Paths -> Library!SongRow' \cup {Library!Absent}]
    <3>1. \A p \in Paths : librarySongs'[p] \in Library!SongRow' \cup {Library!Absent}
      BY <1>10, <1>11, <2>3
    <3> QED  BY <1>1, <3>1
  <2>5. Library!AlbumRow' = Library!AlbumRow /\ Library!Absent' = Library!Absent
    BY DEF Library!AlbumRow, Library!Absent
  <2> QED  BY <2>1, <2>2, <2>4, <2>5 DEF Library!TypeOK
<1> QED  BY <1>5, <1>6, <1>7, <1>8, <1>9, <1>10, <1>12, <1>13

LEMMA PruneCommitKeeps ==
  ASSUME LibraryInv, Library!PruneCommit
  PROVE  LibraryInv'
<1>1. prune' = Library!NoPrune /\ UNCHANGED <<ix, meta>>  BY DEF Library!PruneCommit
<1>2. Library!TypeOK /\ Library!OneRowEach /\ Library!NamesAgree
  BY DEF LibraryInv, Library!Sound
<1>3. Library!Artists' \subseteq Library!Artists /\ Library!Albums' \subseteq Library!Albums
  BY RowsPruned
<1>4. \A i \in Library!Artists' : artists'[i] = artists[i]  BY RowsPruned
<1>5. \A i \in Library!Albums' : albums'[i] = albums[i]  BY RowsPruned
<1>6. Library!OneRowEach'  BY <1>2, <1>3, <1>4, <1>5 DEF Library!OneRowEach
<1>7. Library!NamesAgree'
  <2>1. \A i \in Library!Albums' : albums'[i].artist \in Library!Artists' =>
          artists'[albums'[i].artist] = albums'[i].by
    BY <1>2, <1>3, <1>4, <1>5 DEF Library!NamesAgree
  <2>2. ASSUME NEW p \in Library!Present', librarySongs'[p].album # None
        PROVE  /\ albums'[librarySongs'[p].album].title = librarySongs'[p].title
               /\ librarySongs'[p].artist # None =>
                    artists'[librarySongs'[p].artist] \in
                      {librarySongs'[p].by, albums'[librarySongs'[p].album].by}
    <3>1. p \in Library!Present  BY RowsPruned
    <3>2. /\ librarySongs'[p].title = librarySongs[p].title
          /\ librarySongs'[p].by = librarySongs[p].by
          /\ librarySongs'[p].album = librarySongs[p].album
          /\ librarySongs[p].album \notin prune.albums
          /\ librarySongs'[p].artist # None =>
               /\ librarySongs'[p].artist = librarySongs[p].artist
               /\ librarySongs[p].artist \notin prune.artists
      BY <2>2, RowsPruned
    <3>3. librarySongs[p].album \in Library!Albums  BY <1>2, <2>2, <3>1, <3>2, RowTypes
    <3>4. librarySongs[p].album \in Library!Albums'  BY <3>2, <3>3, RowsPruned
    <3>5. librarySongs'[p].artist # None => librarySongs[p].artist \in Library!Artists'
      BY <1>2, <3>1, <3>2, RowTypes, RowsPruned
    <3>6. /\ albums[librarySongs[p].album].title = librarySongs[p].title
          /\ librarySongs[p].artist # None =>
               artists[librarySongs[p].artist] \in
                 {librarySongs[p].by, albums[librarySongs[p].album].by}
      BY <1>2, <2>2, <3>1, <3>2 DEF Library!NamesAgree
    <3> QED  BY <1>4, <1>5, <3>2, <3>4, <3>5, <3>6
  <2> QED  BY <2>1, <2>2 DEF Library!NamesAgree
<1>8. DOMAIN ix' = Workers  BY <1>1 DEF LibraryInv
<1>9. ASSUME NEW v \in Workers PROVE IndexOK(ix[v])'
  <2>1. PICK y : y = ix[v]  OBVIOUS
  <2>2. IndexOK(y)  BY <2>1 DEF LibraryInv
  <2>3. IndexOK(y)'  BY <1>3, <1>4, <1>5, <2>2, IndexStays
  <2>4. y = ix'[v]  BY <1>1, <2>1
  <2> QED  BY <2>3, <2>4, IndexAt
<1>10. MetaOK(meta)'
  <2>1. PICK m : m = meta /\ m = meta' /\ MetaOK(m)  BY <1>1 DEF LibraryInv
  <2>2. PICK r : r = prune'  OBVIOUS
  <2>3. r.songs = {} /\ r.albums = {} /\ r.artists = {}  BY <1>1, <2>2, NoPruneOK
  <2>4. m.at \in {"album", "song"} => MetaArtistOK(m)'
    <3> SUFFICES ASSUME m.at \in {"album", "song"} PROVE MetaArtistOK(m)'  OBVIOUS
    <3>1. MetaArtistOK(m) /\ m.artist \in Ids /\ m.artist # None
      BY <2>1, Distinct DEF MetaOK
    <3>2. m.artist \notin prune.artists  BY <3>1 DEF MetaArtistOK
    <3>3. m.artist \in Library!Artists' <=> m.artist \in Library!Artists
      BY <3>2, RowsPruned
    <3>4. m.artist \in Library!Artists' => artists'[m.artist] = m.by
      BY <1>4, <3>1, <3>3 DEF MetaArtistOK
    <3>5. m.artist \notin Library!Artists' =>
            /\ Library!Named(m.by)' = {} /\ \A i \in Ids : albums'[i].artist # m.artist
            /\ \A v \in Workers : ix'[v].artist # m.artist /\ ix'[v].own # m.artist
      <4> SUFFICES ASSUME m.artist \notin Library!Artists'
                   PROVE  /\ Library!Named(m.by)' = {}
                          /\ \A i \in Ids : albums'[i].artist # m.artist
                          /\ \A v \in Workers : ix'[v].artist # m.artist /\ ix'[v].own # m.artist
        OBVIOUS
      <4>1. /\ Library!Named(m.by) = {} /\ \A i \in Ids : albums[i].artist # m.artist
            /\ \A v \in Workers : ix[v].artist # m.artist /\ ix[v].own # m.artist
        BY <3>1, <3>3 DEF MetaArtistOK
      <4>2. Library!Named(m.by)' = {}  BY <1>3, <1>4, <4>1 DEF Library!Named
      <4>3. \A i \in Ids : albums'[i].artist # m.artist  BY <3>1, <4>1, RowsPruned
      <4> QED  BY <1>1, <4>1, <4>2, <4>3
    <3> QED  BY <2>2, <2>3, <3>4, <3>5 DEF MetaArtistOK
  <2>5. m.at = "song" => MetaAlbumOK(m)'
    <3> SUFFICES ASSUME m.at = "song" PROVE MetaAlbumOK(m)'  OBVIOUS
    <3>1. MetaAlbumOK(m) /\ m.path \in Library!Present \ prune.songs  BY <2>1 DEF MetaOK
    <3>2. PICK s : s = librarySongs[m.path].title /\ s = librarySongs'[m.path].title
      BY <3>1, RowsPruned
    <3>3. m.album \in Library!Albums' <=> m.album \in Library!Albums
      BY <3>1, RowsPruned DEF MetaAlbumOK
    <3>4. m.album \in Library!Albums' => albums'[m.album].title = s /\ albums'[m.album].by = m.by
      BY <1>5, <3>1, <3>2, <3>3 DEF MetaAlbumOK
    <3>5. m.album \notin Library!Albums' =>
            Library!Titled(s, m.by)' = {} /\ \A v \in Workers : ix'[v].album # m.album
      <4> SUFFICES ASSUME m.album \notin Library!Albums'
                   PROVE  /\ Library!Titled(s, m.by)' = {}
                          /\ \A v \in Workers : ix'[v].album # m.album
        OBVIOUS
      <4>1. Library!Titled(s, m.by) = {} /\ \A v \in Workers : ix[v].album # m.album
        BY <3>1, <3>2, <3>3 DEF MetaAlbumOK
      <4>2. Library!Titled(s, m.by)' = {}  BY <1>3, <1>5, <4>1 DEF Library!Titled
      <4> QED  BY <1>1, <4>1, <4>2
    <3> QED  BY <2>2, <2>3, <3>2, <3>4, <3>5 DEF MetaAlbumOK
  <2>6. m.at # "idle" => m.path \in Library!Present' \ r.songs /\ m.by \in Names
    BY <2>1, <2>3, RowsPruned DEF MetaOK
  <2>7. MetaOK(m)'  BY <2>1, <2>2, <2>4, <2>5, <2>6 DEF MetaOK, MetaState
  <2> QED  BY <2>1, <2>7 DEF MetaOK, MetaState, MetaArtistOK, MetaAlbumOK
<1>11. PruneOK(prune)' /\ GoInv' /\ OrphanInv'  BY <1>1, NothingGoes
<1>12. Library!TypeOK'  BY RowsPruned
<1> QED  BY <1>6, <1>7, <1>8, <1>9, <1>10, <1>11, <1>12 DEF LibraryInv, Library!Sound

LEMMA LibraryBegins == Library!Init => LibraryInv
<1> SUFFICES ASSUME Library!Init PROVE LibraryInv  OBVIOUS
<1>1. /\ Library!Sound /\ ix = [w \in Workers |-> Library!NoIndex]
      /\ meta = Library!NoMeta /\ prune = Library!NoPrune /\ written = {}
  BY DEF Library!Init
<1>2. DOMAIN ix = Workers /\ \A w \in Workers : IndexOK(ix[w])
  BY <1>1, NoIndexOK
<1>3. MetaOK(meta) /\ PruneOK(prune)  BY <1>1, NoMetaOK, NoPruneOK
<1>4. /\ prune.at = "idle" /\ prune.albums = {} /\ prune.artists = {}
  BY <1>1, NoPruneOK
<1>5. GoInv /\ OrphanInv  BY <1>4 DEF GoInv, OrphanInv, AlbumsGo, ArtistsGo
<1> QED  BY <1>1, <1>2, <1>3, <1>5 DEF LibraryInv

LEMMA LibraryKeeps ==
  ASSUME LibraryInv, Library!Next
  PROVE  LibraryInv'
<1>1. ASSUME NEW w \in Workers, Library!InsertArtist(w) PROVE LibraryInv'
  BY <1>1, InsertArtistKeeps, ArtistKnownKeeps
<1>2. ASSUME NEW w \in Workers, Library!SelectArtist(w) \/ Library!ArtistFails(w)
      PROVE  LibraryInv'
  BY <1>2, ArtistKnownKeeps
<1>3. ASSUME NEW w \in Workers, Library!UpsertAlbum(w) \/ Library!AlbumFails(w)
      PROVE  LibraryInv'
  BY <1>3, UpsertAlbumKeeps, AlbumFailsKeeps
<1>4. ASSUME NEW w \in Workers, Library!UpsertSong(w) \/ Library!SongFails(w)
      PROVE  LibraryInv'
  BY <1>4, UpsertSongKeeps, SongFailsKeeps
<1>5. ASSUME NEW w \in Workers, NEW p \in Paths, NEW tags \in Tags, Library!Index(w, p, tags)
      PROVE  LibraryInv'
  BY <1>5, IndexKeeps
<1>6. ASSUME NEW p \in Paths, NEW n \in Names, Library!MetaBegin(p, n) PROVE LibraryInv'
  BY <1>6, MetaBeginKeeps
<1>7. CASE Library!MetaArtist \/ Library!MetaAlbum \/ Library!MetaCommit \/ Library!MetaFails
  BY <1>7, MetaArtistKeeps, MetaAlbumKeeps, MetaCommitKeeps, MetaFailsKeeps
<1>8. ASSUME NEW keep \in SUBSET Paths, Library!DeleteSongs(keep) PROVE LibraryInv'
  BY <1>8, DeleteSongsKeeps
<1>9. CASE \/ Library!SeeAlbums \/ Library!DeleteAlbums \/ Library!SeeArtists
           \/ Library!DeleteArtists \/ Library!PruneCommit \/ Library!PruneFails
  BY <1>9, SeeAlbumsKeeps, DeleteAlbumsKeeps, SeeArtistsKeeps, DeleteArtistsKeeps,
     PruneCommitKeeps, PruneFailsKeeps
<1> QED
  BY <1>1, <1>2, <1>3, <1>4, <1>5, <1>6, <1>7, <1>8, <1>9 DEF Library!Next, Library!Indexing

LEMMA LibraryRests ==
  ASSUME LibraryInv, UNCHANGED libraryVars
  PROVE  LibraryInv'
<1>1. /\ artists' = artists /\ albums' = albums /\ librarySongs' = librarySongs /\ ix' = ix
      /\ meta' = meta /\ prune' = prune /\ written' = written
  BY DEF libraryVars
<1>2. PICK t : t = meta /\ MetaOK(t)  BY DEF LibraryInv
<1> QED  BY <1>1, <1>2, MetaMoves

(* What goes is what no song that stays refers to, but those written since. *)
LEMMA PruneSpares ==
  ASSUME LibraryInv, Library!PruneCommit, NEW p \in Library!Present \cap Library!Present',
         \/ librarySongs[p].album # librarySongs'[p].album
         \/ librarySongs[p].artist # librarySongs'[p].artist
  PROVE  p \in written
<1>1. p \in Library!Kept  BY RowsPruned DEF Library!Kept
<1>2. librarySongs[p].album \in prune.albums \/ librarySongs[p].artist \in prune.artists
  BY RowsPruned
<1>3. librarySongs[p].album \in AlbumsGo \/ librarySongs[p].artist \in ArtistsGo
  BY <1>2, GoIs
<1> QED  BY <1>1, <1>3 DEF LibraryInv, GoInv

(* And what stays has a song, or an album that has one.                     *)
LEMMA PruneLeaves ==
  ASSUME LibraryInv, Library!PruneCommit, written = {}
  PROVE  /\ \A i \in Library!Albums' :
              /\ \E p \in Library!Present' : librarySongs'[p].album = i
              /\ albums[i].artist \in Library!Artists => albums[i].artist \in Library!Artists'
         /\ \A i \in Library!Artists' :
              \/ \E p \in Library!Present' : librarySongs'[p].artist = i
              \/ \E a \in Library!Albums' : albums'[a].artist = i
<1>1. prune.albums = Library!OrphanAlbums /\ prune.artists = Library!OrphanArtists
  BY DEF LibraryInv, OrphanInv, Library!PruneCommit
<1>2. /\ Library!Artists' = Library!Artists \ prune.artists
      /\ Library!Albums' = Library!Albums \ prune.albums
      /\ Library!Present' = Library!Kept
      /\ \A i \in Library!Albums' : albums'[i] = albums[i]
  BY RowsPruned DEF Library!Kept
<1>3. ASSUME NEW i \in Library!Albums'
      PROVE  /\ \E p \in Library!Present' : librarySongs'[p].album = i
             /\ albums[i].artist \in Library!Artists => albums[i].artist \in Library!Artists'
  <2>1. i \in Library!Albums /\ i \notin prune.albums  BY <1>2
  <2>2. PICK p \in Library!Kept : librarySongs[p].album = i
    BY <1>1, <2>1 DEF Library!OrphanAlbums
  <2>3. librarySongs'[p].album = i  BY <1>2, <2>1, <2>2, RowsPruned
  <2>4. albums[i].artist \notin Library!OrphanArtists
    BY <2>1 DEF Library!OrphanArtists
  <2> QED  BY <1>1, <1>2, <2>2, <2>3, <2>4
<1>4. ASSUME NEW i \in Library!Artists'
      PROVE  \/ \E p \in Library!Present' : librarySongs'[p].artist = i
             \/ \E a \in Library!Albums' : albums'[a].artist = i
  <2>1. i \in Library!Artists /\ i \notin prune.artists  BY <1>2
  <2>2. CASE \E p \in Library!Kept : librarySongs[p].artist = i
    <3>1. PICK p \in Library!Kept : librarySongs[p].artist = i  BY <2>2
    <3>2. librarySongs'[p].artist = i  BY <1>2, <2>1, <3>1, RowsPruned
    <3> QED  BY <1>2, <3>1, <3>2
  <2>3. CASE \E a \in Library!Albums \ prune.albums : albums[a].artist = i
    BY <1>2, <2>3
  <2> QED  BY <1>1, <2>1, <2>2, <2>3 DEF Library!OrphanArtists
<1> QED  BY <1>3, <1>4

-----------------------------------------------------------------------------
(* AdminPage: the inductive invariant.                                      *)

(* One refresh at most is current: the active tab's, and it asked after the *)
(* last save the page knows of.                                             *)
CurrentInv ==
  /\ \A i, j \in DOMAIN flying : flying[i].current /\ flying[j].current => i = j
  /\ \A i \in DOMAIN flying :
       flying[i].current => flying[i].tab = tab /\ answered <= flying[i].asked

(* A save that was carried out is in the database.                          *)
SavingInv == saving # <<>> => saving[1] <= revision

AdminInv == AdminPage!Sound /\ CurrentInv /\ SavingInv

LEMMA AdminTypes ==
  ASSUME AdminPage!TypeOK
  PROVE  /\ MaxRevision \in Nat /\ revision \in Nat /\ revision <= MaxRevision
         /\ answered \in Nat /\ answered <= revision
         /\ flying \in Seq(AdminPage!Refresh) /\ Len(flying) \in Nat
         /\ DOMAIN flying = 1..Len(flying)
         /\ \A i \in DOMAIN flying :
              flying[i] \in AdminPage!Refresh /\ flying[i].current \in BOOLEAN
                                     /\ flying[i].asked \in Nat
         /\ shown \in Seq(AdminPage!List) /\ Len(shown) \in Nat /\ DOMAIN shown = 1..Len(shown)
         /\ (shown = <<>> <=> Len(shown) = 0)
<1>1. MaxRevision \in Nat  BY SongListsAssumption DEF AdminPage!AdminPageAssumption
<1>2. revision \in Nat /\ revision <= MaxRevision /\ answered \in Nat /\ answered <= revision
  BY <1>1 DEF AdminPage!TypeOK
<1>3. flying \in Seq(AdminPage!Refresh) /\ shown \in Seq(AdminPage!List)
  BY DEF AdminPage!TypeOK
<1>4. Len(flying) \in Nat /\ DOMAIN flying = 1..Len(flying)  BY <1>3, LenProperties
<1>5. Len(shown) \in Nat /\ DOMAIN shown = 1..Len(shown)  BY <1>3, LenProperties
<1>6. shown = <<>> <=> Len(shown) = 0  BY <1>3, EmptySeq
<1>7. \A i \in DOMAIN flying : flying[i] \in AdminPage!Refresh  BY <1>3, <1>4, ElementOfSeq
<1>8. \A r \in AdminPage!Refresh : r.current \in BOOLEAN /\ r.asked \in Nat
  BY <1>1 DEF AdminPage!Refresh
<1> QED  BY <1>1, <1>2, <1>3, <1>4, <1>5, <1>6, <1>7, <1>8

(* A sequence without its element i.                                        *)
LEMMA Without ==
  ASSUME NEW S, NEW s \in Seq(S), NEW i \in 1..Len(s),
         NEW r, r = SubSeq(s, 1, i - 1) \o SubSeq(s, i + 1, Len(s))
  PROVE  /\ r \in Seq(S) /\ DOMAIN r = 1..(Len(s) - 1)
         /\ \A j \in 1..(Len(s) - 1) : /\ j < i => r[j] = s[j]
                                       /\ ~(j < i) => r[j] = s[j + 1]
<1> DEFINE a == SubSeq(s, 1, i - 1)
           b == SubSeq(s, i + 1, Len(s))
<1>1. Len(s) \in Nat /\ i \in Nat /\ 1 <= i /\ i <= Len(s)  BY LenProperties
<1>2. \A k \in 1..Len(s) : s[k] \in S  BY ElementOfSeq
<1>3. /\ a \in Seq(S) /\ Len(a) = IF 1 <= i - 1 THEN i - 1 - 1 + 1 ELSE 0
      /\ \A k \in 1 .. i - 1 - 1 + 1 : a[k] = s[1 + k - 1]
  <2>1. \A k \in 1..(i - 1) : s[k] \in S  BY <1>1, <1>2
  <2>2. i - 1 \in Int  BY <1>1
  <2> QED  BY <2>1, <2>2, SubSeqProperties
<1>4. /\ b \in Seq(S) /\ Len(b) = IF i + 1 <= Len(s) THEN Len(s) - (i + 1) + 1 ELSE 0
      /\ \A k \in 1 .. Len(s) - (i + 1) + 1 : b[k] = s[i + 1 + k - 1]
  <2>1. \A k \in (i + 1)..Len(s) : s[k] \in S  BY <1>1, <1>2
  <2>2. i + 1 \in Int /\ Len(s) \in Int  BY <1>1
  <2> QED  BY <2>1, <2>2, SubSeqProperties
<1> HIDE DEF a, b
<1>5. r = a \o b  BY DEF a, b
<1>6. Len(a) = i - 1 /\ Len(b) = Len(s) - i  BY <1>1, <1>3, <1>4
<1>7. /\ r \in Seq(S) /\ Len(r) = Len(a) + Len(b)
      /\ \A k \in 1 .. Len(a) + Len(b) : r[k] = IF k <= Len(a) THEN a[k] ELSE b[k - Len(a)]
  <2>1. /\ a \o b \in Seq(S) /\ Len(a \o b) = Len(a) + Len(b)
        /\ \A k \in 1 .. Len(a) + Len(b) :
             (a \o b)[k] = IF k <= Len(a) THEN a[k] ELSE b[k - Len(a)]
    BY <1>3, <1>4, ConcatProperties
  <2> QED  BY <1>5, <2>1
<1>8. Len(r) = Len(s) - 1
  <2>1. Len(r) = Len(a) + Len(b)  BY <1>7
  <2>2. Len(r) = (i - 1) + (Len(s) - i)  BY <1>6, <2>1
  <2>3. \A m, k \in Nat : (k - 1) + (m - k) = m - 1  OBVIOUS
  <2> QED  BY <1>1, <2>2, <2>3, Zenon
<1>9. DOMAIN r = 1..(Len(s) - 1)  BY <1>7, <1>8, LenProperties
<1>10. ASSUME NEW j \in 1..(Len(s) - 1)
       PROVE  (j < i => r[j] = s[j]) /\ (~(j < i) => r[j] = s[j + 1])
  <2>1. j \in 1 .. Len(a) + Len(b)  BY <1>1, <1>6
  <2>2. CASE j < i
    <3>1. r[j] = a[j]
      <4>1. j <= Len(a)  BY <1>1, <1>6, <2>2
      <4> QED  BY <1>7, <2>1, <4>1
    <3>2. a[j] = s[1 + j - 1]  BY <1>1, <1>3, <2>2
    <3>3. 1 + j - 1 = j  OBVIOUS
    <3> QED  BY <2>2, <3>1, <3>2, <3>3
  <2>3. CASE ~(j < i)
    <3>1. r[j] = b[j - (i - 1)]
      <4>1. ~(j <= Len(a))  BY <1>1, <1>6, <2>3
      <4> QED  BY <1>6, <1>7, <2>1, <4>1
    <3>2. j - (i - 1) \in 1 .. Len(s) - (i + 1) + 1  BY <1>1, <2>3
    <3>3. b[j - (i - 1)] = s[i + 1 + (j - (i - 1)) - 1]  BY <1>4, <3>2
    <3>4. i + 1 + (j - (i - 1)) - 1 = j + 1  BY <1>1
    <3> QED  BY <2>3, <3>1, <3>3, <3>4
  <2> QED  BY <2>2, <2>3
<1> QED  BY <1>7, <1>9, <1>10

(* A refresh takes the lists away, and is the current one.                  *)
LEMMA RefreshKeeps ==
  ASSUME AdminInv, NEW t \in Tabs, AdminPage!Refreshes(t), tab' = t,
         categories' = categories, revision' = revision,
         answered' \in 0..revision, saving' = saving \/ saving' = <<>>
  PROVE  AdminInv'
<1>1. AdminPage!TypeOK  BY DEF AdminInv, AdminPage!Sound
<1> DEFINE n == Len(flying)
<1>2. /\ n \in Nat /\ DOMAIN flying = 1..n /\ revision \in 0..MaxRevision /\ MaxRevision \in Nat
      /\ \A i \in 1..n : flying[i] \in AdminPage!Refresh
  BY <1>1, AdminTypes DEF AdminPage!TypeOK
<1>3. AdminPage!Outdated \in [1..n -> AdminPage!Refresh]
  BY <1>2 DEF AdminPage!Outdated, AdminPage!Refresh
<1>4. \A i \in 1..n : AdminPage!Outdated[i].current = FALSE
  BY <1>2 DEF AdminPage!Outdated, AdminPage!Refresh
<1>5. AdminPage!Outdated \in Seq(AdminPage!Refresh) /\ Len(AdminPage!Outdated) = n
  <2>1. AdminPage!Outdated \in Seq(AdminPage!Refresh)  BY <1>2, <1>3, SeqDef
  <2> QED  BY <1>2, <1>3, <2>1, LenProperties
<1>6. PICK r \in AdminPage!Refresh : r = [tab |-> t, current |-> TRUE, asked |-> revision]
  BY <1>2 DEF AdminPage!Refresh
<1>7. r.tab = t /\ r.current = TRUE /\ r.asked = revision  BY <1>6
<1>8. shown' = <<>> /\ flying' = Append(AdminPage!Outdated, r)
  BY <1>6 DEF AdminPage!Refreshes
<1>9. /\ flying' \in Seq(AdminPage!Refresh) /\ Len(flying') = n + 1
      /\ \A i \in 1..n : flying'[i] = AdminPage!Outdated[i]
      /\ flying'[n + 1] = r
  BY <1>5, <1>8, AppendProperties
<1>10. DOMAIN flying' = 1..(n + 1)  BY <1>9, LenProperties
<1>11. \A i \in DOMAIN flying' : flying'[i].current => i = n + 1
  BY <1>2, <1>4, <1>9, <1>10
<1>12. n + 1 \in DOMAIN flying' /\ flying'[n + 1].current  BY <1>2, <1>7, <1>9, <1>10
<1>13. AdminPage!TypeOK'
  <2>1. shown' \in Seq(AdminPage!List)  BY <1>8, EmptySeq
  <2>2. saving' \in {<<>>} \cup {<<v>> : v \in 0..MaxRevision}  BY <1>1 DEF AdminPage!TypeOK
  <2>3. answered' \in 0..revision'  OBVIOUS
  <2> QED  BY <1>1, <1>9, <2>1, <2>2, <2>3 DEF AdminPage!TypeOK
<1>14. Len(shown') = 0 /\ DOMAIN shown' = {}  BY <1>8, EmptySeq
<1>15. AdminPage!OneListOfTheTab'  BY <1>8, <1>12, <1>14 DEF AdminPage!OneListOfTheTab
<1>16. AdminPage!ShowsOwnSaves'  BY <1>8 DEF AdminPage!ShowsOwnSaves
<1>17. CurrentInv'
  <2>1. r.tab = tab' /\ answered' <= r.asked  BY <1>2, <1>7
  <2> QED  BY <1>9, <1>11, <2>1 DEF CurrentInv
<1>18. SavingInv'  BY DEF AdminInv, SavingInv
<1> QED  BY <1>13, <1>15, <1>16, <1>17, <1>18 DEF AdminInv, AdminPage!Sound

LEMMA ArriveKeeps ==
  ASSUME AdminInv, NEW i \in DOMAIN flying, AdminPage!Arrive(i)
  PROVE  AdminInv'
<1>1. AdminPage!TypeOK  BY DEF AdminInv, AdminPage!Sound
<1>2. tab' = tab /\ saving' = saving /\ revision' = revision /\ answered' = answered
  BY DEF AdminPage!Arrive
<1> DEFINE n == Len(flying)
<1>3. /\ n \in Nat /\ i \in 1..n /\ DOMAIN flying = 1..n
      /\ flying \in Seq(AdminPage!Refresh)
      /\ \A j \in 1..n : flying[j] \in AdminPage!Refresh /\ flying[j].current \in BOOLEAN
      /\ flying[i].asked \in Nat
      /\ revision \in Nat /\ answered \in Nat /\ answered <= revision
      /\ revision <= MaxRevision /\ MaxRevision \in Nat
  BY <1>1, AdminTypes
<1>4. flying' = SubSeq(flying, 1, i - 1) \o SubSeq(flying, i + 1, Len(flying))
  BY DEF AdminPage!Arrive
<1>5. /\ flying' \in Seq(AdminPage!Refresh) /\ DOMAIN flying' = 1..(n - 1)
      /\ \A j \in DOMAIN flying' : /\ j < i => flying'[j] = flying[j]
                                   /\ ~(j < i) => flying'[j] = flying[j + 1]
  <2>1. PICK r : r = flying'  OBVIOUS
  <2>2. PICK s : s = flying  OBVIOUS
  <2>3. r = SubSeq(s, 1, i - 1) \o SubSeq(s, i + 1, Len(s))  BY <1>4, <2>1, <2>2
  <2>4. s \in Seq(AdminPage!Refresh) /\ i \in 1..Len(s)  BY <1>3, <2>2
  <2>5. /\ r \in Seq(AdminPage!Refresh) /\ DOMAIN r = 1..(Len(s) - 1)
        /\ \A j \in 1..(Len(s) - 1) : /\ j < i => r[j] = s[j]
                                      /\ ~(j < i) => r[j] = s[j + 1]
    BY <2>3, <2>4, Without, ZenonT(30)
  <2> QED  BY <2>1, <2>2, <2>5
<1>6. \A j \in DOMAIN flying' :
        \E k \in 1..n : /\ k # i /\ flying'[j] = flying[k]
                        /\ (k = j /\ j < i) \/ (k = j + 1 /\ j >= i)
  <2> TAKE j \in DOMAIN flying'
  <2>1. CASE j < i
    <3>1. j \in 1..n /\ j # i /\ flying'[j] = flying[j]  BY <1>3, <1>5, <2>1
    <3> QED  BY <2>1, <3>1
  <2>2. CASE ~(j < i)
    <3>1. /\ j + 1 \in 1..n /\ j + 1 # i /\ flying'[j] = flying[j + 1]
          /\ j >= i
      BY <1>3, <1>5, <2>2
    <3> QED  BY <3>1
  <2> QED  BY <2>1, <2>2
<1>7. CurrentInv'
  <2>1. ASSUME NEW j \in DOMAIN flying', flying'[j].current
        PROVE  flying'[j].tab = tab' /\ answered' <= flying'[j].asked
    BY <1>2, <1>3, <1>6, <2>1 DEF AdminInv, CurrentInv
  <2>2. ASSUME NEW j \in DOMAIN flying', NEW k \in DOMAIN flying',
               flying'[j].current, flying'[k].current
        PROVE  j = k
    <3>1. PICK jj \in 1..n : /\ flying'[j] = flying[jj]
                             /\ (jj = j /\ j < i) \/ (jj = j + 1 /\ j >= i)
      BY <1>6
    <3>2. PICK kk \in 1..n : /\ flying'[k] = flying[kk]
                             /\ (kk = k /\ k < i) \/ (kk = k + 1 /\ k >= i)
      BY <1>6
    <3>3. jj = kk  BY <1>3, <2>2, <3>1, <3>2 DEF AdminInv, CurrentInv
    <3> QED  BY <1>3, <1>5, <3>1, <3>2, <3>3
  <2> QED  BY <2>1, <2>2 DEF CurrentInv
<1>8. CASE ~flying[i].current
  <2>1. shown' = shown /\ categories' = categories  BY <1>8 DEF AdminPage!Arrive
  <2>2. AdminPage!TypeOK'  BY <1>1, <1>2, <1>5, <2>1 DEF AdminPage!TypeOK
  <2>3. AdminPage!OneListOfTheTab'
    <3>1. (\E j \in DOMAIN flying : flying[j].current)
            <=> (\E j \in DOMAIN flying' : flying'[j].current)
      <4>1. ASSUME NEW j \in 1..n, flying[j].current
            PROVE  \E k \in DOMAIN flying' : flying'[k].current
        <5>1. j # i  BY <1>8, <4>1
        <5>2. CASE j < i
          <6>1. j \in DOMAIN flying'  BY <1>3, <1>5, <5>2
          <6>2. flying'[j] = flying[j]  BY <1>5, <5>2, <6>1
          <6> QED  BY <4>1, <6>1, <6>2
        <5>3. CASE j > i
          <6>1. j - 1 \in DOMAIN flying' /\ ~(j - 1 < i) /\ (j - 1) + 1 = j  BY <1>3, <1>5, <5>3
          <6>2. flying'[j - 1] = flying[j]  BY <1>5, <6>1
          <6> QED  BY <4>1, <6>1, <6>2
        <5> QED  BY <1>3, <5>1, <5>2, <5>3
      <4> QED  BY <1>3, <1>6, <4>1
    <3> QED  BY <1>2, <2>1, <3>1 DEF AdminInv, AdminPage!Sound, AdminPage!OneListOfTheTab
  <2>4. AdminPage!ShowsOwnSaves'
    BY <1>2, <2>1 DEF AdminInv, AdminPage!Sound, AdminPage!ShowsOwnSaves
  <2>5. SavingInv'  BY <1>2 DEF AdminInv, SavingInv
  <2> QED  BY <1>7, <2>2, <2>3, <2>4, <2>5 DEF AdminInv, AdminPage!Sound
<1>9. CASE flying[i].current
  <2>1. PICK list \in AdminPage!Lists(flying[i]), cats \in AdminPage!Lists(flying[i]) :
          shown' = Append(shown, list) /\ categories' = cats
    BY <1>9 DEF AdminPage!Arrive
  <2>2. flying[i].tab = tab /\ answered <= flying[i].asked  BY <1>9 DEF AdminInv, CurrentInv
  <2>3. ASSUME NEW x \in AdminPage!Lists(flying[i])
        PROVE  x \in AdminPage!List /\ x.tab = tab /\ x.revision >= answered
    <3>1. tab \in Tabs  BY <1>1 DEF AdminPage!TypeOK
    <3> QED  BY <1>3, <2>2, <2>3, <3>1 DEF AdminPage!Lists, AdminPage!List
  <2>4. shown = <<>>
    BY <1>9 DEF AdminInv, AdminPage!Sound, AdminPage!OneListOfTheTab
  <2>5. list \in AdminPage!List /\ list.tab = tab /\ list.revision >= answered  BY <2>3
  <2>6. cats \in AdminPage!List /\ cats.revision >= answered  BY <2>3
  <2>7. /\ shown' \in Seq(AdminPage!List) /\ Len(shown') = 1 /\ shown'[1] = list
    <3>1. shown \in Seq(AdminPage!List) /\ Len(shown) = 0  BY <1>1, <2>4, AdminTypes
    <3> QED  BY <2>1, <2>5, <3>1, AppendProperties
  <2>8. DOMAIN shown' = {1} /\ shown' # <<>>
    <3>1. DOMAIN shown' = 1..1  BY <2>7, LenProperties
    <3>2. PICK x \in Seq(AdminPage!List) : x = shown'  BY <2>7
    <3>3. x # <<>>  BY <2>7, <3>2, EmptySeq
    <3> QED  BY <3>1, <3>2, <3>3
  <2>9. \A j \in DOMAIN flying' : ~flying'[j].current
    <3> SUFFICES ASSUME NEW j \in DOMAIN flying', flying'[j].current PROVE FALSE  OBVIOUS
    <3>1. PICK k \in 1..n : k # i /\ flying'[j] = flying[k]  BY <1>6
    <3> QED  BY <1>3, <1>9, <3>1 DEF AdminInv, CurrentInv
  <2>10. AdminPage!TypeOK'  BY <1>1, <1>2, <1>5, <2>1, <2>6, <2>7 DEF AdminPage!TypeOK
  <2>11. AdminPage!OneListOfTheTab'
    BY <1>2, <2>5, <2>7, <2>8, <2>9 DEF AdminPage!OneListOfTheTab
  <2>12. AdminPage!ShowsOwnSaves'
    BY <1>2, <2>1, <2>5, <2>6, <2>7 DEF AdminPage!ShowsOwnSaves
  <2>13. SavingInv'  BY <1>2 DEF AdminInv, SavingInv
  <2> QED  BY <1>7, <2>10, <2>11, <2>12, <2>13 DEF AdminInv, AdminPage!Sound
<1> QED  BY <1>8, <1>9

(* A save begins, fails or is carried out, or another one is.               *)
LEMMA SavesKeep ==
  ASSUME AdminInv,
         \/ AdminPage!Save \/ AdminPage!Committed \/ AdminPage!SaveFails \/ AdminPage!OthersSave
  PROVE  AdminInv'
<1>1. AdminPage!TypeOK  BY DEF AdminInv, AdminPage!Sound
<1>2. /\ tab' = tab /\ shown' = shown /\ categories' = categories /\ flying' = flying
      /\ answered' = answered
  BY DEF AdminPage!Save, AdminPage!Committed, AdminPage!SaveFails, AdminPage!OthersSave
<1>3. /\ revision \in Nat /\ revision <= MaxRevision /\ MaxRevision \in Nat /\ answered \in Nat
      /\ answered <= revision
  BY <1>1, AdminTypes
<1>4. revision' \in 0..MaxRevision /\ revision <= revision'
  BY <1>3 DEF AdminPage!Save, AdminPage!Committed, AdminPage!SaveFails, AdminPage!OthersSave
<1>5. /\ saving' \in {<<>>} \cup {<<v>> : v \in 0..MaxRevision}
      /\ saving' # <<>> => saving'[1] <= revision'
  <2>1. CASE AdminPage!Save  BY <1>3, <1>4, <2>1 DEF AdminPage!Save
  <2>2. CASE AdminPage!Committed  BY <1>3, <1>4, <2>2 DEF AdminPage!Committed
  <2>3. CASE AdminPage!SaveFails  BY <2>3 DEF AdminPage!SaveFails
  <2>4. CASE AdminPage!OthersSave
    <3>1. saving' = saving  BY <2>4 DEF AdminPage!OthersSave
    <3>2. CASE saving = <<>>  BY <3>1, <3>2
    <3>3. CASE saving # <<>>
      <4>1. PICK v \in 0..MaxRevision : saving = <<v>>  BY <1>1, <3>3 DEF AdminPage!TypeOK
      <4>2. v <= revision  BY <3>3, <4>1 DEF AdminInv, SavingInv
      <4> QED  BY <1>3, <1>4, <3>1, <4>1, <4>2
    <3> QED  BY <3>2, <3>3
  <2> QED  BY <2>1, <2>2, <2>3, <2>4
<1>6. answered' \in 0..revision'  BY <1>2, <1>3, <1>4
<1>7. AdminPage!TypeOK'  BY <1>1, <1>2, <1>4, <1>5, <1>6 DEF AdminPage!TypeOK
<1>8. AdminPage!OneListOfTheTab' /\ AdminPage!ShowsOwnSaves' /\ CurrentInv'
  BY <1>2 DEF AdminInv, AdminPage!Sound, AdminPage!OneListOfTheTab, AdminPage!ShowsOwnSaves,
              CurrentInv
<1>9. SavingInv'  BY <1>5 DEF SavingInv
<1> QED  BY <1>7, <1>8, <1>9 DEF AdminInv, AdminPage!Sound

LEMMA SavedKeeps ==
  ASSUME AdminInv, AdminPage!Saved
  PROVE  AdminInv'
<1>1. AdminPage!TypeOK  BY DEF AdminInv, AdminPage!Sound
<1>2. PICK v \in 0..MaxRevision : saving = <<v>>
  BY <1>1 DEF AdminPage!TypeOK, AdminPage!Saved
<1>3. MaxRevision \in Nat /\ revision \in Nat  BY <1>1, AdminTypes
<1>4. v <= revision  BY <1>2 DEF AdminInv, SavingInv, AdminPage!Saved
<1>5. answered' = v /\ saving' = <<>> /\ tab' = tab /\ categories' = categories
      /\ revision' = revision /\ AdminPage!Refreshes(tab)
  BY <1>2 DEF AdminPage!Saved
<1>6. answered' \in 0..revision  BY <1>3, <1>4, <1>5
<1>7. tab \in Tabs  BY <1>1 DEF AdminPage!TypeOK
<1> QED  BY <1>5, <1>6, <1>7, RefreshKeeps

LEMMA AdminBegins ==
  ASSUME AdminPage!Init
  PROVE  AdminInv
<1>1. /\ tab = UsersTab /\ shown = <<>> /\ saving = <<>> /\ revision = 0 /\ answered = 0
      /\ categories = [tab |-> UsersTab, rows |-> Empty, revision |-> 0]
      /\ flying = <<[tab |-> UsersTab, current |-> TRUE, asked |-> 0]>>
  BY DEF AdminPage!Init
<1>2. UsersTab \in Tabs /\ MaxRevision \in Nat
  BY SongListsAssumption DEF AdminPage!AdminPageAssumption
<1>3. AdminPage!TypeOK
  <2>1. categories \in AdminPage!List  BY <1>1, <1>2 DEF AdminPage!List
  <2>2. flying \in Seq(AdminPage!Refresh)
    <3>1. [tab |-> UsersTab, current |-> TRUE, asked |-> 0] \in AdminPage!Refresh
      BY <1>2 DEF AdminPage!Refresh
    <3> QED  BY <1>1, <3>1
  <2>3. shown \in Seq(AdminPage!List)  BY <1>1, EmptySeq
  <2> QED  BY <1>1, <1>2, <2>1, <2>2, <2>3 DEF AdminPage!TypeOK
<1>4. DOMAIN flying = {1} /\ flying[1].current = TRUE /\ flying[1].tab = tab /\ flying[1].asked = 0
  BY <1>1
<1>5. Len(shown) = 0 /\ DOMAIN shown = {}  BY <1>1, EmptySeq
<1>6. AdminPage!OneListOfTheTab  BY <1>1, <1>4, <1>5 DEF AdminPage!OneListOfTheTab
<1>7. AdminPage!ShowsOwnSaves  BY <1>1 DEF AdminPage!ShowsOwnSaves
<1>8. CurrentInv  BY <1>1, <1>4 DEF CurrentInv
<1>9. SavingInv  BY <1>1 DEF SavingInv
<1> QED  BY <1>3, <1>6, <1>7, <1>8, <1>9 DEF AdminInv, AdminPage!Sound

LEMMA AdminKeeps ==
  ASSUME AdminInv, AdminPage!Next
  PROVE  AdminInv'
<1>1. AdminPage!TypeOK  BY DEF AdminInv, AdminPage!Sound
<1>2. /\ tab \in Tabs /\ answered \in 0..revision
  BY <1>1 DEF AdminPage!TypeOK
<1>3. ASSUME NEW t \in Tabs, AdminPage!ClickTab(t) PROVE AdminInv'
  <2>1. /\ tab' = t /\ AdminPage!Refreshes(t) /\ categories' = categories
        /\ revision' = revision /\ answered' = answered /\ saving' = saving
    BY <1>3 DEF AdminPage!ClickTab
  <2> QED  BY <1>2, <2>1, RefreshKeeps
<1>4. CASE AdminPage!RenderAdmin
  <2>1. /\ tab' = tab /\ AdminPage!Refreshes(tab) /\ categories' = categories
        /\ revision' = revision /\ answered' = answered /\ saving' = saving
    BY <1>4 DEF AdminPage!RenderAdmin
  <2> QED  BY <1>2, <2>1, RefreshKeeps
<1>5. ASSUME NEW i \in DOMAIN flying, AdminPage!Arrive(i) PROVE AdminInv'
  BY <1>5, ArriveKeeps
<1>6. CASE \/ AdminPage!Save \/ AdminPage!Committed \/ AdminPage!SaveFails
           \/ AdminPage!OthersSave
  BY <1>6, SavesKeep
<1>7. CASE AdminPage!Saved  BY <1>7, SavedKeeps
<1> QED  BY <1>3, <1>4, <1>5, <1>6, <1>7 DEF AdminPage!Next

LEMMA AdminRests ==
  ASSUME AdminInv, UNCHANGED adminVars
  PROVE  AdminInv'
BY DEF AdminInv, adminVars, AdminPage!Sound, AdminPage!TypeOK, AdminPage!OneListOfTheTab,
       AdminPage!ShowsOwnSaves, CurrentInv, SavingInv

-----------------------------------------------------------------------------
(* FolderUpload: the inductive invariant.                                   *)

(* What was sent was sent by a loop.                                        *)
SentInv == \A j \in DOMAIN uploads : uploads[j].loop \in DOMAIN loops

(* A button that sends can only start another loop.                         *)
ButtonInv ==
  /\ loops = <<>> => label = "send"
  /\ loops # <<>> /\ label = "send" /\ enabled => FolderUpload!Startable(selected, category)

(* A loop that is alone, over a selection that is left alone, is where its  *)
(* uploads are.                                                             *)
AloneInv ==
  ~touched /\ Len(loops) = 1 =>
    /\ selected = asked.files /\ category = asked.category
    /\ \A j \in DOMAIN uploads : /\ j \in DOMAIN asked.files /\ uploads[j].file = asked.files[j]
                                 /\ uploads[j].category = asked.category
    /\ loops[1].at = "next" => Len(uploads) = loops[1].i - 1 /\ loops[1].i <= Len(selected) + 1
    /\ loops[1].at = "sent" => Len(uploads) = loops[1].i /\ loops[1].i <= Len(selected)
    /\ loops[1].at = "over" => Len(uploads) = Len(selected)

FolderInv ==
  /\ FolderUpload!TypeOK /\ FolderUpload!CountsAnswers /\ SentInv /\ ButtonInv /\ AloneInv

(* FolderUpload counts with the same definition.                            *)
LEMMA SameCardinality == \A S : FolderUpload!Cardinality(S) = Cardinality(S)
BY DEF FolderUpload!Cardinality, Cardinality

LEMMA FolderTypes ==
  ASSUME FolderUpload!TypeOK
  PROVE  /\ selected \in Seq(FolderUpload!Files) /\ Len(selected) \in Nat
         /\ DOMAIN selected = 1..Len(selected)
         /\ Len(loops) \in Nat /\ DOMAIN loops = 1..Len(loops)
         /\ (loops = <<>> <=> Len(loops) = 0)
         /\ \A l \in DOMAIN loops :
              loops[l] \in FolderUpload!LoopState /\ loops[l].i \in Nat /\ loops[l].i > 0
         /\ Len(uploads) \in Nat /\ DOMAIN uploads = 1..Len(uploads)
         /\ \A l : IsFiniteSet(FolderUpload!Of(l)) /\ Cardinality(FolderUpload!Of(l)) \in Nat
<1>1. selected \in Seq(FolderUpload!Files)
  BY SongListsAssumption, EmptySeq DEF FolderUpload!TypeOK, FolderUpload!FolderUploadAssumption
<1>2. Len(selected) \in Nat /\ DOMAIN selected = 1..Len(selected)  BY <1>1, LenProperties
<1>3. loops \in Seq(FolderUpload!LoopState)  BY DEF FolderUpload!TypeOK
<1>4. Len(loops) \in Nat /\ DOMAIN loops = 1..Len(loops)  BY <1>3, LenProperties
<1>5. loops = <<>> <=> Len(loops) = 0  BY <1>3, EmptySeq
<1>6. \A l \in DOMAIN loops :
        loops[l] \in FolderUpload!LoopState /\ loops[l].i \in Nat /\ loops[l].i > 0
  <2> SUFFICES ASSUME NEW l \in DOMAIN loops
               PROVE loops[l] \in FolderUpload!LoopState /\ loops[l].i \in Nat /\ loops[l].i > 0
    OBVIOUS
  <2>1. loops[l] \in FolderUpload!LoopState  BY <1>3, <1>4, ElementOfSeq
  <2> QED  BY <2>1 DEF FolderUpload!LoopState
<1>7. uploads \in Seq(FolderUpload!SentFile)  BY DEF FolderUpload!TypeOK
<1>8. Len(uploads) \in Nat /\ DOMAIN uploads = 1..Len(uploads)  BY <1>7, LenProperties
<1>9. \A l : IsFiniteSet(FolderUpload!Of(l)) /\ Cardinality(FolderUpload!Of(l)) \in Nat
  <2> TAKE l
  <2>1. FolderUpload!Of(l) \in SUBSET (1..Len(uploads))  BY <1>8 DEF FolderUpload!Of
  <2>2. IsFiniteSet(1..Len(uploads))  BY <1>8, FS_Interval
  <2>3. IsFiniteSet(FolderUpload!Of(l))  BY <2>1, <2>2, FS_Subset
  <2> QED  BY <2>3, FS_CardinalityType
<1> QED  BY <1>1, <1>2, <1>4, <1>5, <1>6, <1>8, <1>9


(* One loop moves on: what else there is to say of the loops stays.         *)
LEMMA LoopMoves ==
  ASSUME FolderUpload!TypeOK, NEW l \in DOMAIN loops, NEW t \in FolderUpload!LoopState,
         loops' = [loops EXCEPT ![l] = t]
  PROVE  /\ loops' \in Seq(FolderUpload!LoopState) /\ Len(loops') = Len(loops)
         /\ DOMAIN loops' = DOMAIN loops /\ loops' # <<>> /\ loops # <<>>
         /\ loops'[l] = t /\ \A k \in DOMAIN loops : k # l => loops'[k] = loops[k]
         /\ Len(loops) = 1 => l = 1
<1>1. loops \in Seq(FolderUpload!LoopState)  BY DEF FolderUpload!TypeOK
<1>2. /\ Len(loops) \in Nat /\ DOMAIN loops = 1..Len(loops) /\ (loops = <<>> <=> Len(loops) = 0)
  BY FolderTypes
<1>3. /\ loops' \in Seq(FolderUpload!LoopState) /\ Len(loops') = Len(loops)
      /\ \A j \in 1..Len(loops) : loops'[j] = IF j = l THEN t ELSE loops[j]
  BY <1>1, <1>2, ExceptSeq
<1>4. DOMAIN loops' = DOMAIN loops  BY <1>2, <1>3, LenProperties
<1>5. Len(loops) # 0 /\ (Len(loops) = 1 => l = 1)  BY <1>2
<1>6. loops' # <<>>  BY <1>3, <1>5, EmptySeq
<1> QED  BY <1>2, <1>3, <1>4, <1>5, <1>6

LEMMA ChooseKeeps ==
  ASSUME FolderInv,
         \/ \E files \in Folders : FolderUpload!Choose(files)
         \/ \E c \in Offered \cup {None} : FolderUpload!ChooseCategory(c)
  PROVE  FolderInv'
<1>1. /\ loops' = loops /\ uploads' = uploads /\ label' = label /\ asked' = asked
      /\ touched' = TRUE
      /\ enabled' <=> FolderUpload!Startable(selected', category')
  BY DEF FolderUpload!Choose, FolderUpload!ChooseCategory, FolderUpload!Chosen
<1>2. FolderUpload!TypeOK'
  <2>1. enabled' \in BOOLEAN
    BY DEF FolderUpload!Choose, FolderUpload!ChooseCategory, FolderUpload!Startable
  <2>2. /\ selected' \in Folders \cup {<<>>} /\ category' \in Offered \cup {None}
        /\ open' \in BOOLEAN
    BY DEF FolderInv, FolderUpload!TypeOK, FolderUpload!Choose, FolderUpload!ChooseCategory
  <2>3. choices' \in Nat
    BY DEF FolderInv, FolderUpload!TypeOK, FolderUpload!Choose, FolderUpload!ChooseCategory,
           FolderUpload!Chosen
  <2> QED  BY <1>1, <2>1, <2>2, <2>3 DEF FolderInv, FolderUpload!TypeOK
<1>3. FolderUpload!CountsAnswers'
  BY <1>1 DEF FolderInv, FolderUpload!CountsAnswers, FolderUpload!Of
<1>4. SentInv'  BY <1>1 DEF FolderInv, SentInv
<1>5. ButtonInv'  BY <1>1 DEF FolderInv, ButtonInv
<1>6. AloneInv'  BY <1>1 DEF AloneInv
<1> QED  BY <1>2, <1>3, <1>4, <1>5, <1>6 DEF FolderInv

LEMMA DismissKeeps ==
  ASSUME FolderInv, FolderUpload!Dismiss
  PROVE  FolderInv'
BY DEF FolderInv, FolderUpload!TypeOK, FolderUpload!CountsAnswers, FolderUpload!Of, SentInv,
       ButtonInv, AloneInv, FolderUpload!Dismiss, FolderUpload!Startable

(* A click that starts a loop: its count begins with none of the uploads.   *)
LEMMA LoopStarts ==
  ASSUME FolderInv, loops' = Append(loops, FolderUpload!Loop), uploads' = uploads
  PROVE  /\ loops' \in Seq(FolderUpload!LoopState) /\ Len(loops') = Len(loops) + 1
         /\ loops' # <<>> /\ loops'[Len(loops) + 1] = FolderUpload!Loop
         /\ FolderUpload!CountsAnswers' /\ SentInv'
<1>1. FolderUpload!TypeOK  BY DEF FolderInv
<1>2. FolderUpload!Loop \in FolderUpload!LoopState
  BY DEF FolderUpload!Loop, FolderUpload!LoopState
<1>3. loops \in Seq(FolderUpload!LoopState)  BY <1>1 DEF FolderUpload!TypeOK
<1>4. Len(loops) \in Nat /\ DOMAIN loops = 1..Len(loops)  BY <1>1, FolderTypes
<1>5. /\ loops' \in Seq(FolderUpload!LoopState) /\ Len(loops') = Len(loops) + 1
      /\ \A k \in 1..Len(loops) : loops'[k] = loops[k]
      /\ loops'[Len(loops) + 1] = FolderUpload!Loop
  BY <1>2, <1>3, AppendProperties
<1>6. DOMAIN loops' = 1..(Len(loops) + 1)  BY <1>5, LenProperties
<1>7. loops' # <<>>  BY <1>4, <1>5, EmptySeq
<1>8. \A j \in DOMAIN uploads : uploads[j].loop \in 1..Len(loops)
  BY <1>4 DEF FolderInv, SentInv
<1>9. FolderUpload!CountsAnswers'
  <2> SUFFICES ASSUME NEW k \in DOMAIN loops'
               PROVE loops'[k].ok + loops'[k].fails + (IF loops'[k].at = "sent" THEN 1 ELSE 0)
                       = Cardinality(FolderUpload!Of(k))
    BY SameCardinality DEF FolderUpload!CountsAnswers, FolderUpload!Of
  <2>1. CASE k \in 1..Len(loops)
    BY <1>4, <1>5, <2>1, SameCardinality DEF FolderInv, FolderUpload!CountsAnswers
  <2>2. CASE k = Len(loops) + 1
    <3>1. FolderUpload!Of(k) = {}  BY <1>4, <1>8, <2>2 DEF FolderUpload!Of
    <3>2. loops'[k].ok = 0 /\ loops'[k].fails = 0 /\ loops'[k].at = "next"
      BY <1>5, <2>2 DEF FolderUpload!Loop
    <3>3. Cardinality({}) = 0  BY FS_EmptySet
    <3> QED  BY <3>1, <3>2, <3>3
  <2> QED  BY <1>4, <1>6, <2>1, <2>2
<1>10. SentInv'  BY <1>4, <1>6, <1>8 DEF SentInv
<1> QED  BY <1>5, <1>7, <1>9, <1>10

LEMMA ClickSendKeeps ==
  ASSUME FolderInv, FolderUpload!ClickSend
  PROVE  FolderInv'
<1>1. FolderUpload!TypeOK  BY DEF FolderInv
<1>2. /\ label' = label /\ label = "send" /\ uploads' = uploads /\ selected' = selected
      /\ category' = category /\ open' = open /\ choices' = choices /\ touched' = FALSE
      /\ enabled = TRUE
  BY <1>1 DEF FolderUpload!ClickSend, FolderUpload!TypeOK
<1>3. asked' = [files |-> selected, category |-> category]  BY DEF FolderUpload!ClickSend
<1>4. asked' \in FolderUpload!Asked
  BY <1>1, <1>3 DEF FolderUpload!TypeOK, FolderUpload!Asked
<1>5. asked'.files = selected /\ asked'.category = category  BY <1>3
<1>6. CASE FolderUpload!Startable(selected, category)
  <2>1. loops' = Append(loops, FolderUpload!Loop) /\ enabled' = FALSE
    BY <1>6 DEF FolderUpload!ClickSend, FolderUpload!Starts
  <2>2. /\ loops' \in Seq(FolderUpload!LoopState) /\ Len(loops') = Len(loops) + 1
        /\ loops' # <<>> /\ loops'[Len(loops) + 1] = FolderUpload!Loop
        /\ FolderUpload!CountsAnswers' /\ SentInv'
    BY <1>2, <2>1, LoopStarts
  <2>3. FolderUpload!TypeOK'  BY <1>1, <1>2, <1>4, <2>1, <2>2 DEF FolderUpload!TypeOK
  <2>4. ButtonInv'  BY <1>2, <2>1, <2>2 DEF ButtonInv
  <2>5. AloneInv'
    <3> SUFFICES ASSUME Len(loops') = 1
                 PROVE  /\ uploads' = <<>> /\ loops'[1] = FolderUpload!Loop
                        /\ selected' = asked'.files /\ category' = asked'.category
      BY <1>1, <1>2, FolderTypes, EmptySeq DEF AloneInv, FolderUpload!Loop
    <3>1. Len(loops) = 0
      <4>1. Len(loops) \in Nat  BY <1>1, FolderTypes
      <4>2. Len(loops') = Len(loops) + 1  BY <2>2
      <4> QED  BY <4>1, <4>2
    <3>2. DOMAIN loops = {}  BY <1>1, <3>1, FolderTypes
    <3>3. DOMAIN uploads = {}  BY <3>2 DEF FolderInv, SentInv
    <3>4. Len(uploads) = 0  BY <1>1, <3>3, FolderTypes
    <3>5. uploads = <<>>  BY <1>1, <3>4, EmptySeq DEF FolderUpload!TypeOK
    <3> QED  BY <1>2, <1>5, <2>2, <3>1, <3>5
  <2> QED  BY <2>2, <2>3, <2>4, <2>5 DEF FolderInv
<1>7. CASE ~FolderUpload!Startable(selected, category)
  <2>1. loops' = loops /\ enabled' = enabled
    BY <1>7 DEF FolderUpload!ClickSend, FolderUpload!Starts
  <2>2. loops = <<>>  BY <1>2, <1>7 DEF FolderInv, ButtonInv
  <2>3. FolderUpload!TypeOK'  BY <1>1, <1>2, <1>4, <2>1 DEF FolderUpload!TypeOK
  <2>4. FolderUpload!CountsAnswers' /\ SentInv'
    BY <1>2, <2>1 DEF FolderInv, FolderUpload!CountsAnswers, FolderUpload!Of, SentInv
  <2>5. ButtonInv'  BY <1>2, <2>1, <2>2 DEF ButtonInv
  <2>6. Len(loops) = 0  BY <1>1, <2>2, FolderTypes
  <2>7. AloneInv'  BY <2>1, <2>6 DEF AloneInv
  <2> QED  BY <2>3, <2>4, <2>5, <2>7 DEF FolderInv
<1> QED  BY <1>6, <1>7

LEMMA ClickCloseKeeps ==
  ASSUME FolderInv, FolderUpload!ClickClose
  PROVE  FolderInv'
<1>1. FolderUpload!TypeOK  BY DEF FolderInv
<1>2. /\ label' = label /\ label = "close" /\ uploads' = uploads /\ selected' = selected
      /\ category' = category /\ open' = FALSE /\ choices' = choices /\ touched' = touched
      /\ asked' = asked
  BY DEF FolderUpload!ClickClose
<1>3. CASE FolderUpload!Startable(selected, category)
  <2>1. loops' = Append(loops, FolderUpload!Loop) /\ enabled' = FALSE
    BY <1>3 DEF FolderUpload!ClickClose, FolderUpload!Starts
  <2>2. /\ loops' \in Seq(FolderUpload!LoopState) /\ Len(loops') = Len(loops) + 1
        /\ loops' # <<>> /\ loops'[Len(loops) + 1] = FolderUpload!Loop
        /\ FolderUpload!CountsAnswers' /\ SentInv'
    BY <1>2, <2>1, LoopStarts
  <2>3. FolderUpload!TypeOK'  BY <1>1, <1>2, <2>1, <2>2 DEF FolderUpload!TypeOK
  <2>4. ButtonInv'  BY <1>2, <2>1, <2>2 DEF ButtonInv
  <2>5. loops # <<>>  BY <1>2 DEF FolderInv, ButtonInv
  <2>6. Len(loops') # 1  BY <1>1, <2>2, <2>5, FolderTypes
  <2>7. AloneInv'  BY <2>6 DEF AloneInv
  <2> QED  BY <2>2, <2>3, <2>4, <2>7 DEF FolderInv
<1>4. CASE ~FolderUpload!Startable(selected, category)
  <2>1. loops' = loops /\ enabled' = enabled
    BY <1>4 DEF FolderUpload!ClickClose, FolderUpload!Starts
  <2>2. FolderUpload!TypeOK'  BY <1>1, <1>2, <2>1 DEF FolderUpload!TypeOK
  <2>3. FolderUpload!CountsAnswers' /\ SentInv'
    BY <1>2, <2>1 DEF FolderInv, FolderUpload!CountsAnswers, FolderUpload!Of, SentInv
  <2>4. ButtonInv'  BY <1>2, <2>1 DEF FolderInv, ButtonInv
  <2>5. AloneInv'  BY <1>2, <2>1 DEF FolderInv, AloneInv
  <2> QED  BY <2>2, <2>3, <2>4, <2>5 DEF FolderInv
<1> QED  BY <1>3, <1>4

LEMMA SendKeeps ==
  ASSUME FolderInv, NEW l \in DOMAIN loops, FolderUpload!Send(l)
  PROVE  FolderInv'
<1>1. FolderUpload!TypeOK  BY DEF FolderInv
<1>2. /\ selected' = selected /\ category' = category /\ enabled' = enabled /\ label' = label
      /\ open' = open /\ asked' = asked /\ touched' = touched /\ choices' = choices
      /\ loops[l].at = "next" /\ loops[l].i <= Len(selected)
  BY DEF FolderUpload!Send
<1>3. /\ Len(uploads) \in Nat /\ DOMAIN uploads = 1..Len(uploads)
      /\ DOMAIN loops = 1..Len(loops) /\ Len(loops) \in Nat
      /\ DOMAIN selected = 1..Len(selected) /\ Len(selected) \in Nat
      /\ loops[l] \in FolderUpload!LoopState /\ loops[l].i \in Nat /\ loops[l].i > 0
  BY <1>1, FolderTypes
<1>4. PICK f : f = selected[loops[l].i]  OBVIOUS
<1>5. f \in FolderUpload!Files
  <2>1. loops[l].i \in 1..Len(selected)  BY <1>2, <1>3
  <2> QED  BY <1>1, <1>4, <2>1, FolderTypes, ElementOfSeq
<1>6. PICK u \in FolderUpload!SentFile : u = [file |-> f, category |-> category, loop |-> l]
  <2>1. l \in Nat  BY <1>3
  <2>2. category \in Offered \cup {None}  BY <1>1 DEF FolderUpload!TypeOK
  <2> QED  BY <1>5, <2>1, <2>2 DEF FolderUpload!SentFile
<1>7. u.file = f /\ u.category = category /\ u.loop = l  BY <1>6
<1>8. uploads' = Append(uploads, u)  BY <1>4, <1>6 DEF FolderUpload!Send
<1>9. /\ uploads' \in Seq(FolderUpload!SentFile) /\ Len(uploads') = Len(uploads) + 1
      /\ \A j \in 1..Len(uploads) : uploads'[j] = uploads[j]
      /\ uploads'[Len(uploads) + 1] = u
  BY <1>1, <1>8, AppendProperties DEF FolderUpload!TypeOK
<1>10. DOMAIN uploads' = 1..(Len(uploads) + 1)  BY <1>9, LenProperties
<1>11. PICK t \in FolderUpload!LoopState : t = [loops[l] EXCEPT !.at = "sent"]
  BY <1>3 DEF FolderUpload!LoopState
<1>12. t.at = "sent" /\ t.i = loops[l].i /\ t.ok = loops[l].ok /\ t.fails = loops[l].fails
  BY <1>3, <1>11 DEF FolderUpload!LoopState
<1>13. loops' = [loops EXCEPT ![l] = t]  BY <1>11 DEF FolderUpload!Send
<1>14. /\ loops' \in Seq(FolderUpload!LoopState) /\ Len(loops') = Len(loops)
       /\ DOMAIN loops' = DOMAIN loops /\ loops' # <<>> /\ loops # <<>>
       /\ loops'[l] = t /\ \A k \in DOMAIN loops : k # l => loops'[k] = loops[k]
       /\ Len(loops) = 1 => l = 1
  BY <1>1, <1>13, LoopMoves
<1>15. FolderUpload!TypeOK'  BY <1>1, <1>2, <1>9, <1>14 DEF FolderUpload!TypeOK
<1>16. FolderUpload!CountsAnswers'
  <2> SUFFICES ASSUME NEW k \in DOMAIN loops
               PROVE loops'[k].ok + loops'[k].fails + (IF loops'[k].at = "sent" THEN 1 ELSE 0)
                       = Cardinality({j \in DOMAIN uploads' : uploads'[j].loop = k})
    BY <1>14, SameCardinality DEF FolderUpload!CountsAnswers, FolderUpload!Of
  <2>1. loops[k].ok + loops[k].fails + (IF loops[k].at = "sent" THEN 1 ELSE 0)
          = Cardinality(FolderUpload!Of(k))
    BY SameCardinality DEF FolderInv, FolderUpload!CountsAnswers
  <2>2. CASE k # l
    <3>1. {j \in DOMAIN uploads' : uploads'[j].loop = k} = FolderUpload!Of(k)
      BY <1>3, <1>7, <1>9, <1>10, <2>2 DEF FolderUpload!Of
    <3> QED  BY <1>14, <2>1, <2>2, <3>1
  <2>3. CASE k = l
    <3>1. {j \in DOMAIN uploads' : uploads'[j].loop = l}
            = FolderUpload!Of(l) \cup {Len(uploads) + 1}
      BY <1>3, <1>7, <1>9, <1>10 DEF FolderUpload!Of
    <3>2. Len(uploads) + 1 \notin FolderUpload!Of(l)  BY <1>3 DEF FolderUpload!Of
    <3>3. IsFiniteSet(FolderUpload!Of(l)) /\ Cardinality(FolderUpload!Of(l)) \in Nat
      BY <1>1, FolderTypes
    <3>4. Cardinality(FolderUpload!Of(l) \cup {Len(uploads) + 1})
            = Cardinality(FolderUpload!Of(l)) + 1
      BY <3>2, <3>3, FS_AddElement
    <3>5. loops[l].ok \in Nat /\ loops[l].fails \in Nat  BY <1>3 DEF FolderUpload!LoopState
    <3>6. loops[l].ok + loops[l].fails = Cardinality(FolderUpload!Of(l))
      BY <1>2, <2>1, <2>3, <3>5
    <3> QED  BY <1>12, <1>14, <2>3, <3>1, <3>4, <3>5, <3>6
  <2> QED  BY <2>2, <2>3
<1>17. SentInv'
  <2> SUFFICES ASSUME NEW j \in 1..(Len(uploads) + 1) PROVE uploads'[j].loop \in DOMAIN loops
    BY <1>10, <1>14 DEF SentInv
  <2>1. CASE j \in 1..Len(uploads)  BY <1>3, <1>9, <2>1 DEF FolderInv, SentInv
  <2>2. CASE j = Len(uploads) + 1  BY <1>7, <1>9, <2>2
  <2> QED  BY <1>3, <2>1, <2>2
<1>18. ButtonInv'  BY <1>2, <1>14 DEF FolderInv, ButtonInv
<1>19. AloneInv'
  <2> SUFFICES ASSUME ~touched, Len(loops) = 1
               PROVE  /\ selected = asked.files /\ category = asked.category
                      /\ \A j \in DOMAIN uploads' :
                           /\ j \in DOMAIN asked.files /\ uploads'[j].file = asked.files[j]
                           /\ uploads'[j].category = asked.category
                      /\ Len(uploads') = loops'[1].i /\ loops'[1].i <= Len(selected)
                      /\ loops'[1].at = "sent"
    BY <1>2, <1>14 DEF AloneInv
  <2>1. l = 1  BY <1>14
  <2>2. /\ selected = asked.files /\ category = asked.category
        /\ \A j \in DOMAIN uploads : /\ j \in DOMAIN asked.files /\ uploads[j].file = asked.files[j]
                                     /\ uploads[j].category = asked.category
        /\ Len(uploads) = loops[l].i - 1
    BY <1>2, <2>1 DEF FolderInv, AloneInv
  <2>3. loops[l].i = Len(uploads) + 1  BY <1>3, <2>2
  <2>4. f = asked.files[Len(uploads) + 1] /\ Len(uploads) + 1 \in DOMAIN asked.files
    BY <1>2, <1>3, <1>4, <2>2, <2>3
  <2>5. ASSUME NEW j \in 1..(Len(uploads) + 1)
        PROVE  /\ j \in DOMAIN asked.files /\ uploads'[j].file = asked.files[j]
               /\ uploads'[j].category = asked.category
    <3>1. CASE j \in 1..Len(uploads)  BY <1>3, <1>9, <2>2, <3>1
    <3>2. CASE j = Len(uploads) + 1  BY <1>7, <1>9, <2>2, <2>4, <3>2
    <3> QED  BY <1>3, <3>1, <3>2
  <2> QED  BY <1>2, <1>9, <1>10, <1>12, <1>14, <2>1, <2>2, <2>3, <2>5
<1> QED  BY <1>15, <1>16, <1>17, <1>18, <1>19 DEF FolderInv

(* The answer to a request, or its failure: one more is counted, either way. *)
LEMMA AnswerKeeps ==
  ASSUME FolderInv, NEW l \in DOMAIN loops, FolderUpload!Answer(l) \/ FolderUpload!AnswerFails(l)
  PROVE  FolderInv'
<1>1. FolderUpload!TypeOK  BY DEF FolderInv
<1>2. /\ selected' = selected /\ category' = category /\ enabled' = enabled /\ label' = label
      /\ open' = open /\ asked' = asked /\ touched' = touched /\ choices' = choices
      /\ uploads' = uploads /\ loops[l].at = "sent"
  BY DEF FolderUpload!Answer, FolderUpload!AnswerFails
<1>3. /\ loops[l] \in FolderUpload!LoopState /\ loops[l].i \in Nat /\ loops[l].i > 0
      /\ loops[l].ok \in Nat /\ loops[l].fails \in Nat
      /\ Len(loops) \in Nat /\ Len(selected) \in Nat
  BY <1>1, FolderTypes DEF FolderUpload!LoopState
<1>4. PICK t \in FolderUpload!LoopState :
        /\ t.at = "next" /\ t.i = loops[l].i + 1
        /\ t.ok + t.fails = loops[l].ok + loops[l].fails + 1
        /\ loops' = [loops EXCEPT ![l] = t]
  <2>1. CASE FolderUpload!Answer(l)
    <3>1. PICK t : t = [loops[l] EXCEPT !.at = "next", !.i = @ + 1, !.ok = @ + 1]  OBVIOUS
    <3>2. t \in FolderUpload!LoopState
      <4>1. loops[l].i + 1 \in Nat \ {0} /\ loops[l].ok + 1 \in Nat /\ loops[l].fails + 1 \in Nat
        BY <1>3
      <4> QED  BY <1>3, <3>1, <4>1 DEF FolderUpload!LoopState
    <3>3. t.at = "next" /\ t.i = loops[l].i + 1 /\ t.ok = loops[l].ok + 1
          /\ t.fails = loops[l].fails
      BY <1>3, <3>1 DEF FolderUpload!LoopState
    <3>4. loops' = [loops EXCEPT ![l] = t]  BY <2>1, <3>1 DEF FolderUpload!Answer
    <3>5. t.ok + t.fails = loops[l].ok + loops[l].fails + 1  BY <1>3, <3>3
    <3> QED  BY <3>2, <3>3, <3>4, <3>5
  <2>2. CASE FolderUpload!AnswerFails(l)
    <3>1. PICK t : t = [loops[l] EXCEPT !.at = "next", !.i = loops[l].i + 1, !.fails = @ + 1]
      OBVIOUS
    <3>2. t \in FolderUpload!LoopState
      <4>1. loops[l].i + 1 \in Nat \ {0} /\ loops[l].ok + 1 \in Nat /\ loops[l].fails + 1 \in Nat
        BY <1>3
      <4> QED  BY <1>3, <3>1, <4>1 DEF FolderUpload!LoopState
    <3>3. t.at = "next" /\ t.i = loops[l].i + 1 /\ t.fails = loops[l].fails + 1
          /\ t.ok = loops[l].ok
      BY <1>3, <3>1 DEF FolderUpload!LoopState
    <3>4. loops' = [loops EXCEPT ![l] = t]
      BY <2>2, <3>1 DEF FolderUpload!AnswerFails, FolderUpload!AfterFailure
    <3>5. t.ok + t.fails = loops[l].ok + loops[l].fails + 1  BY <1>3, <3>3
    <3> QED  BY <3>2, <3>3, <3>4, <3>5
  <2> QED  BY <2>1, <2>2
<1>5. /\ loops' \in Seq(FolderUpload!LoopState) /\ Len(loops') = Len(loops)
      /\ DOMAIN loops' = DOMAIN loops /\ loops' # <<>> /\ loops # <<>>
      /\ loops'[l] = t /\ \A k \in DOMAIN loops : k # l => loops'[k] = loops[k]
      /\ Len(loops) = 1 => l = 1
  BY <1>1, <1>4, LoopMoves
<1>6. FolderUpload!TypeOK'  BY <1>1, <1>2, <1>5 DEF FolderUpload!TypeOK
<1>7. FolderUpload!CountsAnswers'
  <2> SUFFICES ASSUME NEW k \in DOMAIN loops
               PROVE loops'[k].ok + loops'[k].fails + (IF loops'[k].at = "sent" THEN 1 ELSE 0)
                       = Cardinality(FolderUpload!Of(k))
    BY <1>2, <1>5, SameCardinality DEF FolderUpload!CountsAnswers, FolderUpload!Of
  <2>1. loops[k].ok + loops[k].fails + (IF loops[k].at = "sent" THEN 1 ELSE 0)
          = Cardinality(FolderUpload!Of(k))
    BY SameCardinality DEF FolderInv, FolderUpload!CountsAnswers
  <2>2. CASE k # l  BY <1>5, <2>1, <2>2
  <2>3. CASE k = l
    <3>1. t.ok \in Nat /\ t.fails \in Nat  BY DEF FolderUpload!LoopState
    <3>2. loops[l].ok + loops[l].fails + 1 = Cardinality(FolderUpload!Of(l))
      BY <1>2, <2>1, <2>3
    <3> QED  BY <1>4, <1>5, <2>3, <3>1, <3>2
  <2> QED  BY <2>2, <2>3
<1>8. SentInv'  BY <1>2, <1>5 DEF FolderInv, SentInv
<1>9. ButtonInv'  BY <1>2, <1>5 DEF FolderInv, ButtonInv
<1>10. AloneInv'
  <2> SUFFICES ASSUME ~touched, Len(loops) = 1
               PROVE  /\ selected = asked.files /\ category = asked.category
                      /\ \A j \in DOMAIN uploads :
                           /\ j \in DOMAIN asked.files /\ uploads[j].file = asked.files[j]
                           /\ uploads[j].category = asked.category
                      /\ Len(uploads) = loops'[1].i - 1 /\ loops'[1].i <= Len(selected) + 1
                      /\ loops'[1].at = "next"
    BY <1>2, <1>5 DEF AloneInv
  <2>1. l = 1  BY <1>5
  <2>2. /\ selected = asked.files /\ category = asked.category
        /\ \A j \in DOMAIN uploads : /\ j \in DOMAIN asked.files /\ uploads[j].file = asked.files[j]
                                     /\ uploads[j].category = asked.category
        /\ Len(uploads) = loops[l].i /\ loops[l].i <= Len(selected)
    BY <1>2, <2>1 DEF FolderInv, AloneInv
  <2> QED  BY <1>3, <1>4, <1>5, <2>1, <2>2
<1> QED  BY <1>6, <1>7, <1>8, <1>9, <1>10 DEF FolderInv

LEMMA FinishKeeps ==
  ASSUME FolderInv, NEW l \in DOMAIN loops, FolderUpload!Finish(l)
  PROVE  FolderInv'
<1>1. FolderUpload!TypeOK  BY DEF FolderInv
<1>2. /\ selected' = selected /\ category' = category /\ enabled' = TRUE /\ label' = "close"
      /\ open' = open /\ asked' = asked /\ touched' = touched /\ choices' = choices
      /\ uploads' = uploads /\ loops[l].at = "next" /\ loops[l].i > Len(selected)
  BY DEF FolderUpload!Finish
<1>3. /\ loops[l] \in FolderUpload!LoopState /\ loops[l].i \in Nat
      /\ Len(loops) \in Nat /\ Len(selected) \in Nat
  BY <1>1, FolderTypes
<1>4. PICK t \in FolderUpload!LoopState : t = [loops[l] EXCEPT !.at = "over"]
  BY <1>3 DEF FolderUpload!LoopState
<1>5. t.at = "over" /\ t.ok = loops[l].ok /\ t.fails = loops[l].fails
  BY <1>3, <1>4 DEF FolderUpload!LoopState
<1>6. loops' = [loops EXCEPT ![l] = t]  BY <1>4 DEF FolderUpload!Finish
<1>7. /\ loops' \in Seq(FolderUpload!LoopState) /\ Len(loops') = Len(loops)
      /\ DOMAIN loops' = DOMAIN loops /\ loops' # <<>> /\ loops # <<>>
      /\ loops'[l] = t /\ \A k \in DOMAIN loops : k # l => loops'[k] = loops[k]
      /\ Len(loops) = 1 => l = 1
  BY <1>1, <1>6, LoopMoves
<1>8. FolderUpload!TypeOK'  BY <1>1, <1>2, <1>7 DEF FolderUpload!TypeOK
<1>9. FolderUpload!CountsAnswers'
  <2> SUFFICES ASSUME NEW k \in DOMAIN loops
               PROVE loops'[k].ok + loops'[k].fails + (IF loops'[k].at = "sent" THEN 1 ELSE 0)
                       = Cardinality(FolderUpload!Of(k))
    BY <1>2, <1>7, SameCardinality DEF FolderUpload!CountsAnswers, FolderUpload!Of
  <2>1. loops[k].ok + loops[k].fails + (IF loops[k].at = "sent" THEN 1 ELSE 0)
          = Cardinality(FolderUpload!Of(k))
    BY SameCardinality DEF FolderInv, FolderUpload!CountsAnswers
  <2>2. CASE k # l  BY <1>7, <2>1, <2>2
  <2>3. CASE k = l  BY <1>2, <1>5, <1>7, <2>1, <2>3
  <2> QED  BY <2>2, <2>3
<1>10. SentInv'  BY <1>2, <1>7 DEF FolderInv, SentInv
<1>11. ButtonInv'  BY <1>2, <1>7 DEF ButtonInv
<1>12. AloneInv'
  <2> SUFFICES ASSUME ~touched, Len(loops) = 1
               PROVE  /\ selected = asked.files /\ category = asked.category
                      /\ \A j \in DOMAIN uploads :
                           /\ j \in DOMAIN asked.files /\ uploads[j].file = asked.files[j]
                           /\ uploads[j].category = asked.category
                      /\ Len(uploads) = Len(selected) /\ loops'[1].at = "over"
    BY <1>2, <1>7 DEF AloneInv
  <2>1. l = 1  BY <1>7
  <2>2. /\ selected = asked.files /\ category = asked.category
        /\ \A j \in DOMAIN uploads : /\ j \in DOMAIN asked.files /\ uploads[j].file = asked.files[j]
                                     /\ uploads[j].category = asked.category
        /\ Len(uploads) = loops[l].i - 1 /\ loops[l].i <= Len(selected) + 1
    BY <1>2, <2>1 DEF FolderInv, AloneInv
  <2> QED  BY <1>2, <1>3, <1>5, <1>7, <2>1, <2>2
<1> QED  BY <1>8, <1>9, <1>10, <1>11, <1>12 DEF FolderInv

LEMMA FolderBegins ==
  ASSUME FolderUpload!Init
  PROVE  FolderInv
<1>1. /\ loops = <<>> /\ uploads = <<>> /\ label = "send" /\ selected = <<>> /\ category = None
      /\ enabled = TRUE /\ open = TRUE /\ touched = FALSE /\ choices = 0
      /\ asked = [files |-> <<>>, category |-> None]
  BY DEF FolderUpload!Init
<1>2. FolderUpload!TypeOK
  <2>1. asked \in FolderUpload!Asked  BY <1>1 DEF FolderUpload!Asked
  <2> QED  BY <1>1, <2>1, EmptySeq DEF FolderUpload!TypeOK
<1>3. DOMAIN loops = {} /\ DOMAIN uploads = {} /\ Len(loops) = 0
  BY <1>1, <1>2, FolderTypes
<1> QED
  BY <1>1, <1>2, <1>3 DEF FolderInv, FolderUpload!CountsAnswers, SentInv, ButtonInv, AloneInv

LEMMA FolderKeeps ==
  ASSUME FolderInv, FolderUpload!Next
  PROVE  FolderInv'
<1>1. ASSUME NEW files \in Folders, FolderUpload!Choose(files) PROVE FolderInv'
  BY <1>1, ChooseKeeps
<1>2. ASSUME NEW c \in Offered \cup {None}, FolderUpload!ChooseCategory(c) PROVE FolderInv'
  BY <1>2, ChooseKeeps
<1>3. CASE FolderUpload!Dismiss  BY <1>3, DismissKeeps
<1>4. CASE FolderUpload!ClickSend  BY <1>4, ClickSendKeeps
<1>5. CASE FolderUpload!ClickClose  BY <1>5, ClickCloseKeeps
<1>6. ASSUME NEW l \in DOMAIN loops, FolderUpload!Send(l) PROVE FolderInv'
  BY <1>6, SendKeeps
<1>7. ASSUME NEW l \in DOMAIN loops, FolderUpload!Answer(l) \/ FolderUpload!AnswerFails(l)
      PROVE FolderInv'
  BY <1>7, AnswerKeeps
<1>8. ASSUME NEW l \in DOMAIN loops, FolderUpload!Finish(l) PROVE FolderInv'
  BY <1>8, FinishKeeps
<1> QED  BY <1>1, <1>2, <1>3, <1>4, <1>5, <1>6, <1>7, <1>8 DEF FolderUpload!Next

LEMMA FolderRests ==
  ASSUME FolderInv, UNCHANGED folderVars
  PROVE  FolderInv'
BY DEF FolderInv, folderVars, FolderUpload!TypeOK, FolderUpload!CountsAnswers, FolderUpload!Of,
       SentInv, ButtonInv, AloneInv, FolderUpload!Startable

LEMMA FolderIsSound ==
  ASSUME FolderInv
  PROVE  FolderUpload!Sound
<1>1. FolderUpload!TypeOK  BY DEF FolderInv
<1>2. FolderUpload!SendsAsAsked
  BY DEF FolderInv, AloneInv, FolderUpload!SendsAsAsked
<1> QED  BY <1>1, <1>2 DEF FolderInv, FolderUpload!Sound

-----------------------------------------------------------------------------
(* Recommendations: what a signal moves.                                    *)

RecommendationsInv == Recommendations!TypeOK

(* What a step changes is the signals of one song.                          *)
LEMMA SignalsOfOne ==
  ASSUME Recommendations!RecommendationsAssumption, RecommendationsInv, Recommendations!Next
  PROVE  /\ RecommendationsInv' /\ catalogue' = catalogue
         /\ \E q \in Songs : \A t \in Songs \ {q} : plays'[t] = plays[t] /\ likes'[t] = likes[t]
<1>1. /\ catalogue \in Catalogues
      /\ plays \in [Songs -> [{"new", "old"} -> 0 .. MaxPlays]]
      /\ likes \in [Songs -> {"new", "old"} \cup {None}] /\ MaxPlays \in Nat
  BY DEF RecommendationsInv, Recommendations!TypeOK, Recommendations!Ages,
         Recommendations!RecommendationsAssumption
<1> SUFFICES ASSUME NEW q \in Songs,
                    \/ Recommendations!Listen(q) \/ Recommendations!Like(q)
                    \/ Recommendations!Unlike(q) \/ Recommendations!PlayAges(q)
                    \/ Recommendations!LikeAges(q)
             PROVE  /\ catalogue' = catalogue
                    /\ plays' \in [Songs -> [{"new", "old"} -> 0 .. MaxPlays]]
                    /\ likes' \in [Songs -> {"new", "old"} \cup {None}]
                    /\ \A t \in Songs \ {q} : plays'[t] = plays[t] /\ likes'[t] = likes[t]
  BY <1>1 DEF Recommendations!Next, RecommendationsInv, Recommendations!TypeOK,
              Recommendations!Ages
<1>2. /\ plays[q]["new"] \in 0 .. MaxPlays /\ plays[q]["old"] \in 0 .. MaxPlays
      /\ plays[q] \in [{"new", "old"} -> 0 .. MaxPlays]
  BY <1>1
<1>3. CASE Recommendations!Listen(q)
  <2>1. plays' = [plays EXCEPT ![q] = [plays[q] EXCEPT !["new"] = plays[q]["new"] + 1]]
        /\ plays[q]["new"] < MaxPlays /\ UNCHANGED <<catalogue, likes>>
    BY <1>1, <1>3 DEF Recommendations!Listen
  <2>2. [plays[q] EXCEPT !["new"] = plays[q]["new"] + 1] \in [{"new", "old"} -> 0 .. MaxPlays]
    BY <1>1, <1>2, <2>1
  <2> QED  BY <1>1, <2>1, <2>2
<1>4. CASE Recommendations!Like(q) \/ Recommendations!Unlike(q) \/ Recommendations!LikeAges(q)
  <2>1. PICK age \in {"new", "old"} \cup {None} :
          likes' = [likes EXCEPT ![q] = age] /\ UNCHANGED <<catalogue, plays>>
    BY <1>4 DEF Recommendations!Like, Recommendations!Unlike, Recommendations!LikeAges
  <2> QED  BY <1>1, <2>1
<1>5. CASE Recommendations!PlayAges(q)
  <2>1. PICK p \in [{"new", "old"} -> 0 .. MaxPlays] :
          plays' = [plays EXCEPT ![q] = p] /\ UNCHANGED <<catalogue, likes>>
    <3>1. CASE /\ plays[q]["new"] > 0 /\ plays[q]["old"] < MaxPlays
               /\ plays' = [plays EXCEPT ![q] =
                              [new |-> plays[q].new - 1, old |-> plays[q].old + 1]]
      <4>1. [new |-> plays[q].new - 1, old |-> plays[q].old + 1]
              \in [{"new", "old"} -> 0 .. MaxPlays]
        BY <1>1, <1>2, <3>1
      <4> QED  BY <1>5, <3>1, <4>1 DEF Recommendations!PlayAges
    <3>2. CASE /\ plays[q]["old"] > 0
               /\ plays' = [plays EXCEPT ![q] = [plays[q] EXCEPT !["old"] = plays[q]["old"] - 1]]
      <4>1. [plays[q] EXCEPT !["old"] = plays[q]["old"] - 1]
              \in [{"new", "old"} -> 0 .. MaxPlays]
        BY <1>1, <1>2, <3>2
      <4> QED  BY <1>5, <3>2, <4>1 DEF Recommendations!PlayAges
    <3> QED  BY <1>1, <1>5, <3>1, <3>2 DEF Recommendations!PlayAges
  <2> QED  BY <1>1, <2>1
<1> QED  BY <1>3, <1>4, <1>5

(* The weights of what another song has do not contain the signals of q.    *)
LEMMA WeightsStay ==
  ASSUME NEW S \in SUBSET Songs,
         \A t \in S : plays'[t] = plays[t] /\ likes'[t] = likes[t]
  PROVE  Recommendations!WeightOf(S)' = Recommendations!WeightOf(S)
<1>1. \A t \in S : Recommendations!Weight(t)' = Recommendations!Weight(t)
  BY DEF Recommendations!Weight
<1>2. [t \in S |-> Recommendations!Weight(t)'] = [t \in S |-> Recommendations!Weight(t)]
  BY <1>1
<1> QED  BY <1>2 DEF Recommendations!WeightOf

LEMMA ScoresStay ==
  ASSUME Recommendations!RecommendationsAssumption, RecommendationsInv, catalogue' = catalogue,
         NEW q \in Songs,
         \A t \in Songs \ {q} : plays'[t] = plays[t] /\ likes'[t] = likes[t],
         NEW t \in Songs, ~Recommendations!Common(q, t)
  PROVE  Recommendations!Score(t)' = Recommendations!Score(t)
<1>1. /\ t # q /\ catalogue.categories[q] \cap catalogue.categories[t] = {}
      /\ catalogue.artist[t] # None => catalogue.artist[q] # catalogue.artist[t]
      /\ catalogue.genre[t] # None => catalogue.genre[q] # catalogue.genre[t]
  BY DEF Recommendations!Common
<1>2. ASSUME NEW S \in SUBSET Songs, q \notin S
      PROVE  Recommendations!WeightOf(S)' = Recommendations!WeightOf(S)
  BY <1>2, WeightsStay
<1>3. Recommendations!ArtistWeight(catalogue.artist[t])'
        = Recommendations!ArtistWeight(catalogue.artist[t])
  <2> DEFINE S == {s \in Songs : catalogue.artist[s] = catalogue.artist[t]}
  <2>1. S' = S  OBVIOUS
  <2>2. catalogue.artist[t] # None =>
          Recommendations!WeightOf(S)' = Recommendations!WeightOf(S)
    BY <1>1, <1>2
  <2> QED  BY <2>1, <2>2 DEF Recommendations!ArtistWeight
<1>4. Recommendations!GenreWeight(catalogue.genre[t])'
        = Recommendations!GenreWeight(catalogue.genre[t])
  <2> DEFINE S == {s \in Songs : catalogue.genre[s] = catalogue.genre[t]}
  <2>1. S' = S  OBVIOUS
  <2>2. catalogue.genre[t] # None =>
          Recommendations!WeightOf(S)' = Recommendations!WeightOf(S)
    BY <1>1, <1>2
  <2> QED  BY <2>1, <2>2 DEF Recommendations!GenreWeight
<1>5. ASSUME NEW c \in catalogue.categories[t]
      PROVE  Recommendations!CategoryWeight(c)' = Recommendations!CategoryWeight(c)
  BY <1>1, <1>2, <1>5 DEF Recommendations!CategoryWeight
<1>6. /\ [c \in catalogue.categories[t] |-> Recommendations!CategoryWeight(c)]'
           = [c \in catalogue.categories[t] |-> Recommendations!CategoryWeight(c)]
      /\ Recommendations!Percent(t)' = Recommendations!Percent(t)
      /\ catalogue.popular[t]' = catalogue.popular[t]
  BY <1>1, <1>5 DEF Recommendations!Percent
<1> QED  BY <1>3, <1>4, <1>6 DEF Recommendations!Score

LEMMA OrderStays ==
  ASSUME Recommendations!RecommendationsAssumption, RecommendationsInv,
         Recommendations!Next \/ UNCHANGED recommendationsVars
  PROVE  [\A s \in Songs :
            plays[s] # plays'[s] \/ likes[s] # likes'[s] =>
              \A before \in {Recommendations!Order}, after \in {Recommendations!Order'} :
                LET others == {t \in Songs : ~Recommendations!Common(s, t)} IN
                before \cap (others \X others) = after \cap (others \X others)
         ]_(Recommendations!vars)
<1>1. CASE UNCHANGED recommendationsVars
  BY <1>1 DEF recommendationsVars, Recommendations!vars
<1>2. ASSUME Recommendations!Next, NEW s \in Songs, plays[s] # plays'[s] \/ likes[s] # likes'[s]
      PROVE  LET others == {t \in Songs : ~Recommendations!Common(s, t)} IN
             Recommendations!Order \cap (others \X others)
               = Recommendations!Order' \cap (others \X others)
  <2> DEFINE others == {t \in Songs : ~Recommendations!Common(s, t)}
             score == Recommendations!Scores
  <2>1. /\ catalogue' = catalogue
        /\ \A t \in Songs \ {s} : plays'[t] = plays[t] /\ likes'[t] = likes[t]
    BY <1>2, SignalsOfOne
  <2>2. \A t \in others : t \in Songs /\ score'[t] = score[t]
    <3>1. \A t \in others : Recommendations!Score(t)' = Recommendations!Score(t)
      BY <2>1, ScoresStay
    <3> QED  BY <3>1 DEF Recommendations!Scores
  <2>3. /\ Recommendations!Order
             = {p \in Songs \X Songs : Recommendations!Before(score, p[1], p[2])}
        /\ Recommendations!Order'
             = {p \in Songs \X Songs : Recommendations!Before(score, p[1], p[2])'}
    BY DEF Recommendations!Order
  <2>4. \A p \in others \X others :
          Recommendations!Before(score, p[1], p[2])' <=> Recommendations!Before(score, p[1], p[2])
    BY <2>1, <2>2 DEF Recommendations!Before
  <2> HIDE DEF score
  <2>5. others \X others \subseteq Songs \X Songs  OBVIOUS
  <2> HIDE DEF others
  <2> QED  BY <2>3, <2>4, <2>5 DEF others
<1> QED  BY <1>1, <1>2

LEMMA RecommendationsBegin ==
  ASSUME Recommendations!RecommendationsAssumption, Recommendations!Init
  PROVE  RecommendationsInv
<1>1. [a \in {"new", "old"} |-> 0] \in [{"new", "old"} -> 0 .. MaxPlays]
  BY DEF Recommendations!RecommendationsAssumption
<1> QED
  BY <1>1 DEF Recommendations!Init, RecommendationsInv, Recommendations!TypeOK,
              Recommendations!Ages

LEMMA RecommendationsKeep ==
  ASSUME Recommendations!RecommendationsAssumption, RecommendationsInv,
         Recommendations!Next \/ UNCHANGED recommendationsVars
  PROVE  RecommendationsInv'
<1>1. CASE UNCHANGED recommendationsVars
  BY <1>1 DEF recommendationsVars, RecommendationsInv, Recommendations!TypeOK
<1> QED  BY <1>1, SignalsOfOne

-----------------------------------------------------------------------------
(* Recommendations: what folds compute.  Induction over numbers is in first-order   *)
(* form: of a nonempty set of them one is the least.                                *)
LEMMA LeastNat ==
  ASSUME NEW T \in SUBSET Nat, T # {}
  PROVE  \E x \in T : \A y \in T : x <= y
<1> DEFINE R == OpToRel(<, Nat)
<1>1. IsWellFoundedOn(R, Nat)  BY NatLessThanWellFounded
<1>2. \A x, y \in Nat : <<y, x>> \in R <=> y < x  BY DEF OpToRel
<1> HIDE DEF R
<1>3. PICK x \in T : \A y \in T : ~(<<y, x>> \in R)  BY <1>1, WFMin
<1>4. \A y \in T : ~(y < x)  BY <1>2, <1>3
<1> QED  BY <1>4

(* A set of numbers that contains 0, and with a number the next, contains all: *)
(* there is no least one that it lacks.                                        *)
LEMMA AllNumbers ==
  ASSUME NEW Good, 0 \in Good, \A n \in Nat : n \in Good => n + 1 \in Good
  PROVE  Nat \subseteq Good
<1> SUFFICES ASSUME Nat \ Good # {} PROVE FALSE
  OBVIOUS
<1>1. PICK m \in Nat \ Good : \A k \in Nat \ Good : m <= k  BY LeastNat
<1>2. m - 1 \in Nat /\ m - 1 \notin Nat \ Good  BY <1>1
<1> QED  BY <1>1, <1>2

LEMMA GreatestNat ==
  ASSUME NEW n \in Nat, NEW T \in SUBSET (0 .. n), T # {}
  PROVE  \E x \in T : \A y \in T : x >= y
<1> DEFINE U == {n - x : x \in T}
<1>1. U \in SUBSET Nat /\ U # {}
  <2>1. \A x \in T : x \in 0 .. n /\ n - x \in Nat  OBVIOUS
  <2> QED  BY <2>1
<1>2. PICK u \in U : \A y \in U : u <= y  BY <1>1, LeastNat
<1>3. PICK x \in T : u = n - x  BY <1>2
<1>4. \A y \in T : n - y \in U  OBVIOUS
<1> HIDE DEF U
<1>5. \A y \in T : n - x <= n - y  BY <1>2, <1>3, <1>4
<1>6. \A y \in T : y \in Nat /\ x \in Nat  OBVIOUS
<1> QED  BY <1>5, <1>6

-----------------------------------------------------------------------------
(* Folds: a set's value is made of an element's and the value of the rest.  *)

(* The functions on the subsets of S that a fold may stand for: pick[T] is taken from *)
(* T, and G combines it with the value of the rest.                                   *)
FoldsOver(S, V, base, G, pick) ==
  {f \in [SUBSET S -> V] : \A T \in SUBSET S :
     f[T] = IF T = {} THEN base ELSE G[<<pick[T], f[T \ {pick[T]}]>>]}

LEMMA FoldExists ==
  ASSUME NEW S, IsFiniteSet(S), NEW V, NEW base \in V, NEW G \in [S \X V -> V],
         NEW pick, \A T \in SUBSET S : T # {} => pick[T] \in T
  PROVE  \E f : f \in FoldsOver(S, V, base, G, pick)
<1> DEFINE Fits(f, T) == f[T] = IF T = {} THEN base ELSE G[<<pick[T], f[T \ {pick[T]}]>>]
           AtMost(n) == {T \in SUBSET S : Cardinality(T) <= n}
           Good == {n \in Nat : \E f \in [SUBSET S -> V] : \A T \in AtMost(n) : Fits(f, T)}
<1>1. \A T \in SUBSET S :
        /\ IsFiniteSet(T) /\ Cardinality(T) \in Nat /\ Cardinality(T) <= Cardinality(S)
        /\ Cardinality(T) = 0 => T = {}
  BY FS_Subset, FS_CardinalityType, FS_EmptySet
<1>2. 0 \in Good
  <2>1. [T \in SUBSET S |-> base] \in [SUBSET S -> V]  OBVIOUS
  <2>2. \A T \in AtMost(0) : T = {}  BY <1>1
  <2> QED  BY <2>1, <2>2
<1>3. ASSUME NEW n \in Nat, n \in Good PROVE n + 1 \in Good
  <2>1. PICK f \in [SUBSET S -> V] : \A T \in AtMost(n) : Fits(f, T)  BY <1>3
  <2> DEFINE g == [T \in SUBSET S |->
                     IF T = {} THEN base ELSE G[<<pick[T], f[T \ {pick[T]}]>>]]
  <2>2. g \in [SUBSET S -> V]
    <3> SUFFICES ASSUME NEW T \in SUBSET S, T # {} PROVE G[<<pick[T], f[T \ {pick[T]}]>>] \in V
      OBVIOUS
    <3>1. pick[T] \in S /\ T \ {pick[T]} \in SUBSET S  OBVIOUS
    <3>2. <<pick[T], f[T \ {pick[T]}]>> \in S \X V  BY <3>1
    <3> QED  BY <3>2
  <2>3. \A T \in AtMost(n) : g[T] = f[T]  BY <2>1
  <2>4. ASSUME NEW T \in AtMost(n + 1), T # {} PROVE T \ {pick[T]} \in AtMost(n)
    <3>1. T \in SUBSET S /\ pick[T] \in T /\ IsFiniteSet(T) /\ Cardinality(T) \in Nat
      BY <1>1, <2>4
    <3>2. \A x \in T : Cardinality(T \ {x}) = Cardinality(T) - 1  BY <3>1, FS_RemoveElement
    <3>3. Cardinality(T \ {pick[T]}) = Cardinality(T) - 1  BY <3>1, <3>2
    <3> QED  BY <3>1, <3>3
  <2>5. \A T \in AtMost(n + 1) : Fits(g, T)
    <3> SUFFICES ASSUME NEW T \in AtMost(n + 1) PROVE Fits(g, T)
      OBVIOUS
    <3>1. CASE T = {}  BY <3>1
    <3>2. CASE T # {}
      <4>1. g[T \ {pick[T]}] = f[T \ {pick[T]}]  BY <2>3, <2>4, <3>2
      <4>2. T \in SUBSET S  OBVIOUS
      <4> QED  BY <3>2, <4>1, <4>2
    <3> QED  BY <3>1, <3>2
  <2> HIDE DEF g, AtMost, Fits
  <2> QED  BY <2>2, <2>5
<1>4. Cardinality(S) \in Good
  <2>1. Cardinality(S) \in Nat  BY FS_CardinalityType
  <2> HIDE DEF Good
  <2> QED  BY <1>2, <1>3, <2>1, AllNumbers
<1>5. PICK f \in [SUBSET S -> V] : \A T \in AtMost(Cardinality(S)) : Fits(f, T)  BY <1>4
<1>6. \A T \in SUBSET S : T \in AtMost(Cardinality(S))  BY <1>1
<1> QED  BY <1>5, <1>6 DEF FoldsOver

(* A set of sets that contains the empty one, and with what is left of a set that *)
(* set, contains all finite ones.                                                 *)
LEMMA AllSubsets ==
  ASSUME NEW S, IsFiniteSet(S), NEW Fine,
         NEW pick, \A T \in SUBSET S : T # {} => pick[T] \in T,
         {} \in Fine,
         \A T \in SUBSET S : T # {} /\ T \ {pick[T]} \in Fine => T \in Fine
  PROVE  SUBSET S \subseteq Fine
<1> DEFINE Good == {n \in Nat : \A T \in SUBSET S : Cardinality(T) = n => T \in Fine}
<1>1. \A T \in SUBSET S :
        /\ IsFiniteSet(T) /\ Cardinality(T) \in Nat
        /\ Cardinality(T) = 0 => T = {}
  BY FS_Subset, FS_CardinalityType, FS_EmptySet
<1>2. 0 \in Good  BY <1>1
<1>3. ASSUME NEW n \in Nat, n \in Good PROVE n + 1 \in Good
  <2> SUFFICES ASSUME NEW T \in SUBSET S, Cardinality(T) = n + 1 PROVE T \in Fine
    OBVIOUS
  <2>1. T # {}
    <3>1. Cardinality(T) # 0  BY <1>3
    <3> QED  BY <1>1, <3>1, FS_EmptySet
  <2>2. Cardinality(T \ {pick[T]}) = n
    <3>1. \A x \in T : Cardinality(T \ {x}) = Cardinality(T) - 1  BY <1>1, FS_RemoveElement
    <3> QED  BY <2>1, <3>1
  <2>3. T \ {pick[T]} \in Fine  BY <1>3, <2>2
  <2> QED  BY <2>1, <2>3
<1>4. Nat \subseteq Good
  <2> HIDE DEF Good
  <2> QED  BY <1>2, <1>3, AllNumbers
<1> QED  BY <1>1, <1>4

-----------------------------------------------------------------------------
(* Totals.                                                                  *)

LEMMA TotalIsSum ==
  ASSUME NEW S, IsFiniteSet(S), NEW f \in [S -> Nat]
  PROVE  /\ Recommendations!Total(f) \in Nat
         /\ \A x \in S : f[x] <= Recommendations!Total(f)
<1> DEFINE pick == [T \in SUBSET S |-> CHOOSE x \in T : TRUE]
           G == [p \in S \X Nat |-> f[p[1]] + p[2]]
           Sums(g) == [T \in SUBSET S |->
                         IF T = {} THEN 0
                         ELSE LET x == CHOOSE x \in T : TRUE IN f[x] + g[T \ {x}]]
           iter == CHOOSE g : g = Sums(g)
           Fine == {T \in SUBSET S : iter[T] \in Nat /\ \A x \in T : f[x] <= iter[T]}
<1>1. \A T \in SUBSET S : T # {} => pick[T] \in T  OBVIOUS
<1>2. G \in [S \X Nat -> Nat]  OBVIOUS
<1>3. PICK h \in [SUBSET S -> Nat] : \A T \in SUBSET S :
        h[T] = IF T = {} THEN 0 ELSE G[<<pick[T], h[T \ {pick[T]}]>>]
  <2>1. 0 \in Nat  OBVIOUS
  <2> HIDE DEF pick, G, iter, Sums, Fine
  <2>2. PICK h : h \in FoldsOver(S, Nat, 0, G, pick)  BY <1>1, <1>2, <2>1, FoldExists
  <2> QED  BY <2>2 DEF FoldsOver
<1>4. h = Sums(h)
  <2>1. \A T \in SUBSET S : h[T] = Sums(h)[T]
    <3> SUFFICES ASSUME NEW T \in SUBSET S PROVE h[T] = Sums(h)[T]
      OBVIOUS
    <3>1. T # {} => pick[T] \in S /\ h[T \ {pick[T]}] \in Nat  BY <1>1
    <3>2. T # {} => G[<<pick[T], h[T \ {pick[T]}]>>] = f[pick[T]] + h[T \ {pick[T]}]
      BY <3>1
    <3>3. h[T] = IF T = {} THEN 0 ELSE f[pick[T]] + h[T \ {pick[T]}]
      <4> HIDE DEF pick, G
      <4> QED  BY <1>3, <3>2
    <3> QED  BY <3>3
  <2>2. DOMAIN h = SUBSET S /\ h = [T \in SUBSET S |-> h[T]]  OBVIOUS
  <2> QED  BY <2>1, <2>2
<1>5. iter = Sums(iter)
  <2> HIDE DEF Sums
  <2> QED  BY <1>4
<1>6. Recommendations!Total(f) = iter[S]
  BY DEF Recommendations!Total, Recommendations!FoldFunction,
         Recommendations!FoldFunctionOnSet, Recommendations!MapThenFoldSet
<1>7. \A T \in SUBSET S : iter[T] = IF T = {} THEN 0 ELSE f[pick[T]] + iter[T \ {pick[T]}]
  <2>1. \A T \in SUBSET S : Sums(iter)[T] = IF T = {} THEN 0 ELSE f[pick[T]] + iter[T \ {pick[T]}]
    <3> HIDE DEF iter
    <3> QED  OBVIOUS
  <2> HIDE DEF iter, Sums, pick
  <2> QED  BY <1>5, <2>1
<1> HIDE DEF iter, Sums, pick
<1>8. {} \in Fine
  <2>1. iter[{}] = 0  BY <1>7
  <2> QED  BY <2>1
<1>9. ASSUME NEW T \in SUBSET S, T # {}, T \ {pick[T]} \in Fine PROVE T \in Fine
  <2>1. iter[T] = f[pick[T]] + iter[T \ {pick[T]}]  BY <1>7, <1>9
  <2>2. f[pick[T]] \in Nat /\ iter[T \ {pick[T]}] \in Nat  BY <1>1, <1>9
  <2>3. \A x \in T \ {pick[T]} : f[x] \in Nat /\ f[x] <= iter[T \ {pick[T]}]  BY <1>9
  <2>4. ASSUME NEW x \in T PROVE f[x] <= iter[T]
    <3>1. CASE x = pick[T]  BY <2>1, <2>2, <3>1
    <3>2. CASE x # pick[T]
      <4>1. f[x] \in Nat /\ f[x] <= iter[T \ {pick[T]}]  BY <2>3, <3>2
      <4> QED  BY <2>1, <2>2, <4>1
    <3> QED  BY <3>1, <3>2
  <2>5. iter[T] \in Nat  BY <2>1, <2>2
  <2> QED  BY <2>4, <2>5
<1>10. S \in Fine
  <2> HIDE DEF Fine
  <2> QED  BY <1>1, <1>8, <1>9, AllSubsets
<1> QED  BY <1>6, <1>10

(* Recommendations counts with the same definition.                         *)
LEMMA RecommendationsCount ==
  /\ \A S : Recommendations!Cardinality(S) = Cardinality(S)
  /\ \A S : Recommendations!IsFiniteSet(S) <=> IsFiniteSet(S)
BY DEF Recommendations!Cardinality, Cardinality, Recommendations!IsFiniteSet, IsFiniteSet

(* Weights and scores are numbers, and an artist weighs what each song does. *)
LEMMA WeightIsNat ==
  ASSUME Recommendations!RecommendationsAssumption, RecommendationsInv, NEW s \in Songs
  PROVE  Recommendations!Weight(s) \in Nat
<1>1. /\ plays[s]["new"] \in Nat /\ plays[s]["old"] \in Nat
      /\ likes[s] # None => likes[s] \in {"new", "old"}
  BY DEF RecommendationsInv, Recommendations!TypeOK, Recommendations!Ages,
         Recommendations!RecommendationsAssumption
<1>2. /\ PlayWeight["new"] \in Nat /\ PlayWeight["old"] \in Nat
      /\ \A a \in {"new", "old"} : LikeWeight[a] \in Nat
  BY DEF Recommendations!RecommendationsAssumption
<1>3. plays[s]["new"] * PlayWeight["new"] \in Nat /\ plays[s]["old"] * PlayWeight["old"] \in Nat
  BY <1>1, <1>2
<1>4. (IF likes[s] = None THEN 0 ELSE LikeWeight[likes[s]]) \in Nat  BY <1>1, <1>2
<1> QED  BY <1>3, <1>4 DEF Recommendations!Weight

LEMMA WeightOfIsSum ==
  ASSUME Recommendations!RecommendationsAssumption, RecommendationsInv, NEW S \in SUBSET Songs
  PROVE  /\ Recommendations!WeightOf(S) \in Nat
         /\ \A s \in S : Recommendations!Weight(s) <= Recommendations!WeightOf(S)
<1> DEFINE f == [s \in S |-> Recommendations!Weight(s)]
<1>1. IsFiniteSet(S)
  BY FS_Subset, RecommendationsCount DEF Recommendations!RecommendationsAssumption
<1>2. f \in [S -> Nat]  BY WeightIsNat
<1>3. \A s \in S : f[s] = Recommendations!Weight(s)  OBVIOUS
<1>4. Recommendations!WeightOf(S) = Recommendations!Total(f)  BY DEF Recommendations!WeightOf
<1> HIDE DEF f
<1> QED  BY <1>1, <1>2, <1>3, <1>4, TotalIsSum

(* What is scored of a song besides its popularity.                         *)
Merit(s) ==
  3 * Recommendations!ArtistWeight(catalogue.artist[s])
    + 2 * Recommendations!GenreWeight(catalogue.genre[s])
    + Recommendations!Total([c \in catalogue.categories[s] |-> Recommendations!CategoryWeight(c)])

LEMMA ScoreOfMerit ==
  ASSUME Recommendations!RecommendationsAssumption, RecommendationsInv, NEW s \in Songs
  PROVE  /\ Merit(s) \in Nat /\ catalogue.popular[s] \in Nat
         /\ Recommendations!Score(s)
              = Recommendations!Percent(s) * Merit(s) + catalogue.popular[s]
         /\ Recommendations!Score(s) \in Nat
         /\ catalogue.artist[s] # None => Recommendations!Weight(s) <= Merit(s)
<1> DEFINE a == Recommendations!ArtistWeight(catalogue.artist[s])
           g == Recommendations!GenreWeight(catalogue.genre[s])
           f == [c \in catalogue.categories[s] |-> Recommendations!CategoryWeight(c)]
           t == Recommendations!Total(f)
<1>1. /\ catalogue \in Catalogues /\ catalogue.popular[s] \in Nat
      /\ IsFiniteSet(catalogue.categories[s])
  BY RecommendationsCount DEF RecommendationsInv, Recommendations!TypeOK,
     Recommendations!RecommendationsAssumption
<1>2. a \in Nat /\ (catalogue.artist[s] # None => Recommendations!Weight(s) <= a)
  <2> DEFINE S == {q \in Songs : catalogue.artist[q] = catalogue.artist[s]}
  <2>1. S \in SUBSET Songs /\ s \in S  OBVIOUS
  <2>2. a = IF catalogue.artist[s] = None THEN 0 ELSE Recommendations!WeightOf(S)
    BY DEF Recommendations!ArtistWeight
  <2> HIDE DEF a, S
  <2> QED  BY <2>1, <2>2, WeightOfIsSum
<1>3. g \in Nat
  <2> DEFINE S == {q \in Songs : catalogue.genre[q] = catalogue.genre[s]}
  <2>1. S \in SUBSET Songs  OBVIOUS
  <2>2. g = IF catalogue.genre[s] = None THEN 0 ELSE Recommendations!WeightOf(S)
    BY DEF Recommendations!GenreWeight
  <2> HIDE DEF g, S
  <2> QED  BY <2>1, <2>2, WeightOfIsSum
<1>4. t \in Nat
  <2>1. \A c : Recommendations!CategoryWeight(c) \in Nat
    <3> SUFFICES ASSUME NEW c PROVE Recommendations!CategoryWeight(c) \in Nat
      OBVIOUS
    <3> DEFINE S == {q \in Songs : c \in catalogue.categories[q]}
    <3>1. S \in SUBSET Songs /\ Recommendations!CategoryWeight(c) = Recommendations!WeightOf(S)
      BY DEF Recommendations!CategoryWeight
    <3> HIDE DEF S
    <3> QED  BY <3>1, WeightOfIsSum
  <2>2. f \in [catalogue.categories[s] -> Nat]  BY <2>1
  <2> HIDE DEF f
  <2> QED  BY <1>1, <2>2, TotalIsSum
<1>5. Merit(s) = 3 * a + 2 * g + t /\ Recommendations!Percent(s) \in {35, 100}
  BY DEF Merit, Recommendations!Percent
<1>6. Recommendations!Score(s)
        = Recommendations!Percent(s) * (3 * a + 2 * g + t) + catalogue.popular[s]
  BY DEF Recommendations!Score
<1> HIDE DEF a, g, f, t
<1>7. Merit(s) \in Nat /\ a <= Merit(s)  BY <1>2, <1>3, <1>4, <1>5
<1>8. Recommendations!Percent(s) * Merit(s) \in Nat  BY <1>5, <1>7
<1>9. Recommendations!Weight(s) \in Nat  BY WeightIsNat
<1> QED  BY <1>1, <1>2, <1>5, <1>6, <1>7, <1>8, <1>9

(* Of two songs that have the same, the one heard this week comes later.    *)
LEMMA TwinsInOrder ==
  ASSUME Recommendations!RecommendationsAssumption, RecommendationsInv
  PROVE  Recommendations!HeardComeLater
<1> SUFFICES ASSUME NEW s \in Songs, NEW t \in Songs, Recommendations!Twins(s, t),
                    plays[s]["new"] > 0, plays[t]["new"] = 0, Recommendations!Weight(s) > 0,
                    catalogue.artist[s] # None
             PROVE  Recommendations!Before(Recommendations!Scores, t, s)
  BY DEF Recommendations!HeardComeLater
<1>1. Merit(s) = Merit(t) /\ catalogue.popular[s] = catalogue.popular[t]
  BY DEF Merit, Recommendations!Twins
<1>2. Recommendations!Percent(s) = 35 /\ Recommendations!Percent(t) = 100
  BY DEF Recommendations!Percent
<1>3. Merit(s) \in Nat /\ Merit(s) > 0
  BY WeightIsNat, ScoreOfMerit
<1>4. /\ Recommendations!Score(s) = 35 * Merit(s) + catalogue.popular[s]
      /\ Recommendations!Score(t) = 100 * Merit(s) + catalogue.popular[s]
      /\ catalogue.popular[s] \in Nat
  BY <1>1, <1>2, ScoreOfMerit
<1>5. Recommendations!Score(t) > Recommendations!Score(s)  BY <1>3, <1>4
<1>6. /\ Recommendations!Scores[t] = Recommendations!Score(t)
      /\ Recommendations!Scores[s] = Recommendations!Score(s)
  BY DEF Recommendations!Scores
<1> QED  BY <1>5, <1>6 DEF Recommendations!Before

-----------------------------------------------------------------------------
(* The ranking has every song once.                                         *)

Better(s) == {t \in Songs : Recommendations!Before(Recommendations!Scores, t, s)}

Place(s) == Cardinality(Better(s)) + 1

LEMMA PlacesDiffer ==
  ASSUME Recommendations!RecommendationsAssumption, RecommendationsInv
  PROVE  /\ Cardinality(Songs) \in Nat
         /\ \A s \in Songs : Place(s) \in 1 .. Cardinality(Songs)
         /\ \A s, t \in Songs : Place(s) = Place(t) => s = t
<1> DEFINE B(t, s) == Recommendations!Before(Recommendations!Scores, t, s)
<1>1. IsFiniteSet(Songs) /\ Cardinality(Songs) \in Nat
  BY FS_CardinalityType, RecommendationsCount DEF Recommendations!RecommendationsAssumption
<1>2. /\ \A s \in Songs : Recommendations!Scores[s] \in Nat
      /\ \A s \in Songs : catalogue.created[s] \in Nat
      /\ \A s, t \in Songs : catalogue.created[s] = catalogue.created[t] => s = t
  <2>1. \A s \in Songs : Recommendations!Scores[s] = Recommendations!Score(s)
    BY DEF Recommendations!Scores
  <2>2. catalogue \in Catalogues  BY DEF RecommendationsInv, Recommendations!TypeOK
  <2> QED  BY <2>1, <2>2, ScoreOfMerit DEF Recommendations!RecommendationsAssumption
<1>3. \A s, t \in Songs : s = t \/ B(s, t) \/ B(t, s)
  BY <1>2 DEF Recommendations!Before
<1>4. \A s, t, u \in Songs : B(s, t) /\ B(t, u) => B(s, u)
  BY <1>2 DEF Recommendations!Before
<1>5. \A s \in Songs : ~B(s, s)
  BY <1>2 DEF Recommendations!Before
<1> HIDE DEF B
<1>6. \A s : Better(s) = {t \in Songs : B(t, s)}  BY DEF Better, B
<1>7. \A s : IsFiniteSet(Better(s)) /\ Cardinality(Better(s)) \in Nat
  BY <1>1, <1>6, FS_Subset, FS_CardinalityType
<1>8. ASSUME NEW s \in Songs, NEW t \in Songs, B(s, t)
      PROVE  Cardinality(Better(s)) < Cardinality(Better(t))
  <2>1. Better(s) \cup {s} \subseteq Better(t) /\ s \notin Better(s)
    BY <1>4, <1>5, <1>6, <1>8
  <2>2. Cardinality(Better(s) \cup {s}) = Cardinality(Better(s)) + 1
    BY <1>7, <2>1, FS_AddElement
  <2>3. Cardinality(Better(s) \cup {s}) <= Cardinality(Better(t))  BY <1>7, <2>1, FS_Subset
  <2> QED  BY <1>7, <2>2, <2>3
<1>9. ASSUME NEW s \in Songs, NEW t \in Songs, Place(s) = Place(t) PROVE s = t
  BY <1>3, <1>7, <1>8, <1>9 DEF Place
<1>10. ASSUME NEW s \in Songs PROVE Place(s) \in 1 .. Cardinality(Songs)
  <2>1. Better(s) \subseteq Songs \ {s}  BY <1>5, <1>6
  <2>2. IsFiniteSet(Songs \ {s}) /\ Cardinality(Songs \ {s}) = Cardinality(Songs) - 1
    BY <1>1, FS_RemoveElement
  <2>3. Cardinality(Better(s)) <= Cardinality(Songs \ {s})  BY <2>1, <2>2, FS_Subset
  <2> QED  BY <1>1, <1>7, <2>2, <2>3 DEF Place
<1> QED  BY <1>1, <1>9, <1>10

LEMMA RankedOnce ==
  ASSUME Recommendations!RecommendationsAssumption, RecommendationsInv
  PROVE  /\ Cardinality(Songs) \in Nat
         /\ Recommendations!Ranked \in [1 .. Cardinality(Songs) -> Songs]
         /\ \A i, j \in 1 .. Cardinality(Songs) :
              Recommendations!Ranked[i] = Recommendations!Ranked[j] => i = j
<1> DEFINE n == Cardinality(Songs)
           p == [s \in Songs |-> Place(s)]
           at == [i \in 1 .. n |-> CHOOSE s \in Songs : Place(s) = i]
<1>1. /\ n \in Nat /\ \A s \in Songs : Place(s) \in 1 .. n
      /\ \A s, t \in Songs : Place(s) = Place(t) => s = t
  BY PlacesDiffer
<1>2. \A i \in 1 .. n : \E s \in Songs : Place(s) = i
  <2>1. IsFiniteSet(1 .. n) /\ Cardinality(1 .. n) = n  BY <1>1, FS_Interval
  <2>2. p \in Injection(Songs, 1 .. n)
    BY <1>1 DEF Injection, IsInjective
  <2> HIDE DEF p, n
  <2>3. p \in Surjection(Songs, 1 .. n)
    BY <2>1, <2>2, FS_Injection DEF n
  <2>4. \A i \in 1 .. n : \E s \in Songs : p[s] = i  BY <2>3 DEF Surjection
  <2> QED  BY <2>4 DEF p
<1>3. Recommendations!Ranked = at
  <2>1. \A s : Place(s) =
          Recommendations!Cardinality(
            {t \in Songs : Recommendations!Before(Recommendations!Scores, t, s)}) + 1
    BY RecommendationsCount DEF Place, Better
  <2>2. Recommendations!Cardinality(Songs) = n  BY RecommendationsCount
  <2> HIDE DEF n
  <2> QED  BY <2>1, <2>2 DEF Recommendations!Ranked, Recommendations!RankedBy
<1> HIDE DEF n
<1>4. \A i \in 1 .. n : at[i] \in Songs /\ Place(at[i]) = i  BY <1>2
<1>5. at \in [1 .. n -> Songs]  BY <1>4
<1> HIDE DEF at
<1>6. \A i, j \in 1 .. n : at[i] = at[j] => i = j  BY <1>4
<1> QED  BY <1>1, <1>3, <1>5, <1>6 DEF n

-----------------------------------------------------------------------------
(* Folds over a sequence, one entry after the other.                        *)

LEMMA MaxOfNumbers ==
  ASSUME NEW n \in Nat
  PROVE  /\ \A T \in SUBSET (1 .. n) : T # {} => Recommendations!Max(T) \in T
         /\ \A k \in 1 .. n : /\ Recommendations!Max(1 .. k) = k
                              /\ (1 .. k) \ {k} = 1 .. k - 1
<1>1. ASSUME NEW T \in SUBSET (1 .. n), T # {} PROVE Recommendations!Max(T) \in T
  <2>1. T \in SUBSET (0 .. n)  OBVIOUS
  <2>2. \E x \in T : \A y \in T : x >= y  BY <1>1, <2>1, GreatestNat
  <2> QED  BY <2>2 DEF Recommendations!Max
<1>2. ASSUME NEW k \in 1 .. n PROVE Recommendations!Max(1 .. k) = k
  <2>1. k \in 1 .. k /\ \A y \in 1 .. k : k >= y  OBVIOUS
  <2>2. \A x \in 1 .. k : (\A y \in 1 .. k : x >= y) => x = k  OBVIOUS
  <2> QED  BY <2>1, <2>2 DEF Recommendations!Max
<1> QED  BY <1>1, <1>2

(* Whether an entry is appended depends on it and what is there: Takes says when. *)
Appended(q, s, Takes) == IF <<q, s>> \in Takes THEN Append(q, s) ELSE q

(* A fold's values of the sets of entries, and those after each entry.      *)
FoldOfAppends(h, n, ranked, base, Takes) ==
  /\ h[{}] = base
  /\ \A T \in SUBSET (1 .. n) :
       LET x == Recommendations!Max(T) IN
       T # {} /\ h[T \ {x}] \in Seq(Songs)
         => h[T] = Appended(h[T \ {x}], ranked[x], Takes)

StepsOfAppends(n, ranked, base, Takes) ==
  {c \in [0 .. n -> Seq(Songs)] :
     c[0] = base /\ \A k \in 1 .. n : c[k] = Appended(c[k - 1], ranked[k], Takes)}

LEMMA AppendedTyped ==
  ASSUME NEW q \in Seq(Songs), NEW s \in Songs, NEW Takes
  PROVE  Appended(q, s, Takes) \in Seq(Songs)
BY AppendProperties DEF Appended

LEMMA AppendsExist ==
  ASSUME NEW n \in Nat, NEW ranked \in [1 .. n -> Songs], NEW base \in Seq(Songs), NEW Takes
  PROVE  \E h \in [SUBSET (1 .. n) -> Seq(Songs)] : FoldOfAppends(h, n, ranked, base, Takes)
<1> DEFINE V == Seq(Songs)
           S == 1 .. n
           G == [p \in S \X V |-> Appended(p[2], ranked[p[1]], Takes)]
           pick == [T \in SUBSET S |-> Recommendations!Max(T)]
<1>1. \A T \in SUBSET S : T # {} => pick[T] \in T  BY MaxOfNumbers
<1>2. G \in [S \X V -> V]  BY AppendedTyped
<1>3. IsFiniteSet(S)  BY FS_Interval
<1>4. PICK h : h \in FoldsOver(S, V, base, G, pick)
  <2>1. base \in V  OBVIOUS
  <2> HIDE DEF pick, G, V, S
  <2> QED  BY <1>1, <1>2, <1>3, <2>1, FoldExists
<1>5. /\ h \in [SUBSET S -> V]
      /\ \A T \in SUBSET S : h[T] = IF T = {} THEN base ELSE G[<<pick[T], h[T \ {pick[T]}]>>]
  BY <1>4 DEF FoldsOver
<1>6. ASSUME NEW T \in SUBSET S, T # {}
      PROVE  LET x == Recommendations!Max(T) IN
             h[T] = Appended(h[T \ {x}], ranked[x], Takes)
  <2> DEFINE x == pick[T]
             q == h[T \ {x}]
  <2>1. <<x, q>> \in S \X V
    <3> HIDE DEF G, V
    <3> QED  BY <1>1, <1>5, <1>6
  <2>2. h[T] = G[<<x, q>>]
    <3> HIDE DEF pick, G, V
    <3> QED  BY <1>5, <1>6
  <2>3. x = Recommendations!Max(T)  OBVIOUS
  <2> HIDE DEF x, q
  <2>4. h[T] = Appended(q, ranked[x], Takes)  BY <2>1, <2>2
  <2> QED  BY <2>3, <2>4 DEF q
<1>7. h[{}] = base
  <2> HIDE DEF pick, G, V
  <2> QED  BY <1>5
<1> HIDE DEF pick, G
<1> QED  BY <1>5, <1>6, <1>7 DEF FoldOfAppends

(* What there is after each entry.                                          *)
LEMMA AppendsInSteps ==
  ASSUME NEW n \in Nat, NEW ranked \in [1 .. n -> Songs], NEW base \in Seq(Songs), NEW Takes,
         NEW iter, FoldOfAppends(iter, n, ranked, base, Takes)
  PROVE  \E c \in StepsOfAppends(n, ranked, base, Takes) : c[n] = iter[1 .. n]
<1> DEFINE c == [k \in 0 .. n |-> iter[1 .. k]]
           Good == {k \in Nat : k <= n => c[k] \in Seq(Songs)}
<1>1. c[0] = base /\ c[n] = iter[1 .. n]
  <2>1. 1 .. 0 = {} /\ 0 \in 0 .. n /\ n \in 0 .. n  OBVIOUS
  <2> QED  BY <2>1 DEF FoldOfAppends
<1>2. ASSUME NEW k \in 1 .. n, c[k - 1] \in Seq(Songs)
      PROVE  c[k] = Appended(c[k - 1], ranked[k], Takes)
  <2>1. /\ 1 .. k \in SUBSET (1 .. n) /\ 1 .. k # {}
        /\ c[k] = iter[1 .. k] /\ c[k - 1] = iter[1 .. k - 1]
    <3>1. k \in 0 .. n /\ k - 1 \in 0 .. n /\ 1 \in 1 .. k  OBVIOUS
    <3>2. \A i \in 1 .. k : i \in 1 .. n  OBVIOUS
    <3> QED  BY <3>1, <3>2
  <2>2. Recommendations!Max(1 .. k) = k /\ (1 .. k) \ {k} = 1 .. k - 1  BY MaxOfNumbers
  <2> HIDE DEF c
  <2> QED  BY <1>2, <2>1, <2>2 DEF FoldOfAppends
<1>3. 0 \in Good  BY <1>1
<1>4. ASSUME NEW k \in Nat, k \in Good PROVE k + 1 \in Good
  <2> SUFFICES ASSUME k + 1 <= n PROVE c[k + 1] \in Seq(Songs)
    OBVIOUS
  <2>1. c[k] \in Seq(Songs) /\ k + 1 \in 1 .. n /\ (k + 1) - 1 = k  BY <1>4
  <2>2. Appended(c[k], ranked[k + 1], Takes) \in Seq(Songs)  BY <2>1, AppendedTyped
  <2> HIDE DEF c
  <2> QED  BY <1>2, <2>1, <2>2
<1>5. \A k \in 0 .. n : k \in Good
  <2> HIDE DEF Good
  <2>1. Nat \subseteq Good  BY <1>3, <1>4, AllNumbers
  <2> QED  BY <2>1
<1>6. \A k \in 0 .. n : c[k] \in Seq(Songs)
  <2> HIDE DEF c
  <2> QED  BY <1>5
<1>7. \A k \in 1 .. n : k - 1 \in 0 .. n  OBVIOUS
<1>8. c \in [0 .. n -> Seq(Songs)]
  <2>1. \A k \in 0 .. n : iter[1 .. k] \in Seq(Songs)  BY <1>6
  <2> QED  BY <2>1
<1> HIDE DEF c
<1> QED  BY <1>1, <1>2, <1>6, <1>7, <1>8 DEF StepsOfAppends

(* The first round, song by song.                                           *)
LEMMA CappedInSteps ==
  ASSUME NEW n \in Nat, NEW ranked \in [1 .. n -> Songs]
  PROVE  \E c \in [0 .. n -> Seq(Songs)] :
           /\ c[0] = <<>> /\ Recommendations!Capped(ranked) = c[n]
           /\ \A k \in 1 .. n :
                c[k] = IF Len(c[k - 1]) < Limit /\ Recommendations!Room(c[k - 1], ranked[k])
                         THEN Append(c[k - 1], ranked[k]) ELSE c[k - 1]
<1> DEFINE S == 1 .. n
           Step(q, s) ==
             IF Len(q) < Limit /\ Recommendations!Room(q, s) THEN Append(q, s) ELSE q
           Takes == {p \in Seq(Songs) \X Songs :
                       Len(p[1]) < Limit /\ Recommendations!Room(p[1], p[2])}
           Round(g) ==
             [T \in SUBSET S |->
                IF T = {} THEN <<>>
                ELSE LET x == Recommendations!Max(T) IN Step(g[T \ {x}], ranked[x])]
           iter == CHOOSE g : g = Round(g)
<1>1. \A q \in Seq(Songs), s \in Songs : Appended(q, s, Takes) = Step(q, s)
  BY DEF Appended
<1>2. Recommendations!Capped(ranked) = iter[S]
  <2>1. DOMAIN ranked = S  OBVIOUS
  <2> HIDE DEF S
  <2> QED
    BY <2>1 DEF Recommendations!Capped, Recommendations!FoldLeft, Recommendations!MapThenFoldSet
<1> HIDE DEF Step, Takes
<1>3. \A T \in SUBSET S : T # {} => Recommendations!Max(T) \in S  BY MaxOfNumbers
<1>4. PICK h \in [SUBSET S -> Seq(Songs)] : FoldOfAppends(h, n, ranked, <<>>, Takes)
  BY AppendsExist, EmptySeq
<1>5. h = Round(h)
  <2>1. \A T \in SUBSET S : h[T] = Round(h)[T]
    <3> SUFFICES ASSUME NEW T \in SUBSET S PROVE h[T] = Round(h)[T]
      OBVIOUS
    <3>1. CASE T = {}  BY <1>4, <3>1 DEF FoldOfAppends
    <3>2. CASE T # {}
      <4> DEFINE x == Recommendations!Max(T)
      <4>1. h[T \ {x}] \in Seq(Songs) /\ ranked[x] \in Songs  BY <1>3, <3>2
      <4>2. h[T] = Step(h[T \ {x}], ranked[x])
        BY <1>1, <1>4, <3>2, <4>1 DEF FoldOfAppends
      <4> QED  BY <3>2, <4>2
    <3> QED  BY <3>1, <3>2
  <2>2. DOMAIN h = SUBSET S /\ h = [T \in SUBSET S |-> h[T]]  OBVIOUS
  <2> QED  BY <2>1, <2>2
<1>6. iter = Round(iter)
  <2> HIDE DEF Round
  <2> QED  BY <1>5
<1> HIDE DEF iter
<1>7. iter[{}] = <<>>  BY <1>6
<1>8. ASSUME NEW T \in SUBSET S, T # {}, iter[T \ {Recommendations!Max(T)}] \in Seq(Songs)
      PROVE  LET x == Recommendations!Max(T) IN
             iter[T] = Appended(iter[T \ {x}], ranked[x], Takes)
  <2> DEFINE x == Recommendations!Max(T)
  <2>1. Round(iter)[T] = Step(iter[T \ {x}], ranked[x])  BY <1>8
  <2>2. ranked[x] \in Songs  BY <1>3, <1>8
  <2> HIDE DEF Round
  <2> QED  BY <1>1, <1>6, <1>8, <2>1, <2>2
<1> HIDE DEF Round
<1>9. PICK c \in StepsOfAppends(n, ranked, <<>>, Takes) : c[n] = iter[S]
  <2>1. FoldOfAppends(iter, n, ranked, <<>>, Takes)  BY <1>7, <1>8 DEF FoldOfAppends
  <2>2. <<>> \in Seq(Songs)  BY EmptySeq
  <2>3. \A r \in [1 .. n -> Songs], b \in Seq(Songs) : \A A, i :
          FoldOfAppends(i, n, r, b, A) => \E c \in StepsOfAppends(n, r, b, A) : c[n] = i[1 .. n]
    BY AppendsInSteps
  <2>4. \A b \in Seq(Songs) : \A A, i :
          FoldOfAppends(i, n, ranked, b, A)
            => \E c \in StepsOfAppends(n, ranked, b, A) : c[n] = i[1 .. n]
    BY <2>3
  <2> QED  BY <2>1, <2>2, <2>4
<1>10. \A k \in 1 .. n : c[k] = Step(c[k - 1], ranked[k])
  <2>1. \A k \in 1 .. n : k - 1 \in 0 .. n  OBVIOUS
  <2> QED  BY <1>1, <1>9, <2>1 DEF StepsOfAppends
<1>11. c \in [0 .. n -> Seq(Songs)] /\ c[0] = <<>>  BY DEF StepsOfAppends
<1> QED  BY <1>2, <1>9, <1>10, <1>11 DEF Step

(* The second round, song by song.                                           *)
LEMMA FilledInSteps ==
  ASSUME NEW n \in Nat, NEW ranked \in [1 .. n -> Songs], NEW taken \in Seq(Songs)
  PROVE  \E c \in [0 .. n -> Seq(Songs)] :
           /\ c[0] = taken /\ Recommendations!Filled(taken, ranked) = c[n]
           /\ \A k \in 1 .. n :
                c[k] = IF /\ Len(c[k - 1]) < Limit
                          /\ ~Recommendations!Contains(taken, ranked[k])
                         THEN Append(c[k - 1], ranked[k]) ELSE c[k - 1]
<1> DEFINE S == 1 .. n
           Step(q, s) ==
             IF Len(q) < Limit /\ ~Recommendations!Contains(taken, s) THEN Append(q, s) ELSE q
           Takes == {p \in Seq(Songs) \X Songs :
                       Len(p[1]) < Limit /\ ~Recommendations!Contains(taken, p[2])}
           Round(g) ==
             [T \in SUBSET S |->
                IF T = {} THEN taken
                ELSE LET x == Recommendations!Max(T) IN Step(g[T \ {x}], ranked[x])]
           iter == CHOOSE g : g = Round(g)
<1>1. \A q \in Seq(Songs), s \in Songs : Appended(q, s, Takes) = Step(q, s)
  BY DEF Appended
<1>2. Recommendations!Filled(taken, ranked) = iter[S]
  <2>1. DOMAIN ranked = S  OBVIOUS
  <2> HIDE DEF S
  <2> QED
    BY <2>1 DEF Recommendations!Filled, Recommendations!FoldLeft, Recommendations!MapThenFoldSet
<1> HIDE DEF Step, Takes
<1>3. \A T \in SUBSET S : T # {} => Recommendations!Max(T) \in S  BY MaxOfNumbers
<1>4. PICK h \in [SUBSET S -> Seq(Songs)] : FoldOfAppends(h, n, ranked, taken, Takes)
  BY AppendsExist
<1>5. h = Round(h)
  <2>1. \A T \in SUBSET S : h[T] = Round(h)[T]
    <3> SUFFICES ASSUME NEW T \in SUBSET S PROVE h[T] = Round(h)[T]
      OBVIOUS
    <3>1. CASE T = {}  BY <1>4, <3>1 DEF FoldOfAppends
    <3>2. CASE T # {}
      <4> DEFINE x == Recommendations!Max(T)
      <4>1. h[T \ {x}] \in Seq(Songs) /\ ranked[x] \in Songs  BY <1>3, <3>2
      <4>2. h[T] = Step(h[T \ {x}], ranked[x])
        BY <1>1, <1>4, <3>2, <4>1 DEF FoldOfAppends
      <4> QED  BY <3>2, <4>2
    <3> QED  BY <3>1, <3>2
  <2>2. DOMAIN h = SUBSET S /\ h = [T \in SUBSET S |-> h[T]]  OBVIOUS
  <2> QED  BY <2>1, <2>2
<1>6. iter = Round(iter)
  <2> HIDE DEF Round
  <2> QED  BY <1>5
<1> HIDE DEF iter
<1>7. iter[{}] = taken  BY <1>6
<1>8. ASSUME NEW T \in SUBSET S, T # {}, iter[T \ {Recommendations!Max(T)}] \in Seq(Songs)
      PROVE  LET x == Recommendations!Max(T) IN
             iter[T] = Appended(iter[T \ {x}], ranked[x], Takes)
  <2> DEFINE x == Recommendations!Max(T)
  <2>1. Round(iter)[T] = Step(iter[T \ {x}], ranked[x])  BY <1>8
  <2>2. ranked[x] \in Songs  BY <1>3, <1>8
  <2> HIDE DEF Round
  <2> QED  BY <1>1, <1>6, <1>8, <2>1, <2>2
<1> HIDE DEF Round
<1>9. PICK c \in StepsOfAppends(n, ranked, taken, Takes) : c[n] = iter[S]
  <2>1. FoldOfAppends(iter, n, ranked, taken, Takes)  BY <1>7, <1>8 DEF FoldOfAppends
  <2>2. \A r \in [1 .. n -> Songs], b \in Seq(Songs) : \A A, i :
          FoldOfAppends(i, n, r, b, A) => \E c \in StepsOfAppends(n, r, b, A) : c[n] = i[1 .. n]
    BY AppendsInSteps
  <2> QED  BY <2>1, <2>2
<1>10. \A k \in 1 .. n : c[k] = Step(c[k - 1], ranked[k])
  <2>1. \A k \in 1 .. n : k - 1 \in 0 .. n  OBVIOUS
  <2> QED  BY <1>1, <1>9, <2>1 DEF StepsOfAppends
<1>11. c \in [0 .. n -> Seq(Songs)] /\ c[0] = taken  BY DEF StepsOfAppends
<1> QED  BY <1>2, <1>9, <1>10, <1>11 DEF Step

-----------------------------------------------------------------------------
(* Places in the selection.                                                 *)

(* How many of A are among the first k.                                     *)
Upto(A, k) == Cardinality(A \cap (1 .. k))

LEMMA UptoCounts ==
  ASSUME NEW n \in Nat, NEW A \in SUBSET (1 .. n)
  PROVE  /\ Upto(A, 0) = 0
         /\ \A k \in Nat : Upto(A, k) \in Nat
         /\ \A k \in 1 .. n : Upto(A, k) = IF k \in A THEN Upto(A, k - 1) + 1 ELSE Upto(A, k - 1)
         /\ \A k, l \in Nat : k <= l => Upto(A, k) <= Upto(A, l)
         /\ \A i, j \in A : Upto(A, i) = Upto(A, j) => i = j
<1>1. \A k \in Nat : IsFiniteSet(A \cap (1 .. k)) /\ Upto(A, k) \in Nat
  <2> SUFFICES ASSUME NEW k \in Nat PROVE IsFiniteSet(A \cap (1 .. k)) /\ Upto(A, k) \in Nat
    OBVIOUS
  <2>1. IsFiniteSet(1 .. k)  BY FS_Interval
  <2>2. IsFiniteSet(A \cap (1 .. k))  BY <2>1, FS_Subset
  <2> QED  BY <2>2, FS_CardinalityType DEF Upto
<1>2. Upto(A, 0) = 0
  <2>1. A \cap (1 .. 0) = {}  OBVIOUS
  <2> QED  BY <2>1, FS_EmptySet DEF Upto
<1>3. ASSUME NEW k \in 1 .. n
      PROVE  Upto(A, k) = IF k \in A THEN Upto(A, k - 1) + 1 ELSE Upto(A, k - 1)
  <2> DEFINE B == A \cap (1 .. k - 1)
  <2>1. IsFiniteSet(B) /\ k \notin B  BY <1>1
  <2>2. Cardinality(B \cup {k}) = Cardinality(B) + 1  BY <2>1, FS_AddElement
  <2>3. A \cap (1 .. k) = IF k \in A THEN B \cup {k} ELSE B  OBVIOUS
  <2> QED  BY <2>2, <2>3 DEF Upto
<1>4. ASSUME NEW k \in Nat, NEW l \in Nat, k <= l PROVE Upto(A, k) <= Upto(A, l)
  <2>1. A \cap (1 .. k) \subseteq A \cap (1 .. l)  BY <1>4
  <2> QED  BY <1>1, <2>1, FS_Subset DEF Upto
<1>5. ASSUME NEW i \in A, NEW j \in A, i < j PROVE Upto(A, i) < Upto(A, j)
  <2>1. j \in 1 .. n /\ i \in Nat /\ j - 1 \in Nat /\ i <= j - 1  BY <1>5
  <2>2. Upto(A, j) = Upto(A, j - 1) + 1  BY <1>3, <2>1
  <2>3. Upto(A, i) <= Upto(A, j - 1)  BY <1>4, <2>1
  <2>4. Upto(A, i) \in Nat /\ Upto(A, j - 1) \in Nat  BY <1>1, <2>1
  <2> QED  BY <2>2, <2>3, <2>4
<1>6. ASSUME NEW i \in A, NEW j \in A, Upto(A, i) = Upto(A, j) PROVE i = j
  <2>1. i \in 1 .. n /\ j \in 1 .. n  OBVIOUS
  <2>2. Upto(A, i) \in Nat /\ Upto(A, j) \in Nat
    <3>1. i \in Nat /\ j \in Nat  BY <2>1
    <3> QED  BY <1>1, <3>1
  <2>3. ~(i < j) /\ ~(j < i)  BY <1>5, <1>6, <2>2
  <2> QED  BY <2>1, <2>3
<1> QED  BY <1>1, <1>2, <1>3, <1>4, <1>6

(* The songs of one artist that are within the cap are his first ones: those before *)
(* a song leave it room if they do so without the others.                           *)
LEMMA WithinOfEarlier ==
  ASSUME NEW n \in Nat, NEW ranked \in [1 .. n -> Songs], Cap \in Nat, NEW k \in 1 .. n
  PROVE  LET W == Recommendations!Within(ranked)
             E == Recommendations!Earlier(ranked, k)
         IN /\ IsFiniteSet(E \cap W)
            /\ Cardinality(E \cap W) < Cap <=> k \in W
<1> DEFINE W == Recommendations!Within(ranked)
           E(i) == Recommendations!Earlier(ranked, i)
           same(i, j) == Recommendations!Key(ranked[i]) = Recommendations!Key(ranked[j])
<1>1. W = {i \in 1 .. n : Cardinality(E(i)) < Cap}
  BY RecommendationsCount DEF Recommendations!Within
<1>2. \A i : E(i) = {j \in 1 .. i - 1 : same(j, i)}  BY DEF Recommendations!Earlier
<1> HIDE DEF W, E
<1>3. \A i \in 1 .. n : E(i) \subseteq 1 .. n /\ IsFiniteSet(E(i)) /\ Cardinality(E(i)) \in Nat
  <2> SUFFICES ASSUME NEW i \in 1 .. n
               PROVE  E(i) \subseteq 1 .. n /\ IsFiniteSet(E(i)) /\ Cardinality(E(i)) \in Nat
    OBVIOUS
  <2>1. E(i) \subseteq 1 .. n  BY <1>2
  <2>2. IsFiniteSet(1 .. n)  BY FS_Interval
  <2>3. IsFiniteSet(E(i))  BY <2>1, <2>2, FS_Subset
  <2> QED  BY <2>1, <2>3, FS_CardinalityType
<1>4. /\ IsFiniteSet(E(k) \cap W) /\ Cardinality(E(k) \cap W) \in Nat
      /\ Cardinality(E(k) \cap W) <= Cardinality(E(k))
  BY <1>3, FS_Subset, FS_CardinalityType
<1>5. ASSUME Cardinality(E(k) \cap W) < Cap PROVE E(k) \subseteq W
  <2> SUFFICES ASSUME E(k) \ W # {} PROVE FALSE
    OBVIOUS
  <2>1. E(k) \ W \in SUBSET Nat  BY <1>3
  <2>2. PICK j \in E(k) \ W : \A i \in E(k) \ W : j <= i  BY <2>1, LeastNat
  <2>3. j \in 1 .. n /\ j < k /\ same(j, k)  BY <1>2, <2>2
  <2>4. ASSUME NEW i \in E(j) PROVE i \in E(k) \cap W
    <3>1. i \in 1 .. j - 1 /\ same(i, j)  BY <1>2, <2>4
    <3>2. i \in E(k)  BY <1>2, <2>3, <3>1
    <3>3. i \in Nat /\ j \in Nat /\ i < j  BY <2>3, <3>1
    <3> QED  BY <2>2, <3>2, <3>3
  <2>5. Cardinality(E(j)) <= Cardinality(E(k) \cap W)  BY <1>4, <2>4, FS_Subset
  <2>6. Cardinality(E(j)) < Cap  BY <1>3, <1>4, <1>5, <2>3, <2>5
  <2> QED  BY <1>1, <2>2, <2>3, <2>6
<1>6. ASSUME Cardinality(E(k) \cap W) < Cap PROVE k \in W
  <2>1. E(k) \cap W = E(k)  BY <1>5, <1>6
  <2> QED  BY <1>1, <1>6, <2>1
<1>7. ASSUME k \in W PROVE Cardinality(E(k) \cap W) < Cap
  <2>1. Cardinality(E(k)) < Cap  BY <1>1, <1>7
  <2> QED  BY <1>3, <1>4, <2>1
<1> QED  BY <1>4, <1>6, <1>7 DEF W, E

Least(a, b) == IF a <= b THEN a ELSE b

(* What the first round takes: the first Limit of those within the cap.     *)
LEMMA CappedSelects ==
  ASSUME NEW n \in Nat, NEW ranked \in [1 .. n -> Songs], {Cap, Limit} \subseteq Nat
  PROVE  LET W == Recommendations!Within(ranked)
             taken == Recommendations!Capped(ranked)
         IN /\ taken \in Seq(Songs) /\ Len(taken) = Least(Limit, Upto(W, n))
            /\ \A i \in W : Upto(W, i) <= Limit => taken[Upto(W, i)] = ranked[i]
            /\ \A p \in 1 .. Len(taken) : \E i \in W : p = Upto(W, i)
<1> DEFINE W == Recommendations!Within(ranked)
           w(k) == Upto(W, k)
           E(k) == Recommendations!Earlier(ranked, k)
           Shared(q, s) == {p \in DOMAIN q : Recommendations!Key(q[p]) = Recommendations!Key(s)}
           Taken(q, k) ==
             /\ Len(q) = Least(Limit, w(k))
             /\ \A i \in W : i <= k /\ w(i) <= Limit => q[w(i)] = ranked[i]
             /\ \A p \in 1 .. Len(q) : \E i \in W : i <= k /\ p = w(i)
<1>1. W \in SUBSET (1 .. n) /\ Cap \in Nat /\ Limit \in Nat  BY DEF Recommendations!Within
<1>2. /\ w(0) = 0
      /\ \A k \in Nat : w(k) \in Nat
      /\ \A k \in 1 .. n : w(k) = IF k \in W THEN w(k - 1) + 1 ELSE w(k - 1)
      /\ \A k, l \in Nat : k <= l => w(k) <= w(l)
      /\ \A i, j \in W : w(i) = w(j) => i = j
  BY <1>1, UptoCounts
<1>3. PICK c \in [0 .. n -> Seq(Songs)] :
        /\ c[0] = <<>> /\ Recommendations!Capped(ranked) = c[n]
        /\ \A k \in 1 .. n :
             c[k] = IF Len(c[k - 1]) < Limit /\ Recommendations!Room(c[k - 1], ranked[k])
                      THEN Append(c[k - 1], ranked[k]) ELSE c[k - 1]
  BY CappedInSteps
<1>4. \A q, s : Recommendations!Room(q, s) <=> Cardinality(Shared(q, s)) < Cap
  BY RecommendationsCount DEF Recommendations!Room
<1>5. \A k : E(k) = {j \in 1 .. k - 1 :
                       Recommendations!Key(ranked[j]) = Recommendations!Key(ranked[k])}
  BY DEF Recommendations!Earlier
<1>6. \A k \in 1 .. n : IsFiniteSet(E(k) \cap W) /\ (Cardinality(E(k) \cap W) < Cap <=> k \in W)
  BY <1>1, WithinOfEarlier
<1> HIDE DEF W, w, E
<1>7. \A i \in W : i \in 1 .. n /\ i \in Nat /\ w(i) \in Nat /\ w(i) > 0
  <2> SUFFICES ASSUME NEW i \in W PROVE i \in 1 .. n /\ i \in Nat /\ w(i) \in Nat /\ w(i) > 0
    OBVIOUS
  <2>1. i \in 1 .. n /\ i - 1 \in Nat /\ i \in Nat  BY <1>1
  <2>2. w(i) = w(i - 1) + 1 /\ w(i - 1) \in Nat  BY <1>2, <2>1
  <2> QED  BY <2>1, <2>2
(* Where all so far have their places, there is room for what is within.    *)
<1>8. ASSUME NEW k \in 1 .. n, NEW q \in Seq(Songs), Taken(q, k - 1), Len(q) < Limit
      PROVE  Len(q) = w(k - 1) /\ (Recommendations!Room(q, ranked[k]) <=> k \in W)
  <2>1. k - 1 \in Nat /\ w(k - 1) \in Nat /\ Len(q) = w(k - 1) /\ DOMAIN q = 1 .. Len(q)
    BY <1>1, <1>2, <1>8 DEF Least
  <2>2. \A i \in W : i <= k - 1 => w(i) \in 1 .. Len(q) /\ q[w(i)] = ranked[i]
    <3> SUFFICES ASSUME NEW i \in W, i <= k - 1
                 PROVE  w(i) \in 1 .. Len(q) /\ q[w(i)] = ranked[i]
      OBVIOUS
    <3>1. w(i) <= w(k - 1) /\ w(i) \in Nat /\ w(i) > 0  BY <1>2, <1>7, <2>1
    <3>2. w(i) <= Limit  BY <1>1, <1>8, <2>1, <3>1
    <3> QED  BY <1>8, <2>1, <3>1, <3>2
  <2> DEFINE f == [i \in E(k) \cap W |-> w(i)]
             D == Shared(q, ranked[k])
  <2>3. \A i \in W : i \in E(k) <=>
          /\ i <= k - 1
          /\ Recommendations!Key(ranked[i]) = Recommendations!Key(ranked[k])
    <3>1. \A i \in W : i \in 1 .. k - 1 <=> i <= k - 1  BY <1>7, <2>1
    <3> QED  BY <1>5, <3>1
  <2>4. \A i \in E(k) \cap W : f[i] \in D  BY <2>1, <2>2, <2>3
  <2>5. \A p \in D : \E i \in E(k) \cap W : p = f[i]
    <3> SUFFICES ASSUME NEW p \in D PROVE \E i \in E(k) \cap W : p = f[i]
      OBVIOUS
    <3>1. PICK i \in W : i <= k - 1 /\ p = w(i)  BY <1>8, <2>1
    <3>2. q[p] = ranked[i]  BY <2>2, <3>1
    <3> QED  BY <2>3, <3>1, <3>2
  <2>6. \A i, j \in E(k) \cap W : f[i] = f[j] => i = j  BY <1>2
  <2> HIDE DEF D
  <2>7. f \in Bijection(E(k) \cap W, D)
    <3>1. f \in [E(k) \cap W -> D]  BY <2>4
    <3> QED  BY <2>5, <2>6, <3>1 DEF Bijection, Injection, Surjection, IsInjective
  <2>8. Cardinality(D) = Cardinality(E(k) \cap W)
    <3>1. ExistsBijection(E(k) \cap W, D)  BY <2>7 DEF ExistsBijection
    <3> HIDE DEF f
    <3> QED  BY <1>6, <3>1, FS_Bijection
  <2> QED  BY <1>4, <1>6, <2>1, <2>8 DEF D
<1>9. ASSUME NEW k \in 1 .. n, Taken(c[k - 1], k - 1) PROVE Taken(c[k], k)
  <2> DEFINE q == c[k - 1]
  <2>1. /\ k - 1 \in 0 .. n /\ k - 1 \in Nat /\ k \in Nat /\ q \in Seq(Songs) /\ Len(q) \in Nat
        /\ w(k) \in Nat /\ w(k - 1) \in Nat /\ ranked[k] \in Songs
    <3>1. k - 1 \in 0 .. n /\ k - 1 \in Nat /\ k \in Nat  OBVIOUS
    <3>2. w(k) \in Nat /\ w(k - 1) \in Nat  BY <1>2, <3>1
    <3>3. q \in Seq(Songs)  BY <3>1
    <3> HIDE DEF q
    <3> QED  BY <3>1, <3>2, <3>3
  <2>2. CASE Len(q) < Limit /\ k \in W
    <3>1. /\ c[k] = Append(q, ranked[k]) /\ Len(q) = w(k - 1) /\ w(k) = w(k - 1) + 1
      BY <1>2, <1>3, <1>8, <1>9, <2>1, <2>2
    <3>2. /\ Len(c[k]) = w(k) /\ c[k][w(k)] = ranked[k]
          /\ \A p \in 1 .. Len(q) : c[k][p] = q[p]
      BY <2>1, <3>1, AppendProperties
    <3> HIDE DEF q
    <3>3. Len(c[k]) = Least(Limit, w(k))  BY <1>1, <2>1, <2>2, <3>1, <3>2 DEF Least
    <3>4. ASSUME NEW i \in W, i <= k, w(i) <= Limit PROVE c[k][w(i)] = ranked[i]
      <4>1. CASE i = k  BY <3>2, <4>1
      <4>2. CASE i # k
        <5>1. i <= k - 1 /\ i \in Nat /\ w(i) \in Nat /\ w(i) > 0  BY <1>7, <2>1, <3>4, <4>2
        <5>2. w(i) <= w(k - 1)  BY <1>2, <2>1, <5>1
        <5>3. q[w(i)] = ranked[i]  BY <1>9, <3>4, <5>1 DEF q
        <5> QED  BY <3>1, <3>2, <5>1, <5>2, <5>3, <2>1
      <4> QED  BY <4>1, <4>2
    <3>5. ASSUME NEW p \in 1 .. Len(c[k]) PROVE \E i \in W : i <= k /\ p = w(i)
      <4>1. CASE p = w(k)  BY <2>1, <2>2, <4>1
      <4>2. CASE p # w(k)
        <5>1. p \in 1 .. Len(q)  BY <2>1, <3>1, <3>2, <4>2
        <5>2. PICK i \in W : i <= k - 1 /\ p = w(i)  BY <1>9, <5>1 DEF q
        <5> QED  BY <1>7, <2>1, <5>2
      <4> QED  BY <4>1, <4>2
    <3> QED  BY <3>3, <3>4, <3>5
  <2>3. CASE ~(Len(q) < Limit /\ k \in W)
    <3>1. c[k] = q
      <4>1. Len(q) < Limit => ~Recommendations!Room(q, ranked[k])  BY <1>8, <1>9, <2>1, <2>3
      <4> QED  BY <1>3, <4>1
    <3>2. Len(q) = Least(Limit, w(k - 1))  BY <1>9
    <3>3. Least(Limit, w(k)) = Least(Limit, w(k - 1)) /\ (k \in W => w(k) > Limit)
      <4>1. w(k) = IF k \in W THEN w(k - 1) + 1 ELSE w(k - 1)  BY <1>2
      <4>2. Len(q) < Limit => k \notin W  BY <2>3
      <4>3. ~(Len(q) < Limit) => Limit <= w(k - 1)  BY <1>1, <2>1, <3>2 DEF Least
      <4> HIDE DEF q
      <4> QED  BY <1>1, <2>1, <4>1, <4>2, <4>3 DEF Least
    <3> HIDE DEF q
    <3>4. \A i \in W : i <= k /\ w(i) <= Limit => i <= k - 1  BY <1>7, <2>1, <3>3
    <3>5. \A i \in W : i <= k - 1 => i <= k  BY <1>7, <2>1
    <3> QED  BY <1>9, <3>1, <3>2, <3>3, <3>4, <3>5 DEF q
  <2> QED  BY <2>2, <2>3
<1>10. Taken(c[0], 0)
  <2>1. c[0] = <<>> /\ Len(<<>>) = 0 /\ w(0) = 0  BY <1>2, <1>3
  <2>2. \A i \in W : ~(i <= 0)  BY <1>7
  <2> QED  BY <1>1, <2>1, <2>2 DEF Least
<1> HIDE DEF Taken
<1>11. Taken(c[n], n)
  <2> DEFINE Good == {k \in Nat : k <= n => Taken(c[k], k)}
  <2>1. 0 \in Good  BY <1>10
  <2>2. ASSUME NEW k \in Nat, k \in Good PROVE k + 1 \in Good
    <3> SUFFICES ASSUME k + 1 <= n PROVE Taken(c[k + 1], k + 1)
      OBVIOUS
    <3>1. k + 1 \in 1 .. n /\ (k + 1) - 1 = k /\ Taken(c[k], k)  BY <2>2
    <3> QED  BY <1>9, <3>1
  <2> HIDE DEF Good
  <2>3. n \in Good  BY <2>1, <2>2, AllNumbers
  <2> QED  BY <2>3 DEF Good
<1>12. \A i \in W : i <= n  BY <1>7
<1>13. c[n] \in Seq(Songs)  OBVIOUS
<1> QED  BY <1>3, <1>11, <1>12, <1>13 DEF Taken, W, w

(* The second round takes the others, as far as there is room.              *)
LEMMA FilledSelects ==
  ASSUME NEW n \in Nat, NEW ranked \in [1 .. n -> Songs], {Cap, Limit} \subseteq Nat,
         \A i, j \in 1 .. n : ranked[i] = ranked[j] => i = j
  PROVE  LET W == Recommendations!Within(ranked)
             final == Recommendations!Recommend(ranked)
         IN /\ Len(final) = Least(Limit, n)
            /\ \A i \in W : Upto(W, i) <= Limit => final[Upto(W, i)] = ranked[i]
            /\ \A i \in (1 .. n) \ W :
                 Cardinality(W \cup (1 .. i)) <= Limit
                   => final[Cardinality(W \cup (1 .. i))] = ranked[i]
<1> DEFINE W == Recommendations!Within(ranked)
           taken == Recommendations!Capped(ranked)
           w(k) == Upto(W, k)
           v(k) == Cardinality(W \cup (1 .. k))
           Selected(q, k) ==
             /\ Len(q) = Least(Limit, v(k))
             /\ \A p \in 1 .. Len(taken) : q[p] = taken[p]
             /\ \A i \in (1 .. k) \ W : v(i) <= Limit => q[v(i)] = ranked[i]
<1>1. W \in SUBSET (1 .. n) /\ Limit \in Nat  BY DEF Recommendations!Within
<1>2. /\ taken \in Seq(Songs) /\ Len(taken) = Least(Limit, w(n))
      /\ \A i \in W : w(i) <= Limit => taken[w(i)] = ranked[i]
      /\ \A p \in 1 .. Len(taken) : \E i \in W : p = w(i)
  BY CappedSelects
<1>3. PICK c \in [0 .. n -> Seq(Songs)] :
        /\ c[0] = taken /\ Recommendations!Filled(taken, ranked) = c[n]
        /\ \A k \in 1 .. n :
             c[k] = IF Len(c[k - 1]) < Limit /\ ~Recommendations!Contains(taken, ranked[k])
                      THEN Append(c[k - 1], ranked[k]) ELSE c[k - 1]
  <2>1. taken \in Seq(Songs)  BY <1>2
  <2>2. \A t \in Seq(Songs) : \E c \in [0 .. n -> Seq(Songs)] :
          /\ c[0] = t /\ Recommendations!Filled(t, ranked) = c[n]
          /\ \A k \in 1 .. n :
               c[k] = IF Len(c[k - 1]) < Limit /\ ~Recommendations!Contains(t, ranked[k])
                        THEN Append(c[k - 1], ranked[k]) ELSE c[k - 1]
    BY FilledInSteps
  <2> HIDE DEF taken
  <2> QED  BY <2>1, <2>2
<1>4. Recommendations!Recommend(ranked) = c[n]  BY <1>3 DEF Recommendations!Recommend
<1>5. /\ \A k \in 0 .. n : w(k) \in Nat /\ w(k) <= w(n)
      /\ \A i \in W : w(i) > 0
  <2>1. /\ \A k \in Nat : w(k) \in Nat
        /\ \A k, l \in Nat : k <= l => w(k) <= w(l)
        /\ \A k \in 1 .. n : w(k) = IF k \in W THEN w(k - 1) + 1 ELSE w(k - 1)
    <3>1. \A A \in SUBSET (1 .. n) :
            /\ \A k \in Nat : Upto(A, k) \in Nat
            /\ \A k, l \in Nat : k <= l => Upto(A, k) <= Upto(A, l)
            /\ \A k \in 1 .. n :
                 Upto(A, k) = IF k \in A THEN Upto(A, k - 1) + 1 ELSE Upto(A, k - 1)
      BY UptoCounts
    <3> HIDE DEF W
    <3> QED  BY <1>1, <3>1
  <2>2. \A k \in 0 .. n : k \in Nat /\ k <= n  OBVIOUS
  <2>3. \A i \in W : i \in 1 .. n /\ i - 1 \in Nat  BY <1>1
  <2> HIDE DEF w, W
  <2>4. \A k \in 0 .. n : w(k) \in Nat /\ w(k) <= w(n)  BY <2>1, <2>2
  <2>5. ASSUME NEW i \in W PROVE w(i) > 0
    <3>1. w(i) = w(i - 1) + 1 /\ w(i - 1) \in Nat  BY <2>1, <2>3
    <3> QED  BY <3>1
  <2> QED  BY <2>4, <2>5
<1>6. /\ v(0) = w(n) /\ v(n) = n
      /\ \A k \in 0 .. n : v(k) \in Nat /\ w(n) <= v(k)
      /\ \A k \in 1 .. n : v(k) = IF k \in W THEN v(k - 1) ELSE v(k - 1) + 1
      /\ \A k, l \in 0 .. n : k <= l => v(k) <= v(l)
  <2>1. W \cup (1 .. 0) = W \cap (1 .. n) /\ W \cup (1 .. n) = 1 .. n
    BY <1>1
  <2>2. v(0) = w(n) /\ v(n) = n
    <3>1. Cardinality(1 .. n) = n  BY FS_Interval
    <3> QED  BY <2>1, <3>1 DEF Upto
  <2>3. ASSUME NEW k \in 0 .. n
        PROVE  IsFiniteSet(W \cup (1 .. k)) /\ v(k) \in Nat /\ w(n) <= v(k)
    <3>1. W \cup (1 .. k) \subseteq 1 .. n /\ W \cap (1 .. n) \subseteq W \cup (1 .. k)  BY <1>1
    <3>2. IsFiniteSet(1 .. n)  BY FS_Interval
    <3>3. IsFiniteSet(W \cup (1 .. k))  BY <3>1, <3>2, FS_Subset
    <3>4. v(k) \in Nat  BY <3>3, FS_CardinalityType
    <3>5. w(n) <= v(k)  BY <3>1, <3>3, FS_Subset DEF Upto
    <3> QED  BY <3>3, <3>4, <3>5
  <2>4. ASSUME NEW k \in 1 .. n PROVE v(k) = IF k \in W THEN v(k - 1) ELSE v(k - 1) + 1
    <3> DEFINE B == W \cup (1 .. k - 1)
    <3>1. k - 1 \in 0 .. n /\ W \cup (1 .. k) = B \cup {k} /\ (k \in B <=> k \in W)  OBVIOUS
    <3>2. IsFiniteSet(B)  BY <2>3, <3>1
    <3>3. Cardinality(B \cup {k}) = IF k \in B THEN Cardinality(B) ELSE Cardinality(B) + 1
      BY <3>2, FS_AddElement
    <3> QED  BY <3>1, <3>3
  <2>5. ASSUME NEW k \in 0 .. n, NEW l \in 0 .. n, k <= l PROVE v(k) <= v(l)
    <3>1. W \cup (1 .. k) \subseteq W \cup (1 .. l)  BY <2>5
    <3> QED  BY <2>3, <3>1, FS_Subset
  <2> QED  BY <2>2, <2>3, <2>4, <2>5
<1> HIDE DEF W, w, v, taken
<1>7. ASSUME NEW k \in 1 .. n, Len(taken) < Limit
      PROVE  Recommendations!Contains(taken, ranked[k]) <=> k \in W
  <2>1. Len(taken) = w(n) /\ w(n) \in Nat /\ w(k) \in Nat /\ w(k) <= w(n)
    BY <1>1, <1>2, <1>5, <1>7 DEF Least
  <2>2. ASSUME k \in W PROVE Recommendations!Contains(taken, ranked[k])
    <3>1. w(k) \in 1 .. Len(taken) /\ w(k) <= Limit  BY <1>1, <1>5, <1>7, <2>1, <2>2
    <3>2. taken[w(k)] = ranked[k]  BY <1>2, <2>2, <3>1
    <3> QED  BY <3>1, <3>2 DEF Recommendations!Contains
  <2>3. ASSUME Recommendations!Contains(taken, ranked[k]) PROVE k \in W
    <3>1. PICK p \in 1 .. Len(taken) : taken[p] = ranked[k]
      BY <2>3 DEF Recommendations!Contains
    <3>2. PICK i \in W : p = w(i)  BY <1>2
    <3>3. w(i) <= Limit  BY <1>1, <1>7, <2>1, <3>1, <3>2
    <3>4. ranked[i] = ranked[k] /\ i \in 1 .. n  BY <1>1, <1>2, <3>1, <3>2, <3>3
    <3> QED  BY <3>2, <3>4
  <2> QED  BY <2>2, <2>3
<1>8. Selected(c[0], 0)
  <2>1. Len(c[0]) = Least(Limit, v(0))  BY <1>2, <1>3, <1>6
  <2>2. (1 .. 0) \ W = {}  OBVIOUS
  <2> QED  BY <1>3, <2>1, <2>2
<1>9. ASSUME NEW k \in 1 .. n, Selected(c[k - 1], k - 1) PROVE Selected(c[k], k)
  <2> DEFINE q == c[k - 1]
  <2>1. /\ k - 1 \in 0 .. n /\ k \in 0 .. n /\ k \in Nat /\ q \in Seq(Songs) /\ Len(q) \in Nat
        /\ Len(taken) \in Nat /\ ranked[k] \in Songs
    <3>1. k - 1 \in 0 .. n /\ k \in 0 .. n /\ k \in Nat  OBVIOUS
    <3>2. q \in Seq(Songs)  BY <3>1
    <3> HIDE DEF q
    <3> QED  BY <1>2, <3>1, <3>2
  <2>2. /\ v(k) \in Nat /\ v(k - 1) \in Nat /\ w(n) \in Nat /\ w(n) <= v(k - 1)
        /\ v(k) = IF k \in W THEN v(k - 1) ELSE v(k - 1) + 1
    BY <1>6, <2>1
  <2>3. Len(q) = Least(Limit, v(k - 1)) /\ Len(taken) <= Len(q)
    <3>1. Len(q) = Least(Limit, v(k - 1))  BY <1>9
    <3> HIDE DEF q
    <3> QED  BY <1>1, <1>2, <2>1, <2>2, <3>1 DEF Least
  <2>4. c[k] = IF Len(q) < Limit /\ k \notin W THEN Append(q, ranked[k]) ELSE q
    <3>1. Len(q) < Limit => Len(taken) < Limit  BY <1>1, <2>1, <2>3
    <3> QED  BY <1>3, <1>7, <3>1
  <2>5. /\ \A p \in 1 .. Len(taken) : q[p] = taken[p]
        /\ \A i \in (1 .. k - 1) \ W : v(i) <= Limit => q[v(i)] = ranked[i]
    BY <1>9
  <2> HIDE DEF q
  <2>6. \A i \in (1 .. k) \ W : i = k \/ i \in (1 .. k - 1) \ W  BY <2>1
  <2>7. CASE Len(q) < Limit /\ k \notin W
    <3>1. Len(q) = v(k - 1) /\ v(k) = v(k - 1) + 1  BY <1>1, <2>2, <2>3, <2>7 DEF Least
    <3>2. /\ Len(c[k]) = v(k) /\ c[k][v(k)] = ranked[k]
          /\ \A p \in 1 .. Len(q) : c[k][p] = q[p]
      BY <2>1, <2>4, <2>7, <3>1, AppendProperties
    <3>3. Len(c[k]) = Least(Limit, v(k))  BY <1>1, <2>1, <2>2, <2>7, <3>1, <3>2 DEF Least
    <3>4. \A p \in 1 .. Len(taken) : c[k][p] = taken[p]  BY <2>1, <2>3, <2>5, <3>2
    <3>5. ASSUME NEW i \in (1 .. k - 1) \ W PROVE c[k][v(i)] = ranked[i]
      <4>1. /\ i \in 1 .. n /\ i \in 0 .. n /\ i - 1 \in 0 .. n /\ i <= k - 1 /\ i \notin W
        BY <2>1
      <4>2. v(i) \in Nat /\ v(i - 1) \in Nat /\ v(i) = v(i - 1) + 1 /\ v(i) <= v(k - 1)
        BY <1>6, <2>1, <4>1
      <4>3. v(i) \in 1 .. Len(q)  BY <2>1, <3>1, <4>2
      <4>4. v(i) <= Limit  BY <1>1, <2>1, <2>7, <4>2, <4>3
      <4> QED  BY <2>5, <3>2, <4>3, <4>4
    <3> QED  BY <2>6, <3>2, <3>3, <3>4, <3>5
  <2>8. CASE ~(Len(q) < Limit /\ k \notin W)
    <3>1. c[k] = q  BY <2>4, <2>8
    <3>2. Least(Limit, v(k)) = Least(Limit, v(k - 1)) /\ (k \notin W => v(k) > Limit)
      <4>1. CASE k \in W  BY <2>2, <4>1
      <4>2. CASE k \notin W
        <5>1. ~(Len(q) < Limit) /\ v(k) = v(k - 1) + 1  BY <2>2, <2>8, <4>2
        <5>2. Limit <= v(k - 1)  BY <1>1, <2>1, <2>2, <2>3, <5>1 DEF Least
        <5> QED  BY <1>1, <2>2, <5>1, <5>2 DEF Least
      <4> QED  BY <4>1, <4>2
    <3> QED  BY <1>1, <2>2, <2>3, <2>5, <2>6, <3>1, <3>2
  <2> QED  BY <2>7, <2>8
<1> HIDE DEF Selected
<1>10. Selected(c[n], n)
  <2> DEFINE Good == {k \in Nat : k <= n => Selected(c[k], k)}
  <2>1. 0 \in Good  BY <1>8
  <2>2. ASSUME NEW k \in Nat, k \in Good PROVE k + 1 \in Good
    <3> SUFFICES ASSUME k + 1 <= n PROVE Selected(c[k + 1], k + 1)
      OBVIOUS
    <3>1. k + 1 \in 1 .. n /\ (k + 1) - 1 = k /\ Selected(c[k], k)  BY <2>2
    <3> QED  BY <1>9, <3>1
  <2> HIDE DEF Good
  <2>3. n \in Good  BY <2>1, <2>2, AllNumbers
  <2> QED  BY <2>3 DEF Good
<1>11. Len(c[n]) = Least(Limit, n)  BY <1>6, <1>10 DEF Selected
<1>12. ASSUME NEW i \in W, w(i) <= Limit PROVE c[n][w(i)] = ranked[i]
  <2>1. i \in 0 .. n /\ n \in 0 .. n  BY <1>1
  <2>2. w(i) \in Nat /\ w(i) > 0 /\ w(i) <= w(n) /\ w(n) \in Nat  BY <1>5, <2>1
  <2>3. w(i) \in 1 .. Len(taken)  BY <1>1, <1>2, <1>12, <2>2 DEF Least
  <2>4. c[n][w(i)] = taken[w(i)]  BY <1>10, <2>3 DEF Selected
  <2> QED  BY <1>2, <1>12, <2>4
<1>13. \A i \in (1 .. n) \ W : v(i) <= Limit => c[n][v(i)] = ranked[i]  BY <1>10 DEF Selected
<1> QED  BY <1>4, <1>11, <1>12, <1>13 DEF W, w, v

(* What is recommended is what the two rounds stand for.                    *)
LEMMA SelectionInOrder ==
  ASSUME Recommendations!RecommendationsAssumption, RecommendationsInv
  PROVE  Recommendations!SelectionIsCapped
<1> DEFINE n == Cardinality(Songs)
           R == Recommendations!Ranked
           W == Recommendations!Within(R)
           final == Recommendations!Recommend(R)
           place(i) == Recommendations!Cardinality(Recommendations!Preceding(R, i))
<1>1. n \in Nat /\ R \in [1 .. n -> Songs] /\ \A i, j \in 1 .. n : R[i] = R[j] => i = j
  BY RankedOnce
<1> HIDE DEF n, R
<1>2. {Cap, Limit} \subseteq Nat  BY DEF Recommendations!RecommendationsAssumption
<1>3. /\ Len(final) = Least(Limit, n)
      /\ \A i \in W : Upto(W, i) <= Limit => final[Upto(W, i)] = R[i]
      /\ \A i \in (1 .. n) \ W :
           Cardinality(W \cup (1 .. i)) <= Limit => final[Cardinality(W \cup (1 .. i))] = R[i]
  BY <1>1, <1>2, FilledSelects
<1>4. DOMAIN R = 1 .. n /\ Len(R) = n  BY <1>1, LenProperties
<1>5. \A i \in 1 .. n : place(i) = IF i \in W THEN Upto(W, i) ELSE Cardinality(W \cup (1 .. i))
  <2>1. ASSUME NEW i \in W PROVE {j \in W : j <= i} = W \cap (1 .. i)
    <3>1. W \subseteq 1 .. n  BY <1>4 DEF Recommendations!Within
    <3> HIDE DEF W
    <3>2. \A j \in W : j <= i <=> j \in 1 .. i
      <4>1. \A j \in W : j \in 1 .. n  BY <3>1
      <4> QED  BY <4>1
    <3> QED  BY <3>2
  <2> QED  BY <2>1, RecommendationsCount DEF Recommendations!Preceding, Upto
<1>6. Len(final) = IF Limit < Len(R) THEN Limit ELSE Len(R)
  <2> HIDE DEF final
  <2> QED  BY <1>1, <1>2, <1>3, <1>4 DEF Least
<1> HIDE DEF W, final, place
<1>7. \A i \in DOMAIN R : place(i) <= Limit => final[place(i)] = R[i]  BY <1>3, <1>4, <1>5
<1> QED  BY <1>6, <1>7 DEF Recommendations!SelectionIsCapped, final, place, R

-----------------------------------------------------------------------------
(* The specifications together.                                             *)

IInv == CategoryInv /\ LibraryInv /\ AdminInv /\ FolderInv

LEMMA IInvAlways == Spec => []IInv
<1>1. Init => IInv
  BY CategoryBegins, LibraryBegins, AdminBegins, FolderBegins DEF Init, IInv
<1>2. IInv /\ [Next]_vars => IInv'
  <2> SUFFICES ASSUME IInv, [Next]_vars PROVE IInv'
    OBVIOUS
  <2>1. Categories!Next \/ UNCHANGED categoriesVars  BY DEF Next, vars
  <2>2. Library!Next \/ UNCHANGED libraryVars  BY DEF Next, vars
  <2>3. AdminPage!Next \/ UNCHANGED adminVars  BY DEF Next, vars
  <2>4. FolderUpload!Next \/ UNCHANGED folderVars  BY DEF Next, vars
  <2>5. CategoryInv'  BY <2>1, CategoryKeeps, CategoryRests DEF IInv
  <2>6. LibraryInv'  BY <2>2, LibraryKeeps, LibraryRests DEF IInv
  <2>7. AdminInv'  BY <2>3, AdminKeeps, AdminRests DEF IInv
  <2>8. FolderInv'  BY <2>4, FolderKeeps, FolderRests DEF IInv
  <2> QED  BY <2>5, <2>6, <2>7, <2>8 DEF IInv
<1> QED  BY <1>1, <1>2, PTL DEF Spec

LEMMA LibraryAlways == Spec => []LibraryInv
<1>1. Init => LibraryInv  BY LibraryBegins DEF Init
<1>2. LibraryInv /\ [Next]_vars => LibraryInv'
  <2> SUFFICES ASSUME LibraryInv, [Next]_vars PROVE LibraryInv'
    OBVIOUS
  <2>1. Library!Next \/ UNCHANGED libraryVars  BY DEF Next, vars
  <2> QED  BY <2>1, LibraryKeeps, LibraryRests
<1> QED  BY <1>1, <1>2, PTL DEF Spec

(* UpdateCategory, scanner.go beside UpdateSongMeta and DeleteMissing, and the lists *)
(* and the folder form of admin.js: a category's songs exist and are those of one    *)
(* save with what was assigned since, but for songs of two saves that ran side by    *)
(* side, one of them without a name; artists and albums have one row each, and what  *)
(* rows say in names and in ids agrees; the page has one list at most, that of its   *)
(* tab; a folder left alone is sent whole, once.                                     *)
THEOREM SongListsSound == Spec => []Sound
<1>1. IInv => Sound
  <2> SUFFICES ASSUME IInv PROVE Sound
    OBVIOUS
  <2>1. Categories!Sound  BY CategoriesAreSound DEF IInv
  <2>2. Library!Sound  BY DEF IInv, LibraryInv
  <2>3. AdminPage!Sound  BY DEF IInv, AdminInv
  <2>4. FolderUpload!Sound  BY FolderIsSound DEF IInv
  <2> QED  BY <2>1, <2>2, <2>3, <2>4 DEF Sound
<1> QED  BY <1>1, IInvAlways, PTL

(* DeleteMissing (songs.go), whatever is indexed and renamed meanwhile: a song that *)
(* stays loses its album or its artist only if it was written while that ran.       *)
THEOREM PruningKeepsAlbums == Spec => KeepsAlbums
<1>1. LibraryInv /\ [Next]_vars =>
        [Library!PruneCommit =>
           \A p \in Library!Present \cap Library!Present' :
             librarySongs[p].album # librarySongs'[p].album
               \/ librarySongs[p].artist # librarySongs'[p].artist => p \in written]_(Library!vars)
  BY PruneSpares
<1> QED  BY <1>1, LibraryAlways, PTL DEF Spec, KeepsAlbums, Library!KeepsAlbums

(* DeleteMissing that met no other write: what stays is an album with a song, whose *)
(* artist stays too, or an artist with a song or an album.                          *)
THEOREM PruningTakesOrphans == Spec => PrunesOrphans
<1>1. LibraryInv /\ [Next]_vars =>
        [Library!PruneCommit /\ written = {} =>
           /\ \A i \in Library!Albums' :
                /\ \E p \in Library!Present' : librarySongs'[p].album = i
                /\ albums[i].artist \in Library!Artists => albums[i].artist \in Library!Artists'
           /\ \A i \in Library!Artists' :
                \/ \E p \in Library!Present' : librarySongs'[p].artist = i
                \/ \E a \in Library!Albums' : albums'[a].artist = i]_(Library!vars)
  BY PruneLeaves
<1> QED  BY <1>1, LibraryAlways, PTL DEF Spec, PrunesOrphans, Library!PrunesOrphans

(* RecommendSongs: a signal of a song moves only songs with something in common with *)
(* it; any two others keep their order, whatever catalogue, weights and signals are. *)
THEOREM OthersKeepTheirOrder == Spec => OthersKeepOrder
<1>1. Init => RecommendationsInv  BY SongListsAssumption, RecommendationsBegin DEF Init
<1>2. [Next]_vars => Recommendations!Next \/ UNCHANGED recommendationsVars  BY DEF Next, vars
<1>3. RecommendationsInv /\ [Next]_vars => RecommendationsInv'
  BY <1>2, SongListsAssumption, RecommendationsKeep
<1>4. RecommendationsInv /\ [Next]_vars =>
        [\A s \in Songs :
           plays[s] # plays'[s] \/ likes[s] # likes'[s] =>
             \A before \in {Recommendations!Order}, after \in {Recommendations!Order'} :
               LET others == {t \in Songs : ~Recommendations!Common(s, t)} IN
               before \cap (others \X others) = after \cap (others \X others)
        ]_(Recommendations!vars)
  BY <1>2, SongListsAssumption, OrderStays
<1> QED
  BY <1>1, <1>3, <1>4, PTL DEF Spec, OthersKeepOrder, Recommendations!OthersKeepOrder

(* RecommendSongs, for every catalogue and all signals and weights: of the ranking, the *)
(* songs that are among the first Cap of their artist are selected first, then the      *)
(* others, in its order and cut off at Limit; and of two songs that have the same, the  *)
(* one heard this week is ranked after the other.                                       *)
THEOREM RankingIsSound == Spec => []RankingSound
<1>1. Init => RecommendationsInv  BY SongListsAssumption, RecommendationsBegin DEF Init
<1>2. [Next]_vars => Recommendations!Next \/ UNCHANGED recommendationsVars  BY DEF Next, vars
<1>3. RecommendationsInv /\ [Next]_vars => RecommendationsInv'
  BY <1>2, SongListsAssumption, RecommendationsKeep
<1>4. RecommendationsInv => RankingSound
  <2> SUFFICES ASSUME RecommendationsInv PROVE RankingSound
    OBVIOUS
  <2>1. Recommendations!RecommendationsAssumption  BY SongListsAssumption
  <2>2. Recommendations!SelectionIsCapped  BY <2>1, SelectionInOrder
  <2>3. Recommendations!HeardComeLater  BY <2>1, TwinsInOrder
  <2>4. Recommendations!TypeOK  BY DEF RecommendationsInv
  <2> QED  BY <2>2, <2>3, <2>4 DEF RankingSound, Recommendations!Sound
<1> QED  BY <1>1, <1>3, <1>4, PTL DEF Spec

=============================================================================
