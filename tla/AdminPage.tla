------------------------------- MODULE AdminPage -------------------------------
(*******************************************************************************)
(* The lists of the administration page (web/assets/admin.js): a tab, a save   *)
(* or a redraw of the application starts a refresh, and answers come in any    *)
(* order.  A list is known by the revision of the database it was read at.     *)
(*******************************************************************************)
EXTENDS Naturals, Sequences

CONSTANTS
  Tabs, UsersTab,       \* the users' tab asks for two lists
  Rows, Empty,          \* lists that came, and the one a failure is replaced by
  MaxRevision, MaxFlying   \* bounds

AdminPageAssumption == UsersTab \in Tabs /\ Rows # Empty /\ {MaxRevision, MaxFlying} \subseteq Nat

VARIABLES
  tab,        \* adminTab
  shown,      \* the lists in wrap, in order
  categories, \* adminState.categories, which the upload forms offer
  flying,     \* refreshes without an answer, the oldest first; the last has adminRefreshSeq
  saving,     \* revisions of saves without an answer, 0 before the server's commit
  revision,   \* of the database
  answered    \* the last revision of a save the page has the answer to

vars == <<tab, shown, categories, flying, saving, revision, answered>>

List == [tab : Tabs, rows : {Rows, Empty}, revision : 0..MaxRevision]
Refresh == [tab : Tabs, current : BOOLEAN, asked : 0..MaxRevision]

(* Mistake: the refreshes before it stay current.                           *)
OutdatedNone == flying

(* ++adminRefreshSeq.                                                       *)
Outdated == [i \in DOMAIN flying |-> [flying[i] EXCEPT !.current = FALSE]]

(* refresh, in the wrap that is there or in that of a new page.             *)
Refreshes(t) ==
  /\ Len(flying) < MaxFlying
  /\ shown' = <<>>
  /\ flying' = Append(Outdated, [tab |-> t, current |-> TRUE, asked |-> revision])

ClickTab(t) ==
  /\ tab' = t /\ Refreshes(t)
  /\ UNCHANGED <<categories, saving, revision, answered>>

(* renderAdmin, on pm:rerender or a visit.                                  *)
RenderAdmin ==
  /\ Refreshes(tab)
  /\ UNCHANGED <<tab, categories, saving, revision, answered>>

(* The list of a request was read at some time since it was sent; one that  *)
(* fails becomes an empty list.                                             *)
Lists(r) == {[tab |-> r.tab, rows |-> Rows, revision |-> v] : v \in r.asked..revision}
              \cup {[tab |-> r.tab, rows |-> Empty, revision |-> revision]}

(* The end of renderUsers, renderCategories and renderSongs.                *)
Arrive(i) ==
  LET r == flying[i]
  IN /\ \E list, cats \in Lists(r) :
          /\ r.tab # UsersTab => cats = list
          /\ IF r.current THEN shown' = Append(shown, list) /\ categories' = cats
                          ELSE UNCHANGED <<shown, categories>>
     /\ flying' = SubSeq(flying, 1, i - 1) \o SubSeq(flying, i + 1, Len(flying))
     /\ UNCHANGED <<tab, saving, revision, answered>>

-----------------------------------------------------------------------------
(* The forms' requests, one at a time.                                      *)

Save ==
  /\ saving = <<>>
  /\ saving' = <<0>>
  /\ UNCHANGED <<tab, shown, categories, flying, revision, answered>>

Committed ==
  /\ saving = <<0>> /\ revision < MaxRevision
  /\ revision' = revision + 1 /\ saving' = <<revision + 1>>
  /\ UNCHANGED <<tab, shown, categories, flying, answered>>

(* refreshApp.                                                              *)
Saved ==
  /\ saving # <<>> /\ saving # <<0>>
  /\ answered' = saving[1] /\ saving' = <<>>
  /\ Refreshes(tab)
  /\ UNCHANGED <<tab, categories, revision>>

(* An error, also of a request that was carried out.                        *)
SaveFails ==
  /\ saving # <<>>
  /\ saving' = <<>>
  /\ UNCHANGED <<tab, shown, categories, flying, revision, answered>>

(* Another administrator, an upload or a scan.                              *)
OthersSave ==
  /\ revision < MaxRevision
  /\ revision' = revision + 1
  /\ UNCHANGED <<tab, shown, categories, flying, saving, answered>>

-----------------------------------------------------------------------------
Init ==
  /\ tab = UsersTab /\ shown = <<>>
  /\ categories = [tab |-> UsersTab, rows |-> Empty, revision |-> 0]
  /\ flying = <<[tab |-> UsersTab, current |-> TRUE, asked |-> 0]>>
  /\ saving = <<>> /\ revision = 0 /\ answered = 0

Next ==
  \/ \E t \in Tabs : ClickTab(t)
  \/ RenderAdmin
  \/ \E i \in DOMAIN flying : Arrive(i)
  \/ Save \/ Committed \/ Saved \/ SaveFails \/ OthersSave

Spec == Init /\ [][Next]_vars

-----------------------------------------------------------------------------
(* Properties.                                                              *)

TypeOK ==
  /\ tab \in Tabs /\ categories \in List
  /\ shown \in Seq(List) /\ flying \in Seq(Refresh)
  /\ saving \in {<<>>} \cup {<<v>> : v \in 0..MaxRevision}
  /\ revision \in 0..MaxRevision /\ answered \in 0..revision

(* In whatever order answers come, the page has one list at most, that of the tab   *)
(* that is active, and none while its refresh is on its way (admin.js:8, "respostas *)
(* de requisições antigas (troca rápida de abas) são descartadas").                 *)
OneListOfTheTab ==
  /\ Len(shown) <= 1 /\ \A i \in DOMAIN shown : shown[i].tab = tab
  /\ shown = <<>> <=> \E i \in DOMAIN flying : flying[i].current

(* A list, and with it the categories the upload forms offer, is not older than the *)
(* last save the page knows of.                                                     *)
ShowsOwnSaves == shown # <<>> => shown[1].revision >= answered /\ categories.revision >= answered

Sound == TypeOK /\ OneListOfTheTab /\ ShowsOwnSaves

=============================================================================
