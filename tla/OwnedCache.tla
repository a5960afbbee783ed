------------------------------ MODULE OwnedCache ------------------------------
(*******************************************************************************)
(* What setAuth (web/assets/app.js) promises of a tab's caches: whoever is     *)
(* signed in starts with none and only comes to have his own.  Session is      *)
(* shown to implement it.                                                      *)
(*******************************************************************************)
CONSTANTS Tabs, Users, None

OwnedCacheAssumption == None \notin Users

VARIABLES
  user,   \* user[t]: who is signed in in a tab, or None
  cache   \* cache[t]: whose data the tab has

(* A change of user in a tab; a page that is loaded anew has nobody at first. *)
Change(t, u) ==
  /\ u # user[t]
  /\ user' = [user EXCEPT ![t] = u]
  /\ cache' = [cache EXCEPT ![t] = {}]

(* Data comes or goes.                                                      *)
Fill(t) ==
  /\ \E c \in SUBSET ({user[t]} \ {None}) : cache' = [cache EXCEPT ![t] = c]
  /\ UNCHANGED user

Init ==
  /\ user = [t \in Tabs |-> None]
  /\ cache = [t \in Tabs |-> {}]

Next == \E t \in Tabs : Fill(t) \/ \E u \in Users \cup {None} : Change(t, u)

Spec == Init /\ [][Next]_<<user, cache>>

=============================================================================
