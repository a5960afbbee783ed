-------------------------------- MODULE Session --------------------------------
(*******************************************************************************)
(* The session of the browser client (web/assets/app.js and api.js): a token   *)
(* in localStorage, which all tabs share, and in every tab the signed-in user  *)
(* with what was fetched for him.  Answers come in any order and may be for a  *)
(* session that is over.                                                       *)
(*                                                                             *)
(* What an answer holds matters only by whose it is: the owner of the token it *)
(* was asked with.  sessionEpoch and searchSeq only serve to compare an answer *)
(* with what happened since, so a request carries the outcome: same (the epoch *)
(* is the request's), latest (so is the sequence number) and box (the element  *)
(* it will fill is still on the page).                                         *)
(*******************************************************************************)
EXTENDS Naturals, FiniteSets

CONSTANTS
  Tabs, Users, Queries,
  MaxTokens,     \* bound: tokens of one user that are held somewhere
  MaxRequests,   \* bound: requests under way
  None,          \* nobody, nothing fetched, no query
  Nobody         \* an empty list

VARIABLES
  token,     \* pm_token
  expired,   \* tokens the server refuses
  tab,       \* auth, playlistsCache, libData, ... of every tab
  requests   \* fetches under way

vars == <<token, expired, tab, requests>>

Token == [user : Users, n : 1 .. MaxTokens]
Results == [query : Queries, owner : Users]
Owner == Users \cup {None, Nobody}

SessionAssumption ==
  /\ {None, Nobody} \cap (Users \cup Queries \cup Token \cup Results) = {} /\ None # Nobody
  /\ MaxTokens \in Nat \ {0} /\ MaxRequests \in Nat

Tab == [user : Users \cup {None}, loading : BOOLEAN, at : {"home", "library", "search"},
        playlists : Users \cup {Nobody}, library : Owner, libLoading : BOOLEAN, queue : Owner,
        typed : Queries \cup {None}, query : Queries \cup {None},
        results : Results \cup {None}, shown : Results \cup {None}]

Request == [tab : Tabs, token : Token \cup {None},
            kind : {"me", "login", "playlists", "library", "search", "other"},
            for : Users \cup Queries \cup {None},
            same : BOOLEAN, latest : BOOLEAN, box : BOOLEAN]

Loaded == [user |-> None, loading |-> FALSE, at |-> "home", playlists |-> Nobody, library |-> None,
             libLoading |-> FALSE, queue |-> None, typed |-> None, query |-> None,
             results |-> None, shown |-> None]

NewRequest(t, kind, for, tok) ==
  [tab |-> t, token |-> tok, kind |-> kind, for |-> for,
   same |-> TRUE, latest |-> kind = "search", box |-> kind = "search"]

-----------------------------------------------------------------------------
(* The page.                                                                *)

(* render: the library is fetched when it is not there; the search page comes *)
(* back with the results it has, or searches again.                           *)
LoadsLibrary(s) == s.user # None /\ s.at = "library" /\ s.library = None /\ ~s.libLoading

SearchesAgain(s) == s.user # None /\ s.at = "search" /\ s.query # None /\ s.results = None

Render(s) ==
  [s EXCEPT !.libLoading = @ \/ LoadsLibrary(s),
            !.shown = IF s.user # None /\ s.at = "search" /\ s.query # None THEN s.results ELSE None]

RenderRequests(t, s, tok) ==
  {r \in {NewRequest(t, "library", None, tok), NewRequest(t, "search", s.query, tok)} :
     IF r.kind = "library" THEN LoadsLibrary(s) ELSE SearchesAgain(s)}

(* Mistake: the flag of a fetch that the change makes void stays set.       *)
ForgottenLoading(s) ==
  [s EXCEPT !.playlists = Nobody, !.library = None, !.queue = None, !.results = None, !.query = None]

(* setAuth for another user.                                                *)
Forgotten(s) ==
  [s EXCEPT !.playlists = Nobody, !.library = None, !.libLoading = FALSE, !.queue = None,
            !.results = None, !.query = None]

SetAuth(s, u) ==
  [(IF s.user = u THEN s ELSE Forgotten(s)) EXCEPT !.user = u, !.loading = FALSE]

(* Mistake: the epoch is not compared.                                      *)
OutdatedNever(r, t, changed) == r

(* What a change of user does to a request: its epoch is over.              *)
Outdated(r, t, changed) ==
  [r EXCEPT !.same = @ /\ ~(changed /\ r.tab = t), !.latest = @ /\ ~(changed /\ r.tab = t)]

(* Mistake: a new search leaves the earlier ones as they are.               *)
OvertakenNever(r, t) == r

(* What a new search does to an earlier one.                                *)
Overtaken(r, t) == [r EXCEPT !.latest = @ /\ r.tab # t]

Boxless(r, t) == [r EXCEPT !.box = @ /\ r.tab # t]

Limited == Cardinality(requests') <= MaxRequests

(* The requests once tab t has become s1 and was built anew, if rs were under way *)
(* and tok is stored; a new user's playlists are fetched.                         *)
Asked(t, s1, rs, tok) ==
  LET changed == tab[t].user # s1.user
      passed == {Boxless(Outdated(r, t, changed), t) : r \in rs}
  IN RenderRequests(t, s1, tok)
       \cup (IF SearchesAgain(s1) THEN {Overtaken(r, t) : r \in passed} ELSE passed)
       \cup (IF changed /\ s1.user # None /\ tok # None
             THEN {NewRequest(t, "playlists", None, tok)} ELSE {})

Rendered(t, s1, rs, tok) ==
  /\ tab' = [tab EXCEPT ![t] = Render(s1)]
  /\ requests' = Asked(t, s1, rs, tok)
  /\ Limited

-----------------------------------------------------------------------------
(* The user.                                                                *)

(* refreshAuth, when the page is loaded: what the tab had under way is gone. *)
Reload(t) ==
  LET known == token # None /\ token \notin expired IN
  /\ token' = IF known THEN token ELSE None
  /\ tab' = [tab EXCEPT ![t] = [Loaded EXCEPT !.loading = known, !.at = tab[t].at]]
  /\ requests' = {r \in requests : r.tab # t} \cup (IF known THEN {NewRequest(t, "me", None, token)} ELSE {})
  /\ Limited
  /\ UNCHANGED expired

Ask(t, kind, for) ==
  /\ requests' = requests \cup {NewRequest(t, kind, for, token)}
  /\ Limited
  /\ UNCHANGED <<token, expired, tab>>

(* The login form; a click on another mode offers it again at once.         *)
AskLogin(t, u) == tab[t].user = None /\ ~tab[t].loading /\ Ask(t, "login", u)

(* pm:playlists-changed.                                                    *)
LoadPlaylists(t) == tab[t].user # None /\ token # None /\ Ask(t, "playlists", None)

(* Any other call of the API.                                               *)
Call(t) == tab[t].user # None /\ Ask(t, "other", None)

Logout(t) ==
  /\ tab[t].user # None
  /\ token' = None
  /\ Rendered(t, [SetAuth(tab[t], None) EXCEPT !.at = "home"], requests, None)
  /\ UNCHANGED expired

(* navigate; the menu and others render the page again as it is.            *)
Navigate(t, at) ==
  /\ tab[t].user # None
  /\ Rendered(t, [tab[t] EXCEPT !.at = at], requests, token)
  /\ UNCHANGED <<token, expired>>

(* A song of the library is played.                                         *)
Play(t) ==
  /\ tab[t].at = "library" /\ tab[t].library \in Users
  /\ tab' = [tab EXCEPT ![t].queue = tab[t].library]
  /\ UNCHANGED <<token, expired, requests>>

(* A key in the search box starts the timer anew.                           *)
Type(t, q) ==
  /\ tab[t].user # None /\ tab[t].at = "search"
  /\ tab' = [tab EXCEPT ![t].typed = q]
  /\ UNCHANGED <<token, expired, requests>>

(* The timer ends, whatever page is shown and whoever is signed in by then. *)
RunSearch(t) ==
  LET s == tab[t]
      box == s.user # None /\ s.at = "search" IN
  /\ s.typed # None
  /\ tab' = [tab EXCEPT ![t] = [s EXCEPT !.typed = None, !.query = s.typed, !.shown = None]]
  /\ requests' = {Overtaken(r, t) : r \in requests}
                   \cup {[NewRequest(t, "search", s.typed, token) EXCEPT !.box = box]}
  /\ Limited
  /\ UNCHANGED <<token, expired>>

(* runSearch for an empty box.                                              *)
ClearSearch(t) ==
  /\ tab[t].user # None /\ tab[t].at = "search"
  /\ tab' = [tab EXCEPT ![t] = [@ EXCEPT !.typed = None, !.query = None, !.results = None, !.shown = None]]
  /\ requests' = {Overtaken(r, t) : r \in requests}
  /\ UNCHANGED <<token, expired>>

-----------------------------------------------------------------------------
(* Answers.                                                                 *)

(* The caller of r, in a tab that is s, goes on with v (Nobody if it failed). *)

RefreshContinues(r, s, v, tok) ==
  r.kind = "me" /\ Rendered(r.tab, SetAuth(s, IF v = Nobody THEN None ELSE v), requests \ {r}, tok)

PlaylistsContinue(r, s, v, tok) ==
  /\ r.kind = "playlists" /\ r.same
  /\ Rendered(r.tab, [s EXCEPT !.playlists = v], requests \ {r}, tok)

LibraryContinues(r, s, v, tok) ==
  /\ r.kind = "library" /\ r.same
  /\ Rendered(r.tab, [s EXCEPT !.library = v, !.libLoading = FALSE], requests \ {r}, tok)

SearchContinues(r, s, v) ==
  LET found == IF v = Nobody THEN None ELSE [query |-> r.for, owner |-> v] IN
  /\ r.kind = "search" /\ r.latest
  /\ tab' = [tab EXCEPT ![r.tab] =
                [s EXCEPT !.results = found, !.shown = IF r.box THEN found ELSE @]]
  /\ requests' = requests \ {r}

(* Late answers are dropped, and others are of no consequence here.         *)
NothingContinues(r, s) ==
  /\ \/ r.kind \in {"login", "other"}
     \/ r.kind \in {"playlists", "library"} /\ ~r.same
     \/ r.kind = "search" /\ ~r.latest
  /\ tab' = [tab EXCEPT ![r.tab] = s]
  /\ requests' = requests \ {r}

Continue(r, s, v, tok) ==
  \/ RefreshContinues(r, s, v, tok) \/ PlaylistsContinue(r, s, v, tok)
  \/ LibraryContinues(r, s, v, tok) \/ SearchContinues(r, s, v) \/ NothingContinues(r, s)

(* A token of u that was never given out: nobody holds it any more.         *)
Unused(u) == {tok \in Token : tok.user = u /\ tok # token /\ \A r \in requests : r.token # tok}

(* Mistake: apiFetch does not look at the stored token again.               *)
StillAny(r) == TRUE

(* apiFetch stores or removes a token only if the stored one is the request's. *)
Still(r) == r.token = token

Accepted(r) == r.token # None /\ r.token \notin expired

(* The server answers; past half its life a token is replaced.              *)
Answer(r) ==
  /\ r.kind # "login" /\ Accepted(r)
  /\ \/ token' = token
     \/ Still(r) /\ \E fresh \in Unused(r.token.user) : token' = fresh
  /\ expired' = expired \ {token'}
  /\ Continue(r, tab[r.tab], r.token.user, token')

(* 401.  pm:unauthorized ends the session, and the caller finds it ended.   *)
Unauthorized(r) ==
  /\ r.kind = "login" \/ ~Accepted(r)
  /\ token' = IF Still(r) THEN None ELSE token
  /\ IF Still(r) /\ tab[r.tab].user # None
     THEN Rendered(r.tab, SetAuth(tab[r.tab], None), requests \ {r}, None)
     ELSE Continue(r, tab[r.tab], Nobody, token')
  /\ UNCHANGED expired

(* The network or the server fails.                                         *)
Fail(r) == Continue(r, tab[r.tab], Nobody, token) /\ UNCHANGED <<token, expired>>

(* doLogin builds the page the hash names before the form goes to the start page. *)
LoggedIn(r) ==
  LET s1 == SetAuth(tab[r.tab], r.for) IN
  /\ r.kind = "login"
  /\ \E fresh \in Unused(r.for) :
       /\ token' = fresh /\ expired' = expired \ {fresh}
       /\ tab' = [tab EXCEPT ![r.tab] = Render([Render(s1) EXCEPT !.at = "home"])]
       /\ requests' = Asked(r.tab, s1, requests \ {r}, fresh)
       /\ Limited

Expire ==
  /\ token # None /\ token \notin expired
  /\ expired' = expired \cup {token}
  /\ UNCHANGED <<token, tab, requests>>

-----------------------------------------------------------------------------
Init ==
  /\ token = None /\ expired = {} /\ requests = {}
  /\ tab = [t \in Tabs |-> Loaded]

Next ==
  \/ \E t \in Tabs :
       \/ Reload(t) \/ LoadPlaylists(t) \/ Call(t) \/ Logout(t) \/ Play(t) \/ RunSearch(t) \/ ClearSearch(t)
       \/ \E u \in Users : AskLogin(t, u)
       \/ \E at \in {"home", "library", "search"} : Navigate(t, at)
       \/ \E q \in Queries : Type(t, q)
  \/ \E r \in requests : Answer(r) \/ Unauthorized(r) \/ Fail(r) \/ LoggedIn(r)
  \/ Expire

Spec == Init /\ [][Next]_vars

-----------------------------------------------------------------------------
(* Properties.                                                              *)

TypeOK ==
  /\ token \in Token \cup {None} /\ expired \subseteq Token
  /\ tab \in [Tabs -> Tab] /\ requests \subseteq Request

(* Whose data a tab keeps or plays.                                         *)
Kept(s) == {s.playlists, s.library, s.queue}
            \cup {found.owner : found \in {s.results, s.shown} \ {None}}

Owned ==
  INSTANCE OwnedCache WITH user <- [t \in Tabs |-> tab[t].user],
                           cache <- [t \in Tabs |-> Kept(tab[t]) \ {None, Nobody}]

(* Whoever is signed in in a tab starts without the data of the one before him, and *)
(* only his own comes in, in whatever order the answers of sessions that are over   *)
(* do.                                                                              *)
CachesOwned == Owned!Spec

(* A token the server accepts is removed only by a logout or a refused login, and *)
(* one comes to be stored for another user only by a login: late answers to an    *)
(* earlier token do neither.                                                      *)
TokenChanges ==
  [][/\ token \notin expired \cup {None} /\ token' = None
          => \E t \in Tabs : Logout(t) \/ \E r \in requests : r.kind = "login" /\ Unauthorized(r)
     /\ token' # None /\ (token = None \/ token.user # token'.user)
          => \E r \in requests : LoggedIn(r)]_vars

(* Once the last search is answered the results are those of the query.     *)
Searching(t) == tab[t].typed # None \/ \E r \in requests : r.tab = t /\ r.kind = "search" /\ r.latest

LatestSearchWins ==
  \A t \in Tabs : Searching(t) \/ tab[t].results = None \/ tab[t].results.query = tab[t].query

(* And the page shows them ("only the latest request may write results", the *)
(* comment on searchSeq).                                                    *)
ShowsLatestSearch ==
  \A t \in Tabs : Searching(t) \/ tab[t].shown = None \/ tab[t].shown.query = tab[t].query

(* A user who waits for his library has a request of his own session under way,   *)
(* whose answer or failure ends the wait: no flag or answer of an earlier session *)
(* leaves him waiting for good.                                                   *)
Waiting(t) == tab[t].user # None /\ tab[t].at = "library" /\ tab[t].library = None

LibraryAsked ==
  \A t \in Tabs : Waiting(t) => \E r \in requests : r.tab = t /\ r.kind = "library" /\ r.same

(* Types, and answers that find what they are for.                          *)
Sound == TypeOK /\ LatestSearchWins /\ LibraryAsked

=============================================================================
