------------------------------ MODULE BrowserProofs ------------------------------
(***********************************************************************************)
(* Theorems about MCBrowser: an inductive invariant for Session, Player,           *)
(* Listening, Likes and PlaylistPages, for all values of the constants.  The song  *)
(* that is shown is the one that plays, the page says whether it does, no more is  *)
(* credited than was heard, and answers that come late change what they are for.   *)
(***********************************************************************************)
EXTENDS MCBrowser, FiniteSets, FiniteSetTheorems, SequenceTheorems, TLAPS

-----------------------------------------------------------------------------
(* What the operators on tabs and requests do.                              *)

LEMMA NewRequestView ==
  ASSUME NEW t \in Tabs, NEW kind \in {"me", "login", "playlists", "library", "search", "other"},
         NEW for \in Users \cup Queries \cup {None}, NEW tok \in Session!Token \cup {None}
  PROVE  LET r == Session!NewRequest(t, kind, for, tok) IN
         /\ r \in Session!Request /\ r.tab = t /\ r.kind = kind /\ r.for = for /\ r.token = tok
         /\ r.same /\ (r.latest <=> kind = "search")
BY DEF Session!NewRequest, Session!Request

LEMMA RenderView ==
  ASSUME NEW s \in Session!Tab
  PROVE  LET n == Session!Render(s) IN
         /\ n \in Session!Tab
         /\ n.user = s.user /\ n.loading = s.loading /\ n.at = s.at /\ n.playlists = s.playlists
         /\ n.library = s.library /\ n.queue = s.queue /\ n.typed = s.typed
         /\ n.query = s.query /\ n.results = s.results
         /\ n.libLoading <=> s.libLoading \/ Session!LoadsLibrary(s)
         /\ n.shown \in {None, s.results}
<1>1. Session!LoadsLibrary(s) \in BOOLEAN  BY DEF Session!LoadsLibrary, Session!Tab
<1> QED  BY <1>1, ZenonT(40) DEF Session!Render, Session!Tab

LEMMA SetAuthView ==
  ASSUME NEW s \in Session!Tab, NEW u \in Users \cup {None}
  PROVE  LET n == Session!SetAuth(s, u) IN
         /\ n \in Session!Tab
         /\ n.user = u /\ ~n.loading /\ n.at = s.at /\ n.typed = s.typed /\ n.shown = s.shown
         /\ u = s.user =>
              /\ n.playlists = s.playlists /\ n.library = s.library
              /\ n.libLoading = s.libLoading /\ n.queue = s.queue
              /\ n.results = s.results /\ n.query = s.query
         /\ u # s.user =>
              /\ n.playlists = Nobody /\ n.library = None /\ ~n.libLoading /\ n.queue = None
              /\ n.results = None /\ n.query = None
<1>1. CASE u = s.user  BY <1>1, ZenonT(40) DEF Session!SetAuth, Session!Tab
<1>2. CASE u # s.user
  <2> DEFINE f == Session!Forgotten(s)
  <2>1. /\ f \in Session!Tab /\ f.at = s.at /\ f.typed = s.typed /\ f.shown = s.shown
        /\ f.playlists = Nobody /\ f.library = None /\ f.libLoading = FALSE /\ f.queue = None
        /\ f.results = None /\ f.query = None
    BY DEF Session!Forgotten, Session!Tab, Session!Owner
  <2>2. Session!SetAuth(s, u) = [f EXCEPT !.user = u, !.loading = FALSE]  BY <1>2
    DEF Session!SetAuth
  <2> HIDE DEF f
  <2> QED  BY <1>2, <2>1, <2>2 DEF Session!Tab
<1> QED  BY <1>1, <1>2

(* q is what has become of request r: its epoch may be over, or a newer     *)
(* search have begun, both in r's tab only.                                 *)
Carried(q, r) ==
  /\ q \in Session!Request /\ q.tab = r.tab /\ q.kind = r.kind /\ q.for = r.for /\ q.token = r.token
  /\ q.same => r.same
  /\ q.latest => r.latest

LEMMA OutdatedView ==
  ASSUME NEW r \in Session!Request, NEW t \in Tabs, NEW changed \in BOOLEAN
  PROVE  LET q == Session!Boxless(Session!Outdated(r, t, changed), t) IN
         /\ Carried(q, r)
         /\ q.same <=> r.same /\ ~(changed /\ r.tab = t)
         /\ q.latest <=> r.latest /\ ~(changed /\ r.tab = t)
<1> DEFINE p == Session!Outdated(r, t, changed)
<1>1. /\ p \in Session!Request /\ p.tab = r.tab /\ p.kind = r.kind /\ p.for = r.for
          /\ p.token = r.token
      /\ p.same <=> r.same /\ ~(changed /\ r.tab = t)
      /\ p.latest <=> r.latest /\ ~(changed /\ r.tab = t)
  BY DEF Session!Outdated, Session!Request
<1> HIDE DEF p
<1>2. LET q == Session!Boxless(p, t) IN
      /\ q \in Session!Request /\ q.tab = p.tab /\ q.kind = p.kind /\ q.for = p.for
      /\ q.token = p.token /\ q.same = p.same /\ q.latest = p.latest
  BY <1>1 DEF Session!Boxless, Session!Request
<1> QED  BY <1>1, <1>2 DEF Carried, p

LEMMA OvertakenView ==
  ASSUME NEW r \in Session!Request, NEW t \in Tabs
  PROVE  LET q == Session!Overtaken(r, t) IN
         /\ Carried(q, r)
         /\ q.same = r.same
         /\ q.latest <=> r.latest /\ r.tab # t
BY DEF Session!Overtaken, Session!Request, Carried

-----------------------------------------------------------------------------
(* The requests once a tab is built anew.                                   *)

Tokens == Session!Token \cup {None}

(* Each is one that was under way, or asks for what the page needs.         *)
LEMMA AskedOrigin ==
  ASSUME Session!TypeOK, NEW t \in Tabs, NEW s1 \in Session!Tab, NEW rs \in SUBSET requests,
         NEW tok \in Tokens,
         NEW q \in Session!Asked(t, s1, rs, tok)
  PROVE  \/ \E r \in rs :
              /\ Carried(q, r)
              /\ r.tab = t /\ tab[t].user # s1.user => ~q.same /\ ~q.latest
              /\ r.tab = t /\ Session!SearchesAgain(s1) => ~q.latest
         \/ /\ q \in Session!Request /\ q.tab = t /\ q.token = tok /\ q.same
            /\ \/ q.kind = "library" /\ Session!LoadsLibrary(s1)
               \/ q.kind = "search" /\ q.for = s1.query /\ Session!SearchesAgain(s1)
               \/ q.kind = "playlists" /\ tab[t].user # s1.user /\ s1.user # None /\ tok # None
<1> DEFINE changed == tab[t].user # s1.user
           pass(r) == Session!Boxless(Session!Outdated(r, t, changed), t)
           Origin == \/ \E r \in rs :
                          /\ Carried(q, r)
                          /\ r.tab = t /\ changed => ~q.same /\ ~q.latest
                          /\ r.tab = t /\ Session!SearchesAgain(s1) => ~q.latest
                     \/ /\ q \in Session!Request /\ q.tab = t /\ q.token = tok /\ q.same
                        /\ \/ q.kind = "library" /\ Session!LoadsLibrary(s1)
                           \/ q.kind = "search" /\ q.for = s1.query /\ Session!SearchesAgain(s1)
                           \/ q.kind = "playlists" /\ changed /\ s1.user # None /\ tok # None
<1>1. s1.query \in Users \cup Queries \cup {None} /\ None \in Users \cup Queries \cup {None}
  BY DEF Session!Tab
<1>2. \A r \in rs : r \in Session!Request  BY DEF Session!TypeOK
<1>3. changed \in BOOLEAN  OBVIOUS
<1>4. \A r \in rs : /\ Carried(pass(r), r) /\ pass(r) \in Session!Request
                    /\ pass(r).same <=> r.same /\ ~(changed /\ r.tab = t)
                    /\ pass(r).latest <=> r.latest /\ ~(changed /\ r.tab = t)
  <2> HIDE DEF changed
  <2> QED  BY <1>2, <1>3, OutdatedView DEF Carried
<1>5. ASSUME NEW r \in rs, q = pass(r), ~Session!SearchesAgain(s1) PROVE Origin
  <2> HIDE DEF changed, pass
  <2> QED  BY <1>4, <1>5
<1>6. ASSUME NEW r \in rs, q = Session!Overtaken(pass(r), t) PROVE Origin
  <2> HIDE DEF changed, pass
  <2>1. Carried(q, pass(r)) /\ q.same = pass(r).same
        /\ (q.latest <=> pass(r).latest /\ pass(r).tab # t)
    BY <1>4, <1>6, OvertakenView
  <2> QED  BY <1>4, <2>1 DEF Carried
<1>7. ASSUME q = Session!NewRequest(t, "library", None, tok), Session!LoadsLibrary(s1) PROVE Origin
  <2>1. /\ q \in Session!Request /\ q.tab = t /\ q.token = tok /\ q.same /\ q.kind = "library"
    BY <1>1, <1>7, NewRequestView DEF Tokens
  <2> QED  BY <1>7, <2>1
<1>8. ASSUME q = Session!NewRequest(t, "search", s1.query, tok), Session!SearchesAgain(s1)
      PROVE Origin
  BY <1>1, <1>8, NewRequestView DEF Tokens
<1>9. ASSUME q = Session!NewRequest(t, "playlists", None, tok), changed, s1.user # None, tok # None
      PROVE  Origin
  BY <1>1, <1>9, NewRequestView DEF Tokens
<1>10. q \in Session!RenderRequests(t, s1, tok) =>
         \/ q = Session!NewRequest(t, "library", None, tok) /\ Session!LoadsLibrary(s1)
         \/ q = Session!NewRequest(t, "search", s1.query, tok) /\ Session!SearchesAgain(s1)
  <2>1. Session!NewRequest(t, "search", s1.query, tok).kind = "search"
    BY <1>1, NewRequestView DEF Tokens
  <2>2. Session!NewRequest(t, "library", None, tok).kind = "library"
    BY <1>1, NewRequestView DEF Tokens
  <2> QED  BY <2>1, <2>2 DEF Session!RenderRequests
<1>11. \/ q \in Session!RenderRequests(t, s1, tok)
       \/ Session!SearchesAgain(s1) /\ \E r \in rs : q = Session!Overtaken(pass(r), t)
       \/ ~Session!SearchesAgain(s1) /\ \E r \in rs : q = pass(r)
       \/ q = Session!NewRequest(t, "playlists", None, tok) /\ changed /\ s1.user # None
                 /\ tok # None
  BY DEF Session!Asked
<1> HIDE DEF Origin, pass
<1>12. Origin  BY <1>5, <1>6, <1>7, <1>8, <1>9, <1>10, <1>11
<1> QED  BY <1>12 DEF Origin

(* None that was under way is gone, and what the page needs is asked for.   *)
LEMMA AskedKeeps ==
  ASSUME Session!TypeOK, NEW t \in Tabs, NEW s1 \in Session!Tab, NEW rs \in SUBSET requests,
         NEW tok \in Tokens
  PROVE  /\ \A r \in rs : \E q \in Session!Asked(t, s1, rs, tok) :
              /\ Carried(q, r)
              /\ r.tab # t \/ tab[t].user = s1.user => (q.same <=> r.same)
              /\ r.tab # t \/ (tab[t].user = s1.user /\ ~Session!SearchesAgain(s1))
                   => (q.latest <=> r.latest)
         /\ Session!LoadsLibrary(s1) => \E q \in Session!Asked(t, s1, rs, tok) :
              q.tab = t /\ q.kind = "library" /\ q.same
         /\ Session!SearchesAgain(s1) => \E q \in Session!Asked(t, s1, rs, tok) :
              q.tab = t /\ q.kind = "search" /\ q.latest
<1> DEFINE changed == tab[t].user # s1.user
           pass(r) == Session!Boxless(Session!Outdated(r, t, changed), t)
<1>1. s1.query \in Users \cup Queries \cup {None} /\ None \in Users \cup Queries \cup {None}
  BY DEF Session!Tab
<1>2. \A r \in rs : r \in Session!Request  BY DEF Session!TypeOK
<1>3. changed \in BOOLEAN  OBVIOUS
<1>4. \A r \in rs : /\ Carried(pass(r), r) /\ pass(r) \in Session!Request
                    /\ pass(r).same <=> r.same /\ ~(changed /\ r.tab = t)
                    /\ pass(r).latest <=> r.latest /\ ~(changed /\ r.tab = t)
  <2> HIDE DEF changed
  <2> QED  BY <1>2, <1>3, OutdatedView DEF Carried
<1>5. ASSUME NEW r \in rs
      PROVE  \E q \in Session!Asked(t, s1, rs, tok) :
              /\ Carried(q, r)
              /\ r.tab # t \/ tab[t].user = s1.user => (q.same <=> r.same)
              /\ r.tab # t \/ (tab[t].user = s1.user /\ ~Session!SearchesAgain(s1))
                   => (q.latest <=> r.latest)
  <2>1. CASE Session!SearchesAgain(s1)
    <3>1. Session!Overtaken(pass(r), t) \in Session!Asked(t, s1, rs, tok)  BY <2>1 DEF Session!Asked
    <3> DEFINE q == Session!Overtaken(pass(r), t)
    <3>2. Carried(q, pass(r)) /\ q.same = pass(r).same
          /\ (q.latest <=> pass(r).latest /\ pass(r).tab # t)
      <4> HIDE DEF pass
      <4> QED  BY <1>4, OvertakenView
    <3>3. Carried(q, r) /\ pass(r).tab = r.tab  BY <1>4, <3>2 DEF Carried
    <3> HIDE DEF q, pass
    <3> QED  BY <1>4, <2>1, <3>1, <3>2, <3>3 DEF q
  <2>2. CASE ~Session!SearchesAgain(s1)
    <3>1. pass(r) \in Session!Asked(t, s1, rs, tok)  BY <2>2 DEF Session!Asked
    <3> HIDE DEF pass
    <3> QED  BY <1>4, <3>1
  <2> QED  BY <2>1, <2>2
<1>6. ASSUME Session!LoadsLibrary(s1)
      PROVE  \E q \in Session!Asked(t, s1, rs, tok) : q.tab = t /\ q.kind = "library" /\ q.same
  <2> DEFINE q == Session!NewRequest(t, "library", None, tok)
  <2>1. q.tab = t /\ q.kind = "library" /\ q.same  BY <1>1, NewRequestView DEF Tokens
  <2>2. q \in Session!RenderRequests(t, s1, tok)  BY <1>6, <2>1 DEF Session!RenderRequests
  <2>3. q \in Session!Asked(t, s1, rs, tok)  BY <2>2 DEF Session!Asked
  <2> QED  BY <2>1, <2>3
<1>7. ASSUME Session!SearchesAgain(s1)
      PROVE  \E q \in Session!Asked(t, s1, rs, tok) : q.tab = t /\ q.kind = "search" /\ q.latest
  <2> DEFINE q == Session!NewRequest(t, "search", s1.query, tok)
  <2>1. q.tab = t /\ q.kind = "search" /\ q.latest  BY <1>1, NewRequestView DEF Tokens
  <2>2. q \in Session!RenderRequests(t, s1, tok)  BY <1>7, <2>1 DEF Session!RenderRequests
  <2>3. q \in Session!Asked(t, s1, rs, tok)  BY <2>2 DEF Session!Asked
  <2> QED  BY <2>1, <2>3
<1> QED  BY <1>5, <1>6, <1>7

-----------------------------------------------------------------------------
(* Type correctness.                                                        *)

(* Tokens and requests are of what they claim to be.                        *)
RequestsOK ==
  \A r \in requests :
    /\ r.kind = "search" => r.for \in Queries
    /\ r.kind = "login" => r.for \in Users
    /\ r.kind = "me" => r.token # None

LEMMA LoadedType ==
  /\ Session!Loaded \in Session!Tab
  /\ \A place \in {"home", "library", "search"}, l \in BOOLEAN :
       [Session!Loaded EXCEPT !.loading = l, !.at = place] \in Session!Tab
BY DEF Session!Loaded, Session!Tab, Session!Owner

(* So are those that are under way when a tab is built anew.                *)
LEMMA AskedType ==
  ASSUME Session!TypeOK, RequestsOK, NEW t \in Tabs, NEW s1 \in Session!Tab,
         NEW rs \in SUBSET requests,
         NEW tok \in Tokens, requests' = Session!Asked(t, s1, rs, tok)
  PROVE  requests' \subseteq Session!Request /\ RequestsOK'
<1> SUFFICES ASSUME NEW q \in requests'
             PROVE  /\ q \in Session!Request
                    /\ q.kind = "search" => q.for \in Queries
                    /\ q.kind = "login" => q.for \in Users
                    /\ q.kind = "me" => q.token # None
  BY DEF RequestsOK
<1>1. CASE \E r \in rs : Carried(q, r)
  BY <1>1 DEF Carried, RequestsOK
<1>2. CASE /\ q \in Session!Request
           /\ \/ q.kind = "library" \/ q.kind = "playlists"
              \/ q.kind = "search" /\ q.for = s1.query /\ Session!SearchesAgain(s1)
  BY <1>2 DEF Session!SearchesAgain, Session!Tab
<1> QED  BY <1>1, <1>2, AskedOrigin

LEMMA RenderedType ==
  ASSUME Session!TypeOK, RequestsOK, NEW t \in Tabs, NEW s1 \in Session!Tab,
         NEW rs \in SUBSET requests,
         NEW tok \in Tokens, Session!Rendered(t, s1, rs, tok)
  PROVE  tab' \in [Tabs -> Session!Tab] /\ requests' \subseteq Session!Request /\ RequestsOK'
<1>1. Session!Render(s1) \in Session!Tab  BY RenderView
<1> QED  BY <1>1, AskedType DEF Session!Rendered, Session!TypeOK

LEMMA AskType ==
  ASSUME Session!TypeOK, RequestsOK, Session!SessionAssumption, NEW t \in Tabs,
         NEW kind \in {"login", "playlists", "other"}, NEW for \in Users \cup {None},
         kind = "login" => for \in Users, Session!Ask(t, kind, for)
  PROVE  Session!TypeOK' /\ RequestsOK'
<1> DEFINE q == Session!NewRequest(t, kind, for, token)
<1>1. q \in Session!Request /\ q.kind = kind /\ q.for = for
  BY NewRequestView DEF Session!TypeOK, Tokens
<1>2. requests' = requests \cup {q} /\ UNCHANGED <<token, expired, tab>>  BY DEF Session!Ask
<1> HIDE DEF q
<1> QED  BY <1>1, <1>2 DEF Session!TypeOK, RequestsOK

(* The caller goes on, with the data of somebody, or with none.             *)
LEMMA ContinueType ==
  ASSUME Session!TypeOK, RequestsOK, Session!SessionAssumption, NEW r \in requests,
         NEW v \in Users \cup {Nobody}, NEW tok \in Tokens, Session!Continue(r, tab[r.tab], v, tok)
  PROVE  tab' \in [Tabs -> Session!Tab] /\ requests' \subseteq Session!Request /\ RequestsOK'
<1> DEFINE t == r.tab
           s == tab[t]
           rest == requests \ {r}
           found == IF v = Nobody THEN None ELSE [query |-> r.for, owner |-> v]
<1>1. r \in Session!Request /\ t \in Tabs /\ s \in Session!Tab /\ rest \in SUBSET requests
  BY DEF Session!TypeOK, Session!Request
<1>2. CASE r.kind = "me"
          /\ Session!Rendered(t, Session!SetAuth(s, IF v = Nobody THEN None ELSE v), rest, tok)
  <2>1. Session!SetAuth(s, IF v = Nobody THEN None ELSE v) \in Session!Tab  BY <1>1, SetAuthView
  <2> QED  BY <1>1, <1>2, <2>1, RenderedType
<1>3. CASE r.kind = "playlists" /\ Session!Rendered(t, [s EXCEPT !.playlists = v], rest, tok)
  <2>1. [s EXCEPT !.playlists = v] \in Session!Tab  BY <1>1 DEF Session!Tab
  <2> QED  BY <1>1, <1>3, <2>1, RenderedType
<1>4. CASE /\ r.kind = "library"
           /\ Session!Rendered(t, [s EXCEPT !.library = v, !.libLoading = FALSE], rest, tok)
  <2>1. [s EXCEPT !.library = v, !.libLoading = FALSE] \in Session!Tab  BY <1>1
    DEF Session!Tab, Session!Owner
  <2> QED  BY <1>1, <1>4, <2>1, RenderedType
<1>5. rest \subseteq Session!Request /\ (requests' = rest => RequestsOK')
  BY DEF Session!TypeOK, RequestsOK
<1>6. CASE /\ r.kind = "search"
           /\ tab' = [tab EXCEPT ![t] = [s EXCEPT !.results = found,
                                                  !.shown = IF r.box THEN found ELSE @]]
           /\ requests' = rest
  <2>1. found \in Session!Results \cup {None}  BY <1>6 DEF RequestsOK, Session!Results
  <2>2. [s EXCEPT !.results = found, !.shown = IF r.box THEN found ELSE @] \in Session!Tab
    <3> HIDE DEF found
    <3> QED  BY <1>1, <2>1, ZenonT(40) DEF Session!Tab
  <2> QED  BY <1>1, <1>5, <1>6, <2>2 DEF Session!TypeOK
<1>7. CASE tab' = [tab EXCEPT ![t] = s] /\ requests' = rest
  BY <1>1, <1>5, <1>7 DEF Session!TypeOK
<1> QED  BY <1>2, <1>3, <1>4, <1>6, <1>7
  DEF Session!Continue, Session!RefreshContinues, Session!PlaylistsContinue,
      Session!LibraryContinues, Session!SearchContinues, Session!NothingContinues

LEMMA TypeInit == Session!Init => Session!TypeOK /\ RequestsOK
BY LoadedType DEF Session!Init, Session!TypeOK, RequestsOK

LEMMA TypeStep ==
  ASSUME Session!TypeOK, RequestsOK, Session!SessionAssumption, [Session!Next]_(Session!vars)
  PROVE  Session!TypeOK' /\ RequestsOK'
<1>0. None \in Tokens /\ token \in Tokens /\ tab \in [Tabs -> Session!Tab]
          /\ requests \subseteq Session!Request
      /\ expired \subseteq Session!Token
  BY DEF Session!TypeOK, Tokens
<1>1. ASSUME NEW t \in Tabs, Session!Reload(t) PROVE Session!TypeOK' /\ RequestsOK'
  <2> DEFINE accepted == token # None /\ token \notin expired
             s1 == [Session!Loaded EXCEPT !.loading = accepted, !.at = tab[t].at]
             q == Session!NewRequest(t, "me", None, token)
             rest == {r \in requests : r.tab # t}
  <2>1. token' \in Tokens /\ expired' = expired  BY <1>0, <1>1 DEF Session!Reload
  <2>2. s1 \in Session!Tab
    <3>1. tab[t].at \in {"home", "library", "search"} /\ accepted \in BOOLEAN
      BY <1>0 DEF Session!Tab
    <3> QED  BY <3>1, LoadedType
  <2>3. q \in Session!Request /\ q.kind = "me" /\ q.token = token
    BY <1>0, NewRequestView DEF Tokens
  <2>4. /\ tab' = [tab EXCEPT ![t] = s1]
        /\ requests' = rest \/ (accepted /\ requests' = rest \cup {q})
    BY <1>1 DEF Session!Reload
  <2> HIDE DEF s1, q
  <2>5. tab' \in [Tabs -> Session!Tab]  BY <1>0, <2>2, <2>4
  <2>6. requests' \subseteq Session!Request /\ RequestsOK'
    BY <1>0, <2>3, <2>4 DEF RequestsOK
  <2> QED  BY <2>1, <2>5, <2>6 DEF Session!TypeOK, Tokens
<1>2. ASSUME NEW t \in Tabs, NEW u \in Users, Session!AskLogin(t, u)
      PROVE Session!TypeOK' /\ RequestsOK'
  BY <1>2, AskType DEF Session!AskLogin
<1>3. ASSUME NEW t \in Tabs, Session!LoadPlaylists(t) \/ Session!Call(t)
      PROVE Session!TypeOK' /\ RequestsOK'
  BY <1>3, AskType DEF Session!LoadPlaylists, Session!Call
<1>4. ASSUME NEW t \in Tabs, Session!Logout(t) PROVE Session!TypeOK' /\ RequestsOK'
  <2> DEFINE a == Session!SetAuth(tab[t], None)
  <2>1. a \in Session!Tab  BY <1>0, SetAuthView
  <2>2. [a EXCEPT !.at = "home"] \in Session!Tab
    <3> HIDE DEF a
    <3> QED  BY <2>1 DEF Session!Tab
  <2>3. Session!Rendered(t, [a EXCEPT !.at = "home"], requests, None) /\ token' = None
            /\ expired' = expired
    BY <1>4 DEF Session!Logout
  <2> HIDE DEF a
  <2> QED  BY <1>0, <2>2, <2>3, RenderedType DEF Session!TypeOK
<1>5. ASSUME NEW t \in Tabs, NEW place \in {"home", "library", "search"}, Session!Navigate(t, place)
      PROVE  Session!TypeOK' /\ RequestsOK'
  <2>1. [tab[t] EXCEPT !.at = place] \in Session!Tab  BY <1>0 DEF Session!Tab
  <2> QED  BY <1>0, <1>5, <2>1, RenderedType DEF Session!Navigate, Session!TypeOK
<1>6. ASSUME NEW t \in Tabs, Session!Play(t) PROVE Session!TypeOK' /\ RequestsOK'
  <2>1. [tab[t] EXCEPT !.queue = tab[t].library] \in Session!Tab  BY <1>0 DEF Session!Tab
  <2>2. tab' = [tab EXCEPT ![t] = [tab[t] EXCEPT !.queue = tab[t].library]]
    BY <1>6 DEF Session!Play
  <2> QED  BY <1>0, <1>6, <2>1, <2>2 DEF Session!Play, Session!TypeOK, RequestsOK
<1>7. ASSUME NEW t \in Tabs, NEW q \in Queries, Session!Type(t, q)
      PROVE Session!TypeOK' /\ RequestsOK'
  <2>1. [tab[t] EXCEPT !.typed = q] \in Session!Tab  BY <1>0 DEF Session!Tab
  <2> QED  BY <1>0, <1>7, <2>1 DEF Session!Type, Session!TypeOK, RequestsOK
<1>8. ASSUME NEW t \in Tabs, Session!RunSearch(t) PROVE Session!TypeOK' /\ RequestsOK'
  <2> DEFINE box == tab[t].user # None /\ tab[t].at = "search"
             n == Session!NewRequest(t, "search", tab[t].typed, token)
             q == [n EXCEPT !.box = box]
  <2>1. tab[t].typed \in Queries  BY <1>0, <1>8 DEF Session!RunSearch, Session!Tab
  <2>2. n \in Session!Request /\ n.kind = "search" /\ n.for \in Queries
    BY <1>0, <2>1, NewRequestView DEF Tokens
  <2>3. q \in Session!Request /\ q.kind = "search" /\ q.for \in Queries
    <3> HIDE DEF n
    <3> QED  BY <2>2 DEF Session!Request
  <2>4. requests' = {Session!Overtaken(r, t) : r \in requests} \cup {q}
    BY <1>8 DEF Session!RunSearch
  <2>5. \A r \in requests : Carried(Session!Overtaken(r, t), r)  BY <1>0, OvertakenView
  <2> HIDE DEF q
  <2>6. requests' \subseteq Session!Request /\ RequestsOK'
    BY <2>3, <2>4, <2>5 DEF Carried, RequestsOK
  <2>7. [tab[t] EXCEPT !.typed = None, !.query = tab[t].typed, !.shown = None] \in Session!Tab
    <3>1. PICK s \in Session!Tab : s = tab[t]  BY <1>0
    <3>2. [s EXCEPT !.typed = None, !.query = s.typed, !.shown = None] \in Session!Tab  BY
      DEF Session!Tab
    <3> QED  BY <3>1, <3>2
  <2> QED  BY <1>0, <1>8, <2>6, <2>7 DEF Session!RunSearch, Session!TypeOK
<1>9. ASSUME NEW t \in Tabs, Session!ClearSearch(t) PROVE Session!TypeOK' /\ RequestsOK'
  <2>1. \A r \in requests : Carried(Session!Overtaken(r, t), r)  BY <1>0, OvertakenView
  <2>2. requests' = {Session!Overtaken(r, t) : r \in requests}  BY <1>9 DEF Session!ClearSearch
  <2>3. requests' \subseteq Session!Request /\ RequestsOK'
    BY <2>1, <2>2 DEF Carried, RequestsOK
  <2>4. [tab[t] EXCEPT !.typed = None, !.query = None, !.results = None, !.shown = None]
          \in Session!Tab
    BY <1>0, ZenonT(40) DEF Session!Tab
  <2> QED  BY <1>0, <1>9, <2>3, <2>4 DEF Session!ClearSearch, Session!TypeOK
<1>10. ASSUME NEW r \in requests, Session!Answer(r) PROVE Session!TypeOK' /\ RequestsOK'
  <2>1. r \in Session!Request /\ r.token \in Session!Token  BY <1>0, <1>10
    DEF Session!Answer, Session!Accepted, Session!Request
  <2>2. token' \in Tokens /\ expired' \subseteq Session!Token
    BY <1>0, <1>10 DEF Session!Answer, Session!Unused, Tokens
  <2>3. r.token.user \in Users  BY <2>1 DEF Session!Token
  <2> QED  BY <1>10, <2>2, <2>3, ContinueType DEF Session!Answer, Session!TypeOK, Tokens
<1>11. ASSUME NEW r \in requests, Session!Unauthorized(r) PROVE Session!TypeOK' /\ RequestsOK'
  <2>1. r.tab \in Tabs  BY <1>0 DEF Session!Request
  <2>2. token' \in Tokens /\ expired' = expired  BY <1>0, <1>11 DEF Session!Unauthorized
  <2>3. CASE Session!Rendered(r.tab, Session!SetAuth(tab[r.tab], None), requests \ {r}, None)
    <3>1. Session!SetAuth(tab[r.tab], None) \in Session!Tab  BY <1>0, <2>1, SetAuthView
    <3> QED  BY <1>0, <2>1, <2>2, <2>3, <3>1, RenderedType DEF Session!TypeOK, Tokens
  <2>4. CASE Session!Continue(r, tab[r.tab], Nobody, token')
    BY <1>0, <2>2, <2>4, ContinueType DEF Session!TypeOK, Tokens
  <2> QED  BY <1>11, <2>3, <2>4 DEF Session!Unauthorized
<1>12. ASSUME NEW r \in requests, Session!Fail(r) PROVE Session!TypeOK' /\ RequestsOK'
  BY <1>0, <1>12, ContinueType DEF Session!Fail, Session!TypeOK
<1>13. ASSUME NEW r \in requests, Session!LoggedIn(r) PROVE Session!TypeOK' /\ RequestsOK'
  <2> DEFINE s1 == Session!SetAuth(tab[r.tab], r.for)
             n == Session!Render(s1)
  <2>1. r.tab \in Tabs /\ r.for \in Users
    BY <1>0, <1>13 DEF Session!Request, Session!LoggedIn, RequestsOK
  <2>2. s1 \in Session!Tab  BY <1>0, <2>1, SetAuthView
  <2>3. n \in Session!Tab
    <3> HIDE DEF s1
    <3> QED  BY <2>2, RenderView
  <2>4. [n EXCEPT !.at = "home"] \in Session!Tab
    <3> HIDE DEF n
    <3> QED  BY <2>3 DEF Session!Tab
  <2>5. Session!Render([n EXCEPT !.at = "home"]) \in Session!Tab
    <3> HIDE DEF n
    <3> QED  BY <2>4, RenderView
  <2>6. PICK fresh \in Session!Unused(r.for) :
          /\ token' = fresh /\ expired' = expired \ {fresh}
          /\ tab' = [tab EXCEPT ![r.tab] = Session!Render([n EXCEPT !.at = "home"])]
          /\ requests' = Session!Asked(r.tab, s1, requests \ {r}, fresh)
    BY <1>13 DEF Session!LoggedIn
  <2>7. fresh \in Session!Token  BY DEF Session!Unused
  <2> HIDE DEF n, s1
  <2>8. requests' \subseteq Session!Request /\ RequestsOK'
    BY <2>1, <2>2, <2>6, <2>7, AskedType DEF Tokens
  <2>9. tab' \in [Tabs -> Session!Tab]  BY <1>0, <2>5, <2>6
  <2> QED  BY <1>0, <2>6, <2>7, <2>8, <2>9 DEF Session!TypeOK
<1>14. CASE Session!Expire  BY <1>0, <1>14 DEF Session!Expire, Session!TypeOK, RequestsOK
<1>15. CASE UNCHANGED Session!vars  BY <1>15 DEF Session!vars, Session!TypeOK, RequestsOK
<1> QED
  BY <1>1, <1>2, <1>3, <1>4, <1>5, <1>6, <1>7, <1>8, <1>9, <1>10, <1>11, <1>12, <1>13, <1>14,
     <1>15 DEF Session!Next

-----------------------------------------------------------------------------
(* Searches and the library.                                                *)

LibraryIn(t, rs) == \E r \in rs : r.tab = t /\ r.kind = "library" /\ r.same
SearchIn(t, rs) == \E r \in rs : r.tab = t /\ r.kind = "search" /\ r.latest

(* A tab that is s, with rs under way: the mark of a fetch of the library   *)
(* stands for a request, results are of the query unless others are to      *)
(* come, and the search that may still write asks for the query.            *)
Settled(t, s, rs) ==
  /\ s.libLoading => LibraryIn(t, rs)
  /\ s.typed # None \/ SearchIn(t, rs) \/ s.results = None \/ s.results.query = s.query
  /\ \A r \in rs : r.tab = t /\ r.kind = "search" /\ r.latest => r.for = s.query

WaitsMarked(s) == s.user # None /\ s.at = "library" /\ s.library = None => s.libLoading

SettledInv == \A t \in Tabs : Settled(t, tab[t], requests) /\ WaitsMarked(tab[t])

SessionInv == Session!TypeOK /\ RequestsOK /\ SettledInv

(* What a tab has fetched and asked for survives a change of what is kept   *)
(* elsewhere, and of other kinds of requests.                               *)
LEMMA SettledKept ==
  ASSUME NEW t, NEW s, NEW rs, Settled(t, s, rs), NEW s2, NEW rs2,
         s2.libLoading => s.libLoading,
         s2.typed # None \/ s.typed = None, s2.results = s.results, s2.query = s.query,
         LibraryIn(t, rs) => LibraryIn(t, rs2),
         SearchIn(t, rs) => SearchIn(t, rs2),
         \A r \in rs2 : r.tab = t /\ r.kind = "search" /\ r.latest =>
           \E q \in rs : q.tab = t /\ q.kind = "search" /\ q.latest /\ q.for = r.for
  PROVE  Settled(t, s2, rs2)
BY DEF Settled

(* The tab is built anew as s1, with rs under way.                          *)
LEMMA AskedSettled ==
  ASSUME Session!TypeOK, NEW t \in Tabs, NEW s1 \in Session!Tab, NEW rs \in SUBSET requests,
         NEW tok \in Tokens,
         tab[t].user = s1.user => Settled(t, s1, rs),
         tab[t].user # s1.user => ~s1.libLoading /\ s1.results = None
  PROVE  /\ s1.libLoading \/ Session!LoadsLibrary(s1) => LibraryIn(t, Session!Asked(t, s1, rs, tok))
         /\ \/ s1.typed # None \/ SearchIn(t, Session!Asked(t, s1, rs, tok))
            \/ s1.results = None \/ s1.results.query = s1.query
         /\ \A r \in Session!Asked(t, s1, rs, tok) :
              r.tab = t /\ r.kind = "search" /\ r.latest => r.for = s1.query
<1> DEFINE new == Session!Asked(t, s1, rs, tok)
<1>1. Session!LoadsLibrary(s1) => LibraryIn(t, new)  BY AskedKeeps DEF LibraryIn
<1>2. tab[t].user = s1.user => (LibraryIn(t, rs) => LibraryIn(t, new))
  BY AskedKeeps DEF LibraryIn, Carried
<1>3. Session!SearchesAgain(s1) => SearchIn(t, new)  BY AskedKeeps DEF SearchIn
<1>4. tab[t].user = s1.user /\ ~Session!SearchesAgain(s1) => (SearchIn(t, rs) => SearchIn(t, new))
  BY AskedKeeps DEF SearchIn, Carried
<1>5. ASSUME NEW r \in new, r.tab = t, r.kind = "search", r.latest
      PROVE  r.for = s1.query
  <2>1. CASE \E q \in rs :
               /\ Carried(r, q)
               /\ q.tab = t /\ tab[t].user # s1.user => ~r.same /\ ~r.latest
               /\ q.tab = t /\ Session!SearchesAgain(s1) => ~r.latest
    BY <1>5, <2>1 DEF Carried, Settled
  <2>2. CASE \/ r.kind = "library" \/ r.kind = "playlists" \/ r.for = s1.query
    BY <1>5, <2>2
  <2> HIDE DEF new
  <2> QED  BY <2>1, <2>2, AskedOrigin DEF new
<1> HIDE DEF new
<1>6. s1.libLoading => LibraryIn(t, new)  BY <1>2 DEF Settled
<1>7. s1.typed # None \/ SearchIn(t, new) \/ s1.results = None \/ s1.results.query = s1.query
  BY <1>3, <1>4 DEF Settled, Session!SearchesAgain
<1> QED  BY <1>1, <1>5, <1>6, <1>7 DEF new

LEMMA AskedElsewhere ==
  ASSUME Session!TypeOK, NEW t \in Tabs, NEW s1 \in Session!Tab, NEW rs \in SUBSET requests,
         NEW tok \in Tokens,
         NEW u \in Tabs, u # t, Settled(u, tab[u], rs)
  PROVE  Settled(u, tab[u], Session!Asked(t, s1, rs, tok))
<1> DEFINE new == Session!Asked(t, s1, rs, tok)
<1>1. LibraryIn(u, rs) => LibraryIn(u, new)  BY AskedKeeps DEF LibraryIn, Carried
<1>2. SearchIn(u, rs) => SearchIn(u, new)  BY AskedKeeps DEF SearchIn, Carried
<1>3. ASSUME NEW r \in new, r.tab = u, r.kind = "search", r.latest
      PROVE  \E q \in rs : q.tab = u /\ q.kind = "search" /\ q.latest /\ q.for = r.for
  BY <1>3, AskedOrigin DEF Carried
<1> HIDE DEF new
<1> QED  BY <1>1, <1>2, <1>3, SettledKept DEF new

LEMMA RenderedSettled ==
  ASSUME Session!TypeOK, Session!TypeOK', NEW t \in Tabs, NEW s1 \in Session!Tab,
         NEW rs \in SUBSET requests,
         NEW tok \in Tokens, Session!Rendered(t, s1, rs, tok),
         tab[t].user = s1.user => Settled(t, s1, rs),
         tab[t].user # s1.user => ~s1.libLoading /\ s1.results = None,
         \A u \in Tabs \ {t} : Settled(u, tab[u], rs) /\ WaitsMarked(tab[u])
  PROVE  SettledInv'
<1> DEFINE s2 == Session!Render(s1)
<1>1. requests' = Session!Asked(t, s1, rs, tok) /\ tab'[t] = s2
      /\ \A u \in Tabs \ {t} : tab'[u] = tab[u]
  BY DEF Session!Rendered, Session!TypeOK
<1>2. /\ s2.libLoading <=> s1.libLoading \/ Session!LoadsLibrary(s1)
      /\ s2.typed = s1.typed /\ s2.results = s1.results /\ s2.query = s1.query
      /\ s2.user = s1.user /\ s2.at = s1.at /\ s2.library = s1.library
  BY RenderView
<1> HIDE DEF s2
<1>3. Settled(t, s2, requests')  BY <1>1, <1>2, AskedSettled DEF Settled
<1>4. WaitsMarked(s2)  BY <1>2 DEF WaitsMarked, Session!LoadsLibrary
<1>5. \A u \in Tabs \ {t} : Settled(u, tab[u], requests')
  BY <1>1, AskedElsewhere
<1>6. \A u \in Tabs : Settled(u, tab[u], requests)' /\ WaitsMarked(tab[u])'
  BY <1>1, <1>3, <1>4, <1>5 DEF Settled, WaitsMarked, LibraryIn, SearchIn
<1> QED  BY <1>6 DEF SettledInv

(* A request of a kind that is neither a search nor a live fetch of the     *)
(* library comes or goes.                                                   *)
LEMMA SettledWithout ==
  ASSUME SettledInv, NEW r, NEW u \in Tabs,
         r.tab # u \/ ((r.kind # "library" \/ ~r.same) /\ (r.kind # "search" \/ ~r.latest))
  PROVE  /\ Settled(u, tab[u], requests \ {r})
         /\ Settled(u, tab[u], requests \cup {r})
<1>1. Settled(u, tab[u], requests)  BY DEF SettledInv
<1>2. /\ LibraryIn(u, requests) => LibraryIn(u, requests \ {r})
      /\ SearchIn(u, requests) => SearchIn(u, requests \ {r})
      /\ LibraryIn(u, requests) => LibraryIn(u, requests \cup {r})
      /\ SearchIn(u, requests) => SearchIn(u, requests \cup {r})
  BY DEF LibraryIn, SearchIn
<1> QED  BY <1>1, <1>2 DEF Settled

LEMMA ContinueSettled ==
  ASSUME SessionInv, Session!TypeOK', Session!SessionAssumption, NEW r \in requests,
         NEW v \in Users \cup {Nobody}, NEW tok \in Tokens, Session!Continue(r, tab[r.tab], v, tok)
  PROVE  SettledInv'
<1> DEFINE t == r.tab
           s == tab[t]
           rest == requests \ {r}
           found == IF v = Nobody THEN None ELSE [query |-> r.for, owner |-> v]
<1>1. /\ r \in Session!Request /\ t \in Tabs /\ s \in Session!Tab /\ rest \in SUBSET requests
      /\ Session!TypeOK /\ SettledInv /\ tab \in [Tabs -> Session!Tab]
  BY DEF SessionInv, Session!TypeOK, Session!Request
<1>2. \A u \in Tabs \ {t} : Settled(u, tab[u], rest) /\ WaitsMarked(tab[u])
  BY <1>1, SettledWithout DEF SettledInv
<1>3. CASE r.kind = "me"
          /\ Session!Rendered(t, Session!SetAuth(s, IF v = Nobody THEN None ELSE v), rest, tok)
  <2> DEFINE u == IF v = Nobody THEN None ELSE v
             s1 == Session!SetAuth(s, u)
  <2>1. Settled(t, s, rest)  BY <1>1, <1>3, SettledWithout
  <2>2. /\ s1 \in Session!Tab /\ s1.user = u /\ s1.typed = s.typed
        /\ u = s.user => /\ s1.libLoading = s.libLoading /\ s1.results = s.results
                         /\ s1.query = s.query
        /\ u # s.user => ~s1.libLoading /\ s1.results = None
    BY <1>1, SetAuthView
  <2> HIDE DEF s1, u
  <2>3. s.user = s1.user => Settled(t, s1, rest)  BY <2>1, <2>2 DEF Settled
  <2> QED  BY <1>1, <1>2, <1>3, <2>2, <2>3, RenderedSettled DEF s1, u
<1>4. CASE r.kind = "playlists" /\ Session!Rendered(t, [s EXCEPT !.playlists = v], rest, tok)
  <2> DEFINE s1 == [s EXCEPT !.playlists = v]
  <2>1. Settled(t, s, rest)  BY <1>1, <1>4, SettledWithout
  <2>2. /\ s1 \in Session!Tab /\ s1.user = s.user /\ s1.typed = s.typed
        /\ s1.libLoading = s.libLoading /\ s1.results = s.results /\ s1.query = s.query
    BY <1>1 DEF Session!Tab
  <2> HIDE DEF s1
  <2>3. Settled(t, s1, rest)  BY <2>1, <2>2 DEF Settled
  <2> QED  BY <1>1, <1>2, <1>4, <2>2, <2>3, RenderedSettled DEF s1
<1>5. CASE /\ r.kind = "library"
           /\ Session!Rendered(t, [s EXCEPT !.library = v, !.libLoading = FALSE], rest, tok)
  <2> DEFINE s1 == [s EXCEPT !.library = v, !.libLoading = FALSE]
  <2>1. Settled(t, s, requests)  BY <1>1 DEF SettledInv
  <2>2. /\ s1 \in Session!Tab /\ s1.user = s.user /\ s1.typed = s.typed
        /\ s1.libLoading = FALSE /\ s1.results = s.results /\ s1.query = s.query
    <3>1. s1 \in Session!Tab  BY <1>1 DEF Session!Tab, Session!Owner
    <3>2. /\ s1.user = s.user /\ s1.typed = s.typed
          /\ s1.libLoading = FALSE /\ s1.results = s.results /\ s1.query = s.query
      BY <1>1 DEF Session!Tab
    <3> QED  BY <3>1, <3>2
  <2>3. SearchIn(t, requests) => SearchIn(t, rest)  BY <1>5 DEF SearchIn
  <2> HIDE DEF s1
  <2>4. Settled(t, s1, rest)  BY <2>1, <2>2, <2>3 DEF Settled
  <2> QED  BY <1>1, <1>2, <1>5, <2>2, <2>4, RenderedSettled DEF s1
<1>6. CASE /\ r.kind = "search" /\ r.latest
           /\ tab' = [tab EXCEPT ![t] = [s EXCEPT !.results = found,
                                                  !.shown = IF r.box THEN found ELSE @]]
           /\ requests' = rest
  <2>1. Settled(t, s, requests) /\ WaitsMarked(s)  BY <1>1 DEF SettledInv
  <2>2. found = None \/ found.query = s.query  BY <1>6, <2>1 DEF Settled
  <2>3. /\ tab'[t].results = found /\ tab'[t].query = s.query /\ tab'[t].typed = s.typed
        /\ tab'[t].libLoading = s.libLoading /\ tab'[t].user = s.user
        /\ tab'[t].at = s.at /\ tab'[t].library = s.library
        /\ \A u \in Tabs \ {t} : tab'[u] = tab[u]
    <3> HIDE DEF found
    <3> QED  BY <1>1, <1>6 DEF Session!Tab
  <2>4. LibraryIn(t, requests) => LibraryIn(t, rest)  BY <1>6 DEF LibraryIn
  <2> HIDE DEF found
  <2>5. Settled(t, tab[t], requests)' /\ WaitsMarked(tab[t])'
    BY <1>6, <2>1, <2>2, <2>3, <2>4 DEF Settled, WaitsMarked, LibraryIn, SearchIn
  <2>6. \A u \in Tabs \ {t} : Settled(u, tab[u], requests)' /\ WaitsMarked(tab[u])'
    BY <1>2, <1>6, <2>3 DEF Settled, WaitsMarked, LibraryIn, SearchIn
  <2> QED  BY <2>5, <2>6 DEF SettledInv
<1>7. CASE /\ \/ r.kind \in {"login", "other"}
              \/ r.kind \in {"playlists", "library"} /\ ~r.same
              \/ r.kind = "search" /\ ~r.latest
           /\ tab' = [tab EXCEPT ![t] = s] /\ requests' = rest
  <2>1. Settled(t, s, rest)  BY <1>1, <1>7, SettledWithout
  <2>2. tab' = tab  BY <1>1, <1>7
  <2>3. \A u \in Tabs : Settled(u, tab[u], requests)' /\ WaitsMarked(tab[u])'
    BY <1>1, <1>2, <1>7, <2>1, <2>2 DEF SettledInv, Settled, WaitsMarked, LibraryIn, SearchIn
  <2> QED  BY <2>3 DEF SettledInv
<1> QED  BY <1>3, <1>4, <1>5, <1>6, <1>7
  DEF Session!Continue, Session!RefreshContinues, Session!PlaylistsContinue,
      Session!LibraryContinues, Session!SearchContinues, Session!NothingContinues

LEMMA AskSettled ==
  ASSUME SessionInv, Session!SessionAssumption, NEW t \in Tabs,
         NEW kind \in {"login", "playlists", "other"}, NEW for \in Users \cup {None},
         Session!Ask(t, kind, for)
  PROVE  SettledInv'
<1> DEFINE q == Session!NewRequest(t, kind, for, token)
<1>1. q.kind = kind  BY NewRequestView DEF SessionInv, Session!TypeOK, Tokens
<1>2. requests' = requests \cup {q} /\ tab' = tab  BY DEF Session!Ask
<1> HIDE DEF q
<1>3. \A u \in Tabs : Settled(u, tab[u], requests \cup {q})
  BY <1>1, SettledWithout DEF SessionInv
<1> QED  BY <1>2, <1>3 DEF SessionInv, SettledInv, Settled, WaitsMarked, LibraryIn, SearchIn

LEMMA ReloadSettled ==
  ASSUME SessionInv, NEW t \in Tabs, Session!Reload(t)
  PROVE  SettledInv'
<1> DEFINE accepted == token # None /\ token \notin expired
           q == Session!NewRequest(t, "me", None, token)
           rest == {r \in requests : r.tab # t}
<1>1. /\ requests' = rest \/ requests' = rest \cup {q}
      /\ tab' = [tab EXCEPT ![t] = [Session!Loaded EXCEPT !.loading = accepted, !.at = tab[t].at]]
  BY DEF Session!Reload
<1>2. q.kind = "me" /\ q.tab = t
  BY NewRequestView DEF SessionInv, Session!TypeOK, Tokens
<1>3. /\ tab'[t].user = None /\ ~tab'[t].libLoading /\ tab'[t].results = None
      /\ \A u \in Tabs \ {t} : tab'[u] = tab[u]
  BY <1>1 DEF SessionInv, Session!TypeOK, Session!Loaded
<1> HIDE DEF q
<1>4. \A r \in requests' : r.tab = t => r.kind = "me"  BY <1>1, <1>2
<1>5. Settled(t, tab[t], requests)' /\ WaitsMarked(tab[t])'
  BY <1>3, <1>4 DEF Settled, WaitsMarked
<1>6. ASSUME NEW u \in Tabs \ {t}
      PROVE  Settled(u, tab[u], requests)' /\ WaitsMarked(tab[u])'
  <2>1. Settled(u, tab[u], requests) /\ WaitsMarked(tab[u])  BY DEF SessionInv, SettledInv
  <2>2. \A r : r.tab = u => (r \in requests' <=> r \in requests)
    BY <1>1, <1>2
  <2> QED  BY <1>3, <2>1, <2>2 DEF Settled, WaitsMarked, LibraryIn, SearchIn
<1> QED  BY <1>5, <1>6 DEF SettledInv

LEMMA RunSearchSettled ==
  ASSUME SessionInv, Session!SessionAssumption, NEW t \in Tabs, Session!RunSearch(t)
  PROVE  SettledInv'
<1> DEFINE s == tab[t]
           box == s.user # None /\ s.at = "search"
           n == Session!NewRequest(t, "search", s.typed, token)
           q == [n EXCEPT !.box = box]
<1>1. s.typed \in Queries /\ tab \in [Tabs -> Session!Tab] /\ s \in Session!Tab
  BY DEF Session!RunSearch, SessionInv, Session!TypeOK, Session!Tab
<1>2. n \in Session!Request /\ n.kind = "search" /\ n.for = s.typed /\ n.tab = t /\ n.latest
  BY <1>1, NewRequestView DEF SessionInv, Session!TypeOK, Tokens
<1>3. q.kind = "search" /\ q.for = s.typed /\ q.tab = t /\ q.latest
  <2> HIDE DEF n
  <2> QED  BY <1>2 DEF Session!Request
<1>4. requests' = {Session!Overtaken(r, t) : r \in requests} \cup {q}
  BY DEF Session!RunSearch
<1>5. \A r \in requests : /\ Carried(Session!Overtaken(r, t), r)
                          /\ Session!Overtaken(r, t).same = r.same
                          /\ Session!Overtaken(r, t).latest <=> r.latest /\ r.tab # t
  BY OvertakenView DEF SessionInv, Session!TypeOK
<1>6. /\ tab'[t].query = s.typed /\ tab'[t].libLoading = s.libLoading /\ tab'[t].user = s.user
      /\ tab'[t].at = s.at /\ tab'[t].library = s.library
      /\ \A u \in Tabs \ {t} : tab'[u] = tab[u]
  BY <1>1 DEF Session!RunSearch, Session!Tab
<1> HIDE DEF q
<1>7. \A u \in Tabs : LibraryIn(u, requests) => LibraryIn(u, requests')
  BY <1>4, <1>5 DEF LibraryIn, Carried
<1>8. \A u \in Tabs \ {t} : SearchIn(u, requests) => SearchIn(u, requests')
  BY <1>4, <1>5 DEF SearchIn, Carried
<1>9. SearchIn(t, requests')  BY <1>3, <1>4 DEF SearchIn
<1>10. Settled(t, s, requests) /\ WaitsMarked(s)  BY DEF SessionInv, SettledInv
<1>11. Settled(t, tab[t], requests)' /\ WaitsMarked(tab[t])'
  <2>1. \A r \in requests' : r.tab = t /\ r.kind = "search" /\ r.latest => r.for = s.typed
    BY <1>3, <1>4, <1>5 DEF Carried
  <2> QED
    BY <1>6, <1>7, <1>9, <1>10, <2>1 DEF Settled, WaitsMarked, LibraryIn, SearchIn
<1>12. ASSUME NEW u \in Tabs \ {t}
       PROVE  Settled(u, tab[u], requests)' /\ WaitsMarked(tab[u])'
  <2>1. Settled(u, tab[u], requests) /\ WaitsMarked(tab[u])  BY DEF SessionInv, SettledInv
  <2>2. \A r \in requests' : r.tab = u /\ r.kind = "search" /\ r.latest => r.for = tab[u].query
    BY <1>3, <1>4, <1>5, <2>1 DEF Carried, Settled
  <2> QED
    BY <1>6, <1>7, <1>8, <2>1, <2>2 DEF Settled, WaitsMarked, LibraryIn, SearchIn
<1> QED  BY <1>11, <1>12 DEF SettledInv

LEMMA ClearSearchSettled ==
  ASSUME SessionInv, NEW t \in Tabs, Session!ClearSearch(t)
  PROVE  SettledInv'
<1>1. tab \in [Tabs -> Session!Tab] /\ tab[t] \in Session!Tab  BY DEF SessionInv, Session!TypeOK
<1>2. requests' = {Session!Overtaken(r, t) : r \in requests}  BY DEF Session!ClearSearch
<1>3. \A r \in requests : /\ Carried(Session!Overtaken(r, t), r)
                          /\ Session!Overtaken(r, t).same = r.same
                          /\ Session!Overtaken(r, t).latest <=> r.latest /\ r.tab # t
  BY OvertakenView DEF SessionInv, Session!TypeOK
<1>4. /\ tab'[t].results = None /\ tab'[t].libLoading = tab[t].libLoading
      /\ tab'[t].user = tab[t].user /\ tab'[t].at = tab[t].at
      /\ tab'[t].library = tab[t].library
      /\ \A u \in Tabs \ {t} : tab'[u] = tab[u]
  BY <1>1 DEF Session!ClearSearch, Session!Tab
<1>5. \A u \in Tabs : LibraryIn(u, requests) => LibraryIn(u, requests')
  BY <1>2, <1>3 DEF LibraryIn, Carried
<1>6. \A u \in Tabs \ {t} : SearchIn(u, requests) => SearchIn(u, requests')
  BY <1>2, <1>3 DEF SearchIn, Carried
<1>7. Settled(t, tab[t], requests)' /\ WaitsMarked(tab[t])'
  <2>1. \A r \in requests' : r.tab = t => ~r.latest  BY <1>2, <1>3 DEF Carried
  <2>2. Settled(t, tab[t], requests) /\ WaitsMarked(tab[t])  BY DEF SessionInv, SettledInv
  <2> QED
    BY <1>4, <1>5, <2>1, <2>2 DEF Settled, WaitsMarked, LibraryIn, SearchIn
<1>8. ASSUME NEW u \in Tabs \ {t}
      PROVE  Settled(u, tab[u], requests)' /\ WaitsMarked(tab[u])'
  <2>1. Settled(u, tab[u], requests) /\ WaitsMarked(tab[u])  BY DEF SessionInv, SettledInv
  <2>2. \A r \in requests' : r.tab = u /\ r.kind = "search" /\ r.latest => r.for = tab[u].query
    BY <1>2, <1>3, <2>1 DEF Carried, Settled
  <2> QED
    BY <1>4, <1>5, <1>6, <2>1, <2>2 DEF Settled, WaitsMarked, LibraryIn, SearchIn
<1> QED  BY <1>7, <1>8 DEF SettledInv

(* doLogin: the page is built for the new user, and the start page after it. *)
LEMMA LoggedInSettled ==
  ASSUME SessionInv, Session!TypeOK', NEW r \in requests, Session!LoggedIn(r)
  PROVE  SettledInv'
<1> DEFINE t == r.tab
           s == tab[t]
           rest == requests \ {r}
           s1 == Session!SetAuth(s, r.for)
           s2 == Session!Render(s1)
           s3 == [s2 EXCEPT !.at = "home"]
           s4 == Session!Render(s3)
<1>1. /\ t \in Tabs /\ s \in Session!Tab /\ rest \in SUBSET requests /\ r.for \in Users
      /\ Session!TypeOK /\ SettledInv /\ tab \in [Tabs -> Session!Tab] /\ r.kind = "login"
  BY DEF SessionInv, Session!TypeOK, Session!Request, Session!LoggedIn, RequestsOK
<1>2. PICK fresh \in Session!Unused(r.for) :
        tab' = [tab EXCEPT ![t] = s4] /\ requests' = Session!Asked(t, s1, rest, fresh)
  BY DEF Session!LoggedIn
<1>3. fresh \in Tokens  BY DEF Session!Unused, Tokens
<1>4. \A u \in Tabs : Settled(u, tab[u], rest) /\ WaitsMarked(tab[u])
  BY <1>1, SettledWithout DEF SettledInv
<1>5. /\ s1 \in Session!Tab /\ s1.user = r.for /\ s1.typed = s.typed
      /\ s1.user = s.user => /\ s1.libLoading = s.libLoading /\ s1.results = s.results
                             /\ s1.query = s.query
      /\ s1.user # s.user => ~s1.libLoading /\ s1.results = None
  BY <1>1, SetAuthView
<1> HIDE DEF s1
<1>6. /\ s2 \in Session!Tab
      /\ s2.libLoading <=> s1.libLoading \/ Session!LoadsLibrary(s1)
      /\ s2.typed = s1.typed /\ s2.results = s1.results /\ s2.query = s1.query
  BY <1>5, RenderView
<1> HIDE DEF s2
<1>7. /\ s3 \in Session!Tab /\ s3.libLoading = s2.libLoading /\ s3.at = "home"
      /\ s3.typed = s2.typed /\ s3.results = s2.results /\ s3.query = s2.query
  BY <1>6 DEF Session!Tab
<1> HIDE DEF s3
<1>8. /\ s4.libLoading <=> s3.libLoading
      /\ s4.at = "home"
      /\ s4.typed = s3.typed /\ s4.results = s3.results /\ s4.query = s3.query
  <2>1. ~Session!LoadsLibrary(s3)  BY <1>7 DEF Session!LoadsLibrary
  <2> QED  BY <1>7, <2>1, RenderView
<1> HIDE DEF s4
<1>9. s.user = s1.user => Settled(t, s1, rest)
  BY <1>1, <1>4, <1>5 DEF Settled
<1>10. Settled(t, s4, requests')
  <2> DEFINE new == Session!Asked(t, s1, rest, fresh)
  <2>1. /\ s1.libLoading \/ Session!LoadsLibrary(s1) => LibraryIn(t, new)
        /\ s1.typed # None \/ SearchIn(t, new) \/ s1.results = None \/ s1.results.query = s1.query
        /\ \A q \in new : q.tab = t /\ q.kind = "search" /\ q.latest => q.for = s1.query
    BY <1>1, <1>3, <1>5, <1>9, AskedSettled
  <2>2. requests' = new  BY <1>2
  <2> HIDE DEF new
  <2> QED  BY <1>6, <1>7, <1>8, <2>1, <2>2 DEF Settled
<1>11. WaitsMarked(s4)  BY <1>8 DEF WaitsMarked
<1>12. \A u \in Tabs \ {t} : Settled(u, tab[u], requests')
  BY <1>1, <1>2, <1>3, <1>4, <1>5, AskedElsewhere
<1>13. tab'[t] = s4 /\ \A u \in Tabs \ {t} : tab'[u] = tab[u]  BY <1>1, <1>2
<1>14. \A u \in Tabs : Settled(u, tab[u], requests)' /\ WaitsMarked(tab[u])'
  BY <1>4, <1>10, <1>11, <1>12, <1>13 DEF Settled, WaitsMarked, LibraryIn, SearchIn
<1> QED  BY <1>14 DEF SettledInv

LEMMA SettledInit == Session!Init => SettledInv
BY DEF Session!Init, Session!Loaded, SettledInv, Settled, WaitsMarked

LEMMA SettledStep ==
  ASSUME SessionInv, Session!SessionAssumption, [Session!Next]_(Session!vars)
  PROVE  SessionInv'
<1>0. /\ Session!TypeOK /\ RequestsOK /\ SettledInv /\ Session!TypeOK' /\ RequestsOK'
      /\ tab \in [Tabs -> Session!Tab] /\ token \in Tokens /\ None \in Tokens
                /\ requests \subseteq Session!Request
      /\ \A t \in Tabs : Settled(t, tab[t], requests) /\ WaitsMarked(tab[t])
  BY TypeStep DEF SessionInv, Session!TypeOK, Tokens, SettledInv
<1>1. ASSUME NEW t \in Tabs, Session!Reload(t) PROVE SettledInv'
  BY <1>1, ReloadSettled
<1>2. ASSUME NEW t \in Tabs, NEW u \in Users, Session!AskLogin(t, u) PROVE SettledInv'
  BY <1>2, AskSettled DEF Session!AskLogin
<1>3. ASSUME NEW t \in Tabs, Session!LoadPlaylists(t) \/ Session!Call(t) PROVE SettledInv'
  BY <1>3, AskSettled DEF Session!LoadPlaylists, Session!Call
<1>4. ASSUME NEW t \in Tabs, Session!Logout(t) PROVE SettledInv'
  <2> DEFINE a == Session!SetAuth(tab[t], None)
             s1 == [a EXCEPT !.at = "home"]
  <2>1. a \in Session!Tab /\ a.user = None /\ (None # tab[t].user => ~a.libLoading
            /\ a.results = None)
    BY <1>0, SetAuthView
  <2>2. tab[t].user # None /\ Session!Rendered(t, s1, requests, None)  BY <1>4 DEF Session!Logout
  <2> HIDE DEF a
  <2>3. s1 \in Session!Tab /\ s1.user = None /\ s1.libLoading = a.libLoading
            /\ s1.results = a.results
    BY <2>1 DEF Session!Tab
  <2> HIDE DEF s1
  <2>4. ~s1.libLoading /\ s1.results = None  BY <2>1, <2>2, <2>3
  <2> QED  BY <1>0, <2>2, <2>3, <2>4, RenderedSettled
<1>5. ASSUME NEW t \in Tabs, NEW place \in {"home", "library", "search"}, Session!Navigate(t, place)
      PROVE  SettledInv'
  <2> DEFINE s1 == [tab[t] EXCEPT !.at = place]
  <2>1. /\ s1 \in Session!Tab /\ s1.user = tab[t].user /\ s1.typed = tab[t].typed
        /\ s1.libLoading = tab[t].libLoading /\ s1.results = tab[t].results
        /\ s1.query = tab[t].query
    BY <1>0 DEF Session!Tab
  <2>2. Session!Rendered(t, s1, requests, token)  BY <1>5 DEF Session!Navigate
  <2> HIDE DEF s1
  <2>3. Settled(t, s1, requests)  BY <1>0, <2>1 DEF Settled
  <2> QED  BY <1>0, <2>1, <2>2, <2>3, RenderedSettled
<1>6. ASSUME NEW t \in Tabs,
             requests' = requests,
             \/ tab' = [tab EXCEPT ![t].queue = tab[t].library]
             \/ \E q \in Queries : tab' = [tab EXCEPT ![t].typed = q]
      PROVE  SettledInv'
  <2>1. ASSUME NEW u \in Tabs
        PROVE  /\ tab'[u].libLoading = tab[u].libLoading /\ tab'[u].results = tab[u].results
               /\ tab'[u].query = tab[u].query /\ tab'[u].user = tab[u].user
               /\ tab'[u].at = tab[u].at /\ tab'[u].library = tab[u].library
               /\ tab'[u].typed = tab[u].typed \/ tab'[u].typed \in Queries
    <3>1. tab[u] \in Session!Tab /\ tab[t] \in Session!Tab  BY <1>0
    <3> QED  BY <1>0, <1>6, <3>1 DEF Session!Tab
  <2>2. None \notin Queries  BY DEF Session!SessionAssumption
  <2>3. ASSUME NEW u \in Tabs PROVE Settled(u, tab[u], requests)' /\ WaitsMarked(tab[u])'
    BY <1>0, <1>6, <2>1, <2>2 DEF Settled, WaitsMarked, LibraryIn, SearchIn
  <2> QED  BY <2>3 DEF SettledInv
<1>7. ASSUME NEW t \in Tabs, Session!Play(t) PROVE SettledInv'
  BY <1>6, <1>7 DEF Session!Play
<1>8. ASSUME NEW t \in Tabs, NEW q \in Queries, Session!Type(t, q) PROVE SettledInv'
  BY <1>6, <1>8 DEF Session!Type
<1>9. ASSUME NEW t \in Tabs, Session!RunSearch(t) \/ Session!ClearSearch(t) PROVE SettledInv'
  BY <1>9, RunSearchSettled, ClearSearchSettled
<1>10. ASSUME NEW r \in requests, Session!Answer(r) PROVE SettledInv'
  <2>1. r.token.user \in Users  BY <1>0, <1>10
    DEF Session!Answer, Session!Accepted, Session!Request, Session!Token
  <2>2. token' \in Tokens  BY <1>0 DEF Session!TypeOK, Tokens
  <2> QED  BY <1>0, <1>10, <2>1, <2>2, ContinueSettled DEF Session!Answer
<1>11. ASSUME NEW r \in requests, Session!Unauthorized(r) PROVE SettledInv'
  <2>1. CASE Session!Still(r) /\ tab[r.tab].user # None
    <3> DEFINE s1 == Session!SetAuth(tab[r.tab], None)
    <3>1. r.tab \in Tabs /\ tab[r.tab] \in Session!Tab  BY <1>0 DEF Session!Request
    <3>2. s1 \in Session!Tab /\ s1.user = None /\ ~s1.libLoading /\ s1.results = None
      BY <2>1, <3>1, SetAuthView
    <3>3. Session!Rendered(r.tab, s1, requests \ {r}, None)  BY <1>11, <2>1 DEF Session!Unauthorized
    <3> HIDE DEF s1
    <3>4. \A u \in Tabs \ {r.tab} : Settled(u, tab[u], requests \ {r}) /\ WaitsMarked(tab[u])
      BY <1>0, SettledWithout
    <3> QED  BY <1>0, <2>1, <3>1, <3>2, <3>3, <3>4, RenderedSettled
  <2>2. CASE ~(Session!Still(r) /\ tab[r.tab].user # None)
    <3>1. token' \in Tokens  BY <1>0 DEF Session!TypeOK, Tokens
    <3> QED  BY <1>0, <1>11, <2>2, <3>1, ContinueSettled DEF Session!Unauthorized
  <2> QED  BY <2>1, <2>2
<1>12. ASSUME NEW r \in requests, Session!Fail(r) PROVE SettledInv'
  BY <1>0, <1>12, ContinueSettled DEF Session!Fail
<1>13. ASSUME NEW r \in requests, Session!LoggedIn(r) PROVE SettledInv'
  BY <1>0, <1>13, LoggedInSettled
<1>14. ASSUME Session!Expire \/ UNCHANGED Session!vars PROVE SettledInv'
  BY <1>0, <1>14
    DEF Session!Expire, Session!vars, SettledInv, Settled, WaitsMarked, LibraryIn, SearchIn
<1>15. SettledInv'
  BY <1>1, <1>2, <1>3, <1>4, <1>5, <1>7, <1>8, <1>9, <1>10, <1>11, <1>12, <1>13, <1>14
  DEF Session!Next
<1> QED  BY <1>0, <1>15 DEF SessionInv

LEMMA SessionIsSound == SessionInv => Session!Sound
BY DEF SessionInv, Session!Sound, Session!LatestSearchWins, Session!LibraryAsked,
       Session!Searching, Session!Waiting, SettledInv, Settled, WaitsMarked, LibraryIn, SearchIn

-----------------------------------------------------------------------------
(* The stored token.                                                        *)

TokenStep ==
  /\ token \notin expired \cup {None} /\ token' = None
       => \E t \in Tabs : Session!Logout(t) \/ \E r \in requests : r.kind = "login"
                 /\ Session!Unauthorized(r)
  /\ token' # None /\ (token = None \/ token.user # token'.user)
       => \E r \in requests : Session!LoggedIn(r)

LEMMA TokenStepHolds ==
  ASSUME Session!TypeOK, Session!SessionAssumption, [Session!Next]_(Session!vars)
  PROVE  TokenStep
<1>1. CASE token' = token
  <2>1. ~(token \notin expired \cup {None} /\ token' = None)  BY <1>1
  <2>2. ~(token' # None /\ (token = None \/ token.user # token'.user))  BY <1>1
  <2> QED  BY <2>1, <2>2 DEF TokenStep
<1>2. CASE \E t \in Tabs : Session!Reload(t)
  BY <1>1, <1>2 DEF Session!Reload, TokenStep
<1>3. CASE \E t \in Tabs : Session!Logout(t)
  BY <1>3 DEF Session!Logout, TokenStep
<1>4. ASSUME NEW r \in requests, Session!Answer(r), token' # token PROVE TokenStep
  <2>1. Session!Still(r) /\ Session!Accepted(r) /\ token' \in Session!Unused(r.token.user)
            BY <1>4 DEF Session!Answer
  <2>2. token = r.token /\ token # None /\ token' \in Session!Token /\ token'.user = token.user
    BY <2>1 DEF Session!Still, Session!Accepted, Session!Unused
  <2>3. token' # None  BY <2>2 DEF Session!SessionAssumption
  <2> QED  BY <2>2, <2>3 DEF TokenStep
<1>5. ASSUME NEW r \in requests, Session!Unauthorized(r), token' # token PROVE TokenStep
  <2>1. Session!Still(r) /\ token' = None  BY <1>5 DEF Session!Unauthorized
  <2>2. token \notin expired \cup {None} => r.kind = "login"
    BY <1>5, <2>1 DEF Session!Unauthorized, Session!Still, Session!Accepted
  <2>3. r.tab \in Tabs  BY DEF Session!TypeOK, Session!Request
  <2> QED  BY <1>5, <2>1, <2>2, <2>3 DEF TokenStep
<1>6. ASSUME NEW r \in requests, Session!LoggedIn(r) PROVE TokenStep
  <2>1. token' \in Session!Token  BY <1>6 DEF Session!LoggedIn, Session!Unused
  <2>2. token' # None  BY <2>1 DEF Session!SessionAssumption
  <2> QED  BY <1>6, <2>2 DEF TokenStep
<1>7. \/ token' = token \/ \E t \in Tabs : Session!Reload(t) \/ Session!Logout(t)
      \/ \E r \in requests : Session!Answer(r) \/ Session!Unauthorized(r) \/ Session!LoggedIn(r)
  BY DEF Session!Next, Session!vars, Session!AskLogin, Session!LoadPlaylists, Session!Call,
      Session!Ask, Session!Navigate, Session!Play, Session!Type, Session!RunSearch,
         Session!ClearSearch, Session!Fail, Session!Expire
<1> QED  BY <1>1, <1>2, <1>3, <1>4, <1>5, <1>6, <1>7

-----------------------------------------------------------------------------
(* One tab: whose data it keeps.                                            *)

(* The answer to r will be kept.                                            *)
Live(r) == (r.kind \in {"playlists", "library"} /\ r.same) \/ (r.kind = "search" /\ r.latest)

(* What was fetched for s belongs to the members of S.                      *)
Fetched(s, S) ==
  /\ s.playlists \in S /\ s.library \in S /\ s.queue \in S
  /\ s.results # None => s.results.owner \in S

Rightful(s) == {s.user, None, Nobody}

(* A tab that is s, with tok stored and rs under way: the token is the      *)
(* user's, requests whose answers will be kept carry a token of his, a      *)
(* loading page asks for nothing but who he is, and a search that outlives  *)
(* its session finds no token.                                              *)
Own(s, tok, rs) ==
  /\ tok # None /\ s.user # None => tok.user = s.user
  /\ s.user = None /\ s.typed # None => tok = None
  /\ \A r \in rs : r.kind = "me" =>
       rs = {r} /\ s.user = None /\ s.typed = None /\ r.token = tok /\ s.loading
  /\ \A r \in rs : Live(r) /\ r.token # None => r.token.user = s.user
  /\ Session!Kept(s) \subseteq Rightful(s)

(* The promise is kept by a step, which leaves nothing for another user.    *)
OwnStep(t) ==
  /\ Own(tab'[t], token', requests')
  /\ tab'[t].user # tab[t].user => Session!Kept(tab'[t]) \subseteq {None, Nobody}

LEMMA KeptView ==
  ASSUME NEW s \in Session!Tab, NEW S
  PROVE  Session!Kept(s) \subseteq S <=> Fetched(s, S) /\ (s.shown # None => s.shown.owner \in S)
BY DEF Session!Kept, Fetched

LEMMA AskedOwn ==
  ASSUME Session!TypeOK, NEW t \in Tabs, NEW s1 \in Session!Tab, NEW rs \in SUBSET requests,
         NEW tok \in Tokens,
         \A r \in rs : r.tab = t /\ r.kind # "me",
         tok # None /\ s1.user # None => tok.user = s1.user,
         tab[t].user = s1.user =>
           \A r \in rs : Live(r) /\ r.token # None => r.token.user = s1.user
  PROVE  \A q \in Session!Asked(t, s1, rs, tok) :
           q.kind # "me" /\ (Live(q) /\ q.token # None => q.token.user = s1.user)
<1> SUFFICES ASSUME NEW q \in Session!Asked(t, s1, rs, tok)
             PROVE  q.kind # "me" /\ (Live(q) /\ q.token # None => q.token.user = s1.user)
  OBVIOUS
<1>1. CASE \E r \in rs :
             /\ Carried(q, r)
             /\ r.tab = t /\ tab[t].user # s1.user => ~q.same /\ ~q.latest
  BY <1>1 DEF Carried, Live
<1>2. CASE /\ q.token = tok
           /\ \/ q.kind = "library" /\ Session!LoadsLibrary(s1)
              \/ q.kind = "search" /\ Session!SearchesAgain(s1)
              \/ q.kind = "playlists" /\ s1.user # None
  BY <1>2 DEF Session!LoadsLibrary, Session!SearchesAgain
<1> QED  BY <1>1, <1>2, AskedOrigin

LEMMA RenderedOwn ==
  ASSUME Session!TypeOK, NEW t \in Tabs, NEW s1 \in Session!Tab, NEW rs \in SUBSET requests,
         NEW tok \in Tokens,
         Session!Rendered(t, s1, rs, tok), token' = tok,
         \A r \in rs : r.tab = t /\ r.kind # "me",
         tok # None /\ s1.user # None => tok.user = s1.user,
         s1.user = None /\ s1.typed # None => tok = None,
         tab[t].user = s1.user =>
           \A r \in rs : Live(r) /\ r.token # None => r.token.user = s1.user,
         Fetched(s1, Rightful(s1)),
         tab[t].user # s1.user => Fetched(s1, {None, Nobody})
  PROVE  OwnStep(t)
<1> DEFINE n == Session!Render(s1)
<1>1. requests' = Session!Asked(t, s1, rs, tok) /\ tab'[t] = n  BY
  DEF Session!Rendered, Session!TypeOK
<1>2. /\ n \in Session!Tab /\ n.user = s1.user /\ n.typed = s1.typed
      /\ n.playlists = s1.playlists /\ n.library = s1.library /\ n.queue = s1.queue
      /\ n.results = s1.results /\ n.shown \in {None, s1.results}
  BY RenderView
<1> HIDE DEF n
<1>3. \A S : Fetched(s1, S) => Session!Kept(n) \subseteq S
  BY <1>2, KeptView DEF Fetched
<1>4. \A q \in requests' :
        q.kind # "me" /\ (Live(q) /\ q.token # None => q.token.user = s1.user)
  BY <1>1, AskedOwn
<1>5. Session!Kept(n) \subseteq Rightful(n)  BY <1>2, <1>3 DEF Rightful
<1>6. n.user # tab[t].user => Session!Kept(n) \subseteq {None, Nobody}  BY <1>2, <1>3
<1> QED  BY <1>1, <1>2, <1>4, <1>5, <1>6 DEF OwnStep, Own

(* The caller of r goes on with data of the owner of its token, if with any. *)
LEMMA ContinueOwn ==
  ASSUME Session!TypeOK, RequestsOK, Session!SessionAssumption, NEW t, Tabs = {t},
         Own(tab[t], token, requests), NEW r \in requests, NEW v \in Users \cup {Nobody},
         NEW tok \in Tokens, token' = tok, Session!Continue(r, tab[r.tab], v, tok),
         v # Nobody => r.token # None /\ v = r.token.user,
         tok # None => token # None /\ tok.user = token.user
  PROVE  OwnStep(t)
<1> DEFINE s == tab[t]
           rest == requests \ {r}
           found == IF v = Nobody THEN None ELSE [query |-> r.for, owner |-> v]
<1>1. /\ r \in Session!Request /\ r.tab = t /\ t \in Tabs /\ s \in Session!Tab
          /\ rest \in SUBSET requests
      /\ tab \in [Tabs -> Session!Tab] /\ \A q \in requests : q.tab = t
  BY DEF Session!TypeOK, Session!Request
<1>2. \A q \in rest : q.kind # "me"  BY DEF Own
<1>3. Fetched(s, Rightful(s)) /\ (s.shown # None => s.shown.owner \in Rightful(s))
  BY <1>1, KeptView DEF Own
<1>4. /\ tok # None /\ s.user # None => tok.user = s.user
      /\ s.user = None /\ s.typed # None => tok = None
      /\ \A q \in rest : Live(q) /\ q.token # None => q.token.user = s.user
      /\ Live(r) => v \in {s.user, Nobody}
  BY DEF Own
<1>5. CASE r.kind = "me"
          /\ Session!Rendered(t, Session!SetAuth(s, IF v = Nobody THEN None ELSE v), rest, tok)
  <2> DEFINE u == IF v = Nobody THEN None ELSE v
             s1 == Session!SetAuth(s, u)
  <2>1. s.user = None /\ s.typed = None /\ r.token = token /\ rest = {}  BY <1>5 DEF Own
  <2>2. /\ s1 \in Session!Tab /\ s1.user = u /\ s1.typed = s.typed
        /\ u = s.user => /\ s1.playlists = s.playlists /\ s1.library = s.library
                         /\ s1.queue = s.queue /\ s1.results = s.results
        /\ u # s.user => /\ s1.playlists = Nobody /\ s1.library = None
                         /\ s1.queue = None /\ s1.results = None
    BY <1>1, SetAuthView
  <2>3. tok # None /\ u # None => tok.user = u  BY <2>1
  <2> HIDE DEF s1, u
  <2>4. Fetched(s1, Rightful(s1)) /\ (s.user # s1.user => Fetched(s1, {None, Nobody}))
    BY <1>3, <2>2 DEF Fetched, Rightful
  <2>5. Session!Rendered(t, s1, rest, tok)  BY <1>5 DEF s1, u
  <2>6. s1.user = None /\ s1.typed # None => tok = None  BY <2>1, <2>2
  <2>7. tok # None /\ s1.user # None => tok.user = s1.user  BY <2>2, <2>3
  <2> QED  BY <1>1, <2>1, <2>2, <2>4, <2>5, <2>6, <2>7, RenderedOwn
<1>6. CASE r.kind = "playlists" /\ r.same
          /\ Session!Rendered(t, [s EXCEPT !.playlists = v], rest, tok)
  <2> DEFINE s1 == [s EXCEPT !.playlists = v]
  <2>1. /\ s1 \in Session!Tab /\ s1.user = s.user /\ s1.typed = s.typed /\ s1.playlists = v
        /\ s1.library = s.library /\ s1.queue = s.queue /\ s1.results = s.results
    BY <1>1 DEF Session!Tab
  <2>2. v \in {s.user, Nobody}  BY <1>4, <1>6 DEF Live
  <2> HIDE DEF s1
  <2>3. Fetched(s1, Rightful(s1))  BY <1>3, <2>1, <2>2 DEF Fetched, Rightful
  <2>4. Session!Rendered(t, s1, rest, tok) /\ tab[t].user = s1.user  BY <1>6, <2>1 DEF s1
  <2>5. /\ \A q \in rest : q.tab = t /\ q.kind # "me"
        /\ tok # None /\ s1.user # None => tok.user = s1.user
        /\ s1.user = None /\ s1.typed # None => tok = None
        /\ \A q \in rest : Live(q) /\ q.token # None => q.token.user = s1.user
    BY <1>1, <1>2, <1>4, <2>1
  <2> QED  BY <1>1, <2>1, <2>3, <2>4, <2>5, RenderedOwn
<1>7. CASE /\ r.kind = "library" /\ r.same
           /\ Session!Rendered(t, [s EXCEPT !.library = v, !.libLoading = FALSE], rest, tok)
  <2> DEFINE s1 == [s EXCEPT !.library = v, !.libLoading = FALSE]
  <2>1. /\ s1 \in Session!Tab /\ s1.user = s.user /\ s1.typed = s.typed /\ s1.library = v
        /\ s1.playlists = s.playlists /\ s1.queue = s.queue /\ s1.results = s.results
    BY <1>1 DEF Session!Tab, Session!Owner
  <2>2. v \in {s.user, Nobody}  BY <1>4, <1>7 DEF Live
  <2> HIDE DEF s1
  <2>3. Fetched(s1, Rightful(s1))  BY <1>3, <2>1, <2>2 DEF Fetched, Rightful
  <2>4. Session!Rendered(t, s1, rest, tok) /\ tab[t].user = s1.user  BY <1>7, <2>1 DEF s1
  <2>5. /\ \A q \in rest : q.tab = t /\ q.kind # "me"
        /\ tok # None /\ s1.user # None => tok.user = s1.user
        /\ s1.user = None /\ s1.typed # None => tok = None
        /\ \A q \in rest : Live(q) /\ q.token # None => q.token.user = s1.user
    BY <1>1, <1>2, <1>4, <2>1
  <2> QED  BY <1>1, <2>1, <2>3, <2>4, <2>5, RenderedOwn
<1>8. CASE /\ r.kind = "search" /\ r.latest
           /\ tab' = [tab EXCEPT ![t] = [s EXCEPT !.results = found,
                                                  !.shown = IF r.box THEN found ELSE @]]
           /\ requests' = rest
  <2> DEFINE n == [s EXCEPT !.results = found, !.shown = IF r.box THEN found ELSE @]
  <2>1. found \in Session!Results \cup {None} /\ (found # None => found.owner = s.user)
    BY <1>4, <1>8 DEF RequestsOK, Session!Results, Live
  <2> HIDE DEF found
  <2>2. /\ n \in Session!Tab /\ n.user = s.user /\ n.typed = s.typed /\ n.playlists = s.playlists
        /\ n.library = s.library /\ n.queue = s.queue /\ n.results = found
        /\ n.shown \in {found, s.shown}
    <3> DEFINE shown == IF r.box THEN found ELSE s.shown
    <3>1. n = [s EXCEPT !.results = found, !.shown = shown]  OBVIOUS
    <3>2. shown \in {found, s.shown} /\ s.shown \in Session!Results \cup {None}  BY <1>1
      DEF Session!Tab
    <3> HIDE DEF n, shown
    <3>3. n \in Session!Tab  BY <1>1, <2>1, <3>1, <3>2, ZenonT(40) DEF Session!Tab
    <3>4. /\ n.user = s.user /\ n.typed = s.typed /\ n.playlists = s.playlists
          /\ n.library = s.library /\ n.queue = s.queue /\ n.results = found
          /\ n.shown = shown
      BY <1>1, <3>1 DEF Session!Tab
    <3> QED  BY <3>2, <3>3, <3>4
  <2>3. tab'[t] = n  BY <1>1, <1>8
  <2> HIDE DEF n
  <2>4. Session!Kept(n) \subseteq Rightful(n)
    BY <1>3, <2>1, <2>2, KeptView DEF Fetched, Rightful
  <2> QED  BY <1>2, <1>4, <1>8, <2>2, <2>3, <2>4 DEF OwnStep, Own
<1>9. CASE tab' = [tab EXCEPT ![t] = s] /\ requests' = rest
  BY <1>1, <1>2, <1>4, <1>9 DEF OwnStep, Own
<1> QED  BY <1>1, <1>5, <1>6, <1>7, <1>8, <1>9
  DEF Session!Continue, Session!RefreshContinues, Session!PlaylistsContinue,
      Session!LibraryContinues, Session!SearchContinues, Session!NothingContinues

(* Nobody is signed in any more.                                            *)
LEMMA SignedOutOwn ==
  ASSUME Session!TypeOK, NEW t, Tabs = {t}, Own(tab[t], token, requests), tab[t].user # None,
         NEW rs \in SUBSET requests, NEW s1 \in Session!Tab,
         s1.user = None, Fetched(s1, {None, Nobody}),
         Session!Rendered(t, s1, rs, None), token' = None
  PROVE  OwnStep(t)
<1>1. t \in Tabs /\ None \in Tokens  BY DEF Tokens
<1>2. \A r \in rs : r.tab = t /\ r.kind # "me"  BY DEF Own, Session!TypeOK, Session!Request
<1>3. Fetched(s1, Rightful(s1))  BY DEF Fetched, Rightful
<1> QED  BY <1>1, <1>2, <1>3, RenderedOwn

LEMMA LoggedInOwn ==
  ASSUME Session!TypeOK, RequestsOK, Session!SessionAssumption, NEW t, Tabs = {t},
         Own(tab[t], token, requests), NEW r \in requests, Session!LoggedIn(r)
  PROVE  OwnStep(t)
<1> DEFINE s == tab[t]
           rest == requests \ {r}
           s1 == Session!SetAuth(s, r.for)
           s2 == Session!Render(s1)
           s3 == [s2 EXCEPT !.at = "home"]
           s4 == Session!Render(s3)
<1>1. /\ r.tab = t /\ t \in Tabs /\ s \in Session!Tab /\ rest \in SUBSET requests /\ r.for \in Users
      /\ tab \in [Tabs -> Session!Tab] /\ \A q \in rest : q.tab = t /\ q.kind # "me"
  BY DEF Session!TypeOK, Session!Request, Session!LoggedIn, RequestsOK, Own
<1>2. PICK fresh \in Session!Unused(r.for) :
        token' = fresh /\ tab' = [tab EXCEPT ![t] = s4] /\
                  requests' = Session!Asked(t, s1, rest, fresh)
  BY <1>1 DEF Session!LoggedIn
<1>3. fresh \in Tokens /\ fresh.user = r.for /\ r.for # None
  BY <1>1 DEF Session!Unused, Tokens, Session!SessionAssumption
<1>4. Fetched(s, Rightful(s)) /\ \A q \in rest : Live(q) /\ q.token # None => q.token.user = s.user
  BY <1>1, KeptView DEF Own
<1>5. /\ s1 \in Session!Tab /\ s1.user = r.for
      /\ s1.user = s.user => /\ s1.playlists = s.playlists /\ s1.library = s.library
                             /\ s1.queue = s.queue /\ s1.results = s.results
      /\ s1.user # s.user => /\ s1.playlists = Nobody /\ s1.library = None
                             /\ s1.queue = None /\ s1.results = None
  BY <1>1, SetAuthView
<1> HIDE DEF s1
<1>6. /\ s2 \in Session!Tab /\ s2.user = s1.user /\ s2.playlists = s1.playlists
      /\ s2.library = s1.library /\ s2.queue = s1.queue /\ s2.results = s1.results
  BY <1>5, RenderView
<1> HIDE DEF s2
<1>7. /\ s3 \in Session!Tab /\ s3.user = s2.user /\ s3.playlists = s2.playlists
      /\ s3.library = s2.library /\ s3.queue = s2.queue /\ s3.results = s2.results
  BY <1>6 DEF Session!Tab
<1> HIDE DEF s3
<1>8. /\ s4 \in Session!Tab /\ s4.user = s3.user /\ s4.playlists = s3.playlists
      /\ s4.library = s3.library /\ s4.queue = s3.queue /\ s4.results = s3.results
      /\ s4.shown \in {None, s3.results}
  BY <1>7, RenderView
<1> HIDE DEF s4
<1>9. Fetched(s1, Rightful(s1)) /\ (s1.user # s.user => Fetched(s1, {None, Nobody}))
  BY <1>4, <1>5 DEF Fetched, Rightful
<1>10. s4.user = r.for /\ \A S : Fetched(s1, S) => Session!Kept(s4) \subseteq S
  BY <1>5, <1>6, <1>7, <1>8, KeptView DEF Fetched
<1>11. /\ Session!Kept(s4) \subseteq Rightful(s4)
       /\ s4.user # s.user => Session!Kept(s4) \subseteq {None, Nobody}
  BY <1>5, <1>9, <1>10 DEF Rightful
<1>12. \A q \in requests' : q.kind # "me" /\ (Live(q) /\ q.token # None => q.token.user = r.for)
  BY <1>1, <1>2, <1>3, <1>4, <1>5, AskedOwn
<1>13. tab'[t] = s4  BY <1>1, <1>2
<1> QED  BY <1>2, <1>3, <1>10, <1>11, <1>12, <1>13 DEF OwnStep, Own

LEMMA OwnInit ==
  ASSUME NEW t, Tabs = {t}, Session!Init
  PROVE  Own(tab[t], token, requests) /\ Session!Kept(tab[t]) \subseteq {None, Nobody}
<1>1. tab[t] = Session!Loaded /\ Session!Loaded \in Session!Tab /\ token = None /\ requests = {}
  BY LoadedType DEF Session!Init
<1>2. Fetched(Session!Loaded, {None, Nobody}) /\ Session!Loaded.shown = None
          /\ Session!Loaded.user = None
  BY DEF Fetched, Session!Loaded
<1>3. Session!Kept(Session!Loaded) \subseteq {None, Nobody}  BY <1>1, <1>2, KeptView
<1> QED  BY <1>1, <1>2, <1>3 DEF Own, Rightful

LEMMA OwnStepHolds ==
  ASSUME Session!TypeOK, RequestsOK, Session!SessionAssumption, NEW t, Tabs = {t},
         Own(tab[t], token, requests), [Session!Next]_(Session!vars)
  PROVE  OwnStep(t)
<1> DEFINE s == tab[t]
<1>1. /\ t \in Tabs /\ s \in Session!Tab /\ tab \in [Tabs -> Session!Tab] /\ token \in Tokens
          /\ None \in Tokens
      /\ requests \subseteq Session!Request /\ \A r \in requests : r.tab = t
      /\ None \notin Users /\ None \notin Queries /\ None \notin Session!Token
  BY DEF Session!TypeOK, Tokens, Session!Request, Session!SessionAssumption
<1>2. Fetched(s, Rightful(s)) /\ (s.shown # None => s.shown.owner \in Rightful(s))
  BY <1>1, KeptView DEF Own
<1>3. ASSUME Session!Reload(t) PROVE OwnStep(t)
  <2> DEFINE accepted == token # None /\ token \notin expired
             n == [Session!Loaded EXCEPT !.loading = accepted, !.at = s.at]
             q == Session!NewRequest(t, "me", None, token)
  <2>1. q.kind = "me" /\ q.token = token  BY <1>1, NewRequestView DEF Tokens
  <2>2. s.at \in {"home", "library", "search"} /\ accepted \in BOOLEAN  BY <1>1 DEF Session!Tab
  <2>3. /\ n \in Session!Tab /\ n.user = None /\ n.typed = None /\ n.loading = accepted
        /\ n.playlists = Nobody /\ n.library = None /\ n.queue = None
        /\ n.results = None /\ n.shown = None
    <3> HIDE DEF accepted
    <3> QED  BY <2>2, LoadedType DEF Session!Loaded
  <2>4. /\ tab'[t] = n
        /\ \/ requests' = {} /\ token' = None
           \/ requests' = {q} /\ token' = token /\ accepted
    <3>1. {r \in requests : r.tab # t} = {}  BY <1>1
    <3> QED  BY <1>1, <1>3, <3>1 DEF Session!Reload
  <2> HIDE DEF n, q, accepted
  <2>5. Session!Kept(n) \subseteq {None, Nobody}  BY <2>3, KeptView DEF Fetched
  <2>6. \A r \in requests' : ~Live(r)  BY <2>1, <2>4 DEF Live
  <2> QED  BY <2>1, <2>3, <2>4, <2>5, <2>6 DEF OwnStep, Own, Rightful
<1>4. ASSUME NEW kind \in {"login", "playlists", "other"}, NEW for \in Users \cup {None},
             Session!Ask(t, kind, for), kind = "login" => ~s.loading, kind # "login"
                       => s.user # None
      PROVE  OwnStep(t)
  <2> DEFINE q == Session!NewRequest(t, kind, for, token)
  <2>1. q.kind = kind /\ q.token = token  BY <1>1, NewRequestView DEF Tokens
  <2>2. requests' = requests \cup {q} /\ tab' = tab /\ token' = token  BY <1>4 DEF Session!Ask
  <2> HIDE DEF q
  <2>3. \A r \in requests : r.kind # "me"  BY <1>4 DEF Own
  <2>4. Live(q) /\ q.token # None => q.token.user = s.user  BY <1>4, <2>1 DEF Live, Own
  <2> QED  BY <1>4, <2>1, <2>2, <2>3, <2>4 DEF OwnStep, Own
<1>5. ASSUME Session!Logout(t) PROVE OwnStep(t)
  <2> DEFINE a == Session!SetAuth(s, None)
             s1 == [a EXCEPT !.at = "home"]
  <2>1. s.user # None /\ Session!Rendered(t, s1, requests, None) /\ token' = None  BY <1>5
    DEF Session!Logout
  <2>2. /\ a \in Session!Tab /\ a.user = None /\ a.playlists = Nobody /\ a.library = None
        /\ a.queue = None /\ a.results = None
    BY <1>1, <2>1, SetAuthView
  <2> HIDE DEF a
  <2>3. s1 \in Session!Tab /\ s1.user = None /\ Fetched(s1, {None, Nobody})
    BY <2>2 DEF Session!Tab, Fetched
  <2> HIDE DEF s1
  <2> QED  BY <2>1, <2>3, SignedOutOwn
<1>6. ASSUME NEW place \in {"home", "library", "search"}, Session!Navigate(t, place)
      PROVE  OwnStep(t)
  <2> DEFINE s1 == [s EXCEPT !.at = place]
  <2>1. s.user # None /\ Session!Rendered(t, s1, requests, token) /\ token' = token
    BY <1>6 DEF Session!Navigate
  <2>2. /\ s1 \in Session!Tab /\ s1.user = s.user /\ s1.typed = s.typed
            /\ s1.playlists = s.playlists
        /\ s1.library = s.library /\ s1.queue = s.queue /\ s1.results = s.results
    BY <1>1 DEF Session!Tab
  <2> HIDE DEF s1
  <2>3. Fetched(s1, Rightful(s1))  BY <1>2, <2>2 DEF Fetched, Rightful
  <2>4. /\ \A r \in requests : r.tab = t /\ r.kind # "me"
        /\ token # None /\ s1.user # None => token.user = s1.user
        /\ \A r \in requests : Live(r) /\ r.token # None => r.token.user = s1.user
    BY <1>1, <2>1, <2>2 DEF Own
  <2> QED  BY <1>1, <2>1, <2>2, <2>3, <2>4, RenderedOwn
<1>7. ASSUME NEW n \in Session!Tab, tab'[t] = n, token' = token, requests' = requests,
             n.user = s.user, n.typed = s.typed \/ s.user # None, n.loading = s.loading,
             n.playlists = s.playlists, n.library = s.library, n.queue \in {s.queue, s.library},
             n.results = s.results, n.shown = s.shown
      PROVE  OwnStep(t)
  <2>1. Session!Kept(n) \subseteq Rightful(n)  BY <1>2, <1>7, KeptView DEF Fetched, Rightful
  <2> QED  BY <1>7, <2>1 DEF OwnStep, Own
<1>8. ASSUME Session!Play(t) PROVE OwnStep(t)
  <2> DEFINE n == [s EXCEPT !.queue = s.library]
  <2>1. tab'[t] = n /\ token' = token /\ requests' = requests  BY <1>1, <1>8 DEF Session!Play
  <2>2. n \in Session!Tab  BY <1>1 DEF Session!Tab
  <2> QED  BY <1>1, <1>7, <2>1, <2>2 DEF Session!Tab
<1>9. ASSUME NEW q \in Queries, Session!Type(t, q) PROVE OwnStep(t)
  <2> DEFINE n == [s EXCEPT !.typed = q]
  <2>1. tab'[t] = n /\ token' = token /\ requests' = requests /\ s.user # None
    BY <1>1, <1>9 DEF Session!Type
  <2>2. n \in Session!Tab  BY <1>1 DEF Session!Tab
  <2> QED  BY <1>1, <1>7, <2>1, <2>2 DEF Session!Tab
<1>10. ASSUME Session!RunSearch(t) PROVE OwnStep(t)
  <2> DEFINE box == s.user # None /\ s.at = "search"
             new == Session!NewRequest(t, "search", s.typed, token)
             q == [new EXCEPT !.box = box]
             n == [s EXCEPT !.typed = None, !.query = s.typed, !.shown = None]
  <2>1. s.typed # None /\ s.typed \in Queries  BY <1>1, <1>10 DEF Session!RunSearch, Session!Tab
  <2>2. new \in Session!Request /\ new.kind = "search" /\ new.token = token
    BY <1>1, <2>1, NewRequestView DEF Tokens
  <2>3. q.kind = "search" /\ q.token = token
    <3> HIDE DEF new
    <3> QED  BY <2>2 DEF Session!Request
  <2>4. requests' = {Session!Overtaken(r, t) : r \in requests} \cup {q} /\ token' = token
            /\ tab'[t] = n
    BY <1>1, <1>10 DEF Session!RunSearch
  <2>5. /\ n \in Session!Tab /\ n.user = s.user /\ n.typed = None /\ n.playlists = s.playlists
        /\ n.library = s.library /\ n.queue = s.queue /\ n.results = s.results /\ n.shown = None
    BY <1>1, <2>1 DEF Session!Tab
  <2> HIDE DEF q, n
  <2>6. Session!Kept(n) \subseteq Rightful(n)  BY <1>2, <2>5, KeptView DEF Fetched, Rightful
  <2>7. \A r \in requests : Carried(Session!Overtaken(r, t), r)  BY <1>1, OvertakenView
  <2>8. \A r \in requests' :
          r.kind # "me" /\ (Live(r) /\ r.token # None => r.token.user = s.user)
    BY <2>1, <2>3, <2>4, <2>7 DEF Own, Carried, Live
  <2> QED  BY <2>4, <2>5, <2>6, <2>8 DEF OwnStep, Own
<1>11. ASSUME Session!ClearSearch(t) PROVE OwnStep(t)
  <2> DEFINE n == [s EXCEPT !.typed = None, !.query = None, !.results = None, !.shown = None]
  <2>1. /\ requests' = {Session!Overtaken(r, t) : r \in requests} /\ token' = token /\ tab'[t] = n
        /\ s.user # None
    BY <1>1, <1>11 DEF Session!ClearSearch
  <2>2. /\ n \in Session!Tab /\ n.user = s.user /\ n.typed = None /\ n.playlists = s.playlists
        /\ n.library = s.library /\ n.queue = s.queue /\ n.results = None /\ n.shown = None
    BY <1>1 DEF Session!Tab
  <2> HIDE DEF n
  <2>3. Session!Kept(n) \subseteq Rightful(n)  BY <1>2, <2>2, KeptView DEF Fetched, Rightful
  <2>4. \A r \in requests : Carried(Session!Overtaken(r, t), r)  BY <1>1, OvertakenView
  <2>5. \A r \in requests' :
          r.kind # "me" /\ (Live(r) /\ r.token # None => r.token.user = s.user)
    BY <2>1, <2>4 DEF Own, Carried, Live
  <2> QED  BY <2>1, <2>2, <2>3, <2>5 DEF OwnStep, Own
<1>12. ASSUME NEW r \in requests, Session!Answer(r) PROVE OwnStep(t)
  <2>1. r.token \in Session!Token /\ r.token.user \in Users
    BY <1>1, <1>12 DEF Session!Answer, Session!Accepted, Session!Request, Session!Token
  <2>2. token' \in Tokens /\ (token' # None => token # None /\ token'.user = token.user)
    BY <1>1, <1>12, <2>1 DEF Session!Answer, Session!Still, Session!Unused, Tokens
  <2>3. Session!Continue(r, tab[r.tab], r.token.user, token') /\ r.token # None
    BY <1>12 DEF Session!Answer, Session!Accepted
  <2> QED  BY <2>1, <2>2, <2>3, ContinueOwn
<1>13. ASSUME NEW r \in requests, Session!Unauthorized(r) PROVE OwnStep(t)
  <2>1. CASE Session!Still(r) /\ s.user # None
    <3> DEFINE s1 == Session!SetAuth(s, None)
    <3>1. Session!Rendered(t, s1, requests \ {r}, None) /\ token' = None
      BY <1>1, <1>13, <2>1 DEF Session!Unauthorized
    <3>2. /\ s1 \in Session!Tab /\ s1.user = None /\ s1.playlists = Nobody /\ s1.library = None
          /\ s1.queue = None /\ s1.results = None
      BY <1>1, <2>1, SetAuthView
    <3> HIDE DEF s1
    <3>3. Fetched(s1, {None, Nobody})  BY <3>2 DEF Fetched
    <3> QED  BY <2>1, <3>1, <3>2, <3>3, SignedOutOwn
  <2>2. CASE ~(Session!Still(r) /\ s.user # None)
    <3>1. token' \in {None, token} /\ Session!Continue(r, tab[r.tab], Nobody, token')
      BY <1>1, <1>13, <2>2 DEF Session!Unauthorized
    <3> QED  BY <1>1, <3>1, ContinueOwn
  <2> QED  BY <2>1, <2>2
<1>14. ASSUME NEW r \in requests, Session!Fail(r) PROVE OwnStep(t)
  BY <1>1, <1>14, ContinueOwn DEF Session!Fail
<1>15. ASSUME NEW r \in requests, Session!LoggedIn(r) PROVE OwnStep(t)
  BY <1>15, LoggedInOwn
<1>16. ASSUME Session!Expire \/ UNCHANGED Session!vars PROVE OwnStep(t)
  BY <1>1, <1>7, <1>16 DEF Session!Expire, Session!vars
<1>17. ASSUME \/ Session!LoadPlaylists(t) \/ Session!Call(t)
              \/ \E u \in Users : Session!AskLogin(t, u)
       PROVE  OwnStep(t)
  BY <1>4, <1>17 DEF Session!LoadPlaylists, Session!Call, Session!AskLogin
<1> QED
  BY <1>1, <1>3, <1>5, <1>6, <1>8, <1>9, <1>10, <1>11, <1>12, <1>13, <1>14, <1>15, <1>16, <1>17
  DEF Session!Next

(* Every step is one of the abstract caches, or leaves them alone.          *)
LEMMA OwnedStep ==
  ASSUME Session!TypeOK, Session!TypeOK', NEW t, Tabs = {t}, OwnStep(t)
  PROVE  [Session!Owned!Next]_<<[u \in Tabs |-> tab[u].user],
                        [u \in Tabs |-> Session!Kept(tab[u]) \ {None, Nobody}]>>
<1> DEFINE user == [u \in Tabs |-> tab[u].user]
           kept == [u \in Tabs |-> Session!Kept(tab[u]) \ {None, Nobody}]
<1>1. /\ t \in Tabs /\ tab'[t].user \in Users \cup {None}
  BY DEF Session!TypeOK, Session!Tab
<1>2. /\ user' = [user EXCEPT ![t] = tab'[t].user]
      /\ kept' = [kept EXCEPT ![t] = Session!Kept(tab'[t]) \ {None, Nobody}]
      /\ user[t] = tab[t].user
  OBVIOUS
<1>3. CASE tab'[t].user = tab[t].user
  <2>1. user' = user  BY <1>2, <1>3
  <2>2. Session!Kept(tab'[t]) \ {None, Nobody} \subseteq {user[t]} \ {None}
    BY <1>2, <1>3 DEF OwnStep, Own, Rightful
  <2>3. Session!Owned!Fill(t)
    <3> HIDE DEF user, kept
    <3> QED  BY <1>2, <2>1, <2>2 DEF Session!Owned!Fill, user, kept
  <2> QED  BY <1>1, <2>3 DEF Session!Owned!Next
<1>4. CASE tab'[t].user # tab[t].user
  <2>1. Session!Kept(tab'[t]) \ {None, Nobody} = {}  BY <1>4 DEF OwnStep
  <2>2. PICK u \in Users \cup {None} : u = tab'[t].user  BY <1>1
  <2>3. Session!Owned!Change(t, u)
    BY <1>2, <1>4, <2>1, <2>2 DEF Session!Owned!Change
  <2> QED  BY <1>1, <2>3 DEF Session!Owned!Next
<1> QED  BY <1>3, <1>4

-----------------------------------------------------------------------------
(* The tasks of the media element.                                          *)

LEMMA TailView ==
  ASSUME NEW S, NEW s \in Seq(S), s # <<>>
  PROVE  /\ Tail(s) \in Seq(S) /\ Len(Tail(s)) = Len(s) - 1 /\ Head(s) = s[1] /\ Len(s) > 0
         /\ \A i \in 1 .. Len(s) - 1 : Tail(s)[i] = s[i + 1]
         /\ DOMAIN s = 1 .. Len(s) /\ DOMAIN Tail(s) = 1 .. Len(s) - 1
OBVIOUS

LEMMA AppendView ==
  ASSUME NEW S, NEW s \in Seq(S), NEW x \in S
  PROVE  /\ Append(s, x) \in Seq(S) /\ Len(Append(s, x)) = Len(s) + 1
         /\ Append(s, x)[Len(s) + 1] = x
         /\ \A i \in 1 .. Len(s) : Append(s, x)[i] = s[i]
         /\ DOMAIN s = 1 .. Len(s) /\ DOMAIN Append(s, x) = 1 .. Len(s) + 1
OBVIOUS

-----------------------------------------------------------------------------
(* Player: one song in queue, element and tracker.                          *)

(* Without a song the element has none, and nothing to tell but that it was stopped. *)
Unloaded ==
  current = None =>
    ~ready /\ paused /\ ~failed /\ \A i \in DOMAIN tasks : tasks[i] = "pause"

PlayerInv == Player!Sound /\ Unloaded

PlayerTypes ==
  /\ queue \in Seq(Player!Entry) /\ current \in Player!Entry \cup {None}
  /\ playing \in BOOLEAN /\ repeat \in BOOLEAN /\ shuffle \in BOOLEAN /\ switching \in BOOLEAN
  /\ ready \in BOOLEAN /\ paused \in BOOLEAN /\ failed \in BOOLEAN /\ denied \in BOOLEAN
  /\ progress \in {"start", "far"} /\ pendingSeek \in {"start", "far", None}
  /\ tracker \in Player!Ids \cup {None} /\ src \in Player!Ids \cup {None}
  /\ position \in {"start", "far", "end"} /\ tasks \in Seq(Player!Task)

LEMMA PlayerTyped ==
  /\ Player!TypeOK <=> PlayerTypes
  /\ Player!TypeOK' <=> PlayerTypes'
BY DEF Player!TypeOK, PlayerTypes

LEMMA TasksView ==
  ASSUME PlayerInv
  PROVE  /\ tasks # <<>> =>
              /\ Tail(tasks) \in Seq(Player!Task)
              /\ current = None => \A i \in DOMAIN Tail(tasks) : Tail(tasks)[i] = "pause"
         /\ \A x \in Player!Task :
              /\ Append(tasks, x) \in Seq(Player!Task)
              /\ current = None /\ x = "pause" =>
                   \A i \in DOMAIN Append(tasks, x) : Append(tasks, x)[i] = "pause"
<1>1. tasks \in Seq(Player!Task)  BY PlayerTyped DEF PlayerInv, Player!Sound, PlayerTypes
<1> QED  BY <1>1, TailView, AppendView DEF PlayerInv, Unloaded

(* The source is replaced by a song of the queue.                           *)
LEMMA LoadedSound ==
  ASSUME Player!PlayerAssumption, PlayerInv, NEW wasPaused,
         queue' \in Seq(Player!Entry), index' \in DOMAIN queue', current' = queue'[index'],
         Player!LoadAndPlay(current', wasPaused), UNCHANGED <<repeat, shuffle>>
  PROVE  PlayerInv'
<1>1. current' \in Player!Entry /\ current'.id \in Player!Ids /\ current' # None
  <2>1. \A i \in DOMAIN queue' : queue'[i] \in Player!Entry  OBVIOUS
  <2>2. current' \in Player!Entry  BY <2>1
  <2> QED  BY <2>2 DEF Player!PlayerAssumption, Player!Entry
<1>2. repeat' \in BOOLEAN /\ shuffle' \in BOOLEAN
  BY PlayerTyped DEF PlayerInv, Player!Sound, PlayerTypes
<1>3. tasks' \in Seq(Player!Task) /\ paused' \in BOOLEAN /\ denied' \in BOOLEAN
  <2>1. PICK refused \in BOOLEAN :
          /\ paused' = refused /\ denied' = refused
          /\ tasks' = (IF loadFiresPause /\ ~wasPaused THEN <<"pause">> ELSE <<>>)
                        \o (IF refused THEN <<>> ELSE <<"play">>)
    BY DEF Player!LoadAndPlay
  <2>2. <<"pause">> \in Seq(Player!Task) /\ <<"play">> \in Seq(Player!Task)
        /\ <<>> \in Seq(Player!Task)
    BY DEF Player!Task
  <2>3. \A s, t \in Seq(Player!Task) : s \o t \in Seq(Player!Task)  OBVIOUS
  <2> QED  BY <2>1, <2>2, <2>3
<1>4. /\ playing' = TRUE /\ switching' = TRUE /\ pendingSeek' = None /\ progress' = "start"
      /\ tracker' = current'.id /\ src' = current'.id /\ ready' = FALSE /\ failed' = FALSE
      /\ position' = "start"
  BY DEF Player!LoadAndPlay
<1>5. PlayerTypes'  BY <1>1, <1>2, <1>3, <1>4 DEF PlayerTypes
<1>6. Player!CurrentInQueue' /\ Player!CreditsCurrent'
  BY <1>1, <1>4 DEF Player!CurrentInQueue, Player!CreditsCurrent
<1> QED  BY <1>1, <1>5, <1>6, PlayerTyped DEF PlayerInv, Player!Sound, Unloaded

LEMMA GoneToSound ==
  ASSUME Player!PlayerAssumption, PlayerInv, NEW i \in DOMAIN queue, NEW wasPaused,
         Player!GoTo(i, wasPaused)
  PROVE  PlayerInv'
<1>1. queue' \in Seq(Player!Entry)
  BY PlayerTyped DEF PlayerInv, Player!Sound, PlayerTypes, Player!GoTo
<1> QED  BY <1>1, LoadedSound DEF Player!GoTo

LEMMA FollowingInQueue ==
  ASSUME PlayerInv, current # None
  PROVE  /\ Player!Following \subseteq DOMAIN queue
         /\ Player!Last => Len(queue) = index
         /\ index \in DOMAIN queue /\ index > 0 /\ queue # <<>>
<1>1. queue \in Seq(Player!Entry) /\ index \in DOMAIN queue
  BY PlayerTyped DEF PlayerInv, Player!Sound, PlayerTypes, Player!CurrentInQueue
<1>2. DOMAIN queue = 1 .. Len(queue) /\ Len(queue) \in Nat /\ Len(queue) > 0  BY <1>1
<1> QED  BY <1>1, <1>2 DEF Player!Following, Player!Last

LEMMA LoadsKeepSound ==
  ASSUME Player!PlayerAssumption, PlayerInv, Player!PlayContext \/ Player!Prev
  PROVE  PlayerInv'
<1>1. CASE Player!PlayContext
  <2>1. PICK q \in Queues, l \in [Player!Ids -> BOOLEAN] : \E i \in DOMAIN q :
          /\ queue' = [j \in DOMAIN q |-> [id |-> q[j], liked |-> l[q[j]]]]
          /\ index' = i /\ current' = queue'[i]
          /\ Player!LoadAndPlay(queue'[i], paused)
          /\ UNCHANGED <<repeat, shuffle>>
    BY <1>1 DEF Player!PlayContext
  <2>2. q \in Seq(Player!Ids)  BY DEF Player!PlayerAssumption
  <2>3. queue' \in Seq(Player!Entry) /\ DOMAIN queue' = DOMAIN q
    <3>1. DOMAIN q = 1 .. Len(q) /\ Len(q) \in Nat /\ \A j \in DOMAIN q : q[j] \in Player!Ids
      BY <2>2
    <3>2. \A j \in DOMAIN q : [id |-> q[j], liked |-> l[q[j]]] \in Player!Entry
      BY <3>1 DEF Player!Entry
    <3> QED  BY <2>1, <3>1, <3>2
  <2> QED  BY <2>1, <2>3, LoadedSound
<1>2. CASE Player!Prev
  <2>1. current # None  BY <1>2 DEF Player!Prev, PlayerInv, Player!Sound, Player!CurrentInQueue
  <2>2. queue \in Seq(Player!Entry)  BY PlayerTyped DEF PlayerInv, Player!Sound, PlayerTypes
  <2>3. (IF index > 1 THEN index - 1 ELSE 1) \in DOMAIN queue
    BY <2>1, <2>2, FollowingInQueue
  <2>4. Player!GoTo(IF index > 1 THEN index - 1 ELSE 1, paused)
    BY <1>2 DEF Player!Prev
  <2> QED  BY <2>3, <2>4, GoneToSound
<1> QED  BY <1>1, <1>2

(* The same song, or none, and tasks that fit.                              *)
LEMMA SameSong ==
  ASSUME PlayerInv, UNCHANGED <<queue, index, current, tracker, src>>, PlayerTypes',
         current = None =>
           /\ ~ready' /\ paused' /\ ~failed'
           /\ \A i \in DOMAIN tasks' : tasks'[i] = "pause"
  PROVE  PlayerInv'
BY PlayerTyped
   DEF PlayerInv, Player!Sound, Player!CurrentInQueue, Player!CreditsCurrent, Unloaded

(* play(), whether it is accepted, refused or of a source that failed.      *)
LEMMA PlayView ==
  ASSUME playing \in BOOLEAN, switching \in BOOLEAN, paused \in BOOLEAN, denied \in BOOLEAN,
         position \in {"start", "far", "end"}, NEW wasPaused, Player!Play(wasPaused)
  PROVE  /\ playing' \in BOOLEAN /\ paused' \in BOOLEAN /\ denied' \in BOOLEAN
         /\ position' \in {"start", "far", "end"}
         /\ \/ playing' = (playing /\ switching) /\ UNCHANGED <<paused, position, tasks, denied>>
               /\ (failed \/ wasPaused)
            \/ /\ paused' = FALSE /\ denied' = FALSE /\ position' # "end"
               /\ IF wasPaused THEN Player!Queued("play") ELSE UNCHANGED tasks
               /\ playing' = playing
<1>1. PICK refused \in Player!Refusals(wasPaused) :
        IF failed \/ refused
        THEN playing' = (playing /\ switching) /\ UNCHANGED <<paused, position, tasks, denied>>
        ELSE /\ paused' = FALSE /\ denied' = FALSE
             /\ position' = IF position = "end" THEN "start" ELSE position
             /\ IF wasPaused THEN Player!Queued("play") ELSE UNCHANGED tasks
             /\ UNCHANGED playing
  BY DEF Player!Play
<1>2. CASE failed \/ refused  BY <1>1, <1>2 DEF Player!Refusals
<1>3. CASE ~(failed \/ refused)  BY <1>1, <1>3
<1> QED  BY <1>2, <1>3

(* stop, restart, togglePlay, seek, the modes, a like, another account.     *)
LEMMA ClicksKeepSound ==
  ASSUME Player!PlayerAssumption, PlayerInv, Player!Click
  PROVE  PlayerInv'
<1>0. PlayerTypes  BY PlayerTyped DEF PlayerInv, Player!Sound
<1>1. \A x \in Player!Task : Append(tasks, x) \in Seq(Player!Task)  BY TasksView
<1>2. queue # <<>> => current # None
  BY DEF PlayerInv, Player!Sound, Player!CurrentInQueue
<1>3. \A w \in BOOLEAN :
        Player!Pause(w) => paused' = TRUE /\ tasks' \in Seq(Player!Task) /\ denied' = denied
  BY <1>0, <1>1 DEF Player!Pause, Player!Queued, Player!Task, PlayerTypes
<1>4. CASE Player!ClickNext
  <2>1. current # None  BY <1>2, <1>4 DEF Player!ClickNext, Player!Next
  <2>2. CASE \E i \in Player!Following : Player!GoTo(i, paused)
    BY <2>1, <2>2, FollowingInQueue, GoneToSound
  <2>3. CASE Player!Last /\ Player!Stop(paused) /\ UNCHANGED position
    <3>1. index' = index  BY <2>1, <2>3, FollowingInQueue DEF Player!Stop
    <3>2. PlayerTypes'  BY <1>0, <1>3, <2>3 DEF Player!Stop, PlayerTypes
    <3> QED  BY <2>1, <2>3, <3>1, <3>2, SameSong DEF Player!Stop
  <2> QED  BY <1>4, <2>2, <2>3 DEF Player!ClickNext, Player!Next
<1>5. CASE Player!Restart
  <2>1. PlayerTypes'  BY <1>0, <1>5 DEF Player!Restart, PlayerTypes
  <2> QED  BY <1>2, <1>5, <2>1, SameSong DEF Player!Restart
<1>6. CASE Player!TogglePlay
  <2>1. CASE Player!Pause(paused) /\ UNCHANGED <<playing, position>>
    <3>0. paused \in BOOLEAN  BY <1>0 DEF PlayerTypes
    <3>1. paused' = TRUE /\ tasks' \in Seq(Player!Task) /\ denied' = denied
      BY <1>3, <2>1, <3>0
    <3>2. UNCHANGED <<queue, index, current, progress, repeat, shuffle, pendingSeek, switching,
                      tracker, src, ready, failed, playing, position>>
      BY <1>6, <2>1 DEF Player!TogglePlay
    <3>3. PlayerTypes'  BY <1>0, <3>1, <3>2 DEF PlayerTypes
    <3>4. current # None  BY <1>6 DEF Player!TogglePlay
    <3> QED  BY <3>2, <3>3, <3>4, SameSong
  <2>2. CASE Player!Play(paused)
    <3>1. tasks' \in Seq(Player!Task)
      BY <1>0, <1>1, <2>2 DEF Player!Play, Player!Queued, Player!Task, PlayerTypes
    <3>2. /\ playing' \in BOOLEAN /\ paused' \in BOOLEAN /\ denied' \in BOOLEAN
          /\ position' \in {"start", "far", "end"}
      <4>1. /\ playing \in BOOLEAN /\ switching \in BOOLEAN /\ paused \in BOOLEAN
            /\ denied \in BOOLEAN /\ position \in {"start", "far", "end"}
        BY <1>0 DEF PlayerTypes
      <4> QED  BY <2>2, <4>1, PlayView
    <3>3. /\ current # None
          /\ UNCHANGED <<queue, index, current, progress, repeat, shuffle, pendingSeek, switching,
                         tracker, src, ready, failed>>
      BY <1>6 DEF Player!TogglePlay
    <3>4. PlayerTypes'  BY <1>0, <3>1, <3>2, <3>3 DEF PlayerTypes
    <3> QED  BY <3>3, <3>4, SameSong
  <2> QED  BY <1>6, <2>1, <2>2 DEF Player!TogglePlay
<1>7. ASSUME NEW target \in {"start", "far"}, Player!Seek(target) PROVE PlayerInv'
  <2>1. PlayerTypes'  BY <1>0, <1>7 DEF Player!Seek, PlayerTypes
  <2> QED  BY <1>7, <2>1, SameSong DEF Player!Seek
<1>8. CASE Player!Toggle
  <2>0. repeat' \in BOOLEAN /\ shuffle' \in BOOLEAN
    <3>1. repeat \in BOOLEAN /\ shuffle \in BOOLEAN  BY <1>0 DEF PlayerTypes
    <3> QED  BY <1>8, <3>1 DEF Player!Toggle
  <2>1. PlayerTypes'  BY <1>0, <1>8, <2>0 DEF Player!Toggle, Player!element, PlayerTypes
  <2> QED  BY <1>8, <2>1, SameSong DEF Player!Toggle, Player!element, PlayerInv, Unloaded
<1>9. ASSUME NEW liked \in BOOLEAN, Player!SetLiked(liked) PROVE PlayerInv'
  <2>1. current # None /\ index \in DOMAIN queue /\ queue[index] = current
        /\ current \in Player!Entry
    BY <1>0, <1>9 DEF Player!SetLiked, PlayerInv, Player!Sound, Player!CurrentInQueue, PlayerTypes
  <2>2. /\ current' \in Player!Entry /\ current'.id = current.id /\ current' # None
    BY <1>9, <2>1 DEF Player!SetLiked, Player!Entry, Player!PlayerAssumption
  <2>3. /\ queue' = [queue EXCEPT ![index] = current']
    BY <1>9, <2>1 DEF Player!SetLiked, Player!WithLike
  <2>4. queue' \in Seq(Player!Entry) /\ DOMAIN queue' = DOMAIN queue /\ queue'[index] = current'
    BY <1>0, <2>1, <2>2, <2>3 DEF PlayerTypes
  <2>5. PlayerTypes'  BY <1>0, <1>9, <2>2, <2>4 DEF Player!SetLiked, Player!element, PlayerTypes
  <2>6. Player!CurrentInQueue' /\ Player!CreditsCurrent'
    BY <1>9, <2>1, <2>2, <2>4
    DEF Player!SetLiked, Player!element, Player!CurrentInQueue, Player!CreditsCurrent, PlayerInv,
        Player!Sound
  <2> QED  BY <2>2, <2>5, <2>6, PlayerTyped DEF PlayerInv, Player!Sound, Unloaded
<1>10. CASE Player!ClearSession
  <2>1. tasks' = <<"pause">> \/ tasks' = <<>>  BY <1>10 DEF Player!ClearSession
  <2>2. tasks' \in Seq(Player!Task) /\ \A i \in DOMAIN tasks' : tasks'[i] = "pause"
    <3>1. CASE tasks' = <<"pause">>
      <4>1. <<"pause">> \in Seq(Player!Task)  BY DEF Player!Task
      <4>2. \A i \in DOMAIN <<"pause">> : <<"pause">>[i] = "pause"  OBVIOUS
      <4> QED  BY <3>1, <4>1, <4>2
    <3>2. CASE tasks' = <<>>
      <4>1. <<>> \in Seq(Player!Task) /\ DOMAIN <<>> = {}  OBVIOUS
      <4> QED  BY <3>2, <4>1
    <3> QED  BY <2>1, <3>1, <3>2
  <2>3. PlayerTypes'
    <3>1. queue' \in Seq(Player!Entry)  BY <1>10 DEF Player!ClearSession
    <3> QED
      BY <1>10, <2>2, <3>1 DEF Player!ClearSession, Player!TrackerCleared, PlayerTypes
  <2> QED
    BY <1>10, <2>2, <2>3, PlayerTyped
    DEF Player!ClearSession, Player!TrackerCleared, PlayerInv, Player!Sound, Unloaded,
        Player!CurrentInQueue, Player!CreditsCurrent
<1> QED
  BY <1>4, <1>5, <1>6, <1>7, <1>8, <1>9, <1>10, LoadsKeepSound DEF Player!Click

(* The listeners of the element's events.                                   *)
LEMMA EventsKeepSound ==
  ASSUME Player!PlayerAssumption, PlayerInv, Player!Event
  PROVE  PlayerInv'
<1>0. PlayerTypes  BY PlayerTyped DEF PlayerInv, Player!Sound
<1>1. tasks # <<>>
  BY DEF Player!Event, Player!PlayEvent, Player!PauseEvent, Player!MetadataEvent,
         Player!ErrorEvent, Player!EndedEvent, Player!Dispatch
<1>2. /\ Tail(tasks) \in Seq(Player!Task)
      /\ current = None =>
           Head(tasks) = "pause" /\ \A i \in DOMAIN Tail(tasks) : Tail(tasks)[i] = "pause"
  BY <1>0, <1>1, TasksView, TailView DEF PlayerTypes, PlayerInv, Unloaded
<1>3. CASE Player!PlayEvent
  <2>0. playing' \in BOOLEAN /\ switching' \in BOOLEAN
    <3>1. playing \in BOOLEAN /\ switching \in BOOLEAN  BY <1>0 DEF PlayerTypes
    <3> QED  BY <1>3, <3>1 DEF Player!PlayEvent
  <2>1. PlayerTypes'  BY <1>0, <1>2, <1>3, <2>0 DEF Player!PlayEvent, PlayerTypes
  <2> QED  BY <1>2, <1>3, <2>1, SameSong DEF Player!PlayEvent, Player!Dispatch
<1>4. CASE Player!PauseEvent
  <2>1. progress' \in {"start", "far"} /\ playing' \in BOOLEAN
    BY <1>0, <1>4 DEF Player!PauseEvent, PlayerTypes
  <2>2. PlayerTypes'  BY <1>0, <1>2, <1>4, <2>1 DEF Player!PauseEvent, PlayerTypes
  <2> QED  BY <1>2, <1>4, <2>2, SameSong DEF Player!PauseEvent, PlayerInv, Unloaded
<1>5. CASE Player!MetadataEvent
  <2>1. progress' \in {"start", "far"} /\ position' \in {"start", "far", "end"}
    BY <1>0, <1>5 DEF Player!MetadataEvent, PlayerTypes
  <2>2. PlayerTypes'  BY <1>0, <1>2, <1>5, <2>1 DEF Player!MetadataEvent, PlayerTypes
  <2> QED  BY <1>2, <1>5, <2>2, SameSong DEF Player!MetadataEvent, Player!Dispatch
<1>6. CASE Player!ErrorEvent
  <2>1. playing' \in BOOLEAN  BY <1>0, <1>6 DEF Player!ErrorEvent, PlayerTypes
  <2>2. PlayerTypes'  BY <1>0, <1>2, <1>6, <2>1 DEF Player!ErrorEvent, PlayerTypes
  <2> QED  BY <1>2, <1>6, <2>2, SameSong DEF Player!ErrorEvent, Player!Dispatch
<1>7. CASE Player!EndedEvent
  <2>1. current # None  BY <1>2, <1>7 DEF Player!EndedEvent, Player!Dispatch
  <2>2. \A x \in Player!Task : Append(Tail(tasks), x) \in Seq(Player!Task)
    BY <1>2, AppendView
  <2> DEFINE wasPaused == paused \/ position = "end"
  <2>3. CASE \E i \in Player!Following : Player!GoTo(i, wasPaused)
    BY <2>1, <2>3, FollowingInQueue, GoneToSound
  <2>4. CASE /\ Player!Last
             /\ playing' = FALSE /\ switching' = FALSE /\ progress' = "start"
             /\ index' = Len(queue) /\ paused' = TRUE
             /\ tasks' = IF wasPaused THEN Tail(tasks) ELSE Append(Tail(tasks), "pause")
             /\ UNCHANGED <<queue, current, repeat, shuffle, pendingSeek, tracker, src, ready,
                            failed, position, denied>>
    <3>1. tasks' \in Seq(Player!Task)
      <4> HIDE DEF wasPaused
      <4> QED  BY <1>2, <2>2, <2>4 DEF Player!Task
    <3>2. PlayerTypes'  BY <1>0, <2>4, <3>1 DEF PlayerTypes
    <3>3. index' = index  BY <2>1, <2>4, FollowingInQueue
    <3> QED  BY <2>1, <2>4, <3>2, <3>3, SameSong
  <2>5. CASE /\ tracker' = current.id
             /\ position' = "start" /\ progress' = "start" /\ switching' = FALSE
             /\ \E refused \in Player!Refusals(wasPaused) :
                  /\ paused' = refused /\ denied' = (denied /\ refused)
                  /\ tasks' = IF wasPaused /\ ~refused THEN Append(Tail(tasks), "play")
                                                       ELSE Tail(tasks)
                  /\ playing' = (playing /\ ~refused /\ ~wasPaused)
             /\ UNCHANGED <<queue, index, current, repeat, shuffle, pendingSeek, src, ready,
                            failed>>
    <3>1. tasks' \in Seq(Player!Task)  BY <1>2, <2>2, <2>5 DEF Player!Task
    <3>2. paused' \in BOOLEAN /\ playing' \in BOOLEAN /\ denied' \in BOOLEAN
      BY <1>0, <2>5 DEF Player!Refusals, PlayerTypes
    <3>3. tracker' = tracker
      BY <2>1, <2>5 DEF PlayerInv, Player!Sound, Player!CreditsCurrent
    <3>4. PlayerTypes'  BY <1>0, <2>5, <3>1, <3>2, <3>3 DEF PlayerTypes
    <3> QED  BY <2>1, <2>5, <3>3, <3>4, SameSong
  <2> QED  BY <1>7, <2>3, <2>4, <2>5 DEF Player!EndedEvent
<1> QED  BY <1>3, <1>4, <1>5, <1>6, <1>7 DEF Player!Event

(* What the element does by itself.                                         *)
LEMMA MediaKeepSound ==
  ASSUME Player!PlayerAssumption, PlayerInv, Player!Media
  PROVE  PlayerInv'
<1>0. PlayerTypes  BY PlayerTyped DEF PlayerInv, Player!Sound
<1>1. \A x \in Player!Task : Append(tasks, x) \in Seq(Player!Task)  BY TasksView
<1>2. src # None \/ ready => current # None
  BY DEF PlayerInv, Player!Sound, Player!CreditsCurrent, Unloaded
<1>3. UNCHANGED <<queue, index, current, tracker, src, repeat, shuffle, switching, pendingSeek>>
  BY DEF Player!Media, Player!Loads, Player!Fails, Player!Plays, Player!Ends, Player!SystemPauses,
         Player!SystemPlays, Player!shown
<1>4. current # None
  BY <1>2 DEF Player!Media, Player!Loads, Player!Fails, Player!Plays, Player!Ends,
              Player!SystemPauses, Player!SystemPlays
<1>5. tasks' \in Seq(Player!Task)
  BY <1>0, <1>1
  DEF Player!Media, Player!Loads, Player!Fails, Player!Plays, Player!Ends, Player!SystemPauses,
      Player!SystemPlays, Player!Pause, Player!Play, Player!Queued, Player!Task, PlayerTypes
<1>6. /\ playing' \in BOOLEAN /\ ready' \in BOOLEAN /\ paused' \in BOOLEAN /\ failed' \in BOOLEAN
      /\ denied' \in BOOLEAN
      /\ progress' \in {"start", "far"} /\ position' \in {"start", "far", "end"}
  BY <1>0, PlayView
  DEF Player!Media, Player!Loads, Player!Fails, Player!Plays, Player!Ends, Player!SystemPauses,
      Player!SystemPlays, Player!Pause, Player!shown, PlayerTypes
<1>7. PlayerTypes'  BY <1>0, <1>3, <1>5, <1>6 DEF PlayerTypes
<1> QED  BY <1>3, <1>4, <1>7, SameSong

LEMMA PlayerBegins == Player!Init => PlayerInv
<1> SUFFICES ASSUME Player!Init PROVE PlayerInv
  OBVIOUS
<1>1. <<>> \in Seq(Player!Entry) /\ <<>> \in Seq(Player!Task) /\ DOMAIN <<>> = {}  OBVIOUS
<1>2. PlayerTypes  BY <1>1 DEF Player!Init, PlayerTypes
<1> QED
  BY <1>1, <1>2, PlayerTyped DEF Player!Init, PlayerInv, Player!Sound, Player!CurrentInQueue,
                           Player!CreditsCurrent, Unloaded

LEMMA PlayerKeeps ==
  ASSUME Player!PlayerAssumption, PlayerInv, Player!Step \/ UNCHANGED playerVars
  PROVE  PlayerInv'
<1>1. CASE UNCHANGED playerVars
  BY <1>1 DEF playerVars, PlayerInv, Player!Sound, Player!TypeOK, Player!CurrentInQueue,
              Player!CreditsCurrent, Unloaded
<1> QED  BY <1>1, ClicksKeepSound, EventsKeepSound, MediaKeepSound DEF Player!Step

-----------------------------------------------------------------------------
(* Player: what the page shows, and what the queued tasks will tell it.     *)

Followed(ts, x, S) ==
  \A i \in DOMAIN ts : ts[i] = x => \E j \in DOMAIN ts : j > i /\ ts[j] \in S

Coming(ts, S) == \E i \in DOMAIN ts : ts[i] \in S

EndsLast(ts) ==
  \E i \in DOMAIN ts :
    ts[i] = "ended" /\ \A j \in DOMAIN ts : j > i => ts[j] \notin {"play", "pause"}

(* The play() of the source is refused, or: the last task that says whether the     *)
(* element plays is right, and there is one as long as the page is wrong; a track    *)
(* that has ended will be told to have; a swap's play event is to come.              *)
Told ==
  ~failed =>
    /\ denied => paused
    /\ ~denied =>
         /\ paused => /\ Followed(tasks, "play", {"pause", "ended"})
                      /\ playing => Coming(tasks, {"pause", "ended"})
         /\ ~paused => /\ Followed(tasks, "pause", {"play"})
                       /\ ~playing => Coming(tasks, {"play"})
                       /\ position = "end" => EndsLast(tasks)
         /\ switching => Coming(tasks, {"play"})

LEMMA TailTells ==
  ASSUME NEW ts \in Seq(Player!Task), ts # <<>>
  PROVE  /\ \A x, S : Followed(ts, x, S) =>
              Followed(Tail(ts), x, S) /\ (Head(ts) = x => Coming(Tail(ts), S))
         /\ \A S : Coming(ts, S) /\ Head(ts) \notin S => Coming(Tail(ts), S)
         /\ EndsLast(ts) =>
              IF Head(ts) = "ended" THEN Followed(Tail(ts), "play", {"pause", "ended"})
                                    ELSE EndsLast(Tail(ts))
<1> DEFINE t == Tail(ts)
<1>1. /\ Len(ts) \in Nat /\ Len(ts) > 0 /\ Head(ts) = ts[1]
      /\ DOMAIN ts = 1 .. Len(ts) /\ DOMAIN t = 1 .. Len(ts) - 1
      /\ \A i \in DOMAIN t : t[i] = ts[i + 1]
  BY TailView
<1> HIDE DEF t
<1>2. /\ \A i \in DOMAIN t : i \in Nat /\ i + 1 \in DOMAIN ts /\ i + 1 > 1
      /\ \A i \in DOMAIN ts : i \in Nat /\ (i # 1 => i - 1 \in DOMAIN t /\ ts[i] = t[i - 1])
      /\ 1 \in DOMAIN ts
  BY <1>1
<1>3. ASSUME NEW x, NEW S, Followed(ts, x, S)
      PROVE  Followed(t, x, S) /\ (Head(ts) = x => Coming(t, S))
  <2>1. ASSUME NEW i \in DOMAIN t, t[i] = x PROVE \E j \in DOMAIN t : j > i /\ t[j] \in S
    <3>1. PICK j \in DOMAIN ts : j > i + 1 /\ ts[j] \in S  BY <1>1, <1>2, <1>3, <2>1 DEF Followed
    <3>2. j - 1 \in DOMAIN t /\ t[j - 1] \in S /\ j - 1 > i  BY <1>2, <3>1
    <3> QED  BY <3>2
  <2>2. ASSUME Head(ts) = x PROVE Coming(t, S)
    <3>1. PICK j \in DOMAIN ts : j > 1 /\ ts[j] \in S  BY <1>1, <1>2, <1>3, <2>2 DEF Followed
    <3>2. j - 1 \in DOMAIN t /\ t[j - 1] \in S  BY <1>2, <3>1
    <3> QED  BY <3>2 DEF Coming
  <2> QED  BY <2>1, <2>2 DEF Followed
<1>4. ASSUME NEW S, Coming(ts, S), Head(ts) \notin S PROVE Coming(t, S)
  <2>1. PICK j \in DOMAIN ts : ts[j] \in S  BY <1>4 DEF Coming
  <2>2. j - 1 \in DOMAIN t /\ t[j - 1] \in S  BY <1>1, <1>2, <1>4, <2>1
  <2> QED  BY <2>2 DEF Coming
<1>5. ASSUME EndsLast(ts)
      PROVE  IF Head(ts) = "ended" THEN Followed(t, "play", {"pause", "ended"}) ELSE EndsLast(t)
  <2>1. PICK e \in DOMAIN ts :
          ts[e] = "ended" /\ \A j \in DOMAIN ts : j > e => ts[j] \notin {"play", "pause"}
    BY <1>5 DEF EndsLast
  <2>2. CASE e = 1
    <3>1. \A i \in DOMAIN t : t[i] # "play"  BY <1>1, <1>2, <2>1, <2>2
    <3> QED  BY <1>1, <2>1, <2>2, <3>1 DEF Followed
  <2>3. CASE e # 1
    <3>1. e - 1 \in DOMAIN t /\ t[e - 1] = "ended"  BY <1>2, <2>1, <2>3
    <3>2. \A j \in DOMAIN t : j > e - 1 => t[j] \notin {"play", "pause"}  BY <1>1, <1>2, <2>1
    <3>3. \A i \in DOMAIN t : t[i] = "play" => e - 1 > i  BY <1>2, <3>1, <3>2
    <3>4. Followed(t, "play", {"pause", "ended"})  BY <3>1, <3>3 DEF Followed
    <3> QED  BY <3>1, <3>2, <3>4 DEF EndsLast
  <2> QED  BY <2>2, <2>3
<1> QED  BY <1>3, <1>4, <1>5 DEF t

LEMMA AppendTells ==
  ASSUME NEW ts \in Seq(Player!Task), NEW y \in Player!Task
  PROVE  /\ \A x, S : y # x /\ (Followed(ts, x, S) \/ y \in S) => Followed(Append(ts, y), x, S)
         /\ \A S : Coming(ts, S) \/ y \in S => Coming(Append(ts, y), S)
         /\ y = "ended" \/ (EndsLast(ts) /\ y \notin {"play", "pause"}) => EndsLast(Append(ts, y))
<1> DEFINE t == Append(ts, y)
           n == Len(ts) + 1
<1>1. /\ Len(ts) \in Nat /\ DOMAIN ts = 1 .. Len(ts) /\ DOMAIN t = 1 .. n
      /\ t[n] = y /\ \A i \in DOMAIN ts : t[i] = ts[i]
  BY AppendView
<1>2. /\ n \in DOMAIN t /\ DOMAIN ts \subseteq DOMAIN t /\ n \notin DOMAIN ts
      /\ \A i \in DOMAIN t : i # n => i \in DOMAIN ts /\ n > i /\ ~(i > n)
      /\ ~(n > n)
  BY <1>1
<1> HIDE DEF t, n
<1>3. ASSUME NEW x, NEW S, y # x, Followed(ts, x, S) \/ y \in S PROVE Followed(t, x, S)
  <2>1. ASSUME NEW i \in DOMAIN t, t[i] = x PROVE \E j \in DOMAIN t : j > i /\ t[j] \in S
    <3>1. i # n /\ i \in DOMAIN ts /\ n > i /\ ts[i] = x  BY <1>1, <1>2, <1>3, <2>1
    <3>2. CASE y \in S  BY <1>1, <1>2, <3>1, <3>2
    <3>3. CASE Followed(ts, x, S)
      <4>1. PICK j \in DOMAIN ts : j > i /\ ts[j] \in S  BY <3>1, <3>3 DEF Followed
      <4>2. j \in DOMAIN t /\ t[j] \in S  BY <1>1, <1>2, <4>1
      <4> QED  BY <4>1, <4>2
    <3> QED  BY <1>3, <3>2, <3>3
  <2> QED  BY <2>1 DEF Followed
<1>4. ASSUME NEW S, Coming(ts, S) \/ y \in S PROVE Coming(t, S)
  BY <1>1, <1>2, <1>4 DEF Coming
<1>5. ASSUME y = "ended" PROVE EndsLast(t)
  <2>1. \A j \in DOMAIN t : ~(j > n)  BY <1>2
  <2> QED  BY <1>1, <1>2, <1>5, <2>1 DEF EndsLast
<1>6. ASSUME EndsLast(ts), y \notin {"play", "pause"} PROVE EndsLast(t)
  <2>1. PICK e \in DOMAIN ts :
          ts[e] = "ended" /\ \A j \in DOMAIN ts : j > e => ts[j] \notin {"play", "pause"}
    BY <1>6 DEF EndsLast
  <2>2. e \in DOMAIN t /\ t[e] = "ended"  BY <1>1, <1>2, <2>1
  <2>3. \A j \in DOMAIN t : j > e => t[j] \notin {"play", "pause"}  BY <1>1, <1>2, <1>6, <2>1
  <2> QED  BY <2>2, <2>3 DEF EndsLast
<1> QED  BY <1>3, <1>4, <1>5, <1>6 DEF t

(* A source that is set, and played unless that is refused.                 *)
LEMMA LoadTells ==
  ASSUME NEW song, NEW wasPaused, Player!LoadAndPlay(song, wasPaused)
  PROVE  Told'
<1>1. PICK refused \in BOOLEAN :
        /\ paused' = refused /\ denied' = refused
        /\ tasks' = (IF loadFiresPause /\ ~wasPaused THEN <<"pause">> ELSE <<>>)
                      \o (IF refused THEN <<>> ELSE <<"play">>)
  BY DEF Player!LoadAndPlay
<1>2. CASE refused  BY <1>1, <1>2 DEF Told
<1>3. CASE ~refused
  <2>1. /\ <<"pause">> \in Seq({"pause", "play"}) /\ <<"play">> \in Seq({"pause", "play"})
        /\ "play" \in {"pause", "play"}
    OBVIOUS
  <2>2. tasks' = <<"play">> \/ tasks' = Append(<<"pause">>, "play")
    <3>1. <<"pause">> \o <<"play">> = Append(<<"pause">>, "play")  BY <2>1, AppendIsConcat
    <3>2. <<>> \o <<"play">> = <<"play">>  BY <2>1, ConcatEmptySeq
    <3> QED  BY <1>1, <1>3, <3>1, <3>2
  <2>3. playing' = TRUE /\ paused' = FALSE /\ denied' = FALSE /\ position' = "start"
    BY <1>1, <1>3 DEF Player!LoadAndPlay
  <2>4. Followed(tasks', "pause", {"play"}) /\ Coming(tasks', {"play"})
    <3>1. CASE tasks' = <<"play">>
      <4>1. DOMAIN <<"play">> = {1} /\ <<"play">>[1] = "play"  OBVIOUS
      <4> QED  BY <3>1, <4>1 DEF Followed, Coming
    <3>2. CASE tasks' = Append(<<"pause">>, "play")
      <4>1. Len(<<"pause">>) = 1 /\ <<"pause">>[1] = "pause"  OBVIOUS
      <4>2. /\ DOMAIN tasks' = {1, 2} /\ 2 > 1 /\ tasks'[1] = "pause" /\ tasks'[2] = "play"
        BY <2>1, <3>2, <4>1, AppendView
      <4> QED  BY <4>2 DEF Followed, Coming
    <3> QED  BY <2>2, <3>1, <3>2
  <2> QED  BY <2>3, <2>4 DEF Told
<1> QED  BY <1>2, <1>3

(* The element is asked to play, or to pause, as it stands.                 *)
LEMMA AskTells ==
  ASSUME PlayerTypes, Told, UNCHANGED failed, switching' => switching,
         \/ Player!Pause(paused) /\ playing' \in {playing, FALSE}
         \/ Player!Play(paused)
  PROVE  Told'
<1>0. CASE failed  BY <1>0 DEF Told
<1>1. CASE ~failed /\ Player!Pause(paused) /\ playing' \in {playing, FALSE}
  <2>0. denied' = denied  BY <1>1 DEF Player!Pause
  <2>1. CASE paused
    <3>1. paused' = TRUE /\ tasks' = tasks  BY <1>1, <2>1 DEF Player!Pause
    <3>2. playing' = playing \/ playing' = FALSE  BY <1>1
    <3> QED  BY <2>0, <2>1, <3>1, <3>2 DEF Told
  <2>2. CASE ~paused
    <3>1. tasks' = Append(tasks, "pause") /\ paused' = TRUE
      BY <1>1, <2>2 DEF Player!Pause, Player!Queued
    <3>2. "pause" \in Player!Task  BY DEF Player!Task
    <3>3. tasks \in Seq(Player!Task)  BY DEF PlayerTypes
    <3>4. /\ Followed(tasks', "play", {"pause", "ended"}) /\ Coming(tasks', {"pause", "ended"})
          /\ Coming(tasks, {"play"}) => Coming(tasks', {"play"})
      BY <3>1, <3>2, <3>3, AppendTells
    <3> QED  BY <1>1, <2>0, <3>1, <3>4 DEF Told
  <2> QED  BY <2>1, <2>2 DEF PlayerTypes
<1>2. CASE ~failed /\ Player!Play(paused)
  <2>1. \/ /\ playing' = (playing /\ switching) /\ UNCHANGED <<paused, position, tasks, denied>>
           /\ paused
        \/ /\ paused' = FALSE /\ denied' = FALSE /\ position' # "end"
           /\ IF paused THEN Player!Queued("play") ELSE UNCHANGED tasks
           /\ playing' = playing
    BY <1>2, PlayView DEF PlayerTypes
  <2>2. CASE /\ playing' = (playing /\ switching) /\ UNCHANGED <<paused, position, tasks, denied>>
             /\ paused
    BY <1>2, <2>2 DEF Told
  <2>3. CASE /\ paused' = FALSE /\ denied' = FALSE /\ position' # "end"
             /\ UNCHANGED tasks /\ ~paused /\ playing' = playing
    BY <1>2, <2>3 DEF Told
  <2>4. CASE /\ paused' = FALSE /\ denied' = FALSE /\ position' # "end"
             /\ Player!Queued("play")
    <3>1. tasks' = Append(tasks, "play")  BY <2>4 DEF Player!Queued
    <3>2. "play" \in Player!Task  BY DEF Player!Task
    <3>3. tasks \in Seq(Player!Task)  BY DEF PlayerTypes
    <3>4. /\ Followed(tasks', "pause", {"play"}) /\ Coming(tasks', {"play"})
      BY <3>1, <3>2, <3>3, AppendTells
    <3> QED  BY <2>4, <3>4 DEF Told
  <2> QED  BY <2>1, <2>2, <2>3, <2>4 DEF PlayerTypes
<1> QED  BY <1>0, <1>1, <1>2

(* What changes neither the element's playing nor the page's.               *)
LEMMA SameTells ==
  ASSUME Told, UNCHANGED <<playing, paused, failed, tasks, switching, denied>>,
         position' \in {position, "start", "far"}
  PROVE  Told'
BY DEF Told

LEMMA ClicksTell ==
  ASSUME PlayerInv, Told, Player!Click
  PROVE  Told'
<1>0. PlayerTypes  BY PlayerTyped DEF PlayerInv, Player!Sound
<1>1. CASE Player!PlayContext  BY <1>1, LoadTells DEF Player!PlayContext
<1>2. CASE Player!ClickNext
  <2>1. CASE \E i \in Player!Following : Player!GoTo(i, paused)
    BY <2>1, LoadTells DEF Player!GoTo
  <2>2. CASE Player!Stop(paused)  BY <1>0, <2>2, AskTells DEF Player!Stop
  <2> QED  BY <1>2, <2>1, <2>2 DEF Player!ClickNext, Player!Next
<1>3. CASE Player!Restart  BY <1>3, SameTells DEF Player!Restart
<1>4. CASE Player!Prev  BY <1>4, LoadTells DEF Player!Prev, Player!GoTo
<1>5. CASE Player!TogglePlay  BY <1>0, <1>5, AskTells DEF Player!TogglePlay
<1>6. CASE Player!Toggle  BY <1>6, SameTells DEF Player!Toggle, Player!element
<1>7. ASSUME NEW target \in {"start", "far"}, Player!Seek(target) PROVE Told'
  BY <1>7, SameTells DEF Player!Seek
<1>8. ASSUME NEW liked \in BOOLEAN, Player!SetLiked(liked) PROVE Told'
  BY <1>8, SameTells DEF Player!SetLiked, Player!element
<1>9. CASE Player!ClearSession
  <2>1. tasks' = <<"pause">> \/ tasks' = <<>>  BY <1>9 DEF Player!ClearSession
  <2>2. DOMAIN <<"pause">> = {1} /\ <<"pause">>[1] = "pause" /\ DOMAIN <<>> = {}  OBVIOUS
  <2>3. Followed(tasks', "play", {"pause", "ended"})  BY <2>1, <2>2 DEF Followed
  <2> QED  BY <1>9, <2>3 DEF Player!ClearSession, Told
<1> QED  BY <1>1, <1>2, <1>3, <1>4, <1>5, <1>6, <1>7, <1>8, <1>9 DEF Player!Click

LEMMA EventsTell ==
  ASSUME PlayerInv, Told, Player!Event
  PROVE  Told'
<1>0. PlayerTypes  BY PlayerTyped DEF PlayerInv, Player!Sound
<1>1. tasks # <<>> /\ tasks \in Seq(Player!Task) /\ Head(tasks) = tasks[1] /\ 1 \in DOMAIN tasks
  <2>1. tasks # <<>>
    BY DEF Player!Event, Player!PlayEvent, Player!PauseEvent, Player!MetadataEvent,
           Player!ErrorEvent, Player!EndedEvent, Player!Dispatch
  <2>2. tasks \in Seq(Player!Task)  BY <1>0 DEF PlayerTypes
  <2> QED  BY <2>1, <2>2
<1> DEFINE t == Tail(tasks)
<1>2. /\ \A x, S : Followed(tasks, x, S) =>
           Followed(t, x, S) /\ (Head(tasks) = x => Coming(t, S))
      /\ \A S : Coming(tasks, S) /\ Head(tasks) \notin S => Coming(t, S)
      /\ EndsLast(tasks) =>
           IF Head(tasks) = "ended" THEN Followed(t, "play", {"pause", "ended"}) ELSE EndsLast(t)
  BY <1>1, TailTells
<1> HIDE DEF t
<1>3. CASE Player!PlayEvent
  <2>1. /\ Head(tasks) = "play" /\ tasks' = t
        /\ UNCHANGED <<current, paused, failed, position, denied>>
    BY <1>3 DEF Player!PlayEvent, Player!Dispatch, t
  <2>2. current # None  BY <1>1, <2>1 DEF PlayerInv, Unloaded
  <2>3. playing' = TRUE /\ switching' = FALSE  BY <1>3, <2>2 DEF Player!PlayEvent
  <2> QED  BY <1>2, <2>1, <2>3 DEF Told
<1>4. CASE Player!PauseEvent
  <2>1. /\ Head(tasks) = "pause" /\ tasks' = t /\ UNCHANGED <<paused, failed, position, denied>>
        /\ switching' = FALSE /\ playing' = (playing /\ switching)
    BY <1>4 DEF Player!PauseEvent, Player!Dispatch, t
  <2>2. CASE switching /\ ~failed /\ ~denied
    <3>1. Coming(t, {"play"})  BY <1>2, <2>1, <2>2 DEF Told
    <3>2. paused => Coming(t, {"pause", "ended"})
      <4>1. SUFFICES ASSUME paused PROVE Coming(t, {"pause", "ended"})
        OBVIOUS
      <4>2. Followed(t, "play", {"pause", "ended"})  BY <1>2, <2>2, <4>1 DEF Told
      <4> QED  BY <3>1, <4>2 DEF Followed, Coming
    <3> QED  BY <1>2, <2>1, <2>2, <3>1, <3>2 DEF Told
  <2>3. CASE ~switching  BY <1>2, <2>1, <2>3 DEF Told
  <2>4. CASE denied  BY <2>1, <2>4 DEF Told
  <2> QED  BY <2>1, <2>2, <2>3, <2>4 DEF Told
<1>5. CASE Player!MetadataEvent
  <2>1. /\ Head(tasks) = "metadata" /\ tasks' = t
        /\ UNCHANGED <<playing, paused, failed, switching, denied>>
        /\ position' = position \/ position' \in {"start", "far"}
    BY <1>0, <1>5 DEF Player!MetadataEvent, Player!Dispatch, PlayerTypes, t
  <2> QED  BY <1>2, <2>1 DEF Told
<1>6. CASE Player!ErrorEvent  BY <1>6 DEF Player!ErrorEvent, Told
<1>7. CASE Player!EndedEvent
  <2> DEFINE wasPaused == paused \/ position = "end"
  <2>1. Head(tasks) = "ended"  BY <1>7 DEF Player!EndedEvent, Player!Dispatch
  <2>2. /\ t \in Seq(Player!Task)
        /\ \A y \in Player!Task :
             /\ \A x, S : y # x /\ (Followed(t, x, S) \/ y \in S) => Followed(Append(t, y), x, S)
             /\ \A S : Coming(t, S) \/ y \in S => Coming(Append(t, y), S)
    BY <1>1, AppendTells, TailView DEF t
  <2>3. CASE \E i \in Player!Following : Player!GoTo(i, wasPaused)
    BY <2>3, LoadTells DEF Player!GoTo
  <2>4. CASE /\ playing' = FALSE /\ switching' = FALSE /\ paused' = TRUE
             /\ tasks' = IF wasPaused THEN t ELSE Append(t, "pause")
             /\ UNCHANGED <<failed, position, denied>>
    <3>1. CASE failed \/ denied  BY <2>4, <3>1 DEF Told
    <3>2. CASE ~failed /\ ~denied /\ wasPaused
      <4>1. Followed(t, "play", {"pause", "ended"})  BY <1>2, <2>1, <3>2 DEF Told
      <4> QED  BY <2>4, <3>2, <4>1 DEF Told
    <3>3. CASE ~failed /\ ~wasPaused
      <4>1. "pause" \in Player!Task  BY DEF Player!Task
      <4>2. Followed(Append(t, "pause"), "play", {"pause", "ended"})  BY <2>2, <4>1
      <4> QED  BY <2>4, <3>3, <4>2 DEF Told
    <3> QED  BY <3>1, <3>2, <3>3
  <2>5. CASE /\ position' = "start" /\ switching' = FALSE
             /\ \E refused \in Player!Refusals(wasPaused) :
                  /\ paused' = refused /\ denied' = (denied /\ refused)
                  /\ tasks' = IF wasPaused /\ ~refused THEN Append(t, "play") ELSE t
                  /\ playing' = (playing /\ ~refused /\ ~wasPaused)
             /\ UNCHANGED failed
    <3>1. PICK refused \in Player!Refusals(wasPaused) :
            /\ paused' = refused /\ denied' = (denied /\ refused)
            /\ tasks' = IF wasPaused /\ ~refused THEN Append(t, "play") ELSE t
            /\ playing' = (playing /\ ~refused /\ ~wasPaused)
      BY <2>5
    <3>2. refused \in BOOLEAN /\ (refused => wasPaused)
      <4> HIDE DEF wasPaused
      <4> QED  BY DEF Player!Refusals
    <3>3. CASE failed \/ (denied /\ refused)  BY <2>5, <3>1, <3>3 DEF Told
    <3>4. CASE ~failed /\ ~denied /\ refused
      <4>1. Followed(t, "play", {"pause", "ended"})  BY <1>2, <2>1, <3>2, <3>4 DEF Told
      <4> QED  BY <2>5, <3>1, <3>2, <3>4, <4>1 DEF Told
    <3>5. CASE ~failed /\ ~refused /\ wasPaused
      <4>1. "play" \in Player!Task  BY DEF Player!Task
      <4>2. Followed(Append(t, "play"), "pause", {"play"}) /\ Coming(Append(t, "play"), {"play"})
        BY <2>2, <4>1
      <4> QED  BY <2>5, <3>1, <3>5, <4>2 DEF Told
    <3>6. CASE ~failed /\ ~refused /\ ~wasPaused
      <4>0. ~denied  BY <3>6 DEF Told
      <4>1. Followed(t, "pause", {"play"}) /\ (~playing => Coming(t, {"play"}))
        BY <1>2, <2>1, <3>6, <4>0 DEF Told
      <4> QED  BY <2>5, <3>1, <3>6, <4>1 DEF Told
    <3> QED  BY <3>2, <3>3, <3>4, <3>5, <3>6
  <2> QED  BY <1>7, <2>3, <2>4, <2>5 DEF Player!EndedEvent, t
<1> QED  BY <1>3, <1>4, <1>5, <1>6, <1>7 DEF Player!Event

LEMMA MediaTell ==
  ASSUME PlayerInv, Told, Player!Media
  PROVE  Told'
<1>0. PlayerTypes /\ tasks \in Seq(Player!Task)
  BY PlayerTyped DEF PlayerInv, Player!Sound, PlayerTypes
<1>1. ASSUME NEW y \in {"metadata", "error"}, tasks' = Append(tasks, y),
             UNCHANGED <<playing, switching, paused, failed, position, denied>>
      PROVE  Told'
  <2>1. y \in Player!Task  BY DEF Player!Task
  <2>2. /\ \A x, S : x \in {"play", "pause"} /\ Followed(tasks, x, S) => Followed(tasks', x, S)
        /\ \A S : Coming(tasks, S) => Coming(tasks', S)
        /\ EndsLast(tasks) => EndsLast(tasks')
    BY <1>0, <1>1, <2>1, AppendTells
  <2> QED  BY <1>1, <2>2 DEF Told
<1>2. CASE Player!Loads  BY <1>1, <1>2 DEF Player!Loads, Player!Queued, Player!shown
<1>3. CASE Player!Fails  BY <1>1, <1>3 DEF Player!Fails, Player!Queued, Player!shown
<1>4. CASE Player!Plays  BY <1>4, SameTells DEF Player!Plays
<1>5. CASE Player!Ends
  <2>1. /\ tasks' = Append(tasks, "ended") /\ ~paused /\ ~failed
        /\ UNCHANGED <<playing, switching, paused, failed, denied>>
    BY <1>5 DEF Player!Ends, Player!Queued, Player!shown
  <2>2. "ended" \in Player!Task  BY DEF Player!Task
  <2>3. /\ Followed(tasks, "pause", {"play"}) => Followed(tasks', "pause", {"play"})
        /\ Coming(tasks, {"play"}) => Coming(tasks', {"play"})
        /\ EndsLast(tasks')
    BY <1>0, <2>1, <2>2, AppendTells
  <2> QED  BY <2>1, <2>3 DEF Told
<1>6. CASE Player!SystemPauses
  <2>1. Player!Pause(paused)  BY <1>0, <1>6 DEF Player!SystemPauses, Player!Pause, PlayerTypes
  <2> QED  BY <1>0, <1>6, <2>1, AskTells DEF Player!SystemPauses, Player!shown
<1>7. CASE Player!SystemPlays
  <2>1. paused = TRUE /\ Player!Play(TRUE)  BY <1>0, <1>7 DEF Player!SystemPlays, PlayerTypes
  <2>2. Player!Play(paused)  BY <2>1
  <2> QED  BY <1>0, <1>7, <2>2, AskTells DEF Player!SystemPlays
<1> QED  BY <1>2, <1>3, <1>4, <1>5, <1>6, <1>7 DEF Player!Media

LEMMA ToldBegins == Player!Init => Told
<1>1. DOMAIN <<>> = {}  OBVIOUS
<1> QED  BY <1>1 DEF Player!Init, Told, Followed

LEMMA ToldKeeps ==
  ASSUME PlayerInv, Told, Player!Step \/ UNCHANGED playerVars
  PROVE  Told'
<1>1. CASE UNCHANGED playerVars  BY <1>1 DEF playerVars, Told
<1> QED  BY <1>1, ClicksTell, EventsTell, MediaTell DEF Player!Step

LEMMA ToldIsHonest == Told /\ PlayerInv => Player!HonestWhenSettled
<1>1. DOMAIN <<>> = {}  OBVIOUS
<1> QED
  BY <1>1, PlayerTyped
  DEF Told, Coming, Player!HonestWhenSettled, PlayerInv, Player!Sound, PlayerTypes

-----------------------------------------------------------------------------
(* Listening: an anchor is worth no more than was heard since it was set.   *)

(* What a sample would credit: twice what was moved, at the rate it is played at. *)
Anchored ==
  listen.wall >= 0 /\ ~element.seeking =>
    LET moved == element.position - listen.position IN
    \/ moved > 2 * Gap + Slack
    \/ /\ listen.media + moved <= heard.media
       /\ element.rate = 1 => listen.elapsed + 2 * moved <= 2 * heard.ticks
       /\ element.rate = 2 => listen.elapsed + moved <= 2 * heard.ticks

(* A play that is not reported yet is its beginner's, and has no row.       *)
Unreported ==
  /\ listen.play <= MaxPlays
  /\ ~listen.sent => listen.play > 0 /\ listen.user = owner[listen.play]
  /\ \A l \in listens :
       l.play \in 1 .. listen.play /\ (l.play = listen.play => listen.sent)

ListeningInv ==
  /\ Listening!Sound
  /\ heard \in [ticks : Nat, media : Nat]
  /\ Anchored /\ Unreported

Tracker ==
  [play : Nat, user : Accounts \cup {None}, elapsed : Nat, media : Nat,
   wall : -1 .. Gap, position : -1 .. Length, sent : BOOLEAN]

Element ==
  [position : 0 .. Length, playing : BOOLEAN, seeking : BOOLEAN, told : BOOLEAN,
   rate : Rates, known : BOOLEAN, halted : BOOLEAN]

LEMMA ListeningNumbers ==
  ASSUME Listening!ListeningAssumption
  PROVE  /\ MaxPlays \in Nat /\ Length \in Nat /\ Enough \in Nat /\ Slack \in Nat /\ Gap \in Nat
         /\ MaxHeard \in Nat /\ Rates \subseteq {1, 2} /\ SeekTo \subseteq 0 .. Length
         /\ -1 \in -1 .. Gap /\ -1 \in -1 .. Length /\ 0 \in -1 .. Gap
BY DEF Listening!ListeningAssumption

(* The credit of a sample.                                                  *)
LEMMA CreditedIsHeard ==
  ASSUME Listening!ListeningAssumption, ListeningInv, listen.wall >= 0, ~element.seeking
  PROVE  \E e, m \in Nat :
           /\ Listening!Credited(listen) = [listen EXCEPT !.elapsed = e, !.media = m]
           /\ e <= 2 * heard.ticks /\ m <= heard.media
<1> DEFINE moved == element.position - listen.position
           most == listen.wall * element.rate
           credit == Listening!Least(moved, most)
           gain == Listening!Least(2 * listen.wall, (2 * credit) \div element.rate)
<1>1. /\ listen.wall \in 0 .. Gap /\ element.rate \in {1, 2} /\ moved \in Int
      /\ listen.elapsed \in Nat /\ listen.media \in Nat /\ listen \in Tracker
      /\ heard.ticks \in Nat /\ heard.media \in Nat /\ Gap \in Nat /\ Slack \in Nat
      /\ listen.elapsed <= 2 * heard.ticks /\ listen.media <= heard.media
  BY ListeningNumbers
  DEF ListeningInv, Listening!Sound, Listening!TypeOK, Listening!CountsHeardOnly, Tracker
<1>2. most \in 0 .. 2 * Gap
  <2>1. CASE element.rate = 1  BY <1>1, <2>1
  <2>2. CASE element.rate = 2  BY <1>1, <2>2
  <2> QED  BY <1>1, <2>1, <2>2
<1>3. CASE moved >= 0 /\ moved <= most + Slack
  <2>1. /\ listen.media + moved <= heard.media
        /\ element.rate = 1 => listen.elapsed + 2 * moved <= 2 * heard.ticks
        /\ element.rate = 2 => listen.elapsed + moved <= 2 * heard.ticks
    <3>1. ~(moved > 2 * Gap + Slack)  BY <1>1, <1>2, <1>3
    <3> QED  BY <3>1 DEF ListeningInv, Anchored
  <2>2. credit \in Nat /\ credit <= moved  BY <1>1, <1>2, <1>3 DEF Listening!Least
  <2>3. gain \in Nat /\ listen.elapsed + gain <= 2 * heard.ticks
    <3> HIDE DEF credit
    <3>1. CASE element.rate = 1
      <4>1. (2 * credit) \div 1 = 2 * credit  BY <2>2
      <4> QED  BY <1>1, <2>1, <2>2, <3>1, <4>1 DEF Listening!Least
    <3>2. CASE element.rate = 2
      <4>1. (2 * credit) \div 2 = credit  BY <2>2
      <4> QED  BY <1>1, <2>1, <2>2, <3>2, <4>1 DEF Listening!Least
    <3> QED  BY <1>1, <3>1, <3>2
  <2>4. Listening!Credited(listen)
          = [listen EXCEPT !.elapsed = listen.elapsed + gain, !.media = listen.media + credit]
    BY <1>3 DEF Listening!Credited, Listening!Moved
  <2> HIDE DEF gain, credit
  <2>5. /\ listen.elapsed + gain \in Nat /\ listen.media + credit \in Nat
        /\ listen.media + credit <= heard.media
    BY <1>1, <2>1, <2>2, <2>3
  <2> QED  BY <2>3, <2>4, <2>5
<1>4. CASE ~(moved >= 0 /\ moved <= most + Slack)
  <2>1. Listening!Credited(listen) = listen  BY <1>4 DEF Listening!Credited, Listening!Moved
  <2>2. listen = [listen EXCEPT !.elapsed = listen.elapsed, !.media = listen.media]
    BY <1>1 DEF Tracker
  <2> QED  BY <1>1, <2>1, <2>2
<1> QED  BY <1>3, <1>4

(* A sample: what is credited by then, and whether that is enough.          *)
LEMMA SampledView ==
  ASSUME Listening!ListeningAssumption, ListeningInv, ~listen.sent
  PROVE  LET t == Listening!Sampled(listen) IN
         /\ t \in Tracker /\ t.play = listen.play /\ t.user = listen.user
         /\ t.elapsed <= 2 * heard.ticks /\ t.media <= heard.media
         /\ \/ t.wall = -1 /\ t.position = -1
            \/ t.wall = 0 /\ t.position = element.position
         /\ t.sent => t.elapsed >= 2 * Enough \/ 2 * t.media >= Length
<1> DEFINE t == Listening!Sampled(listen)
<1> SUFFICES /\ t \in Tracker /\ t.play = listen.play /\ t.user = listen.user
             /\ t.elapsed <= 2 * heard.ticks /\ t.media <= heard.media
             /\ \/ t.wall = -1 /\ t.position = -1
                \/ t.wall = 0 /\ t.position = element.position
             /\ t.sent => t.elapsed >= 2 * Enough \/ 2 * t.media >= Length
  OBVIOUS
<1>1. /\ listen \in Tracker /\ element \in Element /\ Gap \in Nat /\ Length \in Nat
      /\ Enough \in Nat /\ -1 \in -1 .. Gap /\ -1 \in -1 .. Length /\ 0 \in -1 .. Gap
      /\ listen.elapsed <= 2 * heard.ticks /\ listen.media <= heard.media
  BY ListeningNumbers
  DEF ListeningInv, Listening!Sound, Listening!TypeOK, Listening!CountsHeardOnly, Tracker, Element
<1>2. CASE ~element.playing \/ element.seeking
  <2>1. t = [listen EXCEPT !.wall = -1, !.position = -1]
    BY <1>2 DEF Listening!Sampled, Listening!Forgotten
  <2> HIDE DEF t
  <2>2. t \in Tracker  BY <1>1, <2>1 DEF Tracker
  <2>3. /\ t.play = listen.play /\ t.user = listen.user /\ t.elapsed = listen.elapsed
        /\ t.media = listen.media /\ t.wall = -1 /\ t.position = -1 /\ t.sent = listen.sent
    BY <1>1, <2>1 DEF Tracker
  <2>4. /\ t.elapsed <= 2 * heard.ticks /\ t.media <= heard.media /\ ~t.sent
    BY <1>1, <2>3
  <2> QED  BY <2>2, <2>3, <2>4
<1>3. CASE element.playing /\ ~element.seeking
  <2> DEFINE c == IF listen.wall < 0 THEN listen ELSE Listening!Credited(listen)
             full == \/ c.elapsed >= 2 * Enough
                     \/ element.known /\ 2 * c.media >= Length
  <2>1. PICK e, m \in Nat :
          /\ c = [listen EXCEPT !.elapsed = e, !.media = m]
          /\ e <= 2 * heard.ticks /\ m <= heard.media
    <3>1. CASE listen.wall >= 0
      <4>1. c = Listening!Credited(listen)  BY <1>1, <3>1 DEF Tracker
      <4> QED  BY <1>3, <3>1, <4>1, CreditedIsHeard
    <3>2. CASE ~(listen.wall >= 0)
      <4>1. c = listen  BY <1>1, <3>2 DEF Tracker
      <4>2. listen = [listen EXCEPT !.elapsed = listen.elapsed, !.media = listen.media]
            /\ listen.elapsed \in Nat /\ listen.media \in Nat
        BY <1>1 DEF Tracker
      <4> QED  BY <1>1, <4>1, <4>2
    <3> QED  BY <3>1, <3>2
  <2>2. t = [c EXCEPT !.wall = 0, !.position = element.position, !.sent = full]
    BY <1>3 DEF Listening!Sampled
  <2>3. full \in BOOLEAN  OBVIOUS
  <2>4. full => c.elapsed >= 2 * Enough \/ 2 * c.media >= Length  OBVIOUS
  <2> HIDE DEF t, c, full
  <2>5. /\ c \in Tracker /\ c.elapsed = e /\ c.media = m
        /\ c.play = listen.play /\ c.user = listen.user
    BY <1>1, <2>1 DEF Tracker
  <2>6. element.position \in -1 .. Length  BY <1>1 DEF Element
  <2>7. t \in Tracker  BY <1>1, <2>2, <2>3, <2>5, <2>6 DEF Tracker
  <2>8. /\ t.play = listen.play /\ t.user = listen.user /\ t.elapsed = e
        /\ t.media = m /\ t.wall = 0 /\ t.position = element.position /\ t.sent = full
    BY <2>2, <2>5 DEF Tracker
  <2> QED  BY <2>1, <2>4, <2>5, <2>7, <2>8
<1> QED  BY <1>2, <1>3

LEMMA SampleKeeps ==
  ASSUME Listening!ListeningAssumption, ListeningInv, Listening!Sample
  PROVE  ListeningInv'
<1>1. /\ ~listen.sent /\ listen' = Listening!Sampled(listen)
      /\ UNCHANGED <<audioToken, element, heard, owner>>
  BY DEF Listening!Sample
<1>2. /\ listen' \in Tracker /\ listen'.play = listen.play /\ listen'.user = listen.user
      /\ listen'.elapsed <= 2 * heard.ticks /\ listen'.media <= heard.media
      /\ \/ listen'.wall = -1 /\ listen'.position = -1
         \/ listen'.wall = 0 /\ listen'.position = element.position
      /\ listen'.sent => listen'.elapsed >= 2 * Enough \/ 2 * listen'.media >= Length
  BY <1>1, SampledView
<1>3. /\ element \in Element /\ element.position \in 0 .. Length /\ Length \in Nat /\ Enough \in Nat
      /\ Gap \in Nat /\ Slack \in Nat
      /\ heard \in [ticks : Nat, media : Nat] /\ listen \in Tracker
  BY ListeningNumbers DEF ListeningInv, Listening!Sound, Listening!TypeOK, Element, Tracker
<1>4. Listening!TypeOK'
  <2>1. listen'.wall = -1 <=> listen'.position = -1  BY <1>2, <1>3
  <2> QED  BY <1>1, <1>2, <2>1 DEF ListeningInv, Listening!Sound, Listening!TypeOK, Tracker
<1>5. Listening!CountsHeardOnly'  BY <1>1, <1>2 DEF Listening!CountsHeardOnly
<1>6. Anchored'
  <2>1. CASE listen'.wall = -1  BY <2>1 DEF Anchored
  <2>2. CASE listen'.wall = 0 /\ listen'.position = element.position
    <3>1. element'.position - listen'.position = 0  BY <1>1, <1>3, <2>2
    <3>2. listen'.media \in Nat /\ listen'.elapsed \in Nat /\ heard' = heard
      BY <1>1, <1>2 DEF Tracker
    <3> QED  BY <1>2, <1>3, <3>1, <3>2 DEF Anchored
  <2> QED  BY <1>2, <2>1, <2>2
<1>7. CASE UNCHANGED listens
  <2>1. Unreported'  BY <1>1, <1>2, <1>7 DEF ListeningInv, Unreported
  <2>2. Listening!ListenWasHeard' /\ Listening!ListenIsOwn'
    BY <1>1, <1>7 DEF ListeningInv, Listening!Sound, Listening!ListenWasHeard, Listening!ListenIsOwn
  <2> QED  BY <1>1, <1>3, <1>4, <1>5, <1>6, <2>1, <2>2 DEF ListeningInv, Listening!Sound
<1>8. CASE /\ listen'.sent /\ Listening!Reports(listen)
           /\ listens' = listens \cup {Listening!Report(listen)}
  <2> DEFINE new == Listening!Report(listen)
  <2>1. /\ new.user = audioToken /\ new.play = listen.play
        /\ new.ticks = heard.ticks /\ new.media = heard.media
    BY DEF Listening!Report
  <2> HIDE DEF new
  <2>2. listen.play > 0 /\ listen.user = owner[listen.play] /\ audioToken = listen.user
    BY <1>1, <1>8 DEF ListeningInv, Unreported, Listening!Reports
  <2>3. new.ticks >= Enough \/ 2 * new.media >= Length
    BY <1>2, <1>3, <1>8, <2>1 DEF Tracker
  <2>4. \A l \in listens : l.play # new.play  BY <1>1, <2>1 DEF ListeningInv, Unreported
  <2>5. listens' = listens \cup {new}  BY <1>8 DEF new
  <2>6. Listening!ListenWasHeard'
    BY <1>1, <2>3, <2>5 DEF ListeningInv, Listening!Sound, Listening!ListenWasHeard
  <2>7. Listening!ListenIsOwn'
    BY <1>1, <2>1, <2>2, <2>4, <2>5 DEF ListeningInv, Listening!Sound, Listening!ListenIsOwn
  <2>8. Unreported'
    <3>1. new.play \in 1 .. listen.play  BY <1>3, <2>1, <2>2 DEF Tracker
    <3> QED  BY <1>1, <1>2, <1>8, <2>1, <2>5, <3>1 DEF ListeningInv, Unreported
  <2> QED  BY <1>1, <1>3, <1>4, <1>5, <1>6, <2>6, <2>7, <2>8 DEF ListeningInv, Listening!Sound
<1> QED  BY <1>7, <1>8 DEF Listening!Sample

LEMMA StartKeeps ==
  ASSUME Listening!ListeningAssumption, ListeningInv, Listening!Start
  PROVE  ListeningInv'
<1>1. PICK p \in Listening!Plays :
        /\ p = listen.play + 1
        /\ listen' = [Listening!NoTracker EXCEPT !.play = p, !.user = audioToken, !.sent = FALSE]
        /\ owner' = [owner EXCEPT ![p] = audioToken]
  BY DEF Listening!Start
<1>2. PICK loaded, stopped \in BOOLEAN :
        element' = [element EXCEPT !.position = 0, !.playing = TRUE, !.seeking = FALSE,
                                   !.known = loaded, !.halted = stopped]
  BY DEF Listening!Start
<1>3. heard' = [ticks |-> 0, media |-> 0] /\ UNCHANGED <<audioToken, listens>>
  BY DEF Listening!Start
<1>4. /\ element \in Element /\ audioToken \in Accounts \cup {None} /\ listen.play \in Nat
      /\ owner \in [Listening!Plays -> Accounts \cup {None}] /\ MaxPlays \in Nat
      /\ Length \in Nat /\ Gap \in Nat
  BY ListeningNumbers DEF ListeningInv, Listening!Sound, Listening!TypeOK, Element
<1>5. /\ listen'.play = p /\ listen'.user = audioToken /\ listen'.elapsed = 0 /\ listen'.media = 0
      /\ listen'.wall = -1 /\ listen'.position = -1 /\ listen'.sent = FALSE
  BY <1>1 DEF Listening!NoTracker
<1>6. listen' \in Tracker
  <2>1. p \in Nat /\ 0 \in Nat /\ FALSE \in BOOLEAN  BY <1>1, <1>4
  <2>2. listen' = [play |-> p, user |-> audioToken, elapsed |-> 0, media |-> 0,
                   wall |-> -1, position |-> -1, sent |-> FALSE]
    BY <1>1 DEF Listening!NoTracker
  <2> QED  BY <1>4, <2>1, <2>2, ListeningNumbers DEF Tracker
<1>7. element' \in Element
  <2>1. 0 \in 0 .. Length  BY <1>4
  <2> QED  BY <1>2, <1>4, <2>1 DEF Element
<1>8. /\ p \in Nat /\ p > 0 /\ p <= MaxPlays /\ owner'[p] = audioToken
      /\ \A q \in Listening!Plays : q # p => owner'[q] = owner[q]
      /\ owner' \in [Listening!Plays -> Accounts \cup {None}]
  BY <1>1, <1>4 DEF Listening!Plays
<1>9. Listening!TypeOK'
  BY <1>3, <1>4, <1>5, <1>6, <1>7, <1>8 DEF Listening!TypeOK, Tracker, Element
<1>10. Listening!CountsHeardOnly' /\ Anchored' /\ heard' \in [ticks : Nat, media : Nat]
  BY <1>3, <1>5 DEF Listening!CountsHeardOnly, Anchored
<1>11. \A l \in listens : l.play \in Listening!Plays /\ l.play # p /\ l.play \in 1 .. p
  BY <1>1, <1>4, <1>8 DEF ListeningInv, Unreported, Listening!Plays
<1>12. Unreported'  BY <1>3, <1>5, <1>8, <1>11 DEF Unreported
<1>13. Listening!ListenWasHeard' /\ Listening!ListenIsOwn'
  BY <1>3, <1>8, <1>11
  DEF ListeningInv, Listening!Sound, Listening!ListenWasHeard, Listening!ListenIsOwn
<1> QED  BY <1>9, <1>10, <1>12, <1>13 DEF ListeningInv, Listening!Sound

(* What changes no play: only the anchor and the element matter.            *)
LEMMA SamePlay ==
  ASSUME ListeningInv, UNCHANGED <<listens, owner>>,
         audioToken' \in Accounts \cup {None},
         element' \in Element, listen' \in Tracker, heard' \in [ticks : Nat, media : Nat],
         listen'.wall = -1 <=> listen'.position = -1,
         listen'.play = listen.play, listen'.user = listen.user, listen'.sent = listen.sent,
         listen'.elapsed = listen.elapsed, listen'.media = listen.media,
         heard'.ticks >= heard.ticks, heard'.media >= heard.media, Anchored'
  PROVE  ListeningInv'
<1>1. Listening!TypeOK'
  BY DEF ListeningInv, Listening!Sound, Listening!TypeOK, Tracker, Element
<1>2. Listening!CountsHeardOnly'
  BY DEF ListeningInv, Listening!Sound, Listening!TypeOK, Listening!CountsHeardOnly
<1>3. Unreported'  BY DEF ListeningInv, Unreported
<1>4. Listening!ListenWasHeard' /\ Listening!ListenIsOwn'
  BY DEF ListeningInv, Listening!Sound, Listening!ListenWasHeard, Listening!ListenIsOwn
<1> QED  BY <1>1, <1>2, <1>3, <1>4 DEF ListeningInv, Listening!Sound

LEMMA ElementKeeps ==
  ASSUME Listening!ListeningAssumption, ListeningInv,
         \/ Listening!Advances \/ Listening!Waits
         \/ Listening!PausesOrResumes \/ Listening!PauseEvent
         \/ Listening!ChangesRate \/ Listening!LearnsDuration \/ Listening!Seeks
         \/ Listening!SeekingEvent \/ Listening!SeekedEvent \/ Listening!SeeksUnseen
         \/ Listening!SwitchAccount
  PROVE  ListeningInv'
<1>1. /\ element \in Element /\ listen \in Tracker /\ heard \in [ticks : Nat, media : Nat]
      /\ audioToken \in Accounts \cup {None} /\ (listen.wall = -1 <=> listen.position = -1)
      /\ Length \in Nat /\ Gap \in Nat /\ Slack \in Nat /\ SeekTo \subseteq 0 .. Length
      /\ Rates \subseteq {1, 2} /\ Anchored
      /\ listen.elapsed <= 2 * heard.ticks /\ listen.media <= heard.media
  BY ListeningNumbers
  DEF ListeningInv, Listening!Sound, Listening!TypeOK, Listening!CountsHeardOnly, Element, Tracker
<1>2. /\ element.position \in 0 .. Length /\ element.rate \in {1, 2} /\ element.seeking \in BOOLEAN
      /\ listen.wall \in -1 .. Gap /\ listen.position \in -1 .. Length
      /\ listen.elapsed \in Nat /\ listen.media \in Nat
      /\ heard.ticks \in Nat /\ heard.media \in Nat
  BY <1>1 DEF Element, Tracker
<1>3. CASE Listening!Advances
  <2>1. /\ listen.wall < Gap /\ element.position + element.rate <= Length
        /\ listen' = IF listen.wall < 0 THEN listen ELSE [listen EXCEPT !.wall = @ + 1]
        /\ element' = [element EXCEPT !.position = @ + element.rate]
        /\ heard' = [ticks |-> heard.ticks + 1, media |-> heard.media + element.rate]
        /\ UNCHANGED <<audioToken, listens, owner>>
    BY <1>3 DEF Listening!Advances, Listening!CanAge, Listening!Aged
  <2>2. /\ element' \in Element /\ element'.position = element.position + element.rate
        /\ element'.rate = element.rate /\ element'.seeking = element.seeking
    BY <1>1, <1>2, <2>1 DEF Element
  <2>3. /\ listen' \in Tracker /\ listen'.play = listen.play /\ listen'.user = listen.user
        /\ listen'.sent = listen.sent /\ listen'.elapsed = listen.elapsed
        /\ listen'.media = listen.media /\ listen'.position = listen.position
        /\ listen'.wall >= 0 <=> listen.wall >= 0 
        /\ listen'.wall = -1 <=> listen.wall = -1
    BY <1>1, <1>2, <2>1 DEF Tracker
  <2>4. /\ heard' \in [ticks : Nat, media : Nat] /\ heard'.ticks = heard.ticks + 1
        /\ heard'.media = heard.media + element.rate
    BY <1>2, <2>1
  <2>5. Anchored'
    BY <1>1, <1>2, <2>2, <2>3, <2>4 DEF Anchored
  <2> QED  BY <1>1, <1>2, <2>1, <2>2, <2>3, <2>4, <2>5, SamePlay
<1>4. CASE Listening!Waits
  <2>1. /\ listen.wall < Gap /\ listen.wall >= 0 /\ listen' = [listen EXCEPT !.wall = @ + 1]
        /\ UNCHANGED <<audioToken, element, listens, heard, owner>>
    BY <1>2, <1>4 DEF Listening!Waits, Listening!CanAge, Listening!Aged
  <2>2. /\ listen' \in Tracker /\ listen'.play = listen.play /\ listen'.user = listen.user
        /\ listen'.sent = listen.sent /\ listen'.elapsed = listen.elapsed
        /\ listen'.media = listen.media /\ listen'.position = listen.position
        /\ listen'.wall >= 0 /\ listen'.wall # -1 /\ listen.wall # -1
    BY <1>1, <1>2, <2>1 DEF Tracker
  <2>3. Anchored'  BY <1>1, <2>1, <2>2 DEF Anchored
  <2> QED  BY <1>1, <1>2, <2>1, <2>2, <2>3, SamePlay
<1>5. ASSUME NEW e \in Element, element' = e, listen' = listen,
             UNCHANGED <<listens, heard, owner>>, audioToken' \in Accounts \cup {None},
             \/ /\ e.position = element.position /\ e.seeking = element.seeking
                /\ e.rate = element.rate
             \/ listen.wall < 0 \/ e.seeking
             \/ e.position < listen.position \/ e.position > listen.position + 2 * Gap + Slack
      PROVE  ListeningInv'
  <2>1. e.position \in 0 .. Length /\ e.rate \in {1, 2}  BY <1>1 DEF Element
  <2>2. Anchored'
    <3>1. CASE e.position = element.position /\ e.seeking = element.seeking /\ e.rate = element.rate
      BY <1>1, <1>5, <3>1 DEF Anchored
    <3>2. CASE listen.wall < 0 \/ e.seeking  BY <1>2, <1>5, <3>2 DEF Anchored
    <3>3. CASE e.position < listen.position  BY <1>1, <1>2, <1>5, <2>1, <3>3 DEF Anchored
    <3>4. CASE e.position > listen.position + 2 * Gap + Slack
      BY <1>1, <1>2, <1>5, <2>1, <3>4 DEF Anchored
    <3> QED  BY <1>5, <3>1, <3>2, <3>3, <3>4
  <2> QED  BY <1>1, <1>2, <1>5, <2>2, SamePlay
<1>6. CASE Listening!PausesOrResumes
  <2> DEFINE e == [element EXCEPT !.playing = ~element.playing,
                                  !.halted = element.halted \/ element.playing]
  <2>1. e \in Element /\ e.position = element.position /\ e.seeking = element.seeking
        /\ e.rate = element.rate
    BY <1>1 DEF Element
  <2>2. element' = e /\ UNCHANGED <<audioToken, listen, listens, heard, owner>>
    BY <1>6 DEF Listening!PausesOrResumes
  <2> QED  BY <1>1, <1>5, <2>1, <2>2
<1>7. CASE Listening!ChangesRate
  <2>1. PICK r \in Rates \ {element.rate} : element' = [element EXCEPT !.rate = r]
    BY <1>7 DEF Listening!ChangesRate
  <2>2. element' \in Element  BY <1>1, <2>1 DEF Element
  <2> QED  BY <1>1, <1>5, <1>7, <2>2 DEF Listening!ChangesRate
<1>8. CASE Listening!LearnsDuration
  <2> DEFINE e == [element EXCEPT !.known = TRUE]
  <2>1. e \in Element /\ e.position = element.position /\ e.seeking = element.seeking
        /\ e.rate = element.rate
    BY <1>1 DEF Element
  <2>2. element' = e /\ UNCHANGED <<audioToken, listen, listens, heard, owner>>
    BY <1>8 DEF Listening!LearnsDuration
  <2> QED  BY <1>1, <1>5, <2>1, <2>2
<1>9. CASE Listening!Seeks
  <2>1. PICK p \in SeekTo :
          element' = [element EXCEPT !.position = p, !.seeking = TRUE, !.told = FALSE]
    BY <1>9 DEF Listening!Seeks
  <2>2. element' \in Element /\ element'.seeking  BY <1>1, <2>1 DEF Element
  <2> QED  BY <1>1, <1>5, <1>9, <2>2 DEF Listening!Seeks
<1>10. CASE Listening!SeekingEvent \/ Listening!SeekedEvent \/ Listening!PauseEvent
  <2>1. /\ listen' = [listen EXCEPT !.wall = -1, !.position = -1]
        /\ UNCHANGED <<audioToken, listens, heard, owner>>
        /\ \/ element' = [element EXCEPT !.told = TRUE]
           \/ element' = [element EXCEPT !.seeking = FALSE]
           \/ element' = [element EXCEPT !.halted = FALSE]
    BY <1>10 DEF Listening!SeekingEvent, Listening!SeekedEvent, Listening!PauseEvent,
                 Listening!Reset, Listening!Forgotten
  <2>2. element' \in Element  BY <1>1, <2>1 DEF Element
  <2>3. listen' \in Tracker  BY <1>1, <2>1, ListeningNumbers DEF Tracker
  <2>4. /\ listen'.play = listen.play /\ listen'.user = listen.user
        /\ listen'.sent = listen.sent /\ listen'.elapsed = listen.elapsed
        /\ listen'.media = listen.media /\ listen'.position = -1 /\ listen'.wall = -1
    BY <1>1, <2>1 DEF Tracker
  <2>5. Anchored'  BY <2>4 DEF Anchored
  <2> QED  BY <1>1, <1>2, <2>1, <2>2, <2>3, <2>4, <2>5, SamePlay
<1>11. CASE Listening!SeeksUnseen
  <2>1. PICK p \in SeekTo :
          /\ listen.wall >= 0 =>
               p < listen.position \/ p > listen.position + 2 * Gap + Slack
          /\ element' = [element EXCEPT !.position = p]
    BY <1>11 DEF Listening!SeeksUnseen
  <2>2. element' \in Element /\ element'.position = p  BY <1>1, <2>1 DEF Element
  <2>3. listen.wall >= 0 \/ listen.wall < 0  BY <1>2
  <2> QED  BY <1>1, <1>5, <1>11, <2>1, <2>2, <2>3 DEF Listening!SeeksUnseen
<1>12. CASE Listening!SwitchAccount
  <2>1. audioToken' \in Accounts \cup {None} /\ UNCHANGED <<element, listen, listens, heard, owner>>
    BY <1>12 DEF Listening!SwitchAccount
  <2> QED  BY <1>1, <1>5, <2>1
<1> QED  BY <1>3, <1>4, <1>6, <1>7, <1>8, <1>9, <1>10, <1>11, <1>12

LEMMA ListeningBegins ==
  ASSUME Listening!ListeningAssumption, Listening!Init
  PROVE  ListeningInv
<1>1. /\ listen.play = 0 /\ listen.user = None /\ listen.elapsed = 0 /\ listen.media = 0
      /\ listen.wall = -1 /\ listen.position = -1 /\ listen.sent = TRUE
  BY DEF Listening!Init, Listening!NoTracker
<1>2. listen \in Tracker
  BY ListeningNumbers DEF Listening!Init, Listening!NoTracker, Tracker
<1>3. element \in Element
  <2>1. 0 \in 0 .. Length  BY ListeningNumbers
  <2> QED  BY <2>1 DEF Listening!Init, Element
<1>4. owner \in [Listening!Plays -> Accounts \cup {None}] /\ audioToken \in Accounts
      /\ heard = [ticks |-> 0, media |-> 0] /\ listens = {}
  BY DEF Listening!Init
<1>5. Listening!TypeOK  BY <1>1, <1>2, <1>3, <1>4 DEF Listening!TypeOK, Tracker, Element
<1> QED
  BY <1>1, <1>4, <1>5, ListeningNumbers
  DEF ListeningInv, Listening!Sound, Listening!CountsHeardOnly, Listening!ListenWasHeard,
      Listening!ListenIsOwn, Anchored, Unreported

LEMMA ListeningKeeps ==
  ASSUME Listening!ListeningAssumption, ListeningInv, Listening!Next \/ UNCHANGED listeningVars
  PROVE  ListeningInv'
<1>1. CASE UNCHANGED listeningVars
  BY <1>1
  DEF listeningVars, ListeningInv, Listening!Sound, Listening!TypeOK, Listening!CountsHeardOnly,
      Listening!ListenWasHeard, Listening!ListenIsOwn, Anchored, Unreported
<1> QED  BY <1>1, SampleKeeps, StartKeeps, ElementKeeps DEF Listening!Next

-----------------------------------------------------------------------------
(* Likes: TypeOK is inductive.                                              *)

LikesTypes ==
  /\ server \subseteq Songs
  /\ fetched \in Likes!Flags /\ row \in Likes!Flags /\ likeQueue \in Likes!Flags
  /\ likeCurrent \in Songs \cup {None}
  /\ pageKey \in (Songs \cup {None}) \X BOOLEAN
  /\ \A r \in clicks : r \in Likes!Request

LEMMA LikesTyped ==
  /\ Likes!TypeOK <=>
       LikesTypes /\ (likeCurrent = None => \A s \in Songs : ~likeQueue[s])
  /\ Likes!TypeOK' <=>
       LikesTypes' /\ (likeCurrent' = None => \A s \in Songs : ~likeQueue'[s])
BY DEF Likes!TypeOK, LikesTypes

LEMMA FlagsView ==
  ASSUME NEW f \in Likes!Flags, NEW s \in Songs, NEW liked \in BOOLEAN
  PROVE  /\ [f EXCEPT ![s] = liked] \in Likes!Flags /\ f[s] \in BOOLEAN /\ (~f[s]) \in BOOLEAN
         /\ \A o \in Songs \ {s} : [f EXCEPT ![s] = liked][o] = f[o]
BY DEF Likes!Flags

LEMMA SetLikedKeeps ==
  ASSUME Likes!LikesAssumption, Likes!TypeOK, NEW liked \in BOOLEAN,
         Likes!SetLiked(liked), likeCurrent' = likeCurrent
  PROVE  /\ likeQueue' \in Likes!Flags
         /\ likeCurrent' = None => \A s \in Songs : ~likeQueue'[s]
         /\ \A o \in Songs \ {likeCurrent} : likeQueue'[o] = likeQueue[o]
<1>1. /\ likeQueue \in Likes!Flags /\ likeCurrent \in Songs \cup {None} /\ None \notin Songs
      /\ likeCurrent = None => \A s \in Songs : ~likeQueue[s]
  BY LikesTyped DEF LikesTypes, Likes!LikesAssumption
<1>2. CASE likeCurrent = None  BY <1>1, <1>2 DEF Likes!SetLiked
<1>3. CASE likeCurrent # None
  <2>1. likeCurrent \in Songs  BY <1>1, <1>3
  <2>2. likeQueue' = [likeQueue EXCEPT ![likeCurrent] = liked]  BY <1>3 DEF Likes!SetLiked
  <2>3. /\ likeQueue' \in Likes!Flags
        /\ \A o \in Songs \ {likeCurrent} : likeQueue'[o] = likeQueue[o]
    <3>1. /\ [likeQueue EXCEPT ![likeCurrent] = liked] \in Likes!Flags
          /\ \A o \in Songs \ {likeCurrent} :
               [likeQueue EXCEPT ![likeCurrent] = liked][o] = likeQueue[o]
      BY <1>1, <2>1, FlagsView
    <3> QED  BY <2>2, <3>1
  <2> QED  BY <1>3, <2>3
<1> QED  BY <1>2, <1>3

(* What a click on a row or on the bar changes when it is answered.         *)
LEMMA RowAnsweredView ==
  ASSUME Likes!LikesAssumption, Likes!TypeOK, NEW r \in clicks, Likes!RowAnswered(r)
  PROVE  Likes!TypeOK' /\ Likes!OnlyOf(r)
<1>1. /\ LikesTypes /\ r \in Likes!Request /\ r.song \in Songs /\ r.was \in BOOLEAN
      /\ None \notin Songs /\ (likeCurrent = None => \A s \in Songs : ~likeQueue[s])
  BY LikesTyped DEF LikesTypes, Likes!Request, Likes!LikesAssumption
<1>2. /\ UNCHANGED <<server, fetched, likeCurrent, pageKey>> /\ clicks' \subseteq clicks
      /\ row' \in {row, [row EXCEPT ![r.song] = r.was]}
  BY DEF Likes!RowAnswered
<1>3. /\ row' \in Likes!Flags /\ \A s \in Songs \ {r.song} : row'[s] = row[s]
  <2>1. row \in Likes!Flags  BY <1>1 DEF LikesTypes
  <2>2. /\ [row EXCEPT ![r.song] = r.was] \in Likes!Flags
        /\ \A s \in Songs \ {r.song} : [row EXCEPT ![r.song] = r.was][s] = row[s]
    BY <1>1, <2>1, FlagsView
  <2> QED  BY <1>2, <2>1, <2>2
<1>4. /\ likeQueue' \in Likes!Flags
      /\ likeCurrent' = None => \A s \in Songs : ~likeQueue'[s]
      /\ \A s \in Songs \ {r.song} : likeQueue'[s] = likeQueue[s]
  <2>1. CASE likeCurrent = r.song
    <3>1. PICK liked \in BOOLEAN : Likes!SetLiked(liked)
      BY <1>1, <2>1 DEF Likes!RowAnswered, Likes!SetLikedOf
    <3> QED  BY <1>2, <2>1, <3>1, SetLikedKeeps
  <2>2. CASE likeCurrent # r.song
    <3>1. likeQueue' = likeQueue  BY <2>2 DEF Likes!RowAnswered, Likes!SetLikedOf
    <3> QED  BY <1>1, <1>2, <3>1 DEF LikesTypes
  <2> QED  BY <2>1, <2>2
<1>5. LikesTypes'  BY <1>1, <1>2, <1>3, <1>4 DEF LikesTypes
<1> QED  BY <1>3, <1>4, <1>5, LikesTyped DEF Likes!OnlyOf

LEMMA LikesBegins ==
  ASSUME Likes!LikesAssumption, Likes!Init
  PROVE  Likes!TypeOK
<1>1. likeQueue \in Likes!Flags /\ (\A s \in Songs : ~likeQueue[s]) /\ Likes!Liked \in Likes!Flags
  BY DEF Likes!Init, Likes!Flags, Likes!Liked
<1>2. pageKey \in (Songs \cup {None}) \X BOOLEAN  BY DEF Likes!Init
<1>3. LikesTypes  BY <1>1, <1>2 DEF Likes!Init, LikesTypes
<1> QED  BY <1>1, <1>3, LikesTyped

LEMMA LikesKeeps ==
  ASSUME Likes!LikesAssumption, Likes!TypeOK, Likes!Next \/ UNCHANGED likesVars
  PROVE  Likes!TypeOK'
<1>1. /\ LikesTypes /\ None \notin Songs
      /\ likeCurrent = None => \A s \in Songs : ~likeQueue[s]
  BY LikesTyped DEF Likes!LikesAssumption
<1>2. ASSUME NEW s \in Songs, NEW from \in {"row", "bar"}, NEW was \in BOOLEAN,
             Likes!Ask(s, from, was)
      PROVE  \A r \in clicks' : r \in Likes!Request
  <2>1. [song |-> s, from |-> from, was |-> was, button |-> TRUE, at |-> "sent"] \in Likes!Request
    BY DEF Likes!Request
  <2> QED  BY <1>1, <1>2, <2>1 DEF Likes!Ask, LikesTypes
<1>3. ASSUME NEW s \in Songs, Likes!ClickRow(s) PROVE Likes!TypeOK'
  <2>1. row[s] \in BOOLEAN /\ row' \in Likes!Flags
    <3>1. row[s] \in BOOLEAN /\ (~row[s]) \in BOOLEAN  BY <1>1, FlagsView DEF LikesTypes
    <3> QED  BY <1>1, <1>3, <3>1, FlagsView DEF LikesTypes, Likes!ClickRow
  <2>2. \A r \in clicks' : r \in Likes!Request  BY <1>2, <1>3, <2>1 DEF Likes!ClickRow
  <2>3. LikesTypes'  BY <1>1, <1>3, <2>1, <2>2 DEF LikesTypes, Likes!ClickRow
  <2> QED  BY <1>1, <1>3, <2>3, LikesTyped DEF Likes!ClickRow
<1>4. CASE Likes!ClickBar
  <2>1. likeCurrent \in Songs  BY <1>1, <1>4 DEF Likes!ClickBar, LikesTypes
  <2>2. likeQueue[likeCurrent] \in BOOLEAN /\ (~likeQueue[likeCurrent]) \in BOOLEAN
    BY <1>1, <2>1, FlagsView DEF LikesTypes
  <2>3. \A r \in clicks' : r \in Likes!Request  BY <1>2, <1>4, <2>1, <2>2 DEF Likes!ClickBar
  <2>4. /\ likeQueue' \in Likes!Flags
        /\ likeCurrent' = None => \A s \in Songs : ~likeQueue'[s]
    BY <1>4, <2>2, SetLikedKeeps DEF Likes!ClickBar
  <2>5. LikesTypes'  BY <1>1, <1>4, <2>3, <2>4 DEF LikesTypes, Likes!ClickBar
  <2> QED  BY <2>4, <2>5, LikesTyped
<1>5. ASSUME NEW r \in clicks, Likes!Reaches(r) \/ Likes!IsLost(r) PROVE Likes!TypeOK'
  <2>1. r \in Likes!Request /\ r.song \in Songs  BY <1>1 DEF LikesTypes, Likes!Request
  <2>2. \A to \in {"done", "failed"} : [r EXCEPT !.at = to] \in Likes!Request
    BY <2>1 DEF Likes!Request
  <2>3. \A q \in clicks' : q \in Likes!Request
    BY <1>1, <1>5, <2>2 DEF LikesTypes, Likes!Reaches, Likes!IsLost, Likes!Becomes
  <2>4. server' \subseteq Songs
    BY <1>1, <1>5, <2>1 DEF LikesTypes, Likes!Reaches, Likes!IsLost
  <2>5. UNCHANGED <<fetched, row, likeQueue, likeCurrent, pageKey>>
    BY <1>5 DEF Likes!Reaches, Likes!IsLost
  <2>6. LikesTypes'  BY <1>1, <2>3, <2>4, <2>5 DEF LikesTypes
  <2> QED  BY <1>1, <2>5, <2>6, LikesTyped
<1>6. ASSUME NEW r \in clicks, Likes!BarAnswered(r) PROVE Likes!TypeOK'
  <2>1. r.was \in BOOLEAN  BY <1>1 DEF LikesTypes, Likes!Request
  <2>2. /\ likeQueue' \in Likes!Flags
        /\ likeCurrent' = None => \A s \in Songs : ~likeQueue'[s]
    BY <1>1, <1>6, <2>1, SetLikedKeeps DEF Likes!BarAnswered, LikesTypes
  <2>3. LikesTypes'  BY <1>1, <1>6, <2>2 DEF LikesTypes, Likes!BarAnswered
  <2> QED  BY <2>2, <2>3, LikesTyped
<1>7. ASSUME NEW s \in Songs, Likes!PlayContext(s) \/ Likes!Skip(s) PROVE Likes!TypeOK'
  <2>1. LikesTypes' /\ likeCurrent' # None
    BY <1>1, <1>7 DEF LikesTypes, Likes!PlayContext, Likes!Skip
  <2> QED  BY <2>1, LikesTyped
<1>8. CASE Likes!LoadPage
  <2>1. \A r \in clicks : [r EXCEPT !.button = FALSE] \in Likes!Request
    BY <1>1 DEF LikesTypes, Likes!Request
  <2>2. Likes!Liked \in Likes!Flags  BY DEF Likes!Liked, Likes!Flags
  <2>3. LikesTypes'  BY <1>1, <1>8, <2>1, <2>2 DEF LikesTypes, Likes!LoadPage
  <2> QED  BY <1>1, <1>8, <2>3, LikesTyped DEF Likes!LoadPage
<1>9. CASE Likes!Sync
  <2>1. pageKey' \in (Songs \cup {None}) \X BOOLEAN
    <3>1. CASE likeCurrent = None  BY <1>9, <3>1 DEF Likes!Sync, Likes!PlayerKey
    <3>2. CASE likeCurrent # None
      <4>1. likeCurrent \in Songs  BY <1>1, <3>2 DEF LikesTypes
      <4>2. likeQueue[likeCurrent] \in BOOLEAN  BY <1>1, <4>1, FlagsView DEF LikesTypes
      <4> QED  BY <1>9, <3>2, <4>1, <4>2 DEF Likes!Sync, Likes!PlayerKey
    <3> QED  BY <3>1, <3>2
  <2>2. LikesTypes'  BY <1>1, <1>9, <2>1 DEF LikesTypes, Likes!Sync
  <2> QED  BY <1>1, <1>9, <2>2, LikesTyped DEF Likes!Sync
<1>10. CASE UNCHANGED likesVars  BY <1>10 DEF likesVars, Likes!TypeOK
<1> QED
  BY <1>3, <1>4, <1>5, <1>6, <1>7, <1>8, <1>9, <1>10, RowAnsweredView DEF Likes!Next

-----------------------------------------------------------------------------
(* PlaylistPages: what is still to come is no older than what it is for.    *)

Fetch ==
  [kind : {"list", "library", "playlist", "settings"}, asked : PlaylistPages!Revisions,
   box : BOOLEAN, overtaken : BOOLEAN]

OwnChange == [kind : {"create", "pick", "remove"}, revision : PlaylistPages!Revisions]

(* The last fetch of the list was sent after the changes that are answered. *)
ListIn(rs) == \E i \in DOMAIN rs : rs[i].kind = "list"

LastList(rs, i) ==
  rs[i].kind = "list" /\ \A j \in DOMAIN rs : j > i => rs[j].kind # "list"

RecentIn(rs, revision) ==
  \A i \in DOMAIN rs : LastList(rs, i) => rs[i].overtaken \/ rs[i].asked >= revision

(* What a page on the screen waits for is its own, and as recent.           *)
BoxIsOfPage ==
  \A i \in DOMAIN fetches :
    fetches[i].box /\ fetches[i].kind \in {"playlist", "settings"}
      => /\ fetches[i].kind = at
         /\ at = "playlist" => fetches[i].asked >= known.removed

PagesTypes ==
  /\ playlists \in PlaylistPages!Revisions /\ at \in PlaylistPages!Pages
  /\ cache \in PlaylistPages!Revisions \cup {NoLists}
  /\ library \in PlaylistPages!Revisions \cup {NoLists, None}
  /\ page \in PlaylistPages!Revisions \cup {NoLists, Spinner}
  /\ fetches \in Seq(Fetch) /\ \A i \in DOMAIN fetches : fetches[i].asked <= playlists
  /\ changes \in Seq(OwnChange) /\ \A i \in DOMAIN changes : changes[i].revision <= playlists
  /\ known \in [listed : PlaylistPages!Revisions, removed : PlaylistPages!Revisions]
  /\ known.listed <= playlists /\ known.removed <= playlists
  /\ late \in BOOLEAN

PagesInv ==
  /\ PagesTypes /\ RecentIn(fetches, known.listed) /\ BoxIsOfPage
  /\ PlaylistPages!ListHasOwnChanges /\ PlaylistPages!PageIsOfLastRender

LEMMA PagesNumbers ==
  ASSUME PlaylistPages!PlaylistPagesAssumption
  PROVE  /\ MaxRevision \in Nat /\ PlaylistPages!Revisions = 0 .. MaxRevision
         /\ PlaylistPages!Revisions \subseteq Nat
         /\ None \notin Nat /\ NoLists \notin Nat /\ Spinner \notin Nat
         /\ Spinner # None /\ Spinner # NoLists /\ None # NoLists
BY DEF PlaylistPages!PlaylistPagesAssumption, PlaylistPages!Revisions

LEMMA PagesElements ==
  ASSUME PagesTypes
  PROVE  /\ \A i \in DOMAIN fetches :
              fetches[i] \in Fetch /\ fetches[i].asked \in PlaylistPages!Revisions
         /\ \A i \in DOMAIN changes :
              /\ changes[i] \in OwnChange /\ changes[i].kind \in {"create", "pick", "remove"}
              /\ changes[i].revision \in PlaylistPages!Revisions
         /\ known.listed \in PlaylistPages!Revisions /\ known.removed \in PlaylistPages!Revisions
<1>1. \A i \in DOMAIN fetches : fetches[i] \in Fetch  BY DEF PagesTypes
<1>2. \A i \in DOMAIN changes : changes[i] \in OwnChange  BY DEF PagesTypes
<1>3. \A f \in Fetch : f.asked \in PlaylistPages!Revisions  BY DEF Fetch
<1>4. \A c \in OwnChange :
        c.kind \in {"create", "pick", "remove"} /\ c.revision \in PlaylistPages!Revisions
  BY DEF OwnChange
<1>5. known.listed \in PlaylistPages!Revisions /\ known.removed \in PlaylistPages!Revisions
  BY DEF PagesTypes
<1> QED  BY <1>1, <1>2, <1>3, <1>4, <1>5

LEMMA RemoveAtView ==
  ASSUME NEW S, NEW s \in Seq(S), NEW i \in DOMAIN s
  PROVE  LET t == PlaylistPages!RemoveAt(s, i) IN
         /\ t \in Seq(S) /\ Len(t) = Len(s) - 1 /\ DOMAIN t = 1 .. Len(s) - 1
         /\ \A j \in DOMAIN t : t[j] = IF j < i THEN s[j] ELSE s[j + 1]
<1> DEFINE a == SubSeq(s, 1, i - 1)
           b == SubSeq(s, i + 1, Len(s))
<1>1. Len(s) \in Nat /\ i \in 1 .. Len(s) /\ DOMAIN s = 1 .. Len(s)  OBVIOUS
<1>2. \A j \in 1 .. Len(s) : s[j] \in S  OBVIOUS
<1>3. /\ a \in Seq(S) /\ Len(a) = i - 1 /\ \A j \in 1 .. i - 1 : a[j] = s[j]
  BY <1>1, <1>2
<1>4. /\ b \in Seq(S) /\ Len(b) = Len(s) - i /\ \A j \in 1 .. Len(s) - i : b[j] = s[i + j]
  <2>1. /\ b \in Seq(S)
        /\ Len(b) = IF i + 1 <= Len(s) THEN Len(s) - (i + 1) + 1 ELSE 0
        /\ \A j \in 1 .. Len(s) - (i + 1) + 1 : b[j] = s[(i + 1) + j - 1]
    BY <1>1, <1>2, SubSeqProperties
  <2> HIDE DEF b
  <2>2. Len(b) = Len(s) - i /\ Len(s) - (i + 1) + 1 = Len(s) - i  BY <1>1, <2>1
  <2>3. \A j \in 1 .. Len(s) - i : (i + 1) + j - 1 = i + j  BY <1>1
  <2> QED  BY <2>1, <2>2, <2>3
<1> HIDE DEF a, b
<1>5. /\ a \o b \in Seq(S) /\ Len(a \o b) = Len(a) + Len(b)
      /\ \A j \in 1 .. Len(a) + Len(b) :
           (a \o b)[j] = IF j <= Len(a) THEN a[j] ELSE b[j - Len(a)]
  BY <1>3, <1>4, ConcatProperties
<1>6. Len(a) + Len(b) = Len(s) - 1  BY <1>1, <1>3, <1>4
<1>7. DOMAIN (a \o b) = 1 .. Len(s) - 1  BY <1>5, <1>6, LenProperties
<1>8. \A j \in 1 .. Len(s) - 1 : (a \o b)[j] = IF j < i THEN s[j] ELSE s[j + 1]
  <2> SUFFICES ASSUME NEW j \in 1 .. Len(s) - 1
               PROVE  (a \o b)[j] = IF j < i THEN s[j] ELSE s[j + 1]
    OBVIOUS
  <2>1. CASE j < i
    <3>1. j <= Len(a) /\ j \in 1 .. i - 1  BY <1>1, <1>3, <2>1
    <3> QED  BY <1>3, <1>5, <1>6, <2>1, <3>1
  <2>2. CASE ~(j < i)
    <3>1. ~(j <= Len(a)) /\ j - Len(a) \in 1 .. Len(s) - i /\ i + (j - Len(a)) = j + 1
      BY <1>1, <1>3, <2>2
    <3> QED  BY <1>4, <1>5, <1>6, <2>2, <3>1
  <2> QED  BY <2>1, <2>2
<1> QED  BY <1>5, <1>6, <1>7, <1>8 DEF PlaylistPages!RemoveAt, a, b

(* A page that is drawn: what was asked for stays, but for another container. *)
Carries(rs) ==
  /\ fetches' \in Seq(Fetch) /\ DOMAIN rs \subseteq DOMAIN fetches'
  /\ \A i \in DOMAIN rs :
       /\ fetches'[i].kind = rs[i].kind /\ fetches'[i].asked = rs[i].asked
       /\ fetches'[i].overtaken = rs[i].overtaken /\ ~fetches'[i].box
  /\ \A i \in DOMAIN fetches' \ DOMAIN rs :
       /\ fetches'[i].kind \in {"playlist", "settings", "library"} /\ fetches'[i].kind = at'
       /\ fetches'[i].asked = playlists

LEMMA RenderedView ==
  ASSUME PlaylistPages!PlaylistPagesAssumption, playlists \in PlaylistPages!Revisions,
         NEW p \in PlaylistPages!Pages,
         NEW list \in PlaylistPages!Revisions \cup {NoLists},
         NEW lib \in PlaylistPages!Revisions \cup {NoLists, None},
         NEW rs \in Seq(Fetch), PlaylistPages!Rendered(p, list, lib, rs)
  PROVE  /\ at' = p /\ cache' = list /\ library' = lib /\ Carries(rs)
         /\ page' \in PlaylistPages!Revisions \cup {NoLists, Spinner}
         /\ p = "playlist" => page' \notin Nat
         /\ page' = Spinner =>
              \E i \in DOMAIN fetches' :
                fetches'[i].kind = p /\ (p = "library" \/ fetches'[i].box)
<1> DEFINE old == PlaylistPages!Detached(rs)
           new == PlaylistPages!Fetches(p, lib, rs)
<1>1. /\ at' = p /\ cache' = list /\ library' = lib /\ fetches' = old \o new
      /\ page' = CASE p \in {"playlist", "settings"} -> Spinner
                   [] p = "library" -> IF lib = None THEN Spinner ELSE lib
                   [] p = "other" -> list
  BY DEF PlaylistPages!Rendered
<1>2. /\ p \in {"playlist", "settings", "library", "other"} /\ Len(rs) \in Nat
      /\ DOMAIN rs = 1 .. Len(rs) /\ \A i \in DOMAIN rs : rs[i] \in Fetch
  BY DEF PlaylistPages!Pages
<1>3. /\ old \in Seq(Fetch) /\ Len(old) = Len(rs)
      /\ \A i \in DOMAIN rs :
           /\ old[i].kind = rs[i].kind /\ old[i].asked = rs[i].asked
           /\ old[i].overtaken = rs[i].overtaken /\ ~old[i].box
  <2>1. \A r \in Fetch :
          /\ [r EXCEPT !.box = FALSE] \in Fetch /\ [r EXCEPT !.box = FALSE].kind = r.kind
          /\ [r EXCEPT !.box = FALSE].asked = r.asked
          /\ [r EXCEPT !.box = FALSE].overtaken = r.overtaken /\ ~[r EXCEPT !.box = FALSE].box
    BY DEF Fetch
  <2>2. old = [i \in 1 .. Len(rs) |-> [rs[i] EXCEPT !.box = FALSE]]
    BY <1>2 DEF PlaylistPages!Detached
  <2> HIDE DEF old
  <2>3. \A i \in 1 .. Len(rs) : old[i] = [rs[i] EXCEPT !.box = FALSE] /\ old[i] \in Fetch
    BY <1>2, <2>1, <2>2
  <2>4. old \in Seq(Fetch) /\ Len(old) = Len(rs)  BY <1>2, <2>2, <2>3
  <2> QED  BY <1>2, <2>1, <2>3, <2>4
<1>4. \/ /\ new = <<>>
         /\ p = "other" \/ (p = "library" /\ (lib # None \/ PlaylistPages!LibLoading(rs)))
      \/ p # "other" /\ new = <<PlaylistPages!Request(p)>>
  BY <1>2 DEF PlaylistPages!Fetches
<1> HIDE DEF old, new
<1>5. ASSUME p # "other", NEW r, r = PlaylistPages!Request(p)
      PROVE  /\ r \in Fetch /\ r.kind = p /\ r.asked = playlists /\ r.box = TRUE
             /\ <<r>> \in Seq(Fetch) /\ Len(<<r>>) = 1 /\ <<r>>[1] = r
  <2>1. r \in Fetch /\ r.kind = p /\ r.asked = playlists /\ r.box = TRUE
    BY <1>2, <1>5 DEF PlaylistPages!Request, Fetch
  <2> QED  BY <2>1
<1>6. CASE new = <<>>
  <2>1. fetches' = old  BY <1>1, <1>3, <1>6, ConcatEmptySeq
  <2>2. DOMAIN old = DOMAIN rs  BY <1>2, <1>3
  <2>3. page' = Spinner => PlaylistPages!LibLoading(rs) /\ p = "library"
    <3>1. p = "other" \/ (p = "library" /\ (lib # None \/ PlaylistPages!LibLoading(rs)))
      <4>1. \A r : Len(<<r>>) = 1 /\ Len(<<>>) = 0  OBVIOUS
      <4> QED  BY <1>4, <1>6, <4>1
    <3> QED  BY <1>1, <3>1, PagesNumbers
  <2>4. Carries(rs)  BY <1>3, <2>1, <2>2 DEF Carries
  <2>5. /\ page' \in PlaylistPages!Revisions \cup {NoLists, Spinner}
        /\ p = "playlist" => page' \notin Nat
    BY <1>1, <1>2, PagesNumbers
  <2> QED  BY <1>1, <1>3, <2>1, <2>2, <2>3, <2>4, <2>5 DEF PlaylistPages!LibLoading
<1>7. CASE p # "other" /\ new = <<PlaylistPages!Request(p)>>
  <2>1. PICK r : r = PlaylistPages!Request(p)  OBVIOUS
  <2>2. /\ r \in Fetch /\ r.kind = p /\ r.asked = playlists /\ r.box = TRUE
        /\ new \in Seq(Fetch) /\ Len(new) = 1 /\ new[1] = r
    BY <1>5, <1>7, <2>1
  <2>3. /\ fetches' \in Seq(Fetch) /\ DOMAIN fetches' = 1 .. Len(rs) + 1
        /\ \A i \in 1 .. Len(rs) : fetches'[i] = old[i]
        /\ fetches'[Len(rs) + 1] = r
    <3>1. /\ old \o new \in Seq(Fetch) /\ Len(old \o new) = Len(rs) + 1
          /\ \A i \in 1 .. Len(rs) + 1 :
               (old \o new)[i] = IF i <= Len(rs) THEN old[i] ELSE new[i - Len(rs)]
      <4>1. /\ old \o new \in Seq(Fetch) /\ Len(old \o new) = Len(old) + Len(new)
            /\ \A i \in 1 .. Len(old) + Len(new) :
                 (old \o new)[i] = IF i <= Len(old) THEN old[i] ELSE new[i - Len(old)]
        <5>1. old \in Seq(Fetch) /\ new \in Seq(Fetch)  BY <1>3, <2>2
        <5> QED  BY <5>1, ConcatProperties
      <4> QED  BY <1>3, <2>2, <4>1
    <3>2. Len(rs) + 1 - Len(rs) = 1 /\ ~(Len(rs) + 1 <= Len(rs)) /\ Len(rs) + 1 \in 1 .. Len(rs) + 1
      BY <1>2
    <3>3. \A i \in 1 .. Len(rs) : i <= Len(rs) /\ i \in 1 .. Len(rs) + 1  BY <1>2
    <3>4. DOMAIN (old \o new) = 1 .. Len(rs) + 1  BY <3>1, LenProperties
    <3>5. (old \o new)[Len(rs) + 1] = r
      <4>1. (old \o new)[Len(rs) + 1] = new[Len(rs) + 1 - Len(rs)]  BY <3>1, <3>2
      <4> QED  BY <2>2, <3>2, <4>1
    <3>6. \A i \in 1 .. Len(rs) : (old \o new)[i] = old[i]  BY <3>1, <3>3
    <3> QED  BY <1>1, <3>1, <3>4, <3>5, <3>6
  <2>4. Carries(rs)  BY <1>1, <1>2, <1>3, <1>7, <2>2, <2>3 DEF Carries
  <2>5. /\ page' \in PlaylistPages!Revisions \cup {NoLists, Spinner}
        /\ p = "playlist" => page' \notin Nat
    BY <1>1, <1>2, PagesNumbers
  <2>6. Len(rs) + 1 \in DOMAIN fetches'  BY <1>2, <2>3
  <2> QED  BY <1>1, <2>2, <2>3, <2>4, <2>5, <2>6
<1> QED  BY <1>4, <1>6, <1>7

(* An invariant that a page that is drawn keeps, if what it is drawn from does. *)
LEMMA RenderedKeeps ==
  ASSUME PlaylistPages!PlaylistPagesAssumption, playlists \in PlaylistPages!Revisions,
         NEW p \in PlaylistPages!Pages,
         NEW list \in PlaylistPages!Revisions \cup {NoLists},
         NEW lib \in PlaylistPages!Revisions \cup {NoLists, None},
         NEW rs \in Seq(Fetch), PlaylistPages!Rendered(p, list, lib, rs),
         \A i \in DOMAIN rs : rs[i].asked <= playlists, playlists' = playlists,
         changes' \in Seq(OwnChange), \A i \in DOMAIN changes' : changes'[i].revision <= playlists,
         known' \in [listed : PlaylistPages!Revisions, removed : PlaylistPages!Revisions],
         known'.listed <= playlists, known'.removed <= playlists, late' \in BOOLEAN,
         RecentIn(rs, known'.listed),
         ListIn(rs) \/ list = NoLists \/ late' \/ list >= known'.listed
  PROVE  PagesInv'
<1>1. /\ at' = p /\ cache' = list /\ library' = lib /\ Carries(rs)
      /\ page' \in PlaylistPages!Revisions \cup {NoLists, Spinner}
      /\ p = "playlist" => page' \notin Nat
      /\ page' = Spinner =>
           \E i \in DOMAIN fetches' :
             fetches'[i].kind = p /\ (p = "library" \/ fetches'[i].box)
  BY RenderedView
<1>2. \A i \in DOMAIN fetches' : fetches'[i].asked <= playlists
  BY <1>1, PagesNumbers DEF Carries
<1>3. PagesTypes'  BY <1>1, <1>2 DEF PagesTypes, Carries
<1>4. RecentIn(fetches', known'.listed)
  <2> SUFFICES ASSUME NEW i \in DOMAIN fetches', LastList(fetches', i)
               PROVE  fetches'[i].overtaken \/ fetches'[i].asked >= known'.listed
    BY DEF RecentIn
  <2>1. i \in DOMAIN rs  BY <1>1 DEF Carries, LastList
  <2>2. LastList(rs, i)  BY <1>1, <2>1 DEF Carries, LastList
  <2> QED  BY <1>1, <2>1, <2>2 DEF Carries, RecentIn
<1>5. BoxIsOfPage'
  <2> SUFFICES ASSUME NEW i \in DOMAIN fetches', fetches'[i].box
               PROVE  fetches'[i].kind = at' /\ fetches'[i].asked >= known'.removed
    BY DEF BoxIsOfPage
  <2>1. i \notin DOMAIN rs  BY <1>1 DEF Carries
  <2>2. known'.removed \in Nat /\ playlists \in Nat  BY PagesNumbers
  <2> QED  BY <1>1, <2>1, <2>2 DEF Carries
<1>6. PlaylistPages!ListHasOwnChanges'
  BY <1>1 DEF PlaylistPages!ListHasOwnChanges, Carries, ListIn
<1>7. PlaylistPages!PageIsOfLastRender'  BY <1>1 DEF PlaylistPages!PageIsOfLastRender
<1> QED  BY <1>3, <1>4, <1>5, <1>6, <1>7 DEF PagesInv

(* An answer that is taken out: the order of the others stays.              *)
LEMMA TakenView ==
  ASSUME NEW S, NEW s \in Seq(S), NEW i \in DOMAIN s
  PROVE  LET t == PlaylistPages!RemoveAt(s, i) IN
         /\ \A j \in DOMAIN t : \E k \in DOMAIN s \ {i} :
              /\ t[j] = s[k] /\ (k > i \/ j < i)
              /\ \A m \in DOMAIN s \ {i} : m > k => \E n \in DOMAIN t : n > j /\ t[n] = s[m]
         /\ \A k \in DOMAIN s \ {i} : \E j \in DOMAIN t : t[j] = s[k]
<1> DEFINE t == PlaylistPages!RemoveAt(s, i)
<1>1. /\ DOMAIN t = 1 .. Len(s) - 1 /\ DOMAIN s = 1 .. Len(s) /\ Len(s) \in Nat
      /\ \A j \in DOMAIN t : t[j] = IF j < i THEN s[j] ELSE s[j + 1]
  BY RemoveAtView
<1> HIDE DEF t
<1>2. ASSUME NEW k \in DOMAIN s \ {i}
      PROVE  LET j == IF k < i THEN k ELSE k - 1 IN j \in DOMAIN t /\ t[j] = s[k]
  <2>1. CASE k < i  BY <1>1, <2>1
  <2>2. CASE ~(k < i)
    <3>1. k - 1 \in DOMAIN t /\ ~(k - 1 < i) /\ k - 1 + 1 = k  BY <1>1, <2>2
    <3> QED  BY <1>1, <2>2, <3>1
  <2> QED  BY <2>1, <2>2
<1>3. ASSUME NEW j \in DOMAIN t
      PROVE  \E k \in DOMAIN s \ {i} :
               /\ t[j] = s[k] /\ (k > i \/ j < i)
               /\ \A m \in DOMAIN s \ {i} : m > k => \E n \in DOMAIN t : n > j /\ t[n] = s[m]
  <2> DEFINE k == IF j < i THEN j ELSE j + 1
  <2>1. k \in DOMAIN s \ {i} /\ t[j] = s[k] /\ (k > i \/ j < i)  BY <1>1
  <2>2. ASSUME NEW m \in DOMAIN s \ {i}, m > k PROVE \E n \in DOMAIN t : n > j /\ t[n] = s[m]
    <3> DEFINE n == IF m < i THEN m ELSE m - 1
    <3>1. n \in DOMAIN t /\ t[n] = s[m]  BY <1>2
    <3>2. n > j  BY <1>1, <2>2
    <3> QED  BY <3>1, <3>2
  <2> HIDE DEF k
  <2> QED  BY <2>1, <2>2
<1>4. \A k \in DOMAIN s \ {i} : \E j \in DOMAIN t : t[j] = s[k]  BY <1>2
<1> QED  BY <1>3, <1>4 DEF t

LEMMA TakenKeeps ==
  ASSUME PagesTypes, NEW i \in DOMAIN fetches, NEW revision, RecentIn(fetches, revision)
  PROVE  LET rest == PlaylistPages!RemoveAt(fetches, i) IN
         /\ rest \in Seq(Fetch) /\ \A j \in DOMAIN rest : rest[j].asked <= playlists
         /\ fetches[i].kind # "list" =>
              RecentIn(rest, revision) /\ (ListIn(fetches) => ListIn(rest))
<1> DEFINE rest == PlaylistPages!RemoveAt(fetches, i)
<1>1. fetches \in Seq(Fetch) /\ \A k \in DOMAIN fetches : fetches[k].asked <= playlists
  BY DEF PagesTypes
<1>2. rest \in Seq(Fetch)  BY <1>1, RemoveAtView
<1>3. /\ \A j \in DOMAIN rest : \E k \in DOMAIN fetches \ {i} :
           /\ rest[j] = fetches[k] /\ (k > i \/ j < i)
           /\ \A m \in DOMAIN fetches \ {i} :
                m > k => \E n \in DOMAIN rest : n > j /\ rest[n] = fetches[m]
      /\ \A k \in DOMAIN fetches \ {i} : \E j \in DOMAIN rest : rest[j] = fetches[k]
  BY <1>1, TakenView
<1> HIDE DEF rest
<1>4. \A j \in DOMAIN rest : rest[j].asked <= playlists  BY <1>1, <1>3
<1>5. ASSUME fetches[i].kind # "list" PROVE RecentIn(rest, revision)
  <2> SUFFICES ASSUME NEW j \in DOMAIN rest, LastList(rest, j)
               PROVE  rest[j].overtaken \/ rest[j].asked >= revision
    BY DEF RecentIn
  <2>1. PICK k \in DOMAIN fetches \ {i} :
          /\ rest[j] = fetches[k]
          /\ \A m \in DOMAIN fetches \ {i} :
               m > k => \E n \in DOMAIN rest : n > j /\ rest[n] = fetches[m]
    BY <1>3
  <2>2. LastList(fetches, k)  BY <1>5, <2>1 DEF LastList
  <2> QED  BY <2>1, <2>2 DEF RecentIn
<1>6. ASSUME fetches[i].kind # "list", ListIn(fetches) PROVE ListIn(rest)
  BY <1>3, <1>6 DEF ListIn
<1> QED  BY <1>2, <1>4, <1>5, <1>6 DEF rest

(* loadPlaylists: the answer to the last fetch is recent, one before it overtaken. *)
LEMMA ListArrivesKeeps ==
  ASSUME PlaylistPages!PlaylistPagesAssumption, PagesInv, NEW i \in DOMAIN fetches,
         PlaylistPages!ListArrives(i)
  PROVE  PagesInv'
<1> DEFINE taken == PlaylistPages!RemoveAt(fetches, i)
           rest == [j \in DOMAIN taken |-> [taken[j] EXCEPT !.overtaken = @ \/ j < i]]
<1>0. PagesTypes  BY DEF PagesInv
<1>1. PICK list \in PlaylistPages!Lists(fetches[i]) :
        PlaylistPages!Rendered(at, list, library, rest)
  BY DEF PlaylistPages!ListArrives
<1>2. /\ fetches[i].kind = "list" /\ late' = fetches[i].overtaken
      /\ UNCHANGED <<playlists, changes, known>>
  BY DEF PlaylistPages!ListArrives
<1>3. fetches[i] \in Fetch /\ fetches \in Seq(Fetch)  BY <1>0 DEF PagesTypes
<1>4. taken \in Seq(Fetch) /\ \A j \in DOMAIN taken : taken[j].asked <= playlists
  BY <1>0, TakenKeeps DEF PagesInv
<1>5. /\ \A j \in DOMAIN taken : \E k \in DOMAIN fetches \ {i} :
           /\ taken[j] = fetches[k] /\ (k > i \/ j < i)
           /\ \A m \in DOMAIN fetches \ {i} :
                m > k => \E n \in DOMAIN taken : n > j /\ taken[n] = fetches[m]
      /\ \A k \in DOMAIN fetches \ {i} : \E j \in DOMAIN taken : taken[j] = fetches[k]
  BY <1>3, TakenView
<1> HIDE DEF taken
<1>6. /\ rest \in Seq(Fetch) /\ DOMAIN rest = DOMAIN taken
      /\ \A j \in DOMAIN taken :
           /\ rest[j].kind = taken[j].kind /\ rest[j].asked = taken[j].asked
           /\ rest[j].overtaken = (taken[j].overtaken \/ j < i)
  <2>1. DOMAIN taken = 1 .. Len(taken) /\ Len(taken) \in Nat
        /\ \A j \in DOMAIN taken : taken[j] \in Fetch
    BY <1>4
  <2>2. ASSUME NEW j \in DOMAIN taken
        PROVE  LET f == [taken[j] EXCEPT !.overtaken = @ \/ j < i] IN
               /\ f \in Fetch /\ f.kind = taken[j].kind /\ f.asked = taken[j].asked
               /\ f.overtaken = (taken[j].overtaken \/ j < i)
    <3>1. taken[j] \in Fetch  BY <2>1
    <3>2. taken[j].overtaken \in BOOLEAN  BY <3>1 DEF Fetch
    <3>3. PICK o \in BOOLEAN : o = (taken[j].overtaken \/ j < i)  BY <3>2
    <3>4. [taken[j] EXCEPT !.overtaken = o] \in Fetch  BY <3>1 DEF Fetch
    <3>5. /\ [taken[j] EXCEPT !.overtaken = o].kind = taken[j].kind
          /\ [taken[j] EXCEPT !.overtaken = o].asked = taken[j].asked
          /\ [taken[j] EXCEPT !.overtaken = o].overtaken = o
      BY <3>1 DEF Fetch
    <3>6. [taken[j] EXCEPT !.overtaken = @ \/ j < i] = [taken[j] EXCEPT !.overtaken = o]  BY <3>3
    <3> QED  BY <3>3, <3>4, <3>5, <3>6
  <2>3. DOMAIN rest = DOMAIN taken /\ \A j \in DOMAIN taken :
          rest[j] = [taken[j] EXCEPT !.overtaken = @ \/ j < i]
    OBVIOUS
  <2>4. rest = [j \in 1 .. Len(taken) |-> rest[j]]  BY <2>1
  <2> HIDE DEF rest
  <2>5. \A j \in 1 .. Len(taken) : rest[j] \in Fetch  BY <2>1, <2>2, <2>3
  <2>6. rest \in Seq(Fetch)  BY <2>1, <2>4, <2>5
  <2>7. ASSUME NEW j \in DOMAIN taken
        PROVE  /\ rest[j].kind = taken[j].kind /\ rest[j].asked = taken[j].asked
               /\ rest[j].overtaken = (taken[j].overtaken \/ j < i)
    <3> DEFINE f == [taken[j] EXCEPT !.overtaken = @ \/ j < i]
    <3>1. /\ f.kind = taken[j].kind /\ f.asked = taken[j].asked
          /\ f.overtaken = (taken[j].overtaken \/ j < i)
      BY <2>2
    <3>2. rest[j] = f  BY <2>3
    <3> HIDE DEF f
    <3> QED  BY <3>1, <3>2
  <2> QED  BY <2>3, <2>6, <2>7
<1> HIDE DEF rest
<1>7. RecentIn(rest, known.listed)
  <2> SUFFICES ASSUME NEW j \in DOMAIN taken, LastList(rest, j), ~(j < i)
               PROVE  rest[j].overtaken \/ rest[j].asked >= known.listed
    BY <1>6 DEF RecentIn
  <2>1. PICK k \in DOMAIN fetches \ {i} :
          /\ taken[j] = fetches[k] /\ k > i
          /\ \A m \in DOMAIN fetches \ {i} :
               m > k => \E n \in DOMAIN taken : n > j /\ taken[n] = fetches[m]
    BY <1>5
  <2>2. ~(i > k)  BY <1>3, <2>1
  <2>3. LastList(fetches, k)  BY <1>6, <2>1, <2>2 DEF LastList
  <2> QED  BY <1>6, <2>1, <2>3 DEF RecentIn, PagesInv
<1>8. \/ ListIn(rest) \/ list = NoLists \/ late' \/ list >= known.listed
  <2> SUFFICES ASSUME ~ListIn(rest), list # NoLists, ~late' PROVE list >= known.listed
    OBVIOUS
  <2>1. LastList(fetches, i)
    <3>1. \A k \in DOMAIN fetches \ {i} : fetches[k].kind # "list"  BY <1>5, <1>6 DEF ListIn
    <3>2. ~(i > i)  BY <1>3
    <3> QED  BY <1>2, <3>1, <3>2 DEF LastList
  <2>2. fetches[i].asked >= known.listed  BY <1>2, <2>1 DEF PagesInv, RecentIn
  <2>3. list \in fetches[i].asked .. playlists  BY DEF PlaylistPages!Lists
  <2>4. fetches[i].asked \in Nat /\ known.listed \in Nat /\ playlists \in Nat
    BY <1>0, <1>3, PagesNumbers DEF PagesTypes, Fetch
  <2> QED  BY <2>2, <2>3, <2>4
<1>9. list \in PlaylistPages!Revisions \cup {NoLists}
  <2>1. fetches[i].asked \in Nat /\ playlists \in 0 .. MaxRevision /\ MaxRevision \in Nat
    BY <1>0, <1>3, PagesNumbers DEF PagesTypes, Fetch
  <2> QED  BY <2>1, PagesNumbers DEF PlaylistPages!Lists
<1>10. \A j \in DOMAIN rest : rest[j].asked <= playlists  BY <1>4, <1>6
<1>11. /\ playlists \in PlaylistPages!Revisions /\ at \in PlaylistPages!Pages
       /\ library \in PlaylistPages!Revisions \cup {NoLists, None}
       /\ changes' \in Seq(OwnChange)
       /\ \A j \in DOMAIN changes' : changes'[j].revision <= playlists
       /\ known' \in [listed : PlaylistPages!Revisions, removed : PlaylistPages!Revisions]
       /\ known'.listed <= playlists /\ known'.removed <= playlists
       /\ late' \in BOOLEAN /\ playlists' = playlists /\ known' = known
  BY <1>0, <1>2, <1>3 DEF PagesTypes, Fetch
<1> QED  BY <1>1, <1>6, <1>7, <1>8, <1>9, <1>10, <1>11, RenderedKeeps

LEMMA OtherArrivalsKeep ==
  ASSUME PlaylistPages!PlaylistPagesAssumption, PagesInv, NEW i \in DOMAIN fetches,
         PlaylistPages!LibraryArrives(i) \/ PlaylistPages!PageArrives(i)
  PROVE  PagesInv'
<1> DEFINE rest == PlaylistPages!RemoveAt(fetches, i)
<1>0. PagesTypes  BY DEF PagesInv
<1>1. /\ fetches[i] \in Fetch /\ fetches \in Seq(Fetch) /\ fetches[i].kind # "list"
      /\ UNCHANGED <<playlists, changes, known, late>>
  BY <1>0 DEF PlaylistPages!LibraryArrives, PlaylistPages!PageArrives, PagesTypes
<1>2. /\ rest \in Seq(Fetch) /\ \A j \in DOMAIN rest : rest[j].asked <= playlists
      /\ RecentIn(rest, known.listed) /\ (ListIn(fetches) => ListIn(rest))
  BY <1>0, <1>1, TakenKeeps DEF PagesInv
<1>3. /\ \A j \in DOMAIN rest : \E k \in DOMAIN fetches \ {i} : rest[j] = fetches[k]
      /\ \A k \in DOMAIN fetches \ {i} : \E j \in DOMAIN rest : rest[j] = fetches[k]
  BY <1>1, TakenView
<1> HIDE DEF rest
<1>4. \/ ListIn(rest) \/ cache = NoLists \/ late \/ cache >= known.listed
  BY <1>2 DEF PagesInv, PlaylistPages!ListHasOwnChanges, ListIn
<1>5. ASSUME NEW list \in PlaylistPages!Lists(fetches[i])
      PROVE  /\ list \in PlaylistPages!Revisions \cup {NoLists}
             /\ list = NoLists \/ list >= fetches[i].asked
  <2>1. fetches[i].asked \in Nat /\ playlists \in 0 .. MaxRevision /\ MaxRevision \in Nat
    BY <1>0, <1>1, PagesNumbers DEF PagesTypes, Fetch
  <2> QED  BY <2>1, PagesNumbers DEF PlaylistPages!Lists
<1>6. CASE PlaylistPages!LibraryArrives(i)
  <2>1. PICK list \in PlaylistPages!Lists(fetches[i]) :
          PlaylistPages!Rendered(at, cache, list, rest)
    BY <1>6 DEF PlaylistPages!LibraryArrives, rest
  <2>2. list \in PlaylistPages!Revisions \cup {NoLists, None}  BY <1>5
  <2>3. /\ playlists \in PlaylistPages!Revisions /\ at \in PlaylistPages!Pages
        /\ cache \in PlaylistPages!Revisions \cup {NoLists}
        /\ changes' \in Seq(OwnChange)
        /\ \A j \in DOMAIN changes' : changes'[j].revision <= playlists
        /\ known' \in [listed : PlaylistPages!Revisions, removed : PlaylistPages!Revisions]
        /\ known'.listed <= playlists /\ known'.removed <= playlists
        /\ late' \in BOOLEAN /\ playlists' = playlists /\ known' = known /\ late' = late
    BY <1>0, <1>1 DEF PagesTypes
  <2> QED  BY <1>2, <1>4, <2>1, <2>2, <2>3, RenderedKeeps
<1>7. CASE PlaylistPages!PageArrives(i)
  <2>1. /\ fetches[i].kind \in {"playlist", "settings"} /\ fetches' = rest
        /\ UNCHANGED <<at, cache, library>>
    BY <1>7 DEF PlaylistPages!PageArrives, rest
  <2>2. PICK list \in IF fetches[i].kind = "playlist" THEN PlaylistPages!Lists(fetches[i])
                       ELSE {cache} :
          page' = IF fetches[i].box THEN list ELSE page
    BY <1>7 DEF PlaylistPages!PageArrives
  <2>3. list \in PlaylistPages!Revisions \cup {NoLists}
    BY <1>0, <1>5, <2>2 DEF PagesTypes
  <2>4. PagesTypes'  BY <1>0, <1>1, <1>2, <2>1, <2>2, <2>3 DEF PagesTypes
  <2>5. RecentIn(fetches, known.listed)'  BY <1>1, <1>2, <2>1
  <2>6. BoxIsOfPage'  BY <1>1, <1>3, <2>1 DEF PagesInv, BoxIsOfPage
  <2>7. PlaylistPages!ListHasOwnChanges'
    BY <1>1, <1>4, <2>1 DEF PlaylistPages!ListHasOwnChanges, ListIn
  <2>8. PlaylistPages!PageIsOfLastRender'
    <3>1. CASE fetches[i].box
      <4>1. page' = list /\ page' # Spinner  BY <2>2, <2>3, <3>1, PagesNumbers
      <4>2. ASSUME at = "playlist", list \in Nat PROVE list >= known.removed
        <5>1. fetches[i].kind = "playlist" /\ fetches[i].asked >= known.removed
          BY <2>1, <3>1, <4>2 DEF PagesInv, BoxIsOfPage
        <5>2. list >= fetches[i].asked  BY <1>5, <2>2, <4>2, <5>1, PagesNumbers
        <5>3. fetches[i].asked \in Nat /\ known.removed \in Nat
          BY <1>0, <1>1, PagesNumbers DEF PagesTypes, Fetch
        <5> QED  BY <4>2, <5>1, <5>2, <5>3
      <4> QED  BY <1>1, <2>1, <4>1, <4>2 DEF PlaylistPages!PageIsOfLastRender
    <3>2. CASE ~fetches[i].box
      <4>1. page' = page  BY <2>2, <3>2
      <4>2. ASSUME page = Spinner
            PROVE  \E j \in DOMAIN rest : rest[j].kind = at /\ (at = "library" \/ rest[j].box)
        <5>1. PICK k \in DOMAIN fetches : fetches[k].kind = at /\ (at = "library" \/ fetches[k].box)
          BY <4>2 DEF PagesInv, PlaylistPages!PageIsOfLastRender
        <5>2. k # i  BY <2>1, <3>2, <5>1
        <5> QED  BY <1>3, <5>1, <5>2
      <4> QED  BY <1>1, <2>1, <4>1, <4>2 DEF PagesInv, PlaylistPages!PageIsOfLastRender
    <3> QED  BY <3>1, <3>2
  <2> QED  BY <2>4, <2>5, <2>6, <2>7, <2>8 DEF PagesInv
<1> QED  BY <1>6, <1>7

LEMMA NavigateKeeps ==
  ASSUME PlaylistPages!PlaylistPagesAssumption, PagesInv, NEW p \in PlaylistPages!Pages,
         PlaylistPages!Navigate(p)
  PROVE  PagesInv'
<1>1. /\ PlaylistPages!Rendered(p, cache, library, fetches)
      /\ UNCHANGED <<playlists, changes, known, late>>
  BY DEF PlaylistPages!Navigate
<1>2. /\ playlists \in PlaylistPages!Revisions /\ cache \in PlaylistPages!Revisions \cup {NoLists}
      /\ library \in PlaylistPages!Revisions \cup {NoLists, None}
      /\ fetches \in Seq(Fetch) /\ \A i \in DOMAIN fetches : fetches[i].asked <= playlists
      /\ changes' \in Seq(OwnChange)
      /\ \A j \in DOMAIN changes' : changes'[j].revision <= playlists
      /\ known' \in [listed : PlaylistPages!Revisions, removed : PlaylistPages!Revisions]
      /\ known'.listed <= playlists /\ known'.removed <= playlists
      /\ late' \in BOOLEAN
  BY <1>1 DEF PagesInv, PagesTypes
<1>3. /\ RecentIn(fetches, known'.listed)
      /\ ListIn(fetches) \/ cache = NoLists \/ late' \/ cache >= known'.listed
  BY <1>1 DEF PagesInv, PlaylistPages!ListHasOwnChanges, ListIn
<1> QED  BY <1>1, <1>2, <1>3, RenderedKeeps

(* The answer to a change: what it refreshes is asked for again.            *)
LEMMA AnsweredKeeps ==
  ASSUME PlaylistPages!PlaylistPagesAssumption, PagesInv, NEW i \in DOMAIN changes,
         PlaylistPages!Answered(i)
  PROVE  PagesInv'
<1> DEFINE c == changes[i]
           new == PlaylistPages!Request("list")
           list == IF c.kind \in {"create", "pick"} THEN Append(fetches, new) ELSE fetches
<1>0. PagesTypes  BY DEF PagesInv
<1>1. /\ changes' = PlaylistPages!RemoveAt(changes, i)
      /\ known' = IF c.kind = "remove"
                  THEN [known EXCEPT !.removed = PlaylistPages!Later(@, c.revision)]
                  ELSE [known EXCEPT !.listed = PlaylistPages!Later(@, c.revision)]
      /\ IF c.kind \in {"create", "remove"}
         THEN PlaylistPages!Rendered(at, cache, library, list)
         ELSE fetches' = list /\ UNCHANGED <<at, cache, library, page>>
      /\ UNCHANGED <<playlists, late>>
  BY DEF PlaylistPages!Answered, PlaylistPages!Reloads, PlaylistPages!Redraws
<1>2. /\ changes \in Seq(OwnChange) /\ fetches \in Seq(Fetch)
      /\ playlists \in PlaylistPages!Revisions
      /\ playlists \in Nat /\ c \in OwnChange /\ c.revision <= playlists
      /\ c.revision \in PlaylistPages!Revisions
      /\ c.revision \in Nat /\ c.kind \in {"create", "pick", "remove"}
      /\ known \in [listed : PlaylistPages!Revisions, removed : PlaylistPages!Revisions]
      /\ known.listed \in Nat /\ known.removed \in Nat
      /\ known.listed <= playlists /\ known.removed <= playlists
      /\ \A j \in DOMAIN changes : changes[j].revision <= playlists
  <2>1. /\ changes \in Seq(OwnChange) /\ fetches \in Seq(Fetch)
        /\ playlists \in PlaylistPages!Revisions /\ c.revision <= playlists
        /\ known \in [listed : PlaylistPages!Revisions, removed : PlaylistPages!Revisions]
        /\ known.listed <= playlists /\ known.removed <= playlists
        /\ \A j \in DOMAIN changes : changes[j].revision <= playlists
    BY <1>0 DEF PagesTypes
  <2>2. /\ c \in OwnChange /\ c.kind \in {"create", "pick", "remove"}
        /\ c.revision \in PlaylistPages!Revisions
        /\ known.listed \in PlaylistPages!Revisions /\ known.removed \in PlaylistPages!Revisions
    BY <1>0, PagesElements
  <2> QED  BY <2>1, <2>2, PagesNumbers
<1>3. changes' \in Seq(OwnChange) /\ \A j \in DOMAIN changes' : changes'[j].revision <= playlists
  <2>1. changes' \in Seq(OwnChange)  BY <1>1, <1>2, RemoveAtView
  <2>2. \A j \in DOMAIN changes' : \E k \in DOMAIN changes : changes'[j] = changes[k]
    BY <1>1, <1>2, TakenView
  <2> QED  BY <1>2, <2>1, <2>2
<1>4. /\ known' \in [listed : PlaylistPages!Revisions, removed : PlaylistPages!Revisions]
      /\ known'.listed <= playlists /\ known'.removed <= playlists
      /\ c.kind = "remove" => known'.listed = known.listed
      /\ c.kind # "remove" => known'.removed = known.removed
  <2> HIDE DEF c
  <2>1. \A a, b \in PlaylistPages!Revisions :
          /\ PlaylistPages!Later(a, b) \in PlaylistPages!Revisions
          /\ a <= playlists /\ b <= playlists => PlaylistPages!Later(a, b) <= playlists
    BY DEF PlaylistPages!Later
  <2>2. CASE c.kind = "remove"
    <3>1. known' = [known EXCEPT !.removed = PlaylistPages!Later(known.removed, c.revision)]
      BY <1>1, <2>2 DEF c
    <3> QED  BY <1>2, <2>1, <2>2, <3>1
  <2>3. CASE c.kind # "remove"
    <3>1. known' = [known EXCEPT !.listed = PlaylistPages!Later(known.listed, c.revision)]
      BY <1>1, <2>3 DEF c
    <3> QED  BY <1>2, <2>1, <2>3, <3>1
  <2> QED  BY <2>2, <2>3
<1>5. /\ new \in Fetch /\ new.kind = "list" /\ new.asked = playlists
      /\ Append(fetches, new) \in Seq(Fetch)
      /\ DOMAIN fetches = 1 .. Len(fetches) /\ Len(fetches) \in Nat
      /\ DOMAIN Append(fetches, new) = 1 .. Len(fetches) + 1
      /\ Append(fetches, new)[Len(fetches) + 1] = new
      /\ \A j \in DOMAIN fetches : Append(fetches, new)[j] = fetches[j]
  <2>1. new \in Fetch /\ new.kind = "list" /\ new.asked = playlists
    BY <1>2 DEF PlaylistPages!Request, Fetch
  <2> HIDE DEF new
  <2> QED  BY <1>2, <2>1, AppendView
<1> HIDE DEF new
<1>6. ASSUME c.kind \in {"create", "pick"}
      PROVE  /\ list = Append(fetches, new) /\ RecentIn(list, known'.listed) /\ ListIn(list)
  <2>1. list = Append(fetches, new)  BY <1>6
  <2>2. Len(fetches) + 1 \in DOMAIN Append(fetches, new)  BY <1>5
  <2>3. \A j \in DOMAIN Append(fetches, new) :
          LastList(Append(fetches, new), j) => j = Len(fetches) + 1
    BY <1>5, <2>2 DEF LastList
  <2>4. playlists >= known'.listed  BY <1>2, <1>4, PagesNumbers
  <2> QED  BY <1>5, <2>1, <2>2, <2>3, <2>4 DEF RecentIn, ListIn
<1>7. /\ list \in Seq(Fetch) /\ \A j \in DOMAIN list : list[j].asked <= playlists
      /\ RecentIn(list, known'.listed)
      /\ ListIn(list) \/ cache = NoLists \/ late' \/ cache >= known'.listed
  <2>1. CASE c.kind \in {"create", "pick"}
    <3>1. \A j \in DOMAIN Append(fetches, new) : j \in DOMAIN fetches \/ j = Len(fetches) + 1
      BY <1>5
    <3>2. \A j \in DOMAIN list : list[j].asked <= playlists
      BY <1>0, <1>2, <1>5, <1>6, <2>1, <3>1 DEF PagesTypes
    <3> QED  BY <1>5, <1>6, <2>1, <3>2
  <2>2. CASE c.kind = "remove"
    <3>1. list = fetches /\ known'.listed = known.listed  BY <1>4, <2>2
    <3> QED
      BY <1>0, <1>1, <1>2, <3>1
      DEF PagesTypes, PagesInv, PlaylistPages!ListHasOwnChanges, ListIn
  <2> QED  BY <1>2, <2>1, <2>2
<1>8. CASE c.kind \in {"create", "remove"}
  <2>1. PlaylistPages!Rendered(at, cache, library, list)  BY <1>1, <1>8
  <2>2. /\ at \in PlaylistPages!Pages /\ cache \in PlaylistPages!Revisions \cup {NoLists}
        /\ library \in PlaylistPages!Revisions \cup {NoLists, None} /\ late' \in BOOLEAN
        /\ playlists' = playlists
    BY <1>0, <1>1 DEF PagesTypes
  <2> HIDE DEF list, c
  <2> QED  BY <1>2, <1>3, <1>4, <1>7, <2>1, <2>2, RenderedKeeps
<1>9. CASE c.kind = "pick"
  <2>1. fetches' = list /\ UNCHANGED <<at, cache, library, page, playlists, late>>
        /\ known'.removed = known.removed
    BY <1>1, <1>4, <1>9
  <2>2. list = Append(fetches, new)  BY <1>9
  <2> HIDE DEF list, c
  <2>3. PagesTypes'  BY <1>0, <1>3, <1>4, <1>7, <2>1 DEF PagesTypes
  <2>4. RecentIn(fetches, known.listed)'  BY <1>7, <2>1
  <2>5. BoxIsOfPage'
    <3>1. \A j \in DOMAIN fetches' :
            \/ j \in DOMAIN fetches /\ fetches'[j] = fetches[j]
            \/ fetches'[j].kind = "list"
      BY <1>5, <2>1, <2>2
    <3> QED  BY <2>1, <3>1 DEF PagesInv, BoxIsOfPage
  <2>6. PlaylistPages!ListHasOwnChanges'
    BY <1>7, <2>1 DEF PlaylistPages!ListHasOwnChanges, ListIn
  <2>7. PlaylistPages!PageIsOfLastRender'
    <3>1. \A j \in DOMAIN fetches : j \in DOMAIN fetches' /\ fetches'[j] = fetches[j]
      BY <1>5, <2>1, <2>2
    <3> QED  BY <2>1, <3>1 DEF PagesInv, PlaylistPages!PageIsOfLastRender
  <2> QED  BY <2>3, <2>4, <2>5, <2>6, <2>7 DEF PagesInv
<1> QED  BY <1>2, <1>8, <1>9

(* What leaves the page and its fetches alone.                              *)
LEMMA PageRests ==
  ASSUME PagesInv, UNCHANGED <<at, cache, library, page, fetches, known, late>>,
         playlists' \in PlaylistPages!Revisions, playlists' >= playlists,
         PlaylistPages!PlaylistPagesAssumption,
         changes' \in Seq(OwnChange), \A i \in DOMAIN changes' : changes'[i].revision <= playlists'
  PROVE  PagesInv'
<1>1. PagesTypes'
  <2>1. /\ playlists \in Nat /\ playlists' \in Nat /\ known.listed \in Nat /\ known.removed \in Nat
        /\ \A i \in DOMAIN fetches : fetches[i].asked \in Nat /\ fetches[i].asked <= playlists
    BY PagesNumbers, PagesElements DEF PagesInv, PagesTypes
  <2>2. known.listed <= playlists' /\ known.removed <= playlists'
        /\ \A i \in DOMAIN fetches : fetches[i].asked <= playlists'
    BY <2>1 DEF PagesInv, PagesTypes
  <2> QED  BY <2>2 DEF PagesInv, PagesTypes
<1> QED
  BY <1>1
  DEF PagesInv, RecentIn, LastList, BoxIsOfPage, PlaylistPages!ListHasOwnChanges,
      PlaylistPages!PageIsOfLastRender

LEMMA ChangesKeep ==
  ASSUME PlaylistPages!PlaylistPagesAssumption, PagesInv,
         \/ \E kind \in {"create", "pick", "remove"} : PlaylistPages!Change(kind)
         \/ \E i \in DOMAIN changes : PlaylistPages!Committed(i) \/ PlaylistPages!ChangeFails(i)
         \/ PlaylistPages!OthersChange
  PROVE  PagesInv'
<1>1. /\ changes \in Seq(OwnChange) /\ \A i \in DOMAIN changes : changes[i].revision <= playlists
      /\ playlists \in 0 .. MaxRevision /\ MaxRevision \in Nat
      /\ playlists \in PlaylistPages!Revisions
      /\ PlaylistPages!Revisions = 0 .. MaxRevision
      /\ \A i \in DOMAIN changes : changes[i] \in OwnChange /\ changes[i].revision \in Nat
  BY PagesNumbers, PagesElements DEF PagesInv, PagesTypes
<1>2. ASSUME NEW kind \in {"create", "pick", "remove"}, PlaylistPages!Change(kind) PROVE PagesInv'
  <2> DEFINE c == [kind |-> kind, revision |-> 0]
  <2>1. /\ changes' = Append(changes, c)
        /\ UNCHANGED <<playlists, at, cache, library, page, fetches, known, late>>
    BY <1>2 DEF PlaylistPages!Change
  <2>2. c \in OwnChange /\ c.revision = 0  BY <1>1 DEF OwnChange
  <2> HIDE DEF c
  <2>3. changes' \in Seq(OwnChange) /\ \A i \in DOMAIN changes' : changes'[i].revision <= playlists
    BY <1>1, <2>1, <2>2, AppendView
  <2>4. playlists' >= playlists  BY <1>1, <2>1
  <2> QED  BY <1>1, <2>1, <2>3, <2>4, PageRests
<1>3. ASSUME NEW i \in DOMAIN changes, PlaylistPages!Committed(i) PROVE PagesInv'
  <2>1. /\ playlists < MaxRevision /\ playlists' = playlists + 1
        /\ changes' = [changes EXCEPT ![i].revision = playlists + 1]
        /\ UNCHANGED <<at, cache, library, page, fetches, known, late>>
    BY <1>3 DEF PlaylistPages!Committed
  <2>2. playlists' \in PlaylistPages!Revisions /\ playlists' >= playlists  BY <1>1, <2>1
  <2> DEFINE c == [changes[i] EXCEPT !.revision = playlists + 1]
  <2>3. c \in OwnChange /\ c.revision = playlists + 1  BY <1>1, <2>1, <2>2 DEF OwnChange
  <2>4. changes' = [changes EXCEPT ![i] = c]  BY <2>1
  <2> HIDE DEF c
  <2>5. changes' \in Seq(OwnChange) /\ DOMAIN changes' = DOMAIN changes
    BY <1>1, <2>3, <2>4
  <2>6. \A j \in DOMAIN changes' : changes'[j].revision <= playlists'
    BY <1>1, <2>1, <2>3, <2>4, <2>5
  <2> QED  BY <2>1, <2>2, <2>5, <2>6, PageRests
<1>4. ASSUME NEW i \in DOMAIN changes, PlaylistPages!ChangeFails(i) PROVE PagesInv'
  <2>1. /\ changes' = PlaylistPages!RemoveAt(changes, i)
        /\ UNCHANGED <<playlists, at, cache, library, page, fetches, known, late>>
    BY <1>4 DEF PlaylistPages!ChangeFails
  <2>2. changes' \in Seq(OwnChange)  BY <1>1, <2>1, RemoveAtView
  <2>3. \A j \in DOMAIN changes' : \E k \in DOMAIN changes : changes'[j] = changes[k]
    BY <1>1, <2>1, TakenView
  <2>4. playlists' >= playlists  BY <1>1, <2>1
  <2> QED  BY <1>1, <2>1, <2>2, <2>3, <2>4, PageRests
<1>5. CASE PlaylistPages!OthersChange
  <2>1. /\ playlists < MaxRevision /\ playlists' = playlists + 1
        /\ UNCHANGED <<changes, at, cache, library, page, fetches, known, late>>
    BY <1>5 DEF PlaylistPages!OthersChange
  <2>2. playlists' \in PlaylistPages!Revisions /\ playlists' >= playlists  BY <1>1, <2>1
  <2>3. \A i \in DOMAIN changes' : changes'[i].revision <= playlists'  BY <1>1, <2>1
  <2> QED  BY <1>1, <2>1, <2>2, <2>3, PageRests
<1> QED  BY <1>2, <1>3, <1>4, <1>5

LEMMA PagesBegin ==
  ASSUME PlaylistPages!PlaylistPagesAssumption, PlaylistPages!Init
  PROVE  PagesInv
<1> DEFINE new == PlaylistPages!Request("list")
<1>1. /\ playlists = 0 /\ at = "other" /\ cache = NoLists /\ library = None /\ page = NoLists
      /\ fetches = <<new>> /\ changes = <<>> /\ known = [listed |-> 0, removed |-> 0]
      /\ late = FALSE /\ 0 \in PlaylistPages!Revisions
  BY PagesNumbers DEF PlaylistPages!Init
<1>2. new \in Fetch /\ new.kind = "list" /\ new.asked = 0
  BY <1>1 DEF PlaylistPages!Request, Fetch
<1> HIDE DEF new
<1>3. fetches \in Seq(Fetch) /\ DOMAIN fetches = {1} /\ fetches[1] = new  BY <1>1, <1>2
<1>4. changes \in Seq(OwnChange) /\ DOMAIN changes = {}  BY <1>1
<1>5. PagesTypes
  <2>1. known \in [listed : PlaylistPages!Revisions, removed : PlaylistPages!Revisions]
        /\ known.listed = 0 /\ known.removed = 0
    BY <1>1
  <2>2. \A i \in DOMAIN fetches : fetches[i].asked <= playlists  BY <1>1, <1>2, <1>3
  <2>3. at \in PlaylistPages!Pages  BY <1>1 DEF PlaylistPages!Pages
  <2>4. known.listed <= playlists /\ known.removed <= playlists  BY <1>1, <2>1
  <2>5. \A i \in DOMAIN changes : changes[i].revision <= playlists  BY <1>4
  <2>6. /\ playlists \in PlaylistPages!Revisions
        /\ cache \in PlaylistPages!Revisions \cup {NoLists}
        /\ library \in PlaylistPages!Revisions \cup {NoLists, None}
        /\ page \in PlaylistPages!Revisions \cup {NoLists, Spinner}
        /\ late \in BOOLEAN
    BY <1>1
  <2> QED  BY <1>3, <1>4, <2>1, <2>2, <2>3, <2>4, <2>5, <2>6 DEF PagesTypes
<1>6. RecentIn(fetches, known.listed)  BY <1>1, <1>2, <1>3 DEF RecentIn
<1>7. BoxIsOfPage  BY <1>2, <1>3 DEF BoxIsOfPage
<1>8. PlaylistPages!ListHasOwnChanges /\ PlaylistPages!PageIsOfLastRender
  BY <1>1, PagesNumbers DEF PlaylistPages!ListHasOwnChanges, PlaylistPages!PageIsOfLastRender
<1> QED  BY <1>5, <1>6, <1>7, <1>8 DEF PagesInv

LEMMA PagesKeep ==
  ASSUME PlaylistPages!PlaylistPagesAssumption, PagesInv, PlaylistPages!Next \/ UNCHANGED pagesVars
  PROVE  PagesInv'
<1>1. CASE UNCHANGED pagesVars
  BY <1>1
  DEF pagesVars, PagesInv, PagesTypes, RecentIn, LastList, BoxIsOfPage,
      PlaylistPages!ListHasOwnChanges, PlaylistPages!PageIsOfLastRender
<1> QED
  BY <1>1, ListArrivesKeeps, OtherArrivalsKeep, NavigateKeeps, AnsweredKeeps, ChangesKeep
  DEF PlaylistPages!Next

LEMMA PagesAreSound == PagesInv => PlaylistPages!Sound
<1> SUFFICES ASSUME PagesInv PROVE PlaylistPages!Sound
  OBVIOUS
<1>1. PlaylistPages!TypeOK
  <2>1. PagesTypes  BY DEF PagesInv
  <2> QED  BY <2>1, PagesElements DEF PagesTypes, PlaylistPages!TypeOK
<1> QED  BY <1>1 DEF PagesInv, PlaylistPages!Sound

-----------------------------------------------------------------------------
(* The parts together: each steps, or rests.                                *)

IInv == SessionInv /\ PlayerInv /\ ListeningInv /\ Likes!TypeOK /\ PagesInv

LEMMA Rests ==
  ASSUME [Next]_vars
  PROVE  /\ Player!Step \/ UNCHANGED playerVars
         /\ [Session!Next]_(Session!vars)
         /\ Listening!Next \/ UNCHANGED listeningVars
         /\ Likes!Next \/ UNCHANGED likesVars
         /\ PlaylistPages!Next \/ UNCHANGED pagesVars
<1>1. UNCHANGED sessionVars => UNCHANGED Session!vars  BY DEF sessionVars, Session!vars
<1>2. CASE UNCHANGED vars  BY <1>1, <1>2 DEF vars
<1>3. CASE Next  BY <1>1, <1>3 DEF Next
<1> QED  BY <1>2, <1>3

LEMMA IInvAlways == Spec => []IInv
<1>1. Init => IInv
  <2> SUFFICES ASSUME Init PROVE IInv
    OBVIOUS
  <2>1. SessionInv  BY TypeInit, SettledInit DEF Init, SessionInv
  <2>2. PlayerInv  BY PlayerBegins DEF Init
  <2>3. ListeningInv  BY BrowserAssumption, ListeningBegins DEF Init
  <2>4. Likes!TypeOK  BY BrowserAssumption, LikesBegins DEF Init
  <2>5. PagesInv  BY BrowserAssumption, PagesBegin DEF Init
  <2> QED  BY <2>1, <2>2, <2>3, <2>4, <2>5 DEF IInv
<1>2. IInv /\ [Next]_vars => IInv'
  <2> SUFFICES ASSUME IInv, [Next]_vars PROVE IInv'
    OBVIOUS
  <2>1. SessionInv'  BY BrowserAssumption, Rests, SettledStep DEF IInv
  <2>2. PlayerInv'  BY BrowserAssumption, Rests, PlayerKeeps DEF IInv
  <2>3. ListeningInv'  BY BrowserAssumption, Rests, ListeningKeeps DEF IInv
  <2>4. Likes!TypeOK'  BY BrowserAssumption, Rests, LikesKeeps DEF IInv
  <2>5. PagesInv'  BY BrowserAssumption, Rests, PagesKeep DEF IInv
  <2> QED  BY <2>1, <2>2, <2>3, <2>4, <2>5 DEF IInv
<1> QED  BY <1>1, <1>2, PTL DEF Spec

(* player.js, app.js and listening.js, whatever is clicked and in whatever order the *)
(* element's events and the answers come: the song shown is the entry of the queue   *)
(* at its index, the one that is loaded and the one that is credited; results are    *)
(* those of the last search, and what is waited for has been asked for; no more is   *)
(* credited than was heard, and a play is reported once, for whoever began it; the   *)
(* lists of playlists have the user's own changes.                                   *)
THEOREM BrowserSound == Spec => []Sound
<1>1. IInv => Sound
  <2> SUFFICES ASSUME IInv PROVE Sound
    OBVIOUS
  <2>1. Player!Sound  BY DEF IInv, PlayerInv
  <2>2. Session!Sound  BY SessionIsSound DEF IInv
  <2>3. Likes!TypeOK /\ Listening!Sound  BY DEF IInv, ListeningInv
  <2>4. PlaylistPages!Sound  BY PagesAreSound DEF IInv
  <2> QED  BY <2>1, <2>2, <2>3, <2>4 DEF Sound
<1> QED  BY <1>1, IInvAlways, PTL

(* playAudio, togglePlay and the listeners of player.js: once the events are          *)
(* dispatched the page shows the element as playing exactly if it is, whatever was    *)
(* clicked, swapped, stopped or refused meanwhile.  The one exception is the play()   *)
(* of a source swap that is refused: playAudio ignores it, and until one is accepted  *)
(* the page may show an element that is paused as playing.                            *)
THEOREM PlayerIsHonest == Spec => []HonestWhenSettled
<1>1. Init => Told  BY ToldBegins DEF Init
<1>2. IInv /\ Told /\ [Next]_vars => Told'  BY Rests, ToldKeeps DEF IInv
<1>3. IInv /\ Told => HonestWhenSettled  BY ToldIsHonest DEF IInv, HonestWhenSettled
<1> QED  BY <1>1, <1>2, <1>3, IInvAlways, PTL DEF Spec

(* api.js, in every number of tabs: a token the server accepts is removed only by a *)
(* logout or a refused login, and one comes to be stored for another user only by a *)
(* login.                                                                           *)
THEOREM TokenChangesHold == Spec => TokenChanges
<1>1. IInv /\ [Next]_vars => [TokenStep]_(Session!vars)
  BY BrowserAssumption, Rests, TokenStepHolds DEF IInv, SessionInv
<1>2. Spec => [][TokenStep]_(Session!vars)  BY <1>1, IInvAlways, PTL DEF Spec
<1> QED  BY <1>2 DEF TokenChanges, Session!TokenChanges, TokenStep

(* setAuth, in one tab: whoever is signed in starts without the data of the one before *)
(* him, and only his own comes in, in whatever order the answers of sessions that are  *)
(* over do.  (A second tab, whose requests carry the token the first one stored,       *)
(* breaks this.)                                                                       *)
THEOREM OneTabOwnsItsCaches ==
  ASSUME NEW only, Tabs = {only}
  PROVE  Spec => CachesOwned
<1> DEFINE user == [t \in Tabs |-> tab[t].user]
           kept == [t \in Tabs |-> Session!Kept(tab[t]) \ {None, Nobody}]
           Owns == Own(tab[only], token, requests)
<1>1. Init => Owns /\ Session!Owned!Init
  <2> SUFFICES ASSUME Init PROVE Owns /\ Session!Owned!Init
    OBVIOUS
  <2>1. Session!Init  BY DEF Init
  <2>2. Owns /\ Session!Kept(tab[only]) \subseteq {None, Nobody} /\ tab[only].user = None
    BY <2>1, OwnInit DEF Session!Init, Session!Loaded
  <2> QED  BY <2>2 DEF Session!Owned!Init
<1>2. IInv /\ Owns /\ IInv' /\ [Next]_vars => Owns' /\ [Session!Owned!Next]_<<user, kept>>
  <2> SUFFICES ASSUME IInv, Owns, IInv', [Next]_vars
               PROVE  Owns' /\ [Session!Owned!Next]_<<user, kept>>
    OBVIOUS
  <2>1. OwnStep(only)  BY BrowserAssumption, Rests, OwnStepHolds DEF IInv, SessionInv
  <2>2. Owns'  BY <2>1 DEF OwnStep
  <2>3. [Session!Owned!Next]_<<user, kept>>  BY <2>1, OwnedStep DEF IInv, SessionInv
  <2> QED  BY <2>2, <2>3
<1> HIDE DEF Owns
<1> QED
  BY <1>1, <1>2, IInvAlways, PTL DEF Spec, CachesOwned, Session!CachesOwned, Session!Owned!Spec

(* toggleLike, with any number of clicks under way: the answer to one on a row changes *)
(* no other song's flag, whatever plays by then.                                       *)
THEOREM RowAnswersKeepToTheirSong == Spec => RowAnswersOwnSong
<1>1. IInv /\ [Next]_vars =>
        [\A r \in clicks : Likes!RowAnswered(r) => Likes!OnlyOf(r)]_(Likes!vars)
  BY BrowserAssumption, RowAnsweredView DEF IInv
<1> QED  BY <1>1, IInvAlways, PTL DEF Spec, RowAnswersOwnSong, Likes!RowAnswersOwnSong

=============================================================================
