--------------------------------- MODULE Shell ---------------------------------
(*******************************************************************************)
(* How a browser gets the application: index.html and its scripts as           *)
(* internal/server/static.go serves them, through the cache of the service     *)
(* worker (web/assets/sw.js).  app.js is asked for with the version of the     *)
(* page (?v=), the modules it imports without.  A file is known by the build   *)
(* it is of.                                                                   *)
(*******************************************************************************)
EXTENDS Naturals, Sequences, FiniteSets

CONSTANTS
  Builds,       \* as many are deployed, with a version each
  Order,        \* the scripts of a page, in the order they are asked for
  Versioned,    \* those with ?v=
  MaxFaults, MaxPuts   \* bounds: outages and files never put, files put late at a time

ShellAssumption ==
  /\ Builds \in Nat \ {0} /\ Order \in Seq(STRING) /\ Order # <<>> /\ Versioned \subseteq STRING
  /\ {MaxFaults, MaxPuts} \subseteq Nat

VARIABLES
  deployed,   \* the build that is served
  online,
  worker,     \* the version of sw.js that controls the pages, 0 without one
  cache,      \* cache[k]: the build of the file cached under k, or 0
  page,       \* the page and the scripts it has
  asked,      \* keys whose revalidation is on its way
  puts,       \* answers still to be put: [key, build]
  left        \* what remains of MaxFaults

vars == <<deployed, online, worker, cache, page, asked, puts, left>>

Index == "index.html"

(* Mistake: the cache ignores the query of a URL.                           *)
KeyUnversioned(f, v) == <<f, 0>>

(* The URL a page of build v asks for.                                      *)
Key(f, v) == <<f, IF f \in Versioned THEN v ELSE 0>>

Keys == {<<Index, 0>>} \cup {Key(Order[i], v) : i \in DOMAIN Order, v \in 1..Builds}

(* No page, or one on which a script failed, asks for nothing more.         *)
NoPage == [at |-> "none", index |-> 0, got |-> <<>>]

(* What the worker does with an answer; without one there is no cache.      *)
Kept(k) == IF worker = 0 THEN puts ELSE puts \cup {[key |-> k, build |-> deployed]}

Room == Cardinality(puts) < MaxPuts

-----------------------------------------------------------------------------
(* The server and the network.                                              *)

Deploy ==
  /\ deployed < Builds
  /\ deployed' = deployed + 1
  /\ UNCHANGED <<online, worker, cache, page, asked, puts, left>>

GoOffline ==
  /\ online /\ left > 0
  /\ online' = FALSE /\ left' = left - 1
  /\ UNCHANGED <<deployed, worker, cache, page, asked, puts>>

GoOnline ==
  /\ ~online
  /\ online' = TRUE
  /\ UNCHANGED <<deployed, worker, cache, page, asked, puts, left>>

-----------------------------------------------------------------------------
(* The page.                                                                *)

(* A visit, or a reload of what has loaded: from the network, or the cache if that *)
(* fails.                                                                          *)
Navigate ==
  LET build == IF online THEN deployed ELSE cache[<<Index, 0>>]
  IN /\ Room /\ page.at # "loading"
     /\ page' = IF build = 0 THEN NoPage ELSE [at |-> "loading", index |-> build, got |-> <<>>]
     /\ puts' = IF online THEN Kept(<<Index, 0>>) ELSE puts
     /\ UNCHANGED <<deployed, online, worker, cache, asked, left>>

Got(build) ==
  LET got == Append(page.got, build)
  IN [page EXCEPT !.got = got, !.at = IF Len(got) = Len(Order) THEN "loaded" ELSE @]

NextKey == Key(Order[Len(page.got) + 1], page.index)

(* Mistake: what is cached is not asked for again.                          *)
RevalidateNever(k) == asked

(* fetch(req), beside the cached answer.                                    *)
Revalidated(k) == asked \cup {k}

(* The next script: the cached one, and the network's for the next time.    *)
FromCache ==
  /\ page.at = "loading" /\ worker # 0 /\ cache[NextKey] # 0
  /\ page' = Got(cache[NextKey]) /\ asked' = Revalidated(NextKey)
  /\ UNCHANGED <<deployed, online, worker, cache, puts, left>>

FromNetwork ==
  /\ page.at = "loading" /\ (worker = 0 \/ cache[NextKey] = 0) /\ Room
  /\ IF online THEN page' = Got(deployed) /\ puts' = Kept(NextKey)
               ELSE page' = NoPage /\ UNCHANGED puts
  /\ UNCHANGED <<deployed, online, worker, cache, asked, left>>

-----------------------------------------------------------------------------
(* The worker.                                                              *)

(* register of a version: install caches the shell if it can, activate claims *)
(* the pages.                                                                 *)
Install ==
  /\ page.at = "loaded" /\ page.index # worker /\ online
  /\ worker' = page.index
  /\ cache' \in {cache, [cache EXCEPT ![<<Index, 0>>] = deployed]}
  /\ UNCHANGED <<deployed, online, page, asked, puts, left>>

Answer(k) ==
  /\ k \in asked
  /\ asked' = asked \ {k}
  /\ puts' = IF online THEN Kept(k) ELSE puts
  /\ UNCHANGED <<deployed, online, worker, cache, page, left>>

(* cache.put, in whatever order.                                            *)
Put(p) ==
  /\ p \in puts
  /\ cache' = [cache EXCEPT ![p.key] = p.build] /\ puts' = puts \ {p}
  /\ UNCHANGED <<deployed, online, worker, page, asked, left>>

(* Nothing waits for the put; the browser may stop the worker before it.    *)
PutLost(p) ==
  /\ p \in puts /\ left > 0
  /\ puts' = puts \ {p} /\ left' = left - 1
  /\ UNCHANGED <<deployed, online, worker, cache, page, asked>>

-----------------------------------------------------------------------------
Init ==
  /\ deployed = 1 /\ online = TRUE /\ worker = 0
  /\ cache = [k \in Keys |-> 0]
  /\ page = NoPage /\ asked = {} /\ puts = {}
  /\ left = MaxFaults

PutOf(k) == \E p \in puts : p.key = k /\ Put(p)
AllPuts == [key : Keys, build : 1..Builds]

Next ==
  \/ Deploy \/ GoOffline \/ GoOnline
  \/ Navigate \/ FromCache \/ FromNetwork \/ Install
  \/ \E k \in asked : Answer(k)
  \/ \E p \in puts : Put(p) \/ PutLost(p)

(* The network comes back, scripts and revalidations are answered and put.  *)
Fairness ==
  /\ WF_vars(GoOnline) /\ WF_vars(FromCache \/ FromNetwork)
  /\ \A k \in Keys : WF_vars(Answer(k)) /\ WF_vars(PutOf(k))

Spec == Init /\ [][Next]_vars /\ Fairness

-----------------------------------------------------------------------------
(* Properties.                                                              *)

TypeOK ==
  /\ deployed \in 1..Builds /\ online \in BOOLEAN /\ worker \in 0..Builds
  /\ cache \in [Keys -> 0..Builds] /\ asked \subseteq Keys /\ puts \subseteq AllPuts
  /\ page.at \in {"none", "loading", "loaded"} /\ page.index \in 0..Builds
  /\ page.got \in Seq(1..Builds) /\ Len(page.got) <= Len(Order)

(* A script with ?v= is never of a build before the page's, nor is what the cache    *)
(* has under a version before it (static.go:17, "asset URLs carry a version query"). *)
NeverBeforePage ==
  /\ \A i \in DOMAIN page.got : Order[i] \in Versioned => page.got[i] >= page.index
  /\ \A k \in Keys : cache[k] # 0 => cache[k] >= k[2]

Sound == TypeOK /\ NeverBeforePage

Current == page.index = deployed /\ \A i \in DOMAIN page.got : page.got[i] = deployed

(* Whoever goes on visiting comes to have every script of the build deployed last. *)
CatchesUp == []<><<Navigate>>_vars => <>[](page.at = "loaded" => Current)

(* A page of the current build has the scripts of it (sw.js:7, "so a redeploy (new *)
(* ?v= URLs) always fetches the current build").                                   *)
FetchesCurrentBuild ==
  page.at = "loaded" /\ page.index = deployed => Current

=============================================================================
