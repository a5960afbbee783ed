------------------------------ MODULE MCArtwork ------------------------------
(*******************************************************************************)
(* A small instance of Artwork for TLC: an album with a song; two albums one   *)
(* of which a song or a playlist falls back to, all with a directory as cache; *)
(* and a category, whose cache may be Redis.  A behaviour is about one of the  *)
(* four, which part says.                                                      *)
(*******************************************************************************)
EXTENDS Artwork, TLC

CONSTANTS a1, a2, s1, l1, c1, r1, r2, u1, u2, z1, z2

VARIABLE part

MCAlbums == {a1, a2}
MCSongs == {s1}
MCCategories == {c1}
MCLists == {l1}
MCFolders == {a1}
MCServes == {r1, r2}
MCAdmins == {u1, u2}
MCSizes == {z1, z2}

Interchangeable == Permutations(MCServes) \cup Permutations(MCAdmins)

(* What a behaviour is about, which copies are asked for, how many requests there *)
(* are at a time, and how many uploads and deletions.                             *)
About(entities, copies, requests, changes) ==
  /\ \A u \in Admins : admin[u].entity \in entities \cup {None}
  /\ Cardinality({u \in Admins : admin[u].pc # "idle"}) <= changes
  /\ \A r \in Serves :
       /\ serve[r].pc # "idle" => <<serve[r].entity, serve[r].size>> \in copies
       /\ serve[r].album \in entities \cup {None}
  /\ Cardinality({r \in Serves : serve[r].pc # "idle"}) <= requests
  /\ \A e \in Entities \ entities : art[e] = None
  /\ \A f \in Followers :
       albumOf[f] \in (IF f \in entities THEN entities ELSE {}) \cup {None}

OfPart ==
  \/ /\ part = "album" /\ mode = "disk" /\ uploads <= 1
     /\ About({a1, s1}, {<<a1, z1>>, <<a1, z2>>, <<s1, z1>>}, 1, 1)
  \/ /\ part = "song" /\ mode = "disk" /\ uploads <= 1
     /\ About({a1, a2, s1}, {<<s1, z1>>}, 1, 2)
  \/ /\ part = "playlist" /\ mode = "disk" /\ uploads <= 1
     /\ About({a1, a2, l1}, {<<l1, z1>>}, 1, 1)
  \/ /\ part = "category"
     /\ About({c1}, {<<c1, z1>>}, 2, 2)

MCInit == Init /\ part \in {"album", "song", "playlist", "category"} /\ OfPart

MCNext == Next /\ UNCHANGED part /\ OfPart'

MCSpec == MCInit /\ [][MCNext]_<<vars, part>>

=============================================================================
