----------------------------- MODULE MCPlaylists -----------------------------
(* Small instances of Playlists for TLC.                                    *)
EXTENDS Playlists, TLC

CONSTANTS s1, s2

(* A file of one song.                                                      *)
OneSong == <<s1>>

(* Ids are drawn, and requests come, in any order.                          *)
Interchangeable == Permutations(Lists) \cup Permutations(Entries) \cup Permutations(Requests)

=============================================================================
