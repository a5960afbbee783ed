------------------------------- MODULE MCSongLists -------------------------------
(*******************************************************************************)
(* Categories, Recommendations, Library, AdminPage and FolderUpload in one     *)
(* specification for TLC and TLAPS.  They share no variable: every behaviour   *)
(* is one of one of them, which part says, and the others rest.                *)
(*******************************************************************************)
EXTENDS Naturals, Sequences, TLC

CONSTANTS
  CategorySongs, Forms, Upload,                                         \* of Categories
  Songs, Catalogues, PlayWeight, LikeWeight, Cap, Limit, MaxPlays, MaxSignals,
                                                                        \* of Recommendations
  Paths, Names, Titles, Tags, Ids, Begun, Workers, Ghost,
  MaxFiles, MaxRenames, MaxPrunes, MaxFaults,                           \* of Library
  Tabs, UsersTab, Rows, Empty, MaxRevision, MaxFlying,                  \* of AdminPage
  Folders, Offered, MaxLoops, MaxChoices,                               \* of FolderUpload
  None

VARIABLES part
VARIABLES live, songs, rows, by, form
VARIABLES catalogue, plays, likes
VARIABLES artists, albums, librarySongs, ix, meta, prune, written, left
VARIABLES tab, shown, categories, flying, saving, revision, answered
VARIABLES selected, category, enabled, label, open, loops, uploads, asked, touched, choices

categoriesVars == <<live, songs, rows, by, form>>
recommendationsVars == <<catalogue, plays, likes>>
libraryVars == <<artists, albums, librarySongs, ix, meta, prune, written, left>>
adminVars == <<tab, shown, categories, flying, saving, revision, answered>>
folderVars ==
  <<selected, category, enabled, label, open, loops, uploads, asked, touched, choices>>
vars == <<part, categoriesVars, recommendationsVars, libraryVars, adminVars, folderVars>>

Categories == INSTANCE Categories WITH Songs <- CategorySongs

Recommendations == INSTANCE Recommendations
Library == INSTANCE Library WITH songs <- librarySongs
AdminPage == INSTANCE AdminPage
FolderUpload == INSTANCE FolderUpload

ASSUME SongListsAssumption ==
  /\ Categories!CategoriesAssumption /\ Recommendations!RecommendationsAssumption
  /\ Library!LibraryAssumption
  /\ AdminPage!AdminPageAssumption /\ FolderUpload!FolderUploadAssumption

-----------------------------------------------------------------------------
(* The instance for TLC.                                                    *)

(* Four songs.  Twins by one artist beside two others; one artist for all but one *)
(* song that shares a genre with none; songs of nobody known in categories.       *)
MCSongs == {"s1", "s2", "s3", "s4"}
Created == "s1" :> 1 @@ "s2" :> 2 @@ "s3" :> 3 @@ "s4" :> 4
MCCatalogues ==
  {[artist |-> "s1" :> "a" @@ "s2" :> "a" @@ "s3" :> "b" @@ "s4" :> None,
    genre |-> "s1" :> "g" @@ "s2" :> "g" @@ "s3" :> None @@ "s4" :> "h",
    categories |-> "s1" :> {"x"} @@ "s2" :> {"x"} @@ "s3" :> {"y"} @@ "s4" :> {},
    popular |-> "s1" :> 0 @@ "s2" :> 0 @@ "s3" :> 1 @@ "s4" :> 0, created |-> Created],
   [artist |-> "s1" :> "a" @@ "s2" :> "a" @@ "s3" :> "a" @@ "s4" :> "b",
    genre |-> "s1" :> "g" @@ "s2" :> "h" @@ "s3" :> None @@ "s4" :> "k",
    categories |-> "s1" :> {} @@ "s2" :> {"x", "y"} @@ "s3" :> {"x"} @@ "s4" :> {},
    popular |-> "s1" :> 0 @@ "s2" :> 0 @@ "s3" :> 0 @@ "s4" :> 90, created |-> Created]}

(* Weights in quarters: 1/(1+days/30) and 3/(1+days/90) at two ages.        *)
MCPlayWeight == [new |-> 4, old |-> 2]
MCLikeWeight == [new |-> 12, old |-> 6]

(* A file with another artist than its album's, and one that says nothing.  *)
MCTags == {[title |-> "t", artist |-> "b", albumArtist |-> "a"],
           [title |-> "t", artist |-> None, albumArtist |-> None]}

(* Every song in one album.                                                 *)
MCIds == {"i1", "i2", "i3"}
Row == [title |-> "t", by |-> "a", artist |-> "i1"]
NoRow == [title |-> None, by |-> None, artist |-> None, album |-> None]
MCBegun ==
  {[artists |-> [i \in Ids |-> IF i = "i1" THEN "a" ELSE None],
    albums |-> [i \in Ids |-> IF i = "i1" THEN Row @@ [album |-> None] ELSE NoRow],
    songs |-> [p \in Paths |-> Row @@ [album |-> "i1"]]]}

(* A folder of two files, and one of them alone.                            *)
MCFolders == {<<"f1", "f2">>, <<"f2">>}

(* Any two may be exchanged: nothing else names one of them.                *)
Interchangeable == Permutations(CategorySongs) \cup Permutations(Forms)
                     \cup Permutations(Paths) \cup Permutations(Workers)

-----------------------------------------------------------------------------
Init ==
  /\ part \in {"categories", "recommendations", "library", "admin", "folder"}
  /\ Categories!Init /\ Recommendations!Init /\ Library!Init
  /\ AdminPage!Init /\ FolderUpload!Init
  /\ part # "categories" => rows = {}
  /\ part # "recommendations" => catalogue = CHOOSE c \in Catalogues : TRUE

Next ==
  /\ UNCHANGED part
  /\ \/ /\ part = "categories" /\ Categories!Next
        /\ UNCHANGED <<recommendationsVars, libraryVars, adminVars, folderVars>>
     \/ /\ part = "recommendations" /\ Recommendations!Next
        /\ UNCHANGED <<categoriesVars, libraryVars, adminVars, folderVars>>
     \/ /\ part = "library" /\ Library!Next
        /\ UNCHANGED <<categoriesVars, recommendationsVars, adminVars, folderVars>>
     \/ /\ part = "admin" /\ AdminPage!Next
        /\ UNCHANGED <<categoriesVars, recommendationsVars, libraryVars, folderVars>>
     \/ /\ part = "folder" /\ FolderUpload!Next
        /\ UNCHANGED <<categoriesVars, recommendationsVars, libraryVars, adminVars>>

Spec == Init /\ [][Next]_vars

-----------------------------------------------------------------------------
(* DeleteMissing: the album or the artist goes only from songs written meanwhile. *)
KeepsAlbums == Library!KeepsAlbums

(* DeleteMissing: what no song refers to goes, if nothing else was written. *)
PrunesOrphans == Library!PrunesOrphans

(* UpdateCategory: a category's songs exist, and are those of one save with what    *)
(* was assigned since.  Albums, artists and songs (scanner.go, songs.go): unique    *)
(* rows, whose names and ids agree.  admin.js: the page has one list at most, that  *)
(* of the active tab, not older than the last save it knows of; a folder whose form *)
(* is left alone is sent file by file, once and into its category, also after some  *)
(* failed.                                                                          *)
Sound ==
  /\ part = "categories" => Categories!Sound
  /\ part = "library" => Library!Sound
  /\ part = "admin" => AdminPage!Sound
  /\ part = "folder" => FolderUpload!Sound

(* RecommendSongs: the two rounds select what they stand for, and a song heard this *)
(* week comes after a twin that was not.                                            *)
RankingSound == part = "recommendations" => Recommendations!Sound

(* RecommendSongs: a signal moves only songs with something in common.      *)
OthersKeepOrder == Recommendations!OthersKeepOrder

=============================================================================
