---------------------------- MODULE Recommendations ----------------------------
(*******************************************************************************)
(* What is recommended to one user (store/recommendations.go): his listenings  *)
(* and likes give weights to artists, genres and categories, these give scores *)
(* to songs, and the best songs are taken, a few of every artist first.        *)
(*                                                                             *)
(* Weights and ages are coarse: a signal is of this week or older, and scores  *)
(* are integers, in hundredths of the weights' unit.                           *)
(*******************************************************************************)
EXTENDS Naturals, Sequences, FiniteSets, FiniteSetsExt, SequencesExt

CONSTANTS
  Songs,
  Catalogues,    \* records of what is known of the songs
  PlayWeight,    \* weights by age, "new" or "old"
  LikeWeight,
  Cap,           \* songs of one artist that are taken first (3 in the code)
  Limit,         \* songs that are taken (30 in the code)
  MaxPlays,      \* bound: listenings of one song and age
  MaxSignals,    \* bound: listenings and likes at a time
  None           \* no artist, no genre

RecommendationsAssumption ==
  /\ IsFiniteSet(Songs)
  /\ \A c \in Catalogues :
       /\ \A s \in Songs : IsFiniteSet(c.categories[s])
       /\ DOMAIN c.artist = Songs /\ DOMAIN c.genre = Songs
       /\ c.categories \in [Songs -> SUBSET UNION {c.categories[s] : s \in Songs}]
       /\ c.popular \in [Songs -> Nat]
       /\ c.created \in [Songs -> Nat] /\ \A s, t \in Songs : c.created[s] = c.created[t] => s = t
  /\ {PlayWeight, LikeWeight} \subseteq [{"new", "old"} -> Nat]
  /\ {Cap, Limit, MaxPlays, MaxSignals} \subseteq Nat

VARIABLES
  catalogue,  \* songs and category_songs
  plays,      \* qualified_listens: how many of a song and age
  likes       \* user_likes: the age of the like of a song, if it is liked

vars == <<catalogue, plays, likes>>

Ages == {"new", "old"}

-----------------------------------------------------------------------------
(* Weights and scores.                                                      *)

(* The signals of song s.                                                   *)
Weight(s) ==
  plays[s]["new"] * PlayWeight["new"] + plays[s]["old"] * PlayWeight["old"]
    + IF likes[s] = None THEN 0 ELSE LikeWeight[likes[s]]

Total(f) == FoldFunction(LAMBDA x, y : x + y, 0, f)

WeightOf(S) == Total([s \in S |-> Weight(s)])

ArtistWeight(a) == IF a = None THEN 0 ELSE WeightOf({s \in Songs : catalogue.artist[s] = a})

GenreWeight(g) == IF g = None THEN 0 ELSE WeightOf({s \in Songs : catalogue.genre[s] = g})

(* Mistake: what is in one category counts for all.                         *)
CategoryWeightOfAll(c) == WeightOf({s \in Songs : catalogue.categories[s] # {}})

CategoryWeight(c) == WeightOf({s \in Songs : c \in catalogue.categories[s]})

(* Mistake: a song heard this week keeps its score.                         *)
PercentAlways(s) == 100

Percent(s) == IF plays[s]["new"] > 0 THEN 35 ELSE 100

Score(s) ==
  Percent(s) * (3 * ArtistWeight(catalogue.artist[s]) + 2 * GenreWeight(catalogue.genre[s])
                  + Total([c \in catalogue.categories[s] |-> CategoryWeight(c)]))
    + catalogue.popular[s]

Scores == [s \in Songs |-> Score(s)]

Before(score, s, t) ==
  \/ score[s] > score[t]
  \/ score[s] = score[t] /\ catalogue.created[s] > catalogue.created[t]

(* The songs, best first.                                                   *)
RankedBy(score) ==
  LET place(s) == Cardinality({t \in Songs : Before(score, t, s)}) + 1
      at(i) == CHOOSE s \in Songs : place(s) = i
  IN [i \in 1 .. Cardinality(Songs) |-> at(i)]

Ranked == RankedBy(Scores)

-----------------------------------------------------------------------------
(* The selection.                                                           *)

(* Songs of nobody known count for themselves.                              *)
Key(s) == IF catalogue.artist[s] = None THEN s ELSE catalogue.artist[s]

Room(taken, s) == Cardinality({i \in DOMAIN taken : Key(taken[i]) = Key(s)}) < Cap

Capped(ranked) ==
  FoldLeft(LAMBDA taken, s : IF Len(taken) < Limit /\ Room(taken, s) THEN Append(taken, s) ELSE taken,
           <<>>, ranked)

(* Mistake: the first round is not looked at again.                         *)
FilledAgain(taken, ranked) ==
  FoldLeft(LAMBDA more, s : IF Len(more) < Limit THEN Append(more, s) ELSE more, taken, ranked)

Filled(taken, ranked) ==
  FoldLeft(LAMBDA more, s : IF Len(more) < Limit /\ ~Contains(taken, s) THEN Append(more, s) ELSE more,
           taken, ranked)

Recommend(ranked) == Filled(Capped(ranked), ranked)

-----------------------------------------------------------------------------
(* What the user does, and time.                                            *)

Init ==
  /\ catalogue \in Catalogues
  /\ plays = [s \in Songs |-> [a \in Ages |-> 0]]
  /\ likes = [s \in Songs |-> None]

Signals ==
  MapThenSumSet(LAMBDA s : plays[s]["new"] + plays[s]["old"], Songs)
    + Cardinality({s \in Songs : likes[s] # None})

(* RegisterQualifiedListen: one report of a playback counts, the others conflict. *)
Listen(s) ==
  /\ plays[s]["new"] < MaxPlays /\ Signals < MaxSignals
  /\ plays' = [plays EXCEPT ![s]["new"] = @ + 1]
  /\ UNCHANGED <<catalogue, likes>>

(* SetLike.                                                                 *)
Like(s) ==
  /\ likes[s] = None /\ Signals < MaxSignals
  /\ likes' = [likes EXCEPT ![s] = "new"]
  /\ UNCHANGED <<catalogue, plays>>

Unlike(s) == likes[s] # None /\ likes' = [likes EXCEPT ![s] = None] /\ UNCHANGED <<catalogue, plays>>

(* Signals of a song age; listenings are forgotten in the end.              *)
PlayAges(s) ==
  /\ \/ plays[s]["new"] > 0 /\ plays[s]["old"] < MaxPlays
        /\ plays' = [plays EXCEPT ![s] = [new |-> @.new - 1, old |-> @.old + 1]]
     \/ plays[s]["old"] > 0 /\ plays' = [plays EXCEPT ![s]["old"] = @ - 1]
  /\ UNCHANGED <<catalogue, likes>>

LikeAges(s) == likes[s] = "new" /\ likes' = [likes EXCEPT ![s] = "old"] /\ UNCHANGED <<catalogue, plays>>

Next == \E s \in Songs : Listen(s) \/ Like(s) \/ Unlike(s) \/ PlayAges(s) \/ LikeAges(s)

Spec == Init /\ [][Next]_vars

-----------------------------------------------------------------------------
(* Properties.                                                              *)

TypeOK ==
  /\ catalogue \in Catalogues
  /\ plays \in [Songs -> [Ages -> 0 .. MaxPlays]]
  /\ likes \in [Songs -> Ages \cup {None}]

(* The two rounds give what they stand for: first the songs that are among the    *)
(* first Cap of their artist, then the others, both in the order of the ranking   *)
(* and cut off at Limit, so that none comes twice.                                *)
Earlier(ranked, i) == {j \in 1 .. i - 1 : Key(ranked[j]) = Key(ranked[i])}

Within(ranked) == {i \in DOMAIN ranked : Cardinality(Earlier(ranked, i)) < Cap}

(* Those that are selected no later than the i-th.                          *)
Preceding(ranked, i) ==
  IF i \in Within(ranked) THEN {j \in Within(ranked) : j <= i} ELSE Within(ranked) \cup 1 .. i

SelectionIsCapped ==
  \A ranked \in {Ranked} :
    LET selected == Recommend(ranked)
        place(i) == Cardinality(Preceding(ranked, i))
    IN /\ Len(selected) = IF Limit < Len(ranked) THEN Limit ELSE Len(ranked)
       /\ \A i \in DOMAIN ranked : place(i) <= Limit => selected[place(i)] = ranked[i]

(* A song heard this week does not come before a twin of it that was not.   *)
Twins(s, t) ==
  /\ catalogue.artist[s] = catalogue.artist[t] /\ catalogue.genre[s] = catalogue.genre[t]
  /\ catalogue.categories[s] = catalogue.categories[t] /\ catalogue.popular[s] = catalogue.popular[t]

HeardComeLater ==
  \A score \in {Scores}, s, t \in Songs :
    Twins(s, t) /\ plays[s]["new"] > 0 /\ plays[t]["new"] = 0 /\ Weight(s) > 0 /\ catalogue.artist[s] # None
      => Before(score, t, s)

(* Types, and a ranking and a selection as they are meant.                  *)
Sound == TypeOK /\ SelectionIsCapped /\ HeardComeLater

(* A signal moves only songs that have something in common with its song: any two *)
(* others keep their order.                                                       *)
Common(s, t) ==
  \/ s = t
  \/ catalogue.artist[s] = catalogue.artist[t] /\ catalogue.artist[s] # None
  \/ catalogue.genre[s] = catalogue.genre[t] /\ catalogue.genre[s] # None
  \/ catalogue.categories[s] \cap catalogue.categories[t] # {}

Order == UNION {{p \in Songs \X Songs : Before(score, p[1], p[2])} : score \in {Scores}}

OthersKeepOrder ==
  [][\A s \in Songs :
       plays[s] # plays'[s] \/ likes[s] # likes'[s] =>
         \A before \in {Order}, after \in {Order'} :
           LET others == {t \in Songs : ~Common(s, t)} IN
           before \cap (others \X others) = after \cap (others \X others)]_vars

=============================================================================
