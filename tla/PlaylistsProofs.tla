---------------------------- MODULE PlaylistsProofs ----------------------------
(*******************************************************************************)
(* Proofs about Playlists, for every set of songs and requests, every finite   *)
(* number of entries and every length of a playlist.                           *)
(*                                                                             *)
(* What an enumeration of a finite set is like is proved by the least natural  *)
(* number for which it would be otherwise (LeastNat).                          *)
(*******************************************************************************)
EXTENDS Playlists, TLAPS, SequenceTheorems, FiniteSetTheorems, WellFoundedInduction

-----------------------------------------------------------------------------
(* Natural numbers and finite sets of them.                                 *)

LEMMA LeastNat ==
  ASSUME NEW T \in SUBSET Nat, T # {}
  PROVE  \E x \in T : \A y \in T : x <= y
<1> DEFINE R == OpToRel(<, Nat)
<1>1. IsWellFoundedOn(R, Nat)  BY NatLessThanWellFounded
<1>2. \A x, y \in Nat : <<y, x>> \in R <=> y < x  BY DEF OpToRel
<1> HIDE DEF R
<1>3. PICK x \in T : \A y \in T : ~(<<y, x>> \in R)  BY <1>1, WFMin
<1>4. \A y \in T : ~(y < x)  BY <1>2, <1>3
<1> QED  BY <1>4

LEMMA PrefixBounded ==
  ASSUME NEW n \in Nat, NEW f \in [1..n -> Nat]
  PROVE  \E b \in Nat : \A i \in 1..n : f[i] <= b
<1> DEFINE Bounded(m) == \E b \in Nat : \A i \in 1..m : f[i] <= b
           T == {m \in 0..n : ~Bounded(m)}
<1>1. T \in SUBSET Nat
  OBVIOUS
<1>2. Bounded(0)
  OBVIOUS
<1>3. ASSUME NEW m \in 1..n, Bounded(m - 1) PROVE Bounded(m)
  <2>1. PICK b \in Nat : \A i \in 1..(m - 1) : f[i] <= b  BY <1>3
  <2>2. PICK c \in Nat : b <= c /\ f[m] <= c
    <3>1. f[m] \in Nat
      OBVIOUS
    <3>2. b <= f[m] \/ f[m] <= b  BY <2>1, <3>1
    <3> QED  BY <2>1, <3>1, <3>2
  <2>3. \A i \in 1..m : f[i] <= c
    <3> TAKE i \in 1..m
    <3>1. f[i] \in Nat
      OBVIOUS
    <3>2. i = m \/ i \in 1..(m - 1)
      OBVIOUS
    <3> QED  BY <2>1, <2>2, <3>1, <3>2
  <2> QED  BY <2>2, <2>3
<1>4. T = {}
  <2> SUFFICES ASSUME T # {} PROVE FALSE
    OBVIOUS
  <2>1. PICK m \in T : \A k \in T : m <= k
    <3> HIDE DEF T
    <3> QED  BY <1>1, LeastNat
  <2>2. m \in 0..n /\ ~Bounded(m) /\ \A k \in 0..n : ~Bounded(k) => m <= k  BY <2>1
  <2> HIDE DEF Bounded, T
  <2>3. m \in 1..n /\ m - 1 \in 0..n  BY <1>2, <2>2
  <2>4. Bounded(m - 1)  BY <2>2, <2>3
  <2> QED  BY <1>3, <2>2, <2>3, <2>4
<1>5. n \in 0..n
  OBVIOUS
<1> QED  BY <1>4, <1>5

LEMMA FiniteBounded ==
  ASSUME NEW S \in SUBSET Nat, IsFiniteSet(S)
  PROVE  \E b \in Nat : \A x \in S : x <= b
<1>1. PICK n \in Nat : ExistsSurjection(1..n, S)  BY FS_NatSurjection
<1>2. PICK f \in Surjection(1..n, S) : TRUE  BY <1>1 DEF ExistsSurjection
<1>3. f \in [1..n -> S] /\ \A x \in S : \E i \in 1..n : f[i] = x  BY <1>2 DEF Surjection
<1>4. f \in [1..n -> Nat]  BY <1>3
<1>5. PICK b \in Nat : \A i \in 1..n : f[i] <= b  BY <1>4, PrefixBounded
<1> QED  BY <1>3, <1>5

LEMMA MaxView ==
  ASSUME NEW S \in SUBSET Nat, IsFiniteSet(S), S # {}
  PROVE  Max(S) \in S /\ \A x \in S : x <= Max(S)
<1> DEFINE U == {b \in Nat : \A x \in S : x <= b}
<1>1. U # {} /\ U \in SUBSET Nat  BY FiniteBounded
<1>2. PICK u \in U : \A b \in U : u <= b
  <2> HIDE DEF U
  <2> QED  BY <1>1, LeastNat
<1>3. u \in S
  <2> SUFFICES ASSUME u \notin S PROVE FALSE
    OBVIOUS
  <2>1. \A x \in S : x \in Nat /\ x < u  BY <1>2
  <2>2. u \in Nat /\ u - 1 \in Nat
    <3>1. PICK x \in S : TRUE
      OBVIOUS
    <3>2. u \in Nat /\ x \in Nat /\ x < u  BY <1>2, <2>1, <3>1
    <3> QED  BY <3>2
  <2>3. u - 1 \in U  BY <2>1, <2>2
  <2> QED  BY <1>2, <2>2, <2>3
<1>4. \A x \in S : u >= x  BY <1>2
<1>5. Max(S) \in S /\ \A x \in S : Max(S) >= x
  <2>1. \E y \in S : \A x \in S : y >= x  BY <1>3, <1>4
  <2> QED  BY <2>1 DEF Max
<1> QED  BY <1>5

-----------------------------------------------------------------------------
(* Enumerations.                                                            *)

(* ORDER BY position of the rows of S, when the rows are f.                 *)
Sorted(f, S) ==
  {s \in [1..Cardinality(S) -> S] :
     \A i, j \in DOMAIN s : i < j => s[i] # s[j] /\ f[s[i]].position <= f[s[j]].position}

LEMMA OrderedIsSorted == \A S : Ordered(S) = Sorted(row, S)
BY DEF Ordered, Sorted

LEMMA SortedView ==
  ASSUME NEW f, NEW S, IsFiniteSet(S), NEW s \in Sorted(f, S)
  PROVE  /\ Cardinality(S) \in Nat /\ s \in Seq(S) /\ Len(s) = Cardinality(S)
         /\ s \in [1..Len(s) -> S] /\ DOMAIN s = 1..Len(s)
         /\ Distinct(s) /\ Range(s) = S
<1>1. Cardinality(S) \in Nat  BY FS_CardinalityType
<1>2. s \in [1..Cardinality(S) -> S]  BY DEF Sorted
<1>3. s \in Seq(S)  BY <1>1, <1>2, SeqDef
<1>4. DOMAIN s = 1..Cardinality(S) /\ Len(s) = Cardinality(S)
  BY <1>1, <1>2, <1>3, LenProperties
<1>5. Distinct(s)
  <2>1. \A i, j \in 1..Cardinality(S) : i < j => s[i] # s[j]  BY <1>4 DEF Sorted
  <2>2. \A i, j \in 1..Cardinality(S) : i # j => s[i] # s[j]  BY <1>1, <2>1
  <2> QED  BY <1>4, <2>2 DEF Distinct
<1>6. s \in Injection(1..Cardinality(S), S)
  BY <1>2, <1>4, <1>5 DEF Injection, IsInjective, Distinct
<1>7. Cardinality(1..Cardinality(S)) = Cardinality(S)  BY <1>1, FS_Interval
<1>8. s \in Surjection(1..Cardinality(S), S)  BY <1>6, <1>7, FS_Injection
<1>9. Range(s) = S  BY <1>2, <1>4, <1>8 DEF Surjection, Range
<1> QED  BY <1>1, <1>2, <1>3, <1>4, <1>5, <1>9

(* What enumerates a finite set without repetition is as long as it is large. *)
LEMMA DistinctLength ==
  ASSUME NEW S, NEW s \in Seq(S), Distinct(s), Range(s) = S
  PROVE  IsFiniteSet(S) /\ Cardinality(S) = Len(s)
<1>1. Len(s) \in Nat /\ s \in [1..Len(s) -> S] /\ DOMAIN s = 1..Len(s)  BY LenProperties
<1>2. s \in Injection(1..Len(s), S)  BY <1>1 DEF Injection, IsInjective, Distinct
<1>3. s \in Surjection(1..Len(s), S)  BY <1>1 DEF Surjection, Range
<1>4. ExistsBijection(1..Len(s), S)  BY <1>2, <1>3 DEF ExistsBijection, Bijection
<1> QED  BY <1>1, <1>4, FS_NatBijection, FS_CountingElements

(* Without ties there is one order.                                         *)
LEMMA SortedUnique ==
  ASSUME NEW f, NEW S, IsFiniteSet(S), \A e \in S : f[e].position \in Nat,
         \A d, e \in S : d # e => f[d].position # f[e].position,
         NEW s \in Sorted(f, S), NEW t \in Sorted(f, S)
  PROVE  s = t
<1> DEFINE n == Cardinality(S)
<1>1. /\ n \in Nat /\ s \in [1..n -> S] /\ t \in [1..n -> S]
      /\ Distinct(s) /\ Distinct(t) /\ Range(s) = S /\ Range(t) = S
  BY SortedView
<1>2. /\ \A i, j \in 1..n : i < j => f[s[i]].position < f[s[j]].position
      /\ \A i, j \in 1..n : i < j => f[t[i]].position < f[t[j]].position
  <2>1. \A i, j \in 1..n : i < j => s[i] # s[j] /\ f[s[i]].position <= f[s[j]].position
    BY <1>1 DEF Sorted
  <2>2. \A i, j \in 1..n : i < j => t[i] # t[j] /\ f[t[i]].position <= f[t[j]].position
    BY <1>1 DEF Sorted
  <2>3. \A i \in 1..n : s[i] \in S /\ t[i] \in S  BY <1>1
  <2> HIDE DEF n
  <2> QED  BY <2>1, <2>2, <2>3
<1>3. \A e \in S : (\E i \in 1..n : s[i] = e) /\ (\E i \in 1..n : t[i] = e)
  BY <1>1 DEF Range
<1> DEFINE T == {k \in 1..n : s[k] # t[k]}
<1>4. T = {}
  <2> SUFFICES ASSUME T # {} PROVE FALSE
    OBVIOUS
  <2> HIDE DEF n
  <2>0. T \in SUBSET Nat  BY <1>1
  <2>1. PICK k \in T : \A j \in T : k <= j
    <3> HIDE DEF T
    <3> QED  BY <2>0, LeastNat
  <2>2. k \in 1..n /\ s[k] # t[k] /\ s[k] \in S /\ t[k] \in S  BY <1>1, <2>1
  <2>3. PICK i \in 1..n : t[i] = s[k]  BY <1>3, <2>2
  <2>4. PICK j \in 1..n : s[j] = t[k]  BY <1>3, <2>2
  <2>5. ~(i < k)
    <3> SUFFICES ASSUME i < k PROVE FALSE
      OBVIOUS
    <3>1. s[i] = t[i]  BY <1>1, <2>1, <2>2
    <3>2. f[s[i]].position < f[s[k]].position  BY <1>2, <2>2
    <3> QED  BY <1>1, <2>2, <2>3, <3>1, <3>2
  <2>6. ~(j < k)
    <3> SUFFICES ASSUME j < k PROVE FALSE
      OBVIOUS
    <3>1. s[j] = t[j]  BY <1>1, <2>1, <2>2
    <3>2. f[t[j]].position < f[t[k]].position  BY <1>2, <2>2
    <3> QED  BY <1>1, <2>2, <2>4, <3>1, <3>2
  <2>7. i # k /\ j # k  BY <2>2, <2>3, <2>4
  <2>8. k < i /\ k < j  BY <1>1, <2>2, <2>5, <2>6, <2>7
  <2>9. f[t[k]].position < f[s[k]].position  BY <1>2, <2>2, <2>3, <2>8
  <2>10. f[s[k]].position < f[t[k]].position  BY <1>2, <2>2, <2>4, <2>8
  <2> QED  BY <2>2, <2>9, <2>10
<1> QED  BY <1>1, <1>4

LEMMA SortedAgree ==
  ASSUME NEW f, NEW g, NEW S, IsFiniteSet(S), \A e \in S : f[e] = g[e]
  PROVE  Sorted(f, S) = Sorted(g, S)
<1>1. ASSUME NEW s \in [1..Cardinality(S) -> S], NEW i \in DOMAIN s
      PROVE  f[s[i]] = g[s[i]]
  <2>1. s[i] \in S  BY <1>1
  <2> QED  BY <2>1
<1> QED  BY <1>1 DEF Sorted

-----------------------------------------------------------------------------
(* The track that is moved.                                                 *)

(* Where the k-th track of the moved sequence was.                          *)
Source(k, from, to) ==
  LET m == IF k <= to THEN k ELSE k - 1 IN
  IF k = to + 1 THEN from + 1 ELSE IF m <= from THEN m ELSE m + 1

(* A rearrangement, undone by the one that moves back, that keeps the order *)
(* of the others.                                                           *)
Rearranges(n, from, to) ==
  /\ \A k \in 1..n : /\ Source(k, from, to) \in 1..n
                    /\ Source(Source(k, from, to), to, from) = k
                    /\ Source(k, to, from) \in 1..n
                    /\ Source(Source(k, to, from), from, to) = k
  /\ Source(to + 1, from, to) = from + 1
  /\ \A j, k \in 1..n :
       j # to + 1 /\ k # to + 1 => (Source(j, from, to) < Source(k, from, to) <=> j < k)

LEMMA SourceView ==
  ASSUME NEW n \in Nat, NEW from \in Nat, NEW to \in Nat, from < n, to < n
  PROVE  Rearranges(n, from, to)
BY DEF Source, Rearranges

LEMMA MovedView ==
  ASSUME NEW S, NEW s \in Seq(S), NEW from \in Nat, NEW to \in Nat,
         from < Len(s), to < Len(s)
  PROVE  /\ Moved(s, from, to) \in Seq(S)
         /\ Len(Moved(s, from, to)) = Len(s)
         /\ \A k \in 1..Len(s) : Moved(s, from, to)[k] = s[Source(k, from, to)]
<1> DEFINE n == Len(s)
           a == SubSeq(s, 1, from)
           b == SubSeq(s, from + 2, n)
           rest == a \o b
           c == SubSeq(rest, 1, to)
           d == SubSeq(rest, to + 1, Len(rest))
<1>1. n \in Nat /\ \A i \in 1..n : s[i] \in S  BY LenProperties, ElementOfSeq
<1>2. /\ a \in Seq(S) /\ Len(a) = from
      /\ \A i \in 1..from : a[i] = s[i]
  <2>1. \A i \in 1..from : s[i] \in S  BY <1>1
  <2> HIDE DEF n
  <2> QED  BY <2>1, SubSeqProperties
<1>3. /\ b \in Seq(S) /\ Len(b) = n - from - 1
      /\ \A i \in 1..(n - from - 1) : b[i] = s[from + 1 + i]
  <2>1. \A i \in (from + 2)..n : s[i] \in S  BY <1>1
  <2>2. /\ b \in Seq(S) /\ Len(b) = IF from + 2 <= n THEN n - (from + 2) + 1 ELSE 0
        /\ \A i \in 1..(n - (from + 2) + 1) : b[i] = s[from + 2 + i - 1]
    BY <1>1, <2>1, SubSeqProperties
  <2>3. from < n
    OBVIOUS
  <2> HIDE DEF n, b
  <2> QED  BY <1>1, <2>2, <2>3
<1>4. /\ rest \in Seq(S) /\ Len(rest) = n - 1
      /\ \A i \in 1..(n - 1) : rest[i] = IF i <= from THEN s[i] ELSE s[i + 1]
  <2>1. /\ rest \in Seq(S) /\ Len(rest) = Len(a) + Len(b)
        /\ \A i \in 1..(Len(a) + Len(b)) :
             rest[i] = IF i <= Len(a) THEN a[i] ELSE b[i - Len(a)]
    <3> HIDE DEF a, b
    <3> QED  BY <1>2, <1>3, ConcatProperties
  <2>2. from < n
    OBVIOUS
  <2> HIDE DEF n, a, b, rest
  <2>3. rest \in Seq(S) /\ Len(rest) = n - 1  BY <1>1, <1>2, <1>3, <2>1
  <2>4. ASSUME NEW i \in 1..(n - 1), i <= from PROVE rest[i] = s[i]
    BY <1>1, <1>2, <1>3, <2>1, <2>2, <2>4
  <2>5. ASSUME NEW i \in 1..(n - 1), ~(i <= from) PROVE rest[i] = s[i + 1]
    <3>1. i - from \in 1..(n - from - 1)  BY <1>1, <2>2, <2>5
    <3>2. rest[i] = b[i - from]  BY <1>1, <1>2, <1>3, <2>1, <2>2, <2>5
    <3>3. b[i - from] = s[from + 1 + (i - from)]  BY <1>3, <3>1
    <3>4. from + 1 + (i - from) = i + 1  BY <1>1, <2>5
    <3> QED  BY <3>2, <3>3, <3>4
  <2> QED  BY <2>3, <2>4, <2>5
<1>5. to <= n - 1 /\ to < n /\ from < n  BY <1>1
<1> HIDE DEF a, b, rest
<1>6. /\ c \in Seq(S) /\ Len(c) = to
      /\ \A i \in 1..to : c[i] = rest[i]
  <2>1. \A i \in 1..to : rest[i] \in S  BY <1>1, <1>4, <1>5, ElementOfSeq
  <2> HIDE DEF n
  <2> QED  BY <2>1, SubSeqProperties
<1>7. /\ d \in Seq(S) /\ Len(d) = n - 1 - to
      /\ \A i \in 1..(n - 1 - to) : d[i] = rest[to + i]
  <2>1. \A i \in (to + 1)..(n - 1) : rest[i] \in S  BY <1>1, <1>4, <1>5, ElementOfSeq
  <2> HIDE DEF n
  <2>2. /\ d \in Seq(S)
        /\ Len(d) = IF to + 1 <= n - 1 THEN n - 1 - (to + 1) + 1 ELSE 0
        /\ \A i \in 1..(n - 1 - (to + 1) + 1) : d[i] = rest[to + 1 + i - 1]
    BY <1>1, <1>4, <2>1, SubSeqProperties
  <2> HIDE DEF d
  <2> QED  BY <1>1, <1>5, <2>2
<1> DEFINE e == c \o <<s[from + 1]>>
<1>8. s[from + 1] \in S  BY <1>1, <1>5
<1> HIDE DEF c, d
<1>9. /\ e \in Seq(S) /\ Len(e) = to + 1
      /\ \A i \in 1..to : e[i] = rest[i]
      /\ e[to + 1] = s[from + 1]
  <2> DEFINE x == <<s[from + 1]>>
  <2>1. x \in Seq(S) /\ Len(x) = 1 /\ x[1] = s[from + 1]  BY <1>8
  <2>2. e = c \o x
    OBVIOUS
  <2> HIDE DEF x, e
  <2>3. /\ e \in Seq(S) /\ Len(e) = Len(c) + Len(x)
        /\ \A i \in 1..(Len(c) + Len(x)) : e[i] = IF i <= Len(c) THEN c[i] ELSE x[i - Len(c)]
    BY <1>6, <2>1, <2>2, ConcatProperties
  <2> QED  BY <1>6, <2>1, <2>3
<1>10. Moved(s, from, to) = e \o d  BY DEF Moved, rest, a, b, c, d
<1> HIDE DEF e
<1> DEFINE m == Moved(s, from, to)
<1>11. /\ m \in Seq(S) /\ Len(m) = Len(e) + Len(d)
       /\ \A i \in 1..(Len(e) + Len(d)) : m[i] = IF i <= Len(e) THEN e[i] ELSE d[i - Len(e)]
  <2> HIDE DEF m
  <2>1. m = e \o d  BY <1>10 DEF m
  <2> QED  BY <1>7, <1>9, <2>1, ConcatProperties
<1> HIDE DEF m
<1>12. m \in Seq(S) /\ Len(m) = n
  <2> HIDE DEF n
  <2> QED  BY <1>1, <1>5, <1>7, <1>9, <1>11
<1>13. ASSUME NEW k \in 1..n PROVE m[k] = s[Source(k, from, to)]
  <2> HIDE DEF n
  <2>1. ASSUME k <= to PROVE m[k] = s[Source(k, from, to)]
    <3>1. k \in 1..(n - 1) /\ k \in 1..to /\ k \in 1..(to + 1 + (n - 1 - to))
      BY <1>1, <1>5, <2>1
    <3>2. Len(e) + Len(d) = to + 1 + (n - 1 - to) /\ k <= Len(e)  BY <1>7, <1>9, <2>1
    <3>3. m[k] = e[k]  BY <1>11, <3>1, <3>2
    <3>4. m[k] = rest[k]  BY <1>9, <3>1, <3>3
    <3> QED  BY <1>4, <2>1, <3>1, <3>4 DEF Source
  <2>2. ASSUME k = to + 1 PROVE m[k] = s[Source(k, from, to)]
    BY <1>1, <1>5, <1>7, <1>9, <1>11, <2>2 DEF Source
  <2>3. ASSUME k > to + 1 PROVE m[k] = s[Source(k, from, to)]
    <3>1. k - (to + 1) \in 1..(n - 1 - to) /\ k - 1 \in 1..(n - 1)  BY <1>1, <1>5, <2>3
    <3>2. m[k] = d[k - (to + 1)]  BY <1>1, <1>5, <1>7, <1>9, <1>11, <2>3
    <3>3. d[k - (to + 1)] = rest[to + (k - (to + 1))]  BY <1>7, <3>1
    <3>4. to + (k - (to + 1)) = k - 1 /\ k - 1 + 1 = k  BY <1>1
    <3>5. m[k] = IF k - 1 <= from THEN s[k - 1] ELSE s[k]  BY <1>4, <3>1, <3>2, <3>3, <3>4
    <3> QED  BY <1>1, <2>3, <3>4, <3>5 DEF Source
  <2> QED  BY <1>1, <2>1, <2>2, <2>3
<1> QED  BY <1>12, <1>13 DEF m

-----------------------------------------------------------------------------
(* The inductive invariant.                                                 *)

(* A lock is of the row that the holder has deleted or of one whose position *)
(* he has written.                                                           *)
LocksOK ==
  \A e \in Entries :
    lock[e] # None =>
      \/ tx[lock[e]].op = "remove" /\ tx[lock[e]].entry = e
      \/ tx[lock[e]].pc = "update" /\ \E k \in 1..(tx[lock[e]].i - 1) : tx[lock[e]].ids[k] = e

RequestOK(r) ==
  /\ tx[r].pc \notin {"idle", "create"} => tx[r].list # None
  /\ (tx[r].entry # None) <=> (tx[r].op = "remove")
  /\ tx[r].pc \in {"start", "insert"} => tx[r].op = "add"
  /\ tx[r].pc = "delete" => tx[r].op = "remove"
  /\ tx[r].pc \in {"read", "update"} => tx[r].op \in {"remove", "reorder"}
  /\ tx[r].pc \in {"read", "update"} /\ tx[r].op = "remove" =>
       lock[tx[r].entry] = r /\ row[tx[r].entry].list = tx[r].list
  /\ tx[r].pc = "update" => tx[r].i \in 1..(Len(tx[r].ids) + 1)
  /\ Distinct(tx[r].ids)
  /\ \A k \in 1..Len(tx[r].ids) :
       tx[r].ids[k] # tx[r].entry /\ row[tx[r].ids[k]].list \in {None, tx[r].list}

(* The ids are the order o, or what the reordering makes of it.             *)
Planned(t, o) ==
  IF t.op = "remove" THEN t.ids = o
  ELSE t.from < Len(o) /\ t.to < Len(o) /\ t.ids = Moved(o, t.from, t.to)

(* The tracks of l when the rows are f.                                     *)
TracksIn(f, l) == {e \in Entries : f[e].list # None /\ f[e].list = l}

(* What t has read of its playlist is so in the rows f.                     *)
Current(f, t) ==
  /\ t.pc = "insert" => \A e \in TracksIn(f, t.list) : f[e].position < t.start
  /\ t.pc = "update" => \E o \in Sorted(f, TracksIn(f, t.list) \ {t.entry}) : Planned(t, o)

(* While r is alone, what it has read stays so, and the rows whose positions *)
(* it has written are its own.                                               *)
AloneOK(r) ==
  alone[r] =>
    /\ tx[r].pc \in {"insert", "update"}
    /\ Current(row, tx[r])
    /\ tx[r].pc = "update" => \A k \in 1..(tx[r].i - 1) : lock[tx[r].ids[k]] = r

IInv == TypeOK /\ LocksOK /\ \A r \in Requests : RequestOK(r) /\ AloneOK(r)

LEMMA NoneIsNone ==
  /\ None \notin Lists /\ None \notin Entries /\ None \notin Songs /\ None \notin Requests
  /\ None # "user" /\ None # "file"
BY PlaylistsAssumption

LEMMA TracksView ==
  \A l \in Lists : \A e : e \in Tracks(l) <=> (e \in Entries /\ row[e].list = l)
BY NoneIsNone DEF Tracks, Live

LEMMA TracksAreIn == \A l : Tracks(l) = TracksIn(row, l)
BY DEF Tracks, Live, TracksIn

LEMMA TracksFinite ==
  \A l : IsFiniteSet(Tracks(l)) /\ Tracks(l) \subseteq Entries
<1> SUFFICES ASSUME NEW l PROVE IsFiniteSet(Tracks(l)) /\ Tracks(l) \subseteq Entries
  OBVIOUS
<1>1. Tracks(l) \subseteq Entries  BY DEF Tracks, Live
<1> QED  BY <1>1, FS_Subset, PlaylistsAssumption

(* The ids a new row may get are of no row and of no request.               *)
LEMMA FreshView ==
  ASSUME NEW n \in Nat, NEW ids \in FreshIds(n)
  PROVE  /\ ids \in Seq(Entries) /\ Len(ids) = n /\ DOMAIN ids = 1..n /\ Distinct(ids)
         /\ \A i \in 1..n :
              /\ ids[i] \in Entries /\ row[ids[i]].list = None
              /\ \A r \in Requests : \A k \in DOMAIN tx[r].ids : tx[r].ids[k] # ids[i]
<1> DEFINE used == Live \cup {tx[r].entry : r \in Requests}
                        \cup UNION {Range(tx[r].ids) : r \in Requests}
<1>1. ids \in [1..n -> Entries \ used] /\ Distinct(ids)  BY DEF FreshIds
<1>2. \A i \in 1..n : ids[i] \in Entries \ used  BY <1>1
<1> HIDE DEF used
<1>3. ids \in [1..n -> Entries]  BY <1>1
<1>4. ids \in Seq(Entries) /\ Len(ids) = n /\ DOMAIN ids = 1..n
  BY <1>3, SeqDef, LenProperties
<1>5. ASSUME NEW i \in 1..n
      PROVE  /\ row[ids[i]].list = None
             /\ \A r \in Requests : \A k \in DOMAIN tx[r].ids : tx[r].ids[k] # ids[i]
  <2>1. ids[i] \in Entries /\ ids[i] \notin used  BY <1>2
  <2>2. ids[i] \notin Live  BY <2>1 DEF used
  <2>3. \A r \in Requests : ids[i] \notin Range(tx[r].ids)  BY <2>1 DEF used
  <2> QED  BY <2>1, <2>2, <2>3 DEF Live, Range
<1> QED  BY <1>1, <1>2, <1>4, <1>5

LEMMA IndexView ==
  ASSUME NEW s, Distinct(s), NEW i \in DOMAIN s
  PROVE  Index(s, s[i]) = i
<1>1. \A j \in DOMAIN s : s[j] = s[i] => j = i  BY DEF Distinct
<1> QED  BY <1>1 DEF Index

(* The rows that insertPlaylistTracks writes, and those it leaves.          *)
LEMMA RowsView ==
  ASSUME TypeOK, NEW n \in Nat, NEW ids \in FreshIds(n), NEW l \in Lists,
         NEW tracks \in Seq(Songs), Len(tracks) = n, NEW start \in Nat
  PROVE  /\ WithRows(l, ids, tracks, start) \in [Entries -> Row]
         /\ \A e \in Entries :
              \/ WithRows(l, ids, tracks, start)[e] = row[e]
              \/ /\ row[e].list = None
                 /\ \A r \in Requests : \A k \in DOMAIN tx[r].ids : tx[r].ids[k] # e
                 /\ WithRows(l, ids, tracks, start)[e].list = l
                 /\ WithRows(l, ids, tracks, start)[e].song \in Range(tracks)
                 /\ WithRows(l, ids, tracks, start)[e].position >= start
<1> DEFINE rows == WithRows(l, ids, tracks, start)
<1>1. /\ DOMAIN ids = 1..n /\ Distinct(ids)
      /\ \A i \in 1..n :
           /\ ids[i] \in Entries /\ row[ids[i]].list = None
           /\ \A r \in Requests : \A k \in DOMAIN tx[r].ids : tx[r].ids[k] # ids[i]
  BY FreshView
<1>2. \A i \in 1..n : Index(ids, ids[i]) = i  BY <1>1, IndexView
<1>3. \A i \in 1..n : tracks[i] \in Range(tracks) /\ tracks[i] \in Songs
  <2>1. DOMAIN tracks = 1..n  BY LenProperties
  <2> QED  BY <2>1, ElementOfSeq DEF Range
<1>4. ASSUME NEW e \in Entries, NEW i \in 1..n, ids[i] = e
      PROVE  rows[e] = [list |-> l, song |-> tracks[i], position |-> start + i - 1]
  BY <1>1, <1>2, <1>4 DEF WithRows
<1>5. ASSUME NEW e \in Entries, ~ \E i \in 1..n : ids[i] = e
      PROVE  rows[e] = row[e]
  BY <1>1, <1>5 DEF WithRows
<1>6. rows = [e \in Entries |-> rows[e]]  BY DEF WithRows
<1> HIDE DEF rows
<1>7. ASSUME NEW e \in Entries, NEW i \in 1..n, ids[i] = e
      PROVE  /\ rows[e] \in Row /\ row[e].list = None
             /\ \A r \in Requests : \A k \in DOMAIN tx[r].ids : tx[r].ids[k] # e
             /\ rows[e].list = l /\ rows[e].song \in Range(tracks)
             /\ rows[e].position >= start
  <2>1. rows[e] = [list |-> l, song |-> tracks[i], position |-> start + i - 1]  BY <1>4, <1>7
  <2>2. start + i - 1 \in Nat /\ start + i - 1 >= start
    OBVIOUS
  <2> QED  BY <1>1, <1>3, <1>7, <2>1, <2>2 DEF Row
<1>8. \A e \in Entries : row[e] \in Row  BY DEF TypeOK
<1>9. \A e \in Entries : rows[e] \in Row  BY <1>5, <1>7, <1>8
<1>10. rows \in [Entries -> Row]  BY <1>6, <1>9
<1> QED  BY <1>5, <1>7, <1>10 DEF rows

-----------------------------------------------------------------------------
(* A request that a step of others leaves as it is.                         *)

LEMMA CurrentKept ==
  ASSUME NEW f, NEW g, NEW t, Current(f, t),
         \A e \in Entries : g[e] = f[e] \/ t.list \notin {f[e].list, g[e].list}
  PROVE  Current(g, t)
<1> DEFINE T == TracksIn(f, t.list)
<1>1. TracksIn(g, t.list) = T  BY DEF TracksIn
<1>2. \A e \in T : g[e] = f[e]  BY DEF TracksIn
<1>3. IsFiniteSet(T \ {t.entry})
  <2>1. T \ {t.entry} \subseteq Entries  BY DEF TracksIn
  <2> QED  BY <2>1, FS_Subset, PlaylistsAssumption
<1> HIDE DEF T
<1>4. Sorted(g, T \ {t.entry}) = Sorted(f, T \ {t.entry})  BY <1>2, <1>3, SortedAgree
<1> QED  BY <1>1, <1>2, <1>4 DEF Current, T

LEMMA OtherKept ==
  ASSUME TypeOK, NEW q \in Requests, RequestOK(q), AloneOK(q), tx'[q] = tx[q],
         \A e \in Entries : lock[e] = q => lock'[e] = q /\ row'[e].list = row[e].list,
         \A k \in 1..Len(tx[q].ids) : row'[tx[q].ids[k]].list \in {None, tx[q].list},
         alone'[q] =>
           /\ alone[q]
           /\ \A e \in Entries :
                row'[e] = row[e] \/ tx[q].list \notin {row[e].list, row'[e].list}
  PROVE  RequestOK(q)' /\ AloneOK(q)'
<1>1. tx[q] \in Tx /\ tx[q].ids \in Seq(Entries) /\ tx[q].i \in Nat
  BY DEF TypeOK, Tx
<1>2. RequestOK(q)'
  <2>1. ASSUME tx[q].pc \in {"read", "update"}, tx[q].op = "remove"
        PROVE  lock'[tx[q].entry] = q /\ row'[tx[q].entry].list = tx[q].list
    <3>1. tx[q].entry \in Entries /\ lock[tx[q].entry] = q
          /\ row[tx[q].entry].list = tx[q].list
      BY <1>1, <2>1, NoneIsNone DEF RequestOK, Tx
    <3> QED  BY <3>1
  <2> QED  BY <2>1 DEF RequestOK
<1>3. AloneOK(q)'
  <2> SUFFICES ASSUME alone'[q]
               PROVE  /\ tx[q].pc \in {"insert", "update"}
                      /\ Current(row', tx[q])
                      /\ tx[q].pc = "update" =>
                           \A k \in 1..(tx[q].i - 1) : lock'[tx[q].ids[k]] = q
    BY DEF AloneOK
  <2>1. Current(row', tx[q])  BY CurrentKept DEF AloneOK
  <2>2. ASSUME tx[q].pc = "update", NEW k \in 1..(tx[q].i - 1)
        PROVE  lock'[tx[q].ids[k]] = q
    <3>1. k \in 1..Len(tx[q].ids)  BY <1>1, <2>2 DEF RequestOK
    <3>2. tx[q].ids[k] \in Entries  BY <1>1, <3>1, ElementOfSeq
    <3> QED  BY <2>2, <3>2 DEF AloneOK
  <2> QED  BY <2>1, <2>2 DEF AloneOK
<1> QED  BY <1>2, <1>3

-----------------------------------------------------------------------------
(* The steps that begin and end a request.                                  *)

LEMMA TypeView ==
  ASSUME TypeOK, NEW r \in Requests
  PROVE  /\ tx[r] \in Tx /\ tx[r].ids \in Seq(Entries) /\ Len(tx[r].ids) \in Nat
         /\ tx[r].songs \in Seq(Songs) /\ Len(tx[r].songs) \in Nat
         /\ tx[r].i \in Nat /\ tx[r].start \in Nat
         /\ tx[r].from \in Nat /\ tx[r].to \in Nat
         /\ tx[r].list \in Lists \cup {None} /\ tx[r].entry \in Entries \cup {None}
         /\ \A k \in 1..Len(tx[r].ids) : tx[r].ids[k] \in Entries
BY LenProperties, ElementOfSeq DEF TypeOK, Tx

LEMMA IdleView ==
  /\ Idle \in Tx /\ Idle.entry = None /\ Idle.ids = <<>>
  /\ Distinct(<<>>) /\ Len(<<>>) = 0
BY DEF Idle, Tx, Distinct

LEMMA BeginKeeps ==
  ASSUME IInv, NEW r \in Requests, NEW t \in Tx, Begin(r, t),
         t.pc \in {"create", "start", "delete", "read"},
         (t.entry # None) <=> (t.op = "remove"),
         t.ids = <<>>, t.pc # "create" => t.list # None,
         t.pc = "start" => t.op = "add", t.pc = "delete" => t.op = "remove",
         t.pc = "read" => t.op = "reorder"
  PROVE  IInv'
<1>1. /\ tx'[r] = t /\ \A q \in Requests \ {r} : tx'[q] = tx[q]
      /\ tx' \in [Requests -> Tx] /\ tx[r].pc = "idle"
      /\ lists' = lists /\ row' = row /\ songs' = songs /\ granted' = granted
      /\ lock' = lock /\ alone' = alone
  BY DEF IInv, TypeOK, Begin
<1>2. \A e \in Entries : lock[e] # r  BY <1>1, NoneIsNone DEF IInv, TypeOK
<1>3. Live' = Live  BY <1>1 DEF Live
<1>4. TypeOK'
  <2>1. ASSUME NEW e \in Entries, lock'[e] # None
        PROVE  e \in Live' /\ tx'[lock'[e]].pc \in {"read", "update"}
    <3>1. lock'[e] \in Requests \ {r}  BY <1>1, <1>2, <2>1 DEF IInv, TypeOK
    <3> QED  BY <1>1, <1>3, <2>1, <3>1 DEF IInv, TypeOK
  <2> QED  BY <1>1, <1>3, <2>1 DEF IInv, TypeOK, Existing
<1>5. LocksOK'
  <2> SUFFICES ASSUME NEW e \in Entries, lock'[e] # None
               PROVE  \/ tx'[lock'[e]].op = "remove" /\ tx'[lock'[e]].entry = e
                      \/ /\ tx'[lock'[e]].pc = "update"
                         /\ \E k \in 1..(tx'[lock'[e]].i - 1) : tx'[lock'[e]].ids[k] = e
    BY DEF LocksOK
  <2>1. lock'[e] = lock[e] /\ lock[e] \in Requests \ {r}
    BY <1>1, <1>2 DEF IInv, TypeOK
  <2>2. tx'[lock[e]] = tx[lock[e]]  BY <1>1, <2>1
  <2> QED  BY <2>1, <2>2 DEF IInv, LocksOK
<1>6. RequestOK(r)'
  <2>1. tx'[r].ids = <<>>  BY <1>1
  <2>2. Distinct(tx'[r].ids) /\ Len(tx'[r].ids) = 0  BY <2>1, IdleView
  <2> QED  BY <1>1, <2>2 DEF RequestOK
<1>7. AloneOK(r)'  BY <1>1 DEF IInv, AloneOK
<1>8. ASSUME NEW q \in Requests \ {r} PROVE RequestOK(q)' /\ AloneOK(q)'
  <2>1. TypeOK /\ RequestOK(q) /\ AloneOK(q)  BY DEF IInv
  <2>2. \A k \in 1..Len(tx[q].ids) : row'[tx[q].ids[k]].list \in {None, tx[q].list}
    BY <1>1, <2>1 DEF RequestOK
  <2> QED  BY <1>1, <2>1, <2>2, OtherKept
<1> QED  BY <1>4, <1>5, <1>6, <1>7, <1>8 DEF IInv

(* The end of a request: it is idle, its locks are released, and who has read *)
(* the playlist is not alone any more.                                        *)
Ends(r, L) ==
  /\ tx' = [tx EXCEPT ![r] = Idle] /\ lock' = LocksReleased(r)
  /\ lists' = lists /\ songs' = songs /\ granted' = granted
  /\ alone' \in [Requests -> BOOLEAN]
  /\ \A q \in Requests : alone'[q] => alone[q] /\ tx'[q].list \notin {L, None}

(* It writes rows of its playlist, and none that another one holds.         *)
OwnRows(rows, r, L) ==
  \A e \in Entries :
    \/ rows[e] = row[e]
    \/ /\ L # None /\ lock[e] \in {None, r}
       /\ row[e].list \in {None, L} /\ rows[e].list \in {None, L}
       /\ rows[e].list = L => L \in Existing /\ rows[e].song \in songs
       /\ row[e].list = None =>
            \A q \in Requests : \A k \in DOMAIN tx[q].ids : tx[q].ids[k] # e

LEMMA EndKeeps ==
  ASSUME IInv, NEW r \in Requests, NEW L \in Lists \cup {None}, Ends(r, L),
         NEW rows \in [Entries -> Row], row' = rows, OwnRows(rows, r, L)
  PROVE  IInv'
<1> USE DEF IInv, Ends, OwnRows
<1>1. /\ tx'[r] = Idle /\ \A q \in Requests \ {r} : tx'[q] = tx[q]
      /\ tx' \in [Requests -> Tx]
  BY IdleView DEF TypeOK
<1>2. \A e \in Entries : lock'[e] = IF lock[e] = r THEN None ELSE lock[e]
  BY DEF LocksReleased
<1>3. lock' \in [Entries -> Requests \cup {None}]
  BY DEF LocksReleased, TypeOK
<1>4. ASSUME NEW e \in Entries, lock'[e] # None
      PROVE  /\ lock'[e] = lock[e] /\ lock[e] \in Requests \ {r}
             /\ tx'[lock[e]] = tx[lock[e]] /\ row'[e] = row[e]
  <2>1. lock'[e] = lock[e] /\ lock[e] \in Requests \ {r}  BY <1>2, <1>3, <1>4, NoneIsNone
  <2> QED  BY <1>1, <2>1, NoneIsNone
<1>5. TypeOK'
  <2>1. ASSUME NEW e \in Entries, lock'[e] # None
        PROVE  e \in Live' /\ tx'[lock'[e]].pc \in {"read", "update"}
    <3>1. lock[e] # None  BY <1>4, <2>1
    <3> QED  BY <1>4, <2>1, <3>1 DEF TypeOK, Live
  <2>2. ASSUME NEW e \in Live' PROVE row'[e].list \in Existing' /\ row'[e].song \in songs'
    <3>1. e \in Entries /\ row'[e].list # None  BY <2>2 DEF Live
    <3>2. ASSUME row'[e] = row[e] PROVE row[e].list \in Existing /\ row[e].song \in songs
      BY <3>1, <3>2 DEF Live, TypeOK
    <3>3. row'[e].list \in Existing /\ row'[e].song \in songs  BY <3>1, <3>2
    <3> QED  BY <3>3 DEF Existing
  <2> QED  BY <1>1, <1>3, <2>1, <2>2 DEF TypeOK
<1>6. LocksOK'
  <2> SUFFICES ASSUME NEW e \in Entries, lock'[e] # None
               PROVE  \/ tx'[lock'[e]].op = "remove" /\ tx'[lock'[e]].entry = e
                      \/ /\ tx'[lock'[e]].pc = "update"
                         /\ \E k \in 1..(tx'[lock'[e]].i - 1) : tx'[lock'[e]].ids[k] = e
    BY DEF LocksOK
  <2> QED  BY <1>4 DEF LocksOK
<1>7. RequestOK(r)'
  BY <1>1, IdleView DEF RequestOK, Idle
<1>8. AloneOK(r)'
  BY <1>1 DEF AloneOK, Idle
<1>9. ASSUME NEW q \in Requests \ {r} PROVE RequestOK(q)' /\ AloneOK(q)'
  <2>1. TypeOK /\ RequestOK(q) /\ AloneOK(q) /\ tx'[q] = tx[q]  BY <1>1
  <2>2. ASSUME NEW e \in Entries, lock[e] = q
        PROVE  lock'[e] = q /\ row'[e].list = row[e].list
    BY <1>2, <2>2, NoneIsNone
  <2>3. ASSUME NEW k \in 1..Len(tx[q].ids)
        PROVE  row'[tx[q].ids[k]].list \in {None, tx[q].list}
    <3>1. PICK e \in Entries : e = tx[q].ids[k]  BY TypeView
    <3>2. k \in DOMAIN tx[q].ids  BY TypeView, LenProperties
    <3>3. row[e].list \in {None, tx[q].list}  BY <2>1, <3>1 DEF RequestOK
    <3>4. row'[e].list \in {None, tx[q].list}  BY <3>1, <3>2, <3>3
    <3> QED  BY <3>1, <3>4
  <2>4. ASSUME alone'[q]
        PROVE  /\ alone[q]
               /\ \A e \in Entries :
                    row'[e] = row[e] \/ tx[q].list \notin {row[e].list, row'[e].list}
    BY <2>1, <2>4
  <2> HIDE DEF IInv, Ends, OwnRows
  <2> QED  BY <2>1, <2>2, <2>3, <2>4, OtherKept
<1> QED  BY <1>5, <1>6, <1>7, <1>8, <1>9

LEMMA RollbackKeeps ==
  ASSUME IInv, NEW r \in Requests, Rollback(r)
  PROVE  IInv'
<1>1. \A q \in Requests : alone'[q] = (alone[q] /\ tx'[q].list \notin {} \cup {None})
  BY DEF Rollback, Touched
<1>2. alone' \in [Requests -> BOOLEAN]
  BY DEF Rollback, Touched, IInv, TypeOK
<1>3. PICK rows \in [Entries -> Row] : rows = row  BY DEF IInv, TypeOK
<1>4. Ends(r, None)  BY <1>1, <1>2 DEF Rollback, Ends
<1>5. row' = rows /\ OwnRows(rows, r, None)  BY <1>3 DEF Rollback, OwnRows
<1> QED  BY <1>4, <1>5, EndKeeps

LEMMA CommitKeeps ==
  ASSUME IInv, NEW r \in Requests, NEW rows \in [Entries -> Row], Commit(r, rows),
         NEW L \in Lists, L = tx[r].list, OwnRows(rows, r, L)
  PROVE  IInv'
<1>1. \A q \in Requests : alone'[q] = (alone[q] /\ tx'[q].list \notin {L} \cup {None})
  BY DEF Commit, Touched
<1>2. alone' \in [Requests -> BOOLEAN]
  BY DEF Commit, Touched, IInv, TypeOK
<1>3. Ends(r, L) /\ row' = rows  BY <1>1, <1>2 DEF Commit, Ends
<1> QED  BY <1>3, EndKeeps

(* A step of r that leaves the rows as they are and takes at most locks.    *)
LEMMA SelfKeeps ==
  ASSUME IInv, NEW r \in Requests,
         tx' \in [Requests -> Tx], \A q \in Requests \ {r} : tx'[q] = tx[q],
         lists' = lists, row' = row, songs' = songs, granted' = granted,
         alone' \in [Requests -> BOOLEAN], \A q \in Requests \ {r} : alone'[q] = alone[q],
         lock' \in [Entries -> Requests \cup {None}],
         \A e \in Entries :
           lock'[e] = lock[e] \/ (lock[e] \in {None, r} /\ lock'[e] = r /\ e \in Live),
         \A e \in Entries :
           lock'[e] = r =>
             /\ tx'[r].pc \in {"read", "update"}
             /\ \/ tx'[r].op = "remove" /\ tx'[r].entry = e
                \/ /\ tx'[r].pc = "update"
                   /\ \E k \in 1..(tx'[r].i - 1) : tx'[r].ids[k] = e,
         RequestOK(r)', AloneOK(r)'
  PROVE  IInv'
<1> USE DEF IInv
<1>1. ASSUME NEW e \in Entries, lock'[e] # None, lock'[e] # r
      PROVE  /\ lock'[e] = lock[e] /\ lock[e] \in Requests \ {r}
             /\ tx'[lock[e]] = tx[lock[e]]
  <2>1. lock'[e] = lock[e] /\ lock[e] \in Requests \ {r}  BY <1>1
  <2> QED  BY <2>1
<1>2. Live' = Live /\ Existing' = Existing  BY DEF Live, Existing
<1>3. TypeOK'
  <2>1. ASSUME NEW e \in Entries, lock'[e] # None
        PROVE  e \in Live' /\ tx'[lock'[e]].pc \in {"read", "update"}
    <3>1. ASSUME lock'[e] # r PROVE e \in Live' /\ tx'[lock'[e]].pc \in {"read", "update"}
      <4>1. lock'[e] = lock[e] /\ tx'[lock[e]] = tx[lock[e]]  BY <1>1, <2>1, <3>1
      <4> QED  BY <1>2, <2>1, <4>1 DEF TypeOK
    <3>2. ASSUME lock'[e] = r PROVE e \in Live' /\ tx'[lock'[e]].pc \in {"read", "update"}
      BY <1>2, <2>1, <3>2 DEF TypeOK
    <3> QED  BY <3>1, <3>2
  <2>2. \A e \in Live' : row'[e].list \in Existing' /\ row'[e].song \in songs'
    BY <1>2 DEF TypeOK
  <2> QED  BY <2>1, <2>2 DEF TypeOK
<1>4. LocksOK'
  <2> SUFFICES ASSUME NEW e \in Entries, lock'[e] # None, lock'[e] # r
               PROVE  \/ tx'[lock'[e]].op = "remove" /\ tx'[lock'[e]].entry = e
                      \/ /\ tx'[lock'[e]].pc = "update"
                         /\ \E k \in 1..(tx'[lock'[e]].i - 1) : tx'[lock'[e]].ids[k] = e
    BY DEF LocksOK
  <2>1. lock'[e] = lock[e] /\ tx'[lock[e]] = tx[lock[e]] /\ lock[e] # None  BY <1>1
  <2> QED  BY <2>1 DEF LocksOK
<1>5. ASSUME NEW q \in Requests \ {r} PROVE RequestOK(q)' /\ AloneOK(q)'
  <2>1. TypeOK /\ RequestOK(q) /\ AloneOK(q) /\ tx'[q] = tx[q] /\ alone'[q] = alone[q]
    OBVIOUS
  <2>2. \A e \in Entries : lock[e] = q => lock'[e] = q /\ row'[e].list = row[e].list
    BY NoneIsNone
  <2>3. \A k \in 1..Len(tx[q].ids) : row'[tx[q].ids[k]].list \in {None, tx[q].list}
    BY <2>1 DEF RequestOK
  <2> HIDE DEF IInv
  <2> QED  BY <2>1, <2>2, <2>3, OtherKept
<1> QED  BY <1>3, <1>4, <1>5

LEMMA NewListView ==
  ASSUME TypeOK, NEW l \in FreshLists, NEW origin, NEW tracks \in Seq(songs),
         NewList(l, origin, tracks)
  PROVE  /\ l \in Lists /\ lists[l] = None /\ \A q \in Requests : tx[q].list # l
         /\ lists' = [lists EXCEPT ![l] = origin]
         /\ row' \in [Entries -> Row]
         /\ \A e \in Entries :
              \/ row'[e] = row[e]
              \/ /\ row[e].list = None /\ row'[e].list = l /\ row'[e].song \in songs
                 /\ \A q \in Requests : \A k \in DOMAIN tx[q].ids : tx[q].ids[k] # e
<1>1. l \in Lists /\ lists[l] = None /\ \A q \in Requests : tx[q].list # l
  BY DEF FreshLists
<1>2. tracks \in Seq(Songs) /\ Len(tracks) \in Nat /\ Range(tracks) \subseteq songs
  <2>1. /\ Len(tracks) \in Nat /\ DOMAIN tracks = 1..Len(tracks)
        /\ tracks \in [1..Len(tracks) -> songs]
    BY LenProperties
  <2>2. \A i \in 1..Len(tracks) : tracks[i] \in songs /\ tracks[i] \in Songs
    BY <2>1 DEF TypeOK
  <2>3. tracks \in [1..Len(tracks) -> Songs]  BY <2>1, <2>2
  <2> QED  BY <2>1, <2>2, <2>3, SeqDef DEF Range
<1>3. PICK ids \in FreshIds(Len(tracks)) :
        lists' = [lists EXCEPT ![l] = origin] /\ row' = WithRows(l, ids, tracks, 0)
  BY DEF NewList
<1> QED  BY <1>1, <1>2, <1>3, RowsView

(* A playlist appears with its rows; a request that made it is over.        *)
LEMMA NewListKeeps ==
  ASSUME IInv, NEW l \in FreshLists, NEW origin \in {"user", "file"},
         NEW tracks \in Seq(songs), NewList(l, origin, tracks),
         tx' \in [Requests -> Tx],
         \A q \in Requests : tx'[q] = tx[q] \/ (tx[q].pc = "create" /\ tx'[q] = Idle),
         songs' = songs, granted' = granted, lock' = lock, alone' = alone
  PROVE  IInv'
<1> USE DEF IInv
<1>1. l \in Lists /\ lists[l] = None /\ \A q \in Requests : tx[q].list # l
  BY NewListView
<1>2. lists' = [lists EXCEPT ![l] = origin]  BY NewListView
<1>3. /\ row' \in [Entries -> Row]
      /\ \A e \in Entries :
           \/ row'[e] = row[e]
           \/ /\ row[e].list = None /\ row'[e].list = l /\ row'[e].song \in songs
              /\ \A q \in Requests : \A k \in DOMAIN tx[q].ids : tx[q].ids[k] # e
  BY NewListView
<1>4. /\ lists' \in [Lists -> {None, "user", "file"}] /\ lists'[l] # None
      /\ \A m \in Lists : lists[m] # None => lists'[m] # None
  BY <1>1, <1>2, NoneIsNone DEF TypeOK
<1>5. ASSUME NEW e \in Entries, lock[e] # None
      PROVE  /\ lock[e] \in Requests /\ tx'[lock[e]] = tx[lock[e]] /\ row'[e] = row[e]
             /\ e \in Live /\ e \in Live'
  BY <1>3, <1>5 DEF TypeOK, Live
<1>6. TypeOK'
  <2>1. ASSUME NEW e \in Live' PROVE row'[e].list \in Existing' /\ row'[e].song \in songs'
    <3>1. e \in Entries /\ row'[e].list # None  BY <2>1 DEF Live
    <3>2. ASSUME row'[e] = row[e] PROVE row[e].list \in Existing /\ row[e].song \in songs
      BY <3>1, <3>2 DEF TypeOK, Live
    <3>3. row'[e].list \in Lists /\ lists'[row'[e].list] # None /\ row'[e].song \in songs
      BY <1>1, <1>3, <1>4, <3>1, <3>2 DEF Existing
    <3> QED  BY <3>3 DEF Existing
  <2>2. \A e \in Entries : lock'[e] # None =>
          e \in Live' /\ tx'[lock'[e]].pc \in {"read", "update"}
    BY <1>5 DEF TypeOK
  <2> QED  BY <1>3, <1>4, <2>1, <2>2 DEF TypeOK
<1>7. LocksOK'
  <2> SUFFICES ASSUME NEW e \in Entries, lock'[e] # None
               PROVE  \/ tx'[lock'[e]].op = "remove" /\ tx'[lock'[e]].entry = e
                      \/ /\ tx'[lock'[e]].pc = "update"
                         /\ \E k \in 1..(tx'[lock'[e]].i - 1) : tx'[lock'[e]].ids[k] = e
    BY DEF LocksOK
  <2> QED  BY <1>5 DEF LocksOK
<1>8. ASSUME NEW q \in Requests, tx'[q] = tx[q] PROVE RequestOK(q)' /\ AloneOK(q)'
  <2>1. TypeOK /\ RequestOK(q) /\ AloneOK(q)
    OBVIOUS
  <2>2. \A e \in Entries : lock[e] = q => lock'[e] = q /\ row'[e].list = row[e].list
    BY <1>5, NoneIsNone
  <2>3. ASSUME NEW k \in 1..Len(tx[q].ids)
        PROVE  row'[tx[q].ids[k]].list \in {None, tx[q].list}
    <3>1. PICK e \in Entries : e = tx[q].ids[k]  BY TypeView
    <3>2. k \in DOMAIN tx[q].ids  BY TypeView, LenProperties
    <3>3. row'[e] = row[e]  BY <1>3, <3>1, <3>2
    <3> QED  BY <2>1, <3>1, <3>3 DEF RequestOK
  <2>4. ASSUME alone'[q]
        PROVE  /\ alone[q]
               /\ \A e \in Entries :
                    row'[e] = row[e] \/ tx[q].list \notin {row[e].list, row'[e].list}
    <3>1. tx[q].list # None /\ tx[q].list # l  BY <1>1, <2>1, <2>4 DEF AloneOK, RequestOK
    <3> QED  BY <1>3, <2>4, <3>1
  <2> HIDE DEF IInv
  <2> QED  BY <1>8, <2>1, <2>2, <2>3, <2>4, OtherKept
<1>9. ASSUME NEW q \in Requests, tx[q].pc = "create", tx'[q] = Idle
       PROVE  RequestOK(q)' /\ AloneOK(q)'
  <2>1. RequestOK(q)'  BY <1>9, IdleView DEF RequestOK, Idle
  <2>2. AloneOK(q)'  BY <1>9 DEF AloneOK
  <2> QED  BY <2>1, <2>2
<1> QED  BY <1>6, <1>7, <1>8, <1>9

(* Rows go with their playlist or their song.                               *)
LEMMA CascadeKeeps ==
  ASSUME IInv, NEW S \in SUBSET Entries, Cascade(S),
         tx' = tx, lock' = lock, granted' = granted, songs' \subseteq Songs,
         lists' \in [Lists -> {None, "user", "file"}],
         \A e \in Live \ S : lists'[row[e].list] # None /\ row[e].song \in songs'
  PROVE  IInv'
<1> USE DEF IInv
<1>1. /\ \A e \in S : lock[e] = None
      /\ row' = [e \in Entries |-> IF e \in S THEN NoRow ELSE row[e]]
      /\ alone' = [r \in Requests |->
                     alone[r] /\ tx'[r].list \notin {row[e].list : e \in S} \cup {None}]
  BY DEF Cascade, Touched
<1>2. row' \in [Entries -> Row]  BY <1>1 DEF TypeOK, NoRow, Row
<1>3. \A e \in Entries : row'[e] = IF e \in S THEN NoRow ELSE row[e]  BY <1>1
<1>4. ASSUME NEW e \in Live' PROVE e \in Live \ S /\ row'[e] = row[e]
  BY <1>3, <1>4 DEF Live, NoRow
<1>5. TypeOK'
  <2>1. ASSUME NEW e \in Live' PROVE row'[e].list \in Existing' /\ row'[e].song \in songs'
    <3>1. row[e].list \in Lists  BY <1>4, <2>1 DEF TypeOK, Existing
    <3>2. lists'[row[e].list] # None /\ row[e].song \in songs'  BY <1>4, <2>1
    <3>3. row'[e] = row[e]  BY <1>4, <2>1
    <3> QED  BY <3>1, <3>2, <3>3 DEF Existing
  <2>2. ASSUME NEW e \in Entries, lock'[e] # None
        PROVE  e \in Live' /\ tx'[lock'[e]].pc \in {"read", "update"}
    <3>1. e \notin S /\ row'[e] = row[e]  BY <1>1, <1>3, <2>2
    <3> QED  BY <2>2, <3>1 DEF TypeOK, Live
  <2>3. alone' \in [Requests -> BOOLEAN]  BY <1>1 DEF TypeOK
  <2> QED  BY <1>2, <2>1, <2>2, <2>3 DEF TypeOK
<1>6. LocksOK'  BY DEF LocksOK
<1>7. ASSUME NEW q \in Requests PROVE RequestOK(q)' /\ AloneOK(q)'
  <2>1. TypeOK /\ RequestOK(q) /\ AloneOK(q) /\ tx'[q] = tx[q]
    OBVIOUS
  <2>2. ASSUME NEW e \in Entries, lock[e] = q
        PROVE  lock'[e] = q /\ row'[e].list = row[e].list
    BY <1>1, <1>3, <2>2, NoneIsNone
  <2>3. ASSUME NEW k \in 1..Len(tx[q].ids)
        PROVE  row'[tx[q].ids[k]].list \in {None, tx[q].list}
    <3>1. PICK e \in Entries : e = tx[q].ids[k]  BY TypeView
    <3>2. row[e].list \in {None, tx[q].list}  BY <2>1, <3>1 DEF RequestOK
    <3>3. row'[e].list \in {None, tx[q].list}  BY <1>3, <3>2 DEF NoRow
    <3> QED  BY <3>1, <3>3
  <2>4. ASSUME alone'[q]
        PROVE  /\ alone[q]
               /\ \A e \in Entries :
                    row'[e] = row[e] \/ tx[q].list \notin {row[e].list, row'[e].list}
    <3>1. alone[q] /\ tx[q].list # None /\ \A e \in S : tx[q].list # row[e].list
      BY <1>1, <2>1, <2>4
    <3> QED  BY <1>3, <3>1 DEF NoRow
  <2> HIDE DEF IInv
  <2> QED  BY <2>1, <2>2, <2>3, <2>4, OtherKept
<1> QED  BY <1>5, <1>6, <1>7

-----------------------------------------------------------------------------
(* The steps of a request.                                                  *)

(* What PICK gives for the tracks of a playlist in order.                   *)
LEMMA OrderView ==
  ASSUME TypeOK, NEW r \in Requests, NEW o \in Ordered(Tracks(tx[r].list) \ {tx[r].entry})
  PROVE  /\ o \in Seq(Entries) /\ Len(o) \in Nat /\ Distinct(o)
         /\ \A k \in 1..Len(o) : o[k] \in Tracks(tx[r].list) /\ o[k] # tx[r].entry
         /\ Range(o) = Tracks(tx[r].list) \ {tx[r].entry}
         /\ o \in Sorted(row, TracksIn(row, tx[r].list) \ {tx[r].entry})
<1> DEFINE S == Tracks(tx[r].list) \ {tx[r].entry}
<1>1. IsFiniteSet(S) /\ S \subseteq Entries
  <2>1. S \subseteq Entries  BY TracksFinite
  <2> QED  BY <2>1, FS_Subset, PlaylistsAssumption
<1>2. o \in Sorted(row, S)  BY OrderedIsSorted
<1> HIDE DEF S
<1>3. /\ o \in Seq(S) /\ o \in [1..Len(o) -> S] /\ Len(o) \in Nat
      /\ Distinct(o) /\ Range(o) = S
  BY <1>1, <1>2, SortedView
<1>4. \A k \in 1..Len(o) : o[k] \in S /\ o[k] \in Entries  BY <1>1, <1>3
<1>5. o \in [1..Len(o) -> Entries]  BY <1>3, <1>4
<1>6. o \in Seq(Entries)  BY <1>3, <1>5, SeqDef
<1> QED  BY <1>2, <1>3, <1>4, <1>6, TracksAreIn DEF S

(* What the reordering makes of an order is one of the same tracks.         *)
LEMMA MovedIsOrder ==
  ASSUME NEW S, NEW s \in Seq(S), Distinct(s), NEW from \in Nat, NEW to \in Nat,
         from < Len(s), to < Len(s)
  PROVE  /\ Moved(s, from, to) \in Seq(S) /\ Len(Moved(s, from, to)) = Len(s)
         /\ Distinct(Moved(s, from, to)) /\ Range(Moved(s, from, to)) = Range(s)
<1> DEFINE n == Len(s)
           m == Moved(s, from, to)
<1>1. n \in Nat /\ DOMAIN s = 1..n  BY LenProperties
<1>2. m \in Seq(S) /\ Len(m) = n /\ \A k \in 1..n : m[k] = s[Source(k, from, to)]
  BY MovedView
<1>3. DOMAIN m = 1..n
  <2> HIDE DEF m
  <2> QED  BY <1>2, LenProperties
<1>4. from < n /\ to < n
  OBVIOUS
<1> HIDE DEF n, m
<1>5. Rearranges(n, from, to)  BY <1>1, <1>4, SourceView
<1>6. /\ \A k \in 1..n : Source(k, from, to) \in 1..n /\ Source(k, to, from) \in 1..n
      /\ \A k \in 1..n : Source(Source(k, to, from), from, to) = k
      /\ \A j, k \in 1..n : Source(j, from, to) = Source(k, from, to) => j = k
  <2>1. \A k \in 1..n : Source(Source(k, from, to), to, from) = k  BY <1>5 DEF Rearranges
  <2> QED  BY <1>5, <2>1 DEF Rearranges
<1>7. Distinct(m)  BY <1>1, <1>2, <1>3, <1>6 DEF Distinct
<1>8. Range(m) = Range(s)
  <2>1. ASSUME NEW k \in 1..n PROVE m[k] \in Range(s)
    BY <1>1, <1>2, <1>6 DEF Range
  <2>2. ASSUME NEW k \in 1..n PROVE s[k] \in Range(m)
    <3>1. Source(k, to, from) \in 1..n /\ m[Source(k, to, from)] = s[k]  BY <1>2, <1>6
    <3> QED  BY <1>3, <3>1 DEF Range
  <2> QED  BY <1>1, <1>3, <2>1, <2>2 DEF Range
<1> QED  BY <1>2, <1>7, <1>8 DEF m, n

(* New songs get the positions after the last.                              *)
LEMMA StartView ==
  ASSUME TypeOK, NEW l
  PROVE  StartOf(l) \in Nat /\ \A e \in Tracks(l) : row[e].position < StartOf(l)
<1> DEFINE P == {row[e].position : e \in Tracks(l)}
<1>1. \A e \in Tracks(l) : row[e].position \in Nat  BY TracksFinite DEF TypeOK, Row
<1>2. P \in SUBSET Nat /\ IsFiniteSet(P)
  <2>1. P \in SUBSET Nat  BY <1>1
  <2> DEFINE f == [e \in Tracks(l) |-> row[e].position]
  <2>2. f \in Surjection(Tracks(l), P)  BY DEF Surjection
  <2>3. IsFiniteSet(Tracks(l))  BY TracksFinite
  <2> HIDE DEF f, P
  <2> QED  BY <2>1, <2>2, <2>3, FS_Surjection
<1>3. ASSUME Tracks(l) # {} PROVE StartOf(l) \in Nat /\ \A p \in P : p < StartOf(l)
  <2>1. P # {} /\ StartOf(l) = Max(P) + 1  BY <1>3 DEF StartOf
  <2> HIDE DEF P
  <2>2. Max(P) \in P /\ \A p \in P : p <= Max(P)  BY <1>2, <2>1, MaxView
  <2>3. PICK m \in Nat : m = Max(P)  BY <1>2, <2>2
  <2>4. \A p \in P : p \in Nat /\ p <= m  BY <1>2, <2>2, <2>3
  <2> QED  BY <2>1, <2>3, <2>4
<1>4. ASSUME Tracks(l) = {} PROVE StartOf(l) \in Nat
  BY <1>4 DEF StartOf
<1> QED  BY <1>3, <1>4

LEMMA SongsView ==
  ASSUME TypeOK, NEW n \in Nat, NEW s \in Allowed(n)
  PROVE  s \in Seq(Songs) /\ Len(s) = n
<1>1. s \in [1..n -> songs \cap granted]  BY DEF Allowed
<1>2. \A i \in 1..n : s[i] \in Songs  BY <1>1 DEF TypeOK
<1>3. s \in [1..n -> Songs]  BY <1>1, <1>2
<1> QED  BY <1>3, SeqDef, LenProperties

LEMMA AskKeeps ==
  ASSUME IInv, NEW r \in Requests,
         CheckCreate(r) \/ CheckAdd(r) \/ AskRemove(r) \/ CheckReorder(r)
  PROVE  IInv'
<1> USE PlaylistsAssumption, NoneIsNone
<1>1. TypeOK  BY DEF IInv
<1>2. CASE CheckCreate(r)
  <2>1. PICK n \in 0..MaxAdd : \E s \in Allowed(n) :
          Begin(r, [Idle EXCEPT !.pc = "create", !.op = "create", !.songs = s])
    BY <1>2 DEF CheckCreate
  <2>2. PICK s \in Allowed(n) :
          Begin(r, [Idle EXCEPT !.pc = "create", !.op = "create", !.songs = s])
    BY <2>1
  <2>3. s \in Seq(Songs)  BY <1>1, SongsView
  <2> DEFINE t == [Idle EXCEPT !.pc = "create", !.op = "create", !.songs = s]
  <2>4. /\ t \in Tx /\ t.pc = "create" /\ t.op = "create" /\ t.entry = None /\ t.ids = <<>>
    BY <2>3, IdleView DEF Tx
  <2>5. Begin(r, t)  BY <2>2
  <2> HIDE DEF t
  <2> QED  BY <2>4, <2>5, BeginKeeps
<1>3. CASE CheckAdd(r)
  <2>1. PICK l \in Existing : \E n \in 1..MaxAdd : \E s \in Allowed(n) :
          Begin(r, [Idle EXCEPT !.pc = "start", !.op = "add", !.list = l, !.songs = s])
    BY <1>3 DEF CheckAdd
  <2>2. PICK n \in 1..MaxAdd : \E s \in Allowed(n) :
          Begin(r, [Idle EXCEPT !.pc = "start", !.op = "add", !.list = l, !.songs = s])
    BY <2>1
  <2>3. PICK s \in Allowed(n) :
          Begin(r, [Idle EXCEPT !.pc = "start", !.op = "add", !.list = l, !.songs = s])
    BY <2>2
  <2>4. s \in Seq(Songs) /\ l \in Lists /\ l # None  BY <1>1, SongsView DEF Existing
  <2> DEFINE t == [Idle EXCEPT !.pc = "start", !.op = "add", !.list = l, !.songs = s]
  <2>5. /\ t \in Tx /\ t.pc = "start" /\ t.op = "add" /\ t.entry = None /\ t.ids = <<>>
        /\ t.list # None
    BY <2>4, IdleView DEF Tx
  <2>6. Begin(r, t)  BY <2>3
  <2> HIDE DEF t
  <2> QED  BY <2>5, <2>6, BeginKeeps
<1>4. CASE AskRemove(r)
  <2>1. PICK l \in Existing : \E e \in Tracks(l) :
          Begin(r, [Idle EXCEPT !.pc = "delete", !.op = "remove", !.list = l, !.entry = e])
    BY <1>4 DEF AskRemove
  <2>2. PICK e \in Entries :
          Begin(r, [Idle EXCEPT !.pc = "delete", !.op = "remove", !.list = l, !.entry = e])
    BY <2>1, TracksFinite
  <2> DEFINE t == [Idle EXCEPT !.pc = "delete", !.op = "remove", !.list = l, !.entry = e]
  <2>3. /\ t \in Tx /\ t.pc = "delete" /\ t.op = "remove" /\ t.entry = e /\ t.ids = <<>>
        /\ t.list # None /\ e # None
    BY IdleView DEF Tx, Existing
  <2>4. Begin(r, t)  BY <2>2
  <2> HIDE DEF t
  <2> QED  BY <2>3, <2>4, BeginKeeps
<1>5. CASE CheckReorder(r)
  <2>1. PICK l \in Existing, from \in Nat, to \in Nat :
          Begin(r, [Idle EXCEPT !.pc = "read", !.op = "reorder", !.list = l,
                                !.from = from, !.to = to])
    <3>1. PICK l \in Existing : \E from, to \in 0..(Cardinality(Visible(l)) - 1) :
            Begin(r, [Idle EXCEPT !.pc = "read", !.op = "reorder", !.list = l,
                                  !.from = from, !.to = to])
      BY <1>5 DEF CheckReorder
    <3>2. Cardinality(Visible(l)) \in Nat
      <4>1. Visible(l) \subseteq Entries  BY TracksFinite DEF Visible
      <4> QED  BY <4>1, FS_Subset, FS_CardinalityType
    <3>3. \A i \in 0..(Cardinality(Visible(l)) - 1) : i \in Nat  BY <3>2
    <3> QED  BY <3>1, <3>3
  <2> DEFINE t == [Idle EXCEPT !.pc = "read", !.op = "reorder", !.list = l,
                               !.from = from, !.to = to]
  <2>3. /\ t \in Tx /\ t.pc = "read" /\ t.op = "reorder" /\ t.entry = None /\ t.ids = <<>>
        /\ t.list # None
    BY IdleView DEF Tx, Existing
  <2>4. Begin(r, t)  BY <2>1
  <2> HIDE DEF t
  <2> QED  BY <2>3, <2>4, BeginKeeps
<1> QED  BY <1>2, <1>3, <1>4, <1>5

LEMMA CreateView ==
  ASSUME IInv, NEW r \in Requests, CreateList(r), ~Rollback(r)
  PROVE  /\ \E l \in FreshLists, tracks \in Seq(songs) : NewList(l, "user", tracks)
         /\ tx[r].pc = "create" /\ tx' = [tx EXCEPT ![r] = Idle]
         /\ songs' = songs /\ granted' = granted /\ lock' = lock /\ alone' = alone
<1>1. /\ tx[r].pc = "create" /\ Range(tx[r].songs) \subseteq songs
      /\ \E l \in FreshLists : NewList(l, "user", tx[r].songs)
      /\ tx' = [tx EXCEPT ![r] = Idle]
      /\ songs' = songs /\ granted' = granted /\ lock' = lock /\ alone' = alone
  BY DEF CreateList
<1>2. tx[r].songs \in Seq(songs)
  <2>1. /\ tx[r].songs \in [1..Len(tx[r].songs) -> Songs] /\ Len(tx[r].songs) \in Nat
        /\ DOMAIN tx[r].songs = 1..Len(tx[r].songs)
    BY TypeView, LenProperties DEF IInv
  <2>2. \A i \in 1..Len(tx[r].songs) : tx[r].songs[i] \in songs  BY <1>1, <2>1 DEF Range
  <2>3. tx[r].songs \in [1..Len(tx[r].songs) -> songs]  BY <2>1, <2>2
  <2> QED  BY <2>1, <2>3, SeqDef
<1> QED  BY <1>1, <1>2

LEMMA CreateKeeps ==
  ASSUME IInv, NEW r \in Requests, CreateList(r)
  PROVE  IInv'
<1>1. CASE Rollback(r)  BY <1>1, RollbackKeeps
<1>2. CASE ~Rollback(r)
  <2>1. /\ tx[r].pc = "create" /\ tx' = [tx EXCEPT ![r] = Idle]
        /\ songs' = songs /\ granted' = granted /\ lock' = lock /\ alone' = alone
    BY <1>2, CreateView
  <2>2. PICK l \in FreshLists, tracks \in Seq(songs) : NewList(l, "user", tracks)
    BY <1>2, CreateView
  <2>3. /\ tx' \in [Requests -> Tx]
        /\ \A q \in Requests : tx'[q] = tx[q] \/ (tx[q].pc = "create" /\ tx'[q] = Idle)
    BY <2>1, IdleView DEF IInv, TypeOK
  <2> QED  BY <2>1, <2>2, <2>3, NewListKeeps
<1> QED  BY <1>1, <1>2

LEMMA ReadStartKeeps ==
  ASSUME IInv, NEW r \in Requests, ReadStart(r)
  PROVE  IInv'
<1>1. CASE Rollback(r)  BY <1>1, RollbackKeeps
<1>2. CASE ~Rollback(r)
  <2>1. PICK start \in Nat : /\ start = StartOf(tx[r].list)
                             /\ \A e \in Tracks(tx[r].list) : row[e].position < start
    BY StartView DEF IInv
  <2>2. /\ tx[r].pc = "start"
        /\ tx' = [tx EXCEPT ![r].start = start, ![r].pc = "insert"]
        /\ alone' = [alone EXCEPT ![r] = TRUE]
        /\ lists' = lists /\ row' = row /\ songs' = songs /\ granted' = granted
        /\ lock' = lock
    BY <1>2, <2>1 DEF ReadStart
  <2>3. /\ tx'[r] = [tx[r] EXCEPT !.start = start, !.pc = "insert"]
        /\ \A q \in Requests \ {r} : tx'[q] = tx[q]
    BY <2>2 DEF IInv, TypeOK
  <2>4. /\ tx'[r].pc = "insert" /\ tx'[r].op = tx[r].op /\ tx'[r].list = tx[r].list
        /\ tx'[r].entry = tx[r].entry /\ tx'[r].start = start /\ tx'[r].ids = tx[r].ids
        /\ tx'[r] \in Tx
    BY <2>3, TypeView DEF IInv, Tx
  <2>5. tx' \in [Requests -> Tx]  BY <2>2, <2>3, <2>4 DEF IInv, TypeOK
  <2>6. RequestOK(r)'
    <3>1. RequestOK(r)  BY DEF IInv
    <3>2. tx[r].op = "add" /\ tx[r].list # None  BY <2>2, <3>1 DEF RequestOK
    <3> QED  BY <2>2, <2>4, <3>1, <3>2 DEF RequestOK
  <2>7. Current(row', tx'[r])  BY <2>1, <2>2, <2>4, TracksAreIn DEF Current
  <2>8. AloneOK(r)'  BY <2>4, <2>7 DEF AloneOK
  <2>9. /\ alone' \in [Requests -> BOOLEAN]
        /\ \A q \in Requests \ {r} : alone'[q] = alone[q]
    BY <2>2 DEF IInv, TypeOK
  <2>10. \A e \in Entries : lock'[e] = lock[e] /\ lock'[e] # r
    BY <2>2, NoneIsNone DEF IInv, TypeOK
  <2>11. lock' \in [Entries -> Requests \cup {None}]  BY <2>2 DEF IInv, TypeOK
  <2> QED  BY <2>2, <2>3, <2>5, <2>6, <2>8, <2>9, <2>10, <2>11, SelfKeeps
<1> QED  BY <1>1, <1>2

(* What an insertion writes.                                                *)
LEMMA InsertRows ==
  ASSUME IInv, NEW r \in Requests, InsertTracks(r), ~Rollback(r)
  PROVE  /\ tx[r].pc = "insert" /\ tx[r].list \in Existing
         /\ \E rows \in [Entries -> Row] :
              /\ Commit(r, rows) /\ OwnRows(rows, r, tx[r].list)
              /\ \A e \in Entries :
                   rows[e] # row[e] => row[e].list = None /\ rows[e].position >= tx[r].start
<1>1. PICK ids \in FreshIds(Len(tx[r].songs)) :
        Commit(r, WithRows(tx[r].list, ids, tx[r].songs, tx[r].start))
  BY DEF InsertTracks
<1>2. /\ tx[r].pc = "insert" /\ lists[tx[r].list] # None
      /\ Range(tx[r].songs) \subseteq songs
  BY DEF InsertTracks
<1>3. PICK L \in Lists : L = tx[r].list /\ L # None /\ L \in Existing
  <2>1. RequestOK(r) /\ TypeOK  BY DEF IInv
  <2>2. tx[r].list # None  BY <1>2, <2>1 DEF RequestOK
  <2> QED  BY <1>2, <2>1, <2>2, TypeView DEF Existing
<1>4. /\ Len(tx[r].songs) \in Nat /\ tx[r].songs \in Seq(Songs) /\ tx[r].start \in Nat
      /\ TypeOK
  BY TypeView DEF IInv
<1> DEFINE rows == WithRows(tx[r].list, ids, tx[r].songs, tx[r].start)
<1>5. /\ rows \in [Entries -> Row]
      /\ \A e \in Entries :
           \/ rows[e] = row[e]
           \/ /\ row[e].list = None
              /\ \A q \in Requests : \A k \in DOMAIN tx[q].ids : tx[q].ids[k] # e
              /\ rows[e].list = L /\ rows[e].song \in Range(tx[r].songs)
              /\ rows[e].position >= tx[r].start
  BY <1>1, <1>3, <1>4, RowsView
<1>6. \A e \in Entries : row[e].list = None => lock[e] = None  BY <1>4 DEF TypeOK, Live
<1>7. Commit(r, rows)  BY <1>1
<1> HIDE DEF rows
<1>8. OwnRows(rows, r, tx[r].list)  BY <1>2, <1>3, <1>5, <1>6 DEF OwnRows
<1> QED  BY <1>2, <1>3, <1>5, <1>7, <1>8

LEMMA InsertKeeps ==
  ASSUME IInv, NEW r \in Requests, InsertTracks(r)
  PROVE  IInv'
<1>1. CASE Rollback(r)  BY <1>1, RollbackKeeps
<1>2. CASE ~Rollback(r)
  <2>1. tx[r].list \in Existing  BY <1>2, InsertRows
  <2>2. PICK L \in Lists : L = tx[r].list  BY <2>1 DEF Existing
  <2>3. PICK rows \in [Entries -> Row] : Commit(r, rows) /\ OwnRows(rows, r, L)
    BY <1>2, <2>2, InsertRows
  <2> QED  BY <2>2, <2>3, CommitKeeps
<1> QED  BY <1>1, <1>2

LEMMA DeleteTrackKeeps ==
  ASSUME IInv, NEW r \in Requests, DeleteTrack(r)
  PROVE  IInv'
<1>1. CASE Rollback(r)  BY <1>1, RollbackKeeps
<1>2. CASE ~Rollback(r)
  <2>0. TypeOK /\ RequestOK(r) /\ AloneOK(r)  BY DEF IInv
  <2>1. PICK e : e = tx[r].entry
    OBVIOUS
  <2>2. /\ tx[r].pc = "delete" /\ lock[e] = None /\ e \in Tracks(tx[r].list)
        /\ lock' = [lock EXCEPT ![e] = r]
        /\ tx' = [tx EXCEPT ![r].pc = "read"]
        /\ lists' = lists /\ row' = row /\ songs' = songs /\ granted' = granted
        /\ alone' = alone
    BY <1>2, <2>1 DEF DeleteTrack
  <2>3. e \in Entries /\ e \in Live /\ row[e].list = tx[r].list  BY <2>2 DEF Tracks, Live
  <2>4. /\ tx'[r] = [tx[r] EXCEPT !.pc = "read"]
        /\ \A q \in Requests \ {r} : tx'[q] = tx[q]
    BY <2>0, <2>2 DEF TypeOK
  <2>5. /\ tx'[r].pc = "read" /\ tx'[r].op = tx[r].op /\ tx'[r].list = tx[r].list
        /\ tx'[r].entry = e /\ tx'[r].ids = tx[r].ids /\ tx'[r] \in Tx
    BY <2>0, <2>1, <2>4, TypeView DEF Tx
  <2>6. tx' \in [Requests -> Tx]  BY <2>0, <2>2, <2>4, <2>5 DEF TypeOK
  <2>7. tx[r].op = "remove" /\ tx[r].list # None  BY <2>0, <2>2 DEF RequestOK
  <2>8. /\ lock' \in [Entries -> Requests \cup {None}]
        /\ \A d \in Entries : lock'[d] = IF d = e THEN r ELSE lock[d]
    BY <2>0, <2>2, <2>3 DEF TypeOK
  <2>9. RequestOK(r)'  BY <2>0, <2>1, <2>2, <2>3, <2>5, <2>7, <2>8 DEF RequestOK
  <2>10. ~alone[r]  BY <2>0, <2>2 DEF AloneOK
  <2>11. AloneOK(r)'  BY <2>2, <2>10 DEF AloneOK
  <2>12. \A d \in Entries : d # e => lock[d] # r  BY <2>0, <2>2, NoneIsNone DEF TypeOK
  <2>13. \A d \in Entries :
           lock'[d] = lock[d] \/ (lock[d] \in {None, r} /\ lock'[d] = r /\ d \in Live)
    BY <2>2, <2>3, <2>8
  <2>14. \A d \in Entries : lock'[d] = r => d = e  BY <2>8, <2>12
  <2>15. alone' \in [Requests -> BOOLEAN] /\ \A q \in Requests \ {r} : alone'[q] = alone[q]
    BY <2>0, <2>2 DEF TypeOK
  <2> QED
    BY <2>2, <2>4, <2>5, <2>6, <2>7, <2>8, <2>9, <2>11, <2>13, <2>14, <2>15, SelfKeeps
<1> QED  BY <1>1, <1>2

(* What a request reads of the order of its playlist.                       *)
LEMMA ReadIdsView ==
  ASSUME IInv, NEW r \in Requests, ReadIds(r), ~Rollback(r)
  PROVE  /\ tx[r].pc = "read"
         /\ \E o \in Ordered(Tracks(tx[r].list) \ {tx[r].entry}), ids \in Seq(Entries) :
              /\ IF tx[r].op = "remove" THEN ids = o
                 ELSE /\ tx[r].from < Len(o) /\ tx[r].to < Len(o)
                      /\ ids = Moved(o, tx[r].from, tx[r].to)
              /\ tx' = [tx EXCEPT ![r].ids = ids, ![r].i = 1, ![r].pc = "update"]
              /\ Distinct(ids) /\ Len(ids) = Len(o) /\ Range(ids) = Range(o)
         /\ alone' = [alone EXCEPT ![r] = TRUE]
         /\ lists' = lists /\ row' = row /\ songs' = songs /\ granted' = granted
         /\ lock' = lock
<1>1. PICK o \in Ordered(Tracks(tx[r].list) \ {tx[r].entry}) :
        IF tx[r].op = "remove"
        THEN /\ tx' = [tx EXCEPT ![r].ids = o, ![r].i = 1, ![r].pc = "update"]
             /\ alone' = [alone EXCEPT ![r] = TRUE]
             /\ UNCHANGED <<lists, row, songs, granted, lock>>
        ELSE /\ tx[r].from < Len(o) /\ tx[r].to < Len(o)
             /\ tx' = [tx EXCEPT ![r].ids = Moved(o, tx[r].from, tx[r].to),
                                 ![r].i = 1, ![r].pc = "update"]
             /\ alone' = [alone EXCEPT ![r] = TRUE]
             /\ UNCHANGED <<lists, row, songs, granted, lock>>
  BY DEF ReadIds
<1>2. o \in Seq(Entries) /\ Distinct(o)  BY OrderView DEF IInv
<1>3. ASSUME tx[r].op # "remove"
      PROVE  LET ids == Moved(o, tx[r].from, tx[r].to) IN
             /\ ids \in Seq(Entries) /\ Distinct(ids) /\ Len(ids) = Len(o)
             /\ Range(ids) = Range(o)
  BY <1>1, <1>2, <1>3, TypeView, MovedIsOrder DEF IInv
<1>4. /\ alone' = [alone EXCEPT ![r] = TRUE]
      /\ lists' = lists /\ row' = row /\ songs' = songs /\ granted' = granted
      /\ lock' = lock
  BY <1>1
<1>5. tx[r].pc = "read"  BY DEF ReadIds
<1>6. CASE tx[r].op = "remove"  BY <1>1, <1>2, <1>4, <1>5, <1>6
<1>7. CASE tx[r].op # "remove"
  <2>1. PICK ids \in Seq(Entries) : ids = Moved(o, tx[r].from, tx[r].to)  BY <1>3, <1>7
  <2>2. tx' = [tx EXCEPT ![r].ids = ids, ![r].i = 1, ![r].pc = "update"]
    BY <1>1, <1>7, <2>1
  <2> QED  BY <1>1, <1>3, <1>4, <1>5, <1>7, <2>1, <2>2
<1> QED  BY <1>6, <1>7

LEMMA ReadIdsKeeps ==
  ASSUME IInv, NEW r \in Requests, ReadIds(r)
  PROVE  IInv'
<1>1. CASE Rollback(r)  BY <1>1, RollbackKeeps
<1>2. CASE ~Rollback(r)
  <2>0. TypeOK /\ RequestOK(r) /\ AloneOK(r)  BY DEF IInv
  <2>1. /\ tx[r].pc = "read" /\ alone' = [alone EXCEPT ![r] = TRUE]
        /\ lists' = lists /\ row' = row /\ songs' = songs /\ granted' = granted
        /\ lock' = lock
    BY <1>2, ReadIdsView
  <2>2. PICK o \in Ordered(Tracks(tx[r].list) \ {tx[r].entry}), ids \in Seq(Entries) :
          /\ IF tx[r].op = "remove" THEN ids = o
             ELSE /\ tx[r].from < Len(o) /\ tx[r].to < Len(o)
                  /\ ids = Moved(o, tx[r].from, tx[r].to)
          /\ tx' = [tx EXCEPT ![r].ids = ids, ![r].i = 1, ![r].pc = "update"]
          /\ Distinct(ids) /\ Len(ids) = Len(o) /\ Range(ids) = Range(o)
    BY <1>2, ReadIdsView
  <2>3. /\ tx'[r] = [tx[r] EXCEPT !.ids = ids, !.i = 1, !.pc = "update"]
        /\ \A q \in Requests \ {r} : tx'[q] = tx[q]
    BY <2>0, <2>2 DEF TypeOK
  <2>4. /\ tx'[r].pc = "update" /\ tx'[r].op = tx[r].op /\ tx'[r].list = tx[r].list
        /\ tx'[r].entry = tx[r].entry /\ tx'[r].ids = ids /\ tx'[r].i = 1
        /\ tx'[r].from = tx[r].from /\ tx'[r].to = tx[r].to /\ tx'[r] \in Tx
    <3>1. tx[r] \in Tx  BY <2>0, TypeView
    <3>2. tx'[r] \in Tx
      <4>1. PICK t \in Tx : t = tx[r]  BY <3>1
      <4>2. [t EXCEPT !.ids = ids, !.i = 1, !.pc = "update"] \in Tx  BY DEF Tx
      <4> QED  BY <2>3, <4>1, <4>2
    <3>3. /\ tx'[r].pc = "update" /\ tx'[r].op = tx[r].op /\ tx'[r].list = tx[r].list
          /\ tx'[r].entry = tx[r].entry /\ tx'[r].ids = ids /\ tx'[r].i = 1
          /\ tx'[r].from = tx[r].from /\ tx'[r].to = tx[r].to
      BY <2>3, <3>1 DEF Tx
    <3> QED  BY <3>2, <3>3
  <2>5. tx' \in [Requests -> Tx]  BY <2>0, <2>2, <2>3, <2>4 DEF TypeOK
  <2>6. /\ tx[r].list # None /\ tx[r].op \in {"remove", "reorder"}
        /\ tx[r].op = "remove" =>
             lock[tx[r].entry] = r /\ row[tx[r].entry].list = tx[r].list
        /\ (tx[r].entry # None) <=> (tx[r].op = "remove")
    BY <2>0, <2>1 DEF RequestOK
  <2>7. \A k \in 1..Len(ids) : ids[k] # tx[r].entry /\ row[ids[k]].list = tx[r].list
    <3> TAKE k \in 1..Len(ids)
    <3>1. ids[k] \in Range(ids)  BY LenProperties DEF Range
    <3>2. ids[k] \in Tracks(tx[r].list) \ {tx[r].entry}  BY <2>0, <2>2, <3>1, OrderView
    <3> QED  BY <3>2 DEF Tracks
  <2>8. RequestOK(r)'
    <3>1. Len(ids) \in Nat  BY LenProperties
    <3>2. 1 \in 1..(Len(ids) + 1)  BY <3>1
    <3> QED  BY <2>1, <2>2, <2>4, <2>6, <2>7, <3>2 DEF RequestOK
  <2>9. Planned(tx'[r], o)
    BY <2>2, <2>4 DEF Planned
  <2>10. Current(row', tx'[r])
    <3>1. o \in Sorted(row, TracksIn(row, tx[r].list) \ {tx[r].entry})  BY <2>0, OrderView
    <3> QED  BY <2>1, <2>4, <2>9, <3>1 DEF Current
  <2>11. AloneOK(r)'
    <3>1. \A k \in 1..(tx'[r].i - 1) : FALSE  BY <2>4
    <3> QED  BY <2>4, <2>10, <3>1 DEF AloneOK
  <2>12. \A e \in Entries : lock'[e] = r => tx[r].op = "remove" /\ tx[r].entry = e
    <3>1. \A e \in Entries : lock[e] = r => tx[r].op = "remove" /\ tx[r].entry = e
      <4>1. LocksOK /\ tx[r].pc # "update"  BY <2>1 DEF IInv
      <4> QED  BY <4>1, NoneIsNone DEF LocksOK
    <3> QED  BY <2>1, <3>1
  <2>13. /\ alone' \in [Requests -> BOOLEAN]
         /\ \A q \in Requests \ {r} : alone'[q] = alone[q]
         /\ lock' \in [Entries -> Requests \cup {None}]
    BY <2>0, <2>1 DEF TypeOK
  <2> QED
    BY <2>1, <2>3, <2>4, <2>5, <2>8, <2>11, <2>12, <2>13, SelfKeeps
<1> QED  BY <1>1, <1>2

(* While r has read the order alone, the ids are the tracks of the playlist *)
(* but the one it removes.                                                  *)
LEMMA PlannedView ==
  ASSUME IInv, NEW r \in Requests, alone[r], tx[r].pc = "update"
  PROVE  /\ \A k \in 1..Len(tx[r].ids) : tx[r].ids[k] \in Tracks(tx[r].list)
         /\ \A e \in Tracks(tx[r].list) :
              e # tx[r].entry => \E k \in 1..Len(tx[r].ids) : tx[r].ids[k] = e
<1>1. TypeOK /\ AloneOK(r)  BY DEF IInv
<1>2. PICK o \in Sorted(row, TracksIn(row, tx[r].list) \ {tx[r].entry}) : Planned(tx[r], o)
  BY <1>1 DEF AloneOK, Current
<1>3. o \in Ordered(Tracks(tx[r].list) \ {tx[r].entry})  BY OrderedIsSorted, TracksAreIn
<1>4. o \in Seq(Entries) /\ Distinct(o) /\ Range(o) = Tracks(tx[r].list) \ {tx[r].entry}
  BY <1>1, <1>3, OrderView
<1>5. Range(tx[r].ids) = Range(o)
  <2>1. CASE tx[r].op = "remove"  BY <1>2, <2>1 DEF Planned
  <2>2. CASE tx[r].op # "remove"
    <3>1. /\ tx[r].from < Len(o) /\ tx[r].to < Len(o)
          /\ tx[r].ids = Moved(o, tx[r].from, tx[r].to)
      BY <1>2, <2>2 DEF Planned
    <3> QED  BY <1>1, <1>4, <3>1, MovedIsOrder, TypeView
  <2> QED  BY <2>1, <2>2
<1>6. DOMAIN tx[r].ids = 1..Len(tx[r].ids)  BY <1>1, TypeView, LenProperties
<1> QED  BY <1>4, <1>5, <1>6 DEF Range

LEMMA UpdateKeeps ==
  ASSUME IInv, NEW r \in Requests, UpdatePosition(r)
  PROVE  IInv'
<1>0. TypeOK /\ RequestOK(r) /\ AloneOK(r) /\ LocksOK  BY DEF IInv
<1>1. PICK e : e = tx[r].ids[tx[r].i]
  OBVIOUS
<1>2. /\ tx[r].pc = "update" /\ tx[r].i <= Len(tx[r].ids) /\ ~Waits(r)
      /\ lock' = IF e \in Live THEN [lock EXCEPT ![e] = r] ELSE lock
      /\ tx' = [tx EXCEPT ![r].i = tx[r].i + 1]
      /\ lists' = lists /\ row' = row /\ songs' = songs /\ granted' = granted
      /\ alone' = alone
  <2>1. tx' = [tx EXCEPT ![r].i = tx[r].i + 1]  BY <1>0 DEF UpdatePosition, TypeOK
  <2> QED  BY <1>1, <2>1 DEF UpdatePosition
<1>3. /\ tx[r].i \in 1..Len(tx[r].ids) /\ e \in Entries /\ tx[r].i \in Nat
      /\ Len(tx[r].ids) \in Nat
  BY <1>0, <1>1, <1>2, TypeView DEF RequestOK
<1>4. lock[e] \in {None, r}
  <2>1. Holder(r) = lock[e]  BY <1>1, <1>2 DEF Holder
  <2> QED  BY <1>2, <2>1 DEF Waits
<1>5. /\ tx'[r] = [tx[r] EXCEPT !.i = tx[r].i + 1]
      /\ \A q \in Requests \ {r} : tx'[q] = tx[q]
  BY <1>0, <1>2 DEF TypeOK
<1>6. /\ tx'[r].pc = "update" /\ tx'[r].op = tx[r].op /\ tx'[r].list = tx[r].list
      /\ tx'[r].entry = tx[r].entry /\ tx'[r].ids = tx[r].ids /\ tx'[r].i = tx[r].i + 1
      /\ tx'[r].from = tx[r].from /\ tx'[r].to = tx[r].to /\ tx'[r] \in Tx
  <2>1. tx[r] \in Tx  BY <1>0, TypeView
  <2>2. tx'[r] \in Tx
    <3>1. PICK t \in Tx : t = tx[r]  BY <2>1
    <3>2. tx[r].i + 1 \in Nat  BY <1>3
    <3>3. \A i \in Nat : [t EXCEPT !.i = i] \in Tx  BY DEF Tx
    <3> QED  BY <1>5, <3>1, <3>2, <3>3
  <2>3. /\ tx'[r].pc = tx[r].pc /\ tx'[r].op = tx[r].op /\ tx'[r].list = tx[r].list
        /\ tx'[r].entry = tx[r].entry /\ tx'[r].ids = tx[r].ids
        /\ tx'[r].i = tx[r].i + 1
        /\ tx'[r].from = tx[r].from /\ tx'[r].to = tx[r].to
    BY <1>5, <2>1 DEF Tx
  <2> QED  BY <1>2, <2>2, <2>3
<1>7. tx' \in [Requests -> Tx]  BY <1>0, <1>2, <1>5, <1>6 DEF TypeOK
<1>8. /\ lock' \in [Entries -> Requests \cup {None}]
      /\ \A d \in Entries : lock'[d] = IF d = e /\ e \in Live THEN r ELSE lock[d]
  <2>1. CASE e \in Live  BY <1>0, <1>2, <1>3, <2>1 DEF TypeOK
  <2>2. CASE e \notin Live  BY <1>0, <1>2, <2>2 DEF TypeOK
  <2> QED  BY <2>1, <2>2
<1>9. \A d \in Entries :
        lock'[d] = lock[d] \/ (lock[d] \in {None, r} /\ lock'[d] = r /\ d \in Live)
  BY <1>4, <1>8
<1>10. ASSUME NEW d \in Entries, lock'[d] = r
       PROVE  \/ tx'[r].op = "remove" /\ tx'[r].entry = d
              \/ /\ tx'[r].pc = "update"
                 /\ \E k \in 1..(tx'[r].i - 1) : tx'[r].ids[k] = d
  <2>1. ASSUME d = e PROVE tx'[r].pc = "update" /\ \E k \in 1..(tx'[r].i - 1) : tx'[r].ids[k] = d
    <3>1. tx[r].i \in 1..(tx'[r].i - 1) /\ tx'[r].ids[tx[r].i] = d
      BY <1>1, <1>3, <1>6, <2>1
    <3> QED  BY <1>6, <3>1
  <2>2. ASSUME d # e
        PROVE  \/ tx'[r].op = "remove" /\ tx'[r].entry = d
               \/ /\ tx'[r].pc = "update"
                  /\ \E k \in 1..(tx'[r].i - 1) : tx'[r].ids[k] = d
    <3>1. lock[d] = r  BY <1>8, <1>10, <2>2
    <3>2. \/ tx[r].op = "remove" /\ tx[r].entry = d
          \/ tx[r].pc = "update" /\ \E k \in 1..(tx[r].i - 1) : tx[r].ids[k] = d
      BY <1>0, <3>1, NoneIsNone DEF LocksOK
    <3>3. \A k \in 1..(tx[r].i - 1) : k \in 1..(tx'[r].i - 1)  BY <1>3, <1>6
    <3> QED  BY <1>6, <3>2, <3>3
  <2> QED  BY <2>1, <2>2
<1>11. RequestOK(r)'
  <2>1. tx'[r].i \in 1..(Len(tx'[r].ids) + 1)  BY <1>3, <1>6
  <2>2. tx[r].op = "remove" =>
          /\ lock'[tx[r].entry] = r /\ row'[tx[r].entry].list = tx[r].list
    <3> SUFFICES ASSUME tx[r].op = "remove"
                 PROVE  lock'[tx[r].entry] = r /\ row'[tx[r].entry].list = tx[r].list
      OBVIOUS
    <3>1. /\ tx[r].entry # None /\ lock[tx[r].entry] = r
          /\ row[tx[r].entry].list = tx[r].list
      BY <1>0, <1>2 DEF RequestOK
    <3>2. tx[r].entry \in Entries  BY <1>0, <3>1, TypeView
    <3> QED  BY <1>2, <1>8, <3>1, <3>2
  <2> QED  BY <1>0, <1>2, <1>6, <2>1, <2>2 DEF RequestOK
<1>12. AloneOK(r)'
  <2> SUFFICES ASSUME alone[r]
               PROVE  /\ Current(row', tx'[r])
                      /\ \A k \in 1..(tx'[r].i - 1) : lock'[tx'[r].ids[k]] = r
    BY <1>2, <1>6 DEF AloneOK
  <2>1. Current(row', tx'[r])
    <3>1. PICK o \in Sorted(row, TracksIn(row, tx[r].list) \ {tx[r].entry}) : Planned(tx[r], o)
      BY <1>0, <1>2 DEF AloneOK, Current
    <3>2. Planned(tx'[r], o)  BY <1>6, <3>1 DEF Planned
    <3> QED  BY <1>2, <1>6, <3>1, <3>2 DEF Current
  <2>2. e \in Live
    <3>1. e \in Tracks(tx[r].list)  BY <1>1, <1>2, <1>3, PlannedView
    <3> QED  BY <3>1 DEF Tracks
  <2>3. ASSUME NEW k \in 1..(tx'[r].i - 1) PROVE lock'[tx'[r].ids[k]] = r
    <3>1. k \in 1..tx[r].i /\ k \in 1..Len(tx[r].ids)  BY <1>3, <1>6
    <3>2. tx[r].ids[k] \in Entries  BY <1>0, <3>1, TypeView
    <3>3. ASSUME k # tx[r].i PROVE lock[tx[r].ids[k]] = r
      <4>1. k \in 1..(tx[r].i - 1)  BY <1>3, <3>1, <3>3
      <4> QED  BY <1>0, <1>2, <4>1 DEF AloneOK
    <3> QED  BY <1>1, <1>6, <1>8, <2>2, <3>2, <3>3
  <2> QED  BY <2>1, <2>3
<1>13. alone' \in [Requests -> BOOLEAN] /\ \A q \in Requests \ {r} : alone'[q] = alone[q]
  BY <1>0, <1>2 DEF TypeOK
<1> QED
  BY <1>2, <1>5, <1>6, <1>7, <1>8, <1>9, <1>10, <1>11, <1>12, <1>13, SelfKeeps

(* What the commit of a removal or a reordering writes.                     *)
LEMMA WrittenView ==
  ASSUME IInv, NEW r \in Requests, CommitPositions(r)
  PROVE  /\ tx[r].pc = "update" /\ tx[r].list \in Lists
         /\ Written(r) \in [Entries -> Row] /\ Commit(r, Written(r))
         /\ \A e \in Entries : lock[e] # r => Written(r)[e] = row[e]
         /\ \A e \in Entries : lock[e] = r =>
              e = tx[r].entry \/ \E k \in 1..Len(tx[r].ids) : tx[r].ids[k] = e
         /\ \A e \in Entries : lock[e] = r /\ e = tx[r].entry => Written(r)[e] = NoRow
         /\ \A k \in 1..Len(tx[r].ids) :
              lock[tx[r].ids[k]] = r =>
                /\ Written(r)[tx[r].ids[k]].list = row[tx[r].ids[k]].list
                /\ Written(r)[tx[r].ids[k]].song = row[tx[r].ids[k]].song
                /\ Written(r)[tx[r].ids[k]].position = k - 1
         /\ OwnRows(Written(r), r, tx[r].list)
<1>0. TypeOK /\ RequestOK(r) /\ LocksOK  BY DEF IInv
<1>1. /\ tx[r].pc = "update" /\ tx[r].i > Len(tx[r].ids) /\ Commit(r, Written(r))
      /\ tx[r].i \in 1..(Len(tx[r].ids) + 1) /\ tx[r].list \in Lists
      /\ Len(tx[r].ids) \in Nat /\ DOMAIN tx[r].ids = 1..Len(tx[r].ids)
      /\ Distinct(tx[r].ids) /\ tx[r].i \in Nat
  BY <1>0, TypeView, LenProperties DEF CommitPositions, RequestOK
<1>2. PICK w : w = Written(r)
  OBVIOUS
<1>3. \A e \in Entries : w[e] = IF lock[e] # r THEN row[e]
                               ELSE IF e = tx[r].entry THEN NoRow
                               ELSE [row[e] EXCEPT !.position = Index(tx[r].ids, e) - 1]
  BY <1>2 DEF Written
<1>4. ASSUME NEW e \in Entries, lock[e] = r
      PROVE  e = tx[r].entry \/ \E k \in 1..Len(tx[r].ids) : tx[r].ids[k] = e
  <2>1. \/ tx[r].op = "remove" /\ tx[r].entry = e
        \/ tx[r].pc = "update" /\ \E k \in 1..(tx[r].i - 1) : tx[r].ids[k] = e
    BY <1>0, <1>4, NoneIsNone DEF LocksOK
  <2>2. tx[r].i - 1 = Len(tx[r].ids)  BY <1>1
  <2> QED  BY <2>1, <2>2
<1>5. \A k \in 1..Len(tx[r].ids) :
        /\ tx[r].ids[k] \in Entries /\ tx[r].ids[k] # tx[r].entry
        /\ Index(tx[r].ids, tx[r].ids[k]) = k
        /\ row[tx[r].ids[k]].list \in {None, tx[r].list}
  BY <1>0, <1>1, TypeView, IndexView DEF RequestOK
<1>6. \A e \in Entries : row[e] \in Row  BY <1>0 DEF TypeOK
<1>7. ASSUME NEW k \in 1..Len(tx[r].ids), NEW e \in Entries, e = tx[r].ids[k], lock[e] = r
      PROVE  /\ w[e].list = row[e].list /\ w[e].song = row[e].song
             /\ w[e].position = k - 1 /\ w[e] \in Row
  <2>1. w[e] = [row[e] EXCEPT !.position = k - 1]
    <3>1. e # tx[r].entry /\ Index(tx[r].ids, e) = k  BY <1>5, <1>7
    <3> QED  BY <1>3, <1>7, <3>1
  <2>2. k - 1 \in Nat  BY <1>1
  <2>3. PICK old \in Row : old = row[e]  BY <1>6
  <2>4. w[e] = [old EXCEPT !.position = k - 1]  BY <2>1, <2>3
  <2> QED  BY <2>2, <2>3, <2>4 DEF Row
<1>8. \A e \in Entries : w[e] \in Row
  <2> TAKE e \in Entries
  <2>1. NoRow \in Row  BY DEF NoRow, Row
  <2> QED  BY <1>3, <1>4, <1>6, <1>7, <2>1
<1>9. w \in [Entries -> Row]
  <2>1. w = [e \in Entries |-> w[e]]  BY <1>2 DEF Written
  <2> QED  BY <1>8, <2>1
<1>10. tx[r].list # None  BY <1>1, NoneIsNone
<1>11. ASSUME NEW e \in Entries, lock[e] = r
       PROVE  /\ row[e].list = tx[r].list /\ w[e].list \in {None, tx[r].list}
              /\ tx[r].list \in Existing
              /\ w[e].list = tx[r].list => w[e].song \in songs
  <2>1. row[e].list # None /\ row[e].list \in Existing /\ row[e].song \in songs
    BY <1>0, <1>11, NoneIsNone DEF TypeOK, Live
  <2>2. ASSUME e = tx[r].entry
        PROVE  /\ row[e].list = tx[r].list /\ w[e].list = None
    <3>1. tx[r].op = "remove"  BY <1>0, <2>2, NoneIsNone DEF RequestOK
    <3>2. row[tx[r].entry].list = tx[r].list  BY <1>0, <1>1, <3>1 DEF RequestOK
    <3>3. w[e] = NoRow  BY <1>3, <1>11, <2>2
    <3> QED  BY <2>2, <3>2, <3>3 DEF NoRow
  <2>3. ASSUME NEW k \in 1..Len(tx[r].ids), tx[r].ids[k] = e
        PROVE  /\ row[e].list = tx[r].list /\ w[e].list = row[e].list /\ w[e].song = row[e].song
    BY <1>5, <1>7, <1>11, <2>1, <2>3
  <2> QED  BY <1>4, <1>10, <1>11, <2>1, <2>2, <2>3
<1>12. OwnRows(w, r, tx[r].list)  BY <1>3, <1>10, <1>11 DEF OwnRows
<1> QED  BY <1>1, <1>2, <1>3, <1>4, <1>5, <1>7, <1>9, <1>12

LEMMA CommitPositionsKeeps ==
  ASSUME IInv, NEW r \in Requests, CommitPositions(r)
  PROVE  IInv'
<1>1. PICK L \in Lists, w \in [Entries -> Row] : L = tx[r].list /\ w = Written(r)
  BY WrittenView
<1>2. Commit(r, w) /\ OwnRows(w, r, L)  BY <1>1, WrittenView
<1> QED  BY <1>1, <1>2, CommitKeeps

LEMMA StepKeeps ==
  ASSUME IInv, NEW r \in Requests, Step(r)
  PROVE  IInv'
<1>1. CASE CheckCreate(r) \/ CheckAdd(r) \/ AskRemove(r) \/ CheckReorder(r)
  BY <1>1, AskKeeps
<1>2. CASE CreateList(r)  BY <1>2, CreateKeeps
<1>3. CASE ReadStart(r)  BY <1>3, ReadStartKeeps
<1>4. CASE InsertTracks(r)  BY <1>4, InsertKeeps
<1>5. CASE DeleteTrack(r)  BY <1>5, DeleteTrackKeeps
<1>6. CASE ReadIds(r)  BY <1>6, ReadIdsKeeps
<1>7. CASE UpdatePosition(r)  BY <1>7, UpdateKeeps
<1>8. CASE CommitPositions(r)  BY <1>8, CommitPositionsKeeps
<1>9. CASE DeadlockVictim(r) \/ Abandon(r)
  BY <1>9, RollbackKeeps DEF DeadlockVictim, Abandon
<1> QED  BY <1>1, <1>2, <1>3, <1>4, <1>5, <1>6, <1>7, <1>8, <1>9 DEF Step

-----------------------------------------------------------------------------
(* The other steps.                                                         *)

(* The songs of the file that are known make a playlist of songs that exist. *)
LEMMA ImportView ==
  ASSUME Import
  PROVE  \E l \in FreshLists, tracks \in Seq(songs) : NewList(l, "file", tracks)
<1> DEFINE known == {i \in DOMAIN File : File[i] \in songs}
           n == Cardinality(known)
<1>1. PICK at \in [1..n -> known], l \in FreshLists :
        NewList(l, "file", [i \in DOMAIN at |-> File[at[i]]])
  BY DEF Import
<1>2. n \in Nat
  <2>1. DOMAIN File = 1..Len(File) /\ Len(File) \in Nat
    BY PlaylistsAssumption, LenProperties
  <2>2. known \subseteq 1..Len(File) /\ IsFiniteSet(1..Len(File))  BY <2>1, FS_Interval
  <2> HIDE DEF known
  <2> QED  BY <2>2, FS_Subset, FS_CardinalityType
<1> DEFINE tracks == [i \in DOMAIN at |-> File[at[i]]]
<1>3. tracks \in Seq(songs)
  <2>1. \A i \in 1..n : at[i] \in known  BY <1>1
  <2>2. \A i \in 1..n : File[at[i]] \in songs  BY <2>1
  <2>3. DOMAIN at = 1..n  BY <1>1
  <2>4. tracks \in [1..n -> songs]  BY <2>2, <2>3
  <2> QED  BY <1>2, <2>4, SeqDef
<1>4. NewList(l, "file", tracks)  BY <1>1
<1> HIDE DEF tracks
<1> QED  BY <1>3, <1>4

LEMMA ImportKeeps ==
  ASSUME IInv, Import
  PROVE  IInv'
<1>1. PICK l \in FreshLists, tracks \in Seq(songs) : NewList(l, "file", tracks)
  BY ImportView
<1>2. /\ songs' = songs /\ granted' = granted /\ tx' = tx /\ lock' = lock /\ alone' = alone
  BY DEF Import
<1>3. tx' \in [Requests -> Tx] /\ \A q \in Requests : tx'[q] = tx[q]
  BY <1>2 DEF IInv, TypeOK
<1> QED  BY <1>1, <1>2, <1>3, NewListKeeps

LEMMA DeletePlaylistKeeps ==
  ASSUME IInv, NEW l \in Lists, DeletePlaylist(l)
  PROVE  IInv'
<1>1. /\ lists' = [lists EXCEPT ![l] = None] /\ Cascade(Tracks(l))
      /\ songs' = songs /\ granted' = granted /\ tx' = tx /\ lock' = lock
  BY DEF DeletePlaylist
<1>2. lists' \in [Lists -> {None, "user", "file"}]  BY <1>1 DEF IInv, TypeOK
<1>3. ASSUME NEW e \in Live \ Tracks(l)
      PROVE  lists'[row[e].list] # None /\ row[e].song \in songs
  <2>1. row[e].list # l /\ row[e].list \in Existing /\ row[e].song \in songs
    BY <1>3 DEF IInv, TypeOK, Tracks
  <2> QED  BY <1>1, <2>1 DEF IInv, TypeOK, Existing
<1>4. PICK S \in SUBSET Entries : S = Tracks(l)  BY TracksFinite
<1>5. Cascade(S)  BY <1>1, <1>4
<1>6. songs' \subseteq Songs  BY <1>1 DEF IInv, TypeOK
<1> QED  BY <1>1, <1>2, <1>3, <1>4, <1>5, <1>6, CascadeKeeps

LEMMA DropSongKeeps ==
  ASSUME IInv, NEW s \in Songs, DropSong(s)
  PROVE  IInv'
<1>1. PICK S \in SUBSET Entries : S = {e \in Live : row[e].song = s}  BY DEF Live
<1>2. /\ songs' = songs \ {s} /\ Cascade(S)
      /\ lists' = lists /\ granted' = granted /\ tx' = tx /\ lock' = lock
  BY <1>1 DEF DropSong
<1>3. lists' \in [Lists -> {None, "user", "file"}] /\ songs' \subseteq Songs
  BY <1>2 DEF IInv, TypeOK
<1>4. ASSUME NEW e \in Live \ S
      PROVE  lists'[row[e].list] # None /\ row[e].song \in songs'
  <2>1. row[e].song # s /\ row[e].list \in Existing /\ row[e].song \in songs
    BY <1>1, <1>4 DEF IInv, TypeOK
  <2> QED  BY <1>2, <2>1 DEF Existing
<1> QED  BY <1>2, <1>3, <1>4, CascadeKeeps

LEMMA ScanSongKeeps ==
  ASSUME IInv, NEW s \in Songs, ScanSong(s)
  PROVE  IInv'
<1>1. /\ songs' = songs \cup {s} /\ lists' = lists /\ row' = row /\ granted' = granted
      /\ tx' = tx /\ lock' = lock /\ alone' = alone
  BY DEF ScanSong
<1>2. Live' = Live /\ Existing' = Existing  BY <1>1 DEF Live, Existing
<1>3. TypeOK'  BY <1>1, <1>2 DEF IInv, TypeOK
<1>4. LocksOK'  BY <1>1 DEF IInv, LocksOK
<1>5. ASSUME NEW q \in Requests PROVE RequestOK(q)' /\ AloneOK(q)'
  BY <1>1 DEF IInv, RequestOK, AloneOK
<1> QED  BY <1>3, <1>4, <1>5 DEF IInv

LEMMA ChangeGrantKeeps ==
  ASSUME IInv, NEW s \in Songs, ChangeGrant(s)
  PROVE  IInv'
<1>1. /\ granted' = IF s \in granted THEN granted \ {s} ELSE granted \cup {s}
      /\ lists' = lists /\ row' = row /\ songs' = songs /\ tx' = tx /\ lock' = lock
      /\ alone' = [r \in Requests |-> alone[r] /\ tx'[r].list \notin Lists \cup {None}]
  BY DEF ChangeGrant, Touched
<1>2. Live' = Live /\ Existing' = Existing  BY <1>1 DEF Live, Existing
<1>3. TypeOK'  BY <1>1, <1>2 DEF IInv, TypeOK
<1>4. LocksOK'  BY <1>1 DEF IInv, LocksOK
<1>5. ASSUME NEW q \in Requests PROVE RequestOK(q)' /\ AloneOK(q)'
  <2>1. tx'[q].list \in Lists \cup {None}  BY <1>1, TypeView DEF IInv
  <2>2. ~alone'[q]  BY <1>1, <2>1
  <2> QED  BY <1>1, <2>2 DEF IInv, RequestOK, AloneOK
<1> QED  BY <1>3, <1>4, <1>5 DEF IInv

-----------------------------------------------------------------------------
(* The invariant.                                                           *)

LEMMA InvInit == Init => IInv
<1> SUFFICES ASSUME Init PROVE IInv
  OBVIOUS
<1>1. /\ tx = [r \in Requests |-> Idle] /\ lock = [e \in Entries |-> None]
      /\ alone = [r \in Requests |-> FALSE] /\ songs = Songs /\ granted = Songs
  BY DEF Init
<1>2. tx \in [Requests -> Tx]  BY <1>1, IdleView
<1>3. /\ lists \in [Lists -> {None, "user", "file"}] /\ row \in [Entries -> Row]
      /\ \A e \in Live : row[e].list \in Existing /\ row[e].song \in songs
  <2>1. CASE lists = [l \in Lists |-> None] /\ row = [e \in Entries |-> NoRow]
    BY <1>1, <2>1 DEF NoRow, Row, Live
  <2>2. ASSUME NEW l \in Lists, NEW d \in Entries, NEW s \in Songs, NEW n \in 1..MaxPosition,
               lists = [m \in Lists |-> IF m = l THEN "user" ELSE None],
               row = [e \in Entries |-> IF e = d THEN Left(l, s, n) ELSE NoRow]
        PROVE  /\ lists \in [Lists -> {None, "user", "file"}] /\ row \in [Entries -> Row]
               /\ \A e \in Live : row[e].list \in Existing /\ row[e].song \in songs
    <3>1. n \in Nat  BY PlaylistsAssumption
    <3>2. Left(l, s, n) \in Row /\ NoRow \in Row  BY <3>1 DEF Left, NoRow, Row
    <3>3. \A e \in Live : row[e] = Left(l, s, n)  BY <2>2 DEF Live, NoRow
    <3>4. lists[l] # None  BY <2>2, NoneIsNone
    <3> QED  BY <1>1, <2>2, <3>2, <3>3, <3>4 DEF Left, Existing
  <2> QED  BY <2>1, <2>2 DEF Init
<1>4. TypeOK  BY <1>1, <1>2, <1>3 DEF TypeOK
<1>5. LocksOK  BY <1>1 DEF LocksOK
<1>6. \A r \in Requests : RequestOK(r) /\ AloneOK(r)
  <2> TAKE r \in Requests
  <2>1. tx[r] = Idle /\ ~alone[r]  BY <1>1
  <2>2. RequestOK(r)  BY <2>1, IdleView DEF RequestOK, Idle
  <2> QED  BY <2>1, <2>2 DEF AloneOK
<1> QED  BY <1>4, <1>5, <1>6 DEF IInv

LEMMA InvStep == IInv /\ [Next]_vars => IInv'
<1> SUFFICES ASSUME IInv, [Next]_vars PROVE IInv'
  OBVIOUS
<1>1. CASE UNCHANGED vars
  BY <1>1 DEF vars, IInv, TypeOK, Live, Existing, LocksOK, RequestOK, AloneOK
<1>2. ASSUME NEW r \in Requests, Step(r) PROVE IInv'  BY <1>2, StepKeeps
<1>3. CASE Import  BY <1>3, ImportKeeps
<1>4. ASSUME NEW l \in Lists, DeletePlaylist(l) PROVE IInv'  BY <1>4, DeletePlaylistKeeps
<1>5. ASSUME NEW s \in Songs, DropSong(s) PROVE IInv'  BY <1>5, DropSongKeeps
<1>6. ASSUME NEW s \in Songs, ScanSong(s) PROVE IInv'  BY <1>6, ScanSongKeeps
<1>7. ASSUME NEW s \in Hideable, ChangeGrant(s) PROVE IInv'
  <2>1. s \in Songs  BY PlaylistsAssumption
  <2> QED  BY <1>7, <2>1, ChangeGrantKeeps
<1> QED  BY <1>1, <1>2, <1>3, <1>4, <1>5, <1>6, <1>7 DEF Next

LEMMA InvHolds == Spec => []IInv
BY InvInit, InvStep, PTL DEF Spec

(* Rows have their types and belong to playlists and songs that exist, and only *)
(* a request that is writing holds locks: foreign keys and row locks in every   *)
(* interleaving of the requests of store/playlists.go.                          *)
THEOREM RowsBelong == Spec => []TypeOK
<1>1. IInv => TypeOK  BY DEF IInv
<1> QED  BY <1>1, InvHolds, PTL

-----------------------------------------------------------------------------
(* No request makes another one's entries vanish.                           *)

(* The steps that leave the rows as they are.                               *)
LEMMA RowsStay ==
  ASSUME NEW r \in Requests,
         \/ CheckCreate(r) \/ CheckAdd(r) \/ ReadStart(r)
         \/ AskRemove(r) \/ DeleteTrack(r) \/ CheckReorder(r)
         \/ ReadIds(r) \/ UpdatePosition(r) \/ DeadlockVictim(r) \/ Abandon(r) \/ Rollback(r)
  PROVE  row' = row
<1>1. CASE CheckCreate(r) \/ CheckAdd(r) \/ AskRemove(r) \/ CheckReorder(r)
  BY <1>1 DEF CheckCreate, CheckAdd, AskRemove, CheckReorder, Begin
<1>2. CASE ReadStart(r) \/ DeleteTrack(r)  BY <1>2 DEF ReadStart, DeleteTrack, Rollback
<1>3. CASE ReadIds(r) \/ UpdatePosition(r)  BY <1>3 DEF ReadIds, UpdatePosition, Rollback
<1>4. CASE DeadlockVictim(r) \/ Abandon(r) \/ Rollback(r)
  BY <1>4 DEF DeadlockVictim, Abandon, Rollback
<1> QED  BY <1>1, <1>2, <1>3, <1>4

LEMMA EntriesStep ==
  ASSUME IInv, [Next]_vars, NEW e \in Live
  PROVE  \/ row'[e].list = row[e].list /\ row'[e].song = row[e].song
         \/ /\ row'[e] = NoRow
            /\ \/ lists'[row[e].list] = None \/ row[e].song \notin songs'
               \/ \E r \in Requests : tx[r].entry = e /\ tx[r].pc = "update" /\ tx'[r].pc = "idle"
<1> DEFINE Kept == row'[e].list = row[e].list /\ row'[e].song = row[e].song
           Gone == /\ row'[e] = NoRow
                   /\ \/ lists'[row[e].list] = None \/ row[e].song \notin songs'
                      \/ \E r \in Requests :
                           tx[r].entry = e /\ tx[r].pc = "update" /\ tx'[r].pc = "idle"
<1>0. TypeOK /\ e \in Entries /\ row[e].list # None /\ row[e].list \in Lists
  BY DEF IInv, TypeOK, Live, Existing
<1>1. row' = row => Kept
  OBVIOUS
<1>2. CASE UNCHANGED vars  BY <1>1, <1>2 DEF vars
<1>3. ASSUME NEW l \in FreshLists, NEW origin, NEW tracks \in Seq(songs),
             NewList(l, origin, tracks)
      PROVE  Kept
  <2>1. row'[e] = row[e]  BY <1>0, <1>3, NewListView
  <2> QED  BY <2>1
<1>4. CASE Import  BY <1>3, <1>4, ImportView
<1>5. ASSUME NEW r \in Requests, CreateList(r) PROVE Kept
  <2>1. CASE Rollback(r)  BY <1>1, <2>1, RowsStay
  <2>2. CASE ~Rollback(r)  BY <1>3, <1>5, <2>2, CreateView
  <2> QED  BY <2>1, <2>2
<1>6. ASSUME NEW r \in Requests, InsertTracks(r) PROVE Kept
  <2>1. CASE Rollback(r)  BY <1>1, <2>1, RowsStay
  <2>2. CASE ~Rollback(r)
    <3>1. PICK rows \in [Entries -> Row] :
            /\ Commit(r, rows)
            /\ \A d \in Entries : rows[d] # row[d] => row[d].list = None
      BY <1>6, <2>2, InsertRows
    <3>2. row'[e] = row[e]  BY <1>0, <3>1 DEF Commit
    <3> QED  BY <3>2
  <2> QED  BY <2>1, <2>2
<1>7. ASSUME NEW r \in Requests, CommitPositions(r) PROVE Kept \/ Gone
  <2>1. row' = Written(r) /\ tx' = [tx EXCEPT ![r] = Idle] /\ tx[r].pc = "update"
    BY <1>7, WrittenView DEF Commit
  <2>2. tx'[r].pc = "idle"  BY <1>0, <2>1 DEF TypeOK, Idle
  <2>3. CASE lock[e] # r
    <3>1. row'[e] = row[e]  BY <1>0, <1>7, <2>1, <2>3, WrittenView
    <3> QED  BY <3>1
  <2>4. CASE lock[e] = r /\ e = tx[r].entry
    <3>1. row'[e] = NoRow  BY <1>0, <1>7, <2>1, <2>4, WrittenView
    <3> QED  BY <2>1, <2>2, <2>4, <3>1
  <2>5. CASE lock[e] = r /\ e # tx[r].entry
    <3>1. PICK k \in 1..Len(tx[r].ids) : tx[r].ids[k] = e
      BY <1>0, <1>7, <2>5, WrittenView
    <3>2. row'[e].list = row[e].list /\ row'[e].song = row[e].song
      BY <1>7, <2>1, <2>5, <3>1, WrittenView
    <3> QED  BY <3>2
  <2> QED  BY <2>3, <2>4, <2>5
<1>8. ASSUME NEW l \in Lists, DeletePlaylist(l) PROVE Kept \/ Gone
  <2>1. row'[e] = IF e \in Tracks(l) THEN NoRow ELSE row[e]
    BY <1>0, <1>8 DEF DeletePlaylist, Cascade
  <2>2. lists'[l] = None  BY <1>0, <1>8 DEF DeletePlaylist, TypeOK
  <2>3. CASE e \in Tracks(l)
    <3>1. row[e].list = l  BY <2>3 DEF Tracks
    <3> QED  BY <2>1, <2>2, <2>3, <3>1
  <2>4. CASE e \notin Tracks(l)  BY <2>1, <2>4
  <2> QED  BY <2>3, <2>4
<1>9. ASSUME NEW s \in Songs, DropSong(s) PROVE Kept \/ Gone
  <2>1. row'[e] = IF row[e].song = s THEN NoRow ELSE row[e]
    BY <1>0, <1>9 DEF DropSong, Cascade
  <2>2. s \notin songs'  BY <1>9 DEF DropSong
  <2> QED  BY <2>1, <2>2
<1>10. ASSUME NEW s, ScanSong(s) \/ ChangeGrant(s) PROVE Kept
  BY <1>1, <1>10 DEF ScanSong, ChangeGrant
<1>11. ASSUME NEW r \in Requests, Step(r) PROVE Kept \/ Gone
  <2>1. \/ row' = row \/ CreateList(r) \/ InsertTracks(r) \/ CommitPositions(r)
    BY <1>11, RowsStay DEF Step
  <2> HIDE DEF Kept, Gone
  <2> QED  BY <1>1, <1>5, <1>6, <1>7, <2>1
<1> HIDE DEF Kept, Gone
<1>12. CASE Next
  <2>1. ASSUME NEW s \in Songs, DropSong(s) \/ ScanSong(s) PROVE Kept \/ Gone
    BY <1>9, <1>10, <2>1
  <2>2. ASSUME NEW s \in Hideable, ChangeGrant(s) PROVE Kept \/ Gone
    BY <1>10, <2>2
  <2> QED  BY <1>4, <1>8, <1>11, <1>12, <2>1, <2>2 DEF Next, Kept, Gone
<1> QED  BY <1>2, <1>12 DEF Kept, Gone

(* No request makes another one's entries vanish or change playlist or song, *)
(* however removals, reorderings, additions, the scanner and deletions of    *)
(* playlists overlap.                                                        *)
THEOREM EntriesStay == Spec => EntriesKept
<1>1. IInv /\ [Next]_vars =>
        [\A e \in Live :
           \/ row'[e].list = row[e].list /\ row'[e].song = row[e].song
           \/ row'[e] = NoRow
              /\ \/ lists'[row[e].list] = None \/ row[e].song \notin songs'
                 \/ \E r \in Requests :
                      tx[r].entry = e /\ tx[r].pc = "update" /\ tx'[r].pc = "idle"]_vars
  BY EntriesStep
<1> QED  BY <1>1, InvHolds, PTL DEF Spec, EntriesKept

-----------------------------------------------------------------------------
(* The ends of an addition, a removal and a reordering.                     *)

LEMMA OthersStay ==
  ASSUME NEW q \in Requests, NEW r \in Requests, q # r, TypeOK, Step(q)
  PROVE  tx'[r] = tx[r]
<1>1. ASSUME Rollback(q) PROVE tx'[r] = tx[r]  BY <1>1 DEF Rollback, TypeOK
<1>2. ASSUME NEW rows, Commit(q, rows) PROVE tx'[r] = tx[r]  BY <1>2 DEF Commit, TypeOK
<1>3. ASSUME NEW t, Begin(q, t) PROVE tx'[r] = tx[r]  BY <1>3 DEF Begin, TypeOK
<1>4. CASE CheckCreate(q)  BY <1>3, <1>4 DEF CheckCreate
<1>5. CASE CheckAdd(q)  BY <1>3, <1>5 DEF CheckAdd
<1>6. CASE AskRemove(q)  BY <1>3, <1>6 DEF AskRemove
<1>7. CASE CheckReorder(q)  BY <1>3, <1>7 DEF CheckReorder
<1>8. CASE CreateList(q)  BY <1>1, <1>8 DEF CreateList, TypeOK
<1>9. CASE ReadStart(q)  BY <1>1, <1>9 DEF ReadStart, TypeOK
<1>10. CASE InsertTracks(q)  BY <1>1, <1>2, <1>10 DEF InsertTracks
<1>11. CASE DeleteTrack(q)  BY <1>1, <1>11 DEF DeleteTrack, TypeOK
<1>12. CASE ReadIds(q)  BY <1>1, <1>12 DEF ReadIds, TypeOK
<1>13. CASE UpdatePosition(q)  BY <1>13 DEF UpdatePosition, TypeOK
<1>14. CASE CommitPositions(q)  BY <1>2, <1>14 DEF CommitPositions
<1>15. CASE DeadlockVictim(q) \/ Abandon(q)  BY <1>1, <1>15 DEF DeadlockVictim, Abandon
<1> QED
  BY <1>4, <1>5, <1>6, <1>7, <1>8, <1>9, <1>10, <1>11, <1>12, <1>13, <1>14, <1>15 DEF Step

LEMMA WhoEnds ==
  ASSUME IInv, [Next]_vars, NEW r \in Requests,
         tx[r].pc \in {"insert", "update"}, tx'[r].pc = "idle"
  PROVE  Rollback(r) \/ InsertTracks(r) \/ CommitPositions(r)
<1>0. TypeOK /\ tx[r] \in Tx  BY TypeView DEF IInv
<1>1. tx' # tx
  OBVIOUS
<1>2. PICK q \in Requests : Step(q)
  BY <1>1 DEF Next, vars, Import, DeletePlaylist, DropSong, ScanSong, ChangeGrant
<1>3. q = r  BY <1>0, <1>2, OthersStay
<1>4. ~(CheckCreate(r) \/ CheckAdd(r) \/ AskRemove(r) \/ CheckReorder(r))
  BY DEF CheckCreate, CheckAdd, AskRemove, CheckReorder, Begin
<1>5. ~CreateList(r) /\ ~ReadStart(r) /\ ~DeleteTrack(r) /\ ~ReadIds(r)
  BY DEF CreateList, ReadStart, DeleteTrack, ReadIds
<1>6. ~UpdatePosition(r)
  <2> SUFFICES ASSUME UpdatePosition(r) PROVE FALSE
    OBVIOUS
  <2>1. tx' = [tx EXCEPT ![r].i = tx[r].i + 1] /\ tx[r].pc = "update"
    BY <1>0 DEF UpdatePosition, TypeOK
  <2>2. tx'[r] = [tx[r] EXCEPT !.i = tx[r].i + 1]  BY <1>0, <2>1 DEF TypeOK
  <2>3. tx'[r].pc = "update"  BY <1>0, <2>1, <2>2 DEF Tx
  <2> QED  BY <2>3
<1> QED  BY <1>2, <1>3, <1>4, <1>5, <1>6 DEF Step, DeadlockVictim, Abandon

(* New songs come after all that are there.                                 *)
LEMMA AppendedStep ==
  ASSUME IInv, [Next]_vars, NEW r \in Requests, alone[r]
  PROVE  Appended(r)
<1> SUFFICES ASSUME tx[r].pc = "insert", tx'[r].pc = "idle",
                    NEW e \in Entries \ Live, NEW old \in Tracks(tx[r].list),
                    row'[e].list = tx[r].list
             PROVE  row[old].position < row'[e].position
  BY DEF Appended
<1>0. TypeOK /\ RequestOK(r) /\ AloneOK(r)  BY DEF IInv
<1>1. row[e].list = None /\ tx[r].list # None  BY <1>0 DEF RequestOK, Live
<1>2. ~Rollback(r)  BY <1>1, RowsStay
<1>3. InsertTracks(r)  BY <1>2, WhoEnds DEF CommitPositions
<1>4. PICK rows \in [Entries -> Row] :
        /\ Commit(r, rows)
        /\ \A d \in Entries : rows[d] # row[d] => rows[d].position >= tx[r].start
  BY <1>2, <1>3, InsertRows
<1>5. row'[e] # row[e] /\ row' = rows  BY <1>1, <1>4 DEF Commit
<1>6. row'[e].position >= tx[r].start /\ row'[e].position \in Nat  BY <1>4, <1>5 DEF Row
<1>7. row[old].position < tx[r].start
  <2>1. old \in TracksIn(row, tx[r].list)  BY TracksAreIn
  <2> QED  BY <1>0, <2>1 DEF AloneOK, Current
<1>8. row[old].position \in Nat /\ tx[r].start \in Nat
  <2>1. old \in Entries  BY TracksFinite
  <2> QED  BY <1>0, <2>1, TypeView DEF TypeOK, Row
<1> QED  BY <1>6, <1>7, <1>8

(* Songs are added after the last one, whatever gaps there are, if nothing was *)
(* committed between reading the end of the playlist and inserting.            *)
THEOREM NewSongsComeLast == Spec => AppendsWhenAlone
<1>1. IInv /\ [Next]_vars => [\A r \in Requests : alone[r] => Appended(r)]_vars
  BY AppendedStep
<1> QED  BY <1>1, InvHolds, PTL DEF Spec, AppendsWhenAlone

(* A removal or a reordering that read the playlist as it is makes it what  *)
(* the ids are, in that order.                                              *)
LEMMA EditView ==
  ASSUME IInv, [Next]_vars, NEW r \in Requests, NEW l \in Lists, Edits(r, l)
  PROVE  /\ tx[r].ids \in Seq(Entries) /\ Len(tx[r].ids) \in Nat
         /\ DOMAIN tx[r].ids = 1..Len(tx[r].ids) /\ Distinct(tx[r].ids)
         /\ TracksIn(row', l) = Range(tx[r].ids)
         /\ \A k \in 1..Len(tx[r].ids) : row'[tx[r].ids[k]].position = k - 1
<1>0. TypeOK /\ RequestOK(r) /\ AloneOK(r)  BY DEF IInv
<1>1. /\ tx[r].list = l /\ tx[r].pc = "update" /\ tx'[r].pc = "idle" /\ alone[r] /\ row' # row
  BY DEF Edits
<1>2. CommitPositions(r)  BY <1>1, WhoEnds, RowsStay DEF InsertTracks
<1>3. row' = Written(r)  BY <1>2, WrittenView DEF Commit
<1> DEFINE ids == tx[r].ids
           n == Len(ids)
<1>4. /\ ids \in Seq(Entries) /\ n \in Nat /\ DOMAIN ids = 1..n /\ Distinct(ids)
      /\ \A k \in 1..n : ids[k] \in Entries
  BY <1>0, TypeView, LenProperties DEF RequestOK
<1>5. \A k \in 1..n : lock[ids[k]] = r
  <2>1. tx[r].i = n + 1  BY <1>0, <1>1, <1>2, <1>4 DEF CommitPositions, RequestOK
  <2>2. \A k \in 1..(tx[r].i - 1) : lock[ids[k]] = r  BY <1>0, <1>1 DEF AloneOK
  <2>3. tx[r].i - 1 = n  BY <1>4, <2>1
  <2> QED  BY <2>2, <2>3
<1>6. \A k \in 1..n : row[ids[k]].list = l  BY <1>1, PlannedView DEF Tracks
<1>7. \A k \in 1..n : row'[ids[k]].list = l /\ row'[ids[k]].position = k - 1
  BY <1>2, <1>3, <1>5, <1>6, WrittenView
<1>8. ASSUME NEW e \in Entries, row'[e].list = l
      PROVE  \E k \in 1..n : ids[k] = e
  <2>1. ASSUME lock[e] # r PROVE \E k \in 1..n : ids[k] = e
    <3>1. e \in Tracks(l)
      <4>1. row[e].list = l  BY <1>2, <1>3, <1>8, <2>1, WrittenView
      <4> QED  BY <4>1, TracksView
    <3>2. e # tx[r].entry
      <4> SUFFICES ASSUME e = tx[r].entry PROVE FALSE
        OBVIOUS
      <4>1. tx[r].op = "remove"  BY <1>0, NoneIsNone DEF RequestOK
      <4> QED  BY <1>0, <1>1, <2>1, <4>1 DEF RequestOK
    <3> QED  BY <1>1, <3>1, <3>2, PlannedView
  <2>2. ASSUME lock[e] = r PROVE \E k \in 1..n : ids[k] = e
    <3>1. e # tx[r].entry
      <4> SUFFICES ASSUME e = tx[r].entry PROVE FALSE
        OBVIOUS
      <4>1. row'[e] = NoRow  BY <1>2, <1>3, <2>2, WrittenView
      <4> QED  BY <1>8, <4>1, NoneIsNone DEF NoRow
    <3> QED  BY <1>2, <2>2, <3>1, WrittenView
  <2> QED  BY <2>1, <2>2
<1> HIDE DEF ids, n
<1>9. TracksIn(row', l) = Range(ids)
  <2>1. \A e \in TracksIn(row', l) : e \in Range(ids)
    BY <1>4, <1>8 DEF TracksIn, Range
  <2>2. \A e \in Range(ids) : e \in TracksIn(row', l)
    BY <1>4, <1>7, NoneIsNone DEF TracksIn, Range
  <2> QED  BY <2>1, <2>2
<1> QED  BY <1>4, <1>7, <1>9 DEF ids, n

LEMMA TracksNext == \A l : Tracks(l)' = TracksIn(row', l)
BY DEF Tracks, Live, TracksIn

LEMMA HealsStep ==
  ASSUME IInv, [Next]_vars, NEW r \in Requests, NEW l \in Lists, Edits(r, l)
  PROVE  {row'[e].position : e \in Tracks(l)'} = 0..(Cardinality(Tracks(l)') - 1)
<1> DEFINE ids == tx[r].ids
           n == Len(ids)
           T == TracksIn(row', l)
<1>1. /\ ids \in Seq(Entries) /\ n \in Nat /\ DOMAIN ids = 1..n /\ Distinct(ids)
      /\ T = Range(ids) /\ \A k \in 1..n : row'[ids[k]].position = k - 1
  BY EditView
<1>2. Tracks(l)' = T  BY TracksNext
<1> HIDE DEF ids, n, T
<1>3. \A k \in 1..n : ids[k] \in T  BY <1>1 DEF Range
<1>4. ids \in [1..n -> T]
  <2>1. ids \in [1..n -> Entries]  BY <1>1, LenProperties DEF n
  <2> QED  BY <1>3, <2>1
<1>5. ids \in Seq(T)  BY <1>1, <1>4, SeqDef
<1>6. Cardinality(T) = n  BY <1>1, <1>5, DistinctLength DEF n
<1>7. {row'[e].position : e \in T} = 0..(n - 1)
  <2>1. ASSUME NEW e \in T PROVE row'[e].position \in 0..(n - 1)
    <3>1. PICK k \in 1..n : ids[k] = e  BY <1>1 DEF Range
    <3>2. row'[e].position = k - 1  BY <1>1, <3>1
    <3> QED  BY <1>1, <3>2
  <2>2. ASSUME NEW i \in 0..(n - 1) PROVE \E e \in T : row'[e].position = i
    <3>1. i + 1 \in 1..n /\ i + 1 - 1 = i  BY <1>1
    <3>2. ids[i + 1] \in T /\ row'[ids[i + 1]].position = i  BY <1>1, <1>3, <3>1
    <3> QED  BY <3>2
  <2> QED  BY <2>1, <2>2
<1> QED  BY <1>2, <1>6, <1>7

(* A removal or a reordering renumbers the tracks 0, 1, ..., n-1, whatever  *)
(* ties and gaps overlapping edits and prunings had left.                   *)
THEOREM EditsHealPositions == Spec => HealsPositions
<1>1. IInv /\ [Next]_vars =>
        [\A r \in Requests, l \in Lists :
           Edits(r, l) =>
             {row'[e].position : e \in Tracks(l)'} = 0..(Cardinality(Tracks(l)') - 1)]_vars
  BY HealsStep
<1> QED  BY <1>1, InvHolds, PTL DEF Spec, HealsPositions

(* The only order of rows without ties.                                     *)
LEMMA OnlyOrder ==
  ASSUME NEW f, NEW S, IsFiniteSet(S), \A e \in S : f[e].position \in Nat,
         \A d, e \in S : d # e => f[d].position # f[e].position,
         NEW s \in Sorted(f, S)
  PROVE  (CHOOSE t \in Sorted(f, S) : TRUE) = s
<1> DEFINE t == CHOOSE t \in Sorted(f, S) : TRUE
<1>1. t \in Sorted(f, S)
  OBVIOUS
<1> HIDE DEF t
<1>2. t = s  BY <1>1, SortedUnique
<1> QED  BY <1>2 DEF t

(* The order afterwards is the former one with a track moved.               *)
LEMMA MovedOrder ==
  ASSUME NEW S, NEW was \in Seq(S), Distinct(was), NEW from \in Nat, NEW to \in Nat,
         from < Len(was), to < Len(was), NEW is, is = Moved(was, from, to)
  PROVE  /\ is[to + 1] = was[from + 1]
         /\ \A e, f \in Range(was) \ {was[from + 1]} :
              Index(was, e) < Index(was, f) => Index(is, e) < Index(is, f)
<1> DEFINE n == Len(was)
<1>1. n \in Nat /\ DOMAIN was = 1..n /\ from < n /\ to < n  BY LenProperties
<1>2. /\ is \in Seq(S) /\ Len(is) = n /\ Distinct(is)
      /\ \A k \in 1..n : is[k] = was[Source(k, from, to)]
  BY MovedView, MovedIsOrder
<1> HIDE DEF n
<1>3. DOMAIN is = 1..n  BY <1>2, LenProperties
<1>4. Rearranges(n, from, to) /\ Rearranges(n, to, from)  BY <1>1, SourceView
<1>5. is[to + 1] = was[from + 1]
  <2>1. to + 1 \in 1..n  BY <1>1
  <2> QED  BY <1>2, <1>4, <2>1 DEF Rearranges
<1>6. ASSUME NEW i \in 1..n
      PROVE  /\ Source(i, to, from) \in 1..n /\ is[Source(i, to, from)] = was[i]
             /\ Index(was, was[i]) = i /\ Index(is, was[i]) = Source(i, to, from)
  <2>1. Source(i, to, from) \in 1..n /\ Source(Source(i, to, from), from, to) = i
    BY <1>4 DEF Rearranges
  <2>2. is[Source(i, to, from)] = was[i]  BY <1>2, <2>1
  <2>3. Index(is, is[Source(i, to, from)]) = Source(i, to, from)
    BY <1>2, <1>3, <2>1, IndexView
  <2>4. Index(was, was[i]) = i  BY <1>1, IndexView
  <2> QED  BY <2>1, <2>2, <2>3, <2>4
<1>7. ASSUME NEW e \in Range(was) \ {was[from + 1]}, NEW f \in Range(was) \ {was[from + 1]},
             Index(was, e) < Index(was, f)
      PROVE  Index(is, e) < Index(is, f)
  <2>1. PICK i \in 1..n, j \in 1..n : was[i] = e /\ was[j] = f  BY <1>1 DEF Range
  <2>2. i # from + 1 /\ j # from + 1  BY <2>1
  <2>3. i < j  BY <1>6, <1>7, <2>1
  <2>4. Source(i, to, from) < Source(j, to, from)  BY <1>4, <2>2, <2>3 DEF Rearranges
  <2> QED  BY <1>6, <2>1, <2>4
<1> QED  BY <1>5, <1>7

LEMMA ReordersStep ==
  ASSUME IInv, [Next]_vars, NEW r \in Requests, NEW l \in Lists, Reorders(r, l)
  PROVE  LET was == OrderOf(Tracks(l))
             is == OrderOf(Tracks(l))'
             moved == was[tx[r].from + 1]
         IN /\ is[tx[r].to + 1] = moved
            /\ \A e, f \in Range(was) \ {moved} :
                 Index(was, e) < Index(was, f) => Index(is, e) < Index(is, f)
<1>0. TypeOK /\ RequestOK(r) /\ AloneOK(r)  BY DEF IInv
<1>1. /\ tx[r].op = "reorder" /\ Edits(r, l) /\ Untied(Tracks(l))
      /\ tx[r].list = l /\ tx[r].pc = "update" /\ alone[r]
  BY DEF Reorders, Edits
<1> DEFINE S == TracksIn(row, l)
           T == TracksIn(row', l)
           ids == tx[r].ids
           n == Len(ids)
<1>2. tx[r].entry = None  BY <1>0, <1>1 DEF RequestOK
<1>3. S \ {tx[r].entry} = S
  <2>1. None \notin S  BY NoneIsNone DEF TracksIn
  <2> QED  BY <1>2, <2>1
<1>4. PICK o \in Sorted(row, S) :
        tx[r].from < Len(o) /\ tx[r].to < Len(o) /\ ids = Moved(o, tx[r].from, tx[r].to)
  BY <1>0, <1>1, <1>3 DEF AloneOK, Current, Planned
<1>5. /\ IsFiniteSet(S) /\ S \subseteq Entries /\ S = Tracks(l)  BY TracksFinite, TracksAreIn
<1>6. /\ o \in Seq(S) /\ Distinct(o) /\ Range(o) = S  BY <1>4, <1>5, SortedView
<1>7. OrderOf(Tracks(l)) = o
  <2>1. \A e \in S : row[e].position \in Nat  BY <1>0, <1>5 DEF TypeOK, Row
  <2>2. \A d, e \in S : d # e => row[d].position # row[e].position
    BY <1>1, <1>5 DEF Untied
  <2>3. OrderOf(Tracks(l)) = CHOOSE t \in Sorted(row, S) : TRUE
    BY <1>5, OrderedIsSorted DEF OrderOf
  <2> HIDE DEF S
  <2> QED  BY <1>4, <1>5, <2>1, <2>2, <2>3, OnlyOrder
<1>8. /\ ids \in Seq(Entries) /\ n \in Nat /\ DOMAIN ids = 1..n /\ Distinct(ids)
      /\ T = Range(ids) /\ \A k \in 1..n : row'[ids[k]].position = k - 1
  BY <1>1, EditView
<1> HIDE DEF T
<1>9. /\ ids \in [1..n -> T] /\ IsFiniteSet(T) /\ Cardinality(T) = n
  <2>1. \A k \in 1..n : ids[k] \in T  BY <1>8 DEF Range
  <2>2. ids \in [1..n -> Entries]  BY <1>8, LenProperties
  <2>3. ids \in [1..n -> T]  BY <2>1, <2>2
  <2>4. n = Len(ids)
    OBVIOUS
  <2> HIDE DEF ids, n
  <2>5. ids \in Seq(T)  BY <1>8, <2>3, SeqDef
  <2> QED  BY <1>8, <2>3, <2>4, <2>5, DistinctLength
<1>10. PICK g : g = row'
  OBVIOUS
<1>11. /\ \A k \in 1..n : g[ids[k]].position = k - 1
       /\ \A e \in T : \E k \in 1..n : ids[k] = e
  BY <1>8, <1>10 DEF Range
<1> HIDE DEF ids, n
<1>12. ids \in Sorted(g, T)
  <2>1. \A i, j \in 1..n : i < j => ids[i] # ids[j] /\ g[ids[i]].position <= g[ids[j]].position
    BY <1>8, <1>11 DEF Distinct
  <2> QED  BY <1>8, <1>9, <2>1 DEF Sorted
<1>13. OrderOf(Tracks(l))' = ids
  <2>1. \A e \in T : g[e].position \in Nat  BY <1>8, <1>11
  <2>2. \A d, e \in T : d # e => g[d].position # g[e].position  BY <1>8, <1>11
  <2>3. (CHOOSE t \in Sorted(g, T) : TRUE) = ids  BY <1>9, <1>12, <2>1, <2>2, OnlyOrder
  <2>4. OrderOf(Tracks(l))' = CHOOSE t \in Sorted(row', Tracks(l)') : TRUE
    BY DEF OrderOf, Ordered, Sorted
  <2>5. Tracks(l)' = T  BY TracksNext DEF T
  <2> QED  BY <1>10, <2>3, <2>4, <2>5
<1>14. tx[r].from \in Nat /\ tx[r].to \in Nat  BY <1>0, TypeView
<1>15. /\ ids[tx[r].to + 1] = o[tx[r].from + 1]
       /\ \A e, f \in Range(o) \ {o[tx[r].from + 1]} :
            Index(o, e) < Index(o, f) => Index(ids, e) < Index(ids, f)
  <2>1. ids = Moved(o, tx[r].from, tx[r].to)  BY <1>4 DEF ids
  <2> HIDE DEF S
  <2> QED  BY <1>4, <1>6, <1>14, <2>1, MovedOrder
<1> QED  BY <1>7, <1>13, <1>15

(* A reordering takes the track at from out of the playlist as it is and puts *)
(* it at index to, the others in their order, if nothing was committed        *)
(* between reading the order and writing it.                                  *)
THEOREM ReorderingMovesOne == Spec => ReordersWhenAlone
<1>1. IInv /\ [Next]_vars =>
        [\A r \in Requests, l \in Lists :
           Reorders(r, l) =>
             LET was == OrderOf(Tracks(l))
                 is == OrderOf(Tracks(l))'
                 moved == was[tx[r].from + 1]
             IN /\ is[tx[r].to + 1] = moved
                /\ \A e, f \in Range(was) \ {moved} :
                     Index(was, e) < Index(was, f) => Index(is, e) < Index(is, f)]_vars
  BY ReordersStep
<1> QED  BY <1>1, InvHolds, PTL DEF Spec, ReordersWhenAlone
====
