------------------------------ MODULE ArtworkProofs ------------------------------
(*******************************************************************************)
(* Proofs about Artwork, for any sets of songs, albums, categories and sizes,  *)
(* and any numbers of requests, uploads, failures and restarts.                *)
(*******************************************************************************)
EXTENDS Artwork, TLAPS, SequenceTheorems, FiniteSetTheorems, WellFoundedInduction

-----------------------------------------------------------------------------
(* The directory of copies.                                                 *)

LEMMA LeastNat ==
  ASSUME NEW T \in SUBSET Nat, T # {}
  PROVE  \E x \in T : \A y \in T : x <= y
<1> DEFINE R == OpToRel(<, Nat)
<1>1. IsWellFoundedOn(R, Nat)  BY NatLessThanWellFounded
<1>2. \A x, y \in Nat : <<y, x>> \in R <=> y < x  BY DEF OpToRel
<1> HIDE DEF R
<1>3. PICK x \in T : \A y \in T : ~(<<y, x>> \in R)  BY <1>1, WFMin
<1>4. \A y \in T : ~(y < x)  BY <1>2, <1>3
<1> QED  BY <1>4

LEMMA GreatestOf ==
  ASSUME NEW b \in Nat, NEW S \in SUBSET (1..b), S # {}
  PROVE  \E x \in S : \A y \in S : y <= x
<1> DEFINE T == {b - y : y \in S}
<1>1. T \in SUBSET Nat /\ T # {}
  <2>1. \A y \in S : y \in 1..b
    OBVIOUS
  <2>2. \A y \in S : b - y \in Nat  BY <2>1
  <2> QED  BY <2>2
<1>2. PICK t \in T : \A u \in T : t <= u
  <2> HIDE DEF T
  <2> QED  BY <1>1, LeastNat
<1>3. PICK x \in S : t = b - x  BY <1>2
<1>4. \A y \in S : b - x <= b - y  BY <1>2, <1>3
<1>5. x \in Nat /\ \A y \in S : y \in Nat
  OBVIOUS
<1>6. \A y \in S : y <= x  BY <1>4, <1>5
<1> QED  BY <1>6

(* The elements of a set of indices can be counted from below.              *)
LEMMA NthIndex ==
  ASSUME NEW b \in Nat, NEW S \in SUBSET (1..b), NEW n \in 1..Cardinality(S)
  PROVE  \E i \in S : Cardinality({j \in S : j <= i}) = n
<1> DEFINE Below(i) == {j \in S : j <= i}
           T == {i \in S : n <= Cardinality(Below(i))}
<1>1. IsFiniteSet(S) /\ Cardinality(S) \in Nat
  <2>1. IsFiniteSet(1..b)  BY FS_Interval
  <2> QED  BY <2>1, FS_Subset, FS_CardinalityType
<1>2. \A i \in S : IsFiniteSet(Below(i)) /\ Cardinality(Below(i)) \in Nat
  <2> TAKE i \in S
  <2>1. Below(i) \subseteq S
    OBVIOUS
  <2> QED  BY <1>1, <2>1, FS_Subset, FS_CardinalityType
<1>3. T # {}
  <2>1. S # {}  BY FS_EmptySet
  <2>2. PICK x \in S : \A y \in S : y <= x  BY <2>1, GreatestOf
  <2>3. Below(x) = S  BY <2>2
  <2>4. x \in T  BY <2>3, <1>1
  <2> QED  BY <2>4
<1>4. PICK i \in T : \A j \in T : i <= j
  <2>1. T \in SUBSET Nat
    <3>1. T \subseteq S /\ S \subseteq Nat
      OBVIOUS
    <3> HIDE DEF T
    <3> QED  BY <3>1
  <2> HIDE DEF T
  <2> QED  BY <2>1, <1>3, LeastNat
<1>5. i \in S /\ n <= Cardinality(Below(i)) /\ Cardinality(Below(i)) \in Nat  BY <1>2, <1>4
<1> DEFINE L == {j \in S : j < i}
<1>6. Below(i) = L \cup {i} /\ i \notin L
  <2>1. \A j \in S : j \in Nat /\ i \in Nat  BY <1>5
  <2>2. \A j \in S : j <= i <=> j < i \/ j = i  BY <2>1
  <2>3. ~(i < i)  BY <1>5, <2>1
  <2>4. \A j : j \in Below(i) <=> j \in L \cup {i}  BY <1>5, <2>1, <2>2
  <2> QED  BY <2>3, <2>4
<1>7. IsFiniteSet(L) /\ Cardinality(L) \in Nat
  <2>1. L \subseteq S
    OBVIOUS
  <2> QED  BY <1>1, <2>1, FS_Subset, FS_CardinalityType
<1>8. Cardinality(Below(i)) = Cardinality(L) + 1
  <2> HIDE DEF L, Below
  <2> QED  BY <1>6, <1>7, FS_AddElement
<1>9. Cardinality(L) < n
  <2>1. CASE L = {}
    <3>1. Cardinality(L) = 0  BY <2>1, FS_EmptySet
    <3> QED  BY <3>1
  <2>2. CASE L # {}
    <3>1. L \in SUBSET (1..b)
      OBVIOUS
    <3>2. PICK m \in L : \A y \in L : y <= m
      <4> HIDE DEF L
      <4> QED  BY <2>2, <3>1, GreatestOf
    <3>3. m \in S /\ m < i /\ m \in Nat /\ i \in Nat  BY <3>2, <1>5
    <3>4. Below(m) = L
      <4>1. \A y \in S : y \in Nat
        OBVIOUS
      <4>2. \A y \in S : y <= m => y < i  BY <3>3, <4>1
      <4>3. \A y : y \in Below(m) <=> y \in L  BY <3>2, <4>2
      <4> QED  BY <4>3
    <3>5. m \notin T  BY <1>4, <3>3
    <3>6. ~(n <= Cardinality(Below(m)))  BY <3>3, <3>5
    <3> QED  BY <3>4, <3>6, <1>7
  <2> QED  BY <2>1, <2>2
<1>10. Cardinality(Below(i)) = n  BY <1>5, <1>7, <1>8, <1>9
<1> QED  BY <1>5, <1>10

File == [key : Keys, image : Image]

(* What the removal keeps comes from different places of what was there.    *)
LEMMA WithoutView ==
  ASSUME NEW files \in Seq(File), NEW keys
  PROVE  /\ Without(files, keys) \in Seq(File)
         /\ Len(Without(files, keys)) <= Len(files)
         /\ \A n \in DOMAIN Without(files, keys) :
              \E i \in DOMAIN files :
                Without(files, keys)[n] = files[i] /\ files[i].key \notin keys
         /\ \A n, m \in DOMAIN Without(files, keys) :
              (\A i, j \in DOMAIN files : files[i].key = files[j].key => i = j)
              /\ Without(files, keys)[n].key = Without(files, keys)[m].key => n = m
<1> DEFINE kept == {i \in DOMAIN files : files[i].key \notin keys}
           Rank(i) == Cardinality({j \in kept : j <= i})
           Nth(n) == CHOOSE i \in kept : Rank(i) = n
           w == [n \in 1..Cardinality(kept) |-> files[Nth(n)]]
<1>1. Without(files, keys) = w  BY DEF Without
<1>2. Len(files) \in Nat /\ DOMAIN files = 1..Len(files) /\ files \in [1..Len(files) -> File]
  BY LenProperties
<1>3. kept \in SUBSET (1..Len(files))  BY <1>2
<1>4. Cardinality(kept) \in Nat /\ Cardinality(kept) <= Len(files)
  <2>1. IsFiniteSet(1..Len(files)) /\ Cardinality(1..Len(files)) = Len(files)
    BY <1>2, FS_Interval
  <2> QED  BY <1>3, <2>1, FS_Subset, FS_CardinalityType
<1>5. \A n \in 1..Cardinality(kept) : Nth(n) \in kept /\ Rank(Nth(n)) = n
  <2> TAKE n \in 1..Cardinality(kept)
  <2>1. \E i \in kept : Rank(i) = n
    <3> HIDE DEF kept
    <3> QED  BY <1>2, <1>3, NthIndex
  <2> HIDE DEF kept, Rank
  <2> QED  BY <2>1
<1>6. \A n \in 1..Cardinality(kept) :
        Nth(n) \in 1..Len(files) /\ files[Nth(n)] \in File /\ files[Nth(n)].key \notin keys
  BY <1>2, <1>5
<1> HIDE DEF kept, Nth, Rank
<1>7. w \in [1..Cardinality(kept) -> File]  BY <1>6
<1>8. w \in Seq(File) /\ Len(w) = Cardinality(kept) /\ DOMAIN w = 1..Cardinality(kept)
  BY <1>4, <1>7, SeqDef, LenProperties
<1>9. \A n \in DOMAIN w : \E i \in DOMAIN files : w[n] = files[i] /\ files[i].key \notin keys
  BY <1>2, <1>6, <1>8
<1>10. ASSUME \A i, j \in DOMAIN files : files[i].key = files[j].key => i = j,
              NEW n \in DOMAIN w, NEW m \in DOMAIN w, w[n].key = w[m].key
       PROVE  n = m
  <2>1. Nth(n) = Nth(m)  BY <1>2, <1>6, <1>8, <1>10
  <2> QED  BY <1>5, <1>8, <1>10, <2>1
<1>11. Len(w) <= Len(files)  BY <1>4, <1>8
<1> HIDE DEF w
<1>12. \A n, m \in DOMAIN w :
         (\A i, j \in DOMAIN files : files[i].key = files[j].key => i = j)
         /\ w[n].key = w[m].key => n = m
  BY <1>10
<1> QED  BY <1>1, <1>8, <1>9, <1>11, <1>12

(* A directory within its limit, with one file of a name.                   *)
DirOK(d) ==
  /\ d \in Seq(File) /\ Len(d) <= Limit
  /\ \A i, j \in DOMAIN d : d[i].key = d[j].key => i = j

LEMMA WithoutOK ==
  ASSUME DirOK(disk), NEW keys
  PROVE  /\ DirOK(Without(disk, keys))
         /\ \A n \in DOMAIN Without(disk, keys) :
              \E i \in DOMAIN disk : Without(disk, keys)[n] = disk[i] /\ disk[i].key \notin keys
<1>1. disk \in Seq(File) /\ Len(disk) <= Limit  BY DEF DirOK
<1>2. \A i, j \in DOMAIN disk : disk[i].key = disk[j].key => i = j  BY DEF DirOK
<1> DEFINE w == Without(disk, keys)
<1>3. /\ w \in Seq(File) /\ Len(w) <= Len(disk)
      /\ \A n \in DOMAIN w : \E i \in DOMAIN disk : w[n] = disk[i] /\ disk[i].key \notin keys
  BY <1>1, WithoutView
<1>4. \A n, m \in DOMAIN w : w[n].key = w[m].key => n = m  BY <1>1, <1>2, WithoutView
<1> HIDE DEF w
<1>5. Len(w) \in Nat /\ Len(disk) \in Nat  BY <1>1, <1>3, LenProperties
<1>6. Len(w) <= Limit  BY <1>1, <1>3, <1>5, ArtworkAssumption
<1>7. DirOK(w)  BY <1>3, <1>4, <1>6 DEF DirOK
<1> QED  BY <1>3, <1>7 DEF w

LEMMA TrimmedOK ==
  ASSUME NEW d \in Seq(File), \A i, j \in DOMAIN d : d[i].key = d[j].key => i = j
  PROVE  /\ DirOK(Trimmed(d))
         /\ \A n \in DOMAIN Trimmed(d) : \E i \in DOMAIN d : Trimmed(d)[n] = d[i]
<1>1. Limit \in Nat /\ Limit > 0  BY ArtworkAssumption
<1>2. Len(d) \in Nat /\ DOMAIN d = 1..Len(d) /\ d \in [1..Len(d) -> File]  BY LenProperties
<1>3. CASE Len(d) <= Limit
  <2>1. Trimmed(d) = d  BY <1>3 DEF Trimmed
  <2> QED  BY <1>3, <2>1 DEF DirOK
<1>4. CASE ~(Len(d) <= Limit)
  <2> DEFINE k == Len(d) - Limit
             t == [i \in 1..Limit |-> d[i + k]]
  <2>1. k \in Nat /\ \A i \in 1..Limit : i + k \in 1..Len(d)  BY <1>1, <1>2, <1>4
  <2>2. Trimmed(d) = t
    <3>1. Trimmed(d) = SubSeq(d, k + 1, Len(d))  BY <1>4 DEF Trimmed
    <3>2. k + 1 \in Int /\ Len(d) \in Int /\ k + 1 <= Len(d)  BY <1>1, <1>2, <2>1
    <3>3. Len(d) - (k + 1) + 1 = Limit  BY <1>1, <1>2
    <3>4. \A i \in 1..Limit : k + 1 + i - 1 = i + k  BY <1>1, <1>2
    <3>5. \A i \in (k + 1)..Len(d) : d[i] \in File  BY <1>2, <2>1
    <3> HIDE DEF k
    <3>6. /\ Trimmed(d) \in Seq(File) /\ Len(Trimmed(d)) = Limit
          /\ \A i \in 1..Limit : Trimmed(d)[i] = d[i + k]
      BY <3>1, <3>2, <3>3, <3>4, <3>5, SubSeqProperties
    <3>7. Trimmed(d) \in [1..Limit -> File]  BY <3>6, LenProperties
    <3> QED  BY <3>6, <3>7
  <2> HIDE DEF k
  <2>3. t \in [1..Limit -> File]  BY <1>2, <2>1
  <2>4. t \in Seq(File) /\ Len(t) = Limit /\ DOMAIN t = 1..Limit
    BY <1>1, <2>3, SeqDef, LenProperties
  <2>5. \A i, j \in DOMAIN t : t[i].key = t[j].key => i = j
    <3> SUFFICES ASSUME NEW i \in 1..Limit, NEW j \in 1..Limit, d[i + k].key = d[j + k].key
                 PROVE  i = j
      BY <2>4
    <3>1. i + k = j + k  BY <1>2, <2>1
    <3> QED  BY <3>1, <2>1
  <2>6. \A n \in DOMAIN t : \E i \in DOMAIN d : t[n] = d[i]  BY <1>2, <2>1, <2>4
  <2>7. DirOK(t)  BY <1>1, <2>4, <2>5 DEF DirOK
  <2> QED  BY <2>2, <2>6, <2>7
<1> QED  BY <1>3, <1>4

(* After a write the directory has copies from before, and the new one.     *)
LEMMA DiskSetOK ==
  ASSUME DirOK(disk), NEW key \in Keys, NEW image \in Image
  PROVE  /\ DirOK(DiskSet(key, image))
         /\ \A n \in DOMAIN DiskSet(key, image) :
              \/ DiskSet(key, image)[n] = [key |-> key, image |-> image]
              \/ \E i \in DOMAIN disk : DiskSet(key, image)[n] = disk[i]
<1> DEFINE w == Without(disk, {key})
           new == [key |-> key, image |-> image]
           d == Append(w, new)
<1>1. /\ DirOK(w)
      /\ \A n \in DOMAIN w : \E i \in DOMAIN disk : w[n] = disk[i] /\ disk[i].key \notin {key}
  BY WithoutOK
<1>2. new \in File  BY DEF File
<1>3. DiskSet(key, image) = Trimmed(d)  BY DEF DiskSet
<1> HIDE DEF w
<1>4. w \in Seq(File) /\ \A i, j \in DOMAIN w : w[i].key = w[j].key => i = j
  BY <1>1 DEF DirOK
<1>5. Len(w) \in Nat /\ DOMAIN w = 1..Len(w)  BY <1>4, LenProperties
<1>6. /\ d \in Seq(File) /\ DOMAIN d = 1..(Len(w) + 1)
      /\ d[Len(w) + 1] = new /\ \A i \in 1..Len(w) : d[i] = w[i]
  <2>1. d \in Seq(File) /\ Len(d) = Len(w) + 1  BY <1>2, <1>4, AppendProperties
  <2>2. d[Len(w) + 1] = new /\ \A i \in 1..Len(w) : d[i] = w[i]
    BY <1>2, <1>4, AppendProperties
  <2>3. DOMAIN d = 1..Len(d)  BY <2>1, LenProperties
  <2> HIDE DEF d
  <2> QED  BY <2>1, <2>2, <2>3
<1>7. new.key = key
  OBVIOUS
<1> HIDE DEF d, new
<1>8. \A i \in 1..Len(w) : w[i].key # key  BY <1>1, <1>5
<1>9. \A i \in 1..(Len(w) + 1) : i \in 1..Len(w) \/ i = Len(w) + 1  BY <1>5
<1>10. \A i, j \in DOMAIN d : d[i].key = d[j].key => i = j
  BY <1>4, <1>5, <1>6, <1>7, <1>8, <1>9
<1>11. \A i \in DOMAIN d : d[i] = new \/ \E j \in DOMAIN disk : d[i] = disk[j]
  BY <1>1, <1>5, <1>6, <1>9
<1>12. /\ DirOK(Trimmed(d))
       /\ \A n \in DOMAIN Trimmed(d) : \E i \in DOMAIN d : Trimmed(d)[n] = d[i]
  BY <1>6, <1>10, TrimmedOK
<1> QED  BY <1>3, <1>11, <1>12 DEF new

-----------------------------------------------------------------------------
(* The inductive invariant.                                                 *)

Request == [pc : {"idle", "own", "find", "cover", "set"}, entity : Entities \cup {None},
            size : Sizes \cup {None}, album : Albums \cup {None}, image : Image \cup {None}]
Change == [pc : {"idle", "object", "invalidate"}, entity : Entities \cup {None},
           image : Custom \cup {None}, alone : BOOLEAN]

RowsOK ==
  /\ art \in [Entities -> Picture \cup {None}] /\ object \in [Categories -> Picture \cup {None}]
  /\ albumOf \in [Followers -> Albums \cup {None}]
  /\ mode \in {"disk", "redis"} /\ uploads \in 0..MaxUploads
  /\ redis \in [Keys -> Image \cup {None}]
  /\ excused \in [Entities -> BOOLEAN] /\ apart \in [Categories -> BOOLEAN]

Types == RowsOK /\ DirOK(disk) /\ serve \in [Serves -> Request] /\ admin \in [Admins -> Change]

(* What may make a cached copy of e wrong.                                  *)
Doubt(e) == excused[e] \/ Busy(e) # {}
Right(e, image) == image = Resolved(e) \/ Doubt(e)

(* What a request has read is still so, unless in doubt.                    *)
Reads(s) ==
  /\ s.pc # "idle" => /\ s.entity \in Entities /\ s.size \in Sizes
                      /\ s.entity \notin Followers => s.album = None
  /\ s.pc = "find" => s.entity \in Followers
  /\ s.pc \in {"find", "cover"} => art[s.entity] = None \/ Doubt(s.entity)
  /\ s.pc = "cover" /\ s.entity \in Followers => s.album = albumOf[s.entity] \/ Doubt(s.entity)
  /\ s.pc = "set" => s.image # None /\ Right(s.entity, s.image)
ServeInv == \A r \in Serves : Reads(serve[r])

(* An upload of a category's cover that met no other is the only one.       *)
Writes(u, a) ==
  /\ a.pc # "idle" => a.entity \in Entities
  /\ a.pc = "object" => a.entity \in Categories
  /\ a.pc = "object" /\ a.alone => a.image = art[a.entity] /\ Busy(a.entity) = {u}
AdminInv == \A u \in Admins : Writes(u, admin[u])

(* Copies on disk and in Redis, whichever of them is in use.                *)
CopyInv ==
  /\ \A k \in Keys : redis[k] # None => Right(k[1], redis[k])
  /\ \A i \in DOMAIN disk : Right(disk[i].key[1], disk[i].image)

Agree(c) ==
  art[c] = object[c] \/ apart[c] \/ \E u \in Admins : admin[u].pc = "object" /\ admin[u].entity = c
CoverInv == \A c \in Categories : Agree(c)

IInv == Types /\ ServeInv /\ AdminInv /\ CopyInv /\ CoverInv

-----------------------------------------------------------------------------
(* Views of the parts.                                                      *)

LEMMA TypesAreTypeOK == Types => TypeOK
<1> SUFFICES ASSUME Types PROVE TypeOK
  OBVIOUS
<1>1. Len(disk) <= Limit /\ \A i, j \in DOMAIN disk : disk[i].key = disk[j].key => i = j
  BY DEF Types, DirOK
<1>2. \A i \in DOMAIN disk : disk[i] \in [key : Keys, image : Image]
  <2>1. disk \in Seq(File)  BY DEF Types, DirOK
  <2>2. disk \in [1..Len(disk) -> File]  BY <2>1, LenProperties
  <2> QED  BY <2>2 DEF File
<1> QED  BY <1>1, <1>2 DEF Types, TypeOK, RowsOK, Request, Change

LEMMA NoneIsNoImage == None \notin Image /\ None \notin Picture /\ None \notin Entities
<1>1. None \notin [kind : {"custom", "embedded", "folder"}, id : Nat \cup Songs \cup Albums]
  BY ArtworkAssumption
<1>2. Picture \subseteq [kind : {"custom", "embedded", "folder"}, id : Nat \cup Songs \cup Albums]
  <2>1. Custom \subseteq [kind : {"custom", "embedded", "folder"}, id : Nat \cup Songs \cup Albums]
    BY ArtworkAssumption DEF Custom
  <2> QED  BY <2>1 DEF Picture
<1>3. None \notin Picture  BY <1>1, <1>2
<1> QED  BY <1>3, ArtworkAssumption DEF Image, Entities, Followers

LEMMA ResolvedType ==
  ASSUME RowsOK, NEW e \in Entities
  PROVE  Resolved(e) \in Image /\ Fallback(e) \in Picture \cup {None}
<1>1. art[e] \in Picture \cup {None}  BY DEF RowsOK
<1>2. Fallback(e) \in Picture \cup {None}
  <2>1. CASE e \in Followers
    <3>1. albumOf[e] \in Albums \cup {None}  BY <2>1 DEF RowsOK
    <3>2. Cover(albumOf[e]) \in Picture \cup {None}  BY <3>1 DEF Cover, RowsOK, Entities
    <3> QED  BY <2>1, <3>2 DEF Fallback
  <2>2. CASE e \notin Followers /\ e \in Categories  BY <2>2 DEF Fallback, RowsOK
  <2>3. CASE e \notin Followers /\ e \notin Categories  BY <2>3 DEF Fallback
  <2> QED  BY <2>1, <2>2, <2>3
<1>3. Resolved(e) \in Image  BY <1>1, <1>2 DEF Resolved, Or, Image
<1> QED  BY <1>2, <1>3

(* What a step leaves of the truth about e.                                 *)
Kept(e) ==
  /\ \/ /\ Resolved(e)' = Resolved(e) /\ art'[e] = art[e]
        /\ e \in Followers => albumOf'[e] = albumOf[e]
     \/ Doubt(e)'
  /\ Doubt(e) => Doubt(e)'

LEMMA ReadsKept ==
  ASSUME NEW s, Reads(s), \A e \in Entities : Kept(e)
  PROVE  Reads(s)'
<1>1. CASE s.pc = "idle"  BY <1>1 DEF Reads
<1>2. CASE s.pc # "idle"
  <2>1. s.entity \in Entities /\ s.size \in Sizes  BY <1>2 DEF Reads
  <2>2. Kept(s.entity)  BY <2>1
  <2>3. s.pc \in {"find", "cover"} => art'[s.entity] = None \/ Doubt(s.entity)'
    BY <2>2 DEF Reads, Kept
  <2>5. s.pc = "cover" /\ s.entity \in Followers
        => s.album = albumOf'[s.entity] \/ Doubt(s.entity)'
    BY <2>2 DEF Reads, Kept
  <2>4. s.pc = "set" => s.image # None /\ (s.image = Resolved(s.entity)' \/ Doubt(s.entity)')
    BY <2>2 DEF Reads, Kept, Right
  <2>6. /\ s.entity \notin Followers => s.album = None
        /\ s.pc = "find" => s.entity \in Followers
    BY <1>2 DEF Reads
  <2> QED  BY <2>1, <2>3, <2>4, <2>5, <2>6 DEF Reads, Right
<1> QED  BY <1>1, <1>2

LEMMA CopiesKept ==
  ASSUME Types, CopyInv, \A e \in Entities : Kept(e), disk' = disk, redis' = redis
  PROVE  CopyInv'
<1>1. ASSUME NEW k \in Keys, redis'[k] # None PROVE Right(k[1], redis[k])'
  <2>1. k[1] \in Entities  BY DEF Keys
  <2>2. Kept(k[1]) /\ Right(k[1], redis[k])  BY <1>1, <2>1 DEF CopyInv
  <2> QED  BY <2>2 DEF Kept, Right
<1>2. ASSUME NEW i \in DOMAIN disk PROVE Right(disk[i].key[1], disk[i].image)'
  <2>1. disk[i].key[1] \in Entities
    <3>1. disk[i] \in File  BY ElementOfSeq, LenProperties DEF Types, DirOK
    <3> QED  BY <3>1 DEF File, Keys
  <2>2. Kept(disk[i].key[1]) /\ Right(disk[i].key[1], disk[i].image)
    BY <1>2, <2>1 DEF CopyInv
  <2> QED  BY <2>2 DEF Kept, Right
<1> QED  BY <1>1, <1>2 DEF CopyInv

LEMMA ServesNext ==
  ASSUME \A r \in Serves : \E t : t = serve'[r] /\ Reads(t)'
  PROVE  ServeInv'
<1> SUFFICES ASSUME NEW r \in Serves PROVE Reads(serve[r])'
  BY DEF ServeInv
<1>1. PICK t : t = serve'[r] /\ Reads(t)'
  OBVIOUS
<1> QED  BY <1>1 DEF Reads, Right, Doubt, Resolved, Fallback, Cover, Or, Busy

LEMMA AdminsNext ==
  ASSUME \A u \in Admins : \E a : a = admin'[u] /\ Writes(u, a)'
  PROVE  AdminInv'
<1> SUFFICES ASSUME NEW u \in Admins PROVE Writes(u, admin[u])'
  BY DEF AdminInv
<1>1. PICK a : a = admin'[u] /\ Writes(u, a)'
  OBVIOUS
<1> QED  BY <1>1 DEF Writes, Busy

LEMMA CopiesNext ==
  ASSUME \A k \in Keys : redis'[k] # None => \E c : c = redis'[k] /\ Right(k[1], c)',
         \A i \in DOMAIN disk' : \E f : f = disk'[i] /\ Right(f.key[1], f.image)'
  PROVE  CopyInv'
<1>1. ASSUME NEW k \in Keys, redis'[k] # None PROVE Right(k[1], redis[k])'
  <2>1. PICK c : c = redis'[k] /\ Right(k[1], c)'  BY <1>1
  <2> QED  BY <2>1 DEF Right
<1>2. ASSUME NEW i \in DOMAIN disk' PROVE Right(disk[i].key[1], disk[i].image)'
  <2>1. PICK f : f = disk'[i] /\ Right(f.key[1], f.image)'  BY <1>2
  <2> QED  BY <2>1 DEF Right, Doubt, Resolved, Fallback, Cover, Or, Busy
<1> QED  BY <1>1, <1>2 DEF CopyInv

-----------------------------------------------------------------------------
(* Serve.                                                                   *)

(* Steps that change no row, object or upload, and withdraw no doubt.       *)
LEMMA SameRows ==
  ASSUME art' = art, albumOf' = albumOf, object' = object, admin' = admin, apart' = apart,
         \A e \in Entities : excused[e] => excused'[e]
  PROVE  /\ \A e \in Entities : Kept(e)
         /\ AdminInv => AdminInv'
         /\ CoverInv => CoverInv'
<1>1. \A e : Busy(e)' = Busy(e) /\ Resolved(e)' = Resolved(e)
  BY DEF Busy, Resolved, Fallback, Cover, Or
<1>2. \A e \in Entities : Kept(e)  BY <1>1 DEF Kept, Doubt
<1>3. AdminInv => AdminInv'  BY <1>1 DEF AdminInv, Writes, Busy
<1>4. CoverInv => CoverInv'  BY DEF CoverInv, Agree
<1> QED  BY <1>2, <1>3, <1>4

(* One request goes on to s.                                                *)
LEMMA OneServes ==
  ASSUME ServeInv, serve \in [Serves -> Request], \A e \in Entities : Kept(e),
         NEW r \in Serves, NEW s \in Request, Reads(s)', serve' = [serve EXCEPT ![r] = s]
  PROVE  ServeInv' /\ serve' \in [Serves -> Request]
<1>1. serve'[r] = s /\ \A q \in Serves : q # r => serve'[q] = serve[q]
  OBVIOUS
<1>2. ASSUME NEW q \in Serves PROVE \E t : t = serve'[q] /\ Reads(t)'
  <2>1. CASE q = r  BY <1>1, <2>1
  <2>2. CASE q # r
    <3>1. PICK t : t = serve[q]
      OBVIOUS
    <3>2. Reads(t)  BY <3>1 DEF ServeInv
    <3>3. Reads(t)'  BY <3>2, ReadsKept
    <3> QED  BY <1>1, <2>2, <3>1, <3>3
  <2> QED  BY <2>1, <2>2
<1>3. serve' \in [Serves -> Request]
  OBVIOUS
<1>4. ServeInv'  BY <1>2, ServesNext
<1> QED  BY <1>3, <1>4

LEMMA FreeIsFree == Free \in Request /\ Reads(Free)'
BY DEF Free, Request, Reads

LEMMA MissKeeps ==
  ASSUME IInv, NEW r \in Serves, Miss(r)
  PROVE  IInv'
<1>1. PICK e \in Entities, z \in Sizes :
        /\ serve' = [serve EXCEPT ![r] = [Free EXCEPT !.pc = "own", !.entity = e, !.size = z]]
        /\ UNCHANGED <<art, albumOf, object, mode, disk, redis, admin, uploads, excused, apart>>
  BY DEF Miss
<1> DEFINE s == [Free EXCEPT !.pc = "own", !.entity = e, !.size = z]
<1>2. s \in Request /\ Reads(s)'  BY DEF Request, Reads, Free
<1> HIDE DEF s
<1>3. serve' = [serve EXCEPT ![r] = s]  BY <1>1 DEF s
<1>4. /\ \A d \in Entities : Kept(d)
      /\ AdminInv' /\ CoverInv'
  BY <1>1, SameRows DEF IInv
<1>5. ServeInv' /\ serve' \in [Serves -> Request]
  BY <1>2, <1>3, <1>4, OneServes DEF IInv, Types
<1>6. CopyInv'  BY <1>1, <1>4, CopiesKept DEF IInv
<1>7. Types'  BY <1>1, <1>5 DEF IInv, Types, RowsOK, DirOK
<1> QED  BY <1>4, <1>5, <1>6, <1>7 DEF IInv

LEMMA ReadOwnKeeps ==
  ASSUME IInv, NEW r \in Serves, ReadOwn(r)
  PROVE  IInv'
<1>1. PICK t \in Request : t = serve[r]  BY DEF IInv, Types
<1>2. /\ t.pc = "own" /\ t.entity \in Entities /\ t.size \in Sizes
      /\ t.entity \notin Followers => t.album = None
  BY <1>1 DEF ReadOwn, IInv, ServeInv, Reads
<1>0. PICK image : image = art[t.entity]
  OBVIOUS
<1> DEFINE next == IF image # None THEN "set"
                   ELSE IF t.entity \in Followers THEN "find" ELSE "cover"
           s == [t EXCEPT !.image = image, !.pc = next]
<1>3. serve' = [serve EXCEPT ![r] = s]
  <2>1. serve \in [Serves -> Request]  BY DEF IInv, Types
  <2> QED  BY <1>0, <1>1, <2>1 DEF ReadOwn
<1>4. image \in Image \cup {None}  BY <1>0, <1>2 DEF IInv, Types, RowsOK, Image
<1>5. UNCHANGED <<art, albumOf, object, mode, disk, redis, admin, uploads, excused, apart>>
  BY DEF ReadOwn
<1>6. s \in Request  BY <1>4 DEF Request
<1>7. /\ s.entity = t.entity /\ s.size = t.size /\ s.image = image /\ s.album = t.album
      /\ s.pc = next
  BY DEF Request
<1>8. image # None => Resolved(t.entity)' = image
  BY <1>0, <1>5 DEF Resolved, Or
<1> HIDE DEF s
<1>9. Reads(s)'
  <2>1. art'[t.entity] = image  BY <1>0, <1>5
  <2>2. s.pc # "idle" => /\ s.entity \in Entities /\ s.size \in Sizes
                         /\ s.entity \notin Followers => s.album = None
    BY <1>2, <1>7
  <2>3. /\ s.pc = "find" => s.entity \in Followers
        /\ s.pc \in {"find", "cover"} => art'[s.entity] = None
        /\ s.pc = "cover" => s.entity \notin Followers
        /\ s.pc = "set" => s.image # None /\ s.image = Resolved(s.entity)'
    BY <1>7, <1>8, <2>1
  <2> QED  BY <2>2, <2>3 DEF Reads, Right
<1>10. /\ \A d \in Entities : Kept(d)
       /\ AdminInv' /\ CoverInv'
  BY <1>5, SameRows DEF IInv
<1>11. ServeInv' /\ serve' \in [Serves -> Request]
  BY <1>3, <1>6, <1>9, <1>10, OneServes DEF IInv, Types
<1>12. CopyInv'  BY <1>5, <1>10, CopiesKept DEF IInv
<1>13. Types'  BY <1>5, <1>11 DEF IInv, Types, RowsOK, DirOK
<1> QED  BY <1>10, <1>11, <1>12, <1>13 DEF IInv

(* The album is the one followed, or its look-up has failed.                *)
LEMMA FindAlbumKeeps ==
  ASSUME IInv, NEW r \in Serves, FindAlbum(r)
  PROVE  IInv'
<1>1. PICK t \in Request : t = serve[r]  BY DEF IInv, Types
<1>2. /\ t.pc = "find" /\ t.entity \in Entities /\ t.size \in Sizes /\ t.entity \in Followers
      /\ art[t.entity] = None \/ Doubt(t.entity)
  BY <1>1 DEF FindAlbum, IInv, ServeInv, Reads
<1>3. UNCHANGED <<art, albumOf, object, mode, disk, redis, admin, uploads, apart>>
  BY DEF FindAlbum
<1>4. serve \in [Serves -> Request] /\ RowsOK  BY DEF IInv, Types
<1>5. PICK album \in Albums \cup {None} :
        /\ serve' = [serve EXCEPT ![r].album = album, ![r].pc = "cover"]
        /\ \/ album = albumOf[t.entity] /\ excused' = excused
           \/ excused' = [excused EXCEPT ![t.entity] = TRUE]
  <2>1. albumOf[t.entity] \in Albums \cup {None}  BY <1>2, <1>4 DEF RowsOK
  <2>2. t.album \in Albums \cup {None}  BY DEF Request
  <2>3. CASE serve' = [serve EXCEPT ![r].album = albumOf[t.entity], ![r].pc = "cover"]
             /\ UNCHANGED excused
    BY <2>1, <2>3
  <2>4. CASE serve' = [serve EXCEPT ![r].pc = "cover"]
             /\ excused' = [excused EXCEPT ![t.entity] = TRUE]
    <3>1. [t EXCEPT !.pc = "cover"] = [t EXCEPT !.album = t.album, !.pc = "cover"]
      BY DEF Request
    <3>2. serve' = [serve EXCEPT ![r].album = t.album, ![r].pc = "cover"]
      BY <1>1, <1>4, <2>4, <3>1
    <3> QED  BY <2>2, <2>4, <3>2
  <2> QED  BY <1>1, <2>3, <2>4 DEF FindAlbum
<1> DEFINE s == [t EXCEPT !.album = album, !.pc = "cover"]
<1>6. serve' = [serve EXCEPT ![r] = s]  BY <1>1, <1>4, <1>5
<1>7. s \in Request  BY DEF Request
<1>8. s.entity = t.entity /\ s.size = t.size /\ s.album = album /\ s.pc = "cover"
  BY DEF Request
<1>9. /\ excused' \in [Entities -> BOOLEAN]
      /\ \A e \in Entities : excused[e] => excused'[e]
      /\ album = albumOf[t.entity] \/ excused'[t.entity]
  BY <1>2, <1>4, <1>5 DEF RowsOK
<1>10. /\ \A d \in Entities : Kept(d)
       /\ AdminInv' /\ CoverInv'
  BY <1>3, <1>9, SameRows DEF IInv
<1> HIDE DEF s
<1>11. Reads(s)'
  <2>1. Doubt(t.entity) => Doubt(t.entity)'  BY <1>2, <1>10 DEF Kept
  <2>2. excused'[t.entity] => Doubt(t.entity)'  BY DEF Doubt
  <2>3. art'[t.entity] = None \/ Doubt(t.entity)'  BY <1>2, <1>3, <2>1
  <2>4. s.album = albumOf'[t.entity] \/ Doubt(t.entity)'  BY <1>3, <1>8, <1>9, <2>2
  <2> QED  BY <1>2, <1>8, <2>3, <2>4 DEF Reads
<1>12. ServeInv' /\ serve' \in [Serves -> Request]
  BY <1>4, <1>6, <1>7, <1>10, <1>11, OneServes DEF IInv
<1>13. CopyInv'  BY <1>3, <1>10, CopiesKept DEF IInv
<1>14. Types'  BY <1>3, <1>9, <1>12 DEF IInv, Types, RowsOK, DirOK
<1> QED  BY <1>10, <1>12, <1>13, <1>14 DEF IInv

LEMMA ReadCoverKeeps ==
  ASSUME IInv, NEW r \in Serves, ReadCover(r)
  PROVE  IInv'
<1>1. PICK t \in Request : t = serve[r]  BY DEF IInv, Types
<1>2. /\ t.pc = "cover" /\ t.entity \in Entities /\ t.size \in Sizes
      /\ t.entity \notin Followers => t.album = None
      /\ art[t.entity] = None \/ Doubt(t.entity)
      /\ t.entity \in Followers => t.album = albumOf[t.entity] \/ Doubt(t.entity)
  BY <1>1 DEF ReadCover, IInv, ServeInv, Reads
<1>3. UNCHANGED <<art, albumOf, object, mode, disk, redis, admin, uploads, apart>>
  BY DEF ReadCover
<1>4. serve \in [Serves -> Request] /\ RowsOK  BY DEF IInv, Types
<1> DEFINE found == IF t.entity \in Categories THEN object[t.entity] ELSE Cover(t.album)
<1>15. found \in Picture \cup {None}
  <2>1. t.album \in Albums \cup {None}  BY DEF Request
  <2>2. Cover(t.album) \in Picture \cup {None}  BY <1>4, <2>1 DEF Cover, RowsOK, Entities
  <2> QED  BY <1>4, <2>2 DEF RowsOK
<1>16. found = Fallback(t.entity) \/ Doubt(t.entity)
  <2>1. CASE t.entity \in Followers
    <3>1. t.entity \notin Categories  BY <2>1, ArtworkAssumption DEF Followers
    <3> QED  BY <1>2, <2>1, <3>1 DEF Fallback
  <2>2. CASE t.entity \notin Followers
    BY <1>2, <2>2 DEF Fallback, Cover
  <2> QED  BY <2>1, <2>2
<1>5. PICK image \in Image :
        /\ serve' = [serve EXCEPT ![r].image = image, ![r].pc = "set"]
        /\ \/ image = Or(found, Placeholder) /\ excused' = excused
           \/ excused' = [excused EXCEPT ![t.entity] = TRUE]
  <2>1. Or(found, Placeholder) \in Image /\ Placeholder \in Image
    BY <1>15 DEF Or, Image
  <2> HIDE DEF found
  <2>2. \/ /\ serve' = [serve EXCEPT ![r].image = Or(found, Placeholder), ![r].pc = "set"]
           /\ UNCHANGED excused
        \/ /\ serve' = [serve EXCEPT ![r].image = Placeholder, ![r].pc = "set"]
           /\ excused' = [excused EXCEPT ![t.entity] = TRUE]
    BY <1>1 DEF ReadCover, found
  <2> QED  BY <2>1, <2>2
<1> HIDE DEF found
<1> DEFINE s == [t EXCEPT !.image = image, !.pc = "set"]
<1>6. serve' = [serve EXCEPT ![r] = s]  BY <1>1, <1>4, <1>5
<1>7. s \in Request  BY DEF Request
<1>8. /\ s.entity = t.entity /\ s.size = t.size /\ s.image = image /\ s.pc = "set"
      /\ s.album = t.album
  BY DEF Request
<1>9. /\ excused' \in [Entities -> BOOLEAN]
      /\ \A e \in Entities : excused[e] => excused'[e]
      /\ image = Or(found, Placeholder) \/ excused'[t.entity]
  BY <1>2, <1>4, <1>5 DEF RowsOK
<1>10. /\ \A d \in Entities : Kept(d)
       /\ AdminInv' /\ CoverInv'
  BY <1>3, <1>9, SameRows DEF IInv
<1> HIDE DEF s
<1>11. Reads(s)'
  <2>1. image # None  BY NoneIsNoImage
  <2>2. Doubt(t.entity) => Doubt(t.entity)'  BY <1>2, <1>10 DEF Kept
  <2>3. excused'[t.entity] => Doubt(t.entity)'  BY DEF Doubt
  <2>4. art[t.entity] = None /\ image = Or(Fallback(t.entity), Placeholder)
        => image = Resolved(t.entity)'
    <3>1. Resolved(t.entity)' = Resolved(t.entity)  BY <1>3 DEF Resolved, Fallback, Cover, Or
    <3> QED  BY <3>1 DEF Resolved, Or
  <2>5. image = Resolved(t.entity)' \/ Doubt(t.entity)'
    BY <1>2, <1>9, <1>16, <2>2, <2>3, <2>4
  <2> QED  BY <1>2, <1>8, <2>1, <2>5 DEF Reads, Right
<1>12. ServeInv' /\ serve' \in [Serves -> Request]
  BY <1>4, <1>6, <1>7, <1>10, <1>11, OneServes DEF IInv
<1>13. CopyInv'  BY <1>3, <1>10, CopiesKept DEF IInv
<1>14. Types'  BY <1>3, <1>9, <1>12 DEF IInv, Types, RowsOK, DirOK
<1> QED  BY <1>10, <1>12, <1>13, <1>14 DEF IInv

LEMMA ResolveFailsKeeps ==
  ASSUME IInv, NEW r \in Serves, ResolveFails(r)
  PROVE  IInv'
<1>1. /\ serve' = [serve EXCEPT ![r] = Free]
      /\ UNCHANGED <<art, albumOf, object, mode, disk, redis, admin, uploads, excused, apart>>
  BY DEF ResolveFails
<1>2. /\ \A d \in Entities : Kept(d)
      /\ AdminInv' /\ CoverInv'
  BY <1>1, SameRows DEF IInv
<1>3. ServeInv' /\ serve' \in [Serves -> Request]
  BY <1>1, <1>2, FreeIsFree, OneServes DEF IInv, Types
<1>4. CopyInv'  BY <1>1, <1>2, CopiesKept DEF IInv
<1>5. Types'  BY <1>1, <1>3 DEF IInv, Types, RowsOK, DirOK
<1> QED  BY <1>2, <1>3, <1>4, <1>5 DEF IInv

LEMMA FillKeeps ==
  ASSUME IInv, NEW r \in Serves, Fill(r)
  PROVE  IInv'
<1>1. PICK t \in Request : t = serve[r]  BY DEF IInv, Types
<1>2. t.pc = "set" /\ t.entity \in Entities /\ t.size \in Sizes
      /\ t.image # None /\ Right(t.entity, t.image)
  BY <1>1 DEF Fill, IInv, ServeInv, Reads
<1> DEFINE key == <<t.entity, t.size>>
<1>3. key \in Keys /\ t.image \in Image /\ key[1] = t.entity  BY <1>2 DEF Keys, Request
<1>4. /\ serve' = [serve EXCEPT ![r] = Free]
      /\ UNCHANGED <<art, albumOf, object, mode, admin, uploads, excused, apart>>
      /\ \/ disk' = DiskSet(key, t.image) /\ redis' = redis
         \/ disk' = disk /\ redis' = [redis EXCEPT ![key] = t.image]
         \/ disk' = disk /\ redis' = redis
  BY <1>1 DEF Fill
<1>5. /\ \A d \in Entities : Kept(d)
      /\ AdminInv' /\ CoverInv'
  BY <1>4, SameRows DEF IInv
<1>6. ServeInv' /\ serve' \in [Serves -> Request]
  BY <1>4, <1>5, FreeIsFree, OneServes DEF IInv, Types
<1>7. \A e, image : Right(e, image) => Right(e, image)'
  BY <1>4 DEF Right, Doubt, Resolved, Fallback, Cover, Or, Busy
<1> HIDE DEF key
<1>8. DirOK(disk) /\ RowsOK  BY DEF IInv, Types
<1>9. /\ DirOK(disk)' /\ redis' \in [Keys -> Image \cup {None}]
      /\ \A i \in DOMAIN disk' :
           disk'[i] = [key |-> key, image |-> t.image] \/ \E j \in DOMAIN disk : disk'[i] = disk[j]
      /\ \A k \in Keys : redis'[k] = redis[k] \/ (k = key /\ redis'[k] = t.image)
  <2>1. CASE disk' = DiskSet(key, t.image) /\ redis' = redis
    <3>1. DirOK(DiskSet(key, t.image))  BY <1>3, <1>8, DiskSetOK
    <3>2. DirOK(disk)'  BY <2>1, <3>1 DEF DirOK
    <3>3. \A i \in DOMAIN disk' :
            disk'[i] = [key |-> key, image |-> t.image] \/ \E j \in DOMAIN disk : disk'[i] = disk[j]
      BY <2>1, <1>3, <1>8, DiskSetOK
    <3> QED  BY <2>1, <3>2, <3>3, <1>8 DEF RowsOK
  <2>2. CASE disk' = disk /\ redis' = [redis EXCEPT ![key] = t.image]
    BY <2>2, <1>3, <1>8 DEF RowsOK, DirOK
  <2>3. CASE disk' = disk /\ redis' = redis
    BY <2>3, <1>8 DEF RowsOK, DirOK
  <2> QED  BY <1>4, <2>1, <2>2, <2>3
<1>10. CopyInv'
  <2>1. ASSUME NEW k \in Keys, redis'[k] # None
        PROVE  \E c : c = redis'[k] /\ Right(k[1], c)'
    <3>1. CASE redis'[k] = redis[k]
      <4>1. PICK c : c = redis[k]
        OBVIOUS
      <4>2. Right(k[1], c)  BY <2>1, <3>1, <4>1 DEF IInv, CopyInv
      <4> QED  BY <3>1, <4>1, <4>2, <1>7
    <3>2. CASE k = key /\ redis'[k] = t.image  BY <3>2, <1>2, <1>3, <1>7
    <3>3. redis'[k] = redis[k] \/ (k = key /\ redis'[k] = t.image)  BY <1>9
    <3> QED  BY <3>1, <3>2, <3>3
  <2>2. ASSUME NEW i \in DOMAIN disk'
        PROVE  \E f : f = disk'[i] /\ Right(f.key[1], f.image)'
    <3>1. CASE disk'[i] = [key |-> key, image |-> t.image]
      <4>1. PICK f : f = [key |-> key, image |-> t.image]
        OBVIOUS
      <4>2. f.key[1] = t.entity /\ f.image = t.image  BY <4>1, <1>3
      <4> QED  BY <3>1, <4>1, <4>2, <1>2, <1>7
    <3>2. ASSUME NEW j \in DOMAIN disk, disk'[i] = disk[j]
          PROVE  \E f : f = disk'[i] /\ Right(f.key[1], f.image)'
      <4>1. PICK f : f = disk[j]
        OBVIOUS
      <4>2. Right(f.key[1], f.image)  BY <4>1 DEF IInv, CopyInv
      <4> QED  BY <3>2, <4>1, <4>2, <1>7
    <3> QED  BY <1>9, <3>1, <3>2
  <2> QED  BY <2>1, <2>2, CopiesNext
<1>11. Types'  BY <1>4, <1>6, <1>8, <1>9 DEF IInv, Types, RowsOK
<1> QED  BY <1>5, <1>6, <1>10, <1>11 DEF IInv

LEMMA ExpireKeeps ==
  ASSUME IInv, NEW k \in Keys, Expire(k)
  PROVE  IInv'
<1>1. /\ redis' = [redis EXCEPT ![k] = None]
      /\ UNCHANGED <<art, albumOf, object, mode, disk, serve, admin, uploads, excused, apart>>
  BY DEF Expire
<1>2. /\ \A d \in Entities : Kept(d)
      /\ AdminInv' /\ CoverInv'
  BY <1>1, SameRows DEF IInv
<1>3. RowsOK /\ RowsOK'  BY <1>1 DEF IInv, Types, RowsOK
<1>4. \A e, image : Right(e, image) => Right(e, image)'
  BY <1>1 DEF Right, Doubt, Resolved, Fallback, Cover, Or, Busy
<1>5. CopyInv'
  <2>1. ASSUME NEW l \in Keys, redis'[l] # None
        PROVE  \E c : c = redis'[l] /\ Right(l[1], c)'
    <3>1. redis'[l] = redis[l]  BY <2>1, <1>1, <1>3 DEF RowsOK
    <3>2. PICK c : c = redis[l]
      OBVIOUS
    <3>3. Right(l[1], c)  BY <2>1, <3>1, <3>2 DEF IInv, CopyInv
    <3> QED  BY <3>1, <3>2, <3>3, <1>4
  <2>2. ASSUME NEW i \in DOMAIN disk'
        PROVE  \E f : f = disk'[i] /\ Right(f.key[1], f.image)'
    <3>1. PICK f : f = disk[i]
      OBVIOUS
    <3>2. Right(f.key[1], f.image)  BY <2>2, <3>1, <1>1 DEF IInv, CopyInv
    <3> QED  BY <3>1, <3>2, <1>1, <1>4
  <2> QED  BY <2>1, <2>2, CopiesNext
<1>6. ServeInv'
  <2>1. ASSUME NEW r \in Serves PROVE \E t : t = serve'[r] /\ Reads(t)'
    <3>1. PICK t : t = serve[r]
      OBVIOUS
    <3>2. Reads(t)  BY <3>1 DEF IInv, ServeInv
    <3> QED  BY <3>1, <3>2, <1>1, <1>2, ReadsKept
  <2> QED  BY <2>1, ServesNext
<1>7. Types'  BY <1>1, <1>3 DEF IInv, Types, DirOK
<1> QED  BY <1>2, <1>5, <1>6, <1>7 DEF IInv

-----------------------------------------------------------------------------
(* Uploads and deletions.                                                   *)

LEMMA DoneIsDone == Done \in Change /\ \A u : Writes(u, Done)'
BY DEF Done, Change, Writes

LEMMA WriteKeeps ==
  ASSUME IInv, NEW u \in Admins, NEW e \in Entities, NEW image \in Custom \cup {None},
         Write(u, e, image), uploads' \in 0..MaxUploads
  PROVE  IInv'
<1> DEFINE first == IF e \in Categories THEN "object" ELSE "invalidate"
<1>1. RowsOK /\ serve \in [Serves -> Request] /\ admin \in [Admins -> Change]
  BY DEF IInv, Types
<1>2. PICK alone \in BOOLEAN : alone = (Busy(e) = {})
  OBVIOUS
<1> DEFINE a == [pc |-> first, entity |-> e, image |-> image, alone |-> alone]
<1>3. /\ admin[u].pc = "idle"
      /\ art' = [art EXCEPT ![e] = image]
      /\ excused' = [d \in Entities |-> excused[d] \/ d \in Dependents(e) \ {e}]
      /\ UNCHANGED <<albumOf, object, mode, disk, redis, serve, apart>>
      /\ admin' = [v \in Admins |->
           IF v = u THEN a
           ELSE IF v \in Busy(e) THEN [admin[v] EXCEPT !.alone = FALSE] ELSE admin[v]]
  BY <1>2 DEF Write
<1>4. a \in Change /\ a.pc = first /\ a.entity = e /\ a.image = image /\ a.alone = alone
  BY DEF Change
<1>5. a.pc # "idle"  BY <1>4
<1> HIDE DEF a, first
<1>6. \A v \in Admins : v # u =>
        /\ admin'[v] \in Change
        /\ admin'[v].pc = admin[v].pc /\ admin'[v].entity = admin[v].entity
        /\ admin'[v].image = admin[v].image
        /\ admin'[v].alone => admin[v].alone /\ v \notin Busy(e)
  <2> TAKE v \in Admins
  <2> HAVE v # u
  <2>1. PICK b \in Change : b = admin[v]  BY <1>1
  <2>2. CASE v \in Busy(e)
    <3>1. admin'[v] = [b EXCEPT !.alone = FALSE]  BY <1>3, <2>1, <2>2
    <3>2. [b EXCEPT !.alone = FALSE] \in Change  BY DEF Change
    <3>3. /\ [b EXCEPT !.alone = FALSE].pc = b.pc /\ [b EXCEPT !.alone = FALSE].entity = b.entity
          /\ [b EXCEPT !.alone = FALSE].image = b.image /\ [b EXCEPT !.alone = FALSE].alone = FALSE
      BY DEF Change
    <3> QED  BY <2>1, <3>1, <3>2, <3>3
  <2>3. CASE v \notin Busy(e)  BY <1>3, <2>1, <2>3
  <2> QED  BY <2>2, <2>3
<1>7. admin'[u] = a  BY <1>3
<1>8. admin' \in [Admins -> Change]
  <2>1. \A v \in Admins : admin'[v] \in Change  BY <1>4, <1>6, <1>7
  <2>2. admin' = [v \in Admins |-> admin'[v]]  BY <1>3
  <2> QED  BY <2>1, <2>2
<1>9. /\ \A d : d # e => Busy(d)' = Busy(d)
      /\ Busy(e)' = Busy(e) \cup {u}
  BY <1>3, <1>4, <1>5, <1>6, <1>7 DEF Busy
<1>10. \A d \in Entities : Kept(d)
  <2> TAKE d \in Entities
  <2>1. excused[d] => excused'[d]  BY <1>3
  <2>2. CASE d = e  BY <2>2, <1>9 DEF Kept, Doubt
  <2>3. CASE d # e /\ d \in Dependents(e)
    <3>1. excused'[d]  BY <1>3, <2>3
    <3> QED  BY <3>1 DEF Kept, Doubt
  <2>4. CASE d # e /\ d \notin Dependents(e)
    <3>1. art'[d] = art[d]  BY <1>1, <1>3, <2>4 DEF RowsOK
    <3>2. d \in Followers => albumOf[d] # e  BY <2>4 DEF Dependents
    <3>3. d \in Followers => Cover(albumOf[d])' = Cover(albumOf[d])
      <4> SUFFICES ASSUME d \in Followers PROVE Cover(albumOf[d])' = Cover(albumOf[d])
        OBVIOUS
      <4>1. albumOf'[d] = albumOf[d] /\ albumOf[d] \in Albums \cup {None}
        BY <1>1, <1>3 DEF RowsOK
      <4>2. albumOf[d] # None => art'[albumOf[d]] = art[albumOf[d]]
        BY <1>1, <1>3, <3>2, <4>1 DEF RowsOK, Entities
      <4> QED  BY <4>1, <4>2 DEF Cover
    <3>4. Fallback(d)' = Fallback(d)  BY <1>3, <3>3 DEF Fallback
    <3>5. Resolved(d)' = Resolved(d)  BY <3>1, <3>4 DEF Resolved, Or
    <3> QED  BY <2>1, <2>4, <1>3, <1>9, <3>1, <3>5 DEF Kept, Doubt
  <2> QED  BY <2>2, <2>3, <2>4
<1>11. AdminInv'
  <2> SUFFICES ASSUME NEW v \in Admins PROVE \E b : b = admin'[v] /\ Writes(v, b)'
    BY AdminsNext
  <2>1. PICK b : b = admin'[v]
    OBVIOUS
  <2>2. CASE v = u
    <3>1. b.pc = first /\ b.entity = e /\ b.image = image /\ b.alone = alone
      BY <1>4, <1>7, <2>1, <2>2
    <3>2. art'[e] = image  BY <1>1, <1>3 DEF RowsOK
    <3>3. alone => Busy(e)' = {u}  BY <1>2, <1>9
    <3>4. first = "object" => e \in Categories  BY DEF first
    <3>5. Writes(v, b)'  BY <2>2, <3>1, <3>2, <3>3, <3>4 DEF Writes
    <3> QED  BY <2>1, <3>5
  <2>3. CASE v # u
    <3>1. PICK o : o = admin[v]
      OBVIOUS
    <3>2. Writes(v, o)  BY <3>1 DEF IInv, AdminInv
    <3>3. b.pc = o.pc /\ b.entity = o.entity /\ b.image = o.image
          /\ (b.alone => o.alone /\ v \notin Busy(e))
      BY <1>6, <2>1, <2>3, <3>1
    <3>4. ASSUME b.pc = "object", b.alone
          PROVE  b.image = art'[b.entity] /\ Busy(b.entity)' = {v}
      <4>1. /\ o.entity \in Categories /\ o.image = art[o.entity] /\ Busy(o.entity) = {v}
            /\ v \notin Busy(e)
        BY <3>2, <3>3, <3>4 DEF Writes
      <4>2. o.entity # e
        <5>1. v \in Busy(o.entity)  BY <4>1
        <5> QED  BY <4>1, <5>1
      <4>3. Busy(o.entity)' = {v}  BY <1>9, <4>1, <4>2
      <4>4. art'[o.entity] = art[o.entity]
        BY <1>1, <1>3, <4>1, <4>2 DEF RowsOK, Entities
      <4> QED  BY <3>3, <4>1, <4>3, <4>4
    <3>5. Writes(v, b)'  BY <3>2, <3>3, <3>4 DEF Writes
    <3> QED  BY <2>1, <3>5
  <2> QED  BY <2>2, <2>3
<1>12. CoverInv'
  <2> SUFFICES ASSUME NEW c \in Categories PROVE Agree(c)'
    BY DEF CoverInv
  <2>1. CASE c = e
    <3>1. admin'[u].pc = "object" /\ admin'[u].entity = c  BY <1>4, <1>7, <2>1 DEF first
    <3> QED  BY <3>1 DEF Agree
  <2>2. CASE c # e
    <3>1. art'[c] = art[c]  BY <1>1, <1>3, <2>2 DEF RowsOK, Entities
    <3>2. ASSUME NEW v \in Admins, admin[v].pc = "object", admin[v].entity = c
          PROVE  admin'[v].pc = "object" /\ admin'[v].entity = c
      <4>1. v # u  BY <1>3, <3>2
      <4> QED  BY <1>6, <3>2, <4>1
    <3>3. Agree(c)  BY DEF IInv, CoverInv
    <3> QED  BY <1>3, <3>1, <3>2, <3>3 DEF Agree
  <2> QED  BY <2>1, <2>2
<1>13. ServeInv'
  <2>1. ASSUME NEW r \in Serves PROVE \E t : t = serve'[r] /\ Reads(t)'
    <3>1. PICK t : t = serve[r]
      OBVIOUS
    <3>2. Reads(t)  BY <3>1 DEF IInv, ServeInv
    <3> QED  BY <3>1, <3>2, <1>3, <1>10, ReadsKept
  <2> QED  BY <2>1, ServesNext
<1>14. CopyInv'  BY <1>3, <1>10, CopiesKept DEF IInv
<1>15. Types'
  <2>1. art' \in [Entities -> Picture \cup {None}]  BY <1>1, <1>3 DEF RowsOK, Picture
  <2>2. excused' \in [Entities -> BOOLEAN]  BY <1>1, <1>3 DEF RowsOK
  <2> QED  BY <1>3, <1>8, <2>1, <2>2 DEF IInv, Types, RowsOK, DirOK
<1> QED  BY <1>11, <1>12, <1>13, <1>14, <1>15 DEF IInv

LEMMA UploadKeeps ==
  ASSUME IInv, NEW u \in Admins, Upload(u)
  PROVE  IInv'
<1>1. uploads \in 0..MaxUploads /\ uploads < MaxUploads /\ uploads' = uploads + 1
  BY DEF Upload, IInv, Types, RowsOK
<1>2. PICK e \in Entities \ Lists : Write(u, e, [kind |-> "custom", id |-> uploads + 1])
  BY DEF Upload
<1>3. uploads + 1 \in 1..MaxUploads /\ uploads' \in 0..MaxUploads
  BY <1>1, ArtworkAssumption
<1>4. PICK image \in Custom : image = [kind |-> "custom", id |-> uploads + 1]
  BY <1>3 DEF Custom
<1>5. Write(u, e, image)  BY <1>2, <1>4
<1> QED  BY <1>3, <1>5, WriteKeeps

LEMMA DeleteKeeps ==
  ASSUME IInv, NEW u \in Admins, Delete(u)
  PROVE  IInv'
<1>1. uploads' \in 0..MaxUploads  BY DEF Delete, IInv, Types, RowsOK
<1>2. PICK e \in Entities \ Lists : Write(u, e, None)  BY DEF Delete
<1> QED  BY <1>1, <1>2, WriteKeeps

LEMMA WriteObjectKeeps ==
  ASSUME IInv, NEW u \in Admins, WriteObject(u)
  PROVE  IInv'
<1>1. RowsOK /\ serve \in [Serves -> Request] /\ admin \in [Admins -> Change]
  BY DEF IInv, Types
<1>2. PICK a \in Change : a = admin[u]  BY <1>1
<1>3. Writes(u, a)  BY <1>2 DEF IInv, AdminInv
<1>4. /\ a.pc = "object"
      /\ \/ object' = [object EXCEPT ![a.entity] = a.image]
            /\ apart' = [apart EXCEPT ![a.entity] = ~a.alone]
         \/ object' = object /\ apart' = [apart EXCEPT ![a.entity] = TRUE]
      /\ admin' = [admin EXCEPT ![u].pc = "invalidate"]
      /\ UNCHANGED <<art, albumOf, mode, disk, redis, serve, uploads, excused>>
  BY <1>2 DEF WriteObject, WrittenObject
<1>5. a.entity \in Categories  BY <1>3, <1>4 DEF Writes
<1> DEFINE b == [a EXCEPT !.pc = "invalidate"]
<1>6. b \in Change /\ b.pc = "invalidate" /\ b.entity = a.entity
  BY DEF Change
<1>7. admin' = [admin EXCEPT ![u] = b]  BY <1>1, <1>2, <1>4
<1> HIDE DEF b
<1>8. admin' \in [Admins -> Change] /\ admin'[u] = b
      /\ \A v \in Admins : v # u => admin'[v] = admin[v]
  BY <1>1, <1>6, <1>7
<1>9. \A d : Busy(d)' = Busy(d)
  BY <1>2, <1>4, <1>6, <1>8 DEF Busy
<1>10. \A d \in Entities : Kept(d)
  <2> TAKE d \in Entities
  <2>1. CASE d = a.entity
    <3>1. u \in Busy(d)  BY <1>2, <1>4, <2>1 DEF Busy
    <3> QED  BY <3>1, <1>9 DEF Kept, Doubt
  <2>2. CASE d # a.entity
    <3>1. d \in Categories => object'[d] = object[d]  BY <1>1, <1>4, <2>2 DEF RowsOK
    <3>2. Resolved(d)' = Resolved(d)  BY <1>4, <3>1 DEF Resolved, Fallback, Cover, Or
    <3> QED  BY <1>4, <1>9, <3>2 DEF Kept, Doubt
  <2> QED  BY <2>1, <2>2
<1>11. AdminInv'
  <2> SUFFICES ASSUME NEW v \in Admins PROVE \E o : o = admin'[v] /\ Writes(v, o)'
    BY AdminsNext
  <2>1. PICK o : o = admin'[v]
    OBVIOUS
  <2>2. CASE v = u
    <3>1. o.pc = "invalidate" /\ o.entity \in Entities
      BY <1>5, <1>6, <1>8, <2>1, <2>2 DEF Entities
    <3>2. Writes(v, o)'  BY <3>1 DEF Writes
    <3> QED  BY <2>1, <3>2
  <2>3. CASE v # u
    <3>1. Writes(v, o)  BY <1>8, <2>1, <2>3 DEF IInv, AdminInv
    <3>2. Busy(o.entity)' = Busy(o.entity) /\ art' = art  BY <1>4, <1>9
    <3>3. Writes(v, o)'  BY <3>1, <3>2 DEF Writes
    <3> QED  BY <2>1, <3>3
  <2> QED  BY <2>2, <2>3
<1>12. CoverInv'
  <2> SUFFICES ASSUME NEW c \in Categories PROVE Agree(c)'
    BY DEF CoverInv
  <2>1. CASE c = a.entity
    <3>1. CASE object' = [object EXCEPT ![a.entity] = a.image]
               /\ apart' = [apart EXCEPT ![a.entity] = ~a.alone]
      <4>1. object'[c] = a.image /\ apart'[c] = ~a.alone  BY <1>1, <2>1, <3>1 DEF RowsOK
      <4>2. a.alone => a.image = art[c]  BY <1>3, <1>4, <2>1 DEF Writes
      <4>3. a.alone \in BOOLEAN  BY DEF Change
      <4> QED  BY <1>4, <4>1, <4>2, <4>3 DEF Agree
    <3>2. CASE object' = object /\ apart' = [apart EXCEPT ![a.entity] = TRUE]
      <4>1. apart'[c]  BY <1>1, <2>1, <3>2 DEF RowsOK
      <4> QED  BY <4>1 DEF Agree
    <3> QED  BY <1>4, <3>1, <3>2
  <2>2. CASE c # a.entity
    <3>1. art'[c] = art[c] /\ object'[c] = object[c] /\ apart'[c] = apart[c]
      BY <1>1, <1>4, <2>2 DEF RowsOK
    <3>2. \A v \in Admins : admin[v].entity = c => admin'[v] = admin[v]
      BY <1>2, <1>8, <2>2
    <3>3. Agree(c)  BY DEF IInv, CoverInv
    <3> QED  BY <3>1, <3>2, <3>3 DEF Agree
  <2> QED  BY <2>1, <2>2
<1>13. ServeInv'
  <2>1. ASSUME NEW r \in Serves PROVE \E t : t = serve'[r] /\ Reads(t)'
    <3>1. PICK t : t = serve[r]
      OBVIOUS
    <3>2. Reads(t)  BY <3>1 DEF IInv, ServeInv
    <3> QED  BY <3>1, <3>2, <1>4, <1>10, ReadsKept
  <2> QED  BY <2>1, ServesNext
<1>14. CopyInv'  BY <1>4, <1>10, CopiesKept DEF IInv
<1>15. Types'
  <2>1. a.image \in Picture \cup {None}  BY DEF Change, Picture
  <2>2. object' \in [Categories -> Picture \cup {None}] /\ apart' \in [Categories -> BOOLEAN]
    <3>1. a.alone \in BOOLEAN  BY DEF Change
    <3> QED  BY <1>1, <1>4, <2>1, <3>1 DEF RowsOK
  <2> QED  BY <1>4, <1>8, <2>2 DEF IInv, Types, RowsOK, DirOK
<1> QED  BY <1>11, <1>12, <1>13, <1>14, <1>15 DEF IInv

(* A request that had read before the invalidation is in doubt after it, and so *)
(* are copies the invalidation did not reach.                                   *)
LEMMA InvalidateKeeps ==
  ASSUME IInv, NEW u \in Admins, Invalidate(u)
  PROVE  IInv'
<1>1. RowsOK /\ serve \in [Serves -> Request] /\ admin \in [Admins -> Change] /\ DirOK(disk)
  BY DEF IInv, Types
<1>2. PICK a \in Change : a = admin[u]  BY <1>1
<1>3. Writes(u, a)  BY <1>2 DEF IInv, AdminInv
<1> DEFINE e == a.entity
           gone == {k \in Keys : Invalidated(k, e)}
           cleared == [k \in Keys |-> IF Invalidated(k, e) THEN None ELSE redis[k]]
           inFlight == \E r \in Serves :
                         serve[r].entity = e /\ serve[r].pc \in {"find", "cover", "set"}
           left == \E c \in InRedis : c[1][1] = e
<1>4. /\ a.pc = "invalidate"
      /\ disk' = Without(disk, gone)
      /\ \/ redis' = cleared /\ excused' = [excused EXCEPT ![e] = inFlight]
         \/ redis' = redis /\ excused' = [excused EXCEPT ![e] = TRUE]
         \/ redis' = redis /\ excused' = [excused EXCEPT ![e] = inFlight \/ left]
      /\ admin' = [admin EXCEPT ![u] = Done]
      /\ UNCHANGED <<art, albumOf, object, mode, serve, uploads, apart>>
  BY <1>2 DEF Invalidate
<1>5. e \in Entities  BY <1>3, <1>4 DEF Writes
<1>6. /\ admin' \in [Admins -> Change] /\ admin'[u] = Done
      /\ \A v \in Admins : v # u => admin'[v] = admin[v]
  BY <1>1, <1>4, DoneIsDone
<1>7. /\ \A d : d # e => Busy(d)' = Busy(d)
      /\ Busy(e)' = Busy(e) \ {u} /\ u \in Busy(e)
  BY <1>2, <1>4, <1>6 DEF Busy, Done
<1>8. excused' \in [Entities -> BOOLEAN] /\ \A d \in Entities : d # e => excused'[d] = excused[d]
  BY <1>1, <1>4, <1>5 DEF RowsOK
<1>9. \A d : Resolved(d)' = Resolved(d)  BY <1>4 DEF Resolved, Fallback, Cover, Or
<1>10. \A d \in Entities : d # e => Kept(d)  BY <1>4, <1>7, <1>8, <1>9 DEF Kept, Doubt
<1>11. inFlight => excused'[e]  BY <1>1, <1>4, <1>5 DEF RowsOK
<1>12. \A k \in Keys : k[1] = e /\ redis'[k] # None => redis'[k] = redis[k] /\ excused'[e]
  <2> SUFFICES ASSUME NEW k \in Keys, k[1] = e, redis'[k] # None
               PROVE  redis'[k] = redis[k] /\ excused'[e]
    OBVIOUS
  <2>1. CASE redis' = cleared  BY <2>1 DEF Invalidated
  <2>2. CASE redis' = redis /\ excused' = [excused EXCEPT ![e] = TRUE]
    BY <2>2, <1>1, <1>5 DEF RowsOK
  <2>3. CASE redis' = redis /\ excused' = [excused EXCEPT ![e] = inFlight \/ left]
    <3>1. <<k, redis[k]>> \in InRedis /\ <<k, redis[k]>>[1][1] = e  BY <2>3 DEF InRedis
    <3>2. left  BY <3>1
    <3> QED  BY <1>1, <1>5, <2>3, <3>2 DEF RowsOK
  <2> QED  BY <1>4, <2>1, <2>2, <2>3
<1>13. \A k \in Keys : k[1] # e => redis'[k] = redis[k]  BY <1>1, <1>4 DEF RowsOK, Invalidated
<1>14. redis' \in [Keys -> Image \cup {None}]  BY <1>1, <1>4 DEF RowsOK
<1>15. /\ DirOK(disk)'
       /\ \A n \in DOMAIN disk' : \E i \in DOMAIN disk : disk'[n] = disk[i] /\ disk[i].key[1] # e
  <2>1. DirOK(Without(disk, gone))  BY <1>1, WithoutOK
  <2>2. \A n \in DOMAIN disk' : \E i \in DOMAIN disk : disk'[n] = disk[i] /\ disk[i].key \notin gone
    <3> HIDE DEF gone
    <3> QED  BY <1>1, <1>4, WithoutOK
  <2>3. \A i \in DOMAIN disk : disk[i].key \in Keys
    <3>1. \A i \in DOMAIN disk : disk[i] \in File
      BY <1>1, ElementOfSeq, LenProperties DEF DirOK
    <3> QED  BY <3>1 DEF File
  <2>4. DirOK(disk)'  BY <1>4, <2>1 DEF DirOK
  <2> QED  BY <2>2, <2>3, <2>4 DEF Invalidated
<1> HIDE DEF e, gone, cleared, left
<1>16. AdminInv'
  <2> SUFFICES ASSUME NEW v \in Admins PROVE \E o : o = admin'[v] /\ Writes(v, o)'
    BY AdminsNext
  <2>1. CASE v = u  BY <1>6, <2>1, DoneIsDone
  <2>2. CASE v # u
    <3>1. PICK o : o = admin[v]
      OBVIOUS
    <3>2. Writes(v, o)  BY <3>1 DEF IInv, AdminInv
    <3>3. o.pc = "object" /\ o.alone => Busy(o.entity)' = Busy(o.entity)
      <4> SUFFICES ASSUME o.pc = "object", o.alone PROVE Busy(o.entity)' = Busy(o.entity)
        OBVIOUS
      <4>1. Busy(o.entity) = {v}  BY <3>2 DEF Writes
      <4>2. o.entity # e  BY <1>7, <2>2, <4>1
      <4> QED  BY <1>7, <4>2
    <3>4. Writes(v, o)'  BY <1>4, <3>2, <3>3 DEF Writes
    <3> QED  BY <1>6, <2>2, <3>1, <3>4
  <2> QED  BY <2>1, <2>2
<1>17. CoverInv'
  <2> SUFFICES ASSUME NEW c \in Categories PROVE Agree(c)'
    BY DEF CoverInv
  <2>1. \A v \in Admins : admin[v].pc = "object" => admin'[v] = admin[v]  BY <1>2, <1>4, <1>6
  <2>2. Agree(c)  BY DEF IInv, CoverInv
  <2> QED  BY <1>4, <2>1, <2>2 DEF Agree
<1>18. ServeInv'
  <2>1. ASSUME NEW r \in Serves PROVE \E t : t = serve'[r] /\ Reads(t)'
    <3>1. PICK t : t = serve[r]
      OBVIOUS
    <3>2. Reads(t)  BY <3>1 DEF IInv, ServeInv
    <3>3. Reads(t)'
      <4>1. CASE t.pc = "idle"  BY <4>1 DEF Reads
      <4>2. CASE t.pc # "idle" /\ t.entity # e
        <5>1. t.entity \in Entities  BY <3>2, <4>2 DEF Reads
        <5>2. Kept(t.entity)  BY <1>10, <4>2, <5>1
        <5> QED  BY <1>4, <3>2, <4>2, <5>1, <5>2 DEF Reads, Right, Kept
      <4>3. CASE t.pc # "idle" /\ t.entity = e
        <5>1. t.pc \in {"find", "cover", "set"} => Doubt(e)'
          BY <1>11, <3>1, <4>3 DEF Doubt
        <5>2. t.pc \in {"find", "cover", "set"} => Doubt(t.entity)'  BY <4>3, <5>1 DEF Doubt, Busy
        <5> QED  BY <3>2, <4>3, <5>2 DEF Reads, Right
      <4> QED  BY <4>1, <4>2, <4>3
    <3> QED  BY <1>4, <3>1, <3>3
  <2> QED  BY <2>1, ServesNext
<1> HIDE DEF inFlight
<1>19. CopyInv'
  <2>1. ASSUME NEW k \in Keys, redis'[k] # None
        PROVE  \E c : c = redis'[k] /\ Right(k[1], c)'
    <3>1. PICK c : c = redis'[k]
      OBVIOUS
    <3>2. k[1] \in Entities  BY DEF Keys
    <3>3. PICK d : d = k[1]
      OBVIOUS
    <3>4. CASE d = e
      <4>1. excused'[e]  BY <1>12, <2>1, <3>3, <3>4
      <4>2. Doubt(k[1])'  BY <3>3, <3>4, <4>1 DEF Doubt
      <4> QED  BY <3>1, <4>2 DEF Right
    <3>5. CASE d # e
      <4>1. c = redis[k]  BY <1>13, <3>1, <3>3, <3>5
      <4>2. Right(k[1], c)  BY <2>1, <3>1, <4>1 DEF IInv, CopyInv
      <4>3. Kept(k[1])  BY <1>10, <3>2, <3>3, <3>5
      <4>4. Right(k[1], c)'  BY <4>2, <4>3 DEF Right, Kept
      <4> QED  BY <3>1, <4>4
    <3> QED  BY <3>4, <3>5
  <2>2. ASSUME NEW n \in DOMAIN disk'
        PROVE  \E f : f = disk'[n] /\ Right(f.key[1], f.image)'
    <3>1. PICK i \in DOMAIN disk : disk'[n] = disk[i] /\ disk[i].key[1] # e  BY <1>15
    <3>2. PICK f : f = disk[i]
      OBVIOUS
    <3>3. f \in File  BY <1>1, <3>2, ElementOfSeq, LenProperties DEF DirOK
    <3>4. f.key[1] \in Entities /\ f.key[1] # e  BY <3>1, <3>2, <3>3 DEF File, Keys
    <3>5. Kept(f.key[1])  BY <1>10, <3>4
    <3>6. Right(f.key[1], f.image)  BY <3>2 DEF IInv, CopyInv
    <3>7. Right(f.key[1], f.image)'  BY <3>5, <3>6 DEF Right, Kept
    <3> QED  BY <3>1, <3>2, <3>7
  <2> QED  BY <2>1, <2>2, CopiesNext
<1>20. Types'  BY <1>1, <1>4, <1>6, <1>8, <1>14, <1>15 DEF Types, RowsOK
<1> QED  BY <1>16, <1>17, <1>18, <1>19, <1>20 DEF IInv

-----------------------------------------------------------------------------
(* The scanner, and the process.                                            *)

(* What the scanner and the changes of albums do leaves what depends on it in *)
(* doubt.                                                                     *)
LEMMA ScanKeeps ==
  ASSUME IInv, NEW changed \in SUBSET Entities,
         art' \in [Entities -> Picture \cup {None}],
         albumOf' \in [Followers -> Albums \cup {None}],
         excused' = Doubtful(changed),
         \A e \in Entities \ changed : art'[e] = art[e],
         \A f \in Followers \ changed :
           /\ albumOf'[f] = albumOf[f]
           /\ albumOf[f] # None => art'[albumOf[f]] = art[albumOf[f]],
         changed \cap Categories = {},
         UNCHANGED <<object, mode, disk, redis, serve, admin, uploads, apart>>
  PROVE  IInv'
<1>1. RowsOK  BY DEF IInv, Types
<1>2. excused' \in [Entities -> BOOLEAN] /\ \A e \in Entities : excused[e] => excused'[e]
  BY <1>1 DEF RowsOK, Doubtful
<1>3. \A d : Busy(d)' = Busy(d)  BY DEF Busy
<1>4. \A d \in Entities : Kept(d)
  <2> TAKE d \in Entities
  <2>1. CASE d \in changed
    <3>1. excused'[d]  BY <2>1 DEF Doubtful
    <3> QED  BY <3>1 DEF Kept, Doubt
  <2>2. CASE d \notin changed
    <3>1. art'[d] = art[d]  BY <2>2
    <3>2. d \in Followers => albumOf'[d] = albumOf[d] /\ Cover(albumOf[d])' = Cover(albumOf[d])
      BY <2>2 DEF Cover
    <3>3. Fallback(d)' = Fallback(d)  BY <3>2 DEF Fallback
    <3>4. Resolved(d)' = Resolved(d)  BY <3>1, <3>3 DEF Resolved, Or
    <3> QED  BY <1>2, <1>3, <3>1, <3>2, <3>4 DEF Kept, Doubt
  <2> QED  BY <2>1, <2>2
<1>5. \A c \in Categories : art'[c] = art[c]  BY ArtworkAssumption DEF Entities
<1>6. AdminInv'
  <2> SUFFICES ASSUME NEW v \in Admins PROVE \E o : o = admin'[v] /\ Writes(v, o)'
    BY AdminsNext
  <2>1. PICK o : o = admin[v]
    OBVIOUS
  <2>2. Writes(v, o)  BY <2>1 DEF IInv, AdminInv
  <2>3. Writes(v, o)'  BY <1>3, <1>5, <2>2 DEF Writes
  <2> QED  BY <2>1, <2>3
<1>7. CoverInv'  BY <1>5 DEF IInv, CoverInv, Agree
<1>8. ServeInv'
  <2>1. ASSUME NEW r \in Serves PROVE \E t : t = serve'[r] /\ Reads(t)'
    <3>1. PICK t : t = serve[r]
      OBVIOUS
    <3>2. Reads(t)  BY <3>1 DEF IInv, ServeInv
    <3> QED  BY <3>1, <3>2, <1>4, ReadsKept
  <2> QED  BY <2>1, ServesNext
<1>9. CopyInv'  BY <1>4, CopiesKept DEF IInv
<1>10. Types'  BY <1>1, <1>2 DEF IInv, Types, RowsOK, DirOK
<1> QED  BY <1>6, <1>7, <1>8, <1>9, <1>10 DEF IInv

LEMMA Sorts ==
  /\ Albums \cap Followers = {} /\ Categories \cap (Followers \cup Albums) = {}
  /\ Albums \subseteq Entities /\ Followers \subseteq Entities /\ Songs \subseteq Followers
  /\ \A a \in Albums : Dependents(a) \in SUBSET Entities /\ Dependents(a) \cap Categories = {}
BY ArtworkAssumption DEF Followers, Entities, Dependents

(* The cover of one album changes, and maybe the album and the picture of s. *)
LEMMA CoverKeeps ==
  ASSUME IInv, NEW s \in Followers, NEW a \in Albums, NEW changed,
         NEW mine \in Picture \cup {None}, NEW cover \in Picture \cup {None},
         changed = {s} \cup Dependents(a) \/ (changed = {s} /\ cover = art[a]),
         albumOf' = [albumOf EXCEPT ![s] = a],
         art' = [art EXCEPT ![s] = mine, ![a] = cover],
         excused' = Doubtful(changed),
         UNCHANGED <<object, mode, disk, redis, serve, admin, uploads, apart>>
  PROVE  IInv'
<1>1. /\ art \in [Entities -> Picture \cup {None}]
      /\ albumOf \in [Followers -> Albums \cup {None}]
  BY DEF IInv, Types, RowsOK
<1>2. s \in Entities /\ a \in Entities /\ s # a /\ s \notin Categories  BY Sorts
<1>3. changed \in SUBSET Entities /\ changed \cap Categories = {} /\ s \in changed
  BY <1>2, Sorts
<1>4. art' \in [Entities -> Picture \cup {None}]  BY <1>1
<1>5. albumOf' \in [Followers -> Albums \cup {None}]  BY <1>1
<1>6. \A e \in Entities : e \notin {s, a} => art'[e] = art[e]  BY <1>1
<1>7. a \notin changed => art'[a] = art[a]
  <2>1. a \in Dependents(a)  BY DEF Dependents
  <2> QED  BY <1>1, <1>2, <2>1
<1>8. \A e \in Entities \ changed : art'[e] = art[e]  BY <1>3, <1>6, <1>7
<1>9. \A f \in Followers \ changed :
        /\ albumOf'[f] = albumOf[f]
        /\ albumOf[f] # None => art'[albumOf[f]] = art[albumOf[f]]
  <2> TAKE f \in Followers \ changed
  <2>1. f # s  BY <1>3
  <2>2. albumOf'[f] = albumOf[f] /\ albumOf[f] \in Albums \cup {None}  BY <1>1, <2>1
  <2>3. ASSUME albumOf[f] # None PROVE art'[albumOf[f]] = art[albumOf[f]]
    <3>1. albumOf[f] \in Entities /\ albumOf[f] # s  BY <2>2, <2>3, Sorts
    <3>2. CASE albumOf[f] = a
      <4>1. f \in Dependents(a)  BY <3>2 DEF Dependents
      <4>2. cover = art[a]  BY <4>1
      <4> QED  BY <1>1, <1>2, <3>2, <4>2
    <3>3. CASE albumOf[f] # a  BY <1>6, <3>1, <3>3
    <3> QED  BY <3>2, <3>3
  <2> QED  BY <2>2, <2>3
<1> QED  BY <1>3, <1>4, <1>5, <1>8, <1>9, ScanKeeps

LEMMA IndexFileKeeps ==
  ASSUME IInv, NEW s \in Songs, IndexFile(s)
  PROVE  IInv'
<1> DEFINE cover == [kind |-> "embedded", id |-> s]
<1>1. PICK a \in Albums :
        /\ albumOf' = [albumOf EXCEPT ![s] = a]
        /\ art' = [art EXCEPT ![s] = cover, ![a] = cover]
        /\ excused' = Doubtful({s} \cup Dependents(a))
        /\ UNCHANGED <<object, mode, disk, redis, serve, admin, uploads, apart>>
  BY DEF IndexFile
<1>2. cover \in Picture \cup {None}  BY DEF Picture
<1>3. s \in Followers  BY Sorts
<1> HIDE DEF cover
<1>4. PICK changed : changed = {s} \cup Dependents(a)
  OBVIOUS
<1>5. excused' = Doubtful(changed)  BY <1>1, <1>4
<1> QED  BY <1>1, <1>2, <1>3, <1>4, <1>5, CoverKeeps

LEMMA MoveKeeps ==
  ASSUME IInv, NEW f \in Followers, Move(f)
  PROVE  IInv'
<1>1. PICK a \in Albums \cup {None} :
        /\ albumOf' = [albumOf EXCEPT ![f] = a]
        /\ excused' = Doubtful({f})
        /\ UNCHANGED <<art, object, mode, disk, redis, serve, admin, uploads, apart>>
  BY DEF Move
<1>2. /\ art \in [Entities -> Picture \cup {None}]
      /\ albumOf \in [Followers -> Albums \cup {None}]
  BY DEF IInv, Types, RowsOK
<1>3. albumOf' \in [Followers -> Albums \cup {None}]  BY <1>1, <1>2
<1>4. \A g \in Followers \ {f} : albumOf'[g] = albumOf[g]  BY <1>1, <1>2
<1>5. {f} \in SUBSET Entities /\ {f} \cap Categories = {}  BY Sorts
<1> QED  BY <1>1, <1>2, <1>3, <1>4, <1>5, ScanKeeps

LEMMA RenameKeeps ==
  ASSUME IInv, NEW s \in Songs, Rename(s)
  PROVE  IInv'
<1>1. PICK b \in Albums \ {albumOf[s]} :
        /\ albumOf' = [albumOf EXCEPT ![s] = b]
        /\ art' = [art EXCEPT ![b] = Or(@, art[albumOf[s]])]
        /\ excused' = Doubtful({s} \cup IF art[b] = None THEN Dependents(b) ELSE {})
        /\ UNCHANGED <<object, mode, disk, redis, serve, admin, uploads, apart>>
  BY DEF Rename
<1>2. /\ art \in [Entities -> Picture \cup {None}]
      /\ albumOf \in [Followers -> Albums \cup {None}]
  BY DEF IInv, Types, RowsOK
<1>3. s \in Followers /\ s \in Entities /\ b \in Entities  BY Sorts
<1>4. albumOf[s] \in Albums  BY <1>2, <1>3 DEF Rename
<1>5. PICK cover : cover = Or(art[b], art[albumOf[s]])
  OBVIOUS
<1>6. cover \in Picture \cup {None} /\ art[s] \in Picture \cup {None}
  BY <1>2, <1>3, <1>4, <1>5, Sorts DEF Or
<1>7. art' = [art EXCEPT ![s] = art[s], ![b] = cover]
  <2>1. art' = [art EXCEPT ![b] = cover]  BY <1>1, <1>2, <1>3, <1>5
  <2>2. [art EXCEPT ![s] = art[s]] = art  BY <1>2, <1>3
  <2>3. s # b  BY Sorts, <1>3
  <2> QED  BY <1>2, <2>1, <2>2, <2>3
<1>8. PICK changed : changed = {s} \cup IF art[b] = None THEN Dependents(b) ELSE {}
  OBVIOUS
<1>9. changed = {s} \cup Dependents(b) \/ (changed = {s} /\ cover = art[b])
  BY <1>5, <1>8 DEF Or
<1>10. excused' = Doubtful(changed)  BY <1>1, <1>8
<1> QED  BY <1>1, <1>3, <1>6, <1>7, <1>9, <1>10, CoverKeeps

LEMMA ImportFolderCoverKeeps ==
  ASSUME IInv, NEW a \in Albums, ImportFolderCover(a)
  PROVE  IInv'
<1> DEFINE cover == [kind |-> "folder", id |-> a]
<1>1. /\ art' = [art EXCEPT ![a] = cover]
      /\ excused' = Doubtful(Dependents(a))
      /\ UNCHANGED <<albumOf, object, mode, disk, redis, serve, admin, uploads, apart>>
  BY DEF ImportFolderCover
<1>2. /\ art \in [Entities -> Picture \cup {None}]
      /\ albumOf \in [Followers -> Albums \cup {None}]
  BY DEF IInv, Types, RowsOK
<1>3. cover \in Picture  BY DEF Picture
<1> HIDE DEF cover
<1>4. a \in Entities /\ a \in Dependents(a)  BY Sorts DEF Dependents
<1>5. art' \in [Entities -> Picture \cup {None}]  BY <1>1, <1>2, <1>3
<1>6. \A e \in Entities : e # a => art'[e] = art[e]  BY <1>1, <1>2
<1>7. \A f \in Followers \ Dependents(a) :
        /\ albumOf'[f] = albumOf[f]
        /\ albumOf[f] # None => art'[albumOf[f]] = art[albumOf[f]]
  <2> TAKE f \in Followers \ Dependents(a)
  <2>1. albumOf[f] # a /\ albumOf[f] \in Albums \cup {None}  BY <1>2 DEF Dependents
  <2> QED  BY <1>1, <1>6, <2>1, Sorts
<1>8. Dependents(a) \in SUBSET Entities /\ Dependents(a) \cap Categories = {}  BY Sorts
<1>9. \A e \in Entities \ Dependents(a) : art'[e] = art[e]  BY <1>4, <1>6
<1> QED  BY <1>1, <1>2, <1>5, <1>7, <1>8, <1>9, ScanKeeps

(* Whoever was changing a cover when the process ended leaves it in doubt.  *)
LEMMA RestartKeeps ==
  ASSUME IInv, Restart
  PROVE  IInv'
<1>1. RowsOK /\ DirOK(disk)  BY DEF IInv, Types
<1>2. /\ mode' \in {"disk", "redis"}
      /\ serve' = [r \in Serves |-> Free]
      /\ admin' = [u \in Admins |-> Done]
      /\ excused' = [e \in Entities |-> excused[e] \/ Busy(e) # {}]
      /\ apart' = [c \in Categories |-> apart[c] \/ \E u \in Busy(c) : admin[u].pc = "object"]
      /\ UNCHANGED <<art, albumOf, object, disk, redis, uploads>>
  BY DEF Restart
<1>3. \A e \in Entities : excused'[e] <=> Doubt(e)  BY <1>2 DEF Doubt
<1>4. \A e \in Entities : Kept(e)
  <2> TAKE e \in Entities
  <2>1. Resolved(e)' = Resolved(e)  BY <1>2 DEF Resolved, Fallback, Cover, Or
  <2>2. Doubt(e) => Doubt(e)'  BY <1>3 DEF Doubt
  <2> QED  BY <1>2, <2>1, <2>2 DEF Kept
<1>5. serve' \in [Serves -> Request] /\ admin' \in [Admins -> Change]
  BY <1>2, FreeIsFree, DoneIsDone
<1>6. ServeInv'
  <2>1. \A r \in Serves : serve'[r] = Free  BY <1>2
  <2> QED  BY <2>1, FreeIsFree, ServesNext
<1>7. AdminInv'
  <2>1. \A u \in Admins : admin'[u] = Done  BY <1>2
  <2> QED  BY <2>1, DoneIsDone, AdminsNext
<1>8. CopyInv'  BY <1>2, <1>4, CopiesKept DEF IInv
<1>9. CoverInv'
  <2> SUFFICES ASSUME NEW c \in Categories PROVE Agree(c)'
    BY DEF CoverInv
  <2>1. Agree(c)  BY DEF IInv, CoverInv
  <2>2. (\E u \in Admins : admin[u].pc = "object" /\ admin[u].entity = c) => apart'[c]
    BY <1>2 DEF Busy
  <2>3. apart[c] => apart'[c]  BY <1>2
  <2> QED  BY <1>2, <2>1, <2>2, <2>3 DEF Agree
<1>10. Types'
  <2>1. excused' \in [Entities -> BOOLEAN] /\ apart' \in [Categories -> BOOLEAN]
    BY <1>1, <1>2 DEF RowsOK
  <2> QED  BY <1>1, <1>2, <1>5, <2>1 DEF Types, RowsOK, DirOK
<1> QED  BY <1>6, <1>7, <1>8, <1>9, <1>10 DEF IInv

-----------------------------------------------------------------------------
(* The theorems.                                                            *)

LEMMA InvInit == Init => IInv
<1> SUFFICES ASSUME Init PROVE IInv
  OBVIOUS
<1>1. DirOK(disk)
  <2>1. disk = <<>> /\ <<>> \in Seq(File) /\ Len(<<>>) = 0 /\ DOMAIN <<>> = {}
    BY EmptySeq DEF Init
  <2>2. 0 <= Limit  BY ArtworkAssumption
  <2> QED  BY <2>1, <2>2 DEF DirOK
<1>2. DOMAIN disk = {}  BY DEF Init
<1>3. RowsOK
  <2>1. mode \in {"disk", "redis"}  BY DEF Init
  <2>2. uploads \in 0..MaxUploads  BY ArtworkAssumption DEF Init
  <2> QED  BY <2>1, <2>2 DEF Init, RowsOK
<1>4. serve \in [Serves -> Request] /\ admin \in [Admins -> Change]
  BY FreeIsFree, DoneIsDone DEF Init
<1>5. ServeInv  BY DEF Init, ServeInv, Reads, Free
<1>6. AdminInv  BY DEF Init, AdminInv, Writes, Done
<1>7. CopyInv  BY <1>2 DEF Init, CopyInv
<1>8. CoverInv
  <2>1. \A c \in Categories : art[c] = object[c]  BY DEF Init, Entities
  <2> QED  BY <2>1 DEF CoverInv, Agree
<1> QED  BY <1>1, <1>3, <1>4, <1>5, <1>6, <1>7, <1>8 DEF IInv, Types

LEMMA InvStep == IInv /\ [Next]_vars => IInv'
<1> SUFFICES ASSUME IInv, [Next]_vars PROVE IInv'
  OBVIOUS
<1>1. ASSUME NEW r \in Serves,
             \/ Miss(r) \/ ReadOwn(r) \/ FindAlbum(r) \/ ReadCover(r)
             \/ ResolveFails(r) \/ Fill(r)
      PROVE  IInv'
  BY <1>1, MissKeeps, ReadOwnKeeps, FindAlbumKeeps, ReadCoverKeeps, ResolveFailsKeeps, FillKeeps
<1>2. ASSUME NEW u \in Admins, Upload(u) \/ Delete(u) \/ WriteObject(u) \/ Invalidate(u)
      PROVE  IInv'
  BY <1>2, UploadKeeps, DeleteKeeps, WriteObjectKeeps, InvalidateKeeps
<1>3. ASSUME NEW k \in Keys, Expire(k) PROVE IInv'  BY <1>3, ExpireKeeps
<1>4. ASSUME NEW s \in Songs, IndexFile(s) \/ Rename(s) PROVE IInv'
  BY <1>4, IndexFileKeeps, RenameKeeps
<1>8. ASSUME NEW f \in Followers, Move(f) PROVE IInv'  BY <1>8, MoveKeeps
<1>5. ASSUME NEW a \in Albums, ImportFolderCover(a) PROVE IInv'  BY <1>5, ImportFolderCoverKeeps
<1>6. CASE Restart  BY <1>6, RestartKeeps
<1>7. CASE UNCHANGED vars
  BY <1>7 DEF vars, IInv, Types, RowsOK, DirOK, ServeInv, Reads, AdminInv, Writes, CopyInv,
              CoverInv, Agree, Right, Doubt, Resolved, Fallback, Cover, Or, Busy
<1> QED  BY <1>1, <1>2, <1>3, <1>4, <1>5, <1>6, <1>7, <1>8 DEF Next

LEMMA InvHolds == Spec => []IInv
BY InvInit, InvStep, PTL DEF Spec

(* Types, and the two copies of a category's cover: after uploads and deletions    *)
(* (UploadCategoryPhoto, DeleteCategoryPhoto) that did not overlap, fail or crash, *)
(* the table and the bucket hold the same picture.                                 *)
THEOREM CoversTogether == Spec => []Sound
<1>1. IInv => Sound
  <2> SUFFICES ASSUME IInv PROVE Sound
    OBVIOUS
  <2>1. TypeOK  BY TypesAreTypeOK DEF IInv
  <2>2. CoversAgreeUnlessApart
    BY DEF IInv, CoverInv, Agree, CoversAgreeUnlessApart, Busy
  <2> QED  BY <2>1, <2>2 DEF Sound
<1> QED  BY <1>1, InvHolds, PTL

(* Whatever overlaps, fails or restarts, a cached copy of any size is the picture *)
(* that Serve would make now, unless one of the causes named by excused came up   *)
(* since the last invalidation, or an upload or deletion is still under way.      *)
THEOREM WrongCopiesAreExcused == Spec => []StaleOnlyIfExcused
<1>1. IInv => StaleOnlyIfExcused
  <2> SUFFICES ASSUME IInv, NEW c \in Cached
               PROVE  c[2] = Resolved(c[1][1]) \/ excused[c[1][1]] \/ Busy(c[1][1]) # {}
    BY DEF StaleOnlyIfExcused
  <2>1. CASE c \in OnDisk
    <3>1. PICK f \in Range(disk) : c = <<f.key, f.image>>  BY <2>1 DEF OnDisk
    <3>2. PICK i \in DOMAIN disk : f = disk[i]  BY <3>1 DEF Range
    <3>3. Right(f.key[1], f.image)  BY <3>2 DEF IInv, CopyInv
    <3> QED  BY <3>1, <3>3 DEF Right, Doubt
  <2>2. CASE c \in InRedis
    <3>1. PICK k \in Keys : redis[k] # None /\ c = <<k, redis[k]>>  BY <2>2 DEF InRedis
    <3>2. Right(k[1], redis[k])  BY <3>1 DEF IInv, CopyInv
    <3> QED  BY <3>1, <3>2 DEF Right, Doubt
  <2> QED  BY <2>1, <2>2 DEF Cached
<1> QED  BY <1>1, InvHolds, PTL

================================================================================
