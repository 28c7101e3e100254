------------------------ MODULE StructuredDataProofs ------------------------
(* Theorems about StructuredData, for any sources, whatever is in their    *)
(* files, and any number of imports.                                       *)
EXTENDS StructuredData, FiniteSetTheorems, SequenceTheorems, TLAPS

(* Counting by way of a function.                                          *)
LEMMA RangeIsFinite ==
    ASSUME NEW f, IsFiniteSet(DOMAIN f)
    PROVE  IsFiniteSet({f[x] : x \in DOMAIN f})
<1> DEFINE R == {f[x] : x \in DOMAIN f}
           g == [x \in DOMAIN f |-> f[x]]
<1>1. g \in Surjection(DOMAIN f, R)
  BY DEF Surjection
<1> QED
  BY <1>1, FS_Surjection

LEMMA RangeCount ==
    ASSUME NEW f, IsFiniteSet(DOMAIN f), \A x, y \in DOMAIN f : f[x] = f[y] => x = y
    PROVE  Cardinality({f[x] : x \in DOMAIN f}) = Cardinality(DOMAIN f)
<1> DEFINE R == {f[x] : x \in DOMAIN f}
           g == [x \in DOMAIN f |-> f[x]]
<1>1. g \in Surjection(DOMAIN f, R)
  BY DEF Surjection
<1>2. g \in Injection(DOMAIN f, R)
  BY DEF Injection, IsInjective
<1> QED
  BY <1>1, <1>2, FS_Surjection

(* The rank of a number in a finite set: how many are smaller.             *)
Rank(S, x) == Cardinality({y \in S : y < x})

LEMMA RankIncreases ==
    ASSUME NEW S \in SUBSET Int, IsFiniteSet(S), NEW x \in S, NEW y \in S, x < y
    PROVE  Rank(S, x) < Rank(S, y)
<1> DEFINE A == {z \in S : z < x}
           B == {z \in S : z < y}
<1>1. IsFiniteSet(B) /\ Cardinality(B) \in Nat
  BY FS_Subset, FS_CardinalityType, B \in SUBSET S
<1>2. A \in SUBSET B /\ x \in B /\ x \notin A
  <2>1. x \in Int /\ y \in Int /\ \A z \in S : z \in Int
    OBVIOUS
  <2>2. \A z \in S : z < x => z < y
    BY <2>1
  <2>3. A \in SUBSET B
    BY <2>2
  <2>4. x \in B /\ ~(x < x)
    BY <2>1
  <2> QED
    BY <2>3, <2>4
<1>3. IsFiniteSet(A) /\ Cardinality(A) <= Cardinality(B) /\ (Cardinality(B) = Cardinality(A) => B = A)
  BY <1>1, <1>2, FS_Subset
<1>4. Cardinality(A) \in Nat /\ A # B
  BY <1>2, <1>3, FS_CardinalityType
<1> QED
  BY <1>1, <1>3, <1>4 DEF Rank

LEMMA RankRange ==
    ASSUME NEW S \in SUBSET Int, IsFiniteSet(S), NEW x \in S
    PROVE  Rank(S, x) \in 0..(Cardinality(S) - 1)
<1> DEFINE A == {z \in S : z < x}
<1>1. A \in SUBSET S /\ x \notin A
  OBVIOUS
<1>2. IsFiniteSet(A) /\ Cardinality(A) <= Cardinality(S) /\ (Cardinality(S) = Cardinality(A) => S = A)
  BY <1>1, FS_Subset
<1>3. Cardinality(A) \in Nat /\ Cardinality(S) \in Nat /\ A # S
  BY <1>1, <1>2, FS_CardinalityType
<1> QED
  BY <1>2, <1>3 DEF Rank

LEMMA RankOnto ==
    ASSUME NEW S \in SUBSET Int, IsFiniteSet(S), NEW n \in 1..Cardinality(S)
    PROVE  \E x \in S : Rank(S, x) = n - 1
<1> DEFINE N == 0..(Cardinality(S) - 1)
           f == [x \in S |-> Rank(S, x)]
<1>1. Cardinality(S) \in Nat
  BY FS_CardinalityType
<1>2. IsFiniteSet(N) /\ Cardinality(N) = Cardinality(S)
  <2>1. Cardinality(S) - 1 \in Int
    BY <1>1
  <2> QED
    BY <1>1, <2>1, FS_Interval
<1>3. f \in [S -> N]
  BY RankRange
<1>4. ASSUME NEW x \in S, NEW y \in S, f[x] = f[y] PROVE x = y
  <2>1. f[x] \in Int /\ f[y] \in Int
    BY <1>1, <1>3
  <2>2. ~(x < y) /\ ~(y < x)
    BY <1>4, <2>1, RankIncreases
  <2> QED
    BY <2>2
<1>5. f \in Injection(S, N)
  <2>1. DOMAIN f = S
    OBVIOUS
  <2> HIDE DEF f, N
  <2> QED
    BY <1>3, <1>4, <2>1 DEF Injection, IsInjective
<1>6. f \in Surjection(S, N)
  <2> HIDE DEF f, N
  <2> QED
    BY <1>2, <1>5, FS_Injection
<1>7. n - 1 \in N
  BY <1>1
<1>8. PICK x \in S : f[x] = n - 1
  <2> HIDE DEF f, N
  <2> QED
    BY <1>6, <1>7 DEF Surjection
<1> QED
  BY <1>8

(* Ordered puts each number of a finite set at one place, in their order.  *)
THEOREM OrderedSorts ==
    ASSUME NEW S \in SUBSET Int, IsFiniteSet(S)
    PROVE  /\ Ordered(S) \in [1..Cardinality(S) -> S]
           /\ \A m, n \in 1..Cardinality(S) : m < n => Ordered(S)[m] < Ordered(S)[n]
           /\ \A x \in S : \E n \in 1..Cardinality(S) : Ordered(S)[n] = x
<1>0. Cardinality(S) \in Nat
  BY FS_CardinalityType
<1>1. ASSUME NEW n \in 1..Cardinality(S)
      PROVE  Ordered(S)[n] \in S /\ Rank(S, Ordered(S)[n]) = n - 1
  <2>1. \E x \in S : Rank(S, x) = n - 1
    BY RankOnto
  <2>2. Ordered(S)[n] = CHOOSE x \in S : Rank(S, x) = n - 1
    BY DEF Ordered, Rank
  <2> QED
    BY <2>1, <2>2
<1>2. Ordered(S) \in [1..Cardinality(S) -> S]
  <2> DEFINE pick(n) == CHOOSE x \in S : Cardinality({y \in S : y < x}) = n - 1
  <2>1. Ordered(S) = [n \in 1..Cardinality(S) |-> pick(n)]
    BY DEF Ordered
  <2> HIDE DEF pick
  <2>2. \A n \in 1..Cardinality(S) : pick(n) \in S
    BY <1>1, <2>1
  <2> QED
    BY ONLY <2>1, <2>2
<1>3. ASSUME NEW x \in S, NEW y \in S, Rank(S, x) = Rank(S, y) PROVE x = y
  <2>1. Rank(S, x) \in Int
    BY <1>0, RankRange
  <2>2. ~(x < y) /\ ~(y < x)
    BY <1>3, <2>1, RankIncreases
  <2> QED
    BY <2>2
<1>4. ASSUME NEW m \in 1..Cardinality(S), NEW n \in 1..Cardinality(S), m < n
      PROVE  Ordered(S)[m] < Ordered(S)[n]
  <2> DEFINE x == Ordered(S)[m]
             y == Ordered(S)[n]
  <2>1. x \in S /\ y \in S /\ Rank(S, x) = m - 1 /\ Rank(S, y) = n - 1
    BY <1>1
  <2>2. x \in Int /\ y \in Int
    BY <2>1
  <2>3. x # y
    BY <1>4, <2>1
  <2>4. ~(y < x)
    <3>1. y < x => Rank(S, y) < Rank(S, x)
      BY <2>1, RankIncreases
    <3> QED
      BY <1>0, <1>4, <2>1, <3>1
  <2> QED
    BY <2>2, <2>3, <2>4
<1>5. ASSUME NEW x \in S PROVE \E n \in 1..Cardinality(S) : Ordered(S)[n] = x
  <2> DEFINE n == Rank(S, x) + 1
  <2>1. n \in 1..Cardinality(S) /\ n - 1 = Rank(S, x)
    BY <1>0, RankRange
  <2>2. Ordered(S)[n] \in S /\ Rank(S, Ordered(S)[n]) = Rank(S, x)
    BY <1>1, <2>1
  <2> QED
    BY <1>3, <2>1, <2>2
<1> QED
  BY <1>2, <1>4, <1>5

LEMMA OrderedInterval ==
    ASSUME NEW a \in Int, NEW n \in Nat
    PROVE  Ordered(a..(a + n - 1)) = [k \in 1..n |-> a + k - 1]
<1> DEFINE S == a..(a + n - 1)
<1>1. S \in SUBSET Int /\ IsFiniteSet(S) /\ Cardinality(S) = n
  <2>1. a + n - 1 \in Int /\ (a > a + n - 1 => n = 0)
    OBVIOUS
  <2> QED
    BY <2>1, FS_Interval
<1>2. ASSUME NEW x \in S PROVE Cardinality({y \in S : y < x}) = x - a
  <2>1. x \in Int /\ a <= x /\ x - 1 \in Int
    OBVIOUS
  <2>2. {y \in S : y < x} = a..(x - 1)
    OBVIOUS
  <2>3. Cardinality(a..(x - 1)) = IF a > x - 1 THEN 0 ELSE x - 1 - a + 1
    BY <2>1, FS_Interval
  <2>4. Cardinality(a..(x - 1)) = x - a
    BY <2>1, <2>3
  <2> HIDE DEF S
  <2> QED
    BY <2>2, <2>4
<1>3. ASSUME NEW k \in 1..n
      PROVE  (CHOOSE x \in S : Cardinality({y \in S : y < x}) = k - 1) = a + k - 1
  <2>1. a + k - 1 \in S
    OBVIOUS
  <2>2. \A x \in S : Cardinality({y \in S : y < x}) = k - 1 <=> x = a + k - 1
    BY <1>2
  <2> HIDE DEF S
  <2> QED
    BY <2>1, <2>2
<1> QED
  BY <1>1, <1>3 DEF Ordered

(* Pick keeps the elements at the places, each as often as it was there.   *)
LEMMA PickKeeps ==
    ASSUME NEW list, NEW places \in SUBSET Int, IsFiniteSet(places)
    PROVE  /\ Cardinality(places) \in Nat
           /\ DOMAIN Pick(list, places) = 1..Cardinality(places)
           /\ \A n \in 1..Cardinality(places) :
                 \E p \in places : Pick(list, places)[n] = list[p]
           /\ \A p \in places : \E n \in 1..Cardinality(places) :
                 Pick(list, places)[n] = list[p]
           /\ (\A p, q \in places : list[p] = list[q] => p = q) =>
                 \A m, n \in 1..Cardinality(places) :
                    Pick(list, places)[m] = Pick(list, places)[n] => m = n
<1> DEFINE order == Ordered(places)
           N == 1..Cardinality(places)
<1>1. Cardinality(places) \in Nat
  BY FS_CardinalityType
<1>2. order \in [N -> places] /\ (\A m, n \in N : m < n => order[m] < order[n])
                              /\ (\A x \in places : \E n \in N : order[n] = x)
  BY OrderedSorts
<1>3. Pick(list, places) = [n \in N |-> list[order[n]]]
  BY <1>2 DEF Pick
<1>4. ASSUME \A p, q \in places : list[p] = list[q] => p = q,
             NEW m \in N, NEW n \in N, list[order[m]] = list[order[n]]
      PROVE  m = n
  <2>1. order[m] = order[n] /\ order[m] \in Int
    BY <1>2, <1>4
  <2>2. ~(m < n) /\ ~(n < m)
    BY <1>2, <2>1
  <2> QED
    BY <1>1, <2>2
<1>5. DOMAIN Pick(list, places) = N /\ \A n \in N : Pick(list, places)[n] = list[order[n]]
  BY <1>3
<1> HIDE DEF order, N
<1>6. \A n \in N : \E p \in places : Pick(list, places)[n] = list[p]
  BY <1>2, <1>5
<1>7. \A p \in places : \E n \in N : Pick(list, places)[n] = list[p]
  BY <1>2, <1>5
<1>8. (\A p, q \in places : list[p] = list[q] => p = q) =>
         \A m, n \in N : Pick(list, places)[m] = Pick(list, places)[n] => m = n
  BY <1>4, <1>5
<1> QED
  BY <1>1, <1>5, <1>6, <1>7, <1>8 DEF N
-----------------------------------------------------------------------------
(* What is in the files.                                                   *)

LEMMA FilesAre ==
    ASSUME NEW raw, IsRaw(raw), NEW f \in Files
    PROVE  /\ Len(raw[f]) \in Nat /\ DOMAIN raw[f] = 1..Len(raw[f])
           /\ IsFiniteSet(DOMAIN raw[f]) /\ IsFiniteSet(ToSet(raw[f]))
           /\ \A i, j \in DOMAIN raw[f] : raw[f][i].key = raw[f][j].key => i = j
           /\ Cardinality(ToSet(raw[f])) = Len(raw[f])
<1>1. Len(raw[f]) \in Nat /\ DOMAIN raw[f] = 1..Len(raw[f])
  BY DEF IsRaw, Files, EntityFiles
<1>2. IsFiniteSet(DOMAIN raw[f]) /\ Cardinality(DOMAIN raw[f]) = Len(raw[f])
  BY <1>1, FS_Interval
<1>3. \A i, j \in DOMAIN raw[f] : raw[f][i].key = raw[f][j].key => i = j
  <2>1. IsObject(raw[f])
    BY DEF IsRaw
  <2> QED
    BY <2>1 DEF IsObject, IsInjective
<1>4. \A i, j \in DOMAIN raw[f] : raw[f][i] = raw[f][j] => i = j
  BY <1>3
<1>5. ToSet(raw[f]) = {raw[f][i] : i \in DOMAIN raw[f]}
  BY DEF ToSet
<1> QED
  BY <1>1, <1>2, <1>3, <1>4, <1>5, RangeIsFinite, RangeCount

LEMMA RecordsAre ==
    ASSUME NEW raw, IsRaw(raw)
    PROVE  /\ \A kind \in Kinds : \A e \in ToSet(raw[kind]) : e \in Bases
           /\ \A e \in ToSet(raw.trait) : e \in TierRecord
           /\ \A e \in ToSet(raw.chess) : e \in Heroes
           /\ \A e \in ToSet(raw.equip) : e \in Pieces
           /\ \A f \in Simple : \A e \in ToSet(raw[f]) : e \in Plains
           /\ \A f \in EntityFiles : \A e \in ToSet(raw[f]) : e.text \in Texts
           /\ \A f \in Files : \A e, g \in ToSet(raw[f]) : e.key = g.key => e = g
<1>1. /\ \A kind \in Kinds : \A e \in ToSet(raw[kind]) : e \in Bases
      /\ \A e \in ToSet(raw.trait) : e \in TierRecord
      /\ \A e \in ToSet(raw.chess) : e \in Heroes
      /\ \A e \in ToSet(raw.equip) : e \in Pieces
      /\ \A f \in Simple : \A e \in ToSet(raw[f]) : e \in Plains
  BY DEF IsRaw, ToSet
<1>2. \A f \in EntityFiles : \A e \in ToSet(raw[f]) : e.text \in Texts
  BY <1>1 DEF EntityFiles, Heroes, Pieces, Plains
<1>3. ASSUME NEW f \in Files, NEW e \in ToSet(raw[f]), NEW g \in ToSet(raw[f]), e.key = g.key
      PROVE  e = g
  <2>1. PICK i \in DOMAIN raw[f] : e = raw[f][i]
    BY DEF ToSet
  <2>2. PICK j \in DOMAIN raw[f] : g = raw[f][j]
    BY DEF ToSet
  <2> QED
    BY <1>3, <2>1, <2>2, FilesAre
<1> QED
  BY <1>1, <1>2, <1>3

(* The files in another order have the same records.                       *)
Content(raw) == [f \in Files |-> ToSet(raw[f])]

LEMMA ReorderedIsRaw ==
    ASSUME NEW raw, IsRaw(raw)
    PROVE  IsRaw(Reordered(raw)) /\ Content(Reordered(raw)) = Content(raw)
<1> DEFINE new == Reordered(raw)
<1>1. ASSUME NEW S, NEW seq \in Seq(S)
      PROVE  Reverse(seq) \in Seq(S) /\ ToSet(Reverse(seq)) = ToSet(seq)
  <2>1. Len(seq) \in Nat /\ DOMAIN seq = 1..Len(seq) /\ \A i \in 1..Len(seq) : seq[i] \in S
    OBVIOUS
  <2>2. \A i \in 1..Len(seq) : Len(seq) - i + 1 \in 1..Len(seq)
    BY <2>1
  <2>3. Reverse(seq) = [i \in 1..Len(seq) |-> seq[Len(seq) - i + 1]]
    BY DEF Reverse
  <2>4. Reverse(seq) \in [1..Len(seq) -> S]
    BY <2>1, <2>2, <2>3
  <2>5. Reverse(seq) \in Seq(S)
    BY <2>1, <2>4, IsASeq
  <2>6. \A i \in 1..Len(seq) : seq[i] = Reverse(seq)[Len(seq) - i + 1]
    BY <2>1, <2>2, <2>3
  <2>7. ToSet(Reverse(seq)) = ToSet(seq)
    <3>1. ASSUME NEW e \in ToSet(seq) PROVE e \in ToSet(Reverse(seq))
      <4>1. PICK i \in 1..Len(seq) : e = seq[i]
        BY <2>1 DEF ToSet
      <4>2. Len(seq) - i + 1 \in DOMAIN Reverse(seq)
        BY <2>2, <2>3
      <4> QED
        BY <2>6, <4>1, <4>2 DEF ToSet
    <3>2. ASSUME NEW e \in ToSet(Reverse(seq)) PROVE e \in ToSet(seq)
      <4>1. PICK i \in DOMAIN Reverse(seq) : e = Reverse(seq)[i]
        BY DEF ToSet
      <4>2. i \in 1..Len(seq) /\ e = seq[Len(seq) - i + 1]
        BY <2>3, <4>1
      <4> QED
        BY <2>1, <2>2, <4>2 DEF ToSet
    <3> QED
      BY <3>1, <3>2
  <2> QED
    BY <2>5, <2>7
<1>2. \A f \in Files : new[f] = Reverse(raw[f])
  BY DEF Reordered
<1>3. /\ \A kind \in Kinds : kind \in Files
      /\ \A f \in Simple : f \in Files
      /\ "trait" \in Files /\ "chess" \in Files /\ "equip" \in Files
  BY DEF Files, EntityFiles
<1>4. new.trait = Reverse(raw.trait) /\ new.chess = Reverse(raw.chess)
                                     /\ new.equip = Reverse(raw.equip)
  BY <1>2, <1>3
<1>5. ASSUME NEW f \in Files PROVE IsObject(new[f])
  <2>1. Len(raw[f]) \in Nat /\ DOMAIN raw[f] = 1..Len(raw[f])
        /\ \A i, j \in DOMAIN raw[f] : raw[f][i].key = raw[f][j].key => i = j
    BY FilesAre
  <2>2. new[f] = [i \in 1..Len(raw[f]) |-> raw[f][Len(raw[f]) - i + 1]]
    BY <1>2 DEF Reverse
  <2>3. ASSUME NEW i \in 1..Len(raw[f]), NEW j \in 1..Len(raw[f]), new[f][i].key = new[f][j].key
        PROVE  i = j
    <3>1. Len(raw[f]) - i + 1 \in 1..Len(raw[f]) /\ Len(raw[f]) - j + 1 \in 1..Len(raw[f])
      BY <2>1
    <3>2. raw[f][Len(raw[f]) - i + 1].key = raw[f][Len(raw[f]) - j + 1].key
      BY <2>2, <2>3
    <3>3. Len(raw[f]) - i + 1 = Len(raw[f]) - j + 1
      BY <2>1, <3>1, <3>2
    <3> QED
      BY <2>1, <3>3
  <2> QED
    BY <2>2, <2>3 DEF IsObject, IsInjective
<1>6. \A f \in Files : ToSet(new[f]) = ToSet(raw[f])
  <2>1. \A f \in Files : \E S : raw[f] \in Seq(S)
    BY DEF IsRaw, Files, EntityFiles
  <2> QED
    BY <1>1, <1>2, <2>1
<1>7. IsRaw(new)
  <2>1. /\ \A kind \in Kinds : new[kind] \in Seq(Bases)
        /\ \A f \in Simple : new[f] \in Seq(Plains)
    BY <1>1, <1>2, <1>3 DEF IsRaw
  <2>2. new.trait \in Seq(TierRecord) /\ new.chess \in Seq(Heroes) /\ new.equip \in Seq(Pieces)
    BY <1>1, <1>4 DEF IsRaw
  <2> HIDE DEF new
  <2> QED
    BY <1>5, <2>1, <2>2 DEF IsRaw
<1> QED
  BY <1>6, <1>7 DEF Content
-----------------------------------------------------------------------------
(* What is accepted.                                                       *)

LEMMA AcceptedIds ==
    ASSUME NEW raw, IsRaw(raw), Accepts(raw), NEW f \in Files \ {"trait", "adventure"}
    PROVE  /\ \A e \in ToSet(raw[f]) : IsEntity(e)
           /\ \A e, g \in ToSet(raw[f]) : e.id = g.id => e = g
           /\ \A i, j \in DOMAIN raw[f] : raw[f][i].id = raw[f][j].id => i = j
<1>1. \A e \in ToSet(raw[f]) : IsEntity(e)
  <2>1. CASE f \in Kinds
    BY <2>1 DEF Accepts, IsTrait, Kinds
  <2>2. CASE f \in {"chess", "equip", "hex", "galaxy"}
    BY <2>2 DEF Accepts, IsHero, IsEquipment
  <2> QED
    BY <2>1, <2>2 DEF Files, EntityFiles, Simple
<1>2. \A e, g \in ToSet(raw[f]) : e.id = g.id => e = g
  BY <1>1, RecordsAre DEF IsEntity
<1>3. \A i, j \in DOMAIN raw[f] : raw[f][i].id = raw[f][j].id => i = j
  <2>1. \A i \in DOMAIN raw[f] : raw[f][i].key = raw[f][i].id
    BY <1>1 DEF IsEntity, ToSet
  <2> QED
    BY <2>1, FilesAre
<1> QED
  BY <1>1, <1>2, <1>3

LEMMA AcceptedTrait ==
    ASSUME NEW raw, IsRaw(raw), Accepts(raw), NEW kind \in Kinds, NEW t \in ToSet(raw[kind])
    PROVE  IsTrait(t) /\ HasTiers(raw, kind, t)
BY DEF Accepts, Kinds

LEMMA TraitsAre ==
    ASSUME NEW raw
    PROVE  \A kind \in Kinds : \A id :
              <<kind, id>> \in DOMAIN Traits(raw) <=> id \in IdsOf(raw[kind])
<1>1. DOMAIN Traits(raw) = UNION {{kind} \X IdsOf(raw[kind]) : kind \in Kinds}
  BY DEF Traits
<1> QED
  BY <1>1

LEMMA TraitKeyIs ==
    ASSUME NEW raw, NEW t \in DOMAIN Traits(raw)
    PROVE  t = <<t[1], t[2]>> /\ t[1] \in Kinds /\ t[2] \in IdsOf(raw[t[1]])
<1>1. DOMAIN Traits(raw) = UNION {{kind} \X IdsOf(raw[kind]) : kind \in Kinds}
  BY DEF Traits
<1>2. PICK kind \in Kinds : t \in {kind} \X IdsOf(raw[kind])
  BY <1>1
<1> QED
  BY <1>2

(* The tiers of an accepted trait are its numList.                         *)
TraitIs(raw, row, t) ==
    /\ row.text = t.text
    /\ t.list \in Seq(Int) /\ DOMAIN row.tiers = 1..Len(t.list)
    /\ \A l \in 1..Len(t.list) : row.tiers[l].count = t.list[l]
    /\ \A l \in 1..Len(t.list) : \E r \in ToSet(raw.trait) : row.tiers[l].text = r.text

LEMMA TiersAre ==
    ASSUME NEW raw, IsRaw(raw), Accepts(raw), NEW kind \in Kinds, NEW t \in ToSet(raw[kind])
    PROVE  TraitIs(raw, Traits(raw)[<<kind, t.id>>], t)
<1> SUFFICES ASSUME NEW row, row = Traits(raw)[<<kind, t.id>>] PROVE TraitIs(raw, row, t)
  OBVIOUS
<1> DEFINE tiers == TiersOf(raw, kind, t)
           levels == {x.level : x \in tiers}
<1>1. t.list \in Seq(Int) /\ t.id \in IdsOf(raw[kind])
  BY RecordsAre DEF Bases, IdsOf
<1>2. (CHOOSE e \in ToSet(raw[kind]) : e.id = t.id) = t
  <2>1. \A e \in ToSet(raw[kind]) : e.id = t.id => e = t
    BY AcceptedIds DEF Files, Kinds
  <2> QED
    BY <2>1
<1>3. row = [text |-> t.text, tiers |-> ByLevel(tiers)]
  <2>1. <<kind, t.id>> \in DOMAIN Traits(raw)
    BY <1>1, TraitsAre
  <2> HIDE DEF tiers
  <2>2. Traits(raw)[<<kind, t.id>>] =
           LET base == CHOOSE e \in ToSet(raw[kind]) : e.id = t.id
           IN  [text |-> base.text, tiers |-> ByLevel(TiersOf(raw, kind, base))]
    BY <2>1 DEF Traits
  <2> QED
    BY <1>2, <2>2 DEF tiers
<1>4. HasTiers(raw, kind, t)
  BY AcceptedTrait
<1>5. [l \in levels |-> ByLevel(tiers)[l].count] = t.list
  BY <1>4 DEF HasTiers
<1>6. levels = 1..Len(t.list) /\ \A l \in levels : ByLevel(tiers)[l].count = t.list[l]
  <2>1. DOMAIN t.list = 1..Len(t.list)
    BY <1>1
  <2>2. DOMAIN [l \in levels |-> ByLevel(tiers)[l].count] = levels
    OBVIOUS
  <2> HIDE DEF levels, tiers
  <2> QED
    BY <1>5, <2>1, <2>2
<1>7. DOMAIN ByLevel(tiers) = levels /\ \A l \in levels : ByLevel(tiers)[l] \in tiers
  BY DEF ByLevel
<1>8. \A x \in tiers : \E r \in ToSet(raw.trait) : x.text = r.text
  BY DEF TiersOf, TierRecords, Tiers
<1> HIDE DEF levels, tiers
<1> QED
  BY <1>1, <1>3, <1>6, <1>7, <1>8 DEF TraitIs

(* The traits of an accepted hero: those it lists that exist.              *)
TraitsListed(raw, h, kind, listed) ==
    /\ listed = Among(Listed(h, kind), raw[kind])
    /\ \E n \in Nat : DOMAIN listed = 1..n
    /\ \A p, q \in DOMAIN listed : listed[p] = listed[q] => p = q
    /\ \A p \in DOMAIN listed : listed[p] \in IdsOf(raw[kind])
    /\ \A id \in IdsOf(raw[kind]) :
          id \in ToSet(Listed(h, kind)) <=> \E p \in DOMAIN listed : listed[p] = id

LEMMA HeroLists ==
    ASSUME NEW raw, IsRaw(raw), Accepts(raw), NEW h \in ToSet(raw.chess), NEW kind \in Kinds
    PROVE  TraitsListed(raw, h, kind, Relations(Listed(h, kind)))
<1> DEFINE listed == Relations(Listed(h, kind))
           list == Listed(h, kind)
           places == {p \in DOMAIN list : list[p] \notin Sentinels}
<1>1. list \in Seq(Int)
  BY RecordsAre DEF Heroes, Listed
<1>2. places \in SUBSET Int /\ IsFiniteSet(places)
  <2>1. Len(list) \in Nat /\ DOMAIN list = 1..Len(list)
    BY <1>1
  <2>2. IsFiniteSet(DOMAIN list)
    BY <2>1, FS_Interval
  <2>3. places \in SUBSET DOMAIN list
    OBVIOUS
  <2> HIDE DEF places, list
  <2> QED
    BY <2>1, <2>2, <2>3, FS_Subset
<1>3. \A p, q \in DOMAIN list : list[p] = list[q] => p = q
  BY DEF Accepts, IsHero, Splits, IsInjective
<1>4. listed = Pick(list, places)
  BY DEF Relations
<1>5. ToSet(listed) \subseteq IdsOf(raw[kind])
  BY DEF Accepts, IsHero
<1>6. \A id \in IdsOf(raw[kind]) : id \notin Sentinels
  BY AcceptedTrait DEF IdsOf, IsTrait, IsEntity
<1> DEFINE n == Cardinality(places)
<1>7. /\ n \in Nat /\ DOMAIN listed = 1..n
      /\ \A m \in 1..n : \E p \in places : listed[m] = list[p]
      /\ \A p \in places : \E m \in 1..n : listed[m] = list[p]
      /\ (\A p, q \in places : list[p] = list[q] => p = q) =>
            \A p, q \in 1..n : listed[p] = listed[q] => p = q
  <2> DEFINE picked == Pick(list, places)
  <2> HIDE DEF places, list
  <2>1. /\ n \in Nat /\ DOMAIN picked = 1..n
        /\ \A m \in 1..n : \E p \in places : picked[m] = list[p]
        /\ \A p \in places : \E m \in 1..n : picked[m] = list[p]
        /\ (\A p, q \in places : list[p] = list[q] => p = q) =>
              \A p, q \in 1..n : picked[p] = picked[q] => p = q
    BY <1>2, PickKeeps
  <2>2. listed = picked
    BY <1>4
  <2> HIDE DEF picked, n
  <2> QED
    BY <2>1, <2>2
<1>8. \A p \in DOMAIN listed : listed[p] \in IdsOf(raw[kind])
  BY <1>5 DEF ToSet
<1>9. places = {p \in DOMAIN list : list[p] \in IdsOf(raw[kind])}
  <2>1. ASSUME NEW p \in places PROVE list[p] \in IdsOf(raw[kind])
    <3> HIDE DEF places, list
    <3> QED
      BY <1>7, <1>8
  <2> QED
    BY <1>6, <2>1
<1>10. listed = Among(list, raw[kind])
  BY <1>4, <1>9 DEF Among
<1>11. \A p, q \in DOMAIN listed : listed[p] = listed[q] => p = q
  <2>1. \A p, q \in places : list[p] = list[q] => p = q
    BY <1>3
  <2> HIDE DEF places, list
  <2> QED
    BY <1>7, <2>1
<1>12. \A id \in IdsOf(raw[kind]) : id \in ToSet(list) <=> \E p \in DOMAIN listed : listed[p] = id
  <2>1. ASSUME NEW id \in IdsOf(raw[kind]), id \in ToSet(list) PROVE \E p \in DOMAIN listed : listed[p] = id
    <3>1. PICK p \in DOMAIN list : id = list[p]
      BY <2>1 DEF ToSet
    <3>2. p \in places
      BY <1>6, <3>1
    <3> HIDE DEF places, list
    <3> QED
      BY <1>7, <3>1, <3>2
  <2>2. ASSUME NEW p \in DOMAIN listed PROVE listed[p] \in ToSet(list)
    <3>1. PICK q \in places : listed[p] = list[q]
      <4> HIDE DEF places, list
      <4> QED
        BY <1>7
    <3> QED
      BY <3>1 DEF ToSet
  <2> QED
    BY <2>1, <2>2
<1> HIDE DEF places, list, n, listed
<1>13. \E m \in Nat : DOMAIN listed = 1..m
  BY <1>7
<1> QED
  BY <1>8, <1>10, <1>11, <1>12, <1>13 DEF list, listed, TraitsListed

LEMMA HeroHas ==
    ASSUME NEW raw, IsRaw(raw), Accepts(raw), NEW h \in ToSet(raw.chess), NEW kind \in Kinds,
           NEW id \in IdsOf(raw[kind])
    PROVE  id \in ToSet(Listed(h, kind)) <=>
              \E p \in DOMAIN Relations(Listed(h, kind)) : Relations(Listed(h, kind))[p] = id
<1> DEFINE listed == Relations(Listed(h, kind))
<1>1. TraitsListed(raw, h, kind, listed)
  BY HeroLists
<1> HIDE DEF listed
<1>2. id \in ToSet(Listed(h, kind)) <=> \E p \in DOMAIN listed : listed[p] = id
  BY <1>1 DEF TraitsListed
<1> QED
  BY <1>2 DEF listed

LEMMA HeroListed ==
    ASSUME NEW raw, IsRaw(raw), Accepts(raw), NEW h \in ToSet(raw.chess), NEW kind \in Kinds
    PROVE  /\ \A p \in DOMAIN Relations(Listed(h, kind)) :
                 Relations(Listed(h, kind))[p] \in IdsOf(raw[kind])
           /\ \A p, q \in DOMAIN Relations(Listed(h, kind)) :
                 Relations(Listed(h, kind))[p] = Relations(Listed(h, kind))[q] => p = q
BY HeroLists DEF TraitsListed
-----------------------------------------------------------------------------
(* The invariant: a snapshot has the records of a source that was accepted *)
(* and in every table the rows of these, which refer to each other.        *)

PlaceOf(file, id) == CHOOSE p \in DOMAIN file : file[p].id = id

EntityRow(e, s) == [snapshot |-> s, id |-> e.id, text |-> e.text]

TraitRowOf(raw, s, t) ==
    [snapshot |-> s, kind |-> t[1], id |-> t[2], text |-> Traits(raw)[t].text]

TierRow(raw, s, t, l) ==
    [trait |-> <<s, t>>, level |-> l, count |-> Traits(raw)[t].tiers[l].count,
     text |-> Traits(raw)[t].tiers[l].text]

HeroTraitRow(raw, s, r) ==
    [snapshot |-> s, hero |-> <<s, PlaceOf(raw.chess, r.hero)>>,
     trait |-> <<s, <<r.kind, r.trait>>>>, kind |-> r.kind, position |-> r.position]

RecipeRow(raw, s, r) ==
    [snapshot |-> s, equipment |-> <<s, PlaceOf(raw.equip, r.equipment)>>,
     first |-> <<s, PlaceOf(raw.equip, r.first)>>, second |-> <<s, PlaceOf(raw.equip, r.second)>>]

EntitiesHold(t, s, raw) == \A f \in EntityFiles :
    /\ RowsOf(t.entities[f], s) = {s} \X DOMAIN raw[f]
    /\ \A p \in DOMAIN raw[f] : t.entities[f][<<s, p>>] = EntityRow(raw[f][p], s)

TraitsHold(t, s, raw) ==
    /\ RowsOf(t.traits, s) = {s} \X DOMAIN Traits(raw)
    /\ \A x \in DOMAIN Traits(raw) : t.traits[<<s, x>>] = TraitRowOf(raw, s, x)

TiersIn(raw, s) ==
    UNION {{TierRow(raw, s, x, l) : l \in DOMAIN Traits(raw)[x].tiers} : x \in DOMAIN Traits(raw)}
HeroTraitsIn(raw, s) == {HeroTraitRow(raw, s, r) : r \in Structured(raw).heroTraits}
RecipesIn(raw, s) == {RecipeRow(raw, s, r) : r \in Recipes(raw)}

Holds(t, s, raw) ==
    /\ EntitiesHold(t, s, raw)
    /\ TraitsHold(t, s, raw)
    /\ {r \in t.tiers : r.trait \in RowsOf(t.traits, s)} = TiersIn(raw, s)
    /\ {r \in t.heroTraits : r.snapshot = s} = HeroTraitsIn(raw, s)
    /\ {r \in t.recipes : r.snapshot = s} = RecipesIn(raw, s)

(* Rows are of a snapshot that is there, and tiers of a trait that is.     *)
Linked(t) ==
    /\ \A f \in EntityFiles : \A i \in DOMAIN t.entities[f] :
          i[1] = t.entities[f][i].snapshot /\ i[1] \in DOMAIN t.snapshots
    /\ \A i \in DOMAIN t.traits : i[1] = t.traits[i].snapshot /\ i[1] \in DOMAIN t.snapshots
    /\ \A r \in t.tiers : r.trait \in DOMAIN t.traits
    /\ \A r \in t.heroTraits \union t.recipes : r.snapshot \in DOMAIN t.snapshots

Records == Bases \union TierRecord \union Heroes \union Pieces \union Plains
Outcomes == {"rejected", "skipped", "matched", "incomplete", "updated", "refused"}

(* The types of the variables: the pointer is 0 or a snapshot.             *)
TypeOK ==
    /\ source \in Sources
    /\ tables.snapshots \in Seq([Files -> SUBSET Records])
    /\ current \in 0..Len(tables.snapshots)
    /\ outcome \in Seq(Outcomes) /\ Len(outcome) <= MaxImports

Origin == {source, Reordered(source), Base}

IInv ==
    /\ TypeOK
    /\ Linked(tables)
    /\ Fits(tables)
    /\ \A s \in DOMAIN tables.snapshots : \E raw \in Origin :
          Accepts(raw) /\ tables.snapshots[s] = Content(raw) /\ Holds(tables, s, raw)
    /\ AcceptedIsImported
-----------------------------------------------------------------------------
(* What depends on the records and not on their order.                     *)

LEMMA SameFiles ==
    ASSUME NEW a, NEW b, Content(a) = Content(b)
    PROVE  \A f \in Files : ToSet(a[f]) = ToSet(b[f]) /\ IdsOf(a[f]) = IdsOf(b[f])
<1>1. \A f \in Files : Content(a)[f] = ToSet(a[f]) /\ Content(b)[f] = ToSet(b[f])
  BY DEF Content
<1> QED
  BY <1>1 DEF IdsOf

LEMMA SameTraits ==
    ASSUME NEW a, NEW b, Content(a) = Content(b)
    PROVE  Traits(a) = Traits(b)
<1>1. \A kind \in Kinds : IdsOf(a[kind]) = IdsOf(b[kind]) /\ ToSet(a[kind]) = ToSet(b[kind])
  BY SameFiles DEF Files
<1>2. ASSUME NEW kind, NEW t PROVE TiersOf(a, kind, t) = TiersOf(b, kind, t)
  <2>1. ToSet(a.trait) = ToSet(b.trait)
    BY SameFiles DEF Files
  <2> QED
    BY <2>1 DEF TiersOf, TierRecords
<1>3. \A x \in UNION {{kind} \X IdsOf(a[kind]) : kind \in Kinds} : ToSet(a[x[1]]) = ToSet(b[x[1]])
  BY <1>1
<1>4. UNION {{kind} \X IdsOf(a[kind]) : kind \in Kinds} = UNION {{kind} \X IdsOf(b[kind]) : kind \in Kinds}
  BY <1>1
<1> DEFINE D == UNION {{kind} \X IdsOf(a[kind]) : kind \in Kinds}
           Value(raw, x) == LET base == CHOOSE e \in ToSet(raw[x[1]]) : e.id = x[2]
                            IN  [text |-> base.text, tiers |-> ByLevel(TiersOf(raw, x[1], base))]
<1>5. ASSUME NEW x \in D PROVE Value(a, x) = Value(b, x)
  <2>1. (CHOOSE e \in ToSet(a[x[1]]) : e.id = x[2]) = (CHOOSE e \in ToSet(b[x[1]]) : e.id = x[2])
    BY <1>3
  <2> QED
    BY <1>2, <2>1
<1>6. Traits(a) = [x \in D |-> Value(a, x)] /\ Traits(b) = [x \in D |-> Value(b, x)]
  BY <1>4 DEF Traits
<1> HIDE DEF D, Value
<1> QED
  BY <1>5, <1>6

LEMMA SameRelations ==
    ASSUME NEW a, NEW b, Content(a) = Content(b)
    PROVE  Structured(a).heroTraits = Structured(b).heroTraits /\ Recipes(a) = Recipes(b)
<1>1. ToSet(a.chess) = ToSet(b.chess) /\ ToSet(a.equip) = ToSet(b.equip)
  BY SameFiles DEF Files, EntityFiles
<1>2. \A raw : Structured(raw).heroTraits =
         UNION {HeroTraits(h, kind) : h \in ToSet(raw.chess), kind \in Kinds}
  BY DEF Structured
<1> DEFINE row(e) == [equipment |-> e.id, first |-> e.first, second |-> e.second]
<1>3. \A raw : Recipes(raw) = {row(e) : e \in {p \in ToSet(raw.equip) : Components(p) # {}}}
  BY DEF Recipes
<1>4. Recipes(a) = Recipes(b)
  BY <1>1, <1>3
<1>5. Structured(a).heroTraits = Structured(b).heroTraits
  <2>1. Structured(a).heroTraits = UNION {HeroTraits(h, kind) : h \in ToSet(a.chess), kind \in Kinds}
    BY <1>2
  <2>2. Structured(b).heroTraits = UNION {HeroTraits(h, kind) : h \in ToSet(b.chess), kind \in Kinds}
    BY <1>2
  <2>3. ToSet(a.chess) = ToSet(b.chess)
    BY <1>1
  <2> QED
    BY ONLY <2>1, <2>2, <2>3
<1> QED
  BY <1>4, <1>5

LEMMA SameServed ==
    ASSUME NEW a, NEW b, Content(a) = Content(b)
    PROVE  Served(a) = Served(b)
<1>1. /\ ToSet(a.chess) = ToSet(b.chess) /\ ToSet(a.equip) = ToSet(b.equip)
      /\ \A f \in Simple : ToSet(a[f]) = ToSet(b[f])
      /\ \A kind \in Kinds : ToSet(a[kind]) = ToSet(b[kind]) /\ IdsOf(a[kind]) = IdsOf(b[kind])
      /\ IdsOf(a.race) = IdsOf(b.race) /\ IdsOf(a.job) = IdsOf(b.job)
  BY SameFiles DEF Files, EntityFiles, Kinds
<1>2. \A list : Among(list, a.race) = Among(list, b.race) /\ Among(list, a.job) = Among(list, b.job)
  BY <1>1 DEF Among
<1>3. {[id |-> h.id, text |-> h.text,
         traits |-> Among(h.species, a.race), classes |-> Among(h.class, a.job)]
            : h \in ToSet(a.chess)}
      = {[id |-> h.id, text |-> h.text,
         traits |-> Among(h.species, b.race), classes |-> Among(h.class, b.job)]
            : h \in ToSet(b.chess)}
  BY <1>1, <1>2
<1>4. [kind \in Kinds |->
         ById({[id |-> t.id, text |-> t.text, tiers |-> t.list] : t \in ToSet(a[kind])})]
      = [kind \in Kinds |->
         ById({[id |-> t.id, text |-> t.text, tiers |-> t.list] : t \in ToSet(b[kind])})]
  BY <1>1
<1>5. [kind \in Kinds |-> [id \in IdsOf(a[kind]) |->
         {h.id : h \in {g \in ToSet(a.chess) :
                           id \in ToSet(IF kind = "job" THEN g.class ELSE g.species)}}]]
      = [kind \in Kinds |-> [id \in IdsOf(b[kind]) |->
         {h.id : h \in {g \in ToSet(b.chess) :
                           id \in ToSet(IF kind = "job" THEN g.class ELSE g.species)}}]]
  BY <1>1
<1>6. [f \in Simple |-> ById({[id |-> e.id, text |-> e.text] : e \in ToSet(a[f])})]
      = [f \in Simple |-> ById({[id |-> e.id, text |-> e.text] : e \in ToSet(b[f])})]
  BY <1>1
<1> QED
  BY <1>1, <1>3, <1>4, <1>5, <1>6 DEF Served
-----------------------------------------------------------------------------
(* Rows by their external ids.                                             *)

LEMMA RowFields ==
    /\ \A e, s : /\ EntityRow(e, s).snapshot = s /\ EntityRow(e, s).id = e.id
                 /\ EntityRow(e, s).text = e.text
    /\ \A raw, s, t : /\ TraitRowOf(raw, s, t).snapshot = s /\ TraitRowOf(raw, s, t).kind = t[1]
                      /\ TraitRowOf(raw, s, t).id = t[2]
                      /\ TraitRowOf(raw, s, t).text = Traits(raw)[t].text
    /\ \A raw, s, t, l : /\ TierRow(raw, s, t, l).trait = <<s, t>> /\ TierRow(raw, s, t, l).level = l
                         /\ TierRow(raw, s, t, l).count = Traits(raw)[t].tiers[l].count
                         /\ TierRow(raw, s, t, l).text = Traits(raw)[t].tiers[l].text
    /\ \A raw, s, r : /\ HeroTraitRow(raw, s, r).snapshot = s
                      /\ HeroTraitRow(raw, s, r).hero = <<s, PlaceOf(raw.chess, r.hero)>>
                      /\ HeroTraitRow(raw, s, r).trait = <<s, <<r.kind, r.trait>>>>
                      /\ HeroTraitRow(raw, s, r).kind = r.kind
                      /\ HeroTraitRow(raw, s, r).position = r.position
    /\ \A raw, s, r : /\ RecipeRow(raw, s, r).snapshot = s
                      /\ RecipeRow(raw, s, r).equipment = <<s, PlaceOf(raw.equip, r.equipment)>>
                      /\ RecipeRow(raw, s, r).first = <<s, PlaceOf(raw.equip, r.first)>>
                      /\ RecipeRow(raw, s, r).second = <<s, PlaceOf(raw.equip, r.second)>>
BY DEF EntityRow, TraitRowOf, TierRow, HeroTraitRow, RecipeRow

LEMMA PlaceFound ==
    ASSUME NEW raw, IsRaw(raw), Accepts(raw), NEW f \in {"chess", "equip"}, NEW id \in IdsOf(raw[f])
    PROVE  /\ PlaceOf(raw[f], id) \in DOMAIN raw[f]
           /\ raw[f][PlaceOf(raw[f], id)].id = id
           /\ \A p \in DOMAIN raw[f] : raw[f][p].id = id => p = PlaceOf(raw[f], id)
<1>1. \E p \in DOMAIN raw[f] : raw[f][p].id = id
  BY DEF IdsOf, ToSet
<1>2. \A p, q \in DOMAIN raw[f] : raw[f][p].id = raw[f][q].id => p = q
  BY AcceptedIds DEF Files, EntityFiles
<1> QED
  BY <1>1, <1>2 DEF PlaceOf

LEMMA RowFound ==
    ASSUME NEW raw, IsRaw(raw), Accepts(raw), NEW s, NEW f \in {"chess", "equip"},
           NEW id \in IdsOf(raw[f]), NEW rows,
           RowsOf(rows, s) = {s} \X DOMAIN raw[f],
           \A p \in DOMAIN raw[f] : rows[<<s, p>>] = EntityRow(raw[f][p], s)
    PROVE  Row(rows, s, id) = <<s, PlaceOf(raw[f], id)>>
<1> DEFINE at == <<s, PlaceOf(raw[f], id)>>
<1>0. PlaceOf(raw[f], id) \in DOMAIN raw[f] /\ raw[f][PlaceOf(raw[f], id)].id = id
      /\ \A p \in DOMAIN raw[f] : raw[f][p].id = id => p = PlaceOf(raw[f], id)
  BY PlaceFound
<1>1. at \in RowsOf(rows, s) /\ rows[at].id = id
  BY <1>0, RowFields
<1>2. ASSUME NEW i \in RowsOf(rows, s), rows[i].id = id PROVE i = at
  <2>1. PICK p \in DOMAIN raw[f] : i = <<s, p>>
    OBVIOUS
  <2>2. raw[f][p].id = id
    BY <1>2, <2>1, RowFields
  <2> QED
    BY <1>0, <2>1, <2>2
<1> HIDE DEF at
<1>3. Row(rows, s, id) = at
  BY <1>1, <1>2 DEF Row
<1> QED
  BY <1>3 DEF at

LEMMA TraitRowFound ==
    ASSUME NEW raw, NEW s, NEW x \in DOMAIN Traits(raw), NEW rows,
           RowsOf(rows, s) = {s} \X DOMAIN Traits(raw),
           \A y \in DOMAIN Traits(raw) : rows[<<s, y>>] = TraitRowOf(raw, s, y)
    PROVE  TraitRow(rows, s, x[1], x[2]) = <<s, x>>
<1>1. <<s, x>> \in RowsOf(rows, s) /\ rows[<<s, x>>].kind = x[1] /\ rows[<<s, x>>].id = x[2]
  BY RowFields
<1>2. ASSUME NEW i \in RowsOf(rows, s), rows[i].kind = x[1], rows[i].id = x[2] PROVE i = <<s, x>>
  <2>1. PICK y \in DOMAIN Traits(raw) : i = <<s, y>>
    OBVIOUS
  <2>2. y[1] = x[1] /\ y[2] = x[2]
    BY <1>2, <2>1, RowFields
  <2>3. x = <<x[1], x[2]>> /\ y = <<y[1], y[2]>>
    BY TraitKeyIs
  <2> QED
    BY <2>1, <2>2, <2>3
<1> QED
  BY <1>1, <1>2 DEF TraitRow

(* The new rows are those of snapshot s.                                   *)
AreNew(rows, new, s) ==
    /\ \A i \in DOMAIN rows : rows[i].snapshot # s /\ i \notin DOMAIN new
    /\ \A i \in DOMAIN new : new[i].snapshot = s

LEMMA WithValues ==
    ASSUME NEW rows, NEW new, NEW s, AreNew(rows, new, s)
    PROVE  /\ DOMAIN With(rows, new) = (DOMAIN rows) \union DOMAIN new
           /\ \A i \in DOMAIN rows : With(rows, new)[i] = rows[i]
           /\ \A i \in DOMAIN new : With(rows, new)[i] = new[i]
BY DEF With, AreNew

LEMMA WithRows ==
    ASSUME NEW rows, NEW new, NEW s, AreNew(rows, new, s)
    PROVE  /\ RowsOf(With(rows, new), s) = DOMAIN new
           /\ \A q : q # s => RowsOf(With(rows, new), q) = RowsOf(rows, q)
BY WithValues DEF RowsOf, AreNew, With
-----------------------------------------------------------------------------
(* Relations and recipes of an accepted source.                            *)

RelationOf(h, kind, p) ==
    [hero |-> h.id, trait |-> Relations(Listed(h, kind))[p], kind |-> kind, position |-> p - 1]

LEMMA RelationsAre ==
    ASSUME NEW raw
    PROVE  /\ \A r \in Structured(raw).heroTraits :
                 \E h \in ToSet(raw.chess), kind \in Kinds :
                    \E p \in DOMAIN Relations(Listed(h, kind)) : r = RelationOf(h, kind, p)
           /\ \A h \in ToSet(raw.chess), kind \in Kinds :
                 \A p \in DOMAIN Relations(Listed(h, kind)) :
                    RelationOf(h, kind, p) \in Structured(raw).heroTraits
<1>1. Structured(raw).heroTraits = UNION {HeroTraits(h, kind) : h \in ToSet(raw.chess), kind \in Kinds}
  BY DEF Structured
<1>2. \A h, kind : HeroTraits(h, kind) = {RelationOf(h, kind, p) : p \in DOMAIN Relations(Listed(h, kind))}
  BY DEF HeroTraits, RelationOf
<1> QED
  BY <1>1, <1>2

LEMMA RelationFields ==
    \A h, kind, p : /\ RelationOf(h, kind, p).hero = h.id /\ RelationOf(h, kind, p).kind = kind
                    /\ RelationOf(h, kind, p).trait = Relations(Listed(h, kind))[p]
                    /\ RelationOf(h, kind, p).position = p - 1
BY DEF RelationOf

LEMMA RelationsRefer ==
    ASSUME NEW raw, IsRaw(raw), Accepts(raw), NEW r \in Structured(raw).heroTraits
    PROVE  /\ r.hero \in IdsOf(raw.chess) /\ r.kind \in Kinds
           /\ r.trait \in IdsOf(raw[r.kind]) /\ <<r.kind, r.trait>> \in DOMAIN Traits(raw)
<1>1. PICK h \in ToSet(raw.chess), kind \in Kinds :
         \E p \in DOMAIN Relations(Listed(h, kind)) : r = RelationOf(h, kind, p)
  BY RelationsAre
<1>2. PICK p \in DOMAIN Relations(Listed(h, kind)) : r = RelationOf(h, kind, p)
  BY <1>1
<1>3. r.hero = h.id /\ r.kind = kind /\ r.trait = Relations(Listed(h, kind))[p]
  BY <1>2, RelationFields
<1>4. r.trait \in IdsOf(raw[kind])
  BY <1>2, <1>3, HeroListed
<1>5. r.hero \in IdsOf(raw.chess)
  BY <1>3 DEF IdsOf
<1> QED
  BY <1>3, <1>4, <1>5, TraitsAre

LEMMA RelationsDiffer ==
    ASSUME NEW raw, IsRaw(raw), Accepts(raw),
           NEW r \in Structured(raw).heroTraits, NEW q \in Structured(raw).heroTraits,
           r.hero = q.hero, r.kind = q.kind, r.trait = q.trait
    PROVE  r = q
<1>1. PICK h \in ToSet(raw.chess), kind \in Kinds :
         \E p \in DOMAIN Relations(Listed(h, kind)) : r = RelationOf(h, kind, p)
  BY RelationsAre
<1>2. PICK p \in DOMAIN Relations(Listed(h, kind)) : r = RelationOf(h, kind, p)
  BY <1>1
<1>3. PICK g \in ToSet(raw.chess), sort \in Kinds :
         \E m \in DOMAIN Relations(Listed(g, sort)) : q = RelationOf(g, sort, m)
  BY RelationsAre
<1>4. PICK m \in DOMAIN Relations(Listed(g, sort)) : q = RelationOf(g, sort, m)
  BY <1>3
<1>5. h.id = g.id /\ kind = sort /\ Relations(Listed(h, kind))[p] = Relations(Listed(g, sort))[m]
  BY <1>2, <1>4, RelationFields
<1>6. h = g
  BY <1>5, AcceptedIds DEF Files, EntityFiles
<1>7. p = m
  BY <1>2, <1>4, <1>5, <1>6, HeroListed
<1> QED
  BY <1>2, <1>4, <1>5, <1>6, <1>7

RecipeOf(e) == [equipment |-> e.id, first |-> e.first, second |-> e.second]

LEMMA RecipesAre ==
    ASSUME NEW raw, IsRaw(raw), Accepts(raw)
    PROVE  /\ \A r \in Recipes(raw) : /\ r.equipment \in IdsOf(raw.equip)
                                      /\ r.first \in IdsOf(raw.equip) /\ r.second \in IdsOf(raw.equip)
           /\ \A r \in Recipes(raw) : \E e \in ToSet(raw.equip) : e.first # 0 /\ r = RecipeOf(e)
           /\ \A e \in ToSet(raw.equip) : e.first # 0 => RecipeOf(e) \in Recipes(raw)
           /\ \A r, q \in Recipes(raw) : r.equipment = q.equipment => r = q
<1>1. Recipes(raw) = {RecipeOf(e) : e \in {p \in ToSet(raw.equip) : Components(p) # {}}}
  BY DEF Recipes, RecipeOf
<1>2. ASSUME NEW e \in ToSet(raw.equip)
      PROVE  /\ Components(e) # {} <=> e.first # 0
             /\ e.first # 0 => e.first \in IdsOf(raw.equip) /\ e.second \in IdsOf(raw.equip)
             /\ e.id \in IdsOf(raw.equip)
  <2>1. IsEquipment(raw, e)
    BY DEF Accepts
  <2> QED
    BY <2>1 DEF IsEquipment, Components, IdsOf
<1>3. \A r \in Recipes(raw) : \E e \in ToSet(raw.equip) : e.first # 0 /\ r = RecipeOf(e)
  BY <1>1, <1>2
<1>4. \A e \in ToSet(raw.equip) : e.first # 0 => RecipeOf(e) \in Recipes(raw)
  BY <1>1, <1>2
<1>5. \A e : RecipeOf(e).equipment = e.id /\ RecipeOf(e).first = e.first /\ RecipeOf(e).second = e.second
  BY DEF RecipeOf
<1>6. \A r \in Recipes(raw) : /\ r.equipment \in IdsOf(raw.equip)
                              /\ r.first \in IdsOf(raw.equip) /\ r.second \in IdsOf(raw.equip)
  BY <1>2, <1>3, <1>5
<1>7. \A e, g \in ToSet(raw.equip) : e.id = g.id => e = g
  BY AcceptedIds DEF Files, EntityFiles
<1>8. \A r, q \in Recipes(raw) : r.equipment = q.equipment => r = q
  BY <1>3, <1>5, <1>7
<1> QED
  BY <1>3, <1>4, <1>6, <1>8
-----------------------------------------------------------------------------
(* The rows that an import adds.                                           *)

LEMMA NewTiers ==
    ASSUME NEW raw, NEW s, NEW rows,
           RowsOf(rows, s) = {s} \X DOMAIN Traits(raw),
           \A y \in DOMAIN Traits(raw) : rows[<<s, y>>] = TraitRowOf(raw, s, y)
    PROVE  TierRows(Traits(raw), rows, s) = TiersIn(raw, s)
<1> DEFINE new == Traits(raw)
           row(x, l) == [trait |-> TraitRow(rows, s, x[1], x[2]), level |-> l,
                         count |-> new[x].tiers[l].count, text |-> new[x].tiers[l].text]
<1>1. \A x \in DOMAIN new : TraitRow(rows, s, x[1], x[2]) = <<s, x>>
  BY TraitRowFound
<1>2. \A x \in DOMAIN new : \A l : row(x, l) = TierRow(raw, s, x, l)
  BY <1>1 DEF TierRow
<1>3. TierRows(new, rows, s) = UNION {{row(x, l) : l \in DOMAIN new[x].tiers} : x \in DOMAIN new}
  BY DEF TierRows
<1> HIDE DEF row, new
<1>4. UNION {{row(x, l) : l \in DOMAIN new[x].tiers} : x \in DOMAIN new}
      = UNION {{TierRow(raw, s, x, l) : l \in DOMAIN new[x].tiers} : x \in DOMAIN new}
  BY <1>2
<1> QED
  BY <1>3, <1>4 DEF TiersIn, new

LEMMA NewHeroTraits ==
    ASSUME NEW raw, IsRaw(raw), Accepts(raw), NEW s, NEW rows, NEW heroes,
           RowsOf(rows, s) = {s} \X DOMAIN Traits(raw),
           \A y \in DOMAIN Traits(raw) : rows[<<s, y>>] = TraitRowOf(raw, s, y),
           RowsOf(heroes, s) = {s} \X DOMAIN raw.chess,
           \A p \in DOMAIN raw.chess : heroes[<<s, p>>] = EntityRow(raw.chess[p], s)
    PROVE  HeroTraitRows(Structured(raw).heroTraits, heroes, rows, s) = HeroTraitsIn(raw, s)
<1> DEFINE new == Structured(raw).heroTraits
           row(r) == [snapshot |-> s, hero |-> Row(heroes, s, r.hero),
                      trait |-> TraitRow(rows, s, r.kind, r.trait), kind |-> r.kind,
                      position |-> r.position]
<1>1. ASSUME NEW r \in new PROVE row(r) = HeroTraitRow(raw, s, r)
  <2>1. r.hero \in IdsOf(raw.chess) /\ <<r.kind, r.trait>> \in DOMAIN Traits(raw)
    BY RelationsRefer
  <2>2. Row(heroes, s, r.hero) = <<s, PlaceOf(raw.chess, r.hero)>>
    BY <2>1, RowFound
  <2>3. TraitRow(rows, s, r.kind, r.trait) = <<s, <<r.kind, r.trait>>>>
    <3> DEFINE x == <<r.kind, r.trait>>
    <3>1. x \in DOMAIN Traits(raw) /\ x[1] = r.kind /\ x[2] = r.trait
      BY <2>1
    <3> HIDE DEF x
    <3>2. TraitRow(rows, s, x[1], x[2]) = <<s, x>>
      BY <3>1, TraitRowFound
    <3> QED
      BY <3>1, <3>2 DEF x
  <2> QED
    BY <2>2, <2>3 DEF HeroTraitRow
<1>2. HeroTraitRows(new, heroes, rows, s) = {row(r) : r \in new}
  BY DEF HeroTraitRows
<1> HIDE DEF row, new
<1> QED
  BY <1>1, <1>2 DEF HeroTraitsIn, new

LEMMA NewRecipes ==
    ASSUME NEW raw, IsRaw(raw), Accepts(raw), NEW s, NEW rows,
           RowsOf(rows, s) = {s} \X DOMAIN raw.equip,
           \A p \in DOMAIN raw.equip : rows[<<s, p>>] = EntityRow(raw.equip[p], s)
    PROVE  RecipeRows(Recipes(raw), rows, s) = RecipesIn(raw, s)
<1> DEFINE new == Recipes(raw)
           row(r) == [snapshot |-> s, equipment |-> Row(rows, s, r.equipment),
                      first |-> Row(rows, s, r.first), second |-> Row(rows, s, r.second)]
<1>1. ASSUME NEW r \in new PROVE row(r) = RecipeRow(raw, s, r)
  <2>1. /\ r.equipment \in IdsOf(raw.equip)
        /\ r.first \in IdsOf(raw.equip) /\ r.second \in IdsOf(raw.equip)
    BY RecipesAre
  <2>2. \A id \in IdsOf(raw.equip) : Row(rows, s, id) = <<s, PlaceOf(raw.equip, id)>>
    BY RowFound
  <2> QED
    BY <2>1, <2>2 DEF RecipeRow
<1>2. RecipeRows(new, rows, s) = {row(r) : r \in new}
  BY DEF RecipeRows
<1> HIDE DEF row, new
<1> QED
  BY <1>1, <1>2 DEF RecipesIn, new

LEMMA NewEntities ==
    ASSUME NEW file, NEW s
    PROVE  /\ DOMAIN EntityRows(Entities(file), s) = {s} \X DOMAIN file
           /\ \A p \in DOMAIN file : EntityRows(Entities(file), s)[<<s, p>>] = EntityRow(file[p], s)
           /\ \A i \in {s} \X DOMAIN file : EntityRows(Entities(file), s)[i].snapshot = s
<1>1. DOMAIN Entities(file) = DOMAIN file /\ \A p \in DOMAIN file :
         Entities(file)[p].id = file[p].id /\ Entities(file)[p].text = file[p].text
  BY DEF Entities
<1> DEFINE D == {s} \X DOMAIN file
<1>2. EntityRows(Entities(file), s) =
         [i \in D |-> [snapshot |-> s, id |-> Entities(file)[i[2]].id, text |-> Entities(file)[i[2]].text]]
  BY <1>1 DEF EntityRows
<1>3. \A p \in DOMAIN file : <<s, p>> \in D /\ <<s, p>>[2] = p
  OBVIOUS
<1> QED
  BY <1>1, <1>2, <1>3 DEF EntityRow

LEMMA NewTraits ==
    ASSUME NEW raw, NEW s
    PROVE  /\ DOMAIN TraitRows(Traits(raw), s) = {s} \X DOMAIN Traits(raw)
           /\ \A x \in DOMAIN Traits(raw) : TraitRows(Traits(raw), s)[<<s, x>>] = TraitRowOf(raw, s, x)
           /\ \A i \in {s} \X DOMAIN Traits(raw) : TraitRows(Traits(raw), s)[i].snapshot = s
<1> DEFINE new == Traits(raw)
           D == {s} \X DOMAIN new
<1>1. TraitRows(new, s) =
         [i \in D |-> [snapshot |-> s, kind |-> i[2][1], id |-> i[2][2], text |-> new[i[2]].text]]
  BY DEF TraitRows
<1> HIDE DEF new
<1>2. \A x \in DOMAIN new : <<s, x>> \in D /\ <<s, x>>[2] = x
  OBVIOUS
<1>3. DOMAIN TraitRows(new, s) = D
  BY <1>1
<1>4. \A x \in DOMAIN new : TraitRows(new, s)[<<s, x>>] = TraitRowOf(raw, s, x)
  BY <1>1, <1>2 DEF TraitRowOf, new
<1>5. \A i \in D : TraitRows(new, s)[i].snapshot = s
  BY <1>1
<1> QED
  BY <1>3, <1>4, <1>5 DEF new

(* The id of the snapshot that an import adds.                             *)
IsNextId(s) ==
    tables.snapshots \in Seq([Files -> SUBSET Records]) /\ s = Len(tables.snapshots) + 1

LEMMA InsertedIs ==
    ASSUME NEW raw, NEW s, IsNextId(s)
    PROVE  LET n == Inserted(raw) IN
           /\ n.snapshots = Append(tables.snapshots, Content(raw))
           /\ \A f \in EntityFiles :
                 n.entities[f] = With(tables.entities[f], EntityRows(Entities(raw[f]), s))
           /\ n.traits = With(tables.traits, TraitRows(Traits(raw), s))
           /\ n.tiers = tables.tiers \union TierRows(Traits(raw), n.traits, s)
           /\ n.heroTraits = tables.heroTraits
                 \union HeroTraitRows(Structured(raw).heroTraits, n.entities.chess, n.traits, s)
           /\ n.recipes = tables.recipes \union RecipeRows(Recipes(raw), n.entities.equip, s)
<1>0. s = Len(tables.snapshots) + 1
  BY DEF IsNextId
<1>1. Structured(raw).traits = Traits(raw) /\ Structured(raw).recipes = Recipes(raw)
      /\ \A f \in EntityFiles : Structured(raw).entities[f] = Entities(raw[f])
  BY DEF Structured
<1>2. \A f \in EntityFiles : Inserted(raw).entities[f] =
         With(tables.entities[f], EntityRows(Structured(raw).entities[f], s))
  BY <1>0 DEF Inserted
<1>3. Inserted(raw).traits = With(tables.traits, TraitRows(Structured(raw).traits, s))
  BY <1>0 DEF Inserted
<1>4. Inserted(raw).snapshots = Append(tables.snapshots, Content(raw))
  BY <1>0 DEF Inserted, Content
<1>5. Inserted(raw).tiers =
         tables.tiers \union TierRows(Structured(raw).traits, Inserted(raw).traits, s)
  BY <1>0 DEF Inserted
<1>6. Inserted(raw).heroTraits = tables.heroTraits \union
         HeroTraitRows(Structured(raw).heroTraits, Inserted(raw).entities.chess, Inserted(raw).traits, s)
  BY <1>0 DEF Inserted
<1>7. Inserted(raw).recipes = tables.recipes \union
         RecipeRows(Structured(raw).recipes, Inserted(raw).entities.equip, s)
  BY <1>0 DEF Inserted
<1> QED
  BY <1>1, <1>2, <1>3, <1>4, <1>5, <1>6, <1>7

LEMMA InsertedEntities ==
    ASSUME NEW raw, Linked(tables),
           NEW s, IsNextId(s),
           NEW n, n = Inserted(raw), NEW f \in EntityFiles
    PROVE  /\ DOMAIN n.entities[f] = (DOMAIN tables.entities[f]) \union ({s} \X DOMAIN raw[f])
           /\ \A i \in DOMAIN tables.entities[f] : n.entities[f][i] = tables.entities[f][i]
           /\ \A p \in DOMAIN raw[f] : n.entities[f][<<s, p>>] = EntityRow(raw[f][p], s)
           /\ RowsOf(n.entities[f], s) = {s} \X DOMAIN raw[f]
           /\ AreNew(tables.entities[f], EntityRows(Entities(raw[f]), s), s)
<1>0. s \notin DOMAIN tables.snapshots
  BY DEF IsNextId
<1> DEFINE old == tables.entities[f]
           new == EntityRows(Entities(raw[f]), s)
           D == {s} \X DOMAIN raw[f]
<1>1. n.entities[f] = With(old, new)
  BY InsertedIs
<1>2. DOMAIN new = D /\ (\A p \in DOMAIN raw[f] : new[<<s, p>>] = EntityRow(raw[f][p], s))
      /\ \A i \in D : new[i].snapshot = s
  BY ONLY NewEntities
<1>3. \A i \in D : i[1] = s
  OBVIOUS
<1>4. \A p \in DOMAIN raw[f] : <<s, p>> \in D
  OBVIOUS
<1>5. \A i \in DOMAIN old : old[i].snapshot # s /\ i[1] # s
  BY <1>0 DEF Linked
<1> HIDE DEF old, new, D
<1>6. \A i \in DOMAIN old : old[i].snapshot # s /\ i \notin DOMAIN new
  BY <1>2, <1>3, <1>5
<1>7. AreNew(old, new, s)
  BY <1>2, <1>6 DEF AreNew
<1>8. /\ DOMAIN With(old, new) = (DOMAIN old) \union DOMAIN new
      /\ \A i \in DOMAIN old : With(old, new)[i] = old[i]
      /\ \A i \in DOMAIN new : With(old, new)[i] = new[i]
  BY ONLY <1>7 DEF With, AreNew
<1>9. RowsOf(With(old, new), s) = DOMAIN new
  BY ONLY <1>7, WithRows
<1> QED
  BY <1>1, <1>2, <1>4, <1>7, <1>8, <1>9 DEF old, new, D

LEMMA InsertedOldEntities ==
    ASSUME NEW raw, Linked(tables),
           NEW s, IsNextId(s),
           NEW n, n = Inserted(raw), NEW f \in EntityFiles, NEW q, q # s
    PROVE  RowsOf(n.entities[f], q) = RowsOf(tables.entities[f], q)
<1>1. AreNew(tables.entities[f], EntityRows(Entities(raw[f]), s), s)
  BY InsertedEntities
<1>2. n.entities[f] = With(tables.entities[f], EntityRows(Entities(raw[f]), s))
  BY InsertedIs
<1> QED
  BY <1>1, <1>2, WithRows

(* The new rows are those of the source, and the old ones are as they were.*)
LEMMA InsertedRows ==
    ASSUME NEW raw, IsRaw(raw), Accepts(raw), Linked(tables),
           NEW s, IsNextId(s),
           NEW n, n = Inserted(raw)
    PROVE  /\ \A f \in EntityFiles :
                 /\ DOMAIN n.entities[f] = (DOMAIN tables.entities[f]) \union ({s} \X DOMAIN raw[f])
                 /\ \A i \in DOMAIN tables.entities[f] : n.entities[f][i] = tables.entities[f][i]
                 /\ \A p \in DOMAIN raw[f] : n.entities[f][<<s, p>>] = EntityRow(raw[f][p], s)
                 /\ RowsOf(n.entities[f], s) = {s} \X DOMAIN raw[f]
           /\ DOMAIN n.traits = (DOMAIN tables.traits) \union ({s} \X DOMAIN Traits(raw))
           /\ \A i \in DOMAIN tables.traits : n.traits[i] = tables.traits[i]
           /\ \A x \in DOMAIN Traits(raw) : n.traits[<<s, x>>] = TraitRowOf(raw, s, x)
           /\ RowsOf(n.traits, s) = {s} \X DOMAIN Traits(raw)
           /\ \A q : q # s => RowsOf(n.traits, q) = RowsOf(tables.traits, q)
           /\ n.tiers = tables.tiers \union TiersIn(raw, s)
           /\ n.heroTraits = tables.heroTraits \union HeroTraitsIn(raw, s)
           /\ n.recipes = tables.recipes \union RecipesIn(raw, s)
<1>0. s \notin DOMAIN tables.snapshots
  BY DEF IsNextId
<1>1. ASSUME NEW f \in EntityFiles
      PROVE  /\ DOMAIN n.entities[f] = (DOMAIN tables.entities[f]) \union ({s} \X DOMAIN raw[f])
             /\ \A i \in DOMAIN tables.entities[f] : n.entities[f][i] = tables.entities[f][i]
             /\ \A p \in DOMAIN raw[f] : n.entities[f][<<s, p>>] = EntityRow(raw[f][p], s)
             /\ RowsOf(n.entities[f], s) = {s} \X DOMAIN raw[f]
  BY InsertedEntities
<1>2. /\ DOMAIN n.traits = (DOMAIN tables.traits) \union ({s} \X DOMAIN Traits(raw))
      /\ \A i \in DOMAIN tables.traits : n.traits[i] = tables.traits[i]
      /\ \A x \in DOMAIN Traits(raw) : n.traits[<<s, x>>] = TraitRowOf(raw, s, x)
      /\ RowsOf(n.traits, s) = {s} \X DOMAIN Traits(raw)
      /\ \A q : q # s => RowsOf(n.traits, q) = RowsOf(tables.traits, q)
  <2> DEFINE old == tables.traits
             new == TraitRows(Traits(raw), s)
             D == {s} \X DOMAIN Traits(raw)
  <2>1. n.traits = With(old, new)
    BY InsertedIs
  <2>2. DOMAIN new = D /\ (\A x \in DOMAIN Traits(raw) : new[<<s, x>>] = TraitRowOf(raw, s, x))
        /\ \A i \in D : new[i].snapshot = s
    BY NewTraits
  <2>3. \A i \in D : i[1] = s
    OBVIOUS
  <2>4. \A x \in DOMAIN Traits(raw) : <<s, x>> \in D
    OBVIOUS
  <2>5. \A i \in DOMAIN old : old[i].snapshot # s /\ i[1] # s
    BY <1>0 DEF Linked
  <2> HIDE DEF old, new, D
  <2>6. \A i \in DOMAIN old : old[i].snapshot # s /\ i \notin DOMAIN new
    BY <2>2, <2>3, <2>5
  <2>7. AreNew(old, new, s)
    BY <2>2, <2>6 DEF AreNew
  <2>8. /\ DOMAIN With(old, new) = (DOMAIN old) \union DOMAIN new
        /\ \A i \in DOMAIN old : With(old, new)[i] = old[i]
        /\ \A i \in DOMAIN new : With(old, new)[i] = new[i]
    BY ONLY <2>7 DEF With, AreNew
  <2>9. /\ RowsOf(With(old, new), s) = DOMAIN new
        /\ \A q : q # s => RowsOf(With(old, new), q) = RowsOf(old, q)
    BY ONLY <2>7, WithRows
  <2> QED
    BY <2>1, <2>2, <2>4, <2>8, <2>9 DEF old, D
<1>3. n.tiers = tables.tiers \union TiersIn(raw, s)
  <2>1. n.tiers = tables.tiers \union TierRows(Traits(raw), n.traits, s)
    BY InsertedIs
  <2>2. TierRows(Traits(raw), n.traits, s) = TiersIn(raw, s)
    BY <1>2, NewTiers
  <2> QED
    BY ONLY <2>1, <2>2
<1>4. "chess" \in EntityFiles /\ "equip" \in EntityFiles
  BY DEF EntityFiles
<1>5. n.heroTraits = tables.heroTraits \union HeroTraitsIn(raw, s)
  <2>1. n.heroTraits = tables.heroTraits
           \union HeroTraitRows(Structured(raw).heroTraits, n.entities.chess, n.traits, s)
    BY InsertedIs
  <2>2. RowsOf(n.entities.chess, s) = {s} \X DOMAIN raw.chess
        /\ \A p \in DOMAIN raw.chess : n.entities.chess[<<s, p>>] = EntityRow(raw.chess[p], s)
    BY <1>1, <1>4
  <2>3. HeroTraitRows(Structured(raw).heroTraits, n.entities.chess, n.traits, s) = HeroTraitsIn(raw, s)
    BY <1>2, <2>2, NewHeroTraits
  <2> QED
    BY ONLY <2>1, <2>3
<1>6. n.recipes = tables.recipes \union RecipesIn(raw, s)
  <2>1. n.recipes = tables.recipes \union RecipeRows(Recipes(raw), n.entities.equip, s)
    BY InsertedIs
  <2>2. RowsOf(n.entities.equip, s) = {s} \X DOMAIN raw.equip
        /\ \A p \in DOMAIN raw.equip : n.entities.equip[<<s, p>>] = EntityRow(raw.equip[p], s)
    BY <1>1, <1>4
  <2>3. RecipeRows(Recipes(raw), n.entities.equip, s) = RecipesIn(raw, s)
    BY <2>2, NewRecipes
  <2> QED
    BY ONLY <2>1, <2>3
<1> QED
  BY <1>1, <1>2, <1>3, <1>5, <1>6

LEMMA TiersInAre ==
    ASSUME NEW raw, NEW s
    PROVE  /\ \A r \in TiersIn(raw, s) : \E x \in DOMAIN Traits(raw) :
                 \E l \in DOMAIN Traits(raw)[x].tiers : r = TierRow(raw, s, x, l)
           /\ \A x \in DOMAIN Traits(raw) : \A l \in DOMAIN Traits(raw)[x].tiers :
                 TierRow(raw, s, x, l) \in TiersIn(raw, s)
BY DEF TiersIn

LEMMA InsertedLinked ==
    ASSUME NEW raw, IsRaw(raw), Accepts(raw), Linked(tables),
           NEW s, IsNextId(s),
           NEW n, n = Inserted(raw)
    PROVE  /\ DOMAIN n.snapshots = (DOMAIN tables.snapshots) \union {s}
           /\ \A q \in DOMAIN tables.snapshots : n.snapshots[q] = tables.snapshots[q]
           /\ n.snapshots[s] = Content(raw)
           /\ Linked(n)
<1>0. n.snapshots = Append(tables.snapshots, Content(raw))
  BY InsertedIs
<1>1. /\ DOMAIN n.snapshots = (DOMAIN tables.snapshots) \union {s}
      /\ \A q \in DOMAIN tables.snapshots : n.snapshots[q] = tables.snapshots[q]
      /\ n.snapshots[s] = Content(raw)
  BY <1>0 DEF IsNextId
<1>2. ASSUME NEW f \in EntityFiles, NEW i \in DOMAIN n.entities[f]
      PROVE  i[1] = n.entities[f][i].snapshot /\ i[1] \in DOMAIN n.snapshots
  <2>1. DOMAIN n.entities[f] = (DOMAIN tables.entities[f]) \union ({s} \X DOMAIN raw[f])
    BY InsertedRows
  <2>2. CASE i \in DOMAIN tables.entities[f]
    <3>1. n.entities[f][i] = tables.entities[f][i]
      BY <2>2, InsertedRows
    <3> QED
      BY <1>1, <2>2, <3>1 DEF Linked
  <2>3. CASE i \in {s} \X DOMAIN raw[f]
    <3>1. i \in RowsOf(n.entities[f], s)
      BY <2>3, InsertedRows
    <3> QED
      BY <1>1, <2>3, <3>1 DEF RowsOf
  <2> QED
    BY <2>1, <2>2, <2>3
<1>3. ASSUME NEW i \in DOMAIN n.traits
      PROVE  i[1] = n.traits[i].snapshot /\ i[1] \in DOMAIN n.snapshots
  <2>1. DOMAIN n.traits = (DOMAIN tables.traits) \union ({s} \X DOMAIN Traits(raw))
    BY InsertedRows
  <2>2. CASE i \in DOMAIN tables.traits
    <3>1. n.traits[i] = tables.traits[i]
      BY <2>2, InsertedRows
    <3> QED
      BY <1>1, <2>2, <3>1 DEF Linked
  <2>3. CASE i \in {s} \X DOMAIN Traits(raw)
    <3>1. i \in RowsOf(n.traits, s)
      BY <2>3, InsertedRows
    <3> QED
      BY <1>1, <2>3, <3>1 DEF RowsOf
  <2> QED
    BY <2>1, <2>2, <2>3
<1>4. ASSUME NEW r \in n.tiers PROVE r.trait \in DOMAIN n.traits
  <2>1. DOMAIN n.traits = (DOMAIN tables.traits) \union ({s} \X DOMAIN Traits(raw))
        /\ n.tiers = tables.tiers \union TiersIn(raw, s)
    BY InsertedRows
  <2>2. CASE r \in tables.tiers
    BY <2>1, <2>2 DEF Linked
  <2>3. CASE r \in TiersIn(raw, s)
    <3>1. PICK x \in DOMAIN Traits(raw) :
             \E l \in DOMAIN Traits(raw)[x].tiers : r = TierRow(raw, s, x, l)
      BY <2>3, TiersInAre
    <3>2. r.trait = <<s, x>>
      BY <3>1, RowFields
    <3> QED
      BY <2>1, <3>2
  <2> QED
    BY <2>1, <2>2, <2>3
<1>5. ASSUME NEW r \in n.heroTraits \union n.recipes PROVE r.snapshot \in DOMAIN n.snapshots
  <2>1. n.heroTraits = tables.heroTraits \union HeroTraitsIn(raw, s)
        /\ n.recipes = tables.recipes \union RecipesIn(raw, s)
    BY InsertedRows
  <2>2. \A q \in HeroTraitsIn(raw, s) \union RecipesIn(raw, s) : q.snapshot = s
    BY RowFields DEF HeroTraitsIn, RecipesIn
  <2> QED
    BY <1>1, <2>1, <2>2 DEF Linked
<1>6. Linked(n)
  BY <1>2, <1>3, <1>4, <1>5 DEF Linked
<1> QED
  BY <1>1, <1>6

LEMMA InsertedHolds ==
    ASSUME NEW raw, IsRaw(raw), Accepts(raw), Linked(tables),
           NEW s, IsNextId(s),
           NEW n, n = Inserted(raw)
    PROVE  Holds(n, s, raw)
<1>0. s \notin DOMAIN tables.snapshots
  BY DEF IsNextId
<1>1. EntitiesHold(n, s, raw)
  BY InsertedRows DEF EntitiesHold
<1>2. TraitsHold(n, s, raw)
  BY InsertedRows DEF TraitsHold
<1>3. {r \in n.tiers : r.trait \in RowsOf(n.traits, s)} = TiersIn(raw, s)
  <2>1. n.tiers = tables.tiers \union TiersIn(raw, s) /\ RowsOf(n.traits, s) = {s} \X DOMAIN Traits(raw)
    BY InsertedRows
  <2>2. ASSUME NEW r \in tables.tiers PROVE r.trait \notin {s} \X DOMAIN Traits(raw)
    <3>1. r.trait[1] # s
      BY <1>0 DEF Linked
    <3> QED
      BY <3>1
  <2>3. ASSUME NEW r \in TiersIn(raw, s) PROVE r.trait \in {s} \X DOMAIN Traits(raw)
    <3>1. PICK x \in DOMAIN Traits(raw) :
             \E l \in DOMAIN Traits(raw)[x].tiers : r = TierRow(raw, s, x, l)
      BY TiersInAre
    <3>2. r.trait = <<s, x>>
      BY <3>1, RowFields
    <3> QED
      BY <3>2
  <2> QED
    BY <2>1, <2>2, <2>3
<1>4. {r \in n.heroTraits : r.snapshot = s} = HeroTraitsIn(raw, s)
  <2>1. n.heroTraits = tables.heroTraits \union HeroTraitsIn(raw, s)
    BY InsertedRows
  <2>2. \A q \in HeroTraitsIn(raw, s) : q.snapshot = s
    BY RowFields DEF HeroTraitsIn
  <2>3. \A q \in tables.heroTraits : q.snapshot # s
    BY <1>0 DEF Linked
  <2> QED
    BY <2>1, <2>2, <2>3
<1>5. {r \in n.recipes : r.snapshot = s} = RecipesIn(raw, s)
  <2>1. n.recipes = tables.recipes \union RecipesIn(raw, s)
    BY InsertedRows
  <2>2. \A q \in RecipesIn(raw, s) : q.snapshot = s
    BY RowFields DEF RecipesIn
  <2>3. \A q \in tables.recipes : q.snapshot # s
    BY <1>0 DEF Linked
  <2> QED
    BY <2>1, <2>2, <2>3
<1> QED
  BY <1>1, <1>2, <1>3, <1>4, <1>5 DEF Holds

LEMMA InsertedKeeps ==
    ASSUME NEW raw, IsRaw(raw), Accepts(raw), Linked(tables),
           NEW s, IsNextId(s),
           NEW n, n = Inserted(raw),
           NEW q \in DOMAIN tables.snapshots, NEW old, Holds(tables, q, old)
    PROVE  Holds(n, q, old)
<1>0. q # s
  BY DEF IsNextId
<1>1. EntitiesHold(n, q, old)
  <2> SUFFICES ASSUME NEW f \in EntityFiles
               PROVE  /\ RowsOf(n.entities[f], q) = {q} \X DOMAIN old[f]
                      /\ \A p \in DOMAIN old[f] : n.entities[f][<<q, p>>] = EntityRow(old[f][p], q)
    BY DEF EntitiesHold
  <2>1. /\ RowsOf(tables.entities[f], q) = {q} \X DOMAIN old[f]
        /\ \A p \in DOMAIN old[f] : tables.entities[f][<<q, p>>] = EntityRow(old[f][p], q)
    BY DEF Holds, EntitiesHold
  <2>2. RowsOf(n.entities[f], q) = RowsOf(tables.entities[f], q)
        /\ \A i \in DOMAIN tables.entities[f] : n.entities[f][i] = tables.entities[f][i]
    <3>1. \A m : m # s => RowsOf(n.entities[f], m) = RowsOf(tables.entities[f], m)
      BY InsertedOldEntities
    <3>2. \A i \in DOMAIN tables.entities[f] : n.entities[f][i] = tables.entities[f][i]
      BY InsertedRows
    <3> QED
      BY <1>0, <3>1, <3>2
  <2>3. \A p \in DOMAIN old[f] : <<q, p>> \in DOMAIN tables.entities[f]
    <3>1. RowsOf(tables.entities[f], q) \subseteq DOMAIN tables.entities[f]
      BY DEF RowsOf
    <3>2. \A p \in DOMAIN old[f] : <<q, p>> \in RowsOf(tables.entities[f], q)
      BY <2>1
    <3> QED
      BY <3>1, <3>2
  <2> QED
    BY <2>1, <2>2, <2>3
<1>2. TraitsHold(n, q, old)
  <2>1. /\ RowsOf(tables.traits, q) = {q} \X DOMAIN Traits(old)
        /\ \A x \in DOMAIN Traits(old) : tables.traits[<<q, x>>] = TraitRowOf(old, q, x)
    BY DEF Holds, TraitsHold
  <2>2. RowsOf(n.traits, q) = RowsOf(tables.traits, q)
        /\ \A i \in DOMAIN tables.traits : n.traits[i] = tables.traits[i]
    BY <1>0, InsertedRows
  <2>3. \A x \in DOMAIN Traits(old) : <<q, x>> \in DOMAIN tables.traits
    BY <2>1 DEF RowsOf
  <2> QED
    BY <2>1, <2>2, <2>3 DEF TraitsHold
<1>3. {r \in n.tiers : r.trait \in RowsOf(n.traits, q)} = TiersIn(old, q)
  <2>1. n.tiers = tables.tiers \union TiersIn(raw, s) /\ RowsOf(n.traits, q) = RowsOf(tables.traits, q)
    BY <1>0, InsertedRows
  <2>2. \A i \in RowsOf(tables.traits, q) : i[1] = q
    BY DEF Linked, RowsOf
  <2>3. ASSUME NEW r \in TiersIn(raw, s) PROVE r.trait[1] = s
    <3>1. PICK x \in DOMAIN Traits(raw) :
             \E l \in DOMAIN Traits(raw)[x].tiers : r = TierRow(raw, s, x, l)
      BY TiersInAre
    <3>2. r.trait = <<s, x>>
      BY <3>1, RowFields
    <3> QED
      BY <3>2
  <2>4. {r \in tables.tiers : r.trait \in RowsOf(tables.traits, q)} = TiersIn(old, q)
    BY DEF Holds
  <2> QED
    BY <1>0, <2>1, <2>2, <2>3, <2>4
<1>4. {r \in n.heroTraits : r.snapshot = q} = HeroTraitsIn(old, q)
  <2>1. n.heroTraits = tables.heroTraits \union HeroTraitsIn(raw, s)
    BY InsertedRows
  <2>2. \A r \in HeroTraitsIn(raw, s) : r.snapshot = s
    BY RowFields DEF HeroTraitsIn
  <2>3. {r \in tables.heroTraits : r.snapshot = q} = HeroTraitsIn(old, q)
    BY DEF Holds
  <2> QED
    BY <1>0, <2>1, <2>2, <2>3
<1>5. {r \in n.recipes : r.snapshot = q} = RecipesIn(old, q)
  <2>1. n.recipes = tables.recipes \union RecipesIn(raw, s)
    BY InsertedRows
  <2>2. \A r \in RecipesIn(raw, s) : r.snapshot = s
    BY RowFields DEF RecipesIn
  <2>3. {r \in tables.recipes : r.snapshot = q} = RecipesIn(old, q)
    BY DEF Holds
  <2> QED
    BY <1>0, <2>1, <2>2, <2>3
<1> QED
  BY <1>1, <1>2, <1>3, <1>4, <1>5 DEF Holds
-----------------------------------------------------------------------------
(* What is accepted fits the tables, widths and adventureIds apart.        *)

Narrow(raw) == \A f \in Files : \A e \in ToSet(raw[f]) : e.text # "wide"
AdventuresDiffer(raw) ==
    \A i, j \in DOMAIN raw.adventure : raw.adventure[i].id = raw.adventure[j].id => i = j

LEMMA AdventuresCounted ==
    ASSUME NEW raw, IsRaw(raw), ~(Cardinality(IdsOf(raw.adventure)) < Len(raw.adventure))
    PROVE  AdventuresDiffer(raw)
<1> DEFINE D == DOMAIN raw.adventure
           ids == IdsOf(raw.adventure)
           f == [i \in D |-> raw.adventure[i].id]
<1>1. IsFiniteSet(D) /\ Len(raw.adventure) \in Nat /\ D = 1..Len(raw.adventure)
  BY FilesAre DEF Files, EntityFiles, Simple
<1>2. Cardinality(D) = Len(raw.adventure)
  BY <1>1, FS_Interval
<1>3. f \in Surjection(D, ids)
  BY DEF Surjection, IdsOf, ToSet
<1>4. IsFiniteSet(ids) /\ Cardinality(ids) <= Cardinality(D)
      /\ (Cardinality(ids) = Cardinality(D) <=> f \in Injection(D, ids))
  <2> HIDE DEF f, ids, D
  <2> QED
    BY <1>1, <1>3, FS_Surjection
<1>5. Cardinality(ids) \in Nat
  BY <1>4, FS_CardinalityType
<1>6. f \in Injection(D, ids)
  <2> HIDE DEF f, D
  <2> QED
    BY <1>1, <1>2, <1>4, <1>5
<1>7. \A i, j \in D : f[i] = f[j] => i = j
  <2>1. DOMAIN f = D
    OBVIOUS
  <2> HIDE DEF f, ids, D
  <2> QED
    BY <1>6, <2>1 DEF Injection, IsInjective
<1> QED
  BY <1>7 DEF AdventuresDiffer

LEMMA EntityIdsDiffer ==
    ASSUME NEW raw, IsRaw(raw), Accepts(raw), AdventuresDiffer(raw), NEW f \in EntityFiles
    PROVE  \A i, j \in DOMAIN raw[f] : raw[f][i].id = raw[f][j].id => i = j
<1>1. CASE f = "adventure"
  BY <1>1 DEF AdventuresDiffer
<1>2. CASE f # "adventure"
  BY <1>2, AcceptedIds DEF Files, EntityFiles, Simple
<1> QED
  BY <1>1, <1>2

LEMMA TraitOfKey ==
    ASSUME NEW raw, NEW x \in DOMAIN Traits(raw)
    PROVE  \E t \in ToSet(raw[x[1]]) : x = <<x[1], t.id>> /\ x[1] \in Kinds
<1>1. x = <<x[1], x[2]>> /\ x[1] \in Kinds /\ x[2] \in IdsOf(raw[x[1]])
  BY TraitKeyIs
<1>2. PICK t \in ToSet(raw[x[1]]) : x[2] = t.id
  BY <1>1 DEF IdsOf
<1> QED
  BY <1>1, <1>2

LEMMA TraitTexts ==
    ASSUME NEW raw, IsRaw(raw), Accepts(raw), Narrow(raw), NEW x \in DOMAIN Traits(raw)
    PROVE  /\ Traits(raw)[x].text # "wide"
           /\ \A l \in DOMAIN Traits(raw)[x].tiers : Traits(raw)[x].tiers[l].text # "wide"
<1>1. PICK t \in ToSet(raw[x[1]]) : x = <<x[1], t.id>> /\ x[1] \in Kinds
  BY TraitOfKey
<1>2. TraitIs(raw, Traits(raw)[<<x[1], t.id>>], t)
  BY <1>1, TiersAre
<1> DEFINE row == Traits(raw)[x]
<1>3. TraitIs(raw, row, t)
  BY <1>1, <1>2
<1>4. x[1] \in Files /\ "trait" \in Files
  BY <1>1 DEF Files
<1> HIDE DEF row
<1>5. row.text # "wide" /\ \A l \in DOMAIN row.tiers : row.tiers[l].text # "wide"
  BY <1>3, <1>4 DEF Narrow, TraitIs
<1> QED
  BY <1>5 DEF row

LEMMA HeroTraitRowsDiffer ==
    ASSUME NEW raw, IsRaw(raw), Accepts(raw), NEW s,
           NEW a \in HeroTraitsIn(raw, s), NEW b \in HeroTraitsIn(raw, s),
           a.hero = b.hero, a.trait = b.trait
    PROVE  a = b
<1>1. PICK r \in Structured(raw).heroTraits : a = HeroTraitRow(raw, s, r)
  BY DEF HeroTraitsIn
<1>2. PICK q \in Structured(raw).heroTraits : b = HeroTraitRow(raw, s, q)
  BY DEF HeroTraitsIn
<1>3. /\ a.hero = <<s, PlaceOf(raw.chess, r.hero)>> /\ a.trait = <<s, <<r.kind, r.trait>>>>
      /\ b.hero = <<s, PlaceOf(raw.chess, q.hero)>> /\ b.trait = <<s, <<q.kind, q.trait>>>>
  BY <1>1, <1>2, RowFields
<1>4. PlaceOf(raw.chess, r.hero) = PlaceOf(raw.chess, q.hero) /\ r.kind = q.kind /\ r.trait = q.trait
  <2>1. <<s, PlaceOf(raw.chess, r.hero)>> = <<s, PlaceOf(raw.chess, q.hero)>>
        /\ <<s, <<r.kind, r.trait>>>> = <<s, <<q.kind, q.trait>>>>
    BY <1>3
  <2> QED
    BY ONLY <2>1
<1>5. r.hero \in IdsOf(raw.chess) /\ q.hero \in IdsOf(raw.chess)
  BY RelationsRefer
<1>6. \A id \in IdsOf(raw.chess) : raw.chess[PlaceOf(raw.chess, id)].id = id
  BY PlaceFound
<1>7. r.hero = q.hero
  BY <1>4, <1>5, <1>6
<1>8. r = q
  BY <1>4, <1>7, RelationsDiffer
<1> QED
  BY <1>1, <1>2, <1>8

LEMMA RecipeRowsDiffer ==
    ASSUME NEW raw, IsRaw(raw), Accepts(raw), NEW s,
           NEW a \in RecipesIn(raw, s), NEW b \in RecipesIn(raw, s), a.equipment = b.equipment
    PROVE  a = b
<1>1. PICK r \in Recipes(raw) : a = RecipeRow(raw, s, r)
  BY DEF RecipesIn
<1>2. PICK q \in Recipes(raw) : b = RecipeRow(raw, s, q)
  BY DEF RecipesIn
<1>3. a.equipment = <<s, PlaceOf(raw.equip, r.equipment)>>
      /\ b.equipment = <<s, PlaceOf(raw.equip, q.equipment)>>
  BY <1>1, <1>2, RowFields
<1>4. PlaceOf(raw.equip, r.equipment) = PlaceOf(raw.equip, q.equipment)
  <2>1. <<s, PlaceOf(raw.equip, r.equipment)>> = <<s, PlaceOf(raw.equip, q.equipment)>>
    BY <1>3
  <2> QED
    BY ONLY <2>1
<1>5. r.equipment \in IdsOf(raw.equip) /\ q.equipment \in IdsOf(raw.equip)
  BY RecipesAre
<1>6. \A id \in IdsOf(raw.equip) : raw.equip[PlaceOf(raw.equip, id)].id = id
  BY PlaceFound
<1>7. r.equipment = q.equipment
  BY <1>4, <1>5, <1>6
<1>8. r = q
  BY <1>7, RecipesAre
<1> QED
  BY <1>1, <1>2, <1>8

LEMMA InsertedFits ==
    ASSUME NEW raw, IsRaw(raw), Accepts(raw), Linked(tables), Fits(tables),
           Narrow(raw), AdventuresDiffer(raw),
           NEW s, IsNextId(s),
           NEW n, n = Inserted(raw)
    PROVE  Fits(n)
<1>0. s \notin DOMAIN tables.snapshots
  BY DEF IsNextId
<1>1. ASSUME NEW f \in EntityFiles, NEW i \in DOMAIN n.entities[f], NEW j \in DOMAIN n.entities[f],
             n.entities[f][i].snapshot = n.entities[f][j].snapshot,
             n.entities[f][i].id = n.entities[f][j].id
      PROVE  i = j
  <2> DEFINE rows == n.entities[f]
             q == rows[i].snapshot
  <2>1. i \in RowsOf(rows, q) /\ j \in RowsOf(rows, q)
    BY <1>1 DEF RowsOf
  <2>2. CASE q = s
    <3>1. RowsOf(rows, s) = {s} \X DOMAIN raw[f]
          /\ \A p \in DOMAIN raw[f] : rows[<<s, p>>] = EntityRow(raw[f][p], s)
      BY <1>0, InsertedEntities
    <3>2. PICK p \in DOMAIN raw[f] : i = <<s, p>>
      BY <2>1, <2>2, <3>1
    <3>3. PICK m \in DOMAIN raw[f] : j = <<s, m>>
      BY <2>1, <2>2, <3>1
    <3>4. raw[f][p].id = raw[f][m].id
      BY <1>1, <3>1, <3>2, <3>3, RowFields
    <3> QED
      BY <3>2, <3>3, <3>4, EntityIdsDiffer
  <2>3. CASE q # s
    <3>0. \A m : m # s => RowsOf(n.entities[f], m) = RowsOf(tables.entities[f], m)
      BY InsertedOldEntities
    <3>1. RowsOf(rows, q) = RowsOf(tables.entities[f], q)
      BY <2>3, <3>0
    <3>2. i \in DOMAIN tables.entities[f] /\ j \in DOMAIN tables.entities[f]
      BY <2>1, <3>1 DEF RowsOf
    <3>3. rows[i] = tables.entities[f][i] /\ rows[j] = tables.entities[f][j]
      BY <1>0, <3>2, InsertedEntities
    <3> QED
      BY <1>1, <3>2, <3>3 DEF Fits
  <2> QED
    BY <2>2, <2>3
<1>2. ASSUME NEW i \in DOMAIN n.traits, NEW j \in DOMAIN n.traits,
             n.traits[i].snapshot = n.traits[j].snapshot,
             n.traits[i].kind = n.traits[j].kind, n.traits[i].id = n.traits[j].id
      PROVE  i = j
  <2> DEFINE rows == n.traits
             q == rows[i].snapshot
  <2>1. i \in RowsOf(rows, q) /\ j \in RowsOf(rows, q)
    BY <1>2 DEF RowsOf
  <2>2. CASE q = s
    <3>1. RowsOf(rows, s) = {s} \X DOMAIN Traits(raw)
          /\ \A x \in DOMAIN Traits(raw) : rows[<<s, x>>] = TraitRowOf(raw, s, x)
      BY <1>0, InsertedRows
    <3>2. PICK x \in DOMAIN Traits(raw) : i = <<s, x>>
      BY <2>1, <2>2, <3>1
    <3>3. PICK y \in DOMAIN Traits(raw) : j = <<s, y>>
      BY <2>1, <2>2, <3>1
    <3>4. x[1] = y[1] /\ x[2] = y[2]
      BY <1>2, <3>1, <3>2, <3>3, RowFields
    <3>5. x = <<x[1], x[2]>> /\ y = <<y[1], y[2]>>
      BY TraitKeyIs
    <3> QED
      BY <3>2, <3>3, <3>4, <3>5
  <2>3. CASE q # s
    <3>1. RowsOf(rows, q) = RowsOf(tables.traits, q)
      BY <1>0, <2>3, InsertedRows
    <3>2. i \in DOMAIN tables.traits /\ j \in DOMAIN tables.traits
      BY <2>1, <3>1 DEF RowsOf
    <3>3. rows[i] = tables.traits[i] /\ rows[j] = tables.traits[j]
      BY <1>0, <3>2, InsertedRows
    <3> QED
      BY <1>2, <3>2, <3>3 DEF Fits
  <2> QED
    BY <2>2, <2>3
<1>3. ASSUME NEW a \in n.tiers, NEW b \in n.tiers, a.trait = b.trait, a.level = b.level
      PROVE  a = b
  <2>1. n.tiers = tables.tiers \union TiersIn(raw, s)
    BY <1>0, InsertedRows
  <2>2. \A r \in tables.tiers : r.trait[1] # s
    BY <1>0 DEF Linked
  <2>3. \A r \in TiersIn(raw, s) : \E x \in DOMAIN Traits(raw) :
           \E l \in DOMAIN Traits(raw)[x].tiers : r = TierRow(raw, s, x, l)
    BY TiersInAre
  <2>4. \A r \in TiersIn(raw, s) : \E x : r = TierRow(raw, s, x, r.level) /\ r.trait = <<s, x>>
    BY <2>3, RowFields
  <2>5. CASE a \in tables.tiers /\ b \in tables.tiers
    BY <1>3, <2>5 DEF Fits
  <2>6. CASE a \in TiersIn(raw, s) /\ b \in TiersIn(raw, s)
    <3>1. PICK x : a = TierRow(raw, s, x, a.level) /\ a.trait = <<s, x>>
      BY <2>4, <2>6
    <3>2. PICK y : b = TierRow(raw, s, y, b.level) /\ b.trait = <<s, y>>
      BY <2>4, <2>6
    <3>3. x = y
      <4>1. <<s, x>> = <<s, y>>
        BY <1>3, <3>1, <3>2
      <4> QED
        BY ONLY <4>1
    <3> QED
      BY <1>3, <3>1, <3>2, <3>3
  <2>7. \A r \in TiersIn(raw, s) : r.trait[1] = s
    BY <2>4
  <2> QED
    BY <1>3, <2>1, <2>2, <2>5, <2>6, <2>7
<1>4. ASSUME NEW a \in n.heroTraits, NEW b \in n.heroTraits,
             a.snapshot = b.snapshot, a.hero = b.hero, a.trait = b.trait
      PROVE  a = b
  <2>1. n.heroTraits = tables.heroTraits \union HeroTraitsIn(raw, s)
    BY <1>0, InsertedRows
  <2>2. \A r \in tables.heroTraits : r.snapshot # s
    BY <1>0 DEF Linked
  <2>3. \A r \in HeroTraitsIn(raw, s) : r.snapshot = s
    BY RowFields DEF HeroTraitsIn
  <2>4. CASE a \in tables.heroTraits /\ b \in tables.heroTraits
    BY <1>4, <2>4 DEF Fits
  <2>5. CASE a \in HeroTraitsIn(raw, s) /\ b \in HeroTraitsIn(raw, s)
    BY <1>4, <2>5, HeroTraitRowsDiffer
  <2> QED
    BY <1>4, <2>1, <2>2, <2>3, <2>4, <2>5
<1>5. ASSUME NEW a \in n.recipes, NEW b \in n.recipes,
             a.snapshot = b.snapshot, a.equipment = b.equipment
      PROVE  a = b
  <2>1. n.recipes = tables.recipes \union RecipesIn(raw, s)
    BY <1>0, InsertedRows
  <2>2. \A r \in tables.recipes : r.snapshot # s
    BY <1>0 DEF Linked
  <2>3. \A r \in RecipesIn(raw, s) : r.snapshot = s
    BY RowFields DEF RecipesIn
  <2>4. CASE a \in tables.recipes /\ b \in tables.recipes
    BY <1>5, <2>4 DEF Fits
  <2>5. CASE a \in RecipesIn(raw, s) /\ b \in RecipesIn(raw, s)
    BY <1>5, <2>5, RecipeRowsDiffer
  <2> QED
    BY <1>5, <2>1, <2>2, <2>3, <2>4, <2>5
<1>6. ASSUME NEW f \in EntityFiles, NEW i \in DOMAIN n.entities[f]
      PROVE  n.entities[f][i].text # "wide"
  <2>1. DOMAIN n.entities[f] = (DOMAIN tables.entities[f]) \union ({s} \X DOMAIN raw[f])
        /\ (\A j \in DOMAIN tables.entities[f] : n.entities[f][j] = tables.entities[f][j])
        /\ \A p \in DOMAIN raw[f] : n.entities[f][<<s, p>>] = EntityRow(raw[f][p], s)
    BY <1>0, InsertedEntities
  <2>2. CASE i \in DOMAIN tables.entities[f]
    BY <2>1, <2>2 DEF Fits
  <2>3. CASE i \in {s} \X DOMAIN raw[f]
    <3>1. PICK p \in DOMAIN raw[f] : i = <<s, p>>
      BY <2>3
    <3>2. n.entities[f][i].text = raw[f][p].text
      BY <2>1, <3>1, RowFields
    <3>3. raw[f][p] \in ToSet(raw[f]) /\ f \in Files
      BY DEF ToSet, Files
    <3> QED
      BY <3>2, <3>3 DEF Narrow
  <2> QED
    BY <2>1, <2>2, <2>3
<1>7. ASSUME NEW i \in DOMAIN n.traits PROVE n.traits[i].text # "wide"
  <2>1. DOMAIN n.traits = (DOMAIN tables.traits) \union ({s} \X DOMAIN Traits(raw))
        /\ (\A j \in DOMAIN tables.traits : n.traits[j] = tables.traits[j])
        /\ \A x \in DOMAIN Traits(raw) : n.traits[<<s, x>>] = TraitRowOf(raw, s, x)
    BY <1>0, InsertedRows
  <2>2. CASE i \in DOMAIN tables.traits
    BY <2>1, <2>2 DEF Fits
  <2>3. CASE i \in {s} \X DOMAIN Traits(raw)
    <3>1. PICK x \in DOMAIN Traits(raw) : i = <<s, x>>
      BY <2>3
    <3>2. n.traits[i].text = Traits(raw)[x].text
      BY <2>1, <3>1, RowFields
    <3> QED
      BY <3>2, TraitTexts
  <2> QED
    BY <2>1, <2>2, <2>3
<1>8. ASSUME NEW r \in n.tiers PROVE r.text # "wide"
  <2>1. n.tiers = tables.tiers \union TiersIn(raw, s)
    BY <1>0, InsertedRows
  <2>2. CASE r \in tables.tiers
    BY <2>2 DEF Fits
  <2>3. CASE r \in TiersIn(raw, s)
    <3>1. PICK x \in DOMAIN Traits(raw) :
             \E l \in DOMAIN Traits(raw)[x].tiers : r = TierRow(raw, s, x, l)
      BY <2>3, TiersInAre
    <3>2. PICK l \in DOMAIN Traits(raw)[x].tiers : r = TierRow(raw, s, x, l)
      BY <3>1
    <3>3. r.text = Traits(raw)[x].tiers[l].text
      BY <3>2, RowFields
    <3> QED
      BY <3>3, TraitTexts
  <2> QED
    BY <2>1, <2>2, <2>3
<1>9. Fits(n)
  BY <1>1, <1>2, <1>3, <1>4, <1>5, <1>6, <1>7, <1>8 DEF Fits
<1> QED
  BY <1>9
-----------------------------------------------------------------------------
(* A snapshot that holds a source is complete for it, in any order.        *)

LEMMA ProductCount ==
    ASSUME NEW s, NEW D, IsFiniteSet(D)
    PROVE  Cardinality({s} \X D) = Cardinality(D)
<1> DEFINE f == [x \in D |-> <<s, x>>]
<1>1. DOMAIN f = D /\ \A x \in D : f[x] = <<s, x>>
  OBVIOUS
<1>2. \A x, y \in DOMAIN f : f[x] = f[y] => x = y
  BY <1>1
<1>3. {s} \X D = {f[x] : x \in DOMAIN f}
  BY <1>1
<1> HIDE DEF f
<1> QED
  BY <1>1, <1>2, <1>3, RangeCount

LEMMA IdsFinite ==
    ASSUME NEW raw, IsRaw(raw), NEW f \in Files
    PROVE  IsFiniteSet(IdsOf(raw[f]))
<1> DEFINE g == [e \in ToSet(raw[f]) |-> e.id]
<1>1. DOMAIN g = ToSet(raw[f]) /\ IdsOf(raw[f]) = {g[e] : e \in DOMAIN g}
  BY DEF IdsOf
<1> HIDE DEF g
<1> QED
  BY <1>1, FilesAre, RangeIsFinite

LEMMA TraitsFinite ==
    ASSUME NEW raw, IsRaw(raw)
    PROVE  IsFiniteSet(DOMAIN Traits(raw))
<1> DEFINE races == {"race"} \X IdsOf(raw.race)
           jobs == {"job"} \X IdsOf(raw.job)
<1>1. DOMAIN Traits(raw) = races \union jobs
  <2>1. DOMAIN Traits(raw) = UNION {{kind} \X IdsOf(raw[kind]) : kind \in Kinds}
    BY DEF Traits
  <2> QED
    BY <2>1 DEF Kinds
<1>2. IsFiniteSet(IdsOf(raw.race)) /\ IsFiniteSet(IdsOf(raw.job))
  BY IdsFinite DEF Files, Kinds
<1>3. IsFiniteSet({"race"}) /\ IsFiniteSet({"job"})
  BY FS_Singleton
<1>4. IsFiniteSet(races) /\ IsFiniteSet(jobs)
  BY <1>2, <1>3, FS_Product
<1> HIDE DEF races, jobs
<1> QED
  BY <1>1, <1>4, FS_Union

(* The tiers of all traits, as ExpectedTiers counts them.                  *)
TierKeys(raw) == UNION {{x} \X DOMAIN Traits(raw)[x].tiers : x \in DOMAIN Traits(raw)}

LEMMA TierKeysFinite ==
    ASSUME NEW raw, IsRaw(raw), Accepts(raw)
    PROVE  IsFiniteSet(TierKeys(raw))
<1>1. ASSUME NEW x \in DOMAIN Traits(raw)
      PROVE  IsFiniteSet({x} \X DOMAIN Traits(raw)[x].tiers)
  <2>1. PICK t \in ToSet(raw[x[1]]) : x = <<x[1], t.id>> /\ x[1] \in Kinds
    BY TraitOfKey
  <2>2. TraitIs(raw, Traits(raw)[<<x[1], t.id>>], t)
    BY <2>1, TiersAre
  <2> DEFINE row == Traits(raw)[x]
  <2>3. TraitIs(raw, row, t)
    BY <2>1, <2>2
  <2> HIDE DEF row
  <2>4. DOMAIN row.tiers = 1..Len(t.list) /\ Len(t.list) \in Nat
    BY <2>3 DEF TraitIs
  <2>5. IsFiniteSet(DOMAIN row.tiers)
    BY <2>4, FS_Interval
  <2>6. IsFiniteSet({x})
    BY FS_Singleton
  <2>7. IsFiniteSet({x} \X DOMAIN row.tiers)
    BY <2>5, <2>6, FS_Product
  <2> QED
    BY <2>7 DEF row
<1> DEFINE f == [x \in DOMAIN Traits(raw) |-> {x} \X DOMAIN Traits(raw)[x].tiers]
           R == {f[x] : x \in DOMAIN f}
<1>2. DOMAIN f = DOMAIN Traits(raw) /\ TierKeys(raw) = UNION R /\ \A T \in R : IsFiniteSet(T)
  BY <1>1 DEF TierKeys
<1> HIDE DEF f
<1>3. IsFiniteSet(R)
  BY <1>2, TraitsFinite, RangeIsFinite
<1> QED
  BY <1>2, <1>3, FS_UNION

LEMMA RelationsFinite ==
    ASSUME NEW raw, IsRaw(raw), Accepts(raw)
    PROVE  IsFiniteSet(Structured(raw).heroTraits)
<1> DEFINE H == ToSet(raw.chess)
           f == [x \in H \X Kinds |-> HeroTraits(x[1], x[2])]
           R == {f[x] : x \in DOMAIN f}
<1>1. IsFiniteSet(H \X Kinds)
  <2>1. IsFiniteSet(H)
    BY FilesAre DEF Files, EntityFiles
  <2>2. IsFiniteSet(Kinds)
    <3>1. Kinds = {"race"} \union {"job"}
      BY DEF Kinds
    <3>2. IsFiniteSet({"race"}) /\ IsFiniteSet({"job"})
      BY FS_Singleton
    <3> QED
      BY <3>1, <3>2, FS_Union
  <2> QED
    BY <2>1, <2>2, FS_Product
<1>2. ASSUME NEW h \in H, NEW kind \in Kinds PROVE IsFiniteSet(HeroTraits(h, kind))
  <2> DEFINE listed == Relations(Listed(h, kind))
             g == [p \in DOMAIN listed |-> RelationOf(h, kind, p)]
  <2>1. PICK n \in Nat : DOMAIN listed = 1..n
    BY HeroLists DEF TraitsListed
  <2>2. IsFiniteSet(DOMAIN listed)
    BY <2>1, FS_Interval
  <2>3. DOMAIN g = DOMAIN listed /\ HeroTraits(h, kind) = {g[p] : p \in DOMAIN g}
    BY DEF HeroTraits, RelationOf
  <2> HIDE DEF g
  <2> QED
    BY <2>2, <2>3, RangeIsFinite
<1>3. Structured(raw).heroTraits = UNION {HeroTraits(h, kind) : h \in H, kind \in Kinds}
  BY DEF Structured
<1>4. Structured(raw).heroTraits = UNION R
  <2>1. DOMAIN f = H \X Kinds /\ \A h \in H, kind \in Kinds : f[<<h, kind>>] = HeroTraits(h, kind)
    OBVIOUS
  <2>2. \A x \in H \X Kinds : x = <<x[1], x[2]>> /\ x[1] \in H /\ x[2] \in Kinds
    OBVIOUS
  <2>3. R = {HeroTraits(h, kind) : h \in H, kind \in Kinds}
    <3> HIDE DEF f, H
    <3>1. \A x \in H \X Kinds : f[x] = HeroTraits(x[1], x[2])
      BY <2>1, <2>2
    <3>2. \A h \in H, kind \in Kinds : <<h, kind>> \in H \X Kinds
      OBVIOUS
    <3>3. ASSUME NEW T \in R PROVE T \in {HeroTraits(h, kind) : h \in H, kind \in Kinds}
      <4>1. PICK x \in H \X Kinds : T = f[x]
        BY <2>1
      <4> QED
        BY <2>2, <3>1, <4>1
    <3>4. ASSUME NEW h \in H, NEW kind \in Kinds PROVE HeroTraits(h, kind) \in R
      BY <2>1, <3>2
    <3> QED
      BY <3>3, <3>4
  <2> QED
    BY <1>3, <2>3
<1>5. DOMAIN f = H \X Kinds /\ \A T \in R : IsFiniteSet(T)
  BY <1>2
<1> HIDE DEF f
<1>6. IsFiniteSet(R)
  BY <1>1, <1>5, RangeIsFinite
<1> QED
  BY <1>4, <1>5, <1>6, FS_UNION

LEMMA RecipesFinite ==
    ASSUME NEW raw, IsRaw(raw)
    PROVE  IsFiniteSet(Recipes(raw))
<1> DEFINE made == {p \in ToSet(raw.equip) : Components(p) # {}}
           f == [e \in made |-> RecipeOf(e)]
<1>1. IsFiniteSet(ToSet(raw.equip))
  BY FilesAre DEF Files, EntityFiles
<1>2. IsFiniteSet(made)
  <2>1. made \in SUBSET ToSet(raw.equip)
    OBVIOUS
  <2> QED
    BY <1>1, <2>1, FS_Subset
<1>3. DOMAIN f = made /\ Recipes(raw) = {f[e] : e \in DOMAIN f}
  BY DEF Recipes, RecipeOf
<1> HIDE DEF f, made
<1> QED
  BY <1>2, <1>3, RangeIsFinite

(* As many rows as are expected, table by table.                           *)
LEMMA HeldCounts ==
    ASSUME NEW s, NEW raw, IsRaw(raw), Accepts(raw), Holds(tables, s, raw)
    PROVE  /\ \A f \in EntityFiles :
                 Cardinality(RowsOf(tables.entities[f], s)) = Cardinality(ToSet(raw[f]))
           /\ Cardinality(RowsOf(tables.traits, s)) = Cardinality(DOMAIN Traits(raw))
           /\ Cardinality({r \in tables.heroTraits : r.snapshot = s})
                 = Cardinality(Structured(raw).heroTraits)
           /\ Cardinality({r \in tables.recipes : r.snapshot = s}) = Cardinality(Recipes(raw))
           /\ Cardinality({r \in tables.tiers : r.trait \in RowsOf(tables.traits, s)})
                 = Cardinality(TierKeys(raw))
<1>1. ASSUME NEW f \in EntityFiles
      PROVE  Cardinality(RowsOf(tables.entities[f], s)) = Cardinality(ToSet(raw[f]))
  <2>1. RowsOf(tables.entities[f], s) = {s} \X DOMAIN raw[f]
    BY DEF Holds, EntitiesHold
  <2>2. f \in Files
    BY DEF Files
  <2>3. /\ DOMAIN raw[f] = 1..Len(raw[f]) /\ Len(raw[f]) \in Nat /\ IsFiniteSet(DOMAIN raw[f])
        /\ Cardinality(ToSet(raw[f])) = Len(raw[f])
    BY <2>2, FilesAre
  <2>4. Cardinality(DOMAIN raw[f]) = Len(raw[f])
    BY <2>3, FS_Interval
  <2>5. Cardinality({s} \X DOMAIN raw[f]) = Cardinality(DOMAIN raw[f])
    BY <2>3, ProductCount
  <2> QED
    BY <2>1, <2>3, <2>4, <2>5
<1>2. Cardinality(RowsOf(tables.traits, s)) = Cardinality(DOMAIN Traits(raw))
  <2>1. RowsOf(tables.traits, s) = {s} \X DOMAIN Traits(raw)
    BY DEF Holds, TraitsHold
  <2> QED
    BY <2>1, TraitsFinite, ProductCount
<1>3. Cardinality(HeroTraitsIn(raw, s)) = Cardinality(Structured(raw).heroTraits)
  <2> DEFINE D == Structured(raw).heroTraits
             f == [r \in D |-> HeroTraitRow(raw, s, r)]
  <2>1. DOMAIN f = D /\ HeroTraitsIn(raw, s) = {f[r] : r \in DOMAIN f}
    BY DEF HeroTraitsIn
  <2>2. ASSUME NEW r \in D, NEW q \in D, f[r] = f[q] PROVE r = q
    <3>1. HeroTraitRow(raw, s, r) = HeroTraitRow(raw, s, q)
      BY <2>2
    <3>2. <<s, PlaceOf(raw.chess, r.hero)>> = <<s, PlaceOf(raw.chess, q.hero)>>
          /\ <<s, <<r.kind, r.trait>>>> = <<s, <<q.kind, q.trait>>>>
      BY <3>1, RowFields
    <3>3. PlaceOf(raw.chess, r.hero) = PlaceOf(raw.chess, q.hero) /\ r.kind = q.kind /\ r.trait = q.trait
      BY ONLY <3>2
    <3>4. r.hero \in IdsOf(raw.chess) /\ q.hero \in IdsOf(raw.chess)
      BY RelationsRefer
    <3>5. r.hero = q.hero
      BY <3>3, <3>4, PlaceFound
    <3> QED
      BY <3>3, <3>5, RelationsDiffer
  <2>3. IsFiniteSet(D)
    BY RelationsFinite
  <2> HIDE DEF f, D
  <2>4. Cardinality(HeroTraitsIn(raw, s)) = Cardinality(D)
    BY <2>1, <2>2, <2>3, RangeCount
  <2> QED
    BY <2>4 DEF D
<1>4. Cardinality(RecipesIn(raw, s)) = Cardinality(Recipes(raw))
  <2> DEFINE D == Recipes(raw)
             f == [r \in D |-> RecipeRow(raw, s, r)]
  <2>1. DOMAIN f = D /\ RecipesIn(raw, s) = {f[r] : r \in DOMAIN f}
    BY DEF RecipesIn
  <2>2. ASSUME NEW r \in D, NEW q \in D, f[r] = f[q] PROVE r = q
    <3>1. RecipeRow(raw, s, r) = RecipeRow(raw, s, q)
      BY <2>2
    <3>2. <<s, PlaceOf(raw.equip, r.equipment)>> = <<s, PlaceOf(raw.equip, q.equipment)>>
      BY <3>1, RowFields
    <3>3. PlaceOf(raw.equip, r.equipment) = PlaceOf(raw.equip, q.equipment)
      BY ONLY <3>2
    <3>4. r.equipment \in IdsOf(raw.equip) /\ q.equipment \in IdsOf(raw.equip)
      BY RecipesAre
    <3>5. r.equipment = q.equipment
      BY <3>3, <3>4, PlaceFound
    <3> QED
      BY <3>5, RecipesAre
  <2>3. IsFiniteSet(D)
    BY RecipesFinite
  <2> HIDE DEF f, D
  <2>4. Cardinality(RecipesIn(raw, s)) = Cardinality(D)
    BY <2>1, <2>2, <2>3, RangeCount
  <2> QED
    BY <2>4 DEF D
<1>5. Cardinality(TiersIn(raw, s)) = Cardinality(TierKeys(raw))
  <2> DEFINE D == TierKeys(raw)
             f == [k \in D |-> TierRow(raw, s, k[1], k[2])]
  <2>1. ASSUME NEW k \in D
        PROVE  /\ k = <<k[1], k[2]>> /\ k[1] \in DOMAIN Traits(raw)
               /\ k[2] \in DOMAIN Traits(raw)[k[1]].tiers
    BY DEF TierKeys
  <2>2. \A x \in DOMAIN Traits(raw) : \A l \in DOMAIN Traits(raw)[x].tiers : <<x, l>> \in D
    BY DEF TierKeys
  <2>3. DOMAIN f = D /\ \A k \in D : f[k] = TierRow(raw, s, k[1], k[2])
    OBVIOUS
  <2> HIDE DEF f, D
  <2>4. TiersIn(raw, s) = {f[k] : k \in DOMAIN f}
    <3>1. ASSUME NEW r \in TiersIn(raw, s) PROVE r \in {f[k] : k \in DOMAIN f}
      <4>1. PICK x \in DOMAIN Traits(raw) :
               \E l \in DOMAIN Traits(raw)[x].tiers : r = TierRow(raw, s, x, l)
        BY TiersInAre
      <4>2. PICK l \in DOMAIN Traits(raw)[x].tiers : r = TierRow(raw, s, x, l)
        BY <4>1
      <4>3. <<x, l>> \in DOMAIN f /\ f[<<x, l>>] = TierRow(raw, s, x, l)
        BY <2>2, <2>3
      <4> QED
        BY <4>2, <4>3
    <3>2. ASSUME NEW k \in DOMAIN f PROVE f[k] \in TiersIn(raw, s)
      BY <2>1, <2>3, TiersInAre
    <3> QED
      BY <3>1, <3>2
  <2>5. ASSUME NEW k \in D, NEW m \in D, f[k] = f[m] PROVE k = m
    <3>1. TierRow(raw, s, k[1], k[2]) = TierRow(raw, s, m[1], m[2])
      BY <2>3, <2>5
    <3>2. <<s, k[1]>> = <<s, m[1]>> /\ k[2] = m[2]
      BY <3>1, RowFields
    <3>3. k[1] = m[1]
      BY ONLY <3>2
    <3>4. k = <<k[1], k[2]>> /\ m = <<m[1], m[2]>>
      BY <2>1
    <3> QED
      BY ONLY <3>2, <3>3, <3>4
  <2>6. IsFiniteSet(D)
    BY TierKeysFinite DEF D
  <2>7. Cardinality(TiersIn(raw, s)) = Cardinality(D)
    BY <2>3, <2>4, <2>5, <2>6, RangeCount
  <2> QED
    BY <2>7 DEF D
<1>6. /\ {r \in tables.heroTraits : r.snapshot = s} = HeroTraitsIn(raw, s)
      /\ {r \in tables.recipes : r.snapshot = s} = RecipesIn(raw, s)
      /\ {r \in tables.tiers : r.trait \in RowsOf(tables.traits, s)} = TiersIn(raw, s)
  BY DEF Holds
<1> QED
  BY <1>1, <1>2, <1>3, <1>4, <1>5, <1>6

LEMMA HeldIsComplete ==
    ASSUME NEW s, NEW raw, IsRaw(raw), Accepts(raw), Holds(tables, s, raw),
           NEW new, IsRaw(new), Content(new) = Content(raw)
    PROVE  IsComplete(s, Structured(new))
<1>1. Traits(new) = Traits(raw) /\ Recipes(new) = Recipes(raw)
      /\ Structured(new).heroTraits = Structured(raw).heroTraits
  BY SameTraits, SameRelations
<1>2. /\ Structured(new).traits = Traits(new) /\ Structured(new).recipes = Recipes(new)
      /\ \A f \in EntityFiles : Structured(new).entities[f] = Entities(new[f])
  BY DEF Structured
<1>3. ASSUME NEW f \in EntityFiles PROVE Len(Structured(new).entities[f]) = Cardinality(ToSet(raw[f]))
  <2>1. f \in Files
    BY DEF Files
  <2>2. Cardinality(ToSet(new[f])) = Len(new[f]) /\ Len(new[f]) \in Nat
        /\ DOMAIN new[f] = 1..Len(new[f])
    BY <2>1, FilesAre
  <2>3. ToSet(new[f]) = ToSet(raw[f])
    BY <2>1, SameFiles
  <2>4. Len(Entities(new[f])) = Len(new[f])
    <3>1. DOMAIN Entities(new[f]) = 1..Len(new[f])
      BY <2>2 DEF Entities
    <3>2. Entities(new[f]) \in Seq({Entities(new[f])[i] : i \in 1..Len(new[f])})
      <4>1. Entities(new[f]) \in [1..Len(new[f]) -> {Entities(new[f])[i] : i \in 1..Len(new[f])}]
        BY <3>1 DEF Entities
      <4> QED
        BY <2>2, <4>1, IsASeq
    <3> QED
      BY <2>2, <3>1, <3>2
  <2> QED
    BY <1>2, <2>2, <2>3, <2>4
<1>4. ExpectedTiers(Structured(new)) = Cardinality(TierKeys(raw))
  <2> DEFINE m == Structured(new)
             traits == Traits(raw)
  <2>1. m.traits = traits
    BY <1>1, <1>2
  <2>2. /\ ExpectedTiers(m) = Cardinality(UNION {{t} \X DOMAIN m.traits[t].tiers : t \in DOMAIN m.traits})
        /\ TierKeys(raw) = UNION {{t} \X DOMAIN traits[t].tiers : t \in DOMAIN traits}
    BY DEF ExpectedTiers, TierKeys
  <2> HIDE DEF m, traits
  <2>3. ExpectedTiers(m) = Cardinality(TierKeys(raw))
    BY ONLY <2>1, <2>2, Zenon
  <2> QED
    BY <2>3 DEF m
<1>5. \A f \in EntityFiles :
         Cardinality(RowsOf(tables.entities[f], s)) = Cardinality(ToSet(raw[f]))
  BY HeldCounts
<1>6. /\ Cardinality(RowsOf(tables.traits, s)) = Cardinality(DOMAIN Traits(raw))
      /\ Cardinality({r \in tables.heroTraits : r.snapshot = s})
            = Cardinality(Structured(raw).heroTraits)
      /\ Cardinality({r \in tables.recipes : r.snapshot = s}) = Cardinality(Recipes(raw))
      /\ Cardinality({r \in tables.tiers : r.trait \in RowsOf(tables.traits, s)})
            = Cardinality(TierKeys(raw))
  BY HeldCounts
<1> DEFINE heroTraits == {r \in tables.heroTraits : r.snapshot = s}
           recipes == {r \in tables.recipes : r.snapshot = s}
           tiers == {r \in tables.tiers : r.trait \in RowsOf(tables.traits, s)}
<1>7. /\ Cardinality(heroTraits) = Cardinality(Structured(new).heroTraits)
      /\ Cardinality(recipes) = Cardinality(Structured(new).recipes)
      /\ Cardinality(tiers) = ExpectedTiers(Structured(new))
      /\ Cardinality(RowsOf(tables.traits, s)) = Cardinality(DOMAIN Structured(new).traits)
  BY <1>1, <1>2, <1>4, <1>6
<1>8. \A f \in EntityFiles :
         Cardinality(RowsOf(tables.entities[f], s)) = Len(Structured(new).entities[f])
  BY <1>3, <1>5
<1> QED
  BY ONLY <1>7, <1>8 DEF IsComplete
-----------------------------------------------------------------------------
(* The invariant is inductive.                                             *)

LEMMA OriginIsRaw ==
    ASSUME source \in Sources, NEW raw \in Origin
    PROVE  IsRaw(raw) /\ \E base \in {source, Base} : IsRaw(base) /\ Content(base) = Content(raw)
<1>1. IsRaw(source) /\ IsRaw(Base)
  BY SourcesAssumption
<1>2. IsRaw(Reordered(source)) /\ Content(Reordered(source)) = Content(source)
  BY <1>1, ReorderedIsRaw
<1> QED
  BY <1>1, <1>2 DEF Origin

LEMMA ContentRange ==
    ASSUME NEW raw, IsRaw(raw)
    PROVE  Content(raw) \in [Files -> SUBSET Records]
<1>1. ASSUME NEW f \in Files PROVE ToSet(raw[f]) \in SUBSET Records
  BY RecordsAre DEF Records, Files, EntityFiles
<1> QED
  BY <1>1 DEF Content

(* A source that the adapters accept and the tables refuse.                *)
Oversized(raw) ==
    \/ \E f \in Files : \E e \in ToSet(raw[f]) : e.text = "wide"
    \/ Cardinality(IdsOf(raw.adventure)) < Len(raw.adventure)

LEMMA SameOversized ==
    ASSUME NEW a, IsRaw(a), NEW b, IsRaw(b), Content(a) = Content(b), Oversized(a)
    PROVE  Oversized(b)
<1>1. \A f \in Files : ToSet(a[f]) = ToSet(b[f]) /\ IdsOf(a[f]) = IdsOf(b[f])
  BY SameFiles
<1>2. "adventure" \in Files
  BY DEF Files, EntityFiles, Simple
<1>3. Len(a.adventure) = Len(b.adventure)
  <2>1. Cardinality(ToSet(a.adventure)) = Len(a.adventure)
    BY <1>2, FilesAre
  <2>2. Cardinality(ToSet(b.adventure)) = Len(b.adventure)
    BY <1>2, FilesAre
  <2> QED
    BY <1>1, <1>2, <2>1, <2>2
<1> QED
  BY <1>1, <1>2, <1>3 DEF Oversized

LEMMA RefusedIsOversized ==
    ASSUME NEW raw, IsRaw(raw), Accepts(raw), Linked(tables), Fits(tables),
           tables.snapshots \in Seq([Files -> SUBSET Records]), ~Fits(Inserted(raw))
    PROVE  Oversized(raw)
<1> DEFINE s == Len(tables.snapshots) + 1
<1>1. IsNextId(s)
  BY DEF IsNextId
<1>2. Narrow(raw) /\ AdventuresDiffer(raw) => Fits(Inserted(raw))
  <2> HIDE DEF s
  <2> QED
    BY <1>1, InsertedFits
<1>3. CASE ~Narrow(raw)
  BY <1>3 DEF Narrow, Oversized
<1>4. CASE ~AdventuresDiffer(raw)
  BY <1>4, AdventuresCounted DEF Oversized
<1> QED
  BY <1>2, <1>3, <1>4

LEMMA EndsKeeps ==
    ASSUME AcceptedIsImported, outcome \in Seq(Outcomes), source' = source,
           NEW how \in Outcomes \ {"incomplete"}, Ends(how),
           how = "refused" => \E raw \in {source, Base} : Oversized(raw)
    PROVE  /\ AcceptedIsImported'
           /\ outcome' \in Seq(Outcomes) /\ Len(outcome') <= MaxImports
<1>1. outcome' = Append(outcome, how) /\ Len(outcome) < MaxImports
  BY DEF Ends
<1>2. outcome' \in Seq(Outcomes) /\ Len(outcome') = Len(outcome) + 1 /\ Len(outcome) \in Nat
  BY <1>1
<1>3. /\ DOMAIN outcome' = 1..(Len(outcome) + 1) /\ DOMAIN outcome = 1..Len(outcome)
      /\ outcome'[Len(outcome) + 1] = how
      /\ \A i \in 1..Len(outcome) : outcome'[i] = outcome[i]
  BY <1>1, <1>2
<1>4. ASSUME NEW i \in DOMAIN outcome'
      PROVE  outcome'[i] = how \/ (i \in DOMAIN outcome /\ outcome'[i] = outcome[i])
  BY <1>2, <1>3
<1>5. \A i \in DOMAIN outcome' : outcome'[i] # "incomplete"
  BY <1>4 DEF AcceptedIsImported
<1>6. "refused" \in ToSet(outcome)' => \E raw \in {source, Base} : Oversized(raw)
  <2>1. CASE how = "refused"
    BY <2>1
  <2>2. CASE how # "refused"
    <3>1. "refused" \in ToSet(outcome)' => "refused" \in ToSet(outcome)
      BY <1>4, <2>2 DEF ToSet
    <3> QED
      BY <3>1 DEF AcceptedIsImported, Oversized
  <2> QED
    BY <2>1, <2>2
<1>7. AcceptedIsImported'
  BY <1>5, <1>6 DEF AcceptedIsImported, Oversized
<1>8. Len(outcome') <= MaxImports
  BY <1>1, <1>2, ImportsAssumption
<1> QED
  BY <1>2, <1>7, <1>8

LEMMA KnownSource ==
    ASSUME IInv, NEW raw \in Origin, NEW s \in Existing(raw)
    PROVE  s \in DOMAIN tables.snapshots /\ IsComplete(s, Structured(raw))
<1>1. s \in DOMAIN tables.snapshots /\ tables.snapshots[s] = Content(raw)
  BY DEF Existing, Content
<1>2. PICK old \in Origin : Accepts(old) /\ tables.snapshots[s] = Content(old) /\ Holds(tables, s, old)
  BY <1>1 DEF IInv
<1>3. IsRaw(old) /\ IsRaw(raw)
  BY OriginIsRaw DEF IInv, TypeOK
<1> QED
  BY <1>1, <1>2, <1>3, HeldIsComplete

LEMMA InitIInv == Init => IInv
<1> SUFFICES ASSUME Init PROVE IInv
  OBVIOUS
<1>1. /\ tables.snapshots = <<>> /\ tables.traits = <<>> /\ tables.tiers = {}
      /\ tables.heroTraits = {} /\ tables.recipes = {}
      /\ \A f \in EntityFiles : tables.entities[f] = <<>>
  BY DEF Init, NoRows
<1>2. DOMAIN <<>> = {}
  OBVIOUS
<1>3. TypeOK
  BY <1>1, ImportsAssumption DEF Init, TypeOK
<1>4. Linked(tables)
  BY <1>1, <1>2 DEF Linked
<1>5. Fits(tables)
  BY <1>1, <1>2 DEF Fits
<1>6. DOMAIN tables.snapshots = {}
  BY <1>1, <1>2
<1>7. AcceptedIsImported
  BY <1>2 DEF Init, AcceptedIsImported, ToSet
<1> QED
  BY <1>3, <1>4, <1>5, <1>6, <1>7 DEF IInv

(* An import that leaves the tables as they were.                          *)
LEMMA SameTablesKeep ==
    ASSUME IInv, UNCHANGED <<source, tables>>, current' \in 0..Len(tables.snapshots),
           AcceptedIsImported', outcome' \in Seq(Outcomes), Len(outcome') <= MaxImports
    PROVE  IInv'
<1>1. TypeOK'
  BY DEF IInv, TypeOK
<1>2. Linked(tables') /\ Fits(tables')
  BY DEF IInv
<1>3. Origin' = Origin /\ tables' = tables
  BY DEF Origin
<1>4. \A s \in DOMAIN tables'.snapshots : \E raw \in Origin' :
         Accepts(raw) /\ tables'.snapshots[s] = Content(raw) /\ Holds(tables', s, raw)
  BY <1>3 DEF IInv
<1> QED
  BY <1>1, <1>2, <1>4 DEF IInv

LEMMA NewKeeps ==
    ASSUME IInv, NEW raw \in Origin, Accepts(raw), Fits(Inserted(raw)),
           tables' = Inserted(raw), source' = source, current' = Len(tables.snapshots) + 1,
           AcceptedIsImported', outcome' \in Seq(Outcomes), Len(outcome') <= MaxImports
    PROVE  IInv'
<1> DEFINE s == Len(tables.snapshots) + 1
<1>1. IsRaw(raw) /\ tables.snapshots \in Seq([Files -> SUBSET Records]) /\ Linked(tables)
  BY OriginIsRaw DEF IInv, TypeOK
<1>2. IsNextId(s)
  BY <1>1 DEF IsNextId
<1>3. tables'.snapshots = Append(tables.snapshots, Content(raw))
  BY <1>2, InsertedIs
<1>4. Content(raw) \in [Files -> SUBSET Records]
  BY <1>1, ContentRange
<1>5. TypeOK'
  <2>1. tables'.snapshots \in Seq([Files -> SUBSET Records])
        /\ Len(tables'.snapshots) = Len(tables.snapshots) + 1 /\ Len(tables.snapshots) \in Nat
    BY <1>1, <1>3, <1>4
  <2>2. current' \in 0..Len(tables'.snapshots)
    BY <2>1
  <2> QED
    BY <2>1, <2>2 DEF IInv, TypeOK
<1> HIDE DEF s
<1>6. /\ DOMAIN tables'.snapshots = (DOMAIN tables.snapshots) \union {s}
      /\ \A q \in DOMAIN tables.snapshots : tables'.snapshots[q] = tables.snapshots[q]
      /\ tables'.snapshots[s] = Content(raw)
      /\ Linked(tables')
  BY <1>1, <1>2, InsertedLinked
<1>7. Holds(tables', s, raw)
  BY <1>1, <1>2, InsertedHolds
<1>8. Origin' = Origin
  BY DEF Origin
<1>9. ASSUME NEW q \in DOMAIN tables'.snapshots
      PROVE  \E new \in Origin' :
                Accepts(new) /\ tables'.snapshots[q] = Content(new) /\ Holds(tables', q, new)
  <2>1. CASE q = s
    BY <1>6, <1>7, <1>8, <2>1
  <2>2. CASE q \in DOMAIN tables.snapshots
    <3>1. PICK old \in Origin :
             Accepts(old) /\ tables.snapshots[q] = Content(old) /\ Holds(tables, q, old)
      BY <2>2 DEF IInv
    <3>2. Holds(tables', q, old)
      BY <1>1, <1>2, <2>2, <3>1, InsertedKeeps
    <3> QED
      BY <1>6, <1>8, <2>2, <3>1, <3>2
  <2> QED
    BY <1>6, <2>1, <2>2
<1>10. Fits(tables')
  OBVIOUS
<1> QED
  BY <1>5, <1>6, <1>9, <1>10 DEF IInv

LEMMA NextIInv == IInv /\ [Next]_vars => IInv'
<1> SUFFICES ASSUME IInv, [Next]_vars PROVE IInv'
  OBVIOUS
<1>0. /\ source \in Sources /\ tables.snapshots \in Seq([Files -> SUBSET Records])
      /\ current \in 0..Len(tables.snapshots)
      /\ outcome \in Seq(Outcomes) /\ Len(outcome) <= MaxImports
      /\ Linked(tables) /\ Fits(tables) /\ AcceptedIsImported
  BY DEF IInv, TypeOK
<1>1. CASE UNCHANGED vars
  <2>1. UNCHANGED <<source, tables>> /\ current' = current /\ outcome' = outcome
    BY <1>1 DEF vars
  <2>2. AcceptedIsImported'
    BY <1>0, <2>1 DEF AcceptedIsImported, ToSet
  <2> QED
    BY <1>0, <2>1, <2>2, SameTablesKeep
<1>2. ASSUME NEW raw \in Origin, Rejected(raw) PROVE IInv'
  <2>1. Ends("rejected") /\ UNCHANGED <<source, tables>> /\ current' = current
    BY <1>2 DEF Rejected
  <2>2. AcceptedIsImported' /\ outcome' \in Seq(Outcomes) /\ Len(outcome') <= MaxImports
    BY <1>0, <2>1, EndsKeeps DEF Outcomes
  <2> QED
    BY <1>0, <2>1, <2>2, SameTablesKeep
<1>3. ASSUME NEW raw \in Origin, Known(raw) PROVE IInv'
  <2>1. PICK s \in Existing(raw) :
           IF IsComplete(s, Structured(raw))
             THEN current' = s /\ Ends(IF current = s THEN "skipped" ELSE "matched")
             ELSE Ends("incomplete") /\ UNCHANGED current
    BY <1>3 DEF Known
  <2>2. s \in DOMAIN tables.snapshots /\ IsComplete(s, Structured(raw))
    BY KnownSource
  <2>3. current' = s /\ Ends(IF current = s THEN "skipped" ELSE "matched")
    BY <2>1, <2>2
  <2>4. UNCHANGED <<source, tables>>
    BY <1>3 DEF Known
  <2>5. current' \in 0..Len(tables.snapshots)
    BY <1>0, <2>2, <2>3
  <2>6. AcceptedIsImported' /\ outcome' \in Seq(Outcomes) /\ Len(outcome') <= MaxImports
    BY <1>0, <2>3, <2>4, EndsKeeps DEF Outcomes
  <2> QED
    BY <2>4, <2>5, <2>6, SameTablesKeep
<1>4. ASSUME NEW raw \in Origin, New(raw) PROVE IInv'
  <2>1. Accepts(raw) /\ source' = source
    BY <1>4 DEF New
  <2>2. CASE Fits(Inserted(raw))
    <3>1. tables' = Inserted(raw) /\ current' = Len(tables.snapshots) + 1 /\ Ends("updated")
      BY <1>4, <2>2 DEF New
    <3>2. AcceptedIsImported' /\ outcome' \in Seq(Outcomes) /\ Len(outcome') <= MaxImports
      BY <1>0, <2>1, <3>1, EndsKeeps DEF Outcomes
    <3> QED
      BY <2>1, <2>2, <3>1, <3>2, NewKeeps
  <2>3. CASE ~Fits(Inserted(raw))
    <3>1. Ends("refused") /\ UNCHANGED <<tables, current>>
      BY <1>4, <2>3 DEF New
    <3>2. PICK base \in {source, Base} : IsRaw(raw) /\ IsRaw(base) /\ Content(base) = Content(raw)
      BY <1>0, OriginIsRaw
    <3>3. Oversized(raw)
      BY <1>0, <2>1, <2>3, <3>2, RefusedIsOversized
    <3>4. Oversized(base)
      BY <3>2, <3>3, SameOversized
    <3>5. AcceptedIsImported' /\ outcome' \in Seq(Outcomes) /\ Len(outcome') <= MaxImports
      BY <1>0, <2>1, <3>1, <3>4, EndsKeeps DEF Outcomes
    <3> QED
      BY <1>0, <2>1, <3>1, <3>5, SameTablesKeep
  <2> QED
    BY <2>2, <2>3
<1> QED
  BY <1>1, <1>2, <1>3, <1>4 DEF Next, Origin

(* The rows of every snapshot are those of its source, in every state.     *)
THEOREM Invariance == Spec => []IInv
  BY InitIInv, NextIInv, PTL DEF Spec

(* The pointer is 0 or a snapshot that is there, whose content is that of  *)
(* files; every import ends in one of the ways of import_raw_data.         *)
THEOREM StructuredTypeOK == Spec => []TypeOK
<1>1. IInv => TypeOK
  BY DEF IInv
<1> QED
  BY <1>1, Invariance, PTL

(* What validation and conversion accept is never refused by a unique key  *)
(* or found incomplete when it is imported again, but for a value that is  *)
(* wider than its column and for two records with one adventureId.         *)
THEOREM AcceptedSourcesAreImported == Spec => []AcceptedIsImported
<1>1. IInv => AcceptedIsImported
  BY DEF IInv
<1> QED
  BY <1>1, Invariance, PTL
-----------------------------------------------------------------------------
(* What the readers answer of a snapshot that holds a source.              *)

(* A row of a file is that of one of its records.                          *)
RowIs(raw, s, f, i, e) == \E p \in DOMAIN raw[f] : i = <<s, p>> /\ e = raw[f][p]

LEMMA RecordRows ==
    ASSUME NEW s, NEW raw, Holds(tables, s, raw), NEW f \in EntityFiles
    PROVE  /\ \A i \in RowsOf(tables.entities[f], s) : \E e \in ToSet(raw[f]) : RowIs(raw, s, f, i, e)
           /\ \A e \in ToSet(raw[f]) : \E i \in RowsOf(tables.entities[f], s) : RowIs(raw, s, f, i, e)
           /\ \A i, e : RowIs(raw, s, f, i, e) =>
                 tables.entities[f][i].id = e.id /\ tables.entities[f][i].text = e.text
<1>1. RowsOf(tables.entities[f], s) = {s} \X DOMAIN raw[f]
      /\ \A p \in DOMAIN raw[f] : tables.entities[f][<<s, p>>] = EntityRow(raw[f][p], s)
  BY DEF Holds, EntitiesHold
<1>2. ToSet(raw[f]) = {raw[f][p] : p \in DOMAIN raw[f]}
  BY DEF ToSet
<1>3. ASSUME NEW i \in RowsOf(tables.entities[f], s)
      PROVE  \E e \in ToSet(raw[f]) : RowIs(raw, s, f, i, e)
  <2>1. PICK p \in DOMAIN raw[f] : i = <<s, p>>
    BY <1>1
  <2> QED
    BY <1>2, <2>1 DEF RowIs
<1>4. ASSUME NEW e \in ToSet(raw[f])
      PROVE  \E i \in RowsOf(tables.entities[f], s) : RowIs(raw, s, f, i, e)
  <2>1. PICK p \in DOMAIN raw[f] : e = raw[f][p]
    BY <1>2
  <2>2. <<s, p>> \in RowsOf(tables.entities[f], s)
    BY <1>1
  <2> QED
    BY <2>1, <2>2 DEF RowIs
<1>5. ASSUME NEW i, NEW e, RowIs(raw, s, f, i, e)
      PROVE  tables.entities[f][i].id = e.id /\ tables.entities[f][i].text = e.text
  BY <1>1, <1>5, RowFields DEF RowIs
<1> QED
  BY <1>3, <1>4, <1>5

LEMMA RowPlace ==
    ASSUME NEW s, NEW raw, IsRaw(raw), Accepts(raw), NEW f \in {"chess", "equip"},
           NEW i, NEW e, RowIs(raw, s, f, i, e)
    PROVE  i = <<s, PlaceOf(raw[f], e.id)>> /\ e \in ToSet(raw[f]) /\ e.id \in IdsOf(raw[f])
<1>1. PICK p \in DOMAIN raw[f] : i = <<s, p>> /\ e = raw[f][p]
  BY DEF RowIs
<1>2. e \in ToSet(raw[f]) /\ e.id \in IdsOf(raw[f])
  BY <1>1 DEF ToSet, IdsOf
<1>3. p = PlaceOf(raw[f], e.id)
  BY <1>1, <1>2, PlaceFound
<1> QED
  BY <1>1, <1>2, <1>3

LEMMA SimpleServed ==
    ASSUME NEW s, NEW raw, Holds(tables, s, raw), NEW f \in Simple
    PROVE  SimpleItems(s, f) = ById({[id |-> e.id, text |-> e.text] : e \in ToSet(raw[f])})
<1> DEFINE rows == RowsOf(tables.entities[f], s)
           item(i) == [id |-> tables.entities[f][i].id, text |-> tables.entities[f][i].text]
           record(e) == [id |-> e.id, text |-> e.text]
<1>1. f \in EntityFiles
  BY DEF EntityFiles
<1>2. /\ \A i \in rows : \E e \in ToSet(raw[f]) : RowIs(raw, s, f, i, e)
      /\ \A e \in ToSet(raw[f]) : \E i \in rows : RowIs(raw, s, f, i, e)
      /\ \A i, e : RowIs(raw, s, f, i, e) => item(i) = record(e)
  BY <1>1, RecordRows
<1>3. SimpleItems(s, f) = ById({item(i) : i \in rows})
  BY DEF SimpleItems
<1> HIDE DEF rows, item, record
<1>4. {item(i) : i \in rows} = {record(e) : e \in ToSet(raw[f])}
  BY <1>2
<1>5. SimpleItems(s, f) = ById({record(e) : e \in ToSet(raw[f])})
  BY <1>3, <1>4
<1> QED
  BY <1>5 DEF record

(* A recipe by the row of the equipment.                                   *)
LEMMA ComponentsServed ==
    ASSUME NEW s, NEW raw, IsRaw(raw), Accepts(raw), Holds(tables, s, raw),
           NEW i, NEW e, RowIs(raw, s, "equip", i, e)
    PROVE  ComponentItems(s, i) = IF e.first = 0 THEN <<>> ELSE <<e.first, e.second>>
<1> DEFINE recipe == {r \in tables.recipes : r.snapshot = s /\ r.equipment = i}
           equip == tables.entities.equip
<1>1. i = <<s, PlaceOf(raw.equip, e.id)>> /\ e \in ToSet(raw.equip) /\ e.id \in IdsOf(raw.equip)
  BY RowPlace
<1>2. recipe = {r \in RecipesIn(raw, s) : r.equipment = i}
  <2>1. {r \in tables.recipes : r.snapshot = s} = RecipesIn(raw, s)
    BY DEF Holds
  <2> QED
    BY <2>1
<1>3. ASSUME NEW r \in recipe
      PROVE  e.first # 0 /\ r = RecipeRow(raw, s, RecipeOf(e))
  <2>1. PICK q \in Recipes(raw) : r = RecipeRow(raw, s, q)
    BY <1>2 DEF RecipesIn
  <2>2. <<s, PlaceOf(raw.equip, q.equipment)>> = <<s, PlaceOf(raw.equip, e.id)>>
    BY <1>1, <1>2, <2>1, RowFields
  <2>3. PlaceOf(raw.equip, q.equipment) = PlaceOf(raw.equip, e.id)
    BY ONLY <2>2
  <2>4. q.equipment \in IdsOf(raw.equip)
    BY RecipesAre
  <2>5. q.equipment = e.id
    BY <1>1, <2>3, <2>4, PlaceFound
  <2>6. PICK g \in ToSet(raw.equip) : g.first # 0 /\ q = RecipeOf(g)
    BY RecipesAre
  <2>7. g.id = e.id
    BY <2>5, <2>6 DEF RecipeOf
  <2>8. g = e
    BY <1>1, <2>7, AcceptedIds DEF Files, EntityFiles
  <2> QED
    BY <2>1, <2>6, <2>8
<1>4. CASE e.first = 0
  <2>1. recipe = {}
    BY <1>3, <1>4
  <2> QED
    BY <1>4, <2>1 DEF ComponentItems
<1>5. CASE e.first # 0
  <2> DEFINE q == RecipeOf(e)
             row == RecipeRow(raw, s, q)
  <2>1. q \in Recipes(raw) /\ q.equipment = e.id /\ q.first = e.first /\ q.second = e.second
    BY <1>1, <1>5, RecipesAre DEF RecipeOf
  <2>2. /\ row.equipment = <<s, PlaceOf(raw.equip, e.id)>>
        /\ row.first = <<s, PlaceOf(raw.equip, e.first)>>
        /\ row.second = <<s, PlaceOf(raw.equip, e.second)>>
    BY <2>1, RowFields
  <2>3. e.first \in IdsOf(raw.equip) /\ e.second \in IdsOf(raw.equip)
    BY <2>1, RecipesAre
  <2>4. row \in recipe
    <3>1. row \in RecipesIn(raw, s)
      BY <2>1 DEF RecipesIn
    <3> QED
      BY <1>1, <1>2, <2>2, <3>1
  <2>5. (CHOOSE r \in recipe : TRUE) = row
    BY <1>3, <2>4
  <2>6. ASSUME NEW id \in IdsOf(raw.equip) PROVE equip[<<s, PlaceOf(raw.equip, id)>>].id = id
    <3>1. PlaceOf(raw.equip, id) \in DOMAIN raw.equip /\ raw.equip[PlaceOf(raw.equip, id)].id = id
      BY PlaceFound
    <3>2. \A p \in DOMAIN raw.equip : equip[<<s, p>>] = EntityRow(raw.equip[p], s)
      BY DEF Holds, EntitiesHold, EntityFiles
    <3> QED
      BY <3>1, <3>2, RowFields
  <2>7. equip[row.first].id = e.first /\ equip[row.second].id = e.second
    BY <2>2, <2>3, <2>6
  <2>8. ComponentItems(s, i) =
           IF recipe = {} THEN <<>>
           ELSE <<equip[(CHOOSE r \in recipe : TRUE).first].id,
                  equip[(CHOOSE r \in recipe : TRUE).second].id>>
    BY DEF ComponentItems
  <2> HIDE DEF recipe, row, equip
  <2> QED
    BY <1>5, <2>4, <2>5, <2>7, <2>8
<1> QED
  BY <1>4, <1>5

LEMMA EquipmentServed ==
    ASSUME NEW s, NEW raw, IsRaw(raw), Accepts(raw), Holds(tables, s, raw)
    PROVE  EquipmentItems(s) =
              ById({[id |-> e.id, text |-> e.text,
                     components |-> IF e.first = 0 THEN <<>> ELSE <<e.first, e.second>>]
                       : e \in ToSet(raw.equip)})
<1> DEFINE equip == tables.entities.equip
           rows == RowsOf(equip, s)
           item(i) == [id |-> equip[i].id, text |-> equip[i].text, components |-> ComponentItems(s, i)]
           record(e) == [id |-> e.id, text |-> e.text,
                         components |-> IF e.first = 0 THEN <<>> ELSE <<e.first, e.second>>]
<1>1. "equip" \in EntityFiles
  BY DEF EntityFiles
<1>2. /\ \A i \in rows : \E e \in ToSet(raw.equip) : RowIs(raw, s, "equip", i, e)
      /\ \A e \in ToSet(raw.equip) : \E i \in rows : RowIs(raw, s, "equip", i, e)
      /\ \A i, e : RowIs(raw, s, "equip", i, e) => equip[i].id = e.id /\ equip[i].text = e.text
  BY <1>1, RecordRows
<1>3. ASSUME NEW i, NEW e, RowIs(raw, s, "equip", i, e) PROVE item(i) = record(e)
  BY <1>2, <1>3, ComponentsServed
<1>4. EquipmentItems(s) = ById({item(i) : i \in rows})
  BY DEF EquipmentItems
<1> HIDE DEF rows, item, record, equip
<1>5. {item(i) : i \in rows} = {record(e) : e \in ToSet(raw.equip)}
  BY <1>2, <1>3
<1>6. EquipmentItems(s) = ById({record(e) : e \in ToSet(raw.equip)})
  BY <1>4, <1>5
<1> QED
  BY <1>6 DEF record

(* Rows whose column is from a to a + n - 1, in their order.               *)
Consecutive(row, column, a, n) == \A k \in 1..n : row[k][column] = a + k - 1

LEMMA InOrderInterval ==
    ASSUME NEW a \in Int, NEW n \in Nat, NEW row, NEW column, Consecutive(row, column, a, n)
    PROVE  InOrder({row[k] : k \in 1..n}, column) = [k \in 1..n |-> row[k]]
<1> DEFINE rows == {row[k] : k \in 1..n}
           values == {r[column] : r \in rows}
<1>0. \A k \in 1..n : row[k][column] = a + k - 1
  BY DEF Consecutive
<1>1. values = a..(a + n - 1)
  <2>1. ASSUME NEW v \in values PROVE v \in a..(a + n - 1)
    <3>1. PICK k \in 1..n : v = row[k][column]
      OBVIOUS
    <3> QED
      BY <1>0, <3>1
  <2>2. ASSUME NEW v \in a..(a + n - 1) PROVE v \in values
    <3>1. v - a + 1 \in 1..n /\ a + (v - a + 1) - 1 = v
      OBVIOUS
    <3>2. row[v - a + 1][column] = v /\ row[v - a + 1] \in rows
      BY <1>0, <3>1
    <3> QED
      BY <3>2
  <2> QED
    BY <2>1, <2>2
<1>2. Ordered(values) = [k \in 1..n |-> a + k - 1]
  BY <1>1, OrderedInterval
<1>3. InOrder(rows, column) = [k \in 1..n |-> CHOOSE r \in rows : r[column] = a + k - 1]
  <2> DEFINE order == Ordered(values)
  <2>1. InOrder(rows, column) = [m \in DOMAIN order |-> CHOOSE r \in rows : r[column] = order[m]]
    BY DEF InOrder
  <2>2. order = [k \in 1..n |-> a + k - 1]
    BY <1>2
  <2> HIDE DEF order, rows, values
  <2>3. DOMAIN order = 1..n /\ \A k \in 1..n : order[k] = a + k - 1
    BY <2>2
  <2> QED
    BY <2>1, <2>3
<1>4. ASSUME NEW k \in 1..n PROVE (CHOOSE r \in rows : r[column] = a + k - 1) = row[k]
  <2>1. row[k] \in rows /\ row[k][column] = a + k - 1
    BY <1>0
  <2>2. ASSUME NEW r \in rows, r[column] = a + k - 1 PROVE r = row[k]
    <3>1. PICK m \in 1..n : r = row[m]
      OBVIOUS
    <3>2. a + m - 1 = a + k - 1
      BY <1>0, <2>2, <3>1
    <3> QED
      BY <3>1, <3>2
  <2> HIDE DEF rows
  <2> QED
    BY <2>1, <2>2
<1> HIDE DEF rows
<1>5. InOrder(rows, column) = [k \in 1..n |-> row[k]]
  BY <1>3, <1>4
<1> QED
  BY <1>5 DEF rows

LEMMA TiersServed ==
    ASSUME NEW s, NEW raw, IsRaw(raw), Accepts(raw), Holds(tables, s, raw),
           NEW kind \in Kinds, NEW t \in ToSet(raw[kind])
    PROVE  TierItems(<<s, <<kind, t.id>>>>) = t.list
<1> DEFINE x == <<kind, t.id>>
           tiers == Traits(raw)[x].tiers
           n == Len(t.list)
           row == [k \in 1..n |-> TierRow(raw, s, x, k)]
           rows == {r \in tables.tiers : r.trait = <<s, x>>}
<1>1. x \in DOMAIN Traits(raw)
  BY TraitsAre DEF IdsOf
<1>2. /\ t.list \in Seq(Int) /\ DOMAIN tiers = 1..n
      /\ \A k \in 1..n : tiers[k].count = t.list[k]
  <2>1. TraitIs(raw, Traits(raw)[x], t)
    BY TiersAre
  <2> QED
    BY <2>1 DEF TraitIs
<1>3. <<s, x>> \in RowsOf(tables.traits, s)
  BY <1>1 DEF Holds, TraitsHold
<1>4. {r \in tables.tiers : r.trait \in RowsOf(tables.traits, s)} = TiersIn(raw, s)
  BY DEF Holds
<1>5. rows = {r \in TiersIn(raw, s) : r.trait = <<s, x>>}
  BY <1>3, <1>4
<1> HIDE DEF x
<1>6. DOMAIN row = 1..n /\ \A k \in 1..n : /\ row[k].trait = <<s, x>> /\ row[k].level = k
                                           /\ row[k].count = tiers[k].count
  BY RowFields
<1>7. rows = {row[k] : k \in 1..n}
  <2>1. ASSUME NEW r \in rows PROVE r \in {row[k] : k \in 1..n}
    <3>1. PICK y \in DOMAIN Traits(raw) :
             \E l \in DOMAIN Traits(raw)[y].tiers : r = TierRow(raw, s, y, l)
      BY <1>5, TiersInAre
    <3>2. PICK l \in DOMAIN Traits(raw)[y].tiers : r = TierRow(raw, s, y, l)
      BY <3>1
    <3>3. <<s, y>> = <<s, x>>
      BY <1>5, <3>2, RowFields
    <3>4. y = x
      BY ONLY <3>3
    <3>5. l \in 1..n /\ r = TierRow(raw, s, x, l)
      BY <1>2, <3>2, <3>4
    <3> QED
      BY <3>5
  <2>2. ASSUME NEW k \in 1..n PROVE row[k] \in rows
    <3>1. TierRow(raw, s, x, k) \in TiersIn(raw, s)
      BY <1>1, <1>2, TiersInAre
    <3> QED
      BY <1>5, <1>6, <3>1
  <2> QED
    BY <2>1, <2>2
<1>8. n \in Nat
  BY <1>2
<1> HIDE DEF row, rows, n, tiers
<1>9. InOrder(rows, "level") = [k \in 1..n |-> row[k]]
  <2>1. Consecutive(row, "level", 1, n)
    BY <1>6, <1>8 DEF Consecutive
  <2>2. InOrder({row[k] : k \in 1..n}, "level") = [k \in 1..n |-> row[k]]
    BY <1>8, <2>1, InOrderInterval
  <2> QED
    BY ONLY <1>7, <2>2
<1>10. TierItems(<<s, x>>) = [l \in 1..n |-> t.list[l]]
  <2> DEFINE items == InOrder(rows, "level")
  <2>1. TierItems(<<s, x>>) = [l \in DOMAIN items |-> items[l].count]
    BY DEF TierItems, rows
  <2>2. DOMAIN items = 1..n /\ \A l \in 1..n : items[l] = row[l]
    BY <1>9
  <2> HIDE DEF items
  <2>3. \A l \in 1..n : items[l].count = t.list[l]
    BY <1>2, <1>6, <2>2
  <2> QED
    BY <2>1, <2>2, <2>3
<1>11. [l \in 1..n |-> t.list[l]] = t.list
  BY <1>2 DEF n
<1> QED
  BY <1>10, <1>11 DEF x

LEMMA TraitsServed ==
    ASSUME NEW s, NEW raw, IsRaw(raw), Accepts(raw), Holds(tables, s, raw), NEW kind \in Kinds
    PROVE  TraitItems(s, kind) =
              ById({[id |-> t.id, text |-> t.text, tiers |-> t.list] : t \in ToSet(raw[kind])})
<1> DEFINE traits == tables.traits
           rows == {j \in RowsOf(traits, s) : traits[j].kind = kind}
           item(i) == [id |-> traits[i].id, text |-> traits[i].text, tiers |-> TierItems(i)]
           record(t) == [id |-> t.id, text |-> t.text, tiers |-> t.list]
           key(t) == <<s, <<kind, t.id>>>>
<1>1. RowsOf(traits, s) = {s} \X DOMAIN Traits(raw)
      /\ \A x \in DOMAIN Traits(raw) : traits[<<s, x>>] = TraitRowOf(raw, s, x)
  BY DEF Holds, TraitsHold
<1>2. ASSUME NEW t \in ToSet(raw[kind])
      PROVE  key(t) \in rows /\ item(key(t)) = record(t)
  <2> DEFINE x == <<kind, t.id>>
  <2>1. x \in DOMAIN Traits(raw) /\ x[1] = kind /\ x[2] = t.id
    BY TraitsAre DEF IdsOf
  <2>2. Traits(raw)[x].text = t.text
    <3>1. TraitIs(raw, Traits(raw)[x], t)
      BY TiersAre
    <3> QED
      BY <3>1 DEF TraitIs
  <2>3. TierItems(<<s, x>>) = t.list
    BY TiersServed
  <2> HIDE DEF x
  <2>4. traits[<<s, x>>].kind = kind /\ traits[<<s, x>>].id = t.id /\ traits[<<s, x>>].text = t.text
    BY <1>1, <2>1, <2>2, RowFields
  <2>5. <<s, x>> \in rows /\ item(<<s, x>>) = record(t)
    BY <1>1, <2>1, <2>3, <2>4
  <2> QED
    BY <2>5 DEF x
<1>3. ASSUME NEW i \in rows PROVE \E t \in ToSet(raw[kind]) : i = key(t)
  <2>1. PICK x \in DOMAIN Traits(raw) : i = <<s, x>>
    BY <1>1
  <2>2. x[1] = kind
    BY <1>1, <2>1, RowFields
  <2>3. PICK t \in ToSet(raw[x[1]]) : x = <<x[1], t.id>>
    BY TraitOfKey
  <2> QED
    BY <2>1, <2>2, <2>3
<1>4. TraitItems(s, kind) = ById({item(i) : i \in rows})
  BY DEF TraitItems
<1> HIDE DEF rows, item, record, key, traits
<1>5. {item(i) : i \in rows} = {record(t) : t \in ToSet(raw[kind])}
  BY <1>2, <1>3
<1>6. TraitItems(s, kind) = ById({record(t) : t \in ToSet(raw[kind])})
  BY <1>4, <1>5
<1> QED
  BY <1>6 DEF record

(* The relations of the row of a hero are those of its list.               *)
LEMMA HeroRelations ==
    ASSUME NEW s, NEW raw, IsRaw(raw), Accepts(raw), Holds(tables, s, raw),
           NEW i, NEW h, RowIs(raw, s, "chess", i, h), NEW kind \in Kinds
    PROVE  /\ {r \in tables.heroTraits : r.snapshot = s /\ r.hero = i /\ r.kind = kind}
                 = {HeroTraitRow(raw, s, RelationOf(h, kind, p))
                      : p \in DOMAIN Relations(Listed(h, kind))}
           /\ \A p \in DOMAIN Relations(Listed(h, kind)) :
                 LET r == HeroTraitRow(raw, s, RelationOf(h, kind, p)) IN
                 /\ r.position = p - 1
                 /\ tables.traits[r.trait].kind = kind
                 /\ tables.traits[r.trait].id = Relations(Listed(h, kind))[p]
<1> DEFINE listed == Relations(Listed(h, kind))
           row(p) == HeroTraitRow(raw, s, RelationOf(h, kind, p))
           rows == {r \in tables.heroTraits : r.snapshot = s /\ r.hero = i /\ r.kind = kind}
<1>1. i = <<s, PlaceOf(raw.chess, h.id)>> /\ h \in ToSet(raw.chess) /\ h.id \in IdsOf(raw.chess)
  BY RowPlace
<1>2. rows = {r \in HeroTraitsIn(raw, s) : r.hero = i /\ r.kind = kind}
  <2>1. {r \in tables.heroTraits : r.snapshot = s} = HeroTraitsIn(raw, s)
    BY DEF Holds
  <2> QED
    BY <2>1
<1>3. ASSUME NEW p
      PROVE  /\ row(p).hero = i /\ row(p).kind = kind /\ row(p).position = p - 1
             /\ row(p).trait = <<s, <<kind, listed[p]>>>>
  <2> DEFINE q == RelationOf(h, kind, p)
  <2>1. q.hero = h.id /\ q.kind = kind /\ q.trait = listed[p] /\ q.position = p - 1
    BY RelationFields
  <2> HIDE DEF q
  <2>2. /\ HeroTraitRow(raw, s, q).hero = i /\ HeroTraitRow(raw, s, q).kind = kind
        /\ HeroTraitRow(raw, s, q).position = p - 1
        /\ HeroTraitRow(raw, s, q).trait = <<s, <<kind, listed[p]>>>>
    BY <1>1, <2>1, RowFields
  <2> QED
    BY <2>2 DEF q
<1>4. ASSUME NEW p \in DOMAIN listed PROVE row(p) \in rows
  <2>1. RelationOf(h, kind, p) \in Structured(raw).heroTraits
    BY <1>1, RelationsAre
  <2>2. row(p) \in HeroTraitsIn(raw, s)
    BY <2>1 DEF HeroTraitsIn
  <2> QED
    BY <1>2, <1>3, <2>2
<1>5. ASSUME NEW r \in rows PROVE r \in {row(p) : p \in DOMAIN listed}
  <2>1. PICK q \in Structured(raw).heroTraits : r = HeroTraitRow(raw, s, q)
    BY <1>2 DEF HeroTraitsIn
  <2>2. <<s, PlaceOf(raw.chess, q.hero)>> = <<s, PlaceOf(raw.chess, h.id)>> /\ q.kind = kind
    BY <1>1, <1>2, <2>1, RowFields
  <2>3. PlaceOf(raw.chess, q.hero) = PlaceOf(raw.chess, h.id)
    BY ONLY <2>2
  <2>4. q.hero \in IdsOf(raw.chess)
    BY RelationsRefer
  <2>5. q.hero = h.id
    BY <1>1, <2>3, <2>4, PlaceFound
  <2>6. PICK g \in ToSet(raw.chess), sort \in Kinds :
           \E p \in DOMAIN Relations(Listed(g, sort)) : q = RelationOf(g, sort, p)
    BY RelationsAre
  <2>7. PICK p \in DOMAIN Relations(Listed(g, sort)) : q = RelationOf(g, sort, p)
    BY <2>6
  <2>8. g.id = h.id /\ sort = kind
    BY <2>2, <2>5, <2>7, RelationFields
  <2>9. g = h
    BY <1>1, <2>8, AcceptedIds DEF Files, EntityFiles
  <2>10. p \in DOMAIN listed /\ r = row(p)
    BY <2>1, <2>7, <2>8, <2>9
  <2> HIDE DEF row, listed
  <2> QED
    BY <2>10
<1>6. ASSUME NEW p \in DOMAIN listed
      PROVE  tables.traits[row(p).trait].kind = kind /\ tables.traits[row(p).trait].id = listed[p]
  <2> DEFINE x == <<kind, listed[p]>>
  <2>1. listed[p] \in IdsOf(raw[kind])
    BY <1>1, HeroListed
  <2>2. x \in DOMAIN Traits(raw) /\ x[1] = kind /\ x[2] = listed[p]
    BY <2>1, TraitsAre
  <2>3. row(p).trait = <<s, x>>
    BY <1>3
  <2> HIDE DEF x, row
  <2>4. tables.traits[<<s, x>>] = TraitRowOf(raw, s, x)
    BY <2>2 DEF Holds, TraitsHold
  <2> QED
    BY <2>2, <2>3, <2>4, RowFields
<1>7. rows = {row(p) : p \in DOMAIN listed}
  <2> HIDE DEF rows, row, listed
  <2> QED
    BY <1>4, <1>5
<1> QED
  BY <1>3, <1>6, <1>7

LEMMA TraitsOfHeroServed ==
    ASSUME NEW s, NEW raw, IsRaw(raw), Accepts(raw), Holds(tables, s, raw),
           NEW i, NEW h, RowIs(raw, s, "chess", i, h), NEW kind \in Kinds
    PROVE  TraitsOfHero(s, i, kind) = Among(Listed(h, kind), raw[kind])
<1> DEFINE listed == Relations(Listed(h, kind))
           row == [p \in DOMAIN listed |-> HeroTraitRow(raw, s, RelationOf(h, kind, p))]
           rows == {r \in tables.heroTraits : r.snapshot = s /\ r.hero = i /\ r.kind = kind}
<1>1. h \in ToSet(raw.chess)
  BY RowPlace
<1>2. listed = Among(Listed(h, kind), raw[kind])
  BY <1>1, HeroLists DEF TraitsListed
<1>3. PICK n \in Nat : DOMAIN listed = 1..n
  BY <1>1, HeroLists DEF TraitsListed
<1>4. rows = {HeroTraitRow(raw, s, RelationOf(h, kind, p)) : p \in DOMAIN listed}
  BY HeroRelations
<1>5. \A p \in DOMAIN listed :
         row[p].position = p - 1 /\ tables.traits[row[p].trait].id = listed[p]
  BY HeroRelations
<1>6. rows = {row[p] : p \in 1..n}
  BY <1>3, <1>4
<1>7. listed = [p \in 1..n |-> listed[p]]
  <2>1. listed = [m \in DOMAIN listed |-> listed[m]]
    BY DEF Relations, Pick
  <2> HIDE DEF listed
  <2> QED
    BY <1>3, <2>1
<1> HIDE DEF listed, row, rows
<1>8. Consecutive(row, "position", 0, n)
  BY <1>3, <1>5 DEF Consecutive
<1>9. InOrder({row[p] : p \in 1..n}, "position") = [p \in 1..n |-> row[p]]
  BY <1>8, InOrderInterval
<1> DEFINE items == InOrder(rows, "position")
<1>10. DOMAIN items = 1..n /\ \A p \in 1..n : items[p] = row[p]
  BY <1>6, <1>9
<1>11. TraitsOfHero(s, i, kind) = [p \in DOMAIN items |-> tables.traits[items[p].trait].id]
  BY DEF TraitsOfHero, rows
<1> HIDE DEF items
<1>12. TraitsOfHero(s, i, kind) = [p \in 1..n |-> listed[p]]
  BY <1>3, <1>5, <1>10, <1>11
<1> QED
  BY <1>2, <1>7, <1>12

LEMMA HeroesServed ==
    ASSUME NEW s, NEW raw, IsRaw(raw), Accepts(raw), Holds(tables, s, raw)
    PROVE  HeroItems(s) =
              ById({[id |-> h.id, text |-> h.text,
                     traits |-> Among(h.species, raw.race), classes |-> Among(h.class, raw.job)]
                       : h \in ToSet(raw.chess)})
<1> DEFINE chess == tables.entities.chess
           rows == RowsOf(chess, s)
           item(i) == [id |-> chess[i].id, text |-> chess[i].text,
                       traits |-> TraitsOfHero(s, i, "race"), classes |-> TraitsOfHero(s, i, "job")]
           record(h) == [id |-> h.id, text |-> h.text,
                         traits |-> Among(h.species, raw.race), classes |-> Among(h.class, raw.job)]
<1>1. "chess" \in EntityFiles
  BY DEF EntityFiles
<1>2. /\ \A i \in rows : \E h \in ToSet(raw.chess) : RowIs(raw, s, "chess", i, h)
      /\ \A h \in ToSet(raw.chess) : \E i \in rows : RowIs(raw, s, "chess", i, h)
      /\ \A i, h : RowIs(raw, s, "chess", i, h) => chess[i].id = h.id /\ chess[i].text = h.text
  BY <1>1, RecordRows
<1>3. ASSUME NEW i, NEW h, RowIs(raw, s, "chess", i, h) PROVE item(i) = record(h)
  <2>1. TraitsOfHero(s, i, "race") = Among(Listed(h, "race"), raw.race)
    BY <1>3, TraitsOfHeroServed DEF Kinds
  <2>2. TraitsOfHero(s, i, "job") = Among(Listed(h, "job"), raw.job)
    BY <1>3, TraitsOfHeroServed DEF Kinds
  <2>3. Listed(h, "race") = h.species /\ Listed(h, "job") = h.class
    BY DEF Listed
  <2> QED
    BY <1>2, <1>3, <2>1, <2>2, <2>3
<1>4. HeroItems(s) = ById({item(i) : i \in rows})
  BY DEF HeroItems
<1> HIDE DEF rows, item, record, chess
<1>5. {item(i) : i \in rows} = {record(h) : h \in ToSet(raw.chess)}
  BY <1>2, <1>3
<1>6. HeroItems(s) = ById({record(h) : h \in ToSet(raw.chess)})
  BY <1>4, <1>5
<1> QED
  BY <1>6 DEF record

LEMMA WithServed ==
    ASSUME NEW s, NEW raw, IsRaw(raw), Accepts(raw), Holds(tables, s, raw),
           NEW kind \in Kinds, NEW id \in IdsOf(raw[kind])
    PROVE  HeroesWith(s, kind, id) =
              {h.id : h \in {g \in ToSet(raw.chess) : id \in ToSet(Listed(g, kind))}}
<1> DEFINE chess == tables.entities.chess
           all == RowsOf(chess, s)
           has(j) == \E r \in tables.heroTraits :
                        /\ r.snapshot = s /\ r.hero = j /\ r.kind = kind
                        /\ tables.traits[r.trait].kind = kind /\ tables.traits[r.trait].id = id
           lists(h) == id \in ToSet(Listed(h, kind))
<1>1. "chess" \in EntityFiles
  BY DEF EntityFiles
<1>2. /\ \A i \in all : \E h \in ToSet(raw.chess) : RowIs(raw, s, "chess", i, h)
      /\ \A h \in ToSet(raw.chess) : \E i \in all : RowIs(raw, s, "chess", i, h)
      /\ \A i, h : RowIs(raw, s, "chess", i, h) => chess[i].id = h.id
  BY <1>1, RecordRows
<1>3. ASSUME NEW i, NEW h, RowIs(raw, s, "chess", i, h) PROVE has(i) <=> lists(h)
  <2> DEFINE listed == Relations(Listed(h, kind))
             row(p) == HeroTraitRow(raw, s, RelationOf(h, kind, p))
             rows == {r \in tables.heroTraits : r.snapshot = s /\ r.hero = i /\ r.kind = kind}
  <2>1. h \in ToSet(raw.chess)
    BY <1>3, RowPlace
  <2>2. rows = {row(p) : p \in DOMAIN listed}
    BY <1>3, HeroRelations
  <2>3. \A p \in DOMAIN listed :
           tables.traits[row(p).trait].kind = kind /\ tables.traits[row(p).trait].id = listed[p]
    BY <1>3, HeroRelations
  <2>4. lists(h) <=> \E p \in DOMAIN listed : listed[p] = id
    BY <2>1, HeroHas
  <2>5. has(i) <=> \E r \in rows : tables.traits[r.trait].kind = kind /\ tables.traits[r.trait].id = id
    OBVIOUS
  <2> HIDE DEF rows, row, listed, has, lists
  <2>6. (\E r \in rows : tables.traits[r.trait].kind = kind /\ tables.traits[r.trait].id = id)
        <=> \E p \in DOMAIN listed : listed[p] = id
    BY <2>2, <2>3
  <2> QED
    BY <2>4, <2>5, <2>6
<1>4. HeroesWith(s, kind, id) = {chess[i].id : i \in {j \in all : has(j)}}
  BY DEF HeroesWith
<1> HIDE DEF chess, all, has, lists
<1>5. {chess[i].id : i \in {j \in all : has(j)}} = {h.id : h \in {g \in ToSet(raw.chess) : lists(g)}}
  BY <1>2, <1>3
<1> QED
  BY <1>4, <1>5 DEF lists

LEMMA ViewIsServed ==
    ASSUME NEW s, NEW raw, IsRaw(raw), Accepts(raw), Holds(tables, s, raw)
    PROVE  View(s, raw) = Served(raw)
<1>1. HeroItems(s) =
         ById({[id |-> h.id, text |-> h.text,
                traits |-> Among(h.species, raw.race), classes |-> Among(h.class, raw.job)]
                  : h \in ToSet(raw.chess)})
  BY HeroesServed
<1>2. [kind \in Kinds |-> TraitItems(s, kind)] = [kind \in Kinds |->
         ById({[id |-> t.id, text |-> t.text, tiers |-> t.list] : t \in ToSet(raw[kind])})]
  BY TraitsServed
<1>3. [kind \in Kinds |-> [id \in IdsOf(raw[kind]) |-> HeroesWith(s, kind, id)]]
      = [kind \in Kinds |-> [id \in IdsOf(raw[kind]) |->
         {h.id : h \in {g \in ToSet(raw.chess) :
                           id \in ToSet(IF kind = "job" THEN g.class ELSE g.species)}}]]
  BY WithServed DEF Listed
<1>4. EquipmentItems(s) =
         ById({[id |-> e.id, text |-> e.text,
                components |-> IF e.first = 0 THEN <<>> ELSE <<e.first, e.second>>]
                  : e \in ToSet(raw.equip)})
  BY EquipmentServed
<1>5. [f \in Simple |-> SimpleItems(s, f)]
      = [f \in Simple |-> ById({[id |-> e.id, text |-> e.text] : e \in ToSet(raw[f])})]
  BY SimpleServed
<1> QED
  BY ONLY <1>1, <1>2, <1>3, <1>4, <1>5 DEF View, Served

LEMMA SameView ==
    ASSUME NEW s, NEW a, NEW b, Content(a) = Content(b)
    PROVE  View(s, a) = View(s, b)
<1>1. \A kind \in Kinds : IdsOf(a[kind]) = IdsOf(b[kind])
  BY SameFiles DEF Files
<1>2. [kind \in Kinds |-> [id \in IdsOf(a[kind]) |-> HeroesWith(s, kind, id)]]
      = [kind \in Kinds |-> [id \in IdsOf(b[kind]) |-> HeroesWith(s, kind, id)]]
  BY <1>1
<1> QED
  BY ONLY <1>2 DEF View

(* The lists, joins and filters of the readers answer of every snapshot in *)
(* the tables what its files say, for the records of any accepted source,  *)
(* in whichever order and beside whichever other snapshots they are kept.  *)
THEOREM ReadersServeTheFiles == Spec => []ReadersGetTheSource
<1>1. ASSUME IInv PROVE ReadersGetTheSource
  <2> SUFFICES ASSUME NEW raw \in {source, Base}, NEW s \in Existing(raw)
               PROVE  View(s, raw) = Served(raw)
    BY DEF ReadersGetTheSource
  <2>1. s \in DOMAIN tables.snapshots /\ tables.snapshots[s] = Content(raw)
    BY DEF Existing, Content
  <2>2. PICK old \in Origin :
           Accepts(old) /\ tables.snapshots[s] = Content(old) /\ Holds(tables, s, old)
    BY <1>1, <2>1 DEF IInv
  <2>3. IsRaw(old)
    BY <1>1, OriginIsRaw DEF IInv, TypeOK
  <2>4. View(s, old) = Served(old)
    BY <2>2, <2>3, ViewIsServed
  <2>5. Content(raw) = Content(old)
    BY <2>1, <2>2
  <2>6. View(s, raw) = View(s, old) /\ Served(raw) = Served(old)
    BY <2>5, SameView, SameServed
  <2> QED
    BY <2>4, <2>6
<1> QED
  BY <1>1, Invariance, PTL
=============================================================================
