--------------------------- MODULE Inspectors_proofs ---------------------------
(***************************************************************************)
(* What is proved of the two inspectors, for streams of any length and any *)
(* frames, cut into reads anywhere: each of them finds exactly the         *)
(* messages that have arrived, and gives up only where it has to.          *)
(*                                                                         *)
(* Spec is that of the friend inspector; ProtocolSpec is that of the       *)
(* protocol inspector, whose own specification is Protocol!Spec.           *)
(***************************************************************************)
EXTENDS Inspectors, FiniteSetTheorems, SequenceTheorems, TLAPS

-----------------------------------------------------------------------------
(* The bytes of the first frames of a stream                                *)

BytePlaces(frames, k) == UNION {{i} \X (1 .. FrameBytes(frames[i])) : i \in 1 .. k}

LEMMA FrameBytesType ==
    ASSUME NEW f \in Frame
    PROVE  /\ HeaderBytes(f) \in 2 .. 10 /\ FrameBytes(f) \in Nat
           /\ HeaderBytes(f) + f.len <= FrameBytes(f)
           /\ FrameBytes(f) <= f.len + 14
BY DEF Frame, HeaderBytes, FrameBytes

LEMMA CountUpTo == ASSUME NEW n \in Nat PROVE IsFiniteSet(1 .. n) /\ Cardinality(1 .. n) = n
<1>1. n \in Int /\ 1 \in Int /\ (1 > n => n = 0) /\ n - 1 + 1 = n
    OBVIOUS
<1> QED
    BY <1>1, FS_Interval

LEMMA PlacesAreFinite ==
    ASSUME NEW frames \in Seq(Frame), NEW k \in 0 .. Len(frames)
    PROVE  IsFiniteSet(BytePlaces(frames, k))
<1> DEFINE Of(i)  == {i} \X (1 .. FrameBytes(frames[i]))
           all    == {Of(i) : i \in 1 .. k}
           places == [i \in 1 .. k |-> Of(i)]
<1>1. ASSUME NEW i \in 1 .. k PROVE IsFiniteSet(Of(i))
    <2>1. frames[i] \in Frame
        BY ElementOfSeq
    <2>2. IsFiniteSet({i}) /\ IsFiniteSet(1 .. FrameBytes(frames[i]))
        BY <2>1, FrameBytesType, FS_Singleton, CountUpTo
    <2> QED
        BY <2>2, FS_Product
<1> HIDE DEF Of
<1>2. places \in Surjection(1 .. k, all)
    BY DEF Surjection
<1>3. IsFiniteSet(all)
    <2>1. k \in Nat /\ IsFiniteSet(1 .. k)
        BY CountUpTo
    <2> QED
        BY <1>2, <2>1, FS_Surjection
<1>4. \A set \in all : IsFiniteSet(set)
    BY <1>1
<1>5. IsFiniteSet(UNION all)
    BY <1>3, <1>4, FS_UNION
<1> QED
    BY <1>5 DEF BytePlaces, Of

LEMMA BytesAdd ==
    ASSUME NEW frames \in Seq(Frame)
    PROVE  /\ BytesOf(frames, 0) = 0
           /\ \A k \in 0 .. Len(frames) : BytesOf(frames, k) \in Nat
           /\ \A k \in 1 .. Len(frames) :
                  BytesOf(frames, k) = BytesOf(frames, k - 1) + FrameBytes(frames[k])
<1>1. BytesOf(frames, 0) = 0
    <2>1. BytePlaces(frames, 0) = {}
        BY DEF BytePlaces
    <2> QED
        BY <2>1, FS_EmptySet DEF BytePlaces, BytesOf
<1>2. ASSUME NEW k \in 0 .. Len(frames) PROVE BytesOf(frames, k) \in Nat
    BY PlacesAreFinite, FS_CardinalityType DEF BytesOf, BytePlaces
<1>3. ASSUME NEW k \in 1 .. Len(frames)
      PROVE  BytesOf(frames, k) = BytesOf(frames, k - 1) + FrameBytes(frames[k])
    <2> DEFINE n == FrameBytes(frames[k])
               new == {k} \X (1 .. n)
    <2>1. frames[k] \in Frame /\ n \in Nat
        BY ElementOfSeq, FrameBytesType
    <2>2. k \in Nat /\ k - 1 \in 0 .. Len(frames) /\ 1 .. k = (1 .. (k - 1)) \cup {k}
          /\ k \notin 1 .. (k - 1)
        BY LenProperties
    <2>3. BytePlaces(frames, k) = BytePlaces(frames, k - 1) \cup new
        BY <2>2 DEF BytePlaces
    <2>4. BytePlaces(frames, k - 1) \cap new = {}
        BY <2>2 DEF BytePlaces
    <2>5. IsFiniteSet(new) /\ Cardinality(new) = n
        <3>1. /\ IsFiniteSet({k}) /\ Cardinality({k}) = 1
              /\ IsFiniteSet(1 .. n) /\ Cardinality(1 .. n) = n
            BY <2>1, FS_Singleton, CountUpTo
        <3>2. IsFiniteSet(new) /\ Cardinality(new) = 1 * n
            BY <3>1, FS_Product
        <3> QED
            BY <2>1, <3>2
    <2>6. IsFiniteSet(BytePlaces(frames, k - 1))
        BY <2>2, PlacesAreFinite
    <2>7. Cardinality(BytePlaces(frames, k)) = Cardinality(BytePlaces(frames, k - 1)) + n
        <3> HIDE DEF new, n
        <3>1. Cardinality(BytePlaces(frames, k - 1)) \in Nat /\ Cardinality({}) = 0
            BY <2>6, FS_CardinalityType, FS_EmptySet
        <3> QED
            BY <2>1, <2>3, <2>4, <2>5, <2>6, <3>1, FS_Union
    <2> QED
        BY <2>7 DEF BytesOf, BytePlaces
<1> QED
    BY <1>1, <1>2, <1>3

LEMMA BytesGrow ==
    ASSUME NEW frames \in Seq(Frame),
           NEW k \in 0 .. Len(frames), NEW j \in 0 .. k
    PROVE  BytesOf(frames, j) <= BytesOf(frames, k)
<1>1. IsFiniteSet(BytePlaces(frames, k))
    BY PlacesAreFinite
<1>2. BytePlaces(frames, j) \in SUBSET BytePlaces(frames, k)
    BY DEF BytePlaces
<1> QED
    BY <1>1, <1>2, FS_Subset DEF BytesOf, BytePlaces

\* The frames that have arrived whole are p, if the next one has not.
LEMMA WholeAre ==
    ASSUME NEW frames \in Seq(Frame), NEW p \in 0 .. Len(frames), NEW n \in Nat,
           BytesOf(frames, p) <= n
    PROVE  /\ WholeFrames(frames, n) \in p .. Len(frames)
           /\ p = Len(frames) \/ BytesOf(frames, p + 1) > n => WholeFrames(frames, n) = p
<1> DEFINE whole == {k \in 1 .. Len(frames) : BytesOf(frames, k) <= n}
<1>1. Len(frames) \in Nat /\ p \in Nat /\ \A k \in 0 .. Len(frames) : BytesOf(frames, k) \in Nat
    BY LenProperties, BytesAdd
<1>2. 1 .. p \in SUBSET whole
    <2>1. ASSUME NEW k \in 1 .. p PROVE k \in whole
        <3>1. k \in 0 .. p /\ k \in 1 .. Len(frames) /\ k \in 0 .. Len(frames)
            BY <1>1
        <3>2. BytesOf(frames, k) <= BytesOf(frames, p)
            BY <3>1, BytesGrow
        <3> QED
            BY <1>1, <3>1, <3>2
    <2> QED
        BY <2>1
<1>3. IsFiniteSet(1 .. Len(frames)) /\ Cardinality(1 .. Len(frames)) = Len(frames)
      /\ Cardinality(1 .. p) = p
    BY <1>1, CountUpTo
<1>4. whole \in SUBSET (1 .. Len(frames)) /\ WholeFrames(frames, n) = Cardinality(whole)
    BY DEF WholeFrames
<1>5. ASSUME p = Len(frames) \/ BytesOf(frames, p + 1) > n PROVE whole = 1 .. p
    <2>1. ASSUME NEW k \in whole PROVE k \in 1 .. p
        <3>1. k \in 1 .. Len(frames) /\ BytesOf(frames, k) <= n
            OBVIOUS
        <3>2. CASE k > p
            <4>1. k \in 0 .. Len(frames) /\ p + 1 \in 0 .. k /\ p + 1 \in 0 .. Len(frames)
                BY <1>1, <3>1, <3>2
            <4>2. BytesOf(frames, p + 1) <= BytesOf(frames, k)
                BY <4>1, BytesGrow
            <4>3. BytesOf(frames, p + 1) > n
                BY <1>1, <1>5, <3>1, <3>2
            <4> QED
                BY <1>1, <3>1, <4>1, <4>2, <4>3
        <3> QED
            BY <1>1, <3>1, <3>2
    <2> QED
        BY <1>2, <2>1
<1> HIDE DEF whole
<1>6. IsFiniteSet(whole) /\ Cardinality(whole) <= Len(frames) /\ Cardinality(whole) \in Nat
    BY <1>3, <1>4, FS_Subset, FS_CardinalityType
<1>7. p <= Cardinality(whole)
    BY <1>2, <1>3, <1>6, FS_Subset
<1> QED
    BY <1>1, <1>3, <1>4, <1>5, <1>6, <1>7

-----------------------------------------------------------------------------
(* The frames that are legal                                                *)

LegalUpto(frames, p, masks, limited) == \A j \in 1 .. p : LegalFrame(frames, j, masks, limited)

\* The legal prefix has p frames, if the next one is not legal.
LEMMA LegalAre ==
    ASSUME NEW frames \in Seq(Frame), NEW p \in 0 .. Len(frames), NEW masks, NEW limited,
           LegalUpto(frames, p, masks, limited)
    PROVE  /\ LegalPrefix(frames, masks, limited) \in p .. Len(frames)
           /\ p < Len(frames) /\ ~LegalFrame(frames, p + 1, masks, limited)
                  => LegalPrefix(frames, masks, limited) = p
<1> DEFINE legal == {k \in 1 .. Len(frames) : LegalUpto(frames, k, masks, limited)}
<1>1. Len(frames) \in Nat /\ p \in Nat
    BY LenProperties
<1>2. 1 .. p \in SUBSET legal
    BY <1>1 DEF LegalUpto
<1>3. IsFiniteSet(1 .. Len(frames)) /\ Cardinality(1 .. Len(frames)) = Len(frames)
      /\ Cardinality(1 .. p) = p
    BY <1>1, CountUpTo
<1>4. legal \in SUBSET (1 .. Len(frames))
      /\ LegalPrefix(frames, masks, limited) = Cardinality(legal)
    BY DEF LegalPrefix, LegalUpto
<1>5. ASSUME p < Len(frames), ~LegalFrame(frames, p + 1, masks, limited) PROVE legal = 1 .. p
    <2>1. ASSUME NEW k \in legal PROVE k \in 1 .. p
        <3>1. k \in 1 .. Len(frames) /\ ~(p + 1 \in 1 .. k)
            BY <1>5 DEF LegalUpto
        <3> QED
            BY <1>1, <3>1
    <2> QED
        BY <1>2, <2>1
<1> HIDE DEF legal
<1>6. IsFiniteSet(legal) /\ Cardinality(legal) <= Len(frames) /\ Cardinality(legal) \in Nat
    BY <1>3, <1>4, FS_Subset, FS_CardinalityType
<1>7. p <= Cardinality(legal)
    BY <1>2, <1>3, <1>6, FS_Subset
<1> QED
    BY <1>1, <1>3, <1>4, <1>5, <1>6, <1>7

-----------------------------------------------------------------------------
(* Numbers in order                                                         *)

RankIn(set, i) == Cardinality({j \in set : j <= i})
PlaceOf(set, n) == CHOOSE i \in set : RankIn(set, i) = n

LEMMA RanksCount ==
    ASSUME NEW set \in SUBSET Nat, IsFiniteSet(set)
    PROVE  /\ \A i \in set : RankIn(set, i) \in 1..Cardinality(set)
           /\ \A i, j \in set : i < j => RankIn(set, i) < RankIn(set, j)
<1> DEFINE Upto(i) == {j \in set : j <= i}
<1>1. ASSUME NEW i \in set
      PROVE  IsFiniteSet(Upto(i)) /\ Cardinality(Upto(i)) \in 1..Cardinality(set)
    <2>1. Upto(i) \in SUBSET set
        OBVIOUS
    <2>2. IsFiniteSet(Upto(i)) /\ Cardinality(Upto(i)) <= Cardinality(set)
        BY <2>1, FS_Subset
    <2>3. Upto(i) # {}
        OBVIOUS
    <2>4. Cardinality(Upto(i)) \in Nat /\ Cardinality(Upto(i)) # 0 /\ Cardinality(set) \in Nat
        BY <2>2, <2>3, FS_CardinalityType, FS_EmptySet
    <2> HIDE DEF Upto
    <2> QED
        BY <2>2, <2>4
<1>2. ASSUME NEW i \in set, NEW j \in set, i < j
      PROVE  Cardinality(Upto(i)) < Cardinality(Upto(j))
    <2>0. i \in Nat /\ j \in Nat /\ \A k \in set : k \in Nat /\ (k <= i => k <= j)
        BY <1>2
    <2>1. Upto(i) \in SUBSET Upto(j) /\ Upto(j) # Upto(i)
        <3>1. j \in Upto(j) /\ j \notin Upto(i)
            BY <1>2, <2>0
        <3>2. Upto(i) \in SUBSET Upto(j)
            BY <2>0, Zenon
        <3> QED
            BY <3>1, <3>2
    <2>2. IsFiniteSet(Upto(j)) /\ Cardinality(Upto(j)) \in Nat /\ Cardinality(Upto(i)) \in Nat
        BY <1>1
    <2> HIDE DEF Upto
    <2>3. /\ Cardinality(Upto(i)) <= Cardinality(Upto(j))
          /\ Cardinality(Upto(j)) = Cardinality(Upto(i)) => Upto(j) = Upto(i)
        BY <2>1, <2>2, FS_Subset
    <2> QED
        BY <2>1, <2>2, <2>3
<1> QED
    BY <1>1, <1>2 DEF RankIn

\* Every place up to the number of members is taken.
LEMMA RanksCover ==
    ASSUME NEW set \in SUBSET Nat, IsFiniteSet(set)
    PROVE  \A k \in 1..Cardinality(set) : \E i \in set : RankIn(set, i) = k
<1> DEFINE n    == Cardinality(set)
           rank == [i \in set |-> RankIn(set, i)]
<1>1. n \in Nat /\ IsFiniteSet(1..n) /\ Cardinality(1..n) = n
    BY FS_CardinalityType, FS_Interval
<1>2. rank \in [set -> 1..n]
    BY RanksCount
<1>3. ASSUME NEW i \in set, NEW j \in set, rank[i] = rank[j] PROVE i = j
    <2>1. /\ RankIn(set, i) = RankIn(set, j) /\ RankIn(set, i) \in Nat /\ RankIn(set, j) \in Nat
          /\ i < j => RankIn(set, i) < RankIn(set, j)
          /\ j < i => RankIn(set, j) < RankIn(set, i)
        BY <1>1, <1>3, RanksCount
    <2> QED
        BY <2>1
<1>4. rank \in Injection(set, 1..n)
    BY <1>2, <1>3 DEF Injection, IsInjective
<1>5. rank \in Surjection(set, 1..n)
    BY <1>1, <1>4, FS_Injection
<1> QED
    BY <1>5 DEF Surjection

LEMMA InOrderMembers ==
    ASSUME NEW set \in SUBSET Nat, IsFiniteSet(set)
    PROVE  InOrder(set) \in Seq(set)
<1> DEFINE n == Cardinality(set)
<1>1. n \in Nat
    BY FS_CardinalityType
<1>2. ASSUME NEW k \in 1 .. n PROVE PlaceOf(set, k) \in set
    BY <1>2, RanksCover DEF PlaceOf
<1>3. InOrder(set) = [k \in 1 .. n |-> PlaceOf(set, k)]
    BY DEF InOrder, PlaceOf, RankIn
<1> HIDE DEF n
<1> QED
    BY <1>1, <1>2, <1>3

LEMMA InOrderEmpty == InOrder({}) = <<>>
BY FS_EmptySet DEF InOrder

\* A greater number comes last.
LEMMA InOrderAppend ==
    ASSUME NEW set \in SUBSET Nat, IsFiniteSet(set), NEW x \in Nat, \A i \in set : i < x
    PROVE  InOrder(set \cup {x}) = Append(InOrder(set), x)
<1> DEFINE n   == Cardinality(set)
           all == set \cup {x}
<1>1. n \in Nat /\ IsFiniteSet(all) /\ Cardinality(all) = n + 1
    BY FS_CardinalityType, FS_AddElement
<1>2. ASSUME NEW i \in set PROVE RankIn(all, i) = RankIn(set, i) /\ RankIn(all, i) \in 0 .. n
    <2>1. {j \in all : j <= i} = {j \in set : j <= i}
        OBVIOUS
    <2>2. {j \in set : j <= i} \in SUBSET set
        OBVIOUS
    <2>3. Cardinality({j \in set : j <= i}) <= n /\ Cardinality({j \in set : j <= i}) \in Nat
        BY <2>2, FS_Subset, FS_CardinalityType
    <2> QED
        BY <1>1, <2>1, <2>3 DEF RankIn
<1>3. RankIn(all, x) = n + 1
    <2>1. \A j \in all : j <= x
        OBVIOUS
    <2> HIDE DEF all
    <2>2. {j \in all : j <= x} = all
        BY <2>1
    <2> QED
        BY <1>1, <2>2 DEF RankIn
<1> HIDE DEF n
<1>4. ASSUME NEW k \in 1 .. n PROVE PlaceOf(all, k) = PlaceOf(set, k)
    <2>1. k # n + 1
        BY <1>1
    <2>2. \A i : (i \in all /\ RankIn(all, i) = k) <=> (i \in set /\ RankIn(set, i) = k)
        BY <1>2, <1>3, <2>1
    <2> HIDE DEF all
    <2> QED
        BY <2>2, Zenon DEF PlaceOf
<1>5. PlaceOf(all, n + 1) = x
    <2>1. \A i \in all : RankIn(all, i) = n + 1 => i = x
        BY <1>1, <1>2
    <2>2. x \in all
        OBVIOUS
    <2> HIDE DEF all
    <2> QED
        BY <1>3, <2>1, <2>2 DEF PlaceOf
<1>6. InOrder(all) = [k \in 1 .. (n + 1) |-> PlaceOf(all, k)]
    BY <1>1 DEF InOrder, PlaceOf, RankIn
<1>7. InOrder(set) = [k \in 1 .. n |-> PlaceOf(set, k)]
    BY DEF InOrder, PlaceOf, RankIn, n
<1> HIDE DEF all
<1>8. InOrder(set) \in Seq({PlaceOf(set, k) : k \in 1 .. n} \cup {x}) /\ Len(InOrder(set)) = n
    BY <1>1, <1>7
<1>9. Append(InOrder(set), x) = [k \in 1 .. (n + 1) |-> IF k = n + 1 THEN x ELSE InOrder(set)[k]]
    <2> DEFINE values == {PlaceOf(set, k) : k \in 1 .. n} \cup {x}
               list   == InOrder(set)
    <2>1. list \in Seq(values) /\ x \in values /\ Len(list) = n
        BY <1>8
    <2> HIDE DEF values, list
    <2>2. /\ Append(list, x) \in Seq(values) /\ Len(Append(list, x)) = n + 1
          /\ \A i \in 1 .. n : Append(list, x)[i] = list[i]
          /\ Append(list, x)[n + 1] = x
        BY <2>1, AppendProperties
    <2>3. Append(list, x) \in [1 .. (n + 1) -> values]
        BY <2>2, LenProperties
    <2>4. Append(list, x) = [k \in 1 .. (n + 1) |-> Append(list, x)[k]]
        BY <2>2, <2>3
    <2>5. \A k \in 1 .. (n + 1) : Append(list, x)[k] = IF k = n + 1 THEN x ELSE list[k]
        BY <1>1, <2>2
    <2> QED
        BY <2>4, <2>5 DEF list
<1>10. \A k \in 1 .. (n + 1) : PlaceOf(all, k) = IF k = n + 1 THEN x ELSE InOrder(set)[k]
    <2>1. ASSUME NEW k \in 1 .. (n + 1), k # n + 1 PROVE PlaceOf(all, k) = InOrder(set)[k]
        <3>1. k \in 1 .. n
            BY <1>1, <2>1
        <3> QED
            BY <1>4, <1>7, <3>1
    <2> QED
        BY <1>5, <2>1
<1> QED
    BY <1>6, <1>9, <1>10 DEF all

-----------------------------------------------------------------------------
(* One frame more                                                           *)

LEMMA StartNext ==
    ASSUME NEW frames, NEW k \in Nat \ {0}
    PROVE  StartOf(frames, k) = IF Starts(frames[k]) THEN k ELSE StartOf(frames, k - 1)
<1> DEFINE At(n) == {j \in 1 .. n : Starts(frames[j])}
<1>1. k \in Nat /\ 1 .. k = (1 .. (k - 1)) \cup {k}
    OBVIOUS
<1>2. CASE Starts(frames[k])
    <2>1. k \in At(k) /\ \A i \in At(k) : i <= k
        BY <1>1, <1>2
    <2>2. \A j \in At(k) : (\A i \in At(k) : i <= j) => j = k
        BY <1>1, <2>1
    <2>3. StartOf(frames, k) =
              IF At(k) = {} THEN 0 ELSE CHOOSE j \in At(k) : \A i \in At(k) : i <= j
        BY DEF StartOf
    <2> HIDE DEF At
    <2>4. (CHOOSE j \in At(k) : \A i \in At(k) : i <= j) = k
        BY <2>1, <2>2
    <2> QED
        BY <1>2, <2>1, <2>3, <2>4
<1>3. CASE ~Starts(frames[k])
    <2>1. At(k) = At(k - 1)
        BY <1>1, <1>3
    <2>2. \A n : StartOf(frames, n) =
              IF At(n) = {} THEN 0 ELSE CHOOSE j \in At(n) : \A i \in At(n) : i <= j
        BY DEF StartOf
    <2> HIDE DEF At
    <2> QED
        BY <1>3, <2>1, <2>2
<1> QED
    BY <1>2, <1>3

LEMMA OpenNext ==
    ASSUME NEW frames, NEW k \in Nat \ {0}
    PROVE  /\ ~OpenAfter(frames, 0)
           /\ OpenAfter(frames, k) <=>
                  IF Starts(frames[k]) THEN ~frames[k].fin
                  ELSE OpenAfter(frames, k - 1) /\ (IsData(frames[k]) => ~frames[k].fin)
<1>1. k \in Nat /\ 1 .. k = (1 .. (k - 1)) \cup {k} /\ 1 .. 0 = {}
    OBVIOUS
<1>2. \A j \in 1 .. (k - 1) : j .. k = (j .. (k - 1)) \cup {k}
    OBVIOUS
<1>3. k .. k = {k}
    OBVIOUS
<1>4. ~OpenAfter(frames, 0)
    BY <1>1 DEF OpenAfter
<1>5. CASE Starts(frames[k])
    <2>1. IsData(frames[k])
        BY <1>5 DEF Starts, IsData
    <2>2. ASSUME OpenAfter(frames, k) PROVE ~frames[k].fin
        <3>1. PICK j \in 1 .. k : \A i \in j .. k : IsData(frames[i]) => ~frames[i].fin
            BY <2>2 DEF OpenAfter
        <3>2. k \in j .. k
            OBVIOUS
        <3> QED
            BY <2>1, <3>1, <3>2
    <2>3. ASSUME ~frames[k].fin PROVE OpenAfter(frames, k)
        BY <1>1, <1>3, <1>5, <2>3 DEF OpenAfter
    <2> QED
        BY <1>4, <1>5, <2>2, <2>3
<1>6. CASE ~Starts(frames[k])
    <2>1. ASSUME OpenAfter(frames, k)
          PROVE  OpenAfter(frames, k - 1) /\ (IsData(frames[k]) => ~frames[k].fin)
        <3>1. PICK j \in 1 .. k : /\ Starts(frames[j])
                                  /\ \A i \in j .. k : IsData(frames[i]) => ~frames[i].fin
            BY <2>1 DEF OpenAfter
        <3>2. j \in 1 .. (k - 1)
            BY <1>1, <1>6, <3>1
        <3> QED
            BY <1>2, <3>1, <3>2 DEF OpenAfter
    <2>2. ASSUME OpenAfter(frames, k - 1), IsData(frames[k]) => ~frames[k].fin
          PROVE  OpenAfter(frames, k)
        <3>1. PICK j \in 1 .. (k - 1) :
                  /\ Starts(frames[j])
                  /\ \A i \in j .. (k - 1) : IsData(frames[i]) => ~frames[i].fin
            BY <2>2 DEF OpenAfter
        <3>2. \A i \in j .. k : IsData(frames[i]) => ~frames[i].fin
            BY <1>2, <2>2, <3>1
        <3> QED
            BY <1>1, <3>1, <3>2 DEF OpenAfter
    <2> QED
        BY <1>4, <1>6, <2>1, <2>2
<1> QED
    BY <1>5, <1>6

LEMMA PartsNext ==
    ASSUME NEW frames, NEW k \in Nat \ {0}
    PROVE  /\ Starts(frames[k]) => PartsOf(frames, k) = <<k>>
           /\ ~IsData(frames[k]) => PartsOf(frames, k) = PartsOf(frames, k - 1)
           /\ IsData(frames[k]) /\ ~Starts(frames[k]) /\ StartOf(frames, k - 1) \in 1 .. k =>
                  PartsOf(frames, k) = Append(PartsOf(frames, k - 1), k)
<1> DEFINE Of(n) == {i \in 1 .. n : i >= StartOf(frames, n) /\ IsData(frames[i])}
<1>1. k \in Nat /\ 1 .. k = (1 .. (k - 1)) \cup {k} /\ k \notin 1 .. (k - 1)
    OBVIOUS
<1>2. \A n : PartsOf(frames, n) = InOrder(Of(n))
    BY DEF PartsOf
<1>3. Of(k - 1) \in SUBSET Nat /\ IsFiniteSet(Of(k - 1)) /\ \A i \in Of(k - 1) : i < k
    <2>1. k - 1 \in Nat
        OBVIOUS
    <2>2. IsFiniteSet(1 .. (k - 1))
        BY <2>1, CountUpTo
    <2>3. Of(k - 1) \in SUBSET (1 .. (k - 1))
        OBVIOUS
    <2> HIDE DEF Of
    <2>4. IsFiniteSet(Of(k - 1))
        BY <2>2, <2>3, FS_Subset
    <2>5. \A i \in 1 .. (k - 1) : i \in Nat /\ i < k
        OBVIOUS
    <2> QED
        BY <2>3, <2>4, <2>5
<1>4. ASSUME Starts(frames[k]) PROVE PartsOf(frames, k) = <<k>>
    <2>1. StartOf(frames, k) = k /\ IsData(frames[k])
        BY <1>4, StartNext DEF Starts, IsData
    <2>2. Of(k) = {k}
        BY <1>1, <2>1
    <2>3. InOrder({} \cup {k}) = Append(InOrder({}), k)
        BY FS_EmptySet, InOrderAppend
    <2>4. {} \cup {k} = {k} /\ Append(<<>>, k) = <<k>>
        OBVIOUS
    <2>5. PartsOf(frames, k) = InOrder({k})
        BY <1>2, <2>2
    <2> QED
        BY <2>3, <2>4, <2>5, InOrderEmpty
<1>5. ASSUME ~IsData(frames[k]) PROVE PartsOf(frames, k) = PartsOf(frames, k - 1)
    <2>1. StartOf(frames, k) = StartOf(frames, k - 1)
        BY <1>5, StartNext DEF Starts, IsData
    <2>2. Of(k) = Of(k - 1)
        BY <1>1, <1>5, <2>1
    <2> QED
        BY <1>2, <2>2
<1>6. ASSUME IsData(frames[k]), ~Starts(frames[k]), StartOf(frames, k - 1) \in 1 .. k
      PROVE  PartsOf(frames, k) = Append(PartsOf(frames, k - 1), k)
    <2>1. StartOf(frames, k) = StartOf(frames, k - 1) /\ k >= StartOf(frames, k)
        BY <1>6, StartNext
    <2>2. Of(k) = Of(k - 1) \cup {k}
        BY <1>1, <1>6, <2>1
    <2> HIDE DEF Of
    <2> QED
        BY <1>1, <1>2, <1>3, <2>2, InOrderAppend
<1> QED
    BY <1>4, <1>5, <1>6

LEMMA MessagesNext ==
    ASSUME NEW frames, NEW k \in Nat \ {0}
    PROVE  /\ Messages(frames, 0) = <<>>
           /\ Messages(frames, k) = IF Completes(frames, k)
                                    THEN Append(Messages(frames, k - 1), PartsOf(frames, k))
                                    ELSE Messages(frames, k - 1)
           /\ Messages(frames, k - 1) \in Seq({PartsOf(frames, i) : i \in 1 .. k})
<1> DEFINE Of(n)   == {i \in 1 .. n : Completes(frames, i)}
           ends    == InOrder(Of(k - 1))
           parts   == {PartsOf(frames, i) : i \in 1 .. k}
           List(s) == [m \in 1 .. Len(s) |-> PartsOf(frames, s[m])]
<1>1. k \in Nat /\ k - 1 \in Nat /\ 1 .. k = (1 .. (k - 1)) \cup {k} /\ k \notin 1 .. (k - 1)
    OBVIOUS
<1>2. \A n : Messages(frames, n) = List(InOrder(Of(n)))
    BY DEF Messages
<1>3. Messages(frames, 0) = <<>>
    <2>1. Of(0) = {}
        OBVIOUS
    <2>2. List(<<>>) = <<>>
        OBVIOUS
    <2>3. Messages(frames, 0) = List(InOrder(Of(0)))
        BY <1>2
    <2>4. InOrder(Of(0)) = <<>>
        BY <2>1, InOrderEmpty
    <2> HIDE DEF Of, List
    <2> QED
        BY <2>2, <2>3, <2>4
<1>4. Of(k - 1) \in SUBSET (1 .. (k - 1)) /\ Of(k - 1) \in SUBSET Nat /\ IsFiniteSet(Of(k - 1))
      /\ \A i \in Of(k - 1) : i < k
    <2>1. IsFiniteSet(1 .. (k - 1))
        BY <1>1, CountUpTo
    <2>2. Of(k - 1) \in SUBSET (1 .. (k - 1))
        OBVIOUS
    <2> HIDE DEF Of
    <2>3. IsFiniteSet(Of(k - 1))
        BY <2>1, <2>2, FS_Subset
    <2>4. \A i \in 1 .. (k - 1) : i \in Nat /\ i < k
        OBVIOUS
    <2> QED
        BY <2>2, <2>3, <2>4
<1>5. ASSUME ~Completes(frames, k) PROVE Of(k) = Of(k - 1)
    BY <1>1, <1>5
<1>6. ASSUME Completes(frames, k) PROVE Of(k) = Of(k - 1) \cup {k}
    BY <1>1, <1>6
<1> HIDE DEF Of
<1>7. ends \in Seq(1 .. (k - 1))
    BY <1>4, InOrderMembers
<1>8. Messages(frames, k - 1) \in Seq(parts)
    <2>1. \A m \in 1 .. Len(ends) : ends[m] \in 1 .. k
        BY <1>1, <1>7, ElementOfSeq
    <2>2. Len(ends) \in Nat
        BY <1>7, LenProperties
    <2> HIDE DEF ends
    <2>3. List(ends) \in Seq(parts)
        BY <2>1, <2>2
    <2> QED
        BY <1>2, <2>3 DEF ends
<1>9. ASSUME Completes(frames, k)
      PROVE  Messages(frames, k) = Append(Messages(frames, k - 1), PartsOf(frames, k))
    <2>1. InOrder(Of(k)) = Append(ends, k)
        BY <1>1, <1>4, <1>6, <1>9, InOrderAppend
    <2> HIDE DEF ends
    <2>2. ends \in Seq(Nat) /\ k \in Nat
        <3>1. \A m \in 1 .. Len(ends) : ends[m] \in Nat
            BY <1>7, ElementOfSeq
        <3> QED
            BY <1>1, <1>7, <3>1
    <2>3. List(Append(ends, k)) = Append(List(ends), PartsOf(frames, k))
        <3>1. /\ Len(Append(ends, k)) = Len(ends) + 1 /\ Len(ends) \in Nat
              /\ \A m \in 1 .. Len(ends) : Append(ends, k)[m] = ends[m]
              /\ Append(ends, k)[Len(ends) + 1] = k
            BY <2>2, AppendProperties, LenProperties
        <3>2. \A m \in 1 .. Len(ends) : ends[m] \in 1 .. k
            BY <1>1, <1>7, ElementOfSeq
        <3>3. /\ List(ends) \in Seq(parts) /\ Len(List(ends)) = Len(ends)
              /\ PartsOf(frames, k) \in parts
            BY <1>1, <3>1, <3>2
        <3> HIDE DEF parts
        <3> DEFINE old == List(ends)
                   new == Append(old, PartsOf(frames, k))
        <3>4. /\ new \in Seq(parts) /\ Len(new) = Len(ends) + 1
              /\ \A m \in 1 .. Len(ends) : new[m] = old[m]
              /\ new[Len(ends) + 1] = PartsOf(frames, k)
            BY <3>3, AppendProperties
        <3>5. new \in [1 .. (Len(ends) + 1) -> parts]
            BY <3>4, LenProperties
        <3>6. \A m \in 1 .. Len(ends) : old[m] = PartsOf(frames, ends[m])
            OBVIOUS
        <3> HIDE DEF old, new
        <3>7. \A m \in 1 .. (Len(ends) + 1) : new[m] = PartsOf(frames, Append(ends, k)[m])
            BY <3>1, <3>4, <3>6
        <3> QED
            BY <3>1, <3>5, <3>7 DEF new, old
    <2> HIDE DEF List
    <2> QED
        BY <1>2, <2>1, <2>3 DEF ends
<1>10. ASSUME ~Completes(frames, k) PROVE Messages(frames, k) = Messages(frames, k - 1)
    BY <1>2, <1>5, <1>10
<1> QED
    BY <1>3, <1>8, <1>9, <1>10

\* What an inspector should hold of the message that is open after frame k.
OpenMessage(frames, k) ==
    IF OpenAfter(frames, k)
    THEN [kind |-> frames[StartOf(frames, k)].op, parts |-> PartsOf(frames, k)]
    ELSE NoFragment

StartIsSeen(frames, k) ==
    OpenAfter(frames, k) => StartOf(frames, k) \in 1 .. k /\ Starts(frames[StartOf(frames, k)])

\* It holds no message if none is open.
LEMMA NoneIsOpen ==
    ASSUME NEW frames, NEW k, StartIsSeen(frames, k)
    PROVE  OpenMessage(frames, k).kind = "none" <=> ~OpenAfter(frames, k)
BY DEF OpenMessage, StartIsSeen, Starts, NoFragment

LEMMA ControlNext ==
    ASSUME NEW frames, NEW k \in Nat \ {0}, ~IsData(frames[k]), StartIsSeen(frames, k - 1)
    PROVE  /\ OpenMessage(frames, k) = OpenMessage(frames, k - 1) /\ StartIsSeen(frames, k)
           /\ Messages(frames, k) = Messages(frames, k - 1)
<1>1. ~Starts(frames[k]) /\ ~Completes(frames, k)
    BY DEF Starts, IsData, Completes
<1>2. /\ StartOf(frames, k) = StartOf(frames, k - 1)
      /\ OpenAfter(frames, k) <=> OpenAfter(frames, k - 1)
      /\ PartsOf(frames, k) = PartsOf(frames, k - 1)
    BY <1>1, StartNext, OpenNext, PartsNext
<1>3. \A j \in 1 .. (k - 1) : j \in 1 .. k
    OBVIOUS
<1> QED
    BY <1>1, <1>2, <1>3, MessagesNext DEF OpenMessage, StartIsSeen

LEMMA DataStartNext ==
    ASSUME NEW frames, NEW k \in Nat \ {0}, Starts(frames[k])
    PROVE  /\ OpenMessage(frames, k) = IF frames[k].fin THEN NoFragment
                                       ELSE [kind |-> frames[k].op, parts |-> <<k>>]
           /\ StartIsSeen(frames, k)
           /\ Messages(frames, k) = IF frames[k].fin /\ frames[k].op = "binary"
                                    THEN Append(Messages(frames, k - 1), <<k>>)
                                    ELSE Messages(frames, k - 1)
<1>1. /\ StartOf(frames, k) = k /\ PartsOf(frames, k) = <<k>>
      /\ OpenAfter(frames, k) <=> ~frames[k].fin
    BY StartNext, OpenNext, PartsNext
<1>2. Completes(frames, k) <=> frames[k].fin /\ frames[k].op = "binary"
    BY <1>1 DEF Starts, IsData, Completes
<1>3. k \in 1 .. k
    OBVIOUS
<1> QED
    BY <1>1, <1>2, <1>3, MessagesNext DEF OpenMessage, StartIsSeen

LEMMA ContinuationNext ==
    ASSUME NEW frames, NEW k \in Nat \ {0}, frames[k].op = "continuation",
           StartIsSeen(frames, k - 1), OpenAfter(frames, k - 1),
           NEW open, open = OpenMessage(frames, k - 1)
    PROVE  /\ PartsOf(frames, k) = Append(open.parts, k)
           /\ open.kind = frames[StartOf(frames, k)].op /\ open.kind \in {"text", "binary"}
           /\ OpenMessage(frames, k) = IF frames[k].fin THEN NoFragment
                                       ELSE [open EXCEPT !.parts = Append(open.parts, k)]
           /\ StartIsSeen(frames, k)
           /\ Messages(frames, k) = IF frames[k].fin /\ open.kind = "binary"
                                    THEN Append(Messages(frames, k - 1), Append(open.parts, k))
                                    ELSE Messages(frames, k - 1)
<1>1. IsData(frames[k]) /\ ~Starts(frames[k])
    BY DEF Starts, IsData
<1>2. open = [kind |-> frames[StartOf(frames, k - 1)].op, parts |-> PartsOf(frames, k - 1)]
    BY DEF OpenMessage
<1>3. /\ StartOf(frames, k) = StartOf(frames, k - 1) /\ StartOf(frames, k) \in 1 .. k
      /\ Starts(frames[StartOf(frames, k)])
      /\ OpenAfter(frames, k) <=> ~frames[k].fin
    BY <1>1, StartNext, OpenNext DEF StartIsSeen
<1>4. PartsOf(frames, k) = Append(open.parts, k)
    BY <1>1, <1>2, <1>3, PartsNext
<1>5. open.kind = frames[StartOf(frames, k)].op /\ open.kind \in {"text", "binary"}
    BY <1>2, <1>3 DEF Starts
<1>6. Completes(frames, k) <=> frames[k].fin /\ open.kind = "binary"
    BY <1>1, <1>5 DEF Completes
<1>7. StartIsSeen(frames, k)
    BY <1>3 DEF StartIsSeen
<1>8. [open EXCEPT !.parts = Append(open.parts, k)]
          = [kind |-> open.kind, parts |-> Append(open.parts, k)]
    <2> DEFINE new   == Append(open.parts, k)
               kind  == frames[StartOf(frames, k - 1)].op
               parts == PartsOf(frames, k - 1)
    <2>1. open = [kind |-> kind, parts |-> parts]
        BY <1>2
    <2> HIDE DEF new, kind, parts
    <2>2. [open EXCEPT !.parts = new] = [kind |-> open.kind, parts |-> new]
        BY <2>1
    <2> QED
        BY <2>2 DEF new
<1>9. OpenMessage(frames, k) = IF frames[k].fin THEN NoFragment
                               ELSE [open EXCEPT !.parts = Append(open.parts, k)]
    BY <1>3, <1>4, <1>5, <1>8 DEF OpenMessage
<1> QED
    BY <1>4, <1>5, <1>6, <1>7, <1>9, MessagesNext

-----------------------------------------------------------------------------
(* The friend inspector: one frame                                          *)

Limited == {"binary"}

LEMMA FriendParse ==
    ASSUME NEW f \in Frame, NEW bytes \in Nat
    PROVE  /\ Parse(f, bytes) = "incomplete" =>
                  bytes < FrameBytes(f) /\ bytes <= MaxPayload + 14
           /\ Parse(f, bytes) = "invalid" =>
                  /\ bytes >= 2
                  /\ \/ f.form = "long" /\ bytes \in 2 .. 9
                     \/ f.rsv \/ f.masked \/ f.op = "reserved" \/ f.len > MaxPayload
                     \/ f.op = "control" /\ (f.rsv1 \/ ~f.fin \/ f.len > MaxControl)
           /\ Parse(f, bytes) = "complete" =>
                  /\ FrameBytes(f) <= bytes
                  /\ ~f.rsv /\ ~f.masked /\ f.op # "reserved" /\ f.len <= MaxPayload
                  /\ f.op = "control" => ~f.rsv1 /\ f.fin /\ f.len <= MaxControl
           /\ bytes = 0 => Parse(f, bytes) = "incomplete"
<1>1. /\ MaxPayload \in Nat /\ MaxControl \in Nat /\ FrameBytes(f) \in Nat /\ f.len \in Nat
      /\ FrameBytes(f) <= f.len + 14
    BY FrameConstants, FrameBytesType DEF Frame
<1>3. 2 <= FrameBytes(f) /\ (f.form = "word" => 4 <= FrameBytes(f))
    BY <1>1 DEF Frame, FrameBytes, HeaderBytes
<1>4. /\ f.fin \in BOOLEAN /\ f.rsv1 \in BOOLEAN /\ f.rsv \in BOOLEAN /\ f.masked \in BOOLEAN
    BY DEF Frame
<1> HIDE DEF FrameBytes
<1>5. CASE bytes < 2
    <2>1. Parse(f, bytes) = "incomplete"
        BY <1>5 DEF Parse
    <2> QED
        BY <1>1, <1>3, <1>5, <2>1
<1>6. CASE bytes >= 2 /\ (f.rsv \/ f.masked \/ f.op = "reserved")
    <2>1. Parse(f, bytes) = "invalid"
        BY <1>6 DEF Parse
    <2> QED
        BY <1>6, <2>1
<1>7. CASE bytes >= 2 /\ ~(f.rsv \/ f.masked \/ f.op = "reserved")
    <2>1. Parse(f, bytes) =
              IF f.form = "word" /\ bytes < 4 THEN "incomplete"
              ELSE IF f.form = "long" /\ bytes < 10 THEN "invalid"
              ELSE IF f.len > MaxPayload THEN "invalid"
              ELSE IF f.op = "control" /\ (f.rsv1 \/ ~f.fin \/ f.len > MaxControl) THEN "invalid"
              ELSE IF bytes < FrameBytes(f) THEN "incomplete" ELSE "complete"
        BY <1>7 DEF Parse
    <2> QED
        BY <1>1, <1>3, <1>4, <1>7, <2>1
<1> QED
    BY <1>5, <1>6, <1>7

-----------------------------------------------------------------------------
(* The friend inspector: its invariant                                      *)

\* Where the reading is.
ReadInv ==
    /\ stream \in Seq(Frame) /\ fed \in Nat /\ parsed \in 0 .. Len(stream)
    /\ BytesOf(stream, parsed) <= fed /\ fed <= BytesOf(stream, Len(stream))

\* While it works, all that it consumed was legal, and it holds the open message.
WorkInv ==
    enabled =>
        /\ LegalUpto(stream, parsed, FALSE, Limited)
        /\ StartIsSeen(stream, parsed) /\ fragmented = OpenMessage(stream, parsed)
        /\ out = Messages(stream, parsed)
        /\ ~looping => Parsed = "incomplete"

\* It went off after the legal frames 1..p, at one that is not legal or at a cut length.
OffAfter(p) ==
    /\ LegalUpto(stream, p, FALSE, Limited) /\ BytesOf(stream, p) <= fed
    /\ out = Messages(stream, p)
    /\ lengthCut \/ (p < Len(stream) /\ ~LegalFrame(stream, p + 1, FALSE, Limited))

OffInv == ~enabled => ~looping /\ \E p \in 0 .. Len(stream) : OffAfter(p)

CutInv == looping => lengthCut \/ ~CutsLength(fed)

FriendInv ==
    /\ enabled \in BOOLEAN /\ looping \in BOOLEAN /\ lengthCut \in BOOLEAN
    /\ ReadInv /\ WorkInv /\ OffInv /\ CutInv

LEMMA StreamsAreFrames == Streams \subseteq Seq(Frame)
<1>1. ASSUME NEW s \in Streams PROVE s \in Seq(Frame)
    <2>1. PICK n \in 0 .. MaxFrames : s \in [1 .. n -> FrameKinds]
        BY DEF Streams, BoundedSeq, SeqOf
    <2>2. n \in Nat /\ s \in [1 .. n -> Frame]
        BY <2>1, FrameConstants
    <2> QED
        BY <2>2
<1> QED
    BY <1>1

LEMMA FriendInit == Init => FriendInv
<1> SUFFICES ASSUME Init PROVE FriendInv
    OBVIOUS
<1>1. stream \in Seq(Frame) /\ Len(stream) \in Nat
    BY StreamsAreFrames, LenProperties DEF Init
<1>2. /\ fed = 0 /\ parsed = 0 /\ fragmented = NoFragment /\ enabled = TRUE /\ out = <<>>
      /\ looping = FALSE /\ lengthCut = FALSE
    BY DEF Init
<1>3. ReadInv
    <2>1. Len(stream) \in 0 .. Len(stream)
        BY <1>1
    <2>2. BytesOf(stream, 0) = 0 /\ BytesOf(stream, Len(stream)) \in Nat
        BY <1>1, <2>1, BytesAdd
    <2> QED
        BY <1>1, <1>2, <2>2 DEF ReadInv
<1>4. WorkInv
    <2>1. 1 \in Nat \ {0}
        OBVIOUS
    <2>2. ~OpenAfter(stream, 0) /\ Messages(stream, 0) = <<>>
        BY <2>1, OpenNext, MessagesNext
    <2>3. LegalUpto(stream, 0, FALSE, Limited)
        BY DEF LegalUpto
    <2>4. Parsed = "incomplete"
        <3>1. Buffered = 0
            BY <1>1, <1>2, BytesAdd DEF Buffered
        <3>2. ASSUME parsed # Len(stream) PROVE Parsed = "incomplete"
            <4>1. NextFrame \in 1 .. Len(stream)
                BY <1>1, <1>2, <3>2 DEF NextFrame
            <4>2. stream[NextFrame] \in Frame
                BY <1>1, <4>1, ElementOfSeq
            <4> QED
                BY <3>1, <3>2, <4>2, FriendParse DEF Parsed
        <3> QED
            BY <3>2 DEF Parsed
    <2> QED
        BY <1>2, <2>2, <2>3, <2>4 DEF WorkInv, StartIsSeen, OpenMessage
<1> QED
    BY <1>2, <1>3, <1>4 DEF FriendInv, OffInv, CutInv

\* The frame that is parsed next and what is buffered of it.
LEMMA NextIs ==
    ASSUME ReadInv
    PROVE  /\ Buffered \in Nat /\ parsed \in Nat /\ Len(stream) \in Nat
           /\ BytesOf(stream, parsed) \in Nat /\ Buffered = fed - BytesOf(stream, parsed)
           /\ parsed = Len(stream) => Buffered = 0
           /\ parsed < Len(stream) =>
                  /\ NextFrame = parsed + 1 /\ NextFrame \in 1 .. Len(stream)
                  /\ NextFrame \in Nat \ {0} /\ NextFrame - 1 = parsed
                  /\ stream[NextFrame] \in Frame
                  /\ BytesOf(stream, NextFrame) =
                         BytesOf(stream, parsed) + FrameBytes(stream[NextFrame])
                  /\ FrameBytes(stream[NextFrame]) \in Nat
<1>1. /\ parsed \in Nat /\ Len(stream) \in Nat /\ parsed <= Len(stream) /\ fed \in Nat
      /\ stream \in Seq(Frame)
    BY LenProperties DEF ReadInv
<1>2. BytesOf(stream, parsed) \in Nat
    BY <1>1, BytesAdd
<1>3. ASSUME parsed < Len(stream)
      PROVE  /\ NextFrame = parsed + 1 /\ NextFrame \in 1 .. Len(stream)
             /\ NextFrame \in Nat \ {0} /\ NextFrame - 1 = parsed
    BY <1>1, <1>3 DEF NextFrame
<1>4. ASSUME parsed < Len(stream)
      PROVE  /\ stream[NextFrame] \in Frame
             /\ BytesOf(stream, NextFrame) = BytesOf(stream, parsed) + FrameBytes(stream[NextFrame])
             /\ FrameBytes(stream[NextFrame]) \in Nat
    <2>1. stream[NextFrame] \in Frame
        BY <1>1, <1>3, <1>4, ElementOfSeq
    <2>2. BytesOf(stream, NextFrame) =
              BytesOf(stream, NextFrame - 1) + FrameBytes(stream[NextFrame])
        BY <1>1, <1>3, <1>4, BytesAdd
    <2> QED
        BY <1>3, <1>4, <2>1, <2>2, FrameBytesType
<1> QED
    BY <1>1, <1>2, <1>3, <1>4 DEF Buffered, ReadInv

\* Between two calls, the next frame has not arrived whole and fits in the buffer.
LEMMA Waits ==
    ASSUME ReadInv, Parsed = "incomplete"
    PROVE  /\ Buffered <= MaxPayload + 14
           /\ parsed = Len(stream) \/ BytesOf(stream, parsed + 1) > fed
<1>1. MaxPayload \in Nat
    BY FrameConstants
<1>2. CASE parsed = Len(stream)
    BY <1>1, <1>2, NextIs
<1>3. CASE parsed < Len(stream)
    <2>1. Parse(stream[NextFrame], Buffered) = "incomplete"
        BY <1>3, NextIs DEF Parsed
    <2>2. Buffered < FrameBytes(stream[NextFrame]) /\ Buffered <= MaxPayload + 14
        BY <1>3, <2>1, NextIs, FriendParse
    <2> QED
        BY <1>3, <2>2, NextIs DEF ReadInv
<1> QED
    BY <1>2, <1>3, NextIs DEF ReadInv

LEMMA FriendFeeds ==
    ASSUME FriendInv, NEW n \in 1 .. ChunkMax, fed + n <= BytesOf(stream, Len(stream)), Feed(n)
    PROVE  FriendInv'
<1>1. /\ fed \in Nat /\ n \in Nat /\ ChunkMax \in Nat /\ MaxPayload \in Nat
      /\ ReadInv /\ WorkInv /\ OffInv
    BY FrameConstants DEF FriendInv, ReadInv
<1>2. /\ ~looping /\ fed' = fed + n /\ lengthCut' = (lengthCut \/ CutsLength(fed + n))
      /\ UNCHANGED <<stream, parsed, out>>
    BY DEF Feed
<1>3. ASSUME enabled PROVE ~(Buffered + n > MaxBuffered)
    <2>1. Buffered <= MaxPayload + 14 /\ Buffered \in Nat
        BY <1>1, <1>2, <1>3, Waits, NextIs DEF WorkInv
    <2> QED
        BY <1>1, <2>1 DEF MaxBuffered
<1>4. UNCHANGED <<fragmented, enabled>> /\ (looping' <=> enabled) /\ looping' \in BOOLEAN
    BY <1>2, <1>3 DEF Feed, FriendInv
<1>5. ReadInv'
    <2>1. BytesOf(stream, parsed) \in Nat
        BY <1>1, NextIs
    <2> QED
        BY <1>1, <1>2, <2>1 DEF ReadInv
<1>6. WorkInv'
    BY <1>1, <1>2, <1>4 DEF WorkInv, LegalUpto, StartIsSeen, OpenMessage
<1>7. OffInv'
    <2>1. ASSUME ~enabled PROVE \E p \in 0 .. Len(stream) : OffAfter(p)'
        <3>1. PICK p \in 0 .. Len(stream) : OffAfter(p)
            BY <1>1, <2>1 DEF OffInv
        <3>2. BytesOf(stream, p) \in Nat
            BY <1>1, BytesAdd DEF ReadInv
        <3>3. BytesOf(stream, p) <= fed'
            BY <1>1, <1>2, <3>1, <3>2 DEF OffAfter
        <3>4. lengthCut => lengthCut'
            BY <1>2
        <3>5. OffAfter(p)'
            BY <1>2, <3>1, <3>3, <3>4 DEF OffAfter, LegalUpto
        <3> QED
            BY <3>5
    <2> QED
        BY <1>2, <1>4, <2>1 DEF OffInv
<1>8. CutInv' /\ lengthCut' \in BOOLEAN
    <2>1. CutsLength(fed)' <=> CutsLength(fed + n)
        BY <1>2 DEF CutsLength
    <2>2. CutsLength(fed + n) \in BOOLEAN
        BY DEF CutsLength
    <2> QED
        BY <1>2, <2>1, <2>2 DEF CutInv, FriendInv, CutsLength
<1> QED
    BY <1>4, <1>5, <1>6, <1>7, <1>8 DEF FriendInv

LEMMA FriendLoopEnds == FriendInv /\ LoopEnds => FriendInv'
<1> SUFFICES ASSUME FriendInv, LoopEnds PROVE FriendInv'
    OBVIOUS
<1>1. /\ UNCHANGED <<stream, fed, parsed, fragmented, enabled, out, lengthCut>>
      /\ looping /\ ~looping' /\ looping' \in BOOLEAN /\ Parsed = "incomplete"
    BY DEF LoopEnds
<1>2. enabled
    BY <1>1 DEF FriendInv, OffInv
<1>3. Parsed' = Parsed
    BY <1>1 DEF Parsed, NextFrame, Buffered
<1>4. ReadInv'
    BY <1>1 DEF FriendInv, ReadInv
<1>5. WorkInv'
    BY <1>1, <1>3 DEF FriendInv, WorkInv, LegalUpto, StartIsSeen, OpenMessage
<1> QED
    BY <1>1, <1>2, <1>4, <1>5 DEF FriendInv, OffInv, CutInv

\* The inspector goes off, all that it consumed before being legal.
LEMMA GoesOff ==
    ASSUME FriendInv, enabled, Disable, UNCHANGED <<stream, fed, out, lengthCut>>,
           parsed' \in 0 .. Len(stream), BytesOf(stream, parsed') <= fed,
           \/ lengthCut
           \/ parsed < Len(stream) /\ ~LegalFrame(stream, parsed + 1, FALSE, Limited)
    PROVE  FriendInv'
<1>1. ~enabled' /\ ~looping' /\ enabled' \in BOOLEAN /\ looping' \in BOOLEAN
    BY DEF Disable
<1>2. ReadInv'
    BY DEF FriendInv, ReadInv
<1>3. parsed \in 0 .. Len(stream)
    BY DEF FriendInv, ReadInv
<1>4. OffAfter(parsed)
    BY DEF FriendInv, WorkInv, ReadInv, OffAfter
<1>5. \E p \in 0 .. Len(stream) : OffAfter(p)'
    <2>1. ASSUME NEW p \in 0 .. Len(stream), OffAfter(p) PROVE OffAfter(p)'
        BY <2>1 DEF OffAfter, LegalUpto
    <2> QED
        BY <1>3, <1>4, <2>1
<1> QED
    BY <1>1, <1>2, <1>5 DEF FriendInv, WorkInv, OffInv, CutInv

LEMMA FriendLoopInvalid == FriendInv /\ LoopInvalid => FriendInv'
<1> SUFFICES ASSUME FriendInv, LoopInvalid PROVE FriendInv'
    OBVIOUS
<1>1. /\ UNCHANGED <<stream, fed, parsed, out, lengthCut>> /\ Disable
      /\ looping /\ Parsed = "invalid"
    BY DEF LoopInvalid
<1>2. enabled /\ ReadInv
    BY <1>1 DEF FriendInv, OffInv
<1>3. parsed < Len(stream) /\ Parse(stream[NextFrame], Buffered) = "invalid"
    BY <1>1, <1>2, NextIs DEF Parsed, ReadInv
<1> DEFINE f == stream[NextFrame]
<1>4. f \in Frame /\ Buffered \in Nat /\ Buffered = fed - BytesOf(stream, parsed)
      /\ NextFrame = parsed + 1 /\ NextFrame \in 1 .. Len(stream) /\ NextFrame - 1 = parsed
    BY <1>2, <1>3, NextIs
<1>5. \/ f.form = "long" /\ Buffered \in 2 .. 9
      \/ f.rsv \/ f.masked \/ f.op = "reserved" \/ f.len > MaxPayload
      \/ f.op = "control" /\ (f.rsv1 \/ ~f.fin \/ f.len > MaxControl)
    BY <1>3, <1>4, FriendParse
<1>6. CASE f.form = "long" /\ Buffered \in 2 .. 9
    <2>1. CutsLength(fed)
        BY <1>4, <1>6 DEF CutsLength
    <2>2. lengthCut
        BY <1>1, <2>1 DEF FriendInv, CutInv
    <2> QED
        BY <1>1, <1>2, <2>2, GoesOff DEF ReadInv
<1>7. CASE \/ f.rsv \/ f.masked \/ f.op = "reserved" \/ f.len > MaxPayload
           \/ f.op = "control" /\ (f.rsv1 \/ ~f.fin \/ f.len > MaxControl)
    <2>1. f.len \in Nat /\ MaxPayload \in Nat /\ MaxControl \in Nat
        BY <1>4, FrameConstants DEF Frame
    <2>2. ~LegalFrame(stream, NextFrame, FALSE, Limited)
        BY <1>7, <2>1 DEF LegalFrame
    <2> QED
        BY <1>1, <1>2, <1>3, <1>4, <2>2, GoesOff DEF ReadInv
<1> QED
    BY <1>5, <1>6, <1>7

\* A frame that is consumed has arrived whole, and its header is legal.
LEMMA FriendConsumes ==
    ASSUME FriendInv, NEW op, Consume(op), NEW f, f = stream[NextFrame]
    PROVE  /\ enabled /\ looping /\ WorkInv /\ ReadInv /\ f \in Frame /\ f.op = op
           /\ parsed < Len(stream) /\ NextFrame = parsed + 1
           /\ NextFrame \in Nat \ {0} /\ NextFrame - 1 = parsed
           /\ parsed' = NextFrame /\ parsed' \in 0 .. Len(stream)
           /\ UNCHANGED <<stream, fed, lengthCut>>
           /\ BytesOf(stream, NextFrame) <= fed
           /\ ~f.rsv /\ ~f.masked /\ f.op # "reserved" /\ f.len <= MaxPayload
           /\ f.op = "control" => ~f.rsv1 /\ f.fin /\ f.len <= MaxControl
<1>1. /\ looping /\ Parsed = "complete" /\ f.op = op /\ parsed' = NextFrame
      /\ UNCHANGED <<stream, fed, lengthCut>>
    BY DEF Consume
<1>2. enabled /\ ReadInv /\ WorkInv
    BY <1>1 DEF FriendInv, OffInv
<1>3. parsed < Len(stream) /\ Parse(f, Buffered) = "complete"
    BY <1>1, <1>2, NextIs DEF Parsed, ReadInv
<1>4. /\ f \in Frame /\ Buffered \in Nat /\ Buffered = fed - BytesOf(stream, parsed)
      /\ NextFrame = parsed + 1 /\ NextFrame \in 1 .. Len(stream) /\ NextFrame - 1 = parsed
      /\ NextFrame \in Nat \ {0}
      /\ BytesOf(stream, NextFrame) = BytesOf(stream, parsed) + FrameBytes(f)
      /\ BytesOf(stream, parsed) \in Nat /\ FrameBytes(f) \in Nat /\ fed \in Nat
    BY <1>2, <1>3, NextIs DEF ReadInv
<1>5. /\ FrameBytes(f) <= Buffered
      /\ ~f.rsv /\ ~f.masked /\ f.op # "reserved" /\ f.len <= MaxPayload
      /\ f.op = "control" => ~f.rsv1 /\ f.fin /\ f.len <= MaxControl
    BY <1>3, <1>4, FriendParse
<1>6. BytesOf(stream, NextFrame) <= fed
    BY <1>4, <1>5
<1>7. NextFrame \in 0 .. Len(stream)
    BY <1>4
<1> QED
    BY <1>1, <1>2, <1>3, <1>4, <1>5, <1>6, <1>7

\* The inspector stays on at a legal frame.
LEMMA FriendGoesOn ==
    ASSUME FriendInv, NEW op, Consume(op), UNCHANGED <<enabled, looping>>,
           LegalFrame(stream, NextFrame, FALSE, Limited), StartIsSeen(stream, NextFrame),
           fragmented' = OpenMessage(stream, NextFrame), out' = Messages(stream, NextFrame)
    PROVE  FriendInv'
<1>1. /\ enabled /\ looping /\ WorkInv /\ ReadInv /\ NextFrame = parsed + 1 /\ parsed \in Nat
      /\ parsed' = NextFrame /\ parsed' \in 0 .. Len(stream)
      /\ UNCHANGED <<stream, fed, lengthCut>> /\ BytesOf(stream, NextFrame) <= fed
    BY FriendConsumes, NextIs
<1>2. ReadInv'
    BY <1>1 DEF ReadInv
<1>3. LegalUpto(stream, NextFrame, FALSE, Limited)
    <2>1. \A j \in 1 .. NextFrame : j \in 1 .. parsed \/ j = NextFrame
        BY <1>1
    <2> QED
        BY <1>1, <2>1 DEF WorkInv, LegalUpto
<1>4. WorkInv'
    BY <1>1, <1>3 DEF WorkInv, LegalUpto, StartIsSeen, OpenMessage
<1>5. OffInv' /\ CutInv'
    BY <1>1 DEF OffInv, CutInv, FriendInv, CutsLength
<1> QED
    BY <1>1, <1>2, <1>4, <1>5 DEF FriendInv

LEMMA FriendControl == FriendInv /\ Control => FriendInv'
<1> SUFFICES ASSUME FriendInv, Control PROVE FriendInv'
    OBVIOUS
<1> DEFINE f == stream[NextFrame]
<1>1. Consume("control") /\ UNCHANGED <<fragmented, enabled, out, looping>>
    BY DEF Control
<1>2. /\ WorkInv /\ enabled /\ NextFrame \in Nat \ {0} /\ NextFrame - 1 = parsed /\ f \in Frame
      /\ f.op = "control" /\ ~f.rsv /\ ~f.masked /\ ~f.rsv1 /\ f.fin /\ f.len <= MaxControl
      /\ f.len <= MaxPayload
    BY <1>1, FriendConsumes
<1>3. ~IsData(stream[NextFrame])
    BY <1>2 DEF IsData
<1>4. /\ OpenMessage(stream, NextFrame) = OpenMessage(stream, parsed)
      /\ StartIsSeen(stream, NextFrame) /\ Messages(stream, NextFrame) = Messages(stream, parsed)
    BY <1>2, <1>3, ControlNext DEF WorkInv
<1>5. LegalFrame(stream, NextFrame, FALSE, Limited)
    <2>1. f.op # "continuation" /\ ~Starts(f) /\ f.masked = FALSE
        BY <1>2 DEF Starts, Frame
    <2> QED
        BY <1>2, <2>1 DEF LegalFrame
<1> QED
    BY <1>1, <1>2, <1>4, <1>5, FriendGoesOn DEF WorkInv

LEMMA FriendDataStart ==
    ASSUME NEW kind \in {"text", "binary"}, FriendInv, DataStart(kind)
    PROVE  FriendInv'
<1> DEFINE f == stream[NextFrame]
<1>1. Consume(kind)
    BY DEF DataStart
<1>2. /\ WorkInv /\ ReadInv /\ enabled /\ NextFrame \in Nat \ {0} /\ NextFrame - 1 = parsed
      /\ f \in Frame /\ f.op = kind /\ ~f.rsv /\ ~f.masked /\ f.op # "reserved"
      /\ f.len <= MaxPayload /\ NextFrame = parsed + 1 /\ parsed < Len(stream)
      /\ parsed' = NextFrame /\ parsed' \in 0 .. Len(stream)
      /\ UNCHANGED <<stream, fed, lengthCut>> /\ BytesOf(stream, NextFrame) <= fed
    BY <1>1, FriendConsumes
<1>3. StartIsSeen(stream, parsed) /\ fragmented = OpenMessage(stream, parsed)
      /\ out = Messages(stream, parsed)
    BY <1>2 DEF WorkInv
<1>4. fragmented.kind = "none" <=> ~OpenAfter(stream, parsed)
    BY <1>3, NoneIsOpen
<1>5. Starts(f)
    BY <1>2 DEF Starts
<1>6. CASE fragmented.kind # "none" \/ f.rsv1
    <2>1. Disable /\ UNCHANGED out
        BY <1>6 DEF DataStart
    <2>2. ~LegalFrame(stream, NextFrame, FALSE, Limited)
        BY <1>2, <1>4, <1>5, <1>6 DEF LegalFrame
    <2> QED
        BY <1>2, <2>1, <2>2, GoesOff
<1>7. CASE ~(fragmented.kind # "none" \/ f.rsv1)
    <2>1. /\ fragmented' = IF f.fin THEN NoFragment ELSE [kind |-> kind, parts |-> <<NextFrame>>]
          /\ out' = IF f.fin /\ kind = "binary" THEN Append(out, <<NextFrame>>) ELSE out
          /\ UNCHANGED <<enabled, looping>>
        BY <1>7 DEF DataStart
    <2>2. LegalFrame(stream, NextFrame, FALSE, Limited)
        <3>1. f.op # "continuation" /\ f.op # "control" /\ f.masked = FALSE
            BY <1>2 DEF Frame
        <3> QED
            BY <1>2, <1>4, <1>7, <3>1 DEF LegalFrame
    <2>3. /\ OpenMessage(stream, NextFrame) = IF f.fin THEN NoFragment
                                              ELSE [kind |-> f.op, parts |-> <<NextFrame>>]
          /\ StartIsSeen(stream, NextFrame)
          /\ Messages(stream, NextFrame) = IF f.fin /\ f.op = "binary"
                                           THEN Append(Messages(stream, NextFrame - 1), <<NextFrame>>)
                                           ELSE Messages(stream, NextFrame - 1)
        BY <1>2, <1>5, DataStartNext
    <2>4. fragmented' = OpenMessage(stream, NextFrame) /\ out' = Messages(stream, NextFrame)
        BY <1>2, <1>3, <2>1, <2>3
    <2> QED
        BY <1>1, <2>1, <2>2, <2>3, <2>4, FriendGoesOn
<1> QED
    BY <1>6, <1>7

LEMMA FriendContinuation == FriendInv /\ Continuation => FriendInv'
<1> SUFFICES ASSUME FriendInv, Continuation PROVE FriendInv'
    OBVIOUS
<1> DEFINE f     == stream[NextFrame]
           parts == Append(fragmented.parts, NextFrame)
           stops == \/ f.rsv1 \/ fragmented.kind = "none"
                    \/ (fragmented.kind = "binary" /\ PartBytes(parts) > MaxPayload)
<1>1. Consume("continuation")
    BY DEF Continuation
<1>2. /\ WorkInv /\ ReadInv /\ enabled /\ NextFrame \in Nat \ {0} /\ NextFrame - 1 = parsed
      /\ f \in Frame /\ f.op = "continuation" /\ ~f.rsv /\ ~f.masked /\ f.op # "reserved"
      /\ f.len <= MaxPayload /\ NextFrame = parsed + 1 /\ parsed < Len(stream)
      /\ parsed' = NextFrame /\ parsed' \in 0 .. Len(stream)
      /\ UNCHANGED <<stream, fed, lengthCut>> /\ BytesOf(stream, NextFrame) <= fed
    BY <1>1, FriendConsumes
<1>3. StartIsSeen(stream, parsed) /\ fragmented = OpenMessage(stream, parsed)
      /\ out = Messages(stream, parsed)
    BY <1>2 DEF WorkInv
<1>4. fragmented.kind = "none" <=> ~OpenAfter(stream, parsed)
    BY <1>3, NoneIsOpen
<1>5. ASSUME OpenAfter(stream, parsed)
      PROVE  /\ PartsOf(stream, NextFrame) = parts
             /\ fragmented.kind = stream[StartOf(stream, NextFrame)].op
             /\ OpenMessage(stream, NextFrame) = IF f.fin THEN NoFragment
                                                 ELSE [fragmented EXCEPT !.parts = parts]
             /\ StartIsSeen(stream, NextFrame)
             /\ Messages(stream, NextFrame) = IF f.fin /\ fragmented.kind = "binary"
                                              THEN Append(out, parts) ELSE out
    <2> DEFINE k == NextFrame
    <2>1. /\ k \in Nat \ {0} /\ stream[k].op = "continuation" /\ StartIsSeen(stream, k - 1)
          /\ OpenAfter(stream, k - 1) /\ fragmented = OpenMessage(stream, k - 1)
          /\ Messages(stream, k - 1) = out
        BY <1>2, <1>3, <1>5
    <2> HIDE DEF k
    <2>2. /\ PartsOf(stream, k) = Append(fragmented.parts, k)
          /\ fragmented.kind = stream[StartOf(stream, k)].op
          /\ OpenMessage(stream, k) = IF stream[k].fin THEN NoFragment
                                      ELSE [fragmented EXCEPT !.parts = Append(fragmented.parts, k)]
          /\ StartIsSeen(stream, k)
          /\ Messages(stream, k) = IF stream[k].fin /\ fragmented.kind = "binary"
                                   THEN Append(Messages(stream, k - 1), Append(fragmented.parts, k))
                                   ELSE Messages(stream, k - 1)
        BY <2>1, ContinuationNext
    <2> QED
        BY <2>1, <2>2 DEF k
<1>6. stops \in BOOLEAN /\ IF stops
      THEN Disable /\ UNCHANGED out
      ELSE /\ fragmented' = IF f.fin THEN NoFragment ELSE [fragmented EXCEPT !.parts = parts]
           /\ out' = IF f.fin /\ fragmented.kind = "binary" THEN Append(out, parts) ELSE out
           /\ UNCHANGED <<enabled, looping>>
    <2>1. f.rsv1 \in BOOLEAN
        BY <1>2 DEF Frame
    <2> QED
        BY <2>1 DEF Continuation
<1>7. LegalFrame(stream, NextFrame, FALSE, Limited) <=> ~stops
    <2>1. f.op # "control" /\ f.masked = FALSE /\ ~Starts(f)
        BY <1>2 DEF Frame, Starts
    <2>2. CASE ~OpenAfter(stream, parsed)
        BY <1>2, <1>4, <2>2 DEF LegalFrame
    <2>3. CASE OpenAfter(stream, parsed)
        <3>1. PartBytes(parts) = PayloadOf(stream, PartsOf(stream, NextFrame))
            BY <1>5, <2>3 DEF PartBytes
        <3>2. stops <=> \/ f.rsv1
                        \/ /\ stream[StartOf(stream, NextFrame)].op \in Limited
                           /\ PayloadOf(stream, PartsOf(stream, NextFrame)) > MaxPayload
            BY <1>4, <1>5, <2>3, <3>1 DEF Limited
        <3> HIDE DEF stops
        <3> QED
            BY <1>2, <2>1, <2>3, <3>2 DEF LegalFrame
    <2> QED
        BY <2>2, <2>3
<1>8. ~stops => OpenAfter(stream, parsed)
    BY <1>4
<1> HIDE DEF stops, parts
<1>9. CASE stops
    BY <1>2, <1>6, <1>7, <1>9, GoesOff
<1>10. CASE ~stops
    <2>1. /\ fragmented' = OpenMessage(stream, NextFrame) /\ out' = Messages(stream, NextFrame)
          /\ StartIsSeen(stream, NextFrame) /\ UNCHANGED <<enabled, looping>>
        BY <1>5, <1>6, <1>8, <1>10
    <2> QED
        BY <1>1, <1>7, <1>10, <2>1, FriendGoesOn
<1> QED
    BY <1>9, <1>10

THEOREM FriendInvariant == Spec => []FriendInv
<1>1. Init => FriendInv
    BY FriendInit
<1>2. FriendInv /\ [Next]_vars => FriendInv'
    <2> SUFFICES ASSUME FriendInv, [Next]_vars PROVE FriendInv'
        OBVIOUS
    <2>1. CASE \E n \in 1 .. ChunkMax : fed + n <= BytesOf(stream, Len(stream)) /\ Feed(n)
        BY <2>1, FriendFeeds
    <2>2. CASE LoopEnds
        BY <2>2, FriendLoopEnds
    <2>3. CASE LoopInvalid
        BY <2>3, FriendLoopInvalid
    <2>4. CASE Control
        BY <2>4, FriendControl
    <2>5. CASE DataStart("text") \/ DataStart("binary")
        BY <2>5, FriendDataStart
    <2>6. CASE Continuation
        BY <2>6, FriendContinuation
    <2>7. CASE UNCHANGED vars
        <3>1. Parsed' = Parsed
            BY <2>7 DEF vars, Parsed, NextFrame, Buffered
        <3>2. \A p : OffAfter(p)' <=> OffAfter(p)
            BY <2>7 DEF vars, OffAfter, LegalUpto
        <3>3. ReadInv' /\ CutInv'
            BY <2>7 DEF vars, FriendInv, ReadInv, CutInv, CutsLength
        <3>4. WorkInv'
            BY <2>7, <3>1 DEF vars, FriendInv, WorkInv, LegalUpto, StartIsSeen, OpenMessage
        <3>5. OffInv'
            BY <2>7, <3>2 DEF vars, FriendInv, OffInv
        <3> QED
            BY <2>7, <3>3, <3>4, <3>5 DEF vars, FriendInv
    <2> QED
        BY <2>1, <2>2, <2>3, <2>4, <2>5, <2>6, <2>7 DEF Next
<1> QED
    BY <1>1, <1>2, PTL DEF Spec

\* HandsOverWhatArrived and OffOnlyIfIllegal, from the invariant.
LEMMA WorkingFriend ==
    ASSUME FriendInv, enabled, ~looping
    PROVE  SeenFrames = parsed /\ out = Messages(stream, parsed)
<1>1. ReadInv /\ LegalUpto(stream, parsed, FALSE, Limited) /\ out = Messages(stream, parsed)
      /\ Parsed = "incomplete"
    BY DEF FriendInv, WorkInv
<1>2. /\ stream \in Seq(Frame) /\ parsed \in 0 .. Len(stream) /\ fed \in Nat /\ parsed \in Nat
      /\ BytesOf(stream, parsed) <= fed
      /\ parsed = Len(stream) \/ BytesOf(stream, parsed + 1) > fed
    BY <1>1, Waits DEF ReadInv
<1>3. Whole = parsed
    BY <1>2, WholeAre DEF Whole
<1>4. Legal \in parsed .. Len(stream)
    BY <1>1, <1>2, LegalAre DEF Legal, Limited
<1> QED
    BY <1>1, <1>2, <1>3, <1>4 DEF SeenFrames

LEMMA FriendIsOff ==
    ASSUME FriendInv, ~enabled
    PROVE  /\ \E n \in 0 .. SeenFrames : out = Messages(stream, n)
           /\ lengthCut \/ (out = Messages(stream, SeenFrames) /\ Legal < Len(stream))
<1>1. PICK p \in 0 .. Len(stream) : OffAfter(p)
    BY DEF FriendInv, OffInv
<1>2. /\ stream \in Seq(Frame) /\ fed \in Nat /\ p \in Nat /\ Len(stream) \in Nat
      /\ LegalUpto(stream, p, FALSE, Limited) /\ BytesOf(stream, p) <= fed
      /\ out = Messages(stream, p)
    <2>1. stream \in Seq(Frame) /\ fed \in Nat
        BY DEF FriendInv, ReadInv
    <2>2. Len(stream) \in Nat
        BY <2>1, LenProperties
    <2>3. p \in Nat
        BY <2>2
    <2> QED
        BY <1>1, <2>1, <2>2, <2>3 DEF OffAfter
<1>3. Whole \in p .. Len(stream)
    BY <1>2, WholeAre DEF Whole
<1>4. /\ Legal \in p .. Len(stream)
      /\ ~lengthCut => Legal = p /\ p < Len(stream)
    BY <1>1, <1>2, LegalAre DEF Legal, Limited, OffAfter
<1>5. p \in 0 .. SeenFrames /\ (~lengthCut => SeenFrames = p)
    BY <1>2, <1>3, <1>4 DEF SeenFrames
<1> QED
    BY <1>2, <1>4, <1>5

\* However the reads are cut, what was handed over between two calls is exactly the
\* messages that the legal frames that have arrived carry; after a read that was cut
\* inside a 64-bit length, those of the frames before it.
THEOREM FriendHandsOver == Spec => []HandsOverWhatArrived
<1>1. FriendInv => HandsOverWhatArrived
    <2> SUFFICES ASSUME FriendInv, ~looping PROVE HandsOverWhatArrived
        BY DEF HandsOverWhatArrived
    <2>1. lengthCut \in BOOLEAN /\ parsed \in Nat /\ enabled \in BOOLEAN
        BY DEF FriendInv, ReadInv
    <2>2. CASE enabled
        <3>1. parsed \in 0 .. parsed
            BY <2>1
        <3> QED
            BY <2>1, <2>2, <3>1, WorkingFriend DEF HandsOverWhatArrived
    <2>3. CASE ~enabled
        BY <2>1, <2>3, FriendIsOff DEF HandsOverWhatArrived
    <2> QED
        BY <2>1, <2>2, <2>3
<1> QED
    BY <1>1, FriendInvariant, PTL

\* The inspector goes off only at a frame that is not legal, or at a cut length: its
\* limits leave room for everything legal.
THEOREM FriendStaysOn == Spec => []OffOnlyIfIllegal
<1>1. FriendInv => OffOnlyIfIllegal
    BY FriendIsOff DEF OffOnlyIfIllegal
<1> QED
    BY <1>1, FriendInvariant, PTL

-----------------------------------------------------------------------------
(* The protocol inspector: the stream as FrameStream has it                 *)

LEMMA SameFrames ==
    /\ Protocol!NoFragment = NoFragment
    /\ \A frames, k : Protocol!BytesOf(frames, k) = BytesOf(frames, k)
    /\ \A frames, n : Protocol!WholeFrames(frames, n) = WholeFrames(frames, n)
    /\ \A frames, k : Protocol!StartOf(frames, k) = StartOf(frames, k)
    /\ \A frames, k : Protocol!OpenAfter(frames, k) = OpenAfter(frames, k)
    /\ \A frames, k : Protocol!PartsOf(frames, k) = PartsOf(frames, k)
    /\ \A frames, n : Protocol!Messages(frames, n) = Messages(frames, n)
    /\ \A frames, parts : Protocol!PayloadOf(frames, parts) = PayloadOf(frames, parts)
    /\ \A frames, k, masks, limited :
           Protocol!LegalFrame(frames, k, masks, limited) = LegalFrame(frames, k, masks, limited)
    /\ \A frames, masks, limited :
           Protocol!LegalPrefix(frames, masks, limited) = LegalPrefix(frames, masks, limited)
<1>1. Protocol!NoFragment = NoFragment
    BY DEF Protocol!NoFragment, NoFragment
<1>0. \A set : Protocol!Cardinality(set) = Cardinality(set)
    <2> SUFFICES ASSUME NEW set PROVE Protocol!Cardinality(set) = Cardinality(set)
        OBVIOUS
    <2> QED
        BY DEF Protocol!Cardinality, Cardinality
<1>2. \A f : Protocol!FrameBytes(f) = FrameBytes(f) /\ Protocol!HeaderBytes(f) = HeaderBytes(f)
    BY DEF Protocol!FrameBytes, FrameBytes, Protocol!HeaderBytes, HeaderBytes
<1>3. \A frames, k : Protocol!BytesOf(frames, k) = BytesOf(frames, k)
    BY <1>0, <1>2 DEF Protocol!BytesOf, BytesOf
<1>4. \A frames, n : Protocol!WholeFrames(frames, n) = WholeFrames(frames, n)
    BY <1>0, <1>3 DEF Protocol!WholeFrames, WholeFrames
<1>5. \A f : /\ Protocol!IsData(f) <=> IsData(f)
             /\ Protocol!Starts(f) <=> Starts(f)
    BY DEF Protocol!IsData, IsData, Protocol!Starts, Starts
<1>6. \A frames, k : Protocol!StartOf(frames, k) = StartOf(frames, k)
    <2> SUFFICES ASSUME NEW frames, NEW k PROVE Protocol!StartOf(frames, k) = StartOf(frames, k)
        OBVIOUS
    <2> QED
        BY DEF Protocol!StartOf, StartOf, Protocol!Starts, Starts
<1>7. \A frames, k : Protocol!OpenAfter(frames, k) = OpenAfter(frames, k)
    BY <1>5 DEF Protocol!OpenAfter, OpenAfter
<1>8. \A set : Protocol!InOrder(set) = InOrder(set)
    <2> SUFFICES ASSUME NEW set PROVE Protocol!InOrder(set) = InOrder(set)
        OBVIOUS
    <2> QED
        BY DEF Protocol!InOrder, InOrder, Protocol!Cardinality, Cardinality
<1>9. \A frames, k : Protocol!PartsOf(frames, k) = PartsOf(frames, k)
    BY <1>5, <1>6, <1>8 DEF Protocol!PartsOf, PartsOf
<1>10. \A frames, k : Protocol!Completes(frames, k) <=> Completes(frames, k)
    BY <1>5, <1>6 DEF Protocol!Completes, Completes
<1>11. \A frames, n : Protocol!Messages(frames, n) = Messages(frames, n)
    BY <1>8, <1>9, <1>10 DEF Protocol!Messages, Messages
<1>12. \A frames, parts : Protocol!PayloadOf(frames, parts) = PayloadOf(frames, parts)
    <2> SUFFICES ASSUME NEW frames, NEW parts
                 PROVE  Protocol!PayloadOf(frames, parts) = PayloadOf(frames, parts)
        OBVIOUS
    <2> QED
        BY DEF Protocol!PayloadOf, PayloadOf, Protocol!FoldLeft, FoldLeft,
               Protocol!MapThenFoldSet, MapThenFoldSet, Protocol!Max, Max
<1>13. \A frames, k, masks, limited :
           Protocol!LegalFrame(frames, k, masks, limited) = LegalFrame(frames, k, masks, limited)
    BY <1>5, <1>6, <1>7, <1>9, <1>12 DEF Protocol!LegalFrame, LegalFrame
<1>14. \A frames, masks, limited :
           Protocol!LegalPrefix(frames, masks, limited) = LegalPrefix(frames, masks, limited)
    BY <1>0, <1>13 DEF Protocol!LegalPrefix, LegalPrefix
<1> QED
    BY <1>1, <1>3, <1>4, <1>6, <1>7, <1>9, <1>11, <1>12, <1>13, <1>14

-----------------------------------------------------------------------------
(* The protocol inspector: its invariant                                    *)

BothLimited == {"text", "binary"}

AllParts == {PartsOf(stream, i) : i \in 1 .. Len(stream)}

\* While it works, all that it consumed was legal, and it holds the open message and the
\* messages that this call is to return.
RelayInv ==
    status # "failed" =>
        /\ LegalUpto(stream, parsed, ExpectedMask, BothLimited)
        /\ StartIsSeen(stream, parsed) /\ fragmented = OpenMessage(stream, parsed)
        /\ out \in Seq(AllParts) /\ messages \in Seq(AllParts)
        /\ out \o messages = Messages(stream, parsed)
        /\ ~looping => messages = <<>> /\ Protocol!Parsed = "incomplete"

\* It failed after the legal frames 1..p, at one that is not legal.
FailedAfter(p) ==
    /\ LegalUpto(stream, p, ExpectedMask, BothLimited)
    /\ p < Len(stream) /\ ~LegalFrame(stream, p + 1, ExpectedMask, BothLimited)
    /\ fed >= BytesOf(stream, p) + 2

FailInv == status = "failed" => \E p \in 0 .. Len(stream) : FailedAfter(p)

FinishInv ==
    status \in {"closed", "cut"} =>
        ((status = "closed") <=> (Buffered = 0 /\ fragmented.kind = "none"))

ProtocolInv ==
    /\ looping \in BOOLEAN /\ status \in {"open", "closed", "cut", "failed"}
    /\ looping => status = "open"
    /\ ReadInv /\ RelayInv /\ FailInv /\ FinishInv

LEMMA SameReading ==
    /\ Protocol!Buffered = Buffered /\ Protocol!NextFrame = NextFrame
    /\ Protocol!MaxBuffered = MaxPayload + 14
    /\ \A parts : Protocol!PartBytes(parts) = PayloadOf(stream, parts)
    /\ Protocol!Parsed = IF parsed = Len(stream) THEN "incomplete"
                         ELSE Protocol!Parse(stream[NextFrame], Buffered)
<1>1. Protocol!Buffered = Buffered /\ Protocol!NextFrame = NextFrame
    BY SameFrames DEF Protocol!Buffered, Buffered, Protocol!NextFrame, NextFrame
<1> QED
    BY <1>1, SameFrames DEF Protocol!MaxBuffered, Protocol!PartBytes, Protocol!Parsed

LEMMA ProtocolParse ==
    ASSUME NEW f \in Frame, NEW bytes \in Nat
    PROVE  /\ Protocol!Parse(f, bytes) = "incomplete" =>
                  bytes < FrameBytes(f) /\ bytes <= MaxPayload + 14
           /\ Protocol!Parse(f, bytes) = "error" =>
                  /\ bytes >= 2
                  /\ \/ f.rsv1 \/ f.rsv \/ f.masked # ExpectedMask \/ f.len > MaxPayload
                     \/ f.op = "control" /\ (~f.fin \/ f.len > MaxControl)
           /\ Protocol!Parse(f, bytes) = "complete" =>
                  /\ FrameBytes(f) <= bytes /\ bytes >= 2
                  /\ ~f.rsv1 /\ ~f.rsv /\ f.masked = ExpectedMask /\ f.len <= MaxPayload
                  /\ f.op = "control" => f.fin /\ f.len <= MaxControl
           /\ bytes = 0 => Protocol!Parse(f, bytes) = "incomplete"
<1>1. /\ MaxPayload \in Nat /\ MaxControl \in Nat /\ FrameBytes(f) \in Nat /\ f.len \in Nat
      /\ FrameBytes(f) <= f.len + 14 /\ HeaderBytes(f) \in 2 .. 10
      /\ HeaderBytes(f) + f.len <= FrameBytes(f)
    BY FrameConstants, FrameBytesType DEF Frame
<1>2. f.fin \in BOOLEAN /\ f.rsv1 \in BOOLEAN /\ f.rsv \in BOOLEAN /\ f.masked \in BOOLEAN
    BY DEF Frame
<1>3. Protocol!FrameBytes(f) = FrameBytes(f) /\ Protocol!HeaderBytes(f) = HeaderBytes(f)
    BY DEF Protocol!FrameBytes, FrameBytes, Protocol!HeaderBytes, HeaderBytes
<1>4. CASE bytes < 2
    <2>1. Protocol!Parse(f, bytes) = "incomplete"
        BY <1>4 DEF Protocol!Parse
    <2> QED
        BY <1>1, <1>4, <2>1
<1>5. CASE bytes >= 2 /\ (f.rsv1 \/ f.rsv \/ f.masked # ExpectedMask)
    <2>1. Protocol!Parse(f, bytes) = "error"
        BY <1>5 DEF Protocol!Parse
    <2> QED
        BY <1>5, <2>1
<1>6. CASE bytes >= 2 /\ ~(f.rsv1 \/ f.rsv \/ f.masked # ExpectedMask)
    <2>1. Protocol!Parse(f, bytes) =
              IF bytes < HeaderBytes(f) THEN "incomplete"
              ELSE IF f.len > MaxPayload THEN "error"
              ELSE IF f.op = "control" /\ (~f.fin \/ f.len > MaxControl) THEN "error"
              ELSE IF bytes < FrameBytes(f) THEN "incomplete" ELSE "complete"
        BY <1>3, <1>6 DEF Protocol!Parse
    <2> QED
        BY <1>1, <1>2, <1>6, <2>1
<1> QED
    BY <1>4, <1>5, <1>6

LEMMA ProtocolWaits ==
    ASSUME ReadInv, Protocol!Parsed = "incomplete"
    PROVE  /\ Buffered <= MaxPayload + 14
           /\ parsed = Len(stream) \/ BytesOf(stream, parsed + 1) > fed
<1>1. MaxPayload \in Nat
    BY FrameConstants
<1>2. CASE parsed = Len(stream)
    BY <1>1, <1>2, NextIs
<1>3. CASE parsed < Len(stream)
    <2>1. Protocol!Parse(stream[NextFrame], Buffered) = "incomplete"
        BY <1>3, NextIs, SameReading
    <2>2. Buffered < FrameBytes(stream[NextFrame]) /\ Buffered <= MaxPayload + 14
        BY <1>3, <2>1, NextIs, ProtocolParse
    <2> QED
        BY <1>3, <2>2, NextIs DEF ReadInv
<1> QED
    BY <1>2, <1>3, NextIs DEF ReadInv

LEMMA ProtocolInit == Protocol!Init => ProtocolInv
<1> SUFFICES ASSUME Protocol!Init PROVE ProtocolInv
    OBVIOUS
<1>1. stream \in Seq(Frame) /\ Len(stream) \in Nat
    <2>1. Protocol!Streams = Streams
        BY DEF Protocol!Streams, Streams, Protocol!BoundedSeq, BoundedSeq, Protocol!SeqOf, SeqOf
    <2> QED
        BY <2>1, StreamsAreFrames, LenProperties DEF Protocol!Init
<1>2. /\ fed = 0 /\ parsed = 0 /\ fragmented = NoFragment /\ out = <<>> /\ messages = <<>>
      /\ looping = FALSE /\ status = "open"
    BY SameFrames DEF Protocol!Init
<1>3. BytesOf(stream, 0) = 0 /\ ReadInv
    <2>1. Len(stream) \in 0 .. Len(stream)
        BY <1>1
    <2>2. BytesOf(stream, 0) = 0 /\ BytesOf(stream, Len(stream)) \in Nat
        BY <1>1, <2>1, BytesAdd
    <2> QED
        BY <1>1, <1>2, <2>2 DEF ReadInv
<1>4. RelayInv
    <2>1. 1 \in Nat \ {0}
        OBVIOUS
    <2>2. ~OpenAfter(stream, 0) /\ Messages(stream, 0) = <<>>
        BY <2>1, OpenNext, MessagesNext
    <2>3. LegalUpto(stream, 0, ExpectedMask, BothLimited)
        BY DEF LegalUpto
    <2>4. Protocol!Parsed = "incomplete"
        <3>1. Buffered = 0
            BY <1>2, <1>3 DEF Buffered
        <3>2. ASSUME parsed # Len(stream) PROVE Protocol!Parsed = "incomplete"
            <4>1. NextFrame \in 1 .. Len(stream)
                BY <1>1, <1>2, <3>2 DEF NextFrame
            <4>2. stream[NextFrame] \in Frame
                BY <1>1, <4>1, ElementOfSeq
            <4> QED
                BY <3>1, <3>2, <4>2, ProtocolParse, SameReading
        <3> QED
            BY <3>2, SameReading
    <2>5. <<>> \in Seq(AllParts) /\ <<>> \o <<>> = <<>>
        OBVIOUS
    <2> QED
        BY <1>2, <2>2, <2>3, <2>4, <2>5 DEF RelayInv, StartIsSeen, OpenMessage
<1> QED
    BY <1>2, <1>3, <1>4 DEF ProtocolInv, FailInv, FinishInv

LEMMA ProtocolFeeds ==
    ASSUME ProtocolInv, NEW n \in 1 .. ChunkMax, fed + n <= BytesOf(stream, Len(stream)),
           Protocol!Feed(n)
    PROVE  ProtocolInv'
<1>1. fed \in Nat /\ n \in Nat /\ ReadInv /\ RelayInv
    BY FrameConstants DEF ProtocolInv, ReadInv
<1>2. /\ status = "open" /\ ~looping /\ fed' = fed + n /\ looping' = TRUE
      /\ UNCHANGED <<stream, parsed, fragmented, messages, out, status>>
    BY DEF Protocol!Feed
<1>3. ReadInv'
    <2>1. BytesOf(stream, parsed) \in Nat
        BY <1>1, NextIs
    <2> QED
        BY <1>1, <1>2, <2>1 DEF ReadInv
<1>4. RelayInv'
    BY <1>1, <1>2 DEF RelayInv, LegalUpto, StartIsSeen, OpenMessage, AllParts
<1> QED
    BY <1>2, <1>3, <1>4 DEF ProtocolInv, FailInv, FinishInv

LEMMA ProtocolLoopEnds == ProtocolInv /\ Protocol!LoopEnds => ProtocolInv'
<1> SUFFICES ASSUME ProtocolInv, Protocol!LoopEnds PROVE ProtocolInv'
    OBVIOUS
<1>1. /\ looping /\ Protocol!Parsed = "incomplete" /\ status = "open" /\ ReadInv
      /\ UNCHANGED <<stream, fed, parsed, fragmented>>
    BY DEF ProtocolInv, Protocol!LoopEnds
<1>2. ~(Protocol!Buffered > Protocol!MaxBuffered)
    <2>1. Buffered <= MaxPayload + 14 /\ Buffered \in Nat /\ MaxPayload \in Nat
        BY <1>1, ProtocolWaits, NextIs, FrameConstants
    <2> QED
        BY <2>1, SameReading
<1>3. /\ out' = out \o messages /\ messages' = <<>> /\ looping' = FALSE /\ UNCHANGED status
    BY <1>2 DEF Protocol!LoopEnds
<1>4. Protocol!Parsed' = Protocol!Parsed
    BY <1>1 DEF Protocol!Parsed, Protocol!NextFrame, Protocol!Buffered
<1>5. ReadInv'
    BY <1>1 DEF ReadInv
<1>6. RelayInv'
    <2>1. /\ LegalUpto(stream, parsed, ExpectedMask, BothLimited)
          /\ StartIsSeen(stream, parsed) /\ fragmented = OpenMessage(stream, parsed)
          /\ out \in Seq(AllParts) /\ messages \in Seq(AllParts)
          /\ out \o messages = Messages(stream, parsed)
        BY <1>1 DEF ProtocolInv, RelayInv
    <2>2. /\ out \o messages \in Seq(AllParts) /\ <<>> \in Seq(AllParts)
          /\ (out \o messages) \o <<>> = out \o messages
        <3> DEFINE both == out \o messages
        <3>1. both \in Seq(AllParts)
            BY <2>1, ConcatProperties
        <3> HIDE DEF both
        <3>2. both \o <<>> = both
            BY <3>1, ConcatEmptySeq
        <3>3. <<>> \in Seq(AllParts)
            OBVIOUS
        <3> QED
            BY <3>1, <3>2, <3>3 DEF both
    <2> QED
        BY <1>1, <1>3, <1>4, <2>1, <2>2
        DEF RelayInv, LegalUpto, StartIsSeen, OpenMessage, AllParts
<1> QED
    BY <1>1, <1>3, <1>5, <1>6 DEF ProtocolInv, FailInv, FinishInv

\* The relay ends, all that was consumed before being legal.
LEMMA RelayFails ==
    ASSUME ProtocolInv, looping, Protocol!FeedFails, UNCHANGED <<stream, fed>>,
           parsed' \in 0 .. Len(stream), BytesOf(stream, parsed') <= fed,
           Buffered >= 2, parsed < Len(stream),
           ~LegalFrame(stream, parsed + 1, ExpectedMask, BothLimited)
    PROVE  ProtocolInv'
<1>1. status' = "failed" /\ looping' = FALSE
    BY DEF Protocol!FeedFails
<1>2. ReadInv'
    BY DEF ProtocolInv, ReadInv
<1>3. FailedAfter(parsed) /\ parsed \in 0 .. Len(stream)
    <2>1. ReadInv /\ LegalUpto(stream, parsed, ExpectedMask, BothLimited)
        BY DEF ProtocolInv, RelayInv
    <2>2. fed >= BytesOf(stream, parsed) + 2
        <3>1. /\ Buffered = fed - BytesOf(stream, parsed) /\ BytesOf(stream, parsed) \in Nat
              /\ fed \in Nat
            BY <2>1, NextIs DEF ReadInv
        <3> QED
            BY <3>1
    <2> QED
        BY <2>1, <2>2 DEF FailedAfter, ReadInv
<1>4. \E p \in 0 .. Len(stream) : FailedAfter(p)'
    <2>1. ASSUME NEW p \in 0 .. Len(stream), FailedAfter(p) PROVE FailedAfter(p)'
        BY <2>1 DEF FailedAfter, LegalUpto
    <2> QED
        BY <1>3, <2>1
<1> QED
    BY <1>1, <1>2, <1>4 DEF ProtocolInv, RelayInv, FailInv, FinishInv

LEMMA ProtocolParseFails == ProtocolInv /\ Protocol!ParseFails => ProtocolInv'
<1> SUFFICES ASSUME ProtocolInv, Protocol!ParseFails PROVE ProtocolInv'
    OBVIOUS
<1>1. /\ UNCHANGED <<stream, fed, parsed>> /\ Protocol!FeedFails
      /\ looping /\ Protocol!Parsed = "error" /\ ReadInv
    BY DEF Protocol!ParseFails, ProtocolInv
<1>2. parsed < Len(stream) /\ Protocol!Parse(stream[NextFrame], Buffered) = "error"
    BY <1>1, NextIs, SameReading DEF ReadInv
<1> DEFINE f == stream[NextFrame]
<1>3. f \in Frame /\ Buffered \in Nat /\ NextFrame = parsed + 1
    BY <1>1, <1>2, NextIs
<1>4. /\ Buffered >= 2
      /\ \/ f.rsv1 \/ f.rsv \/ f.masked # ExpectedMask \/ f.len > MaxPayload
         \/ f.op = "control" /\ (~f.fin \/ f.len > MaxControl)
    BY <1>2, <1>3, ProtocolParse
<1>5. f.len \in Nat /\ MaxPayload \in Nat /\ MaxControl \in Nat
    BY <1>3, FrameConstants DEF Frame
<1>6. ~LegalFrame(stream, NextFrame, ExpectedMask, BothLimited)
    BY <1>4, <1>5 DEF LegalFrame
<1> QED
    BY <1>1, <1>2, <1>3, <1>4, <1>6, RelayFails DEF ReadInv

\* A frame that is accepted has arrived whole, and its header is legal.
LEMMA ProtocolAccepts ==
    ASSUME ProtocolInv, NEW op, Protocol!Accept(op), NEW f, f = stream[NextFrame]
    PROVE  /\ looping /\ status = "open" /\ RelayInv /\ ReadInv /\ f \in Frame /\ f.op = op
           /\ parsed < Len(stream) /\ NextFrame = parsed + 1 /\ Buffered >= 2
           /\ NextFrame \in Nat \ {0} /\ NextFrame - 1 = parsed
           /\ parsed' = NextFrame /\ parsed' \in 0 .. Len(stream) /\ UNCHANGED <<stream, fed>>
           /\ BytesOf(stream, NextFrame) <= fed
           /\ ~f.rsv1 /\ ~f.rsv /\ f.masked = ExpectedMask /\ f.len <= MaxPayload
           /\ f.op = "control" => f.fin /\ f.len <= MaxControl
<1>1. /\ looping /\ Protocol!Parsed = "complete" /\ f.op = op /\ parsed' = NextFrame
      /\ UNCHANGED <<stream, fed>>
    BY SameReading DEF Protocol!Accept
<1>2. status = "open" /\ ReadInv /\ RelayInv
    BY <1>1 DEF ProtocolInv
<1>3. parsed < Len(stream) /\ Protocol!Parse(f, Buffered) = "complete"
    BY <1>1, <1>2, NextIs, SameReading DEF ReadInv
<1>4. /\ f \in Frame /\ Buffered \in Nat /\ Buffered = fed - BytesOf(stream, parsed)
      /\ NextFrame = parsed + 1 /\ NextFrame \in 1 .. Len(stream) /\ NextFrame - 1 = parsed
      /\ NextFrame \in Nat \ {0}
      /\ BytesOf(stream, NextFrame) = BytesOf(stream, parsed) + FrameBytes(f)
      /\ BytesOf(stream, parsed) \in Nat /\ FrameBytes(f) \in Nat /\ fed \in Nat
    BY <1>2, <1>3, NextIs DEF ReadInv
<1>5. /\ FrameBytes(f) <= Buffered /\ Buffered >= 2
      /\ ~f.rsv1 /\ ~f.rsv /\ f.masked = ExpectedMask /\ f.len <= MaxPayload
      /\ f.op = "control" => f.fin /\ f.len <= MaxControl
    BY <1>3, <1>4, ProtocolParse
<1>6. BytesOf(stream, NextFrame) <= fed
    BY <1>4, <1>5
<1>7. NextFrame \in 0 .. Len(stream)
    BY <1>4
<1> QED
    BY <1>1, <1>2, <1>3, <1>4, <1>5, <1>6, <1>7

LEMMA AppendToConcat ==
    ASSUME NEW S, NEW first \in Seq(S), NEW second \in Seq(S), NEW x \in S
    PROVE  first \o Append(second, x) = Append(first \o second, x)
<1>1. <<x>> \in Seq(S) /\ first \o second \in Seq(S)
    BY ConcatProperties
<1>2. first \o Append(second, x) = first \o (second \o <<x>>)
    BY AppendIsConcat
<1>3. Append(first \o second, x) = (first \o second) \o <<x>>
    BY <1>1, AppendIsConcat
<1>4. first \o (second \o <<x>>) = (first \o second) \o <<x>>
    BY <1>1, ConcatAssociative
<1> QED
    BY <1>2, <1>3, <1>4

\* The relay goes on after a legal frame.
LEMMA ProtocolGoesOn ==
    ASSUME ProtocolInv, NEW op, Protocol!Accept(op), UNCHANGED <<out, looping, status>>,
           LegalFrame(stream, NextFrame, ExpectedMask, BothLimited),
           StartIsSeen(stream, NextFrame), fragmented' = OpenMessage(stream, NextFrame),
           \/ messages' = messages /\ Messages(stream, NextFrame) = Messages(stream, parsed)
           \/ /\ messages' = Append(messages, PartsOf(stream, NextFrame))
              /\ Messages(stream, NextFrame)
                     = Append(Messages(stream, parsed), PartsOf(stream, NextFrame))
    PROVE  ProtocolInv'
<1>1. /\ looping /\ status = "open" /\ RelayInv /\ ReadInv /\ NextFrame = parsed + 1
      /\ parsed \in Nat /\ parsed' = NextFrame /\ parsed' \in 0 .. Len(stream)
      /\ UNCHANGED <<stream, fed>> /\ BytesOf(stream, NextFrame) <= fed
      /\ NextFrame \in 1 .. Len(stream)
    BY ProtocolAccepts, NextIs
<1>2. ReadInv'
    BY <1>1 DEF ReadInv
<1>3. LegalUpto(stream, NextFrame, ExpectedMask, BothLimited)
    <2>1. \A j \in 1 .. NextFrame : j \in 1 .. parsed \/ j = NextFrame
        BY <1>1
    <2> QED
        BY <1>1, <2>1 DEF RelayInv, LegalUpto
<1>4. out \in Seq(AllParts) /\ messages' \in Seq(AllParts)
      /\ out \o messages' = Messages(stream, NextFrame)
    <2>1. /\ out \in Seq(AllParts) /\ messages \in Seq(AllParts)
          /\ out \o messages = Messages(stream, parsed)
        BY <1>1 DEF RelayInv
    <2>2. CASE messages' = messages /\ Messages(stream, NextFrame) = Messages(stream, parsed)
        BY <2>1, <2>2
    <2>3. CASE /\ messages' = Append(messages, PartsOf(stream, NextFrame))
               /\ Messages(stream, NextFrame)
                      = Append(Messages(stream, parsed), PartsOf(stream, NextFrame))
        <3>1. PartsOf(stream, NextFrame) \in AllParts
            BY <1>1 DEF AllParts
        <3>2. Append(messages, PartsOf(stream, NextFrame)) \in Seq(AllParts)
            BY <2>1, <3>1, AppendProperties
        <3>3. out \o Append(messages, PartsOf(stream, NextFrame))
                  = Append(out \o messages, PartsOf(stream, NextFrame))
            <4> DEFINE x == PartsOf(stream, NextFrame)
            <4>1. x \in AllParts
                BY <3>1
            <4> HIDE DEF x
            <4>2. out \o Append(messages, x) = Append(out \o messages, x)
                BY <2>1, <4>1, AppendToConcat
            <4> QED
                BY <4>2 DEF x
        <3> QED
            BY <2>1, <2>3, <3>2, <3>3
    <2> QED
        BY <2>2, <2>3
<1>5. RelayInv'
    BY <1>1, <1>3, <1>4 DEF RelayInv, LegalUpto, StartIsSeen, OpenMessage, AllParts
<1> QED
    BY <1>1, <1>2, <1>5 DEF ProtocolInv, FailInv, FinishInv

LEMMA ProtocolControl == ProtocolInv /\ Protocol!Control => ProtocolInv'
<1> SUFFICES ASSUME ProtocolInv, Protocol!Control PROVE ProtocolInv'
    OBVIOUS
<1> DEFINE f == stream[NextFrame]
<1>1. Protocol!Accept("control") /\ UNCHANGED <<fragmented, messages, out, looping, status>>
    BY DEF Protocol!Control
<1>2. /\ RelayInv /\ status = "open" /\ NextFrame \in Nat \ {0} /\ NextFrame - 1 = parsed
      /\ f.op = "control" /\ ~f.rsv /\ ~f.rsv1 /\ f.masked = ExpectedMask /\ f.fin
      /\ f.len <= MaxControl /\ f.len <= MaxPayload
    BY <1>1, ProtocolAccepts
<1>3. ~IsData(stream[NextFrame])
    BY <1>2 DEF IsData
<1>4. /\ OpenMessage(stream, NextFrame) = OpenMessage(stream, parsed)
      /\ StartIsSeen(stream, NextFrame) /\ Messages(stream, NextFrame) = Messages(stream, parsed)
    BY <1>2, <1>3, ControlNext DEF RelayInv
<1>5. LegalFrame(stream, NextFrame, ExpectedMask, BothLimited)
    <2>1. f.op # "continuation" /\ ~Starts(f) /\ f.op # "reserved"
        BY <1>2 DEF Starts
    <2> QED
        BY <1>2, <2>1 DEF LegalFrame
<1> QED
    BY <1>1, <1>2, <1>4, <1>5, ProtocolGoesOn DEF RelayInv

LEMMA ProtocolUnsupported == ProtocolInv /\ Protocol!Unsupported => ProtocolInv'
<1> SUFFICES ASSUME ProtocolInv, Protocol!Unsupported PROVE ProtocolInv'
    OBVIOUS
<1>1. Protocol!Accept("reserved") /\ Protocol!FeedFails
    BY DEF Protocol!Unsupported
<1>2. /\ looping /\ NextFrame = parsed + 1 /\ parsed < Len(stream) /\ Buffered >= 2
      /\ parsed' \in 0 .. Len(stream) /\ parsed' = NextFrame /\ UNCHANGED <<stream, fed>>
      /\ BytesOf(stream, NextFrame) <= fed /\ stream[NextFrame].op = "reserved"
    BY <1>1, ProtocolAccepts
<1>3. ~LegalFrame(stream, NextFrame, ExpectedMask, BothLimited)
    BY <1>2 DEF LegalFrame
<1> QED
    BY <1>1, <1>2, <1>3, RelayFails

LEMMA ProtocolDataStart ==
    ASSUME NEW kind \in {"text", "binary"}, ProtocolInv, Protocol!DataStart(kind)
    PROVE  ProtocolInv'
<1> DEFINE f == stream[NextFrame]
<1>1. Protocol!Accept(kind)
    BY DEF Protocol!DataStart
<1>2. /\ RelayInv /\ status = "open" /\ looping /\ NextFrame \in Nat \ {0}
      /\ NextFrame - 1 = parsed /\ NextFrame = parsed + 1 /\ parsed < Len(stream)
      /\ f \in Frame /\ f.op = kind /\ ~f.rsv1 /\ ~f.rsv /\ f.masked = ExpectedMask
      /\ f.len <= MaxPayload /\ Buffered >= 2
      /\ parsed' = NextFrame /\ parsed' \in 0 .. Len(stream)
      /\ UNCHANGED <<stream, fed>> /\ BytesOf(stream, NextFrame) <= fed
    BY <1>1, ProtocolAccepts
<1>3. StartIsSeen(stream, parsed) /\ fragmented = OpenMessage(stream, parsed)
    BY <1>2 DEF RelayInv
<1>4. fragmented.kind = "none" <=> ~OpenAfter(stream, parsed)
    BY <1>3, NoneIsOpen
<1>5. Starts(f)
    BY <1>2 DEF Starts
<1>6. CASE fragmented.kind # "none"
    <2>1. Protocol!FeedFails
        BY <1>6 DEF Protocol!DataStart
    <2>2. ~LegalFrame(stream, NextFrame, ExpectedMask, BothLimited)
        BY <1>2, <1>4, <1>5, <1>6 DEF LegalFrame
    <2> QED
        BY <1>2, <2>1, <2>2, RelayFails
<1>7. CASE ~(fragmented.kind # "none")
    <2>1. /\ fragmented' = IF f.fin THEN NoFragment ELSE [kind |-> kind, parts |-> <<NextFrame>>]
          /\ messages' = IF f.fin /\ kind = "binary" THEN Append(messages, <<NextFrame>>)
                         ELSE messages
          /\ UNCHANGED <<out, looping, status>>
        BY <1>7, SameReading, SameFrames DEF Protocol!DataStart
    <2>2. LegalFrame(stream, NextFrame, ExpectedMask, BothLimited)
        <3>1. f.op # "continuation" /\ f.op # "control" /\ f.op # "reserved"
            BY <1>2
        <3> QED
            BY <1>2, <1>4, <1>7, <3>1 DEF LegalFrame
    <2>3. /\ OpenMessage(stream, NextFrame) = IF f.fin THEN NoFragment
                                              ELSE [kind |-> f.op, parts |-> <<NextFrame>>]
          /\ StartIsSeen(stream, NextFrame)
          /\ Messages(stream, NextFrame) = IF f.fin /\ f.op = "binary"
                                           THEN Append(Messages(stream, NextFrame - 1), <<NextFrame>>)
                                           ELSE Messages(stream, NextFrame - 1)
        BY <1>2, <1>5, DataStartNext
    <2>4. PartsOf(stream, NextFrame) = <<NextFrame>>
        BY <1>2, <1>5, PartsNext
    <2>5. fragmented' = OpenMessage(stream, NextFrame)
        BY <1>2, <2>1, <2>3
    <2>6. \/ messages' = messages /\ Messages(stream, NextFrame) = Messages(stream, parsed)
          \/ /\ messages' = Append(messages, PartsOf(stream, NextFrame))
             /\ Messages(stream, NextFrame)
                    = Append(Messages(stream, parsed), PartsOf(stream, NextFrame))
        BY <1>2, <2>1, <2>3, <2>4
    <2> QED
        BY <1>1, <2>1, <2>2, <2>3, <2>5, <2>6, ProtocolGoesOn
<1> QED
    BY <1>6, <1>7

LEMMA ProtocolContinuation == ProtocolInv /\ Protocol!Continuation => ProtocolInv'
<1> SUFFICES ASSUME ProtocolInv, Protocol!Continuation PROVE ProtocolInv'
    OBVIOUS
<1> DEFINE f     == stream[NextFrame]
           k     == NextFrame
           parts == Append(fragmented.parts, NextFrame)
           stops == fragmented.kind = "none" \/ PayloadOf(stream, parts) > MaxPayload
<1>1. Protocol!Accept("continuation")
    BY DEF Protocol!Continuation
<1>2. /\ RelayInv /\ status = "open" /\ looping /\ NextFrame \in Nat \ {0}
      /\ NextFrame - 1 = parsed /\ NextFrame = parsed + 1 /\ parsed < Len(stream)
      /\ f \in Frame /\ f.op = "continuation" /\ ~f.rsv1 /\ ~f.rsv /\ f.masked = ExpectedMask
      /\ f.len <= MaxPayload /\ Buffered >= 2
      /\ parsed' = NextFrame /\ parsed' \in 0 .. Len(stream)
      /\ UNCHANGED <<stream, fed>> /\ BytesOf(stream, NextFrame) <= fed
    BY <1>1, ProtocolAccepts
<1>3. StartIsSeen(stream, parsed) /\ fragmented = OpenMessage(stream, parsed)
    BY <1>2 DEF RelayInv
<1>4. fragmented.kind = "none" <=> ~OpenAfter(stream, parsed)
    BY <1>3, NoneIsOpen
<1>5. ASSUME OpenAfter(stream, parsed)
      PROVE  /\ PartsOf(stream, k) = parts
             /\ stream[StartOf(stream, k)].op \in BothLimited
             /\ OpenMessage(stream, k) = IF f.fin THEN NoFragment
                                         ELSE [fragmented EXCEPT !.parts = parts]
             /\ StartIsSeen(stream, k)
             /\ Messages(stream, k) = IF f.fin /\ fragmented.kind = "binary"
                                      THEN Append(Messages(stream, parsed), parts)
                                      ELSE Messages(stream, parsed)
    <2>1. /\ k \in Nat \ {0} /\ stream[k].op = "continuation" /\ StartIsSeen(stream, k - 1)
          /\ OpenAfter(stream, k - 1) /\ fragmented = OpenMessage(stream, k - 1)
          /\ k - 1 = parsed
        BY <1>2, <1>3, <1>5
    <2> HIDE DEF k
    <2>2. /\ PartsOf(stream, k) = Append(fragmented.parts, k)
          /\ fragmented.kind = stream[StartOf(stream, k)].op
          /\ fragmented.kind \in {"text", "binary"}
          /\ OpenMessage(stream, k) = IF stream[k].fin THEN NoFragment
                                      ELSE [fragmented EXCEPT !.parts = Append(fragmented.parts, k)]
          /\ StartIsSeen(stream, k)
          /\ Messages(stream, k) = IF stream[k].fin /\ fragmented.kind = "binary"
                                   THEN Append(Messages(stream, k - 1), Append(fragmented.parts, k))
                                   ELSE Messages(stream, k - 1)
        BY <2>1, ContinuationNext
    <2> QED
        BY <2>1, <2>2 DEF k, BothLimited
<1>6. IF stops
      THEN Protocol!FeedFails
      ELSE /\ fragmented' = IF f.fin THEN NoFragment ELSE [fragmented EXCEPT !.parts = parts]
           /\ messages' = IF f.fin /\ fragmented.kind = "binary" THEN Append(messages, parts)
                          ELSE messages
           /\ UNCHANGED <<out, looping, status>>
    <2>1. /\ Protocol!NextFrame = NextFrame /\ Protocol!NoFragment = NoFragment
          /\ Protocol!PartBytes(parts) = PayloadOf(stream, parts)
        BY SameReading, SameFrames
    <2> QED
        BY <2>1 DEF Protocol!Continuation
<1>7. LegalFrame(stream, NextFrame, ExpectedMask, BothLimited) <=> ~stops
    <2>1. f.op # "control" /\ ~Starts(f) /\ f.op # "reserved"
        BY <1>2 DEF Starts
    <2>2. CASE ~OpenAfter(stream, parsed)
        BY <1>2, <1>4, <2>2 DEF LegalFrame
    <2>3. CASE OpenAfter(stream, parsed)
        <3>1. stops <=> /\ stream[StartOf(stream, NextFrame)].op \in BothLimited
                        /\ PayloadOf(stream, PartsOf(stream, NextFrame)) > MaxPayload
            BY <1>4, <1>5, <2>3
        <3> HIDE DEF stops
        <3> QED
            BY <1>2, <2>1, <2>3, <3>1 DEF LegalFrame
    <2> QED
        BY <2>2, <2>3
<1>8. ~stops => OpenAfter(stream, parsed)
    BY <1>4
<1> HIDE DEF stops, parts
<1>9. CASE stops
    BY <1>2, <1>6, <1>7, <1>9, RelayFails
<1>10. CASE ~stops
    <2>1. /\ fragmented' = OpenMessage(stream, NextFrame) /\ StartIsSeen(stream, NextFrame)
          /\ UNCHANGED <<out, looping, status>>
        BY <1>5, <1>6, <1>8, <1>10
    <2>2. \/ messages' = messages /\ Messages(stream, NextFrame) = Messages(stream, parsed)
          \/ /\ messages' = Append(messages, PartsOf(stream, NextFrame))
             /\ Messages(stream, NextFrame)
                    = Append(Messages(stream, parsed), PartsOf(stream, NextFrame))
        BY <1>5, <1>6, <1>8, <1>10
    <2> QED
        BY <1>1, <1>7, <1>10, <2>1, <2>2, ProtocolGoesOn
<1> QED
    BY <1>9, <1>10

LEMMA ProtocolFinish == ProtocolInv /\ Protocol!Finish => ProtocolInv'
<1> SUFFICES ASSUME ProtocolInv, Protocol!Finish PROVE ProtocolInv'
    OBVIOUS
<1>1. /\ status = "open" /\ ~looping
      /\ status' = IF Buffered = 0 /\ fragmented.kind = "none" THEN "closed" ELSE "cut"
      /\ UNCHANGED <<stream, fed, parsed, fragmented, messages, out, looping>>
    BY SameReading DEF Protocol!Finish
<1>2. ReadInv' /\ Buffered' = Buffered /\ Protocol!Parsed' = Protocol!Parsed
    BY <1>1 DEF ProtocolInv, ReadInv, Buffered, Protocol!Parsed, Protocol!NextFrame,
                Protocol!Buffered
<1>3. RelayInv'
    BY <1>1, <1>2 DEF ProtocolInv, RelayInv, LegalUpto, StartIsSeen, OpenMessage, AllParts
<1> QED
    BY <1>1, <1>2, <1>3 DEF ProtocolInv, FailInv, FinishInv

THEOREM ProtocolInvariant == Protocol!Spec => []ProtocolInv
<1>1. Protocol!Init => ProtocolInv
    BY ProtocolInit
<1>2. ProtocolInv /\ [Protocol!Next]_(Protocol!vars) => ProtocolInv'
    <2> SUFFICES ASSUME ProtocolInv, [Protocol!Next]_(Protocol!vars) PROVE ProtocolInv'
        OBVIOUS
    <2>1. CASE \E n \in 1 .. ChunkMax :
                  fed + n <= Protocol!BytesOf(stream, Len(stream)) /\ Protocol!Feed(n)
        BY <2>1, SameFrames, ProtocolFeeds
    <2>2. CASE Protocol!LoopEnds
        BY <2>2, ProtocolLoopEnds
    <2>3. CASE Protocol!ParseFails
        BY <2>3, ProtocolParseFails
    <2>4. CASE Protocol!Control
        BY <2>4, ProtocolControl
    <2>5. CASE Protocol!Unsupported
        BY <2>5, ProtocolUnsupported
    <2>6. CASE Protocol!DataStart("text") \/ Protocol!DataStart("binary")
        BY <2>6, ProtocolDataStart
    <2>7. CASE Protocol!Continuation
        BY <2>7, ProtocolContinuation
    <2>8. CASE Protocol!Finish
        BY <2>8, ProtocolFinish
    <2>9. CASE UNCHANGED Protocol!vars
        <3>1. Protocol!Parsed' = Protocol!Parsed /\ Buffered' = Buffered
            BY <2>9 DEF Protocol!vars, Protocol!Parsed, Protocol!NextFrame, Protocol!Buffered,
                        Buffered
        <3>2. \A p : FailedAfter(p)' <=> FailedAfter(p)
            BY <2>9 DEF Protocol!vars, FailedAfter, LegalUpto
        <3>3. ReadInv' /\ FinishInv'
            BY <2>9, <3>1 DEF Protocol!vars, ProtocolInv, ReadInv, FinishInv
        <3>4. RelayInv'
            BY <2>9, <3>1 DEF Protocol!vars, ProtocolInv, RelayInv, LegalUpto, StartIsSeen,
                              OpenMessage, AllParts
        <3>5. FailInv'
            BY <2>9, <3>2 DEF Protocol!vars, ProtocolInv, FailInv
        <3> QED
            BY <2>9, <3>3, <3>4, <3>5 DEF Protocol!vars, ProtocolInv
    <2> QED
        BY <2>1, <2>2, <2>3, <2>4, <2>5, <2>6, <2>7, <2>8, <2>9 DEF Protocol!Next
<1> QED
    BY <1>1, <1>2, PTL DEF Protocol!Spec

LEMMA SamePrefixes ==
    /\ Protocol!Whole = Whole
    /\ Protocol!Legal = LegalPrefix(stream, ExpectedMask, BothLimited)
BY SameFrames DEF Protocol!Whole, Whole, Protocol!Legal, BothLimited

\* Between two calls all that has arrived whole was consumed, and was legal.
LEMMA WorkingRelay ==
    ASSUME ProtocolInv, ~looping, status # "failed"
    PROVE  /\ Whole = parsed /\ Whole <= Protocol!Legal
           /\ out = Messages(stream, parsed)
<1>1. /\ ReadInv /\ LegalUpto(stream, parsed, ExpectedMask, BothLimited)
      /\ out \o messages = Messages(stream, parsed) /\ out \in Seq(AllParts)
      /\ messages = <<>> /\ Protocol!Parsed = "incomplete"
    BY DEF ProtocolInv, RelayInv
<1>2. /\ stream \in Seq(Frame) /\ parsed \in 0 .. Len(stream) /\ fed \in Nat
      /\ BytesOf(stream, parsed) <= fed
      /\ parsed = Len(stream) \/ BytesOf(stream, parsed + 1) > fed
    BY <1>1, ProtocolWaits DEF ReadInv
<1>3. Whole = parsed
    BY <1>2, WholeAre DEF Whole
<1>4. Protocol!Legal \in parsed .. Len(stream)
    BY <1>1, <1>2, LegalAre, SamePrefixes
<1>5. out = Messages(stream, parsed)
    BY <1>1, ConcatEmptySeq
<1>6. parsed \in Nat /\ Len(stream) \in Nat
    BY <1>1, NextIs
<1> QED
    BY <1>3, <1>4, <1>5, <1>6

\* The protocol inspector beside a friend inspector that is off is the protocol inspector.
LEMMA RelayIsProtocol == ProtocolSpec => []ProtocolInv
<1>1. RelayStarts => Protocol!Init
    BY DEF RelayStarts
<1>2. [RelaySteps]_relayVars => [Protocol!Next]_(Protocol!vars)
    BY DEF RelaySteps, relayVars
<1> QED
    BY <1>1, <1>2, ProtocolInvariant, PTL DEF ProtocolSpec, Protocol!Spec

\* While the relay lives, what was returned for storing is exactly the messages that have
\* arrived whole, wherever the reads were cut.
THEOREM ProtocolReturns == ProtocolSpec => []ReturnsWhatArrived
<1>1. ProtocolInv => ReturnsWhatArrived
    BY WorkingRelay, SamePrefixes, SameFrames DEF ReturnsWhatArrived, Protocol!ReturnsWhatArrived
<1> QED
    BY <1>1, RelayIsProtocol, PTL

\* feed() ends the relay only at a frame that is not legal there.
THEOREM ProtocolFailsAtIllegal == ProtocolSpec => []FailsOnlyAtIllegal
<1>1. ProtocolInv => FailsOnlyAtIllegal
    <2> SUFFICES ASSUME ProtocolInv, status = "failed" PROVE FailsOnlyAtIllegal
        BY DEF FailsOnlyAtIllegal, Protocol!FailsOnlyAtIllegal
    <2>1. PICK p \in 0 .. Len(stream) : FailedAfter(p)
        BY DEF ProtocolInv, FailInv
    <2>2. stream \in Seq(Frame)
        BY DEF ProtocolInv, ReadInv
    <2>3. Protocol!Legal = p
        BY <2>1, <2>2, LegalAre, SamePrefixes DEF FailedAfter
    <2> QED
        BY <2>1, <2>3, SameFrames DEF FailedAfter, FailsOnlyAtIllegal, Protocol!FailsOnlyAtIllegal
<1> QED
    BY <1>1, RelayIsProtocol, PTL

\* finish() reports a clean end exactly when all that arrived are legal frames of
\* finished messages.
THEOREM ProtocolFinishTells == ProtocolSpec => []FinishTellsCut
<1>1. ProtocolInv => FinishTellsCut
    <2> SUFFICES ASSUME ProtocolInv, status \in {"closed", "cut"} PROVE FinishTellsCut
        BY DEF FinishTellsCut, Protocol!FinishTellsCut
    <2>1. ~looping /\ status # "failed" /\ ReadInv
        BY DEF ProtocolInv
    <2>2. Whole = parsed /\ Whole <= Protocol!Legal
        BY <2>1, WorkingRelay
    <2>3. (status = "closed") <=> (Buffered = 0 /\ fragmented.kind = "none")
        BY DEF ProtocolInv, FinishInv
    <2>4. Buffered = 0 <=> fed = BytesOf(stream, parsed)
        <3>1. Buffered = fed - BytesOf(stream, parsed) /\ BytesOf(stream, parsed) \in Nat
              /\ fed \in Nat
            BY <2>1, NextIs DEF ReadInv
        <3> QED
            BY <3>1
    <2>5. fragmented.kind = "none" <=> ~OpenAfter(stream, parsed)
        BY <2>1, NoneIsOpen DEF ProtocolInv, RelayInv
    <2> QED
        BY <2>2, <2>3, <2>4, <2>5, SamePrefixes, SameFrames
           DEF FinishTellsCut, Protocol!FinishTellsCut
<1> QED
    BY <1>1, RelayIsProtocol, PTL

=============================================================================
