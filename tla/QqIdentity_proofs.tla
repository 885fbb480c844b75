--------------------------- MODULE QqIdentity_proofs ---------------------------
(***************************************************************************)
(* What is proved of QqIdentity: only an account that is shown is          *)
(* confirmed, an undisturbed detection finds every account that it has     *)
(* once read, and a restart forgets nothing.                               *)
(***************************************************************************)
EXTENDS QqIdentity, FiniteSetTheorems, SequenceTheorems, TLAPS

-----------------------------------------------------------------------------
(* Selections                                                               *)

\* The place of i among the members of a set of numbers.
RankIn(set, i) == Cardinality({j \in set : j <= i})

LEMMA RanksCount ==
    ASSUME NEW set \in SUBSET Nat, IsFiniteSet(set)
    PROVE  /\ \A i \in set : RankIn(set, i) \in 1..Cardinality(set)
           /\ \A i, j \in set : i < j => RankIn(set, i) < RankIn(set, j)
<1> DEFINE Upto(i) == {j \in set : j <= i}
<1>1. ASSUME NEW i \in set
      PROVE  IsFiniteSet(Upto(i)) /\ Cardinality(Upto(i)) \in 1..Cardinality(set)
    <2>1. Upto(i) \in SUBSET set
        OBVIOUS
    <2>2. IsFiniteSet(Upto(i)) /\ Cardinality(Upto(i)) <= Cardinality(set)
        BY <2>1, FS_Subset
    <2>3. Upto(i) # {}
        OBVIOUS
    <2>4. Cardinality(Upto(i)) \in Nat /\ Cardinality(Upto(i)) # 0 /\ Cardinality(set) \in Nat
        BY <2>2, <2>3, FS_CardinalityType, FS_EmptySet
    <2> HIDE DEF Upto
    <2> QED
        BY <2>2, <2>4
<1>2. ASSUME NEW i \in set, NEW j \in set, i < j
      PROVE  Cardinality(Upto(i)) < Cardinality(Upto(j))
    <2>0. i \in Nat /\ j \in Nat /\ \A k \in set : k \in Nat /\ (k <= i => k <= j)
        BY <1>2
    <2>1. Upto(i) \in SUBSET Upto(j) /\ Upto(j) # Upto(i)
        <3>1. j \in Upto(j) /\ j \notin Upto(i)
            BY <1>2, <2>0
        <3>2. Upto(i) \in SUBSET Upto(j)
            BY <2>0, Zenon
        <3> QED
            BY <3>1, <3>2
    <2>2. IsFiniteSet(Upto(j)) /\ Cardinality(Upto(j)) \in Nat /\ Cardinality(Upto(i)) \in Nat
        BY <1>1
    <2> HIDE DEF Upto
    <2>3. /\ Cardinality(Upto(i)) <= Cardinality(Upto(j))
          /\ Cardinality(Upto(j)) = Cardinality(Upto(i)) => Upto(j) = Upto(i)
        BY <2>1, <2>2, FS_Subset
    <2> QED
        BY <2>1, <2>2, <2>3
<1> QED
    BY <1>1, <1>2 DEF RankIn

\* Every place up to the number of members is taken.
LEMMA RanksCover ==
    ASSUME NEW set \in SUBSET Nat, IsFiniteSet(set)
    PROVE  \A k \in 1..Cardinality(set) : \E i \in set : RankIn(set, i) = k
<1> DEFINE n    == Cardinality(set)
           rank == [i \in set |-> RankIn(set, i)]
<1>1. n \in Nat /\ IsFiniteSet(1..n) /\ Cardinality(1..n) = n
    BY FS_CardinalityType, FS_Interval
<1>2. rank \in [set -> 1..n]
    BY RanksCount
<1>3. ASSUME NEW i \in set, NEW j \in set, rank[i] = rank[j] PROVE i = j
    <2>1. /\ RankIn(set, i) = RankIn(set, j) /\ RankIn(set, i) \in Nat /\ RankIn(set, j) \in Nat
          /\ i < j => RankIn(set, i) < RankIn(set, j)
          /\ j < i => RankIn(set, j) < RankIn(set, i)
        BY <1>1, <1>3, RanksCount
    <2> QED
        BY <2>1
<1>4. rank \in Injection(set, 1..n)
    BY <1>2, <1>3 DEF Injection, IsInjective
<1>5. rank \in Surjection(set, 1..n)
    BY <1>1, <1>4, FS_Injection
<1> QED
    BY <1>5 DEF Surjection

\* Picks(list, keep, chosen, pick): chosen has the entries of list that are in keep, and
\* the k-th of them is at pick[k].
Picks(list, keep, chosen, pick) ==
    /\ chosen \in Seq(Entry)
    /\ pick \in [1..Len(chosen) -> 1..Len(list)]
    /\ \A k \in 1..Len(chosen) : chosen[k] = list[pick[k]] /\ chosen[k] \in keep
    /\ \A j, k \in 1..Len(chosen) : j < k => pick[j] < pick[k]
    /\ \A i \in 1..Len(list) : list[i] \in keep => \E k \in 1..Len(chosen) : pick[k] = i

LEMMA OnlyPicks ==
    ASSUME NEW list \in Seq(Entry), NEW keep
    PROVE  \E pick : Picks(list, keep, Only(list, keep), pick)
<1> DEFINE taken == {i \in DOMAIN list : list[i] \in keep}
           n     == Cardinality(taken)
           At(k) == CHOOSE i \in taken : RankIn(taken, i) = k
           pick  == [k \in 1..n |-> At(k)]
<1>1. /\ DOMAIN list = 1..Len(list) /\ Len(list) \in Nat
      /\ \A i \in 1..Len(list) : list[i] \in Entry
    BY LenProperties
<1>2. IsFiniteSet(taken) /\ n \in Nat /\ taken \in SUBSET (1..Len(list)) /\ taken \in SUBSET Nat
    <2>1. IsFiniteSet(1..Len(list))
        BY <1>1, FS_Interval
    <2>2. taken \in SUBSET (1..Len(list)) /\ taken \in SUBSET Nat
        BY <1>1
    <2> QED
        BY <2>1, <2>2, FS_Subset, FS_CardinalityType
<1>3. Only(list, keep) = [k \in 1..n |-> list[At(k)]]
    BY DEF Only, RankIn
<1>4. \A i \in taken : i \in 1..Len(list) /\ list[i] \in keep /\ list[i] \in Entry
    BY <1>1
<1>5. \A i \in 1..Len(list) : list[i] \in keep => i \in taken
    BY <1>1
<1>6. /\ \A i \in taken : RankIn(taken, i) \in 1..n
      /\ \A i, j \in taken : i < j => RankIn(taken, i) < RankIn(taken, j)
      /\ \A k \in 1..n : \E i \in taken : RankIn(taken, i) = k
    BY <1>2, RanksCount, RanksCover
<1> HIDE DEF taken, n
<1>7. \A k \in 1..n : At(k) \in taken /\ RankIn(taken, At(k)) = k
    BY <1>6
<1> HIDE DEF At
<1>8. Only(list, keep) \in [1..n -> Entry]
    BY <1>3, <1>4, <1>7
<1>9. Only(list, keep) \in Seq(Entry) /\ Len(Only(list, keep)) = n
    BY <1>2, <1>8
<1>10. pick \in [1..n -> 1..Len(list)]
    BY <1>4, <1>7
<1>11. \A k \in 1..n : Only(list, keep)[k] = list[pick[k]] /\ Only(list, keep)[k] \in keep
    BY <1>3, <1>4, <1>7
<1>12. ASSUME NEW j \in 1..n, NEW k \in 1..n, j < k PROVE pick[j] < pick[k]
    <2>1. /\ At(j) \in taken /\ RankIn(taken, At(j)) = j /\ At(j) \in Nat
          /\ At(k) \in taken /\ RankIn(taken, At(k)) = k /\ At(k) \in Nat
        BY <1>2, <1>7
    <2>2. At(k) < At(j) => k < j
        BY <1>6, <2>1
    <2>3. At(k) # At(j) /\ ~(k < j)
        BY <1>2, <1>12, <2>1
    <2> QED
        BY <2>1, <2>2, <2>3
<1>13. ASSUME NEW i \in taken PROVE \E k \in 1..n : pick[k] = i
    <2> DEFINE k == RankIn(taken, i)
    <2>1. k \in 1..n /\ k \in Nat /\ i \in Nat
        BY <1>2, <1>6
    <2>2. At(k) \in taken /\ RankIn(taken, At(k)) = k /\ At(k) \in Nat
        BY <1>2, <1>7, <2>1
    <2>3. (At(k) < i => k < k) /\ (i < At(k) => k < k)
        BY <1>6, <2>2
    <2>4. At(k) = i
        BY <2>1, <2>2, <2>3
    <2> QED
        BY <2>1, <2>4
<1>14. \A i \in 1..Len(list) : list[i] \in keep => \E k \in 1..n : pick[k] = i
    BY <1>5, <1>13
<1> HIDE DEF pick
<1> QED
    BY <1>9, <1>10, <1>11, <1>12, <1>14 DEF Picks


\* What is left of a list whose first n entries go is the rest of it.
LEMMA OnlyTail ==
    ASSUME NEW list \in Seq(Entry), NEW keep, NEW n \in 0..Len(list),
           \A i \in 1..Len(list) : list[i] \in keep <=> i > n
    PROVE  /\ Len(Only(list, keep)) = Len(list) - n
           /\ \A k \in 1..(Len(list) - n) : Only(list, keep)[k] = list[n + k]
<1> DEFINE taken == {i \in DOMAIN list : list[i] \in keep}
           At(k) == CHOOSE i \in taken : RankIn(taken, i) = k
<1>1. DOMAIN list = 1..Len(list) /\ Len(list) \in Nat /\ n \in Nat
    BY LenProperties
<1>2. taken = (n + 1)..Len(list)
    BY <1>1
<1>3. Only(list, keep) = [k \in 1..Cardinality(taken) |-> list[At(k)]]
    BY DEF Only, RankIn
<1> HIDE DEF taken
<1>4. Cardinality(taken) = Len(list) - n
    <2>1. n + 1 \in Int /\ Len(list) \in Int /\ n <= Len(list)
        BY <1>1
    <2>2. Cardinality((n + 1)..Len(list)) =
              IF n + 1 > Len(list) THEN 0 ELSE Len(list) - (n + 1) + 1
        BY <2>1, FS_Interval
    <2>3. CASE n + 1 > Len(list)
        BY <1>1, <1>2, <2>1, <2>2, <2>3
    <2>4. CASE ~(n + 1 > Len(list))
        BY <1>1, <1>2, <2>1, <2>2, <2>4
    <2> QED
        BY <2>3, <2>4
<1>5. ASSUME NEW i \in taken PROVE RankIn(taken, i) = i - n
    <2>1. {j \in taken : j <= i} = (n + 1)..i
        BY <1>1, <1>2
    <2>2. Cardinality((n + 1)..i) = i - n
        BY <1>1, <1>2, FS_Interval
    <2> QED
        BY <2>1, <2>2 DEF RankIn
<1>6. ASSUME NEW k \in 1..(Len(list) - n) PROVE At(k) = n + k
    <2>1. n + k \in taken /\ (n + k) - n = k
        BY <1>1, <1>2
    <2>2. RankIn(taken, n + k) = k
        BY <1>5, <2>1
    <2>3. At(k) \in taken /\ RankIn(taken, At(k)) = k
        BY <2>1, <2>2
    <2>4. At(k) - n = k /\ At(k) \in Int
        BY <1>1, <1>2, <1>5, <2>3
    <2> HIDE DEF At
    <2> QED
        BY <1>1, <2>4
<1> HIDE DEF At
<1>7. Only(list, keep) = [k \in 1..(Len(list) - n) |-> list[n + k]]
    BY <1>3, <1>4, <1>6
<1>8. Len(list) - n \in Nat
    BY <1>1
<1>9. \A k \in 1..(Len(list) - n) : list[n + k] \in Entry
    BY <1>1, LenProperties
<1> QED
    BY <1>7, <1>8, <1>9

AccountsOf(list) == {list[i].account : i \in 1..Len(list)}

\* A list with every account at most once.
Once(list) == \A i, j \in 1..Len(list) : list[i].account = list[j].account => i = j
Roll == {list \in Seq(Entry) : Once(list)}

LEMMA OnlyFacts ==
    ASSUME NEW list \in Seq(Entry), NEW keep
    PROVE  /\ Only(list, keep) \in Seq(Entry)
           /\ list \in Roll => Only(list, keep) \in Roll
           /\ \A k \in 1..Len(Only(list, keep)) :
                  /\ Only(list, keep)[k] \in keep
                  /\ \E i \in 1..Len(list) : Only(list, keep)[k] = list[i]
           /\ \A i \in 1..Len(list) : list[i] \in keep =>
                  \E k \in 1..Len(Only(list, keep)) : Only(list, keep)[k] = list[i]
           /\ \A j, k \in 1..Len(Only(list, keep)) : j < k =>
                  \E h, i \in 1..Len(list) :
                      h < i /\ Only(list, keep)[j] = list[h] /\ Only(list, keep)[k] = list[i]
<1> DEFINE chosen == Only(list, keep)
<1>1. PICK pick : Picks(list, keep, chosen, pick)
    BY OnlyPicks
<1> HIDE DEF chosen
<1>2. /\ chosen \in Seq(Entry) /\ Len(chosen) \in Nat /\ Len(list) \in Nat
      /\ \A k \in 1..Len(chosen) : pick[k] \in 1..Len(list) /\ chosen[k] = list[pick[k]]
    BY <1>1, LenProperties DEF Picks
<1>3. ASSUME Once(list), NEW j \in 1..Len(chosen), NEW k \in 1..Len(chosen),
             chosen[j].account = chosen[k].account
      PROVE  j = k
    <2>1. pick[j] = pick[k] /\ pick[j] \in Nat
        BY <1>2, <1>3 DEF Once
    <2>2. ~(j < k) /\ ~(k < j)
        BY <1>1, <2>1 DEF Picks
    <2> QED
        BY <1>2, <2>2
<1>4. list \in Roll => chosen \in Roll
    BY <1>2, <1>3 DEF Roll, Once
<1>5. /\ \A k \in 1..Len(chosen) : chosen[k] \in keep
      /\ \A i \in 1..Len(list) : list[i] \in keep => \E k \in 1..Len(chosen) : chosen[k] = list[i]
    BY <1>1, <1>2 DEF Picks
<1>6. \A j, k \in 1..Len(chosen) : j < k =>
          pick[j] < pick[k] /\ chosen[j] = list[pick[j]] /\ chosen[k] = list[pick[k]]
    BY <1>1, <1>2 DEF Picks
<1> QED
    BY <1>2, <1>4, <1>5, <1>6 DEF chosen

LEMMA FirstFacts ==
    ASSUME NEW list \in Seq(Entry), NEW n \in Nat
    PROVE  /\ FirstOf(list, n) \in Seq(Entry)
           /\ Len(FirstOf(list, n)) = IF Len(list) < n THEN Len(list) ELSE n
           /\ \A i \in 1..Len(FirstOf(list, n)) : FirstOf(list, n)[i] = list[i]
           /\ list \in Roll => FirstOf(list, n) \in Roll
           /\ Len(list) <= n => FirstOf(list, n) = list
<1> DEFINE m == IF Len(list) < n THEN Len(list) ELSE n
           first == SubSeq(list, 1, m)
<1>1. /\ Len(list) \in Nat /\ m \in Nat /\ m <= Len(list) /\ m <= n
      /\ \A i \in 1..Len(list) : list[i] \in Entry
    BY LenProperties
<1>2. \A i \in 1..m : list[i] \in Entry
    BY <1>1
<1> HIDE DEF m
<1>3. first \in Seq(Entry) /\ Len(first) = m /\ \A i \in 1..m : first[i] = list[i]
    BY <1>1, <1>2, SubSeqProperties
<1> HIDE DEF first
<1>4. FirstOf(list, n) = first
    BY DEF FirstOf, m, first
<1>5. list \in Roll => first \in Roll
    BY <1>1, <1>3 DEF Roll, Once
<1>6. Len(list) <= n => first = list
    BY <1>1, <1>3, SeqEqual DEF m
<1> QED
    BY <1>3, <1>4, <1>5, <1>6 DEF m


Others(file) == {e \in Entry : \A f \in Range(file) : f.account # e.account}

LEMMA OthersAre ==
    ASSUME NEW file \in Seq(Entry), NEW e
    PROVE  e \in Others(file) <=> e \in Entry /\ e.account \notin AccountsOf(file)
<1>1. DOMAIN file = 1..Len(file)
    BY LenProperties
<1> QED
    BY <1>1 DEF Others, AccountsOf, Range

\* What was read comes first; after it the rest of what is known, in its order.
LEMMA MergedFacts ==
    ASSUME NEW file \in Roll, NEW known \in Roll, NEW list, list = Merged(file, known)
    PROVE  /\ list \in Roll /\ Len(file) <= Len(list)
           /\ \A i \in 1..Len(file) : list[i] = file[i]
           /\ \A k \in (Len(file) + 1)..Len(list) :
                  /\ list[k].account \notin AccountsOf(file)
                  /\ \E i \in 1..Len(known) : list[k] = known[i]
           /\ \A j, k \in (Len(file) + 1)..Len(list) : j < k =>
                  \E h, i \in 1..Len(known) : h < i /\ list[j] = known[h] /\ list[k] = known[i]
           /\ \A i \in 1..Len(known) : known[i].account \notin AccountsOf(file) =>
                  \E k \in (Len(file) + 1)..Len(list) : list[k] = known[i]
<1> DEFINE rest == Only(known, Others(file))
           n    == Len(file)
<1>1. file \in Seq(Entry) /\ known \in Seq(Entry) /\ Once(file) /\ Once(known)
    BY DEF Roll
<1>2. list = file \o rest
    BY DEF Merged, Others
<1>3. rest \in Roll /\ rest \in Seq(Entry)
    BY <1>1, OnlyFacts
<1>4. /\ \A k \in 1..Len(rest) :
             rest[k].account \notin AccountsOf(file) /\ \E i \in 1..Len(known) : rest[k] = known[i]
      /\ \A j, k \in 1..Len(rest) : j < k =>
             \E h, i \in 1..Len(known) : h < i /\ rest[j] = known[h] /\ rest[k] = known[i]
    BY <1>1, OnlyFacts, OthersAre
<1>5. ASSUME NEW i \in 1..Len(known), known[i].account \notin AccountsOf(file)
      PROVE  \E k \in 1..Len(rest) : rest[k] = known[i]
    <2>1. known[i] \in Entry
        BY <1>1, ElementOfSeq
    <2>2. known[i] \in Others(file)
        BY <1>1, <1>5, <2>1, OthersAre
    <2> QED
        BY <1>1, <2>2, OnlyFacts
<1> HIDE DEF rest
<1>6. n \in Nat /\ Len(rest) \in Nat
    BY <1>1, <1>3, LenProperties
<1>7. /\ list \in Seq(Entry) /\ Len(list) = n + Len(rest)
      /\ \A i \in 1..Len(list) : list[i] = IF i <= n THEN file[i] ELSE rest[i - n]
    BY <1>1, <1>2, <1>3, ConcatProperties
<1> HIDE DEF n
<1>8. \A i \in 1..n : i \in 1..Len(list) /\ list[i] = file[i] /\ list[i].account \in AccountsOf(file)
    BY <1>6, <1>7 DEF AccountsOf, n
<1>9. ASSUME NEW k \in (n + 1)..Len(list)
      PROVE  k - n \in 1..Len(rest) /\ list[k] = rest[k - n] /\ k \in 1..Len(list)
    <2>1. k - n \in 1..Len(rest) /\ k \in 1..Len(list) /\ ~(k <= n)
        BY <1>6, <1>7
    <2> QED
        BY <1>7, <2>1
<1>10. ASSUME NEW k \in 1..Len(rest)
       PROVE  n + k \in (n + 1)..Len(list) /\ list[n + k] = rest[k]
    <2>1. n + k \in (n + 1)..Len(list) /\ (n + k) - n = k
        BY <1>6, <1>7
    <2> QED
        BY <1>9, <2>1
<1>11. ASSUME NEW k \in (n + 1)..Len(list)
       PROVE  /\ list[k].account \notin AccountsOf(file)
              /\ \E i \in 1..Len(known) : list[k] = known[i]
    <2>1. PICK r \in 1..Len(rest) : list[k] = rest[r]
        BY <1>9
    <2> QED
        BY <1>4, <2>1
<1>12. Once(list)
    <2> SUFFICES ASSUME NEW i \in 1..Len(list), NEW j \in 1..Len(list),
                        list[i].account = list[j].account
                 PROVE  i = j
        BY DEF Once
    <2>1. \A k \in 1..Len(list) : k \in 1..n \/ k \in (n + 1)..Len(list)
        BY <1>6, <1>7
    <2>2. CASE i \in 1..n /\ j \in 1..n
        BY <1>1, <1>8, <2>2 DEF Once, n
    <2>3. CASE i \in (n + 1)..Len(list) /\ j \in (n + 1)..Len(list)
        <3>1. i - n = j - n
            BY <1>3, <1>9, <2>3 DEF Roll, Once
        <3> QED
            BY <1>6, <1>7, <3>1
    <2>4. CASE i \in 1..n /\ j \in (n + 1)..Len(list)
        BY <1>8, <1>11, <2>4
    <2>5. CASE j \in 1..n /\ i \in (n + 1)..Len(list)
        BY <1>8, <1>11, <2>5
    <2> QED
        BY <2>1, <2>2, <2>3, <2>4, <2>5
<1>13. ASSUME NEW j \in (n + 1)..Len(list), NEW k \in (n + 1)..Len(list), j < k
       PROVE  \E h, i \in 1..Len(known) : h < i /\ list[j] = known[h] /\ list[k] = known[i]
    <2>1. /\ j - n < k - n /\ j - n \in 1..Len(rest) /\ k - n \in 1..Len(rest)
          /\ list[j] = rest[j - n] /\ list[k] = rest[k - n]
        BY <1>6, <1>7, <1>9, <1>13
    <2>2. PICK h \in 1..Len(known), i \in 1..Len(known) :
              h < i /\ rest[j - n] = known[h] /\ rest[k - n] = known[i]
        BY <1>4, <2>1
    <2> QED
        BY <2>1, <2>2
<1>14. \A i \in 1..Len(known) : known[i].account \notin AccountsOf(file) =>
           \E k \in (n + 1)..Len(list) : list[k] = known[i]
    BY <1>5, <1>10
<1> QED
    BY <1>6, <1>7, <1>8, <1>11, <1>12, <1>13, <1>14 DEF Roll, n


\* Remembering the same file again changes nothing.
LEMMA RememberTwice ==
    ASSUME NEW file \in Roll, NEW known \in Roll, NEW n \in Nat, NEW kept,
           kept = FirstOf(Merged(file, known), n)
    PROVE  FirstOf(Merged(file, kept), n) = kept
<1> DEFINE merged == Merged(file, known)
           again  == Merged(file, kept)
           f      == Len(file)
<1>1. /\ merged \in Roll /\ f <= Len(merged)
      /\ \A i \in 1..f : merged[i] = file[i]
      /\ \A k \in (f + 1)..Len(merged) : merged[k].account \notin AccountsOf(file)
    BY MergedFacts
<1>2. merged \in Seq(Entry) /\ file \in Seq(Entry)
    BY <1>1 DEF Roll
<1> HIDE DEF merged
<1>3. f \in Nat /\ Len(merged) \in Nat
    BY <1>2, LenProperties
<1>4. /\ kept \in Seq(Entry) /\ kept \in Roll
      /\ Len(kept) = IF Len(merged) < n THEN Len(merged) ELSE n
      /\ \A i \in 1..Len(kept) : kept[i] = merged[i]
    <2>1. kept = FirstOf(merged, n)
        BY DEF merged
    <2> QED
        BY <1>1, <1>2, <2>1, FirstFacts
<1>5. Len(kept) \in Nat
    BY <1>4, LenProperties
<1>6. /\ again \in Roll /\ f <= Len(again)
      /\ \A i \in 1..f : again[i] = file[i]
    BY <1>4, MergedFacts
<1>7. again \in Seq(Entry) /\ Len(again) \in Nat
    BY <1>6, LenProperties DEF Roll
<1>8. again = file \o Only(kept, Others(file))
    BY DEF Merged, Others
<1> HIDE DEF again
<1>9. /\ FirstOf(again, n) \in Seq(Entry)
      /\ Len(FirstOf(again, n)) = IF Len(again) < n THEN Len(again) ELSE n
      /\ \A i \in 1..Len(FirstOf(again, n)) : FirstOf(again, n)[i] = again[i]
    BY <1>7, FirstFacts
<1>10. CASE n <= f
    <2>1. Len(FirstOf(again, n)) = n /\ Len(kept) = n
        BY <1>1, <1>3, <1>4, <1>6, <1>7, <1>9, <1>10
    <2>2. \A i \in 1..n : i \in 1..f /\ FirstOf(again, n)[i] = file[i] /\ kept[i] = file[i]
        BY <1>1, <1>3, <1>4, <1>6, <1>9, <1>10, <2>1
    <2>3. FirstOf(again, n) = kept
        BY <1>4, <1>9, <2>1, <2>2, SeqEqual
    <2> QED
        BY <2>3 DEF again
<1>11. CASE f < n
    <2> DEFINE rest == Only(kept, Others(file))
    <2>1. f \in 0..Len(kept)
        BY <1>1, <1>3, <1>4, <1>5, <1>11
    <2>2. ASSUME NEW i \in 1..Len(kept) PROVE kept[i] \in Others(file) <=> i > f
        <3>1. kept[i] \in Entry
            BY <1>4, ElementOfSeq
        <3>2. CASE i <= f
            <4>1. kept[i] = file[i] /\ i \in 1..f
                BY <1>1, <1>3, <1>4, <1>5, <3>2
            <4>2. kept[i].account \in AccountsOf(file)
                BY <4>1 DEF AccountsOf
            <4> QED
                BY <1>2, <1>3, <3>2, <4>2, OthersAre
        <3>3. CASE i > f
            <4>1. i \in (f + 1)..Len(merged) /\ kept[i] = merged[i]
                BY <1>3, <1>4, <1>5, <3>3
            <4>2. kept[i].account \notin AccountsOf(file)
                BY <1>1, <4>1
            <4> QED
                BY <1>2, <3>1, <3>3, <4>2, OthersAre
        <3> QED
            BY <1>3, <3>2, <3>3
    <2>3. /\ Len(rest) = Len(kept) - f
          /\ \A k \in 1..(Len(kept) - f) : rest[k] = kept[f + k]
        BY <1>4, <2>1, <2>2, OnlyTail
    <2>4. rest \in Seq(Entry)
        BY <1>4, OnlyFacts
    <2> HIDE DEF rest
    <2>5. /\ Len(again) = f + Len(rest)
          /\ \A i \in 1..(f + Len(rest)) : again[i] = IF i <= f THEN file[i] ELSE rest[i - f]
        BY <1>2, <1>8, <2>4, ConcatProperties DEF rest
    <2>6. Len(again) = Len(kept)
        BY <1>3, <1>5, <2>3, <2>5
    <2>7. ASSUME NEW i \in 1..Len(kept) PROVE again[i] = kept[i]
        <3>1. CASE i <= f
            BY <1>1, <1>3, <1>4, <1>5, <1>6, <3>1
        <3>2. CASE i > f
            <4>1. i - f \in 1..(Len(kept) - f) /\ f + (i - f) = i /\ ~(i <= f)
                BY <1>3, <1>5, <3>2
            <4>2. rest[i - f] = kept[i]
                BY <2>3, <4>1
            <4> QED
                BY <2>3, <2>5, <2>6, <4>1, <4>2
        <3> QED
            BY <1>3, <3>1, <3>2
    <2>8. again = kept
        BY <1>4, <1>7, <2>6, <2>7, SeqEqual
    <2>9. Len(kept) <= n
        BY <1>3, <1>4
    <2>10. FirstOf(kept, n) = kept
        BY <1>4, <2>9, FirstFacts
    <2> QED
        BY <2>8, <2>10 DEF again
<1> QED
    BY <1>3, <1>10, <1>11

-----------------------------------------------------------------------------
(* The inductive invariants                                                 *)

Kept == {list \in Roll : Len(list) <= Cap}

Look == [pc : {"none", "windows", "file", "history", "write", "done"},
         seen : SUBSET Entry, file : Roll, found : Seq(Entry)]

Detection == [pc : {"idle", "first", "second"}, tries : Nat, first : Look, result : Seq(Entry),
              seen : SUBSET Entry, quiet : BOOLEAN]

Typed ==
    /\ windows \in SUBSET Accounts /\ name \in [Accounts -> Names]
    /\ loginFile \in Roll /\ history \in Kept /\ disk \in Kept \cup {Torn}
    /\ look \in [Threads -> Look] /\ detector \in [Detectors -> Detection]
    /\ observed \in [Accounts -> Names \cup {NoName}] /\ lost \in BOOLEAN

\* The mutex of the history is held until the file is written; so the file lags behind
\* only during a write, or after a failed one.  A detection has a look.
DiskInv ==
    /\ \A d \in Detectors : detector[d].pc = "idle" <=> look[d].pc = "none"
    /\ \A t, u \in Threads : look[t].pc = "write" /\ look[u].pc = "write" => t = u
    /\ DiskFollowsMemory

\* Every entry has a nickname that was shown.
Shown(list, seen) == \A i \in 1..Len(list) : \E s \in seen : s.name = list[i].name

\* What a look finds was shown at this look, and what is confirmed at both.
ShownInv ==
    /\ \A t \in Threads :
           IF look[t].pc \in {"windows", "file", "history"}
           THEN look[t].found = Error ELSE Shown(look[t].found, look[t].seen)
    /\ \A d \in Detectors :
           /\ detector[d].pc = "second" => Shown(detector[d].first.found, detector[d].first.seen)
           /\ detector[d].pc # "idle" => detector[d].result = Error
           /\ Shown(detector[d].result, detector[d].first.seen)
           /\ Shown(detector[d].result, detector[d].seen)

Known == {a \in Accounts : observed[a] # NoName}

\* What this helper has read lies before what it loaded from an older file, and as long
\* as there is room nothing of it is forgotten.
KnownInv ==
    /\ IsFiniteSet(Known)
    /\ \A i \in 1..Len(history) : history[i].account \in Known =>
           /\ observed[history[i].account] = history[i].name
           /\ \A j \in 1..i : history[j].account \in Known
    /\ Cardinality(Known) <= Cap => Known \subseteq AccountsOf(history)

\* Quiet: the windows, the login file and the history are those that the looks have seen.
Seen == {EntryOf(a) : a \in windows}
Present == Resolved(Merged(loginFile, history), Seen)
Settled == Remembered(loginFile) = history
Suits(d, list) == Target[d] = Anyone \/ \E i \in 1..Len(list) : list[i].account = Target[d]

Undisturbed(d) ==
    /\ look[d].pc \in {"file", "history"} => look[d].seen = Seen
    /\ look[d].pc = "history" => look[d].file = loginFile
    /\ look[d].pc \in {"write", "done"} => Settled /\ look[d].found = Present
    /\ detector[d].pc = "second" => Settled /\ detector[d].first.found = Present
    /\ detector[d].pc = "idle" => /\ Settled
                                  /\ \/ detector[d].result = Present
                                     \/ detector[d].result = Error /\ ~Suits(d, Present)

QuietInv == \A d \in Detectors : detector[d].quiet => Undisturbed(d)

-----------------------------------------------------------------------------
(* Types                                                                    *)

LEMMA Constants ==
    /\ Cap \in Nat /\ Cap # 0 /\ FileCap \in Nat /\ Torn \notin Seq(Entry) /\ "orphan" \notin Detectors
    /\ Threads = Detectors \cup {"orphan"} /\ NoName \notin Names
    /\ Attempts \in [Detectors -> Nat]
    /\ \A a \in Accounts : NamesOf[a] \subseteq Names
BY IdentityConstants DEF Threads, Names

LEMMA EmptyLists ==
    /\ Error \in Seq(Entry) /\ Error \in Roll /\ Error \in Kept /\ Len(Error) = 0
    /\ Error = <<>>
<1>1. <<>> \in Seq(Entry) /\ Len(<<>>) = 0
    BY EmptySeq
<1> QED
    BY <1>1, Constants DEF Error, Roll, Once, Kept

LEMMA RestTyped == NoLook \in Look /\ NewLook \in Look /\ Resting \in Detection
<1>1. NoLook \in Look
    BY EmptyLists DEF NoLook, Look, Error
<1>2. NewLook \in Look
    BY <1>1 DEF NewLook, Look
<1> QED
    BY <1>1, <1>2, EmptyLists DEF Resting, Detection

LEMMA RollIsList == Roll \subseteq Seq(Entry) /\ Kept \subseteq Roll
BY DEF Roll, Kept

LEMMA EntryTyped ==
    ASSUME Typed, NEW a \in Accounts
    PROVE  EntryOf(a) \in Entry /\ EntryOf(a).account = a /\ EntryOf(a).name = name[a]
BY DEF Typed, EntryOf, Entry

LEMMA TypedInit == Init => Typed
<1> SUFFICES ASSUME Init PROVE Typed
    OBVIOUS
<1>1. name \in [Accounts -> Names] /\ windows \in SUBSET Accounts
    BY DEF Init
<1>2. loginFile \in Roll /\ history \in Kept /\ disk \in Kept
    BY EmptyLists DEF Init
<1>3. look \in [Threads -> Look] /\ detector \in [Detectors -> Detection]
    BY RestTyped DEF Init
<1>4. observed \in [Accounts -> Names \cup {NoName}] /\ lost \in BOOLEAN
    BY DEF Init
<1> QED
    BY <1>1, <1>2, <1>3, <1>4 DEF Typed

LEMMA RememberedKept ==
    ASSUME NEW file \in Roll, NEW known \in Roll
    PROVE  FirstOf(Merged(file, known), Cap) \in Kept
<1>1. Merged(file, known) \in Roll /\ Merged(file, known) \in Seq(Entry)
    BY MergedFacts, RollIsList
<1>2. Len(Merged(file, known)) \in Nat
    BY <1>1, LenProperties
<1> QED
    BY <1>1, <1>2, Constants, FirstFacts DEF Kept

\* A login comes to the front of QQ's file.
LEMMA LogInTyped ==
    ASSUME Typed, NEW a \in Accounts
    PROVE  FirstOf(<<EntryOf(a)>> \o Without(loginFile, a), FileCap) \in Roll
<1> DEFINE file == <<EntryOf(a)>>
<1>1. file \in Seq(Entry) /\ Len(file) = 1 /\ file[1] = EntryOf(a) /\ DOMAIN file = {1}
    BY EntryTyped
<1>2. file \in Roll
    BY <1>1 DEF Roll, Once
<1>3. Range(file) = {EntryOf(a)}
    BY <1>1 DEF Range
<1>4. Without(loginFile, a) = Only(loginFile, Others(file))
    <2>1. \A e : (\A f \in Range(file) : f.account # e.account) <=> e.account # a
        BY <1>3, EntryTyped
    <2>2. Others(file) = {e \in Entry : e.account # a}
        BY <2>1 DEF Others
    <2> QED
        BY <2>2 DEF Without
<1>5. file \o Without(loginFile, a) = Merged(file, loginFile)
    BY <1>4 DEF Merged, Others
<1>6. Merged(file, loginFile) \in Roll
    BY <1>2, MergedFacts DEF Typed
<1> QED
    BY <1>5, <1>6, Constants, FirstFacts, RollIsList


LEMMA LookStepTyped ==
    ASSUME Typed, NEW t \in Threads, LookStep(t) PROVE Typed'
<1> DEFINE l == look[t]
<1>1. l \in Look /\ look \in [Threads -> Look] /\ detector \in [Detectors -> Detection]
    BY DEF Typed
<1>2. ASSUME NEW new \in Look, LookGoes(t, new) PROVE look' \in [Threads -> Look]
    BY <1>1, <1>2 DEF LookGoes
<1>3. ASSUME NEW pc \in {"file", "history", "write", "done"}
      PROVE  [l EXCEPT !.pc = pc] \in Look
    BY <1>1, <1>3 DEF Look
<1>4. ASSUME \/ detector' = detector
             \/ t \in Detectors /\ detector' = [detector EXCEPT ![t].quiet = FALSE]
      PROVE  detector' \in [Detectors -> Detection]
    <2>1. ASSUME NEW d \in Detection PROVE [d EXCEPT !.quiet = FALSE] \in Detection
        BY DEF Detection
    <2>2. CASE t \in Detectors /\ detector' = [detector EXCEPT ![t].quiet = FALSE]
        <3>1. [detector[t] EXCEPT !.quiet = FALSE] \in Detection
            BY <1>1, <2>1, <2>2
        <3> QED
            BY <1>1, <2>2, <3>1
    <2> QED
        BY <1>1, <1>4, <2>2
<1>5. ASSUME LookFails(t) PROVE look' \in [Threads -> Look] /\ detector' \in [Detectors -> Detection]
    <2>1. LookGoes(t, [l EXCEPT !.pc = "done"]) /\ [l EXCEPT !.pc = "done"] \in Look
        BY <1>3, <1>5 DEF LookFails
    <2>2. \/ detector' = detector
          \/ t \in Detectors /\ detector' = [detector EXCEPT ![t].quiet = FALSE]
        BY <1>5 DEF LookFails
    <2> QED
        BY <1>2, <1>4, <2>1, <2>2
<1>6. ASSUME LookOnly, look' \in [Threads -> Look], detector' \in [Detectors -> Detection]
      PROVE  Typed'
    BY <1>6 DEF LookOnly, desktop, Typed
<1>7. CASE SeeWindows(t)
    <2>1. {EntryOf(a) : a \in windows} \in SUBSET Entry
        BY EntryTyped DEF Typed
    <2> DEFINE new == [l EXCEPT !.pc = "file", !.seen = {EntryOf(a) : a \in windows}]
    <2>2. new \in Look
        BY <1>1, <2>1 DEF Look
    <2>3. CASE LookGoes(t, new) /\ UNCHANGED <<detector, fails>>
        BY <1>1, <1>2, <1>6, <1>7, <2>2, <2>3 DEF SeeWindows
    <2>4. CASE LookFails(t)
        BY <1>5, <1>6, <1>7, <2>4 DEF SeeWindows
    <2> QED
        BY <1>7, <2>3, <2>4 DEF SeeWindows
<1>8. CASE ReadLoginFile(t)
    <2> DEFINE new == [l EXCEPT !.pc = "history", !.file = loginFile]
    <2>1. new \in Look
        BY <1>1 DEF Look, Typed
    <2>2. CASE LookGoes(t, new) /\ UNCHANGED <<detector, fails>>
        BY <1>1, <1>2, <1>6, <1>8, <2>1, <2>2 DEF ReadLoginFile
    <2>3. CASE LookFails(t)
        BY <1>5, <1>6, <1>8, <2>3 DEF ReadLoginFile
    <2> QED
        BY <1>8, <2>2, <2>3 DEF ReadLoginFile
<1>9. CASE Remember(t)
    <2> DEFINE file  == l.file
               found == Resolved(Merged(file, history'), l.seen)
    <2>1. file \in Roll /\ history \in Roll /\ history' = FirstOf(Merged(file, history), Cap)
        BY <1>1, <1>9, RollIsList DEF Remember, Remembered, Look, Typed
    <2>2. history' \in Kept
        BY <2>1, RememberedKept
    <2>3. Merged(file, history') \in Seq(Entry)
        BY <2>1, <2>2, MergedFacts, RollIsList
    <2>4. found \in Seq(Entry)
        BY <2>3, OnlyFacts DEF Resolved
    <2>5. \A pc \in {"write", "done"} :
              [l EXCEPT !.pc = pc, !.file = <<>>, !.found = found] \in Look
        BY <1>1, <2>4, EmptyLists DEF Look
    <2>6. \E pc \in {"write", "done"} :
              LookGoes(t, [l EXCEPT !.pc = pc, !.file = <<>>, !.found = found])
        <3>1. LookGoes(t, [l EXCEPT !.pc = IF Changed(file) THEN "write" ELSE "done",
                                    !.file = <<>>, !.found = found])
            BY <1>9 DEF Remember
        <3>2. (IF Changed(file) THEN "write" ELSE "done") \in {"write", "done"}
            OBVIOUS
        <3> QED
            BY <3>1, <3>2
    <2>7. look' \in [Threads -> Look]
        BY <1>2, <2>5, <2>6
    <2>8. observed' \in [Accounts -> Names \cup {NoName}]
        <3>1. observed' = [a \in Accounts |->
                               IF \E e \in Range(file) : e.account = a
                               THEN (CHOOSE e \in Range(file) : e.account = a).name
                               ELSE observed[a]]
            BY <1>9 DEF Remember
        <3>2. \A e \in Range(file) : e.name \in Names
            <4>1. \A e \in Range(file) : e \in Entry
                BY <2>1, RollIsList, LenProperties DEF Range
            <4> QED
                BY <4>1 DEF Entry
        <3> QED
            BY <3>1, <3>2 DEF Typed
    <2>9. detector' \in [Detectors -> Detection]
        <3>1. \A d \in Detectors : /\ detector[d] \in Detection
                                   /\ [detector[d] EXCEPT !.quiet = FALSE] \in Detection
            BY <1>1 DEF Detection
        <3> QED
            BY <1>9, <3>1 DEF Remember, Stale
    <2>10. UNCHANGED <<windows, name, loginFile, disk, lost>>
        BY <1>9 DEF Remember, desktop
    <2> QED
        BY <2>2, <2>7, <2>8, <2>9, <2>10 DEF Typed
<1>10. CASE Persist(t)
    <2>1. look' \in [Threads -> Look]
        BY <1>2, <1>3, <1>10 DEF Persist
    <2>2. disk' \in Kept \cup {Torn} /\ lost' \in BOOLEAN
        BY <1>10 DEF Persist, Typed
    <2> QED
        BY <1>10, <2>1, <2>2 DEF Persist, desktop, Typed
<1> QED
    BY <1>7, <1>8, <1>9, <1>10 DEF LookStep

LEMMA DetectionTyped ==
    ASSUME Typed, NEW d \in Detectors, NEW tries \in Nat
    PROVE  /\ FirstLook(d, tries) => look' \in [Threads -> Look] /\ detector' \in [Detectors -> Detection]
           /\ AttemptFails(d) => look' \in [Threads -> Look] /\ detector' \in [Detectors -> Detection]
<1>1. look \in [Threads -> Look] /\ detector \in [Detectors -> Detection] /\ d \in Threads
    BY Constants DEF Typed
<1>2. ASSUME NEW n \in Nat, FirstLook(d, n)
      PROVE  look' \in [Threads -> Look] /\ detector' \in [Detectors -> Detection]
    <2> DEFINE new == [Resting EXCEPT !.pc = "first", !.tries = n, !.quiet = NothingStale]
    <2>1. NothingStale \in BOOLEAN
        BY DEF NothingStale
    <2>2. new \in Detection
        BY <2>1, RestTyped DEF Detection
    <2>3. detector' = [detector EXCEPT ![d] = new] /\ look' = [look EXCEPT ![d] = NewLook]
        BY <1>2 DEF FirstLook, LookGoes
    <2> QED
        BY <1>1, <2>2, <2>3, RestTyped
<1>3. ASSUME AttemptFails(d)
      PROVE  look' \in [Threads -> Look] /\ detector' \in [Detectors -> Detection]
    <2>1. detector[d].tries + 1 \in Nat
        BY <1>1 DEF Detection
    <2>2. CASE detector[d].tries < Attempts[d]
        BY <1>2, <1>3, <2>1, <2>2 DEF AttemptFails
    <2>3. CASE ~(detector[d].tries < Attempts[d])
        <3> DEFINE new == [Resting EXCEPT !.quiet = detector[d].quiet]
        <3>1. new \in Detection
            BY <1>1, RestTyped DEF Detection
        <3>2. detector' = [detector EXCEPT ![d] = new] /\ look' = [look EXCEPT ![d] = NoLook]
            BY <1>3, <2>3 DEF AttemptFails, LookGoes
        <3> QED
            BY <1>1, <3>1, <3>2, RestTyped
    <2> QED
        BY <2>2, <2>3
<1> QED
    BY <1>2, <1>3


LEMMA DetectorTyped ==
    ASSUME Typed, NEW d \in Detectors, Detect(d) \/ DetectorStep(d) \/ TimeOut(d)
    PROVE  Typed'
<1>1. /\ look \in [Threads -> Look] /\ detector \in [Detectors -> Detection]
      /\ d \in Threads /\ "orphan" \in Threads
    BY Constants DEF Typed
<1>2. UNCHANGED <<windows, name, loginFile, history, disk, observed, lost>>
    BY DEF Detect, DetectorStep, SecondLook, Confirm, TimeOut, DetectorOnly, desktop
<1>3. SUFFICES look' \in [Threads -> Look] /\ detector' \in [Detectors -> Detection]
    BY <1>2 DEF Typed
<1>4. CASE Detect(d)
    BY <1>4, DetectionTyped DEF Detect
<1>5. CASE SecondLook(d)
    <2> DEFINE new == [detector[d] EXCEPT !.pc = "second", !.first = look[d]]
    <2>1. new \in Detection
        BY <1>1 DEF Detection
    <2>2. CASE look[d].found = Error
        BY <1>5, <2>2, DetectionTyped DEF SecondLook
    <2>3. CASE look[d].found # Error
        <3>1. /\ detector' = [detector EXCEPT ![d].pc = "second", ![d].first = look[d]]
              /\ look' = [look EXCEPT ![d] = NewLook]
            BY <1>5, <2>3 DEF SecondLook, LookGoes
        <3>2. detector' = [detector EXCEPT ![d] = new]
            BY <3>1
        <3> QED
            BY <1>1, <2>1, <3>1, <3>2, RestTyped
    <2> QED
        BY <2>2, <2>3
<1>6. CASE Confirm(d)
    <2> DEFINE new == [detector[d] EXCEPT !.pc = "idle", !.result = look[d].found,
                                          !.seen = look[d].seen]
    <2>1. new \in Detection
        BY <1>1 DEF Detection, Look
    <2>2. CASE ~Confirmed(d)
        BY <1>6, <2>2, DetectionTyped DEF Confirm
    <2>3. CASE Confirmed(d)
        <3>1. /\ detector' = [detector EXCEPT ![d].pc = "idle", ![d].result = look[d].found,
                                              ![d].seen = look[d].seen]
              /\ look' = [look EXCEPT ![d] = NoLook]
            BY <1>6, <2>3 DEF Confirm, LookGoes
        <3>2. detector' = [detector EXCEPT ![d] = new]
            BY <3>1
        <3> QED
            BY <1>1, <2>1, <3>1, <3>2, RestTyped
    <2> QED
        BY <2>2, <2>3
<1>7. CASE TimeOut(d)
    <2> DEFINE again == detector[d].tries < Attempts[d]
               retry == [Resting EXCEPT !.pc = "first", !.tries = detector[d].tries + 1]
    <2>1. detector[d].tries + 1 \in Nat
        BY <1>1 DEF Detection
    <2>2. retry \in Detection
        BY <2>1, RestTyped DEF Detection
    <2>3. /\ look' = [look EXCEPT !["orphan"] = look[d], ![d] = IF again THEN NewLook ELSE NoLook]
          /\ detector' = [detector EXCEPT ![d] = IF again THEN retry ELSE Resting]
        BY <1>7 DEF TimeOut
    <2> HIDE DEF again, retry
    <2>4. (IF again THEN NewLook ELSE NoLook) \in Look /\ (IF again THEN retry ELSE Resting) \in Detection
        BY <2>2, RestTyped
    <2> QED
        BY <1>1, <2>3, <2>4
<1> QED
    BY <1>4, <1>5, <1>6, <1>7 DEF DetectorStep

LEMMA DesktopTyped ==
    ASSUME Typed, NEW a \in Accounts, NEW n \in NamesOf[a], LogIn(a) \/ LogOut(a) \/ Rename(a, n)
    PROVE  Typed'
<1>1. UNCHANGED <<history, disk, look, observed, lost>> /\ detector' = Disturbed
    BY DEF LogIn, LogOut, Rename, Change
<1>2. detector' \in [Detectors -> Detection]
    <2>1. \A d \in Detectors : [detector[d] EXCEPT !.quiet = FALSE] \in Detection
        BY DEF Typed, Detection
    <2> QED
        BY <1>1, <2>1 DEF Disturbed
<1>3. n \in Names
    BY Constants
<1>4. windows' \in SUBSET Accounts /\ name' \in [Accounts -> Names]
    BY <1>3 DEF LogIn, LogOut, Rename, Typed
<1>5. loginFile' \in Roll
    BY LogInTyped DEF LogIn, LogOut, Rename, Typed
<1> QED
    BY <1>1, <1>2, <1>4, <1>5 DEF Typed

LEMMA LoadedKept == ASSUME NEW file \in Kept \cup {Torn} PROVE Loaded(file) \in Kept
<1>1. CASE file \in Kept
    <2>1. file \in Seq(Entry) /\ file \in Roll /\ Len(file) <= Cap
        BY <1>1, RollIsList DEF Kept
    <2>2. FirstOf(file, Cap) = file
        BY <2>1, Constants, FirstFacts
    <2> QED
        BY <1>1, <2>2, EmptyLists DEF Loaded
<1> QED
    BY <1>1, EmptyLists DEF Loaded

LEMMA RestartTyped == ASSUME Typed, Restart PROVE Typed'
<1>1. disk' \in Kept \cup {Torn}
    BY DEF Restart, Typed
<1>2. history' \in Kept
    BY <1>1, LoadedKept DEF Restart
<1>3. look' \in [Threads -> Look] /\ detector' \in [Detectors -> Detection]
    BY RestTyped DEF Restart
<1>4. observed' \in [Accounts -> Names \cup {NoName}] /\ lost' \in BOOLEAN
    BY DEF Restart, Typed
<1>5. UNCHANGED <<windows, name, loginFile>>
    BY DEF Restart, desktop
<1> QED
    BY <1>1, <1>2, <1>3, <1>4, <1>5 DEF Typed

LEMMA TypedNext == Typed /\ [Next]_vars => Typed'
<1> SUFFICES ASSUME Typed, [Next]_vars PROVE Typed'
    OBVIOUS
<1>1. CASE UNCHANGED vars
    BY <1>1 DEF vars, desktop, Typed
<1>2. CASE OrphanEnds
    <2>1. look' = [look EXCEPT !["orphan"] = NoLook]
        BY <1>2 DEF OrphanEnds, LookGoes
    <2>2. look' \in [Threads -> Look]
        BY <2>1, RestTyped DEF Typed
    <2> QED
        BY <1>2, <2>2 DEF OrphanEnds, LookOnly, desktop, Typed
<1>3. CASE \E t \in Threads : LookStep(t)
    BY <1>3, LookStepTyped
<1>4. CASE \E d \in Detectors : Detect(d) \/ DetectorStep(d) \/ TimeOut(d)
    BY <1>4, DetectorTyped
<1>5. CASE \E a \in Accounts : LogIn(a) \/ LogOut(a) \/ \E n \in NamesOf[a] : Rename(a, n)
    <2>1. PICK a \in Accounts : LogIn(a) \/ LogOut(a) \/ \E n \in NamesOf[a] : Rename(a, n)
        BY <1>5
    <2>2. NamesOf[a] # {}
        BY IdentityConstants
    <2> QED
        BY <2>1, <2>2, DesktopTyped
<1>6. CASE Restart
    BY <1>6, RestartTyped
<1> QED
    BY <1>1, <1>2, <1>3, <1>4, <1>5, <1>6 DEF Next

-----------------------------------------------------------------------------
(* What the steps do                                                        *)

LEMMA LookChanges ==
    ASSUME Typed, NEW t \in Threads, NEW new, LookGoes(t, new)
    PROVE  look'[t] = new /\ \A u \in Threads \ {t} : look'[u] = look[u]
BY DEF Typed, LookGoes

LEMMA LookFailing ==
    ASSUME Typed, NEW t \in Threads, LookFails(t)
    PROVE  /\ look'[t].pc = "done" /\ look'[t].found = look[t].found /\ look'[t].seen = look[t].seen
           /\ look'[t].file = look[t].file
           /\ \A u \in Threads \ {t} : look'[u] = look[u]
           /\ \A d \in Detectors : /\ d # t => detector'[d] = detector[d]
                                   /\ d = t => detector'[d] = [detector[d] EXCEPT !.quiet = FALSE]
<1>1. look'[t] = [look[t] EXCEPT !.pc = "done"] /\ \A u \in Threads \ {t} : look'[u] = look[u]
    BY LookChanges DEF LookFails
<1>2. look[t] \in Look
    BY DEF Typed
<1>3. \A d \in Detectors : /\ d # t => detector'[d] = detector[d]
                           /\ d = t => detector'[d] = [detector[d] EXCEPT !.quiet = FALSE]
    BY DEF LookFails, Typed
<1> QED
    BY <1>1, <1>2, <1>3 DEF Look

\* A step of a look before it reaches the history.
LEMMA ReadingSteps ==
    ASSUME Typed, NEW t \in Threads, SeeWindows(t) \/ ReadLoginFile(t)
    PROVE  /\ look[t].pc \in {"windows", "file"} /\ look'[t].found = look[t].found
           /\ \/ /\ look'[t].pc \in {"file", "history"} /\ UNCHANGED detector
                 /\ look'[t].pc = "file" => look'[t].seen = Seen
                 /\ look'[t].pc = "history" => /\ look'[t].seen = look[t].seen
                                               /\ look'[t].file = loginFile
                                               /\ look[t].pc = "file"
              \/ /\ look'[t].pc = "done" /\ look'[t].seen = look[t].seen
                 /\ \A d \in Detectors :
                        /\ d # t => detector'[d] = detector[d]
                        /\ d = t => detector'[d] = [detector[d] EXCEPT !.quiet = FALSE]
           /\ \A u \in Threads \ {t} : look'[u] = look[u]
           /\ UNCHANGED <<desktop, history, disk, observed, lost>>
<1>1. look[t] \in Look
    BY DEF Typed
<1>2. CASE SeeWindows(t)
    <2>1. look[t].pc = "windows" /\ UNCHANGED <<desktop, history, disk, observed, lost>>
        BY <1>2 DEF SeeWindows, LookOnly
    <2> DEFINE new == [look[t] EXCEPT !.pc = "file", !.seen = Seen]
    <2>2. CASE LookGoes(t, new) /\ UNCHANGED detector
        <3>1. look'[t] = new /\ \A u \in Threads \ {t} : look'[u] = look[u]
            BY <2>2, LookChanges
        <3>2. new.pc = "file" /\ new.seen = Seen /\ new.found = look[t].found
            BY <1>1 DEF Look
        <3> HIDE DEF new
        <3> QED
            BY <2>1, <2>2, <3>1, <3>2
    <2>3. CASE LookFails(t)
        BY <2>1, <2>3, LookFailing
    <2> QED
        BY <1>2, <2>2, <2>3 DEF SeeWindows, Seen
<1>3. CASE ReadLoginFile(t)
    <2>1. look[t].pc = "file" /\ UNCHANGED <<desktop, history, disk, observed, lost>>
        BY <1>3 DEF ReadLoginFile, LookOnly
    <2> DEFINE new == [look[t] EXCEPT !.pc = "history", !.file = loginFile]
    <2>2. CASE LookGoes(t, new) /\ UNCHANGED detector
        <3>1. look'[t] = new /\ \A u \in Threads \ {t} : look'[u] = look[u]
            BY <2>2, LookChanges
        <3>2. /\ new.pc = "history" /\ new.seen = look[t].seen /\ new.found = look[t].found
              /\ new.file = loginFile
            BY <1>1 DEF Look
        <3> HIDE DEF new
        <3> QED
            BY <2>1, <2>2, <3>1, <3>2
    <2>3. CASE LookFails(t)
        BY <2>1, <2>3, LookFailing
    <2> QED
        BY <1>3, <2>2, <2>3 DEF ReadLoginFile
<1> QED
    BY <1>2, <1>3

LEMMA RememberSteps ==
    ASSUME Typed, NEW t \in Threads, Remember(t)
    PROVE  /\ look[t].pc = "history" /\ \A u \in Threads : look[u].pc # "write"
           /\ history' = Remembered(look[t].file)
           /\ look'[t].pc = IF history' # history THEN "write" ELSE "done"
           /\ look'[t].seen = look[t].seen /\ look'[t].file = <<>>
           /\ look'[t].found = Resolved(Merged(look[t].file, history'), look[t].seen)
           /\ \A u \in Threads \ {t} : look'[u] = look[u]
           /\ \A d \in Detectors : detector'[d] = IF d # t /\ look[t].file # loginFile
                                                  THEN [detector[d] EXCEPT !.quiet = FALSE]
                                                  ELSE detector[d]
           /\ UNCHANGED <<desktop, disk, lost>>
<1> DEFINE found == Resolved(Merged(look[t].file, history'), look[t].seen)
           new   == [look[t] EXCEPT !.pc = IF Changed(look[t].file) THEN "write" ELSE "done",
                                    !.file = <<>>, !.found = found]
<1>1. look'[t] = new /\ \A u \in Threads \ {t} : look'[u] = look[u]
    <2>1. LookGoes(t, new)
        BY DEF Remember
    <2> QED
        BY <2>1, LookChanges
<1>2. look[t] \in Look
    BY DEF Typed
<1>3. /\ new.pc = IF Changed(look[t].file) THEN "write" ELSE "done"
      /\ new.seen = look[t].seen /\ new.file = <<>> /\ new.found = found
    BY <1>2 DEF Look
<1> HIDE DEF new
<1>4. /\ look[t].pc = "history" /\ history' = Remembered(look[t].file)
      /\ \A u \in Threads : look[u].pc # "write"
      /\ UNCHANGED <<desktop, disk, lost>> /\ detector' = Stale(t)
    BY DEF Remember
<1>5. Changed(look[t].file) <=> history' # history
    BY <1>4 DEF Changed
<1> QED
    BY <1>1, <1>3, <1>4, <1>5 DEF Stale

LEMMA PersistSteps ==
    ASSUME Typed, NEW t \in Threads, Persist(t)
    PROVE  /\ look[t].pc = "write" /\ look'[t].pc = "done"
           /\ look'[t].found = look[t].found /\ look'[t].seen = look[t].seen
           /\ \A u \in Threads \ {t} : look'[u] = look[u]
           /\ (disk' = history /\ ~lost') \/ lost'
           /\ UNCHANGED <<desktop, history, detector, observed>>
<1>1. look'[t] = [look[t] EXCEPT !.pc = "done"] /\ \A u \in Threads \ {t} : look'[u] = look[u]
    BY LookChanges DEF Persist
<1>2. look[t] \in Look
    BY DEF Typed
<1> QED
    BY <1>1, <1>2 DEF Persist, Look


\* A detection begins again or gives up.
Fresh(d) ==
    /\ detector'[d].result = Error /\ detector'[d].pc \in {"first", "idle"}
    /\ look'[d] = IF detector'[d].pc = "idle" THEN NoLook ELSE NewLook
    /\ detector'[d].pc = "idle" => detector'[d].quiet = detector[d].quiet \/ ~detector'[d].quiet

Apart(d) ==
    /\ \A u \in Threads \ {d} : look'[u] = look[u]
    /\ \A e \in Detectors \ {d} : detector'[e] = detector[e]

LEMMA FirstLookStep ==
    ASSUME Typed, NEW d \in Detectors, NEW n, FirstLook(d, n)
    PROVE  Fresh(d) /\ Apart(d) /\ detector'[d].pc = "first"
<1> DEFINE new == [Resting EXCEPT !.pc = "first", !.tries = n, !.quiet = NothingStale]
<1>1. /\ detector' = [detector EXCEPT ![d] = new] /\ look' = [look EXCEPT ![d] = NewLook]
    BY DEF FirstLook, LookGoes
<1>2. new.result = Error /\ new.pc = "first"
    BY DEF Resting
<1> HIDE DEF new
<1> QED
    BY <1>1, <1>2, Constants DEF Typed, Fresh, Apart

LEMMA AttemptStep ==
    ASSUME Typed, NEW d \in Detectors, AttemptFails(d) PROVE Fresh(d) /\ Apart(d)
<1>1. CASE detector[d].tries < Attempts[d]
    BY <1>1, FirstLookStep DEF AttemptFails
<1>2. CASE ~(detector[d].tries < Attempts[d])
    <2> DEFINE new == [Resting EXCEPT !.quiet = detector[d].quiet]
    <2>1. /\ detector' = [detector EXCEPT ![d] = new] /\ look' = [look EXCEPT ![d] = NoLook]
        BY <1>2 DEF AttemptFails, LookGoes
    <2>2. new.result = Error /\ new.pc = "idle" /\ new.quiet = detector[d].quiet
        BY DEF Resting
    <2> HIDE DEF new
    <2> QED
        BY <2>1, <2>2, Constants DEF Typed, Fresh, Apart
<1> QED
    BY <1>1, <1>2

SecondLookStep(d) ==
    /\ Apart(d) /\ detector[d].pc = "first" /\ look[d].pc = "done"
    /\ \/ look[d].found = Error /\ Fresh(d)
       \/ /\ look[d].found # Error /\ look'[d] = NewLook
          /\ detector'[d].pc = "second" /\ detector'[d].first = look[d]
          /\ detector'[d].result = detector[d].result /\ detector'[d].seen = detector[d].seen
          /\ detector'[d].quiet = detector[d].quiet

ConfirmStep(d) ==
    /\ Apart(d) /\ detector[d].pc = "second" /\ look[d].pc = "done"
    /\ \/ ~Confirmed(d) /\ Fresh(d)
       \/ /\ Confirmed(d) /\ look'[d] = NoLook
          /\ detector'[d].pc = "idle" /\ detector'[d].first = detector[d].first
          /\ detector'[d].result = look[d].found /\ detector'[d].seen = look[d].seen
          /\ detector'[d].quiet = detector[d].quiet

TimeOutStep(d) ==
    /\ detector[d].pc \in {"first", "second"} /\ look["orphan"].pc = "none"
    /\ look'["orphan"] = look[d] /\ Fresh(d) /\ ~detector'[d].quiet
    /\ \A e \in Detectors \ {d} : look'[e] = look[e] /\ detector'[e] = detector[e]

LEMMA DetectorSteps ==
    ASSUME Typed, NEW d \in Detectors, Detect(d) \/ DetectorStep(d) \/ TimeOut(d)
    PROVE  /\ UNCHANGED <<desktop, history, disk, observed, lost>>
           /\ \/ Apart(d) /\ Fresh(d) /\ detector[d].pc = "idle" /\ detector'[d].pc = "first"
              \/ SecondLookStep(d) \/ ConfirmStep(d) \/ TimeOutStep(d)
<1>1. /\ look \in [Threads -> Look] /\ detector \in [Detectors -> Detection]
      /\ d \in Threads /\ "orphan" \in Threads /\ d # "orphan"
    BY Constants DEF Typed
<1>2. UNCHANGED <<desktop, history, disk, observed, lost>>
    BY DEF Detect, DetectorStep, SecondLook, Confirm, TimeOut, DetectorOnly
<1>3. CASE Detect(d)
    BY <1>2, <1>3, FirstLookStep DEF Detect
<1>4. CASE SecondLook(d)
    <2>1. detector[d].pc = "first" /\ look[d].pc = "done"
        BY <1>4 DEF SecondLook
    <2>2. CASE look[d].found = Error
        BY <1>2, <1>4, <2>1, <2>2, AttemptStep DEF SecondLook, SecondLookStep
    <2>3. CASE look[d].found # Error
        <3> DEFINE new == [detector[d] EXCEPT !.pc = "second", !.first = look[d]]
        <3>1. /\ detector' = [detector EXCEPT ![d].pc = "second", ![d].first = look[d]]
              /\ look' = [look EXCEPT ![d] = NewLook]
            BY <1>4, <2>3 DEF SecondLook, LookGoes
        <3>2. detector' = [detector EXCEPT ![d] = new]
            BY <3>1
        <3>3. /\ new.pc = "second" /\ new.first = look[d] /\ new.quiet = detector[d].quiet
              /\ new.result = detector[d].result /\ new.seen = detector[d].seen
            BY <1>1 DEF Detection
        <3> HIDE DEF new
        <3>4. Apart(d) /\ detector'[d] = new /\ look'[d] = NewLook
            BY <1>1, <3>1, <3>2 DEF Apart
        <3> QED
            BY <1>2, <2>1, <2>3, <3>3, <3>4 DEF SecondLookStep
    <2> QED
        BY <2>2, <2>3
<1>5. CASE Confirm(d)
    <2>1. detector[d].pc = "second" /\ look[d].pc = "done"
        BY <1>5 DEF Confirm
    <2>2. CASE ~Confirmed(d)
        BY <1>2, <1>5, <2>1, <2>2, AttemptStep DEF Confirm, ConfirmStep
    <2>3. CASE Confirmed(d)
        <3> DEFINE new == [detector[d] EXCEPT !.pc = "idle", !.result = look[d].found,
                                              !.seen = look[d].seen]
        <3>1. /\ detector' = [detector EXCEPT ![d].pc = "idle", ![d].result = look[d].found,
                                              ![d].seen = look[d].seen]
              /\ look' = [look EXCEPT ![d] = NoLook]
            BY <1>5, <2>3 DEF Confirm, LookGoes
        <3>2. detector' = [detector EXCEPT ![d] = new]
            BY <3>1
        <3>3. /\ new.pc = "idle" /\ new.result = look[d].found /\ new.quiet = detector[d].quiet
              /\ new.first = detector[d].first /\ new.seen = look[d].seen
            BY <1>1 DEF Detection
        <3> HIDE DEF new
        <3>4. Apart(d) /\ detector'[d] = new /\ look'[d] = NoLook
            BY <1>1, <3>1, <3>2 DEF Apart
        <3> QED
            BY <1>2, <2>1, <2>3, <3>3, <3>4 DEF ConfirmStep
    <2> QED
        BY <2>2, <2>3
<1>6. CASE TimeOut(d)
    <2> DEFINE again == detector[d].tries < Attempts[d]
               retry == [Resting EXCEPT !.pc = "first", !.tries = detector[d].tries + 1]
    <2>1. /\ look' = [look EXCEPT !["orphan"] = look[d], ![d] = IF again THEN NewLook ELSE NoLook]
          /\ detector' = [detector EXCEPT ![d] = IF again THEN retry ELSE Resting]
          /\ detector[d].pc \in {"first", "second"} /\ look["orphan"].pc = "none"
        BY <1>6 DEF TimeOut
    <2>2. /\ retry.result = Error /\ retry.pc = "first" /\ ~retry.quiet
          /\ Resting.result = Error /\ Resting.pc = "idle" /\ ~Resting.quiet
        BY DEF Resting
    <2> HIDE DEF again, retry
    <2>3. /\ look'["orphan"] = look[d] /\ look'[d] = IF again THEN NewLook ELSE NoLook
          /\ detector'[d] = IF again THEN retry ELSE Resting
          /\ \A e \in Detectors \ {d} : look'[e] = look[e] /\ detector'[e] = detector[e]
        <3>1. \A e \in Detectors : e \in Threads /\ e # "orphan"
            BY Constants
        <3> QED
            BY <1>1, <2>1, <3>1
    <2>4. Fresh(d) /\ ~detector'[d].quiet
        BY <2>2, <2>3 DEF Fresh
    <2> QED
        BY <1>2, <2>1, <2>3, <2>4 DEF TimeOutStep
<1> QED
    BY <1>3, <1>4, <1>5, <1>6 DEF DetectorStep


LEMMA OrphanSteps ==
    ASSUME Typed, OrphanEnds
    PROVE  /\ look["orphan"].pc = "done" /\ look'["orphan"] = NoLook
           /\ \A u \in Threads \ {"orphan"} : look'[u] = look[u]
           /\ UNCHANGED <<desktop, history, disk, observed, lost, detector>>
<1>1. look'["orphan"] = NoLook /\ \A u \in Threads \ {"orphan"} : look'[u] = look[u]
    BY Constants, LookChanges DEF OrphanEnds
<1> QED
    BY <1>1 DEF OrphanEnds, LookOnly

LEMMA StillDetects ==
    ASSUME Typed, NEW d \in Detectors, NEW f, f = [detector[d] EXCEPT !.quiet = FALSE]
    PROVE  /\ ~f.quiet /\ f.pc = detector[d].pc /\ f.first = detector[d].first
           /\ f.result = detector[d].result /\ f.seen = detector[d].seen
BY DEF Typed, Detection

LEMMA DesktopSteps ==
    ASSUME Typed, NEW a \in Accounts, NEW n, LogIn(a) \/ LogOut(a) \/ Rename(a, n)
    PROVE  /\ UNCHANGED <<history, disk, look, observed, lost>>
           /\ \A d \in Detectors : /\ ~detector'[d].quiet
                                   /\ detector'[d].pc = detector[d].pc
                                   /\ detector'[d].first = detector[d].first
                                   /\ detector'[d].result = detector[d].result
                                   /\ detector'[d].seen = detector[d].seen
<1>1. UNCHANGED <<history, disk, look, observed, lost>> /\ detector' = Disturbed
    BY DEF LogIn, LogOut, Rename, Change
<1>2. \A d \in Detectors : detector'[d] = [detector[d] EXCEPT !.quiet = FALSE]
    BY <1>1 DEF Disturbed
<1> QED
    BY <1>1, <1>2, StillDetects

LEMMA RestStates ==
    /\ NoLook.pc = "none" /\ NewLook.pc = "windows" /\ NoLook.found = Error /\ NewLook.found = Error
    /\ Resting.pc = "idle" /\ Resting.result = Error /\ ~Resting.quiet
BY DEF NoLook, NewLook, Resting

LEMMA RestartSteps ==
    ASSUME Typed, Restart
    PROVE  /\ \A t \in Threads : look'[t] = NoLook
           /\ \A d \in Detectors : detector'[d] = Resting
           /\ UNCHANGED desktop /\ history' = Loaded(disk') /\ lost' = (disk' = Torn)
           /\ \/ \E t \in Threads : look[t].pc = "write"
              \/ disk' = disk
           /\ observed' = IF lost \/ \E t \in Threads : look[t].pc = "write"
                          THEN [a \in Accounts |-> NoName] ELSE observed
BY DEF Restart

-----------------------------------------------------------------------------
(* The file of the history                                                  *)

LEMMA DiskInit == Init => DiskInv
<1> SUFFICES ASSUME Init PROVE DiskInv
    OBVIOUS
<1>1. \A t \in Threads : look[t].pc = "none"
    BY RestStates DEF Init
<1>2. \A d \in Detectors : detector[d].pc = "idle" /\ d \in Threads
    BY RestStates, Constants DEF Init
<1> QED
    BY <1>1, <1>2 DEF DiskInv, DiskFollowsMemory, Init

LEMMA DiskNext == Typed /\ DiskInv /\ [Next]_vars => DiskInv'
<1> SUFFICES ASSUME Typed, DiskInv, [Next]_vars PROVE DiskInv'
    OBVIOUS
<1>0. \A d \in Detectors : d \in Threads /\ d # "orphan" /\ detector[d] \in Detection
    BY Constants DEF Typed
<1>1. CASE UNCHANGED vars
    BY <1>1 DEF vars, DiskInv, DiskFollowsMemory
<1>2. ASSUME NEW t \in Threads, SeeWindows(t) \/ ReadLoginFile(t) PROVE DiskInv'
    <2>1. /\ look[t].pc \in {"windows", "file"} /\ look'[t].pc \in {"file", "history", "done"}
          /\ \A u \in Threads \ {t} : look'[u] = look[u]
          /\ UNCHANGED <<history, disk, lost>>
        BY <1>2, ReadingSteps
    <2>2. \A d \in Detectors : detector'[d].pc = detector[d].pc
        <3>1. \A d \in Detectors : \/ detector'[d] = detector[d]
                                   \/ detector'[d] = [detector[d] EXCEPT !.quiet = FALSE]
            BY <1>2, ReadingSteps
        <3> QED
            BY <3>1, StillDetects
    <2> QED
        BY <1>0, <2>1, <2>2 DEF DiskInv, DiskFollowsMemory
<1>3. ASSUME NEW t \in Threads, Remember(t) PROVE DiskInv'
    <2>1. /\ look[t].pc = "history" /\ \A u \in Threads : look[u].pc # "write"
          /\ look'[t].pc = IF history' # history THEN "write" ELSE "done"
          /\ \A u \in Threads \ {t} : look'[u] = look[u]
          /\ UNCHANGED <<disk, lost>>
        BY <1>3, RememberSteps
    <2>2. \A d \in Detectors : detector'[d].pc = detector[d].pc
        <3>1. \A d \in Detectors : \/ detector'[d] = detector[d]
                                   \/ detector'[d] = [detector[d] EXCEPT !.quiet = FALSE]
            BY <1>3, RememberSteps
        <3> QED
            BY <3>1, StillDetects
    <2> QED
        BY <1>0, <2>1, <2>2 DEF DiskInv, DiskFollowsMemory
<1>4. ASSUME NEW t \in Threads, Persist(t) PROVE DiskInv'
    BY <1>0, <1>4, PersistSteps DEF DiskInv, DiskFollowsMemory
<1>5. CASE OrphanEnds
    BY <1>0, <1>5, OrphanSteps, RestStates, Constants DEF DiskInv, DiskFollowsMemory
<1>6. ASSUME NEW d \in Detectors, Detect(d) \/ DetectorStep(d) \/ TimeOut(d) PROVE DiskInv'
    <2>1. UNCHANGED <<history, disk, lost>>
        BY <1>6, DetectorSteps
    <2>2. CASE Apart(d) /\ (look[d].pc \in {"none", "done"}) /\ look'[d].pc \in {"none", "windows"}
              /\ (detector'[d].pc = "idle" <=> look'[d].pc = "none")
        BY <1>0, <2>1, <2>2 DEF Apart, DiskInv, DiskFollowsMemory
    <2>3. Fresh(d) => look'[d].pc \in {"none", "windows"}
                        /\ (detector'[d].pc = "idle" <=> look'[d].pc = "none")
        BY RestStates DEF Fresh
    <2>4. CASE Apart(d) /\ Fresh(d) /\ detector[d].pc = "idle"
        BY <2>2, <2>3, <2>4 DEF DiskInv
    <2>5. CASE SecondLookStep(d)
        BY <2>2, <2>3, <2>5, RestStates DEF SecondLookStep
    <2>6. CASE ConfirmStep(d)
        BY <2>2, <2>3, <2>6, RestStates DEF ConfirmStep
    <2>7. CASE TimeOutStep(d)
        <3>1. /\ look["orphan"].pc = "none" /\ look'["orphan"] = look[d]
              /\ look'[d].pc \in {"none", "windows"} /\ d \in Threads /\ "orphan" \in Threads
              /\ detector'[d].pc = "idle" <=> look'[d].pc = "none"
              /\ \A e \in Detectors \ {d} : look'[e] = look[e] /\ detector'[e] = detector[e]
            BY <1>0, <2>3, <2>7, Constants DEF TimeOutStep
        <3>2. \A u \in Threads : u = d \/ u = "orphan" \/ u \in Detectors \ {d}
            BY Constants
        <3>3. ASSUME NEW t \in Threads, NEW u \in Threads, look'[t].pc = "write", look'[u].pc = "write"
              PROVE  t = u
            BY <3>1, <3>2, <3>3, <1>0 DEF DiskInv
        <3>4. (\A t \in Threads : look'[t].pc # "write") => \A t \in Threads : look[t].pc # "write"
            BY <1>0, <3>1, <3>2
        <3>5. DiskFollowsMemory'
            BY <2>1, <3>4 DEF DiskInv, DiskFollowsMemory
        <3>6. \A e \in Detectors : detector'[e].pc = "idle" <=> look'[e].pc = "none"
            BY <3>1 DEF DiskInv
        <3> QED
            BY <3>3, <3>5, <3>6 DEF DiskInv
    <2> QED
        BY <1>6, <2>4, <2>5, <2>6, <2>7, DetectorSteps
<1>7. ASSUME NEW a \in Accounts, NEW n, LogIn(a) \/ LogOut(a) \/ Rename(a, n) PROVE DiskInv'
    BY <1>7, DesktopSteps DEF DiskInv, DiskFollowsMemory
<1>8. CASE Restart
    <2>1. \A t \in Threads : look'[t].pc = "none"
        BY <1>8, RestartSteps, RestStates
    <2>2. \A d \in Detectors : detector'[d].pc = "idle"
        BY <1>8, RestartSteps, RestStates
    <2>3. ASSUME ~lost' PROVE disk' = history'
        <3>1. disk' \in Kept \cup {Torn}
            BY <1>8, RestartTyped DEF Typed
        <3>2. disk' # Torn /\ history' = FirstOf(disk', Cap)
            BY <1>8, <2>3, RestartSteps DEF Loaded
        <3>3. disk' \in Seq(Entry) /\ Len(disk') <= Cap
            BY <3>1, <3>2, RollIsList DEF Kept
        <3> QED
            BY <3>2, <3>3, FirstFacts, Constants
    <2> QED
        BY <1>0, <2>1, <2>2, <2>3 DEF DiskInv, DiskFollowsMemory
<1> QED
    BY <1>1, <1>2, <1>3, <1>4, <1>5, <1>6, <1>7, <1>8 DEF Next, LookStep


-----------------------------------------------------------------------------
(* What is confirmed was shown                                              *)

LEMMA ResolvedShown ==
    ASSUME NEW list \in Seq(Entry), NEW seen PROVE Shown(Resolved(list, seen), seen)
<1> DEFINE keep == {e \in Entry : \E s \in seen : s.name = e.name}
<1>1. Resolved(list, seen) = Only(list, keep)
    BY DEF Resolved
<1>2. \A k \in 1..Len(Only(list, keep)) : Only(list, keep)[k] \in keep
    BY OnlyFacts
<1> QED
    BY <1>1, <1>2 DEF Shown

LEMMA ErrorShown == \A seen : Shown(Error, seen)
BY EmptyLists DEF Shown

LEMMA ShownInit == Init => ShownInv
<1> SUFFICES ASSUME Init PROVE ShownInv
    OBVIOUS
<1>1. \A t \in Threads : look[t].pc = "none" /\ look[t].found = Error
    BY RestStates DEF Init
<1>2. \A d \in Detectors : detector[d].pc = "idle" /\ detector[d].result = Error
    BY RestStates DEF Init
<1> QED
    BY <1>1, <1>2, ErrorShown DEF ShownInv

LookShown(l) == IF l.pc \in {"windows", "file", "history"}
                THEN l.found = Error ELSE Shown(l.found, l.seen)

LEMMA RestShown == LookShown(NoLook) /\ LookShown(NewLook)
BY RestStates, ErrorShown DEF LookShown

DetectionShown(e) ==
    /\ e.pc = "second" => Shown(e.first.found, e.first.seen)
    /\ e.pc # "idle" => e.result = Error
    /\ Shown(e.result, e.first.seen) /\ Shown(e.result, e.seen)

LEMMA ShownIs ==
    ShownInv <=> /\ \A t \in Threads : LookShown(look[t])
                 /\ \A d \in Detectors : DetectionShown(detector[d])
BY DEF ShownInv, LookShown, DetectionShown

LEMMA ShownNext == Typed /\ ShownInv /\ [Next]_vars => ShownInv'
<1> SUFFICES ASSUME Typed, ShownInv, [Next]_vars PROVE ShownInv'
    OBVIOUS
<1>0. /\ \A t \in Threads : LookShown(look[t])
      /\ \A d \in Detectors : DetectionShown(detector[d])
      /\ Detectors \subseteq Threads
    BY ShownIs, Constants
<1> SUFFICES /\ \A t \in Threads : LookShown(look'[t])
             /\ \A d \in Detectors : DetectionShown(detector'[d])
    BY ShownIs DEF ShownInv, LookShown, DetectionShown
<1>1. CASE UNCHANGED vars
    BY <1>0, <1>1 DEF vars
<1>2. ASSUME NEW t \in Threads, LookShown(look'[t]), \A u \in Threads \ {t} : look'[u] = look[u],
             \A d \in Detectors : \/ detector'[d] = detector[d]
                                  \/ detector'[d] = [detector[d] EXCEPT !.quiet = FALSE]
      PROVE  /\ \A u \in Threads : LookShown(look'[u])
             /\ \A d \in Detectors : DetectionShown(detector'[d])
    <2>1. ASSUME NEW d \in Detectors PROVE DetectionShown(detector'[d])
        <3>1. /\ detector'[d].pc = detector[d].pc /\ detector'[d].first = detector[d].first
              /\ detector'[d].result = detector[d].result /\ detector'[d].seen = detector[d].seen
            BY <1>2, StillDetects
        <3> QED
            BY <1>0, <3>1 DEF DetectionShown
    <2>2. \A u \in Threads : LookShown(look'[u])
        BY <1>0, <1>2
    <2> QED
        BY <2>1, <2>2
<1>3. ASSUME NEW t \in Threads, SeeWindows(t) \/ ReadLoginFile(t)
      PROVE  /\ \A u \in Threads : LookShown(look'[u])
             /\ \A d \in Detectors : DetectionShown(detector'[d])
    <2>1. /\ look[t].pc \in {"windows", "file"} /\ look'[t].found = look[t].found
          /\ \A u \in Threads \ {t} : look'[u] = look[u]
          /\ \A d \in Detectors : \/ detector'[d] = detector[d]
                                  \/ detector'[d] = [detector[d] EXCEPT !.quiet = FALSE]
        BY <1>3, ReadingSteps
    <2>2. look'[t].found = Error
        BY <1>0, <2>1 DEF LookShown
    <2>3. LookShown(look'[t])
        BY <2>2, ErrorShown DEF LookShown
    <2> QED
        BY <1>2, <2>1, <2>3
<1>4. ASSUME NEW t \in Threads, Remember(t)
      PROVE  /\ \A u \in Threads : LookShown(look'[u])
             /\ \A d \in Detectors : DetectionShown(detector'[d])
    <2> DEFINE file == look[t].file
    <2>1. /\ look'[t].pc = IF history' # history THEN "write" ELSE "done"
          /\ look'[t].seen = look[t].seen
          /\ look'[t].found = Resolved(Merged(file, history'), look[t].seen)
          /\ \A u \in Threads \ {t} : look'[u] = look[u]
          /\ \A d \in Detectors : \/ detector'[d] = detector[d]
                                  \/ detector'[d] = [detector[d] EXCEPT !.quiet = FALSE]
        BY <1>4, RememberSteps
    <2>2. file \in Roll /\ history' \in Roll
        BY <1>4, LookStepTyped, RollIsList DEF LookStep, Typed, Look
    <2>3. Merged(file, history') \in Seq(Entry)
        BY <2>2, MergedFacts, RollIsList
    <2>4. Shown(look'[t].found, look'[t].seen)
        BY <2>1, <2>3, ResolvedShown
    <2>5. LookShown(look'[t])
        BY <2>1, <2>4 DEF LookShown
    <2> QED
        BY <1>2, <2>1, <2>5
<1>5. ASSUME NEW t \in Threads, Persist(t)
      PROVE  /\ \A u \in Threads : LookShown(look'[u])
             /\ \A d \in Detectors : DetectionShown(detector'[d])
    <2>1. LookShown(look'[t])
        BY <1>0, <1>5, PersistSteps DEF LookShown
    <2> QED
        BY <1>2, <1>5, <2>1, PersistSteps
<1>6. CASE OrphanEnds
    BY <1>2, <1>6, OrphanSteps, RestShown, Constants
<1>7. ASSUME NEW d \in Detectors, Detect(d) \/ DetectorStep(d) \/ TimeOut(d)
      PROVE  /\ \A u \in Threads : LookShown(look'[u])
             /\ \A e \in Detectors : DetectionShown(detector'[e])
    <2>1. Fresh(d) => LookShown(look'[d]) /\ DetectionShown(detector'[d])
        BY RestShown, ErrorShown DEF Fresh, DetectionShown
    <2>2. CASE Apart(d) /\ LookShown(look'[d]) /\ DetectionShown(detector'[d])
        BY <1>0, <2>2 DEF Apart
    <2>3. CASE Apart(d) /\ Fresh(d)
        BY <2>1, <2>2, <2>3
    <2>4. CASE SecondLookStep(d)
        <3>1. CASE look[d].found # Error /\ ~Fresh(d)
            <4>1. /\ look'[d] = NewLook /\ detector'[d].first = look[d]
                  /\ detector'[d].result = detector[d].result
                  /\ detector'[d].seen = detector[d].seen
                  /\ look[d].pc = "done" /\ detector[d].pc = "first"
                BY <2>4, <3>1 DEF SecondLookStep
            <4>2. Shown(look[d].found, look[d].seen)
                BY <1>0, <4>1 DEF LookShown
            <4> QED
                <5>1. detector'[d].result = Error /\ detector'[d].pc = "second" /\ Apart(d)
                    BY <1>0, <2>4, <3>1, <4>1 DEF SecondLookStep, DetectionShown
                <5>2. DetectionShown(detector'[d])
                    BY <4>1, <4>2, <5>1, ErrorShown DEF DetectionShown
                <5> QED
                    BY <2>2, <4>1, <5>1, <5>2, RestShown
        <3> QED
            BY <2>3, <2>4, <3>1 DEF SecondLookStep
    <2>5. CASE ConfirmStep(d)
        <3>1. CASE Confirmed(d) /\ ~Fresh(d)
            <4>1. /\ look'[d] = NoLook /\ detector'[d].pc = "idle"
                  /\ detector'[d].first = detector[d].first
                  /\ detector'[d].result = look[d].found /\ detector'[d].seen = look[d].seen
                  /\ detector[d].pc = "second" /\ look[d].pc = "done"
                  /\ look[d].found = detector[d].first.found
                BY <2>5, <3>1 DEF ConfirmStep, Confirmed
            <4>2. Shown(look[d].found, look[d].seen)
                BY <1>0, <4>1 DEF LookShown
            <4>3. Shown(detector[d].first.found, detector[d].first.seen)
                BY <1>0, <4>1 DEF DetectionShown
            <4>4. DetectionShown(detector'[d])
                BY <4>1, <4>2, <4>3 DEF DetectionShown
            <4> QED
                BY <2>2, <2>5, <4>1, <4>4, RestShown DEF ConfirmStep
        <3> QED
            BY <2>3, <2>5, <3>1 DEF ConfirmStep
    <2>6. CASE TimeOutStep(d)
        <3>1. /\ look'["orphan"] = look[d] /\ Fresh(d)
              /\ \A e \in Detectors \ {d} : look'[e] = look[e] /\ detector'[e] = detector[e]
            BY <2>6 DEF TimeOutStep
        <3> QED
            BY <1>0, <2>1, <3>1, Constants
    <2> QED
        BY <1>7, <2>3, <2>4, <2>5, <2>6, DetectorSteps
<1>8. ASSUME NEW a \in Accounts, NEW n, LogIn(a) \/ LogOut(a) \/ Rename(a, n)
      PROVE  /\ \A u \in Threads : LookShown(look'[u])
             /\ \A d \in Detectors : DetectionShown(detector'[d])
    <2>1. \A d \in Detectors : /\ detector'[d].pc = detector[d].pc
                               /\ detector'[d].first = detector[d].first
                               /\ detector'[d].result = detector[d].result
                               /\ detector'[d].seen = detector[d].seen
        BY <1>8, DesktopSteps
    <2> QED
        BY <1>0, <1>8, <2>1, DesktopSteps DEF DetectionShown
<1>9. CASE Restart
    <2>1. \A d \in Detectors : detector'[d].pc = "idle" /\ detector'[d].result = Error
        BY <1>9, RestartSteps, RestStates
    <2>2. \A d \in Detectors : DetectionShown(detector'[d])
        BY <2>1, ErrorShown DEF DetectionShown
    <2> QED
        BY <1>9, <2>2, RestartSteps, RestShown
<1> QED
    BY <1>1, <1>3, <1>4, <1>5, <1>6, <1>7, <1>8, <1>9 DEF Next, LookStep


-----------------------------------------------------------------------------
(* What was read is remembered                                              *)

LEMMA KnownInit == Init => KnownInv
<1> SUFFICES ASSUME Init PROVE KnownInv
    OBVIOUS
<1>1. Known = {}
    BY DEF Init, Known
<1>2. IsFiniteSet({})
    BY FS_EmptySet
<1> QED
    BY <1>1, <1>2 DEF KnownInv

LEMMA AccountsFinite == ASSUME NEW list \in Seq(Entry) PROVE IsFiniteSet(AccountsOf(list))
<1> DEFINE f == [i \in 1..Len(list) |-> list[i].account]
<1>1. Len(list) \in Nat
    BY LenProperties
<1>2. IsFiniteSet(1..Len(list))
    BY <1>1, FS_Interval
<1>3. f \in Surjection(1..Len(list), AccountsOf(list))
    BY DEF Surjection, AccountsOf
<1> QED
    BY <1>2, <1>3, FS_Surjection

\* What a look read of an account is what is known of it afterwards.
LEMMA RememberKnows ==
    ASSUME Typed, NEW t \in Threads, Remember(t), NEW file, file = look[t].file
    PROVE  /\ file \in Roll
           /\ \A i \in 1..Len(file) : /\ file[i].account \in Known'
                                      /\ observed'[file[i].account] = file[i].name
           /\ \A a \in Accounts \ AccountsOf(file) : observed'[a] = observed[a]
           /\ Known' = Known \cup AccountsOf(file)
<1>1. file \in Roll /\ file \in Seq(Entry) /\ Once(file)
    BY RollIsList DEF Typed, Look, Roll
<1>2. DOMAIN file = 1..Len(file) /\ \A i \in 1..Len(file) : file[i] \in Entry
    BY <1>1, LenProperties
<1>3. observed' = [a \in Accounts |-> IF \E e \in Range(file) : e.account = a
                                      THEN (CHOOSE e \in Range(file) : e.account = a).name
                                      ELSE observed[a]]
    BY DEF Remember
<1>4. ASSUME NEW i \in 1..Len(file)
      PROVE  /\ file[i].account \in Known' /\ file[i].account \in Accounts
             /\ observed'[file[i].account] = file[i].name
    <2> DEFINE a == file[i].account
    <2>1. a \in Accounts /\ file[i].name \in Names
        BY <1>2 DEF Entry
    <2>2. file[i] \in Range(file)
        BY <1>2 DEF Range
    <2>3. \A e \in Range(file) : e.account = a => e = file[i]
        BY <1>1, <1>2 DEF Range, Once
    <2>4. (CHOOSE e \in Range(file) : e.account = a) = file[i]
        BY <2>2, <2>3
    <2>5. observed'[a] = file[i].name
        BY <1>3, <2>1, <2>2, <2>4
    <2> QED
        BY <2>1, <2>5, Constants DEF Known
<1>5. ASSUME NEW a \in Accounts, a \notin AccountsOf(file) PROVE observed'[a] = observed[a]
    <2>1. ~\E e \in Range(file) : e.account = a
        BY <1>2, <1>5 DEF Range, AccountsOf
    <2> QED
        BY <1>3, <2>1
<1>6. \A a \in AccountsOf(file) : a \in Known'
    BY <1>4 DEF AccountsOf
<1>7. Known' = Known \cup AccountsOf(file)
    BY <1>5, <1>6 DEF Known
<1> QED
    BY <1>1, <1>4, <1>5, <1>7

LEMMA KnownRemembered ==
    ASSUME Typed, KnownInv, NEW t \in Threads, Remember(t)
    PROVE  KnownInv'
<1> DEFINE file   == look[t].file
           merged == Merged(file, history)
           f      == Len(file)
<1>1. /\ file \in Roll
      /\ \A i \in 1..f : /\ file[i].account \in Known'
                         /\ observed'[file[i].account] = file[i].name
      /\ \A a \in Accounts \ AccountsOf(file) : observed'[a] = observed[a]
      /\ Known' = Known \cup AccountsOf(file)
    BY RememberKnows
<1>2. /\ merged \in Roll /\ f <= Len(merged)
      /\ \A i \in 1..f : merged[i] = file[i]
      /\ \A k \in (f + 1)..Len(merged) :
             /\ merged[k].account \notin AccountsOf(file)
             /\ \E i \in 1..Len(history) : merged[k] = history[i]
      /\ \A j, k \in (f + 1)..Len(merged) : j < k =>
             \E h, i \in 1..Len(history) : h < i /\ merged[j] = history[h] /\ merged[k] = history[i]
      /\ \A i \in 1..Len(history) : history[i].account \notin AccountsOf(file) =>
             \E k \in (f + 1)..Len(merged) : merged[k] = history[i]
    <2>1. history \in Roll
        BY RollIsList DEF Typed
    <2> HIDE DEF file
    <2> DEFINE list == merged
    <2>2. list = Merged(file, history) /\ file \in Roll
        BY <1>1
    <2> HIDE DEF list
    <2>3. /\ list \in Roll /\ f <= Len(list)
          /\ \A i \in 1..f : list[i] = file[i]
        BY <2>1, <2>2, MergedFacts
    <2>4. /\ \A k \in (f + 1)..Len(list) :
                /\ list[k].account \notin AccountsOf(file)
                /\ \E i \in 1..Len(history) : list[k] = history[i]
        BY <2>1, <2>2, MergedFacts
    <2>5. /\ \A j, k \in (f + 1)..Len(list) : j < k =>
                \E h, i \in 1..Len(history) :
                    h < i /\ list[j] = history[h] /\ list[k] = history[i]
        BY <2>1, <2>2, MergedFacts
    <2>6. \A i \in 1..Len(history) : history[i].account \notin AccountsOf(file) =>
                \E k \in (f + 1)..Len(list) : list[k] = history[i]
        BY <2>1, <2>2, MergedFacts
    <2> QED
        BY <2>3, <2>4, <2>5, <2>6 DEF list
<1>3. /\ merged \in Seq(Entry) /\ Once(merged) /\ Len(merged) \in Nat /\ f \in Nat
      /\ \A i \in 1..Len(merged) : merged[i] \in Entry /\ merged[i].account \in Accounts
    <2>1. merged \in Seq(Entry) /\ Once(merged) /\ file \in Seq(Entry)
        BY <1>1, <1>2 DEF Roll
    <2>2. \A i \in 1..Len(merged) : merged[i] \in Entry
        BY <2>1, ElementOfSeq
    <2> QED
        BY <2>1, <2>2, LenProperties DEF Entry
<1>4. history' = FirstOf(merged, Cap)
    BY RememberSteps DEF Remembered
<1> HIDE DEF file, merged, f
<1>5. /\ Len(history') = IF Len(merged) < Cap THEN Len(merged) ELSE Cap
      /\ \A i \in 1..Len(history') : history'[i] = merged[i]
    BY <1>3, <1>4, Constants, FirstFacts
<1>6. Len(history') \in Nat /\ Len(history') <= Len(merged)
    BY <1>3, <1>5, Constants
<1>7. IsFiniteSet(Known') /\ IsFiniteSet(Known)
    <2>1. IsFiniteSet(AccountsOf(file)) /\ IsFiniteSet(Known)
        BY <1>1, AccountsFinite, RollIsList DEF KnownInv
    <2> QED
        BY <1>1, <2>1, FS_Union
<1>8. ASSUME NEW i \in 1..Len(merged), merged[i].account \in Known'
      PROVE  /\ observed'[merged[i].account] = merged[i].name
             /\ \A j \in 1..i : merged[j].account \in Known'
    <2>1. CASE i \in 1..f
        <3>1. \A j \in 1..i : j \in 1..f
            BY <1>3, <2>1
        <3> QED
            BY <1>1, <1>2, <2>1, <3>1 DEF f
    <2>2. CASE i \in (f + 1)..Len(merged)
        <3>1. /\ merged[i].account \notin AccountsOf(file) /\ merged[i].account \in Known
              /\ observed'[merged[i].account] = observed[merged[i].account]
            BY <1>1, <1>2, <1>3, <1>8, <2>2
        <3>2. PICK m \in 1..Len(history) : merged[i] = history[m]
            BY <1>2, <2>2
        <3>3. observed'[merged[i].account] = merged[i].name
            BY <3>1, <3>2 DEF KnownInv
        <3>4. ASSUME NEW j \in 1..i PROVE merged[j].account \in Known'
            <4>1. CASE j \in 1..f
                BY <1>1, <1>2, <4>1 DEF f
            <4>2. CASE j = i
                BY <1>8, <4>2
            <4>3. CASE j \in (f + 1)..Len(merged) /\ j < i
                <5>1. PICK h \in 1..Len(history), n \in 1..Len(history) :
                          h < n /\ merged[j] = history[h] /\ merged[i] = history[n]
                    BY <1>2, <2>2, <4>3
                <5>2. history[n].account \in Known /\ h \in 1..n
                    BY <3>1, <5>1
                <5>3. history[h].account \in Known
                    BY <5>1, <5>2 DEF KnownInv
                <5> QED
                    BY <1>1, <5>1, <5>3
            <4>4. j \in 1..f \/ j = i \/ (j \in (f + 1)..Len(merged) /\ j < i)
                BY <1>3
            <4> QED
                BY <4>1, <4>2, <4>3, <4>4
        <3> QED
            BY <3>3, <3>4
    <2>3. i \in 1..f \/ i \in (f + 1)..Len(merged)
        BY <1>3
    <2> QED
        BY <2>1, <2>2, <2>3
<1>9. ASSUME NEW i \in 1..Len(history'), history'[i].account \in Known'
      PROVE  /\ observed'[history'[i].account] = history'[i].name
             /\ \A j \in 1..i : history'[j].account \in Known'
    <2>1. i \in 1..Len(merged) /\ history'[i] = merged[i]
        BY <1>3, <1>5, <1>6
    <2>2. \A j \in 1..i : history'[j] = merged[j]
        BY <1>5, <1>6
    <2> QED
        BY <1>8, <1>9, <2>1, <2>2
<1>10. ASSUME Cardinality(Known') <= Cap, NEW a \in Known' PROVE a \in AccountsOf(history')
    <2>1. PICK j \in 1..Len(merged) : merged[j].account = a
        <3>1. CASE a \in AccountsOf(file)
            <4>1. PICK i \in 1..f : file[i].account = a
                BY <3>1 DEF AccountsOf, f
            <4>2. i \in 1..Len(merged) /\ merged[i].account = a
                BY <1>2, <1>3, <4>1
            <4> QED
                BY <4>2
        <3>2. CASE a \notin AccountsOf(file)
            <4>1. a \in Known /\ Known \in SUBSET Known'
                BY <1>1, <1>10, <3>2
            <4>2. Cardinality(Known) <= Cardinality(Known')
                BY <1>7, <4>1, FS_Subset
            <4>3. Cardinality(Known) \in Nat /\ Cardinality(Known') \in Nat
                BY <1>7, FS_CardinalityType
            <4>4. Cardinality(Known) <= Cap
                BY <1>10, <4>2, <4>3, Constants
            <4>5. PICK i \in 1..Len(history) : history[i].account = a
                BY <4>1, <4>4 DEF KnownInv, AccountsOf
            <4>6. PICK k \in (f + 1)..Len(merged) : merged[k] = history[i]
                BY <1>2, <3>2, <4>5
            <4>7. k \in 1..Len(merged)
                BY <1>3, <4>6
            <4> QED
                BY <4>5, <4>6, <4>7
        <3> QED
            BY <3>1, <3>2
    <2> DEFINE g == [i \in 1..j |-> merged[i].account]
    <2>2. \A i \in 1..j : i \in 1..Len(merged) /\ merged[i].account \in Known'
        BY <1>3, <1>8, <1>10, <2>1
    <2>3. g \in Injection(1..j, Known')
        BY <1>3, <2>2 DEF Injection, IsInjective, Once
    <2>4. Cardinality(1..j) <= Cardinality(Known')
        BY <1>7, <2>3, FS_Injection
    <2>5. Cardinality(1..j) = j /\ j \in Nat
        BY <2>1, FS_Interval
    <2>6. j <= Cap
        <3>1. Cardinality(Known') \in Nat
            BY <1>7, FS_CardinalityType
        <3> QED
            BY <1>10, <2>4, <2>5, <3>1, Constants
    <2>7. j \in 1..Len(history') /\ history'[j] = merged[j]
        BY <1>3, <1>5, <1>6, <2>5, <2>6, Constants
    <2> QED
        BY <2>1, <2>7 DEF AccountsOf
<1>11. AccountsOf(history)' = AccountsOf(history')
    BY DEF AccountsOf
<1> QED
    BY <1>7, <1>9, <1>10, <1>11 DEF KnownInv

LEMMA KnownNext == Typed /\ DiskInv /\ KnownInv /\ [Next]_vars => KnownInv'
<1> SUFFICES ASSUME Typed, DiskInv, KnownInv, [Next]_vars PROVE KnownInv'
    OBVIOUS
<1>1. CASE UNCHANGED <<history, observed>>
    BY <1>1 DEF KnownInv, Known, AccountsOf
<1>2. ASSUME NEW t \in Threads, LookStep(t) PROVE KnownInv'
    BY <1>1, <1>2, ReadingSteps, KnownRemembered, PersistSteps DEF LookStep
<1>3. CASE Restart
    <2>1. CASE lost \/ \E t \in Threads : look[t].pc = "write"
        <3>1. Known' = {}
            BY <1>3, <2>1, RestartSteps DEF Known
        <3>2. IsFiniteSet({})
            BY FS_EmptySet
        <3> QED
            BY <3>1, <3>2 DEF KnownInv
    <2>2. CASE ~(lost \/ \E t \in Threads : look[t].pc = "write")
        <3>1. observed' = observed /\ disk' = disk /\ history' = Loaded(disk') /\ disk = history
            BY <1>3, <2>2, RestartSteps DEF DiskInv, DiskFollowsMemory
        <3>2. history \in Seq(Entry) /\ Len(history) <= Cap
            BY RollIsList DEF Typed, Kept
        <3>3. history' = history
            BY <3>1, <3>2, FirstFacts, Constants DEF Loaded
        <3> QED
            BY <1>1, <3>1, <3>3
    <2> QED
        BY <2>1, <2>2
<1>4. CASE UNCHANGED vars
    BY <1>1, <1>4 DEF vars
<1> QED
    BY <1>1, <1>2, <1>3, <1>4, OrphanSteps, DetectorSteps, DesktopSteps DEF Next


-----------------------------------------------------------------------------
(* Undisturbed detections                                                   *)

LEMMA QuietInit == Init => QuietInv
<1> SUFFICES ASSUME Init, NEW d \in Detectors PROVE ~detector[d].quiet
    BY DEF QuietInv
<1> QED
    BY RestStates DEF Init

\* Where neither the desktop nor the history changes, they are still those that were seen.
LEMMA SameDesktop ==
    ASSUME UNCHANGED <<desktop, history>>
    PROVE  Seen' = Seen /\ Present' = Present /\ (Settled <=> Settled')
BY DEF desktop, Seen, EntryOf, Present, Settled, Remembered, Resolved, Merged

LEMMA SameDetection ==
    ASSUME NEW d \in Detectors, Undisturbed(d), look'[d] = look[d], detector'[d] = detector[d],
           loginFile' = loginFile, Seen' = Seen,
           Settled => Present' = Present /\ Settled'
    PROVE  Undisturbed(d)'
BY DEF Undisturbed, Suits

LEMMA QuietRemembers ==
    ASSUME Typed, DiskInv, QuietInv, NEW t \in Threads, Remember(t) PROVE QuietInv'
<1>1. /\ look[t].pc = "history" /\ history' = Remembered(look[t].file)
      /\ look'[t].pc \in {"write", "done"}
      /\ look'[t].found = Resolved(Merged(look[t].file, history'), look[t].seen)
      /\ \A u \in Threads \ {t} : look'[u] = look[u]
      /\ \A d \in Detectors : detector'[d] = IF d # t /\ look[t].file # loginFile
                                             THEN [detector[d] EXCEPT !.quiet = FALSE]
                                             ELSE detector[d]
      /\ UNCHANGED desktop
    BY RememberSteps
<1>2. Seen' = Seen /\ loginFile' = loginFile
    BY <1>1 DEF desktop, Seen, EntryOf
<1> SUFFICES ASSUME NEW d \in Detectors, detector'[d].quiet PROVE Undisturbed(d)'
    BY DEF QuietInv
<1>3. detector'[d] = detector[d] /\ detector[d].quiet /\ (d # t => look[t].file = loginFile)
    <2>1. CASE d # t /\ look[t].file # loginFile
        <3>1. detector'[d] = [detector[d] EXCEPT !.quiet = FALSE]
            BY <1>1, <2>1
        <3> QED
            BY <3>1, StillDetects
    <2> QED
        BY <1>1, <2>1
<1>4. Undisturbed(d)
    BY <1>3 DEF QuietInv
<1>5. look[t].file = loginFile
    BY <1>1, <1>3, <1>4 DEF Undisturbed
<1>6. history' = FirstOf(Merged(loginFile, history), Cap)
    BY <1>1, <1>5 DEF Remembered
<1>7. Settled'
    <2>1. loginFile \in Roll /\ history \in Roll
        BY RollIsList DEF Typed
    <2>2. FirstOf(Merged(loginFile, history'), Cap) = history'
        BY <1>6, <2>1, Constants, RememberTwice
    <2> QED
        BY <1>2, <2>2 DEF Settled, Remembered, Merged
<1>8. Settled => Present' = Present
    <2>1. Settled => history' = history
        BY <1>6 DEF Settled, Remembered
    <2> QED
        BY <1>1, <2>1, SameDesktop
<1>9. CASE d = t
    <2>1. look'[d].found = Present'
        <3>1. look[t].seen = Seen
            BY <1>1, <1>4, <1>9 DEF Undisturbed
        <3> QED
            BY <1>1, <1>2, <1>5, <1>9, <3>1 DEF Present, Resolved, Merged
    <2>2. detector[d].pc # "idle" /\ look'[d].pc \in {"write", "done"}
        BY <1>1, <1>9 DEF DiskInv
    <2>3. detector[d].pc = "second" => detector[d].first.found = Present'
        BY <1>4, <1>8 DEF Undisturbed
    <2> QED
        BY <1>3, <1>7, <2>1, <2>2, <2>3 DEF Undisturbed
<1>10. CASE d # t
    <2>1. look'[d] = look[d]
        BY <1>1, <1>10, Constants
    <2> QED
        BY <1>2, <1>3, <1>4, <1>7, <1>8, <2>1, SameDetection
<1> QED
    BY <1>9, <1>10

LEMMA QuietDetects ==
    ASSUME Typed, DiskInv, QuietInv, NEW d \in Detectors, Detect(d) \/ DetectorStep(d) \/ TimeOut(d)
    PROVE  QuietInv'
<1>1. /\ UNCHANGED <<desktop, history>> /\ loginFile' = loginFile
      /\ Seen' = Seen /\ Present' = Present /\ (Settled <=> Settled')
    BY DetectorSteps, SameDesktop DEF desktop
<1>2. ASSUME NEW e \in Detectors, e # d, detector'[e].quiet PROVE Undisturbed(e)'
    <2>1. look'[e] = look[e] /\ detector'[e] = detector[e]
        BY <1>2, DetectorSteps, Constants DEF Apart, SecondLookStep, ConfirmStep, TimeOutStep
    <2>2. Undisturbed(e)
        BY <1>2, <2>1 DEF QuietInv
    <2> QED
        BY <1>1, <2>1, <2>2, SameDetection
<1> SUFFICES ASSUME detector'[d].quiet PROVE Undisturbed(d)'
    BY <1>2 DEF QuietInv
<1>3. CASE Fresh(d) /\ detector'[d].pc = "first"
    BY <1>3, RestStates DEF Fresh, Undisturbed
<1>4. CASE /\ Fresh(d) /\ detector'[d].pc = "idle" /\ Settled
           /\ Present = Error \/ ~Suits(d, Present)
    <2>1. Suits(d, Present)' <=> Suits(d, Present)
        BY <1>1 DEF Suits
    <2> QED
        BY <1>1, <1>4, <2>1, RestStates DEF Fresh, Undisturbed
<1>5. detector[d].quiet => Undisturbed(d)
    BY DEF QuietInv
<1>6. CASE SecondLookStep(d)
    <2>1. CASE look[d].found = Error /\ Fresh(d)
        <3>1. CASE detector'[d].pc = "idle"
            <4>1. Settled /\ Present = Error
                BY <1>5, <1>6, <2>1, <3>1 DEF SecondLookStep, Fresh, Undisturbed
            <4> QED
                BY <1>4, <2>1, <3>1, <4>1
        <3> QED
            BY <1>3, <2>1, <3>1 DEF Fresh
    <2>2. CASE /\ look[d].found # Error /\ look'[d] = NewLook
               /\ detector'[d].pc = "second" /\ detector'[d].first = look[d]
               /\ detector'[d].quiet = detector[d].quiet
        <3>1. Settled /\ look[d].found = Present
            BY <1>5, <1>6, <2>2 DEF SecondLookStep, Undisturbed
        <3> QED
            BY <1>1, <2>2, <3>1, RestStates DEF Undisturbed
    <2> QED
        BY <1>6, <2>1, <2>2 DEF SecondLookStep
<1>7. CASE ConfirmStep(d)
    <2>1. ASSUME detector[d].quiet
          PROVE  Settled /\ look[d].found = Present /\ detector[d].first.found = Present
        BY <1>5, <1>7, <2>1 DEF ConfirmStep, Undisturbed
    <2>2. CASE ~Confirmed(d) /\ Fresh(d)
        <3>1. CASE detector'[d].pc = "idle"
            <4>1. detector[d].quiet
                BY <2>2, <3>1 DEF Fresh
            <4>2. Present \in Seq(Entry)
                BY <2>1, <4>1 DEF Typed, Look, Threads
            <4>3. DOMAIN Present = 1..Len(Present)
                BY <4>2, LenProperties
            <4>4. (\E e \in Range(Present) : e.account = Target[d])
                      <=> \E i \in 1..Len(Present) : Present[i].account = Target[d]
                BY <4>3 DEF Range
            <4>5. Present = Error \/ ~Suits(d, Present)
                BY <2>1, <2>2, <4>1, <4>4 DEF Confirmed, Suits
            <4> QED
                BY <1>4, <2>1, <2>2, <3>1, <4>1, <4>5
        <3> QED
            BY <1>3, <2>2, <3>1 DEF Fresh
    <2>3. CASE /\ Confirmed(d) /\ look'[d] = NoLook
               /\ detector'[d].pc = "idle" /\ detector'[d].result = look[d].found
               /\ detector'[d].quiet = detector[d].quiet
        BY <1>1, <2>1, <2>3, RestStates DEF Undisturbed
    <2> QED
        BY <1>7, <2>2, <2>3 DEF ConfirmStep
<1> QED
    BY <1>3, <1>6, <1>7, DetectorSteps DEF TimeOutStep

LEMMA QuietNext == Typed /\ DiskInv /\ QuietInv /\ [Next]_vars => QuietInv'
<1> SUFFICES ASSUME Typed, DiskInv, QuietInv, [Next]_vars PROVE QuietInv'
    OBVIOUS
<1>1. ASSUME UNCHANGED <<desktop, history>>, NEW t \in Threads,
             \A u \in Threads \ {t} : look'[u] = look[u],
             \A d \in Detectors \ {t} : detector'[d] = detector[d],
             t \in Detectors /\ detector'[t].quiet => Undisturbed(t)'
      PROVE  QuietInv'
    <2>1. /\ loginFile' = loginFile /\ Seen' = Seen /\ Present' = Present
          /\ Settled <=> Settled'
        BY <1>1, SameDesktop DEF desktop
    <2>2. ASSUME NEW d \in Detectors, d # t, detector'[d].quiet PROVE Undisturbed(d)'
        <3>1. look'[d] = look[d] /\ detector'[d] = detector[d] /\ Undisturbed(d)
            BY <1>1, <2>2, Constants DEF QuietInv
        <3> QED
            BY <2>1, <3>1, SameDetection
    <2> QED
        BY <1>1, <2>2 DEF QuietInv
<1>2. CASE UNCHANGED vars
    <2>1. "orphan" \in Threads /\ "orphan" \notin Detectors
        BY Constants
    <2> QED
        BY <1>1, <1>2, <2>1 DEF vars
<1>3. ASSUME NEW t \in Threads, SeeWindows(t) \/ ReadLoginFile(t) PROVE QuietInv'
    <2>1. /\ UNCHANGED <<desktop, history>> /\ \A u \in Threads \ {t} : look'[u] = look[u]
          /\ \A d \in Detectors \ {t} : detector'[d] = detector[d]
        BY <1>3, ReadingSteps
    <2>2. Seen' = Seen /\ Present' = Present /\ loginFile' = loginFile /\ (Settled <=> Settled')
        BY <2>1, SameDesktop DEF desktop
    <2>3. ASSUME t \in Detectors, detector'[t].quiet PROVE Undisturbed(t)'
        <3>1. look[t].pc \in {"windows", "file"} /\ detector[t].pc # "idle"
            BY <1>3, <2>3, ReadingSteps DEF DiskInv
        <3>2. detector'[t] # [detector[t] EXCEPT !.quiet = FALSE]
            BY <2>3, StillDetects
        <3>3. /\ look'[t].pc \in {"file", "history"} /\ UNCHANGED detector
              /\ look'[t].pc = "file" => look'[t].seen = Seen
              /\ look'[t].pc = "history" => /\ look'[t].seen = look[t].seen
                                            /\ look'[t].file = loginFile
                                            /\ look[t].pc = "file"
            BY <1>3, <2>3, <3>2, ReadingSteps
        <3>4. Undisturbed(t)
            BY <2>3, <3>3 DEF QuietInv
        <3> QED
            BY <2>2, <3>1, <3>3, <3>4 DEF Undisturbed
    <2> QED
        BY <1>1, <2>1, <2>3
<1>4. ASSUME NEW t \in Threads, Persist(t) PROVE QuietInv'
    <2>1. /\ look[t].pc = "write" /\ look'[t].pc = "done" /\ look'[t].found = look[t].found
          /\ \A u \in Threads \ {t} : look'[u] = look[u]
          /\ UNCHANGED <<desktop, history, detector>>
        BY <1>4, PersistSteps
    <2>2. Seen' = Seen /\ Present' = Present /\ loginFile' = loginFile /\ (Settled <=> Settled')
        BY <2>1, SameDesktop DEF desktop
    <2>3. ASSUME t \in Detectors, detector'[t].quiet PROVE Undisturbed(t)'
        <3>1. Undisturbed(t) /\ detector[t].pc # "idle"
            BY <2>1, <2>3 DEF QuietInv, DiskInv
        <3> QED
            BY <2>1, <2>2, <3>1 DEF Undisturbed
    <2> QED
        BY <1>1, <2>1, <2>3
<1>5. CASE OrphanEnds
    <2>1. "orphan" \in Threads /\ "orphan" \notin Detectors
        BY Constants
    <2> QED
        BY <1>1, <1>5, <2>1, OrphanSteps
<1>6. ASSUME NEW a \in Accounts, NEW n, LogIn(a) \/ LogOut(a) \/ Rename(a, n) PROVE QuietInv'
    BY <1>6, DesktopSteps DEF QuietInv
<1>7. CASE Restart
    BY <1>7, RestartSteps, RestStates DEF QuietInv
<1> QED
    BY <1>2, <1>3, <1>4, <1>5, <1>6, <1>7, QuietRemembers, QuietDetects DEF Next, LookStep


-----------------------------------------------------------------------------
(* The theorems                                                             *)

\* The invariants hold for any accounts, nicknames, detectors and capacities, and any
\* number of changes, failures and detections.
THEOREM IdentityInvariant == Spec => [](Typed /\ DiskInv /\ ShownInv /\ KnownInv /\ QuietInv)
<1>1. Init => Typed /\ DiskInv /\ ShownInv /\ KnownInv /\ QuietInv
    BY TypedInit, DiskInit, ShownInit, KnownInit, QuietInit
<1>2. /\ Typed /\ DiskInv /\ ShownInv /\ KnownInv /\ QuietInv /\ [Next]_vars
      => (Typed /\ DiskInv /\ ShownInv /\ KnownInv /\ QuietInv)'
    BY TypedNext, DiskNext, ShownNext, KnownNext, QuietNext
<1> QED
    BY <1>1, <1>2, PTL DEF Spec

\* An account that a detection confirms was shown at both of its looks, or a namesake
\* was (confirm_stable_identities).
THEOREM ConfirmedAreShown == Spec => []ConfirmedIsLoggedIn
<1>1. ASSUME Typed, ShownInv PROVE ConfirmedIsLoggedIn
    <2> SUFFICES ASSUME NEW d \in Detectors,
                        NEW e \in Range(detector[d].result),
                        NEW seen \in {detector[d].first.seen, detector[d].seen}
                 PROVE  \E s \in seen : s.name = e.name
        BY DEF ConfirmedIsLoggedIn
    <2>1. detector[d].result \in Seq(Entry)
        BY <1>1 DEF Typed, Detection
    <2>2. PICK i \in 1..Len(detector[d].result) : e = detector[d].result[i]
        BY <2>1, LenProperties DEF Range
    <2>3. Shown(detector[d].result, seen)
        BY <1>1 DEF ShownInv
    <2> QED
        BY <2>2, <2>3 DEF Shown
<1> QED
    BY <1>1, IdentityInvariant, PTL

\* A restart forgets nothing that was written (persist_accounts, load_accounts).
THEOREM HistoryIsOnDisk == Spec => []DiskFollowsMemory
<1>1. DiskInv => DiskFollowsMemory
    BY DEF DiskInv
<1> QED
    BY <1>1, IdentityInvariant, PTL

\* An undisturbed detection finds every account that is logged in under the nickname
\* with which it was last read, also if QQ's file has forgotten it (remember_and_merge).
THEOREM QuietDetectionsSucceed == Spec => []QuietDetectionSucceeds
<1>1. ASSUME Typed, KnownInv, QuietInv PROVE QuietDetectionSucceeds
    <2> DEFINE expected == {a \in windows : observed[a] = name[a]}
               merged   == Merged(loginFile, history)
               keep     == {e \in Entry : \E s \in Seen : s.name = e.name}
    <2> SUFFICES ASSUME NEW d \in Detectors, detector[d].pc = "idle", detector[d].quiet,
                        Cardinality({a \in Accounts : observed[a] # NoName}) <= Cap,
                        expected # {}, Target[d] \in expected \cup {Anyone}
                 PROVE  /\ detector[d].result # Error
                        /\ expected \subseteq {e.account : e \in Range(detector[d].result)}
        BY DEF QuietDetectionSucceeds
    <2>1. /\ Settled
          /\ \/ detector[d].result = Present
             \/ detector[d].result = Error /\ ~Suits(d, Present)
        BY <1>1 DEF QuietInv, Undisturbed
    <2>2. /\ loginFile \in Roll /\ history \in Roll /\ history \in Seq(Entry)
          /\ windows \subseteq Accounts /\ name \in [Accounts -> Names]
        BY <1>1, RollIsList DEF Typed
    <2>3. merged \in Seq(Entry) /\ Len(merged) \in Nat /\ Len(history) \in Nat
        BY <2>2, MergedFacts, RollIsList, LenProperties
    <2>4. /\ Len(history) <= Len(merged)
          /\ \A i \in 1..Len(history) : history[i] = merged[i]
        <3>1. history = FirstOf(merged, Cap)
            BY <2>1 DEF Settled, Remembered
        <3> HIDE DEF merged
        <3> QED
            BY <2>3, <3>1, FirstFacts, Constants
    <2> HIDE DEF merged
    <2>5. Present = Only(merged, keep)
        BY DEF Present, Resolved, merged
    <2>6. Present \in Seq(Entry) /\ DOMAIN Present = 1..Len(Present) /\ Len(Present) \in Nat
        <3> HIDE DEF keep
        <3>1. Present \in Seq(Entry)
            BY <2>3, <2>5, OnlyFacts
        <3> QED
            BY <3>1, LenProperties
    <2>7. ASSUME NEW a \in expected PROVE \E i \in 1..Len(Present) : Present[i].account = a
        <3>1. a \in Accounts /\ a \in windows /\ observed[a] = name[a] /\ name[a] \in Names
            BY <2>2
        <3>2. a \in Known
            BY <3>1, Constants DEF Known
        <3>3. PICK m \in 1..Len(history) : history[m].account = a
            BY <1>1, <3>2 DEF Known, KnownInv, AccountsOf
        <3>4. history[m].name = name[a]
            BY <1>1, <3>1, <3>2, <3>3 DEF KnownInv
        <3>5. m \in 1..Len(merged) /\ merged[m] = history[m]
            BY <2>3, <2>4
        <3>6. history[m] \in Entry
            BY <2>2, ElementOfSeq
        <3>7. EntryOf(a) \in Seen /\ EntryOf(a).name = name[a]
            BY <1>1, <3>1, EntryTyped DEF Seen
        <3>8. merged[m] \in keep
            BY <3>4, <3>5, <3>6, <3>7
        <3> HIDE DEF keep
        <3>9. PICK i \in 1..Len(Present) : Present[i] = merged[m]
            BY <2>3, <2>5, <3>5, <3>8, OnlyFacts
        <3> QED
            BY <3>3, <3>5, <3>9
    <2>8. Suits(d, Present)
        BY <2>7 DEF Suits
    <2>9. detector[d].result = Present
        BY <2>1, <2>8
    <2>10. Present # Error
        BY <2>7, <2>6, EmptyLists
    <2>11. \A a \in expected : \E e \in Range(Present) : e.account = a
        BY <2>6, <2>7 DEF Range
    <2> QED
        BY <2>9, <2>10, <2>11
<1> QED
    BY <1>1, IdentityInvariant, PTL
=============================================================================
