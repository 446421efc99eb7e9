---------------------------- MODULE ProblemProofs ----------------------------
(***************************************************************************)
(* Theorems about ProblemCollection, for any firings, workers, plans and   *)
(* faults: first about what a plan is, then about what loads leave.        *)
(***************************************************************************)
EXTENDS ProblemCollection, TLAPS, FiniteSetTheorems, SequenceTheorems

-------------------------------------------------------------------------------
(* What plan answers *)

\* In a finite strict order, the number of the members before one is its place:
\* greater for the greater one, and every place is taken.
LEMMA Places ==
    ASSUME NEW S, IsFiniteSet(S), NEW before \in [S -> SUBSET S],
           \A i \in S : i \notin before[i],
           \A i, j \in S : i # j => i \in before[j] \/ j \in before[i],
           \A i, j \in S : i \in before[j] => before[i] \subseteq before[j]
    PROVE  /\ Cardinality(S) \in Nat
           /\ \A i \in S : Cardinality(before[i]) \in 0 .. Cardinality(S) - 1
           /\ \A i, j \in S : i \in before[j] <=> Cardinality(before[i]) < Cardinality(before[j])
           /\ \A i, j \in S : Cardinality(before[i]) = Cardinality(before[j]) => i = j
           /\ \A k \in 1 .. Cardinality(S) : \E i \in S : Cardinality(before[i]) = k - 1
<1>1. Cardinality(S) \in Nat
  BY FS_CardinalityType
<1>2. \A i \in S : IsFiniteSet(before[i]) /\ Cardinality(before[i]) \in Nat
  <2> TAKE i \in S
  <2>1. before[i] \in SUBSET S
    OBVIOUS
  <2> QED
    BY <2>1, FS_Subset, FS_CardinalityType
<1>3. ASSUME NEW i \in S PROVE Cardinality(before[i]) < Cardinality(S)
  <2>1. before[i] \in SUBSET S /\ before[i] # S
    OBVIOUS
  <2> QED
    BY <1>1, <1>2, <2>1, FS_Subset
<1>4. ASSUME NEW i \in S, NEW j \in S, i \in before[j]
      PROVE  Cardinality(before[i]) < Cardinality(before[j])
  <2>1. before[i] \in SUBSET before[j] /\ before[i] # before[j]
    BY <1>4
  <2> QED
    BY <1>2, <2>1, FS_Subset
<1>5. \A i, j \in S : i \in before[j] <=> Cardinality(before[i]) < Cardinality(before[j])
  BY <1>2, <1>4
<1>6. \A i, j \in S : Cardinality(before[i]) = Cardinality(before[j]) => i = j
  BY <1>2, <1>4
<1>7. ASSUME NEW k \in 1 .. Cardinality(S)
      PROVE  \E i \in S : Cardinality(before[i]) = k - 1
  <2> DEFINE T == 0 .. Cardinality(S) - 1
             place == [i \in S |-> Cardinality(before[i])]
  <2>1. place \in Injection(S, T)
    BY <1>1, <1>2, <1>3, <1>6 DEF Injection, IsInjective
  <2>2. IsFiniteSet(T) /\ Cardinality(T) = Cardinality(S)
    <3>1. 0 \in Int /\ Cardinality(S) - 1 \in Int
      BY <1>1
    <3>2. IsFiniteSet(T) /\ Cardinality(T) = IF 0 > Cardinality(S) - 1 THEN 0
                                             ELSE Cardinality(S) - 1 - 0 + 1
      BY <3>1, FS_Interval
    <3> HIDE DEF T
    <3> QED
      BY <1>1, <1>7, <3>2
  <2>3. place \in Surjection(S, T)
    BY <2>1, <2>2, FS_Injection
  <2>4. k - 1 \in T
    BY <1>1, <1>7
  <2> QED
    BY <2>3, <2>4 DEF Surjection
<1> QED
  BY <1>1, <1>2, <1>3, <1>5, <1>6, <1>7

LEMMA FunctionIsList ==
    ASSUME NEW S, NEW n \in Nat, NEW s \in [1 .. n -> S]
    PROVE  s \in Seq(S) /\ Len(s) = n
<1>1. s \in Seq(S)
  BY SeqDef
<1>2. Len(s) \in Nat /\ 1 .. Len(s) = 1 .. n
  BY <1>1, LenProperties
<1> QED
  BY <1>1, <1>2

\* Ascending lists the members of a set, once each and upwards.
LEMMA AscendingList ==
    ASSUME NEW S \in SUBSET Nat, IsFiniteSet(S)
    PROVE  /\ Cardinality(S) \in Nat
           /\ Ascending[S] \in [1 .. Cardinality(S) -> S]
           /\ \A i, k \in 1 .. Cardinality(S) : i < k => Ascending[S][i] < Ascending[S][k]
           /\ \A n \in S : \E k \in 1 .. Cardinality(S) : Ascending[S][k] = n
<1> DEFINE before == [n \in S |-> {m \in S : m < n}]
           Member(k) == CHOOSE n \in S : Cardinality({m \in S : m < n}) = k - 1
<1>1. /\ Cardinality(S) \in Nat
      /\ \A n \in S : Cardinality(before[n]) \in 0 .. Cardinality(S) - 1
      /\ \A m, n \in S : m \in before[n] <=> Cardinality(before[m]) < Cardinality(before[n])
      /\ \A m, n \in S : Cardinality(before[m]) = Cardinality(before[n]) => m = n
      /\ \A k \in 1 .. Cardinality(S) : \E n \in S : Cardinality(before[n]) = k - 1
  <2>1. \A n \in S : n \in Nat
    OBVIOUS
  <2>2. before \in [S -> SUBSET S]
    OBVIOUS
  <2>3. \A n \in S : n \notin before[n]
    BY <2>1
  <2>4. \A m, n \in S : m # n => m \in before[n] \/ n \in before[m]
    BY <2>1
  <2>5. \A m, n \in S : m \in before[n] => before[m] \subseteq before[n]
    <3> SUFFICES ASSUME NEW m \in S, NEW n \in S, m < n, NEW l \in S, l < m
                 PROVE  l < n
      OBVIOUS
    <3> QED
      BY <2>1
  <2> HIDE DEF before
  <2> QED
    BY <2>2, <2>3, <2>4, <2>5, Places, Zenon
<1>2. Ascending[S] = [k \in 1 .. Cardinality(S) |-> Member(k)]
  BY DEF Ascending
<1>3. \A n \in S : before[n] = {m \in S : m < n}
  OBVIOUS
<1>4. ASSUME NEW k \in 1 .. Cardinality(S)
      PROVE  Member(k) \in S /\ Cardinality(before[Member(k)]) = k - 1
  <2>1. \E n \in S : Cardinality({m \in S : m < n}) = k - 1
    BY <1>1, <1>3
  <2>2. Member(k) \in S /\ Cardinality({m \in S : m < Member(k)}) = k - 1
    BY <2>1
  <2> QED
    BY <2>2
<1> HIDE DEF Member
<1>5. \A i, k \in 1 .. Cardinality(S) : i < k => Member(i) < Member(k)
  <2> SUFFICES ASSUME NEW i \in 1 .. Cardinality(S), NEW k \in 1 .. Cardinality(S), i < k
               PROVE  Member(i) < Member(k)
    OBVIOUS
  <2>1. Cardinality(before[Member(i)]) < Cardinality(before[Member(k)])
    <3> HIDE DEF before
    <3> QED
      BY <1>1, <1>4
  <2>2. Member(i) \in before[Member(k)]
    <3> HIDE DEF before
    <3> QED
      BY <1>1, <1>4, <2>1
  <2>3. Member(i) \in {m \in S : m < Member(k)}
    BY <1>3, <1>4, <2>2
  <2> QED
    BY <2>3
<1> HIDE DEF before
<1>6. ASSUME NEW n \in S PROVE \E k \in 1 .. Cardinality(S) : Member(k) = n
  <2>1. Cardinality(before[n]) + 1 \in 1 .. Cardinality(S)
    BY <1>1
  <2>2. Cardinality(before[Member(Cardinality(before[n]) + 1)]) = Cardinality(before[n])
    BY <1>1, <1>4, <2>1
  <2> QED
    BY <1>1, <1>4, <2>1, <2>2
<1> QED
  BY <1>1, <1>2, <1>4, <1>5, <1>6

\* The numbers are those of the ids that filter keeps, upwards.
IsSortOf(numbers, ids) ==
    /\ \A i, k \in 1 .. Len(numbers) : i < k => numbers[i] =< numbers[k]
    /\ \A k \in 1 .. Len(numbers) :
          \E i \in DOMAIN ids : ids[i] >= MinNo /\ numbers[k] = ids[i]
    /\ \A i \in DOMAIN ids :
          ids[i] >= MinNo => \E k \in 1 .. Len(numbers) : numbers[k] = ids[i]

\* filter and sort do what their names say.
LEMMA NumbersAreSorted ==
    ASSUME NEW ids \in Seq(Nat), NEW numbers, numbers = ProblemNumbers[ids]
    PROVE  numbers \in Seq(Nat) /\ IsSortOf(numbers, ids)
<1> DEFINE S == Kept(ids)
           before == [i \in S |-> SortedBefore(ids, i)]
           Place(k) == CHOOSE i \in S : Cardinality(SortedBefore(ids, i)) = k - 1
<1>1. /\ IsFiniteSet(S)
      /\ \A i \in S : i \in 1 .. Len(ids) /\ i \in Nat /\ ids[i] \in Nat
  <2>1. Len(ids) \in Nat /\ DOMAIN ids = 1 .. Len(ids) /\ \A i \in 1 .. Len(ids) : ids[i] \in Nat
    OBVIOUS
  <2>2. 1 \in Int /\ Len(ids) \in Int
    BY <2>1
  <2>3. IsFiniteSet(1 .. Len(ids))
    BY <2>2, FS_Interval
  <2>4. S \in SUBSET (1 .. Len(ids))
    BY <2>1 DEF Kept
  <2>5. IsFiniteSet(S)
    BY <2>3, <2>4, FS_Subset
  <2> QED
    BY <2>1, <2>4, <2>5
<1>2. \A i, j \in S : j \in before[i] <=> ids[j] < ids[i] \/ (ids[j] = ids[i] /\ j < i)
  BY DEF SortedBefore
<1>3. /\ Cardinality(S) \in Nat
      /\ \A i \in S : Cardinality(before[i]) \in 0 .. Cardinality(S) - 1
      /\ \A i, j \in S : i \in before[j] <=> Cardinality(before[i]) < Cardinality(before[j])
      /\ \A i, j \in S : Cardinality(before[i]) = Cardinality(before[j]) => i = j
      /\ \A k \in 1 .. Cardinality(S) : \E i \in S : Cardinality(before[i]) = k - 1
  <2>1. before \in [S -> SUBSET S]
    BY DEF SortedBefore
  <2> HIDE DEF before, S
  <2>2. \A i \in S : i \notin before[i]
    BY <1>1, <1>2
  <2>3. \A i, j \in S : i # j => i \in before[j] \/ j \in before[i]
    BY <1>1, <1>2
  <2>4. \A i, j \in S : i \in before[j] => before[i] \subseteq before[j]
    <3> SUFFICES ASSUME NEW i \in S, NEW j \in S, i \in before[j], NEW l \in before[i]
                 PROVE  l \in before[j]
      OBVIOUS
    <3>1. l \in S
      BY <2>1
    <3>2. ids[l] < ids[i] \/ (ids[l] = ids[i] /\ l < i)
      BY <1>2, <3>1
    <3>3. ids[i] < ids[j] \/ (ids[i] = ids[j] /\ i < j)
      BY <1>2
    <3>4. /\ ids[l] \in Nat /\ ids[i] \in Nat /\ ids[j] \in Nat
          /\ l \in Nat /\ i \in Nat /\ j \in Nat
      BY <1>1, <3>1, Zenon
    <3>5. ids[l] < ids[j] \/ (ids[l] = ids[j] /\ l < j)
      BY <3>2, <3>3, <3>4
    <3> QED
      BY <1>2, <3>1, <3>5, Zenon
  <2> QED
    BY <1>1, <2>1, <2>2, <2>3, <2>4, Places, Zenon
<1>4. \A i \in S : before[i] = SortedBefore(ids, i)
  OBVIOUS
<1>5. numbers = [k \in 1 .. Cardinality(S) |-> ids[Place(k)]]
  BY DEF ProblemNumbers
<1>6. ASSUME NEW k \in 1 .. Cardinality(S)
      PROVE  Place(k) \in S /\ Cardinality(before[Place(k)]) = k - 1
  <2>1. \E i \in S : Cardinality(SortedBefore(ids, i)) = k - 1
    BY <1>3, <1>4
  <2>2. Place(k) \in S /\ Cardinality(SortedBefore(ids, Place(k))) = k - 1
    BY <2>1
  <2> QED
    BY <1>4, <2>2
<1> HIDE DEF Place, before, S
<1>7. numbers \in Seq(Nat) /\ Len(numbers) = Cardinality(S)
  <2>1. \A k \in 1 .. Cardinality(S) : ids[Place(k)] \in Nat
    BY <1>1, <1>6
  <2>2. numbers \in [1 .. Cardinality(S) -> Nat]
    BY <1>5, <2>1
  <2> QED
    BY <1>3, <2>2, FunctionIsList
<1>8. ASSUME NEW i \in 1 .. Len(numbers), NEW k \in 1 .. Len(numbers), i < k
      PROVE  numbers[i] =< numbers[k]
  <2>1. Place(i) \in before[Place(k)]
    BY <1>3, <1>6, <1>7, <1>8
  <2>2. Place(i) \in S /\ Place(k) \in S
    BY <1>6, <1>7
  <2>3. ids[Place(i)] =< ids[Place(k)]
    <3>1. ids[Place(i)] < ids[Place(k)] \/ ids[Place(i)] = ids[Place(k)]
      BY <1>2, <2>1, <2>2, Zenon
    <3>2. ids[Place(i)] \in Nat /\ ids[Place(k)] \in Nat
      BY <1>1, <2>2, Zenon
    <3> QED
      BY <3>1, <3>2
  <2> QED
    BY <1>5, <1>7, <2>3
<1>9. ASSUME NEW k \in 1 .. Len(numbers) PROVE \E i \in S : numbers[k] = ids[i]
  BY <1>5, <1>6, <1>7
<1>10. ASSUME NEW i \in S PROVE \E k \in 1 .. Len(numbers) : numbers[k] = ids[i]
  <2>1. Cardinality(before[i]) + 1 \in 1 .. Cardinality(S)
    BY <1>3
  <2>2. Place(Cardinality(before[i]) + 1) = i
    BY <1>3, <1>6, <2>1
  <2> QED
    BY <1>5, <1>7, <2>1, <2>2
<1>11. \A i : i \in S <=> i \in DOMAIN ids /\ ids[i] >= MinNo
  BY DEF S, Kept
<1> QED
  BY <1>7, <1>8, <1>9, <1>10, <1>11 DEF IsSortOf

\* The inner loop stops, and where it stops is the first number that is not
\* below current.
LEMMA IndexStops ==
    ASSUME NEW numbers \in Seq(Nat), NEW current \in Nat,
           NEW index, index = ProblemIndex(numbers, current)
    PROVE  /\ index \in 1 .. Len(numbers) + 1
           /\ index =< Len(numbers) => numbers[index] >= current
           /\ \A i \in 1 .. index - 1 : numbers[i] < current
<1> DEFINE K == {k \in 1 .. Len(numbers) + 1 : k =< Len(numbers) => numbers[k] >= current}
<1>1. Len(numbers) \in Nat /\ \A k \in 1 .. Len(numbers) : numbers[k] \in Nat
  OBVIOUS
<1>2. Len(numbers) + 1 \in K
  BY <1>1
<1>3. K \in SUBSET Nat /\ IsFiniteSet(K)
  <2>1. 1 \in Int /\ Len(numbers) + 1 \in Int
    BY <1>1
  <2>2. IsFiniteSet(1 .. Len(numbers) + 1)
    BY <2>1, FS_Interval
  <2>3. K \in SUBSET (1 .. Len(numbers) + 1) /\ 1 .. Len(numbers) + 1 \subseteq Nat
    BY <1>1
  <2> HIDE DEF K
  <2> QED
    BY <2>2, <2>3, FS_Subset
<1>4. PICK least \in K : \A k \in K : least =< k
  <2> HIDE DEF K
  <2> DEFINE up == Ascending[K]
  <2>1. /\ Cardinality(K) \in Nat /\ up \in [1 .. Cardinality(K) -> K]
        /\ \A i, k \in 1 .. Cardinality(K) : i < k => up[i] < up[k]
        /\ \A n \in K : \E k \in 1 .. Cardinality(K) : up[k] = n
    BY <1>3, AscendingList
  <2> HIDE DEF up
  <2>2. 1 \in 1 .. Cardinality(K)
    BY <1>2, <2>1
  <2>3. up[1] \in K
    BY <2>1, <2>2
  <2>4. ASSUME NEW k \in K PROVE up[1] =< k
    <3>1. PICK i \in 1 .. Cardinality(K) : up[i] = k
      BY <2>1
    <3>2. CASE i = 1
      BY <1>3, <3>1, <3>2
    <3>3. CASE i # 1
      <4>1. 1 < i
        BY <2>1, <3>3
      <4>2. up[1] < up[i]
        BY <2>1, <2>2, <4>1
      <4>3. up[1] \in Nat /\ k \in Nat
        BY <1>3, <2>3
      <4> QED
        BY <3>1, <4>2, <4>3
    <3> QED
      BY <3>2, <3>3
  <2> QED
    BY <2>3, <2>4
<1>5. \A i \in 1 .. least - 1 : numbers[i] < current
  <2> SUFFICES ASSUME NEW i \in 1 .. least - 1, ~(numbers[i] < current) PROVE FALSE
    OBVIOUS
  <2>1. i \in 1 .. Len(numbers) /\ numbers[i] \in Nat
    BY <1>1, <1>4
  <2>2. i \in K
    BY <1>1, <2>1
  <2> QED
    BY <1>1, <1>4, <2>2
<1>6. \E k \in 1 .. Len(numbers) + 1 :
         /\ k =< Len(numbers) => numbers[k] >= current
         /\ \A i \in 1 .. k - 1 : numbers[i] < current
  BY <1>4, <1>5
<1> HIDE DEF K
<1> QED
  BY <1>6 DEF ProblemIndex

\* The walk along the sorted numbers finds exactly what is not among them.
LEMMA WalkFindsMissing ==
    ASSUME NEW numbers \in Seq(Nat),
           \A i, k \in 1 .. Len(numbers) : i < k => numbers[i] =< numbers[k]
    PROVE  Missing[numbers] =
             {n \in Numbers \ Excluded : \A k \in 1 .. Len(numbers) : numbers[k] # n}
<1>1. Len(numbers) \in Nat /\ \A k \in 1 .. Len(numbers) : numbers[k] \in Nat
  OBVIOUS
<1>2. CASE numbers = <<>>
  <2>1. Missing[numbers] = Numbers \ Excluded /\ Len(numbers) = 0
    BY <1>2 DEF Missing
  <2> QED
    BY <2>1
<1>3. CASE numbers # <<>>
  <2>1. Missing[numbers] = {n \in Numbers : IsMissing(numbers, n)}
    BY <1>3 DEF Missing
  <2>2. ASSUME NEW n \in Numbers
        PROVE  IsMissing(numbers, n) <=>
                 n \notin Excluded /\ \A k \in 1 .. Len(numbers) : numbers[k] # n
    <3>0. n \in Nat
      BY PlanAssumption DEF Numbers
    <3>1. PICK index : index = ProblemIndex(numbers, n)
      OBVIOUS
    <3>2. /\ index \in 1 .. Len(numbers) + 1
          /\ index =< Len(numbers) => numbers[index] >= n
          /\ \A i \in 1 .. index - 1 : numbers[i] < n
      BY <3>0, <3>1, IndexStops
    <3>3. IsMissing(numbers, n) <=>
            (index > Len(numbers) \/ numbers[index] # n) /\ n \notin Excluded
      BY <3>1 DEF IsMissing
    <3>4. ASSUME NEW k \in 1 .. Len(numbers), numbers[k] = n
          PROVE  index =< Len(numbers) /\ numbers[index] = n
      <4>1. index =< k
        BY <1>1, <3>0, <3>2, <3>4
      <4>2. numbers[index] =< numbers[k]
        BY <1>1, <3>2, <4>1
      <4> QED
        BY <1>1, <3>0, <3>2, <3>4, <4>1, <4>2
    <3>5. (index > Len(numbers) \/ numbers[index] # n) <=>
             \A k \in 1 .. Len(numbers) : numbers[k] # n
      BY <1>1, <3>2, <3>4
    <3> QED
      BY <3>3, <3>5
  <2> QED
    BY <2>1, <2>2
<1> QED
  BY <1>2, <1>3

\* The first TargetCount of the missing problems are the smallest ones.
LEMMA EnoughAreSmallest ==
    ASSUME NEW missing \in SUBSET Nat, IsFiniteSet(missing),
           NEW plan, plan = Enough[Ascending[missing]]
    PROVE  /\ plan \in Seq(missing) /\ Len(plan) =< TargetCount
           /\ \A i, k \in DOMAIN plan : i < k => plan[i] < plan[k]
           /\ \A n \in missing : \/ \E i \in DOMAIN plan : plan[i] = n
                                 \/ /\ Len(plan) = TargetCount
                                    /\ \A i \in DOMAIN plan : plan[i] < n
<1> DEFINE all == Ascending[missing]
           size == Cardinality(missing)
<1>1. /\ size \in Nat /\ all \in [1 .. size -> missing]
      /\ \A i, k \in 1 .. size : i < k => all[i] < all[k]
      /\ \A n \in missing : \E k \in 1 .. size : all[k] = n
  BY AscendingList
<1>2. TargetCount \in Nat
  BY PlanAssumption
<1> HIDE DEF all, size
<1>3. all \in Seq(missing) /\ Len(all) = size
  BY <1>1, FunctionIsList
<1>4. all \in Seq(Nat)
  BY <1>3, SeqMonotonic
<1>5. plan = IF size < TargetCount THEN all ELSE SubSeq(all, 1, TargetCount)
  BY <1>3, <1>4 DEF Enough, all
<1>6. CASE size < TargetCount
  <2>1. plan = all /\ DOMAIN plan = 1 .. size /\ Len(plan) = size
    BY <1>1, <1>3, <1>5, <1>6
  <2> QED
    BY <1>1, <1>2, <1>3, <1>6, <2>1
<1>7. CASE ~(size < TargetCount)
  <2>1. /\ plan \in Seq(missing) /\ Len(plan) = TargetCount
        /\ \A i \in 1 .. TargetCount : plan[i] = all[i]
    <3>1. plan = SubSeq(all, 1, TargetCount)
      BY <1>5, <1>7
    <3>2. TargetCount =< Len(all) /\ Len(all) \in Nat
      BY <1>1, <1>2, <1>3, <1>7
    <3> QED
      BY <1>2, <1>3, <3>1, <3>2
  <2>2. DOMAIN plan = 1 .. TargetCount
    BY <2>1, LenProperties
  <2>3. \A i \in 1 .. TargetCount : i \in 1 .. size
    BY <1>1, <1>2, <1>7
  <2>4. ASSUME NEW n \in missing, \A i \in DOMAIN plan : plan[i] # n
        PROVE  \A i \in DOMAIN plan : plan[i] < n
    <3>1. PICK k \in 1 .. size : all[k] = n
      BY <1>1
    <3>2. k \notin 1 .. TargetCount
      BY <2>1, <2>2, <2>4, <3>1
    <3>3. \A i \in 1 .. TargetCount : i < k
      BY <1>1, <1>2, <3>2
    <3> QED
      BY <1>1, <2>1, <2>2, <2>3, <3>1, <3>3
  <2>5. ASSUME NEW i \in DOMAIN plan, NEW k \in DOMAIN plan, i < k PROVE plan[i] < plan[k]
    BY <1>1, <2>1, <2>2, <2>3, <2>5
  <2>6. Len(plan) =< TargetCount
    BY <1>2, <2>1
  <2>7. plan \in Seq(missing) /\ Len(plan) = TargetCount
    BY <2>1
  <2> QED
    BY ONLY <2>4, <2>5, <2>6, <2>7
<1> QED
  BY <1>6, <1>7

\* What plan finds missing: the numbers that are neither among the source ids
\* nor on a list.
LEMMA MissingAreAbsent ==
    ASSUME NEW ids \in Seq(Nat)
    PROVE  /\ Missing[ProblemNumbers[ids]] =
                {n \in Numbers \ Excluded : \A i \in DOMAIN ids : ids[i] # n}
           /\ MissingProblems[ids] = Enough[Ascending[Missing[ProblemNumbers[ids]]]]
<1>1. PICK numbers : numbers = ProblemNumbers[ids]
  OBVIOUS
<1>2. numbers \in Seq(Nat) /\ IsSortOf(numbers, ids)
  BY <1>1, NumbersAreSorted
<1>3. Missing[numbers] =
        {n \in Numbers \ Excluded : \A k \in 1 .. Len(numbers) : numbers[k] # n}
  BY <1>2, WalkFindsMissing DEF IsSortOf
<1>4. ASSUME NEW n \in Numbers
      PROVE  (\E k \in 1 .. Len(numbers) : numbers[k] = n) <=> \E i \in DOMAIN ids : ids[i] = n
  <2>1. n >= MinNo
    BY PlanAssumption DEF Numbers
  <2> QED
    BY <1>2, <2>1 DEF IsSortOf
<1>5. Missing[numbers] = {n \in Numbers \ Excluded : \A i \in DOMAIN ids : ids[i] # n}
  BY <1>3, <1>4
<1> QED
  BY <1>1, <1>5 DEF MissingProblems

\* plan answers with the smallest missing numbers, once each and in order, as
\* many as it is asked for or all.
LEMMA PlanIsSmallest ==
    ASSUME NEW ids \in Seq(Nat), NEW plan, plan = MissingProblems[ids],
           NEW missing, missing = {n \in Numbers \ Excluded : \A i \in DOMAIN ids : ids[i] # n}
    PROVE  /\ plan \in Seq(missing) /\ Len(plan) =< TargetCount
           /\ \A i, k \in DOMAIN plan : i < k => plan[i] < plan[k]
           /\ \A n \in missing : \/ \E i \in DOMAIN plan : plan[i] = n
                                 \/ /\ Len(plan) = TargetCount
                                    /\ \A i \in DOMAIN plan : plan[i] < n
<1>1. plan = Enough[Ascending[missing]]
  BY MissingAreAbsent
<1>2. missing \in SUBSET Nat /\ IsFiniteSet(missing)
  <2>1. MinNo \in Int /\ EndNo - 1 \in Int
    BY PlanAssumption
  <2>2. IsFiniteSet(Numbers)
    BY <2>1, FS_Interval DEF Numbers
  <2>3. missing \in SUBSET Numbers /\ Numbers \subseteq Nat
    BY PlanAssumption DEF Numbers
  <2> QED
    BY <2>2, <2>3, FS_Subset
<1> QED
  BY <1>1, <1>2, EnoughAreSmallest

\* findMany finds the problems and the rows of the other sources.
LEMMA SourceIdsFacts ==
    ASSUME NEW problems \in SUBSET Numbers
    PROVE  /\ SourceIds(problems) \in Seq(Nat)
           /\ {SourceIds(problems)[i] : i \in DOMAIN SourceIds(problems)}
                = problems \cup {Foreign[i] : i \in DOMAIN Foreign}
<1> DEFINE listed == Ascending[problems]
           size == Cardinality(problems)
<1>1. problems \in SUBSET Nat /\ IsFiniteSet(problems)
  <2>1. MinNo \in Int /\ EndNo - 1 \in Int
    BY PlanAssumption
  <2>2. IsFiniteSet(Numbers)
    BY <2>1, FS_Interval DEF Numbers
  <2>3. Numbers \subseteq Nat
    BY PlanAssumption DEF Numbers
  <2> QED
    BY <2>2, <2>3, FS_Subset
<1>2. /\ size \in Nat /\ listed \in [1 .. size -> problems]
      /\ \A n \in problems : \E k \in 1 .. size : listed[k] = n
  BY <1>1, AscendingList
<1>3. SourceIds(problems) = Foreign \o listed
  BY DEF SourceIds
<1> HIDE DEF listed, size
<1>4. listed \in Seq(problems) /\ Len(listed) = size
  BY <1>2, FunctionIsList
<1>5. listed \in Seq(Nat) /\ Foreign \in Seq(Nat)
  BY <1>1, <1>4, SeqMonotonic, CollectionAssumption
<1> DEFINE ids == Foreign \o listed
<1>6. /\ ids \in Seq(Nat) /\ Len(ids) = Len(Foreign) + size
      /\ \A i \in 1 .. Len(Foreign) + size :
            ids[i] = IF i =< Len(Foreign) THEN Foreign[i] ELSE listed[i - Len(Foreign)]
  BY <1>4, <1>5, ConcatProperties
<1>7. /\ DOMAIN ids = 1 .. Len(Foreign) + size /\ Len(Foreign) \in Nat
      /\ DOMAIN Foreign = 1 .. Len(Foreign)
  BY <1>5, <1>6, LenProperties
<1> HIDE DEF ids
<1>8. ASSUME NEW i \in DOMAIN ids
      PROVE  ids[i] \in problems \cup {Foreign[k] : k \in DOMAIN Foreign}
  <2>1. CASE i =< Len(Foreign)
    BY <1>6, <1>7, <2>1
  <2>2. CASE ~(i =< Len(Foreign))
    BY <1>2, <1>6, <1>7, <2>2
  <2> QED
    BY <2>1, <2>2
<1>9. ASSUME NEW n \in problems PROVE \E i \in DOMAIN ids : ids[i] = n
  <2>1. PICK k \in 1 .. size : listed[k] = n
    BY <1>2
  <2>2. /\ Len(Foreign) + k \in 1 .. Len(Foreign) + size
        /\ ~(Len(Foreign) + k =< Len(Foreign)) /\ Len(Foreign) + k - Len(Foreign) = k
    BY <1>2, <1>7
  <2>3. ids[Len(Foreign) + k] = n
    BY <1>6, <2>1, <2>2
  <2> QED
    BY <1>7, <2>2, <2>3
<1>10. ASSUME NEW k \in DOMAIN Foreign PROVE \E i \in DOMAIN ids : ids[i] = Foreign[k]
  <2>1. k \in 1 .. Len(Foreign) + size /\ k =< Len(Foreign)
    BY <1>2, <1>7
  <2> QED
    BY <1>6, <1>7, <2>1
<1>11. {ids[i] : i \in DOMAIN ids} = problems \cup {Foreign[k] : k \in DOMAIN Foreign}
  BY <1>8, <1>9, <1>10
<1>12. ids = SourceIds(problems)
  BY <1>3 DEF ids
<1> QED
  BY <1>6, <1>11, <1>12

-------------------------------------------------------------------------------
(* The invariant of the loads *)

\* TypeOK without what the plans hold, which is of no account here.
ShapeOK ==
    /\ DOMAIN firings = Firings /\ DOMAIN plans = Firings
    /\ flows \in [Flows -> FlowType]
    /\ children \in [Numbers -> [Kinds -> 0 .. MaxCopies]]

\* A problem that is not there has no children.
NoOrphans == \A n \in Numbers \ rows : \A kind \in Kinds : children[n][kind] = 0

\* A load that got behind a deleteMany finds nothing to keep.
DeletedInv ==
    \A f \in Rewriting :
        LET n == Number(f)
        IN  n \in Numbers \ overlapped =>
              /\ flows[f].pc \in {"samples", "subtasks", "upsert"} => children[n]["types"] = 0
              /\ flows[f].pc \in {"subtasks", "upsert"} => children[n]["samples"] = 0
              /\ flows[f].pc = "upsert" => children[n]["subtasks"] = 0

\* Loads of one problem that are under way together are recorded.
AloneInv ==
    \A f, g \in Rewriting :
        f # g /\ Number(f) = Number(g) => Number(f) \in overlapped

\* A firing plans only when its last flows have ended.
PlannedInv ==
    \A t \in Firings : firings[t].pc = "planned" =>
        \A f \in FlowsOf(t) : flows[f].pc \in Ended

LoadInv ==
    ShapeOK /\ NoOrphans /\ DeletedInv /\ AloneInv /\ OneCopyOfEach /\ WholeUnlessHurt

\* The initial state satisfies the invariant.
LEMMA InitLoadInv == Init => LoadInv
<1> SUFFICES ASSUME Init PROVE LoadInv
  OBVIOUS
<1> USE CollectionAssumption
<1>1. ShapeOK
  BY DEF Init, ShapeOK, FlowType, Waiting, Ended, Inside, Kinds
<1>2. NoOrphans /\ OneCopyOfEach /\ WholeUnlessHurt
  BY DEF Init, NoOrphans, OneCopyOfEach, WholeUnlessHurt
<1>3. Rewriting = {}
  BY DEF Init, Rewriting, Busy, Waiting, Inside
<1>4. DeletedInv /\ AloneInv
  BY <1>3 DEF DeletedInv, AloneInv
<1> QED
  BY <1>1, <1>2, <1>4 DEF LoadInv

-------------------------------------------------------------------------------
(* Kinds of steps *)

\* A step that leaves the problems alone and lets no load begin.
LEMMA QuietStep ==
    ASSUME LoadInv, ShapeOK',
           UNCHANGED <<rows, children, overlapped>>,
           \A f \in Flows : f \in Rewriting' =>
               f \in Rewriting /\ Number(f)' = Number(f) /\ flows'[f].pc = flows[f].pc,
           \A f \in Rewriting : f \in Rewriting' \/ Number(f) \in hurt',
           hurt \subseteq hurt'
    PROVE  LoadInv'
<1> USE DEF LoadInv
<1>1. \A f \in Rewriting' : f \in Flows
  BY DEF Rewriting, Busy
<1>2. NoOrphans'
  BY DEF NoOrphans
<1>3. DeletedInv'
  BY <1>1 DEF DeletedInv
<1>4. AloneInv'
  BY <1>1 DEF AloneInv
<1>5. OneCopyOfEach'
  BY DEF OneCopyOfEach
<1>6. WholeUnlessHurt'
  BY <1>1 DEF WholeUnlessHurt
<1> QED
  BY <1>2, <1>3, <1>4, <1>5, <1>6

-------------------------------------------------------------------------------
(* Shape *)

\* No step changes the shape of the state.
LEMMA ShapeStep == ShapeOK /\ [Next]_vars => ShapeOK'
<1> SUFFICES ASSUME ShapeOK, [Next]_vars PROVE ShapeOK'
  OBVIOUS
<1> USE CollectionAssumption DEF ShapeOK
<1>1. ASSUME NEW t \in Firings, ReadProblems(t) PROVE ShapeOK'
  BY <1>1 DEF ReadProblems
<1>2. ASSUME NEW t \in Firings, StartFlows(t) PROVE ShapeOK'
  <2>1. flows' \in [Flows -> FlowType]
    BY <1>2 DEF StartFlows, FlowType, Waiting, Ended
  <2> QED
    BY <1>2, <2>1 DEF StartFlows
<1>3. ASSUME NEW f \in Flows, Step(f) PROVE ShapeOK'
  <2>1. UNCHANGED <<firings, plans>>
    BY <1>3 DEF Step, Collect, Process, FindProblem, DeleteChildren, DeleteMany,
                UpsertProblem, Finish
  <2>2. flows' \in [Flows -> FlowType]
    <3>1. \/ \E step \in {"process", "load", "ended"} :
                flows' = [flows EXCEPT ![f] = Waiting(step)]
          \/ \E pc \in Inside : flows' = [flows EXCEPT ![f].pc = pc]
      BY <1>3 DEF Step, Collect, Process, FindProblem, DeleteChildren, DeleteMany,
                  UpsertProblem, Finish, NextStep, Throw, Inside
    <3>2. \A step \in {"process", "load", "ended"} : Waiting(step) \in FlowType
      BY DEF FlowType, Waiting, Ended
    <3>3. ASSUME NEW pc \in Inside PROVE [flows[f] EXCEPT !.pc = pc] \in FlowType
      <4>1. flows[f] \in FlowType
        OBVIOUS
      <4> QED
        BY <4>1 DEF FlowType
    <3> QED
      BY <3>1, <3>2, <3>3
  <2>3. children' \in [Numbers -> [Kinds -> 0 .. MaxCopies]]
    <3> DEFINE C == [Numbers -> [Kinds -> 0 .. MaxCopies]]
    <3>1. ASSUME NEW kind, NEW n PROVE Without(kind, n) \in C
      <4>1. CASE n \in Numbers
        <5>0. children[n] \in [Kinds -> 0 .. MaxCopies] /\ 0 \in 0 .. MaxCopies
          BY <4>1
        <5>1. [children[n] EXCEPT ![kind] = 0] \in [Kinds -> 0 .. MaxCopies]
          BY <5>0
        <5> QED
          BY <4>1, <5>1 DEF Without
      <4>2. CASE n \notin Numbers
        BY <4>2 DEF Without
      <4> QED
        BY <4>1, <4>2
    <3>2. ASSUME NEW n PROVE With(n, Kinds) \in C
      <4>1. CASE n \in Numbers
        <5>1. [kind \in Kinds |-> Capped(children[n][kind] + 1)] \in [Kinds -> 0 .. MaxCopies]
          BY <4>1 DEF Capped
        <5> QED
          BY <4>1, <5>1 DEF With
      <4>2. CASE n \notin Numbers
        BY <4>2 DEF With
      <4> QED
        BY <4>1, <4>2
    <3>3. \/ UNCHANGED children
          \/ \E kind \in Kinds : children' = Without(kind, Number(f))
          \/ children' = With(Number(f), Kinds)
      BY <1>3 DEF Step, Collect, Process, FindProblem, DeleteChildren,
                DeleteMany, UpsertProblem, Create, Finish, Kinds
    <3> QED
      BY <3>1, <3>2, <3>3
  <2> QED
    BY <2>1, <2>2, <2>3
<1>4. CASE Crash
  <2>1. flows' \in [Flows -> FlowType]
    BY <1>4 DEF Crash, FlowType, Waiting, Restarted, Inside, Ended
  <2> QED
    BY <1>4, <2>1 DEF Crash
<1>5. CASE UNCHANGED vars
  BY <1>5 DEF vars
<1>6. ASSUME NEW t \in Requests, NEW n \in Asked, Request(t, n) PROVE ShapeOK'
  <2>1. flows' \in [Flows -> FlowType]
    BY <1>6 DEF Request, FlowType, Waiting, Ended
  <2> QED
    BY <1>6, <2>1 DEF Request
<1> QED
  BY <1>1, <1>2, <1>3, <1>4, <1>5, <1>6 DEF Next

-------------------------------------------------------------------------------
(* Loads *)

\* A step that throws without having written anything.
LEMMA ThrowStep ==
    ASSUME LoadInv, ShapeOK', NEW f \in Flows, Throw(f),
           UNCHANGED <<plans, rows, children, overlapped>>
    PROVE  LoadInv'
<1>1. \A g \in Flows : g \in Rewriting' =>
          g \in Rewriting /\ Number(g)' = Number(g) /\ flows'[g].pc = flows[g].pc
  BY DEF LoadInv, ShapeOK, Throw, Waiting, Rewriting, Busy, Inside, Number
<1>2. \A g \in Rewriting : g \in Rewriting' \/ Number(g) \in hurt'
  BY DEF LoadInv, ShapeOK, Throw, Rewriting, Busy
<1> QED
  BY <1>1, <1>2, QuietStep DEF Throw

\* A step that returned to something that is no load under way.
LEMMA ReturnStep ==
    ASSUME LoadInv, ShapeOK', NEW f \in Flows \ Rewriting, NEW step,
           step \notin Inside, NextStep(f, step),
           UNCHANGED <<plans, rows, children, hurt, overlapped>>
    PROVE  LoadInv'
<1>1. \A g \in Flows : g # f => flows'[g] = flows[g]
  BY DEF LoadInv, ShapeOK, NextStep
<1>2. f \notin Rewriting'
  BY DEF LoadInv, ShapeOK, NextStep, Waiting, Rewriting, Busy
<1>3. \A g \in Flows : g \in Rewriting' =>
          g \in Rewriting /\ Number(g)' = Number(g) /\ flows'[g].pc = flows[g].pc
  BY <1>1, <1>2 DEF Rewriting, Busy, Number
<1>4. \A g \in Rewriting : g \in Rewriting' \/ Number(g) \in hurt'
  BY <1>1 DEF Rewriting, Busy
<1> QED
  BY <1>3, <1>4, QuietStep

\* findUnique: a load begins, or fails before it did anything.
LEMMA FindStep ==
    ASSUME LoadInv, ShapeOK', NEW f \in Flows, FindProblem(f)
    PROVE  LoadInv'
<1>1. CASE Throw(f) /\ UNCHANGED overlapped
  BY <1>1, ThrowStep DEF FindProblem
<1>2. CASE /\ flows' = [flows EXCEPT ![f].pc = IF Number(f) \in rows THEN "types" ELSE "upsert"]
           /\ overlapped' = overlapped \cup ({Number(g) : g \in Rewriting} \cap {Number(f)})
           /\ UNCHANGED hurt
  <2> USE DEF LoadInv, FindProblem
  <2>1. flows[f].pc = "load" /\ UNCHANGED <<plans, rows, children>>
    BY <1>2
  <2>2. f \notin Rewriting /\ Rewriting' = Rewriting \cup {f}
    BY <1>2, <2>1 DEF ShapeOK, Rewriting, Busy, Inside
  <2>3. \A g \in Rewriting : flows'[g] = flows[g]
    BY <1>2, <2>2 DEF ShapeOK, Rewriting, Busy
  <2>4. \A g : Number(g)' = Number(g)
    BY <2>1 DEF Number
  <2>5. flows'[f].pc = IF Number(f) \in rows THEN "types" ELSE "upsert"
    BY <1>2 DEF ShapeOK, FlowType
  <2>6. NoOrphans' /\ OneCopyOfEach'
    BY <1>2, <2>1 DEF NoOrphans, OneCopyOfEach
  <2>7. DeletedInv'
    <3>1. Number(f) \in Numbers \ rows => \A kind \in Kinds : children[Number(f)][kind] = 0
      BY DEF NoOrphans
    <3> QED
      BY <1>2, <2>1, <2>2, <2>3, <2>4, <2>5, <3>1 DEF DeletedInv, Kinds
  <2>8. AloneInv'
    BY <1>2, <2>2, <2>4 DEF AloneInv
  <2>9. WholeUnlessHurt'
    BY <1>2, <2>1, <2>2, <2>4 DEF WholeUnlessHurt
  <2> QED
    BY <2>6, <2>7, <2>8, <2>9
<1> QED
  BY <1>1, <1>2 DEF FindProblem

\* A deleteMany: it deletes and the load goes on, or the load fails.
LEMMA DeleteStep ==
    ASSUME LoadInv, ShapeOK', NEW f \in Flows, DeleteChildren(f)
    PROVE  LoadInv'
<1> DEFINE n == Number(f)
<1> USE DEF LoadInv
<1>1. /\ f \in Rewriting
      /\ UNCHANGED <<plans, rows, overlapped>>
      /\ hurt \subseteq hurt'
  BY DEF DeleteChildren, DeleteMany, Throw, Rewriting, Busy, Inside
<1>2. \A g : Number(g)' = Number(g)
  BY <1>1 DEF Number
<1>3. \A g \in Flows : g # f => flows'[g] = flows[g]
  BY DEF DeleteChildren, DeleteMany, Throw, ShapeOK
<1>4. /\ Rewriting' \subseteq Rewriting
      /\ Rewriting \ {f} \subseteq Rewriting'
      /\ f \notin Rewriting' => n \in hurt'
  <2>1. \/ Throw(f)
        \/ flows'[f].pc \in {"samples", "subtasks", "upsert"}
    BY DEF DeleteChildren, DeleteMany, ShapeOK, FlowType
  <2>2. Throw(f) => n \in hurt'
    BY <1>1 DEF Throw
  <2>3. flows'[f].pc \in {"samples", "subtasks", "upsert"} => f \in Rewriting'
    BY DEF Rewriting, Busy, Inside
  <2>4. \A g \in Flows : g # f => (g \in Rewriting' <=> g \in Rewriting)
    BY <1>3 DEF Rewriting, Busy
  <2>5. Rewriting' \subseteq Flows /\ Rewriting \subseteq Flows
    BY DEF Rewriting, Busy
  <2> QED
    BY <1>1, <2>1, <2>2, <2>3, <2>4, <2>5
<1>5. \A m \in Numbers : \A kind \in Kinds :
          children'[m][kind] = IF m = n THEN children'[n][kind] ELSE children[m][kind]
  BY DEF DeleteChildren, DeleteMany, Without, ShapeOK
<1>6. \A kind \in Kinds : n \in Numbers => children'[n][kind] \in {0, children[n][kind]}
  BY DEF DeleteChildren, DeleteMany, Without, ShapeOK
<1>7. NoOrphans'
  BY <1>1, <1>5, <1>6 DEF NoOrphans
<1>8. OneCopyOfEach'
  BY <1>1, <1>5, <1>6 DEF OneCopyOfEach, ShapeOK
<1>9. AloneInv'
  BY <1>1, <1>2, <1>4 DEF AloneInv
<1>10. WholeUnlessHurt'
  <2> SUFFICES ASSUME NEW m \in (Numbers \cap rows) \ hurt', m \notin {Number(g) : g \in Rewriting'}
               PROVE  \A kind \in Kinds : children'[m][kind] > 0
    BY <1>1, <1>2 DEF WholeUnlessHurt
  <2>1. m # n
    BY <1>4
  <2>2. ~ \E g \in Rewriting : Number(g) = m
    BY <1>4, <2>1
  <2> QED
    BY <1>1, <1>5, <2>1, <2>2 DEF WholeUnlessHurt
<1>11. DeletedInv'
  <2> SUFFICES ASSUME NEW g \in Rewriting', Number(g) \in Numbers \ overlapped
               PROVE  LET m == Number(g)
                      IN  /\ flows'[g].pc \in {"samples", "subtasks", "upsert"} => children'[m]["types"] = 0
                          /\ flows'[g].pc \in {"subtasks", "upsert"} => children'[m]["samples"] = 0
                          /\ flows'[g].pc = "upsert" => children'[m]["subtasks"] = 0
    BY <1>1, <1>2 DEF DeletedInv
  <2>1. g \in Rewriting /\ g \in Flows
    BY <1>4 DEF Rewriting, Busy
  <2>2. CASE g # f
    <3>1. Number(g) # n
      BY <1>1, <2>1, <2>2 DEF AloneInv
    <3> QED
      BY <1>3, <1>5, <2>1, <2>2, <3>1 DEF DeletedInv, Kinds
  <2>3. CASE g = f
    <3>1. \E kind \in Kinds, next \in Inside :
            /\ <<kind, next>> \in {<<"types", "samples">>, <<"samples", "subtasks">>, <<"subtasks", "upsert">>}
            /\ flows[f].pc = kind /\ flows'[f].pc = next
            /\ children'[n][kind] = 0
      BY <1>4, <2>3 DEF DeleteChildren, DeleteMany, Without, Throw, Waiting, ShapeOK, FlowType,
         Rewriting, Busy, Inside, Kinds
    <3> QED
      BY <1>1, <1>6, <2>3, <3>1 DEF DeletedInv, Kinds
  <2> QED
    BY <2>2, <2>3
<1> QED
  BY <1>7, <1>8, <1>9, <1>10, <1>11

\* The upsert: it writes one copy of each child, or none.
LEMMA UpsertStep ==
    ASSUME LoadInv, ShapeOK', NEW f \in Flows, UpsertProblem(f)
    PROVE  LoadInv'
<1> DEFINE n == Number(f)
<1> USE DEF LoadInv
<1>1. CASE Throw(f) /\ UNCHANGED <<rows, children>>
  BY <1>1, ThrowStep DEF UpsertProblem
<1>2. CASE Create(n)
  <2>1. f \in Rewriting /\ UNCHANGED <<plans, overlapped>>
    BY DEF UpsertProblem, Rewriting, Busy, Inside
  <2>2. \A g : Number(g)' = Number(g)
    BY <2>1 DEF Number
  <2>3. \A g \in Flows : g # f => flows'[g] = flows[g]
    BY DEF UpsertProblem, Throw, ShapeOK
  <2>4. flows'[f].pc \in {"loaded", "ended"}
    BY DEF UpsertProblem, Throw, Waiting, ShapeOK, FlowType
  <2>5. Rewriting' = Rewriting \ {f}
    BY <2>3, <2>4 DEF Rewriting, Busy, Inside
  <2>6. hurt \ {n} \subseteq hurt'
    BY DEF UpsertProblem, Throw
  <2>7. rows' = rows \cup {n}
    BY <1>2 DEF Create
  <2>8. \A m \in Numbers : \A kind \in Kinds :
            children'[m][kind] = IF m = n THEN Capped(children[n][kind] + 1) ELSE children[m][kind]
    BY <1>2 DEF Create, With, ShapeOK
  <2>9. n \in Numbers => \A kind \in Kinds :
            children'[n][kind] > 0 /\ (children[n][kind] = 0 => children'[n][kind] = 1)
    BY <2>8, CollectionAssumption DEF Capped, ShapeOK
  <2>10. NoOrphans'
    BY <2>7, <2>8 DEF NoOrphans
  <2>11. AloneInv'
    BY <2>1, <2>2, <2>5 DEF AloneInv
  <2>12. WholeUnlessHurt'
    <3> SUFFICES ASSUME NEW m \in (Numbers \cap rows') \ hurt', m # n
                 PROVE  \/ \A kind \in Kinds : children'[m][kind] > 0
                        \/ \E g \in Rewriting' : Number(g) = m
      BY <2>2, <2>9 DEF WholeUnlessHurt
    <3> QED
      BY <2>5, <2>6, <2>7, <2>8 DEF WholeUnlessHurt
  <2>13. OneCopyOfEach'
    <3>1. n \in Numbers \ overlapped => \A kind \in Kinds \ {"limits"} : children[n][kind] = 0
      BY <2>1 DEF DeletedInv, UpsertProblem, Kinds
    <3> QED
      BY <2>1, <2>8, <2>9, <3>1 DEF OneCopyOfEach
  <2>14. DeletedInv'
    <3> SUFFICES ASSUME NEW g \in Rewriting', Number(g) \in Numbers \ overlapped
                 PROVE  /\ flows'[g] = flows[g] /\ g \in Rewriting
                        /\ \A kind \in Kinds : children'[Number(g)][kind] = children[Number(g)][kind]
      BY <2>1, <2>2 DEF DeletedInv, Kinds
    <3>1. g \in Rewriting /\ g # f /\ g \in Flows
      BY <2>5 DEF Rewriting, Busy
    <3>2. Number(g) # n
      BY <2>1, <3>1 DEF AloneInv
    <3> QED
      BY <2>3, <2>8, <3>1, <3>2
  <2> QED
    BY <2>10, <2>11, <2>12, <2>13, <2>14
<1> QED
  BY <1>1, <1>2 DEF UpsertProblem

-------------------------------------------------------------------------------
(* All steps *)

\* Reading the table changes the plan of a firing that has no load under way.
LEMMA ReadStep ==
    ASSUME LoadInv, ShapeOK', NEW t \in Firings, ReadProblems(t)
    PROVE  LoadInv'
<1>1. Rewriting' = Rewriting
  BY DEF ReadProblems, Rewriting, Busy
<1>2. \A f \in Rewriting : f \in Flows /\ f[1] # t
  BY DEF ReadProblems, FlowsOf, Rewriting, Busy, Inside, Ended
<1>3. \A f \in Rewriting : Number(f)' = Number(f)
  <2> SUFFICES ASSUME NEW f \in Rewriting PROVE Number(f)' = Number(f)
    OBVIOUS
  <2>1. f[1] \in Firings \ {t}
    BY <1>2 DEF Flows
  <2>2. plans'[f[1]] = plans[f[1]]
    BY <2>1 DEF LoadInv, ShapeOK, ReadProblems
  <2> QED
    BY <2>2 DEF Number
<1> QED
  BY <1>1, <1>3, QuietStep DEF ReadProblems

\* Starting the flows of a firing starts and stops no load.
LEMMA StartStep ==
    ASSUME LoadInv, PlannedInv, ShapeOK', NEW t \in Firings, StartFlows(t)
    PROVE  LoadInv'
<1>1. \A f \in Rewriting : f \in Flows /\ f[1] # t
  BY DEF StartFlows, PlannedInv, FlowsOf, Rewriting, Busy, Inside, Ended
<1>2. \A f \in Flows : f[1] # t => flows'[f] = flows[f]
  BY DEF StartFlows
<1>3. \A f \in Flows : f[1] = t => flows'[f].pc \in {"collect", "ended"}
  BY DEF StartFlows, Waiting
<1>4. Rewriting' = Rewriting
  BY <1>1, <1>2, <1>3 DEF Rewriting, Busy, Inside
<1>5. \A f \in Rewriting : Number(f)' = Number(f) /\ flows'[f].pc = flows[f].pc
  BY <1>1, <1>2 DEF StartFlows, Number
<1> QED
  BY <1>4, <1>5, QuietStep DEF StartFlows

\* A request takes the place of a firing that has no load under way.
LEMMA RequestStep ==
    ASSUME LoadInv, ShapeOK', NEW t \in Requests, NEW n, Request(t, n)
    PROVE  LoadInv'
<1>0. t \in Firings
  BY CollectionAssumption
<1>1. \A f \in Flows : f[1] = t => flows[f].pc \in Ended /\ flows'[f].pc \in {"collect", "ended"}
  BY DEF Request, FlowsOf, Waiting
<1>2. \A f \in Flows : f[1] # t => flows'[f] = flows[f]
  BY DEF Request
<1>3. Rewriting' = Rewriting /\ \A f \in Rewriting : f \in Flows /\ f[1] # t
  BY <1>1, <1>2 DEF Rewriting, Busy, Inside, Ended
<1>4. \A f \in Rewriting : Number(f)' = Number(f)
  <2> SUFFICES ASSUME NEW f \in Rewriting PROVE Number(f)' = Number(f)
    OBVIOUS
  <2>1. f[1] \in Firings \ {t}
    BY <1>3 DEF Flows
  <2>2. plans'[f[1]] = plans[f[1]]
    BY <2>1 DEF LoadInv, ShapeOK, Request
  <2> QED
    BY <2>2 DEF Number
<1> QED
  BY <1>2, <1>3, <1>4, QuietStep DEF Request

\* A crash stops loads and records what it stopped.
LEMMA CrashStep ==
    ASSUME LoadInv, ShapeOK', Crash
    PROVE  LoadInv'
<1>1. PICK running \in SUBSET Flows :
        /\ \A f \in Flows \ running : flows'[f] = flows[f]
        /\ \A f \in running : flows'[f].pc \notin Inside
        /\ hurt' = hurt \cup {Number(f) : f \in Rewriting \cap running}
  <2>1. PICK running \in {{}} \cup {{f} : f \in {g \in Flows : flows[g].pc \notin Ended}},
             whole \in BOOLEAN :
          /\ flows' = [f \in Flows |->
                         IF f \notin running THEN flows[f]
                         ELSE IF flows[f].again THEN Waiting("ended")
                         ELSE [pc |-> Restarted(f), whole |-> whole, again |-> TRUE]]
          /\ hurt' = hurt \cup {Number(f) : f \in Rewriting \cap running}
    BY DEF Crash
  <2>2. running \in SUBSET Flows
    BY <2>1
  <2>3. \A f \in Flows : Restarted(f) \notin Inside
    BY DEF Restarted, Inside
  <2>4. \A f \in running : flows'[f].pc \in {Restarted(f), "ended"}
    BY <2>1, <2>2 DEF Waiting
  <2>5. \A f \in Flows \ running : flows'[f] = flows[f]
    BY <2>1
  <2>6. \A f \in running : flows'[f].pc \notin Inside
    BY <2>2, <2>3, <2>4 DEF Inside
  <2> QED
    BY <2>1, <2>2, <2>5, <2>6
<1>2. Rewriting' = Rewriting \ running
  BY <1>1 DEF Rewriting, Busy
<1>3. \A f : Number(f)' = Number(f)
  BY DEF Crash, Number
<1>4. \A f \in Rewriting' : flows'[f] = flows[f]
  BY <1>1, <1>2 DEF Rewriting, Busy
<1>5. \A f \in Rewriting : f \in Rewriting' \/ Number(f) \in hurt'
  BY <1>1, <1>2
<1> QED
  BY <1>1, <1>2, <1>3, <1>4, <1>5, QuietStep DEF Crash

\* Every step keeps the flows of a planning firing at their end.
LEMMA PlannedStep == ShapeOK /\ PlannedInv /\ [Next]_vars => PlannedInv'
<1> SUFFICES ASSUME ShapeOK, PlannedInv, [Next]_vars PROVE PlannedInv'
  OBVIOUS
<1> USE DEF PlannedInv, ShapeOK
<1>1. ASSUME NEW t \in Firings, ReadProblems(t) PROVE PlannedInv'
  BY <1>1 DEF ReadProblems, FlowsOf
<1>2. ASSUME NEW t \in Firings, StartFlows(t) PROVE PlannedInv'
  BY <1>2 DEF StartFlows, FlowsOf
<1>3. ASSUME NEW f \in Flows, Step(f) PROVE PlannedInv'
  <2>1. /\ flows[f].pc \notin Ended
        /\ UNCHANGED firings
        /\ \A g \in Flows : g # f => flows'[g] = flows[g]
    BY <1>3 DEF Step, Collect, Process, FindProblem, DeleteChildren, DeleteMany,
                UpsertProblem, Finish, NextStep, Throw, Ended
  <2>2. f \in FlowsOf(f[1]) /\ f[1] \in Firings
    BY DEF FlowsOf, Flows
  <2> QED
    BY <2>1, <2>2 DEF FlowsOf
<1>4. CASE Crash
  <2>1. \A f \in Flows : flows[f].pc \in Ended => flows'[f] = flows[f]
    BY <1>4 DEF Crash
  <2>2. \A t \in Firings : firings'[t].pc = "planned" => firings[t].pc = "planned"
    BY <1>4 DEF Crash
  <2> QED
    BY <2>1, <2>2 DEF FlowsOf
<1>5. CASE UNCHANGED vars
  BY <1>5 DEF vars, FlowsOf
<1>6. ASSUME NEW t \in Requests, NEW n \in Asked, Request(t, n) PROVE PlannedInv'
  <2>1. \A f \in Flows : f[1] # t => flows'[f] = flows[f]
    BY <1>6 DEF Request
  <2> QED
    BY <1>6, <2>1 DEF Request, FlowsOf
<1> QED
  BY <1>1, <1>2, <1>3, <1>4, <1>5, <1>6 DEF Next

\* Every step preserves the invariant.
LEMMA NextLoadInv == LoadInv /\ PlannedInv /\ [Next]_vars => LoadInv'
<1> SUFFICES ASSUME LoadInv, PlannedInv, [Next]_vars PROVE LoadInv'
  OBVIOUS
<1>0. ShapeOK'
  BY ShapeStep DEF LoadInv
<1>1. ASSUME NEW t \in Firings, ReadProblems(t) PROVE LoadInv'
  BY <1>0, <1>1, ReadStep
<1>2. ASSUME NEW t \in Firings, StartFlows(t) PROVE LoadInv'
  BY <1>0, <1>2, StartStep
<1>3. ASSUME NEW f \in Flows, Collect(f) \/ Process(f) \/ Finish(f) PROVE LoadInv'
  <2>1. f \notin Rewriting /\ UNCHANGED <<plans, rows, children, overlapped>>
    BY <1>3 DEF Collect, Process, Finish, Rewriting, Busy, Inside
  <2>2. CASE Throw(f)
    BY <1>0, <2>1, <2>2, ThrowStep
  <2>3. CASE ~Throw(f)
    <3>1. PICK step \in {"process", "load", "ended"} : NextStep(f, step) /\ UNCHANGED hurt
      BY <1>3, <2>3 DEF Collect, Process, Finish
    <3>2. step \notin Inside
      BY DEF Inside
    <3> QED
      BY <1>0, <2>1, <3>1, <3>2, ReturnStep
  <2> QED
    BY <2>2, <2>3
<1>4. ASSUME NEW f \in Flows, FindProblem(f) PROVE LoadInv'
  BY <1>0, <1>4, FindStep
<1>5. ASSUME NEW f \in Flows, DeleteChildren(f) PROVE LoadInv'
  BY <1>0, <1>5, DeleteStep
<1>6. ASSUME NEW f \in Flows, UpsertProblem(f) PROVE LoadInv'
  BY <1>0, <1>6, UpsertStep
<1>7. CASE Crash
  BY <1>0, <1>7, CrashStep
<1>8. CASE UNCHANGED vars
  <2>1. Rewriting' = Rewriting /\ \A f : Number(f)' = Number(f)
    BY <1>8 DEF vars, Rewriting, Busy, Number
  <2> QED
    BY <1>0, <1>8, <2>1, QuietStep DEF vars
<1>9. ASSUME NEW t \in Requests, NEW n \in Asked, Request(t, n) PROVE LoadInv'
  BY <1>0, <1>9, RequestStep
<1> QED
  BY <1>1, <1>2, <1>3, <1>4, <1>5, <1>6, <1>7, <1>8, <1>9 DEF Next, Step

\* The invariants hold in every state.
LEMMA LoadInvariant == Spec => [](LoadInv /\ PlannedInv)
<1>1. Init => PlannedInv
  BY DEF Init, PlannedInv
<1> QED
  BY InitLoadInv, NextLoadInv, PlannedStep, <1>1, PTL DEF Spec, LoadInv

-------------------------------------------------------------------------------
(* Theorems *)

\* Loads that fail, die or are repeated never make a second copy of a child of
\* a problem that no two loads rewrote together (ProblemBojLoadJob.run).
THEOREM NoSecondCopies == Spec => []OneCopyOfEach
<1>1. LoadInv => OneCopyOfEach
  BY DEF LoadInv
<1> QED
  BY <1>1, LoadInvariant, PTL

\* Only a load that failed or died can leave a problem without its children
\* (ProblemBojLoadJob.run), however many loads overlap.
THEOREM OnlyFailedLoadsHurt == Spec => []WholeUnlessHurt
<1>1. LoadInv => WholeUnlessHurt
  BY DEF LoadInv
<1> QED
  BY <1>1, LoadInvariant, PTL

\* With the one worker the system is run with no two loads ever rewrite a
\* problem together.
THEOREM OneWorkerNeverOverlaps ==
    ASSUME Workers = 1, IsFiniteSet(Firings)
    PROVE  Spec => [](overlapped = {})
<1> DEFINE Apart == overlapped = {}
<1>1. Init => Apart
  BY DEF Init
<1>2. Apart /\ [Next]_vars => Apart'
  <2> SUFFICES ASSUME overlapped = {}, Next, overlapped' # overlapped PROVE FALSE
    BY DEF vars
  <2>1. PICK f \in Flows : FindProblem(f)
    BY DEF Next, Step, ReadProblems, StartFlows, Request, Collect, Process, DeleteChildren,
           DeleteMany, UpsertProblem, Finish, Crash
  <2>2. IsFiniteSet(Busy)
    <3>1. IsFiniteSet(1 .. TargetCount)
      BY PlanAssumption, FS_Interval
    <3>2. IsFiniteSet(Flows)
      BY <3>1, FS_Product DEF Flows
    <3> QED
      BY <3>2, FS_Subset DEF Busy
  <2>3. Cardinality(Busy) = 0
    <3>1. Cardinality(Busy) \in Nat
      BY <2>2, FS_CardinalityType
    <3> QED
      BY <2>1, <3>1 DEF FindProblem, Free
  <2>4. Rewriting = {}
    BY <2>2, <2>3, FS_EmptySet DEF Rewriting
  <2> QED
    BY <2>1, <2>4 DEF FindProblem
<1> HIDE DEF Apart
<1>3. Spec => []Apart
  BY <1>1, <1>2, PTL DEF Spec
<1> QED
  BY <1>3 DEF Apart

-------------------------------------------------------------------------------
(* The plans and the types *)

\* A flow that has not ended is for a problem of its firing's plan.
PlannedFlows ==
    \A f \in Flows : flows[f].pc \notin Ended => f[2] \in DOMAIN plans[f[1]]

\* Until its flows are started, a plan is what the table it read says.
PlansAreAnswers ==
    \A t \in Firings : firings[t].pc = "planned" =>
        plans[t] = MissingProblems[SourceIds(firings[t].seen)]

CollectionInv == TypeOK /\ PlannedFlows /\ PlansAreAnswers

\* A plan lists problems.
LEMMA PlanType ==
    ASSUME NEW problems \in SUBSET Numbers
    PROVE  MissingProblems[SourceIds(problems)] \in Seq(Numbers)
<1>1. PICK missing : missing = {n \in Numbers \ Excluded :
                          \A i \in DOMAIN SourceIds(problems) : SourceIds(problems)[i] # n}
  OBVIOUS
<1>2. SourceIds(problems) \in Seq(Nat)
  BY SourceIdsFacts
<1>3. MissingProblems[SourceIds(problems)] \in Seq(missing)
  BY <1>1, <1>2, PlanIsSmallest
<1> QED
  BY <1>1, <1>3, SeqMonotonic

\* A flow under way has a problem.
LEMMA NumberType ==
    ASSUME CollectionInv, NEW f \in Flows, flows[f].pc \notin Ended
    PROVE  Number(f) \in Numbers
<1>1. f[1] \in Firings /\ f[2] \in DOMAIN plans[f[1]]
  BY DEF CollectionInv, PlannedFlows, Flows
<1>2. plans[f[1]] \in Seq(Numbers)
  BY <1>1 DEF CollectionInv, TypeOK
<1> QED
  BY <1>1, <1>2, LenProperties, ElementOfSeq DEF Number

LEMMA InitCollectionInv == Init => CollectionInv
<1> SUFFICES ASSUME Init PROVE CollectionInv
  OBVIOUS
<1> USE CollectionAssumption
<1>1. ShapeOK
  BY InitLoadInv DEF LoadInv
<1>2. <<>> \in Seq(Numbers)
  BY EmptySeq
<1>3. TypeOK
  BY <1>1, <1>2 DEF Init, TypeOK, ShapeOK
<1> QED
  BY <1>3 DEF Init, CollectionInv, PlannedFlows, PlansAreAnswers, Waiting, Ended

\* A step of a flow that is under way.
LEMMA StepCollectionInv ==
    ASSUME CollectionInv, ShapeOK', NEW f \in Flows, Step(f)
    PROVE  CollectionInv'
<1> DEFINE n == Number(f)
<1>1. UNCHANGED <<firings, plans>> /\ flows[f].pc \notin Ended
  BY DEF Step, Collect, Process, FindProblem, DeleteChildren, DeleteMany,
         UpsertProblem, Finish, Ended
<1>2. n \in Numbers
  BY <1>1, NumberType
<1>3. \A g \in Flows : g # f => flows'[g] = flows[g]
  BY DEF CollectionInv, TypeOK, Step, Collect, Process, FindProblem, DeleteChildren,
         DeleteMany, UpsertProblem, Finish, NextStep, Throw
<1> HIDE DEF n
<1>4. rows' \in SUBSET Numbers
  BY <1>2 DEF n, CollectionInv, TypeOK, Step, Collect, Process, FindProblem,
     DeleteChildren, DeleteMany, UpsertProblem, Finish, Create
<1>5. hurt' \in SUBSET Numbers
  BY <1>2 DEF n, CollectionInv, TypeOK, Step, Collect, Process, FindProblem,
     DeleteChildren, DeleteMany, UpsertProblem, Finish, Throw
<1>6. overlapped' \in SUBSET Numbers
  BY <1>2 DEF n, CollectionInv, TypeOK, Step, Collect, Process, FindProblem,
     DeleteChildren, DeleteMany, UpsertProblem, Finish
<1>7. faults' \in Nat
  BY DEF CollectionInv, TypeOK, Step, Collect, Process, FindProblem,
     DeleteChildren, DeleteMany, UpsertProblem, Finish, Fault
<1>8. TypeOK'
  BY <1>1, <1>4, <1>5, <1>6, <1>7 DEF CollectionInv, TypeOK, ShapeOK
<1>9. PlannedFlows'
  BY <1>1, <1>3 DEF CollectionInv, PlannedFlows
<1>10. PlansAreAnswers'
  BY <1>1 DEF CollectionInv, PlansAreAnswers, SourceIds
<1> QED
  BY <1>8, <1>9, <1>10 DEF CollectionInv

\* No step breaks the types, the flows of a plan or the answer a plan is.
LEMMA NextCollectionInv == CollectionInv /\ [Next]_vars => CollectionInv'
<1> SUFFICES ASSUME CollectionInv, [Next]_vars PROVE CollectionInv'
  OBVIOUS
<1>0. ShapeOK /\ ShapeOK'
  <2>1. ShapeOK
    BY DEF CollectionInv, TypeOK, ShapeOK
  <2> QED
    BY <2>1, ShapeStep
<1>1. ASSUME NEW t \in Firings, ReadProblems(t) PROVE CollectionInv'
  <2>1. /\ firings' = [firings EXCEPT ![t] = [pc |-> "planned", seen |-> rows]]
        /\ plans' = [plans EXCEPT ![t] = MissingProblems[SourceIds(rows)]]
        /\ UNCHANGED <<flows, rows, children, hurt, overlapped, faults>>
    BY <1>1 DEF ReadProblems
  <2>2. rows \in SUBSET Numbers
    BY DEF CollectionInv, TypeOK
  <2>3. MissingProblems[SourceIds(rows)] \in Seq(Numbers)
    BY <2>2, PlanType
  <2>4. TypeOK'
    BY <2>1, <2>2, <2>3 DEF CollectionInv, TypeOK
  <2>5. PlannedFlows'
    <3>1. \A f \in Flows : f[1] = t => flows[f].pc \in Ended
      BY <1>1 DEF ReadProblems, FlowsOf
    <3>2. \A f \in Flows : f[1] # t => plans'[f[1]] = plans[f[1]]
      BY <2>1 DEF CollectionInv, TypeOK, Flows
    <3> QED
      BY <2>1, <3>1, <3>2 DEF CollectionInv, PlannedFlows
  <2>6. PlansAreAnswers'
    <3> SUFFICES ASSUME NEW u \in Firings, firings'[u].pc = "planned"
                 PROVE  plans'[u] = MissingProblems[SourceIds(firings'[u].seen)]
      BY DEF PlansAreAnswers, SourceIds
    <3>1. CASE u = t
      BY <2>1, <3>1 DEF CollectionInv, TypeOK
    <3>2. CASE u # t
      BY <2>1, <3>2 DEF CollectionInv, TypeOK, PlansAreAnswers
    <3> QED
      BY <3>1, <3>2
  <2> QED
    BY <2>4, <2>5, <2>6 DEF CollectionInv
<1>2. ASSUME NEW t \in Firings, StartFlows(t) PROVE CollectionInv'
  <2>1. /\ firings' = [firings EXCEPT ![t] = [pc |-> "idle", seen |-> {}]]
        /\ UNCHANGED <<plans, rows, children, hurt, overlapped>>
        /\ faults' \in Nat
    BY <1>2 DEF StartFlows, Fault, CollectionInv, TypeOK
  <2>2. TypeOK'
    BY <1>0, <2>1 DEF CollectionInv, TypeOK, ShapeOK
  <2>3. PlannedFlows'
    <3>1. PICK started \in SUBSET DOMAIN plans[t] :
            flows' = [f \in Flows |->
                        IF f[1] # t THEN flows[f]
                        ELSE Waiting(IF f[2] \in started THEN "collect" ELSE "ended")]
      BY <1>2 DEF StartFlows
    <3> QED
      BY <2>1, <3>1 DEF CollectionInv, PlannedFlows, Waiting, Ended
  <2>4. PlansAreAnswers'
    <3> SUFFICES ASSUME NEW u \in Firings, firings'[u].pc = "planned"
                 PROVE  plans'[u] = MissingProblems[SourceIds(firings'[u].seen)]
      BY DEF PlansAreAnswers, SourceIds
    <3>1. u # t
      BY <2>1 DEF CollectionInv, TypeOK
    <3> QED
      BY <2>1, <3>1 DEF CollectionInv, TypeOK, PlansAreAnswers
  <2> QED
    BY <2>2, <2>3, <2>4 DEF CollectionInv
<1>3. ASSUME NEW f \in Flows, Step(f) PROVE CollectionInv'
  BY <1>0, <1>3, StepCollectionInv
<1>4. ASSUME Crash PROVE CollectionInv'
  <2>1. PICK lost \in SUBSET Firings, running \in SUBSET {g \in Flows : flows[g].pc \notin Ended} :
          /\ \A f \in Flows \ running : flows'[f] = flows[f]
          /\ firings' = [t \in Firings |->
                IF t \in lost THEN [pc |-> "idle", seen |-> {}] ELSE firings[t]]
          /\ hurt' = hurt \cup {Number(f) : f \in Rewriting \cap running}
    BY <1>4 DEF Crash
  <2>2. UNCHANGED <<plans, rows, children, overlapped>> /\ faults' \in Nat
    BY <1>4 DEF Crash, Fault, CollectionInv, TypeOK
  <2>3. \A f \in running : Number(f) \in Numbers
    BY NumberType
  <2>4. TypeOK'
    BY <1>0, <2>1, <2>2, <2>3 DEF CollectionInv, TypeOK, ShapeOK
  <2>5. PlannedFlows'
    BY <2>1, <2>2 DEF CollectionInv, PlannedFlows
  <2>6. PlansAreAnswers'
    <3> SUFFICES ASSUME NEW u \in Firings, firings'[u].pc = "planned"
                 PROVE  plans'[u] = MissingProblems[SourceIds(firings'[u].seen)]
      BY DEF PlansAreAnswers, SourceIds
    <3>1. firings'[u] = firings[u]
      BY <2>1
    <3> QED
      BY <2>2, <3>1 DEF CollectionInv, PlansAreAnswers
  <2> QED
    BY <2>4, <2>5, <2>6 DEF CollectionInv
<1>5. CASE UNCHANGED vars
  BY <1>5 DEF vars, CollectionInv, TypeOK, PlannedFlows, PlansAreAnswers, SourceIds
<1>6. ASSUME NEW t \in Requests, NEW n \in Asked, Request(t, n) PROVE CollectionInv'
  <2>1. /\ plans' = [plans EXCEPT ![t] = <<n>>] /\ firings[t].pc = "idle"
        /\ flows' = [f \in Flows |->
                       IF f[1] # t THEN flows[f]
                       ELSE Waiting(IF f[2] = 1 THEN "collect" ELSE "ended")]
        /\ UNCHANGED <<firings, rows, children, hurt, overlapped, faults>>
    BY <1>6 DEF Request
  <2>2. t \in Firings /\ n \in Numbers
    BY CollectionAssumption
  <2>3. <<n>> \in Seq(Numbers) /\ DOMAIN <<n>> = {1}
    BY <2>2
  <2>4. TypeOK'
    BY <1>0, <2>1, <2>3 DEF CollectionInv, TypeOK, ShapeOK
  <2>5. PlannedFlows'
    <3> SUFFICES ASSUME NEW f \in Flows, flows'[f].pc \notin Ended
                 PROVE  f[2] \in DOMAIN plans'[f[1]]
      BY DEF PlannedFlows
    <3>1. CASE f[1] = t
      <4>1. f[2] = 1
        BY <2>1, <3>1 DEF Waiting, Ended
      <4>2. plans'[f[1]] = <<n>>
        BY <2>1, <2>2, <3>1 DEF CollectionInv, TypeOK
      <4> QED
        BY <2>3, <4>1, <4>2
    <3>2. CASE f[1] # t
      BY <2>1, <3>2 DEF CollectionInv, TypeOK, PlannedFlows, Flows
    <3> QED
      BY <3>1, <3>2
  <2>6. PlansAreAnswers'
    <3> SUFFICES ASSUME NEW u \in Firings, firings'[u].pc = "planned"
                 PROVE  plans'[u] = MissingProblems[SourceIds(firings'[u].seen)]
      BY DEF PlansAreAnswers, SourceIds
    <3>1. u # t
      BY <2>1
    <3> QED
      BY <2>1, <3>1 DEF CollectionInv, TypeOK, PlansAreAnswers
  <2> QED
    BY <2>4, <2>5, <2>6 DEF CollectionInv
<1> QED
  BY <1>1, <1>2, <1>3, <1>4, <1>5, <1>6 DEF Next

\* For any firings, processes and faults, the plans list problems, a flow under way
\* is for one of them, and tables, flows and histories hold nothing but problems.
THEOREM TypeCorrect == Spec => []TypeOK
<1>1. CollectionInv => TypeOK
  BY DEF CollectionInv
<1> QED
  BY <1>1, InitCollectionInv, NextCollectionInv, PTL DEF Spec

\* The filter, the sort and the index walk of plan, for any table and any lists: a
\* plan lists the smallest problems that are missing and not excluded, in order
\* and once each, as many as asked for or all there are, and it stays so until its
\* flows are started, whatever is loaded meanwhile.
THEOREM PlansAreSmallest == Spec => []PlansSmallestMissing
<1>1. CollectionInv => PlansSmallestMissing
  <2> SUFFICES ASSUME CollectionInv, NEW t \in Firings, firings[t].pc = "planned",
                      NEW plan, plan = plans[t],
                      NEW missing, missing = Numbers \ (Known(t) \cup Excluded)
               PROVE  /\ {plan[i] : i \in DOMAIN plan} \subseteq missing
                      /\ \A i, k \in DOMAIN plan : i < k => plan[i] < plan[k]
                      /\ \A n \in missing \ {plan[i] : i \in DOMAIN plan} :
                            Len(plan) = TargetCount
                            /\ \A m \in {plan[i] : i \in DOMAIN plan} : m < n
    BY DEF PlansSmallestMissing
  <2>1. PICK problems \in SUBSET Numbers : problems = firings[t].seen
    BY DEF CollectionInv, TypeOK
  <2>2. PICK ids \in Seq(Nat) :
          ids = SourceIds(problems) /\ {ids[i] : i \in DOMAIN ids} = Known(t)
    BY <2>1, SourceIdsFacts DEF Known
  <2>3. plan = MissingProblems[ids]
    BY <2>1, <2>2 DEF CollectionInv, PlansAreAnswers
  <2>4. missing = {n \in Numbers \ Excluded : \A i \in DOMAIN ids : ids[i] # n}
    BY <2>2
  <2>5. /\ plan \in Seq(missing)
        /\ \A i, k \in DOMAIN plan : i < k => plan[i] < plan[k]
        /\ \A n \in missing : \/ \E i \in DOMAIN plan : plan[i] = n
                              \/ /\ Len(plan) = TargetCount
                                 /\ \A i \in DOMAIN plan : plan[i] < n
    BY <2>3, <2>4, PlanIsSmallest
  <2>6. \A i \in DOMAIN plan : plan[i] \in missing
    BY <2>5, LenProperties, ElementOfSeq
  <2> QED
    BY <2>5, <2>6
<1> QED
  BY <1>1, InitCollectionInv, NextCollectionInv, PTL DEF Spec
=============================================================================
