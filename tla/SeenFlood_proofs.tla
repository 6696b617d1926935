--------------------------- MODULE SeenFlood_proofs ---------------------------
(***************************************************************************)
(* That the slots of SeenFlood decide like a memory of every query, for    *)
(* any number of users, slots and seconds.                                 *)
(*                                                                         *)
(* The invariant says what the slots hold: slot i the time of the last     *)
(* query but i, or 0 if there was none.  Times never run backwards, so the *)
(* queries within FloodTime of query i are the last ones before it, and    *)
(* there are FloodNum of them exactly if the FloodNum-th last is one.      *)
(***************************************************************************)
EXTENDS SeenFlood, FiniteSetTheorems, TLAPS

Query == [user : Users, at : Epoch .. MaxTime]

\* The times of the queries never run backwards, nor past the clock.
Ordered ==
    /\ \A i, j \in DOMAIN asked : i <= j => asked[i].at <= asked[j].at
    /\ \A i \in DOMAIN asked : asked[i].at <= now

\* Slot i holds the time of the last query but i.
SlotsHoldLast ==
    \A i \in SlotNumbers :
        slots[i] = IF i < Len(asked) THEN asked[Len(asked) - i].at ELSE 0

\* Query i is the last of FloodNum within FloodTime.
Crowded(i) ==
    /\ FloodNum <= i
    /\ asked[i].at - asked[i - FloodNum + 1].at <= FloodTime

DropsCrowded == FloodNum # 0 => \A i \in DOMAIN asked : i \notin answered <=> Crowded(i)

IInv == TypeOK /\ Ordered /\ SlotsHoldLast /\ DropsCrowded

-----------------------------------------------------------------------------
\* The time of a query is one.
LEMMA TimesAreTimes ==
  ASSUME TypeOK, NEW i \in DOMAIN asked
  PROVE  asked[i].at \in Int
<1>1. asked \in Seq(Query)
  BY DEF TypeOK, Query
<1>2. asked[i] \in Query
  BY <1>1
<1>3. Epoch .. MaxTime \subseteq Int
  OBVIOUS
<1> QED
  BY <1>2, <1>3 DEF Query

\* A query is crowded exactly if FloodNum queries are recent when it comes.
LEMMA CrowdedIsRecent ==
  ASSUME TypeOK, Ordered, FloodNum # 0, NEW i \in DOMAIN asked
  PROVE  Crowded(i) <=> Cardinality(Recent(i)) >= FloodNum
<1>1. /\ asked \in Seq(Query) /\ DOMAIN asked = 1 .. Len(asked) /\ Len(asked) \in Nat
      /\ i \in Nat /\ i >= 1 /\ i <= Len(asked)
  BY DEF TypeOK, Query
<1>2. FloodNum \in Nat /\ FloodNum >= 1 /\ FloodTime \in Nat
  BY FloodAssumption
<1>3. \A j \in 1 .. i : asked[j].at \in Int
  BY <1>1, TimesAreTimes
<1>4. Recent(i) \subseteq 1 .. i
  BY DEF Recent
<1>5. IsFiniteSet(Recent(i)) /\ Cardinality(Recent(i)) \in Nat /\ Cardinality(Recent(i)) <= i
  <2>1. IsFiniteSet(1 .. i) /\ Cardinality(1 .. i) = i
    BY <1>1, FS_Interval
  <2> QED
    BY <1>4, <2>1, FS_Subset, FS_CardinalityType
<1>6. ASSUME Crowded(i) PROVE Cardinality(Recent(i)) >= FloodNum
  <2> DEFINE first == i - FloodNum + 1
  <2>1. first \in 1 .. i
    BY <1>1, <1>2, <1>6 DEF Crowded
  <2>2. \A j \in first .. i : j \in 1 .. i /\ asked[first].at <= asked[j].at
    BY <1>1, <2>1 DEF Ordered
  <2>3. first .. i \subseteq Recent(i)
    <3>1. asked[i].at - asked[first].at <= FloodTime
      BY <1>6 DEF Crowded
    <3>2. asked[first].at \in Int /\ asked[i].at \in Int
      BY <1>1, <1>3, <2>1
    <3> HIDE DEF first
    <3>3. \A j \in first .. i : asked[i].at - asked[j].at <= FloodTime
      BY <1>2, <1>3, <2>2, <3>1, <3>2
    <3> QED
      BY <2>2, <3>3 DEF Recent
  <2>4. Cardinality(first .. i) = FloodNum
    <3>1. first \in Int /\ first <= i /\ i - first + 1 = FloodNum
      BY <1>1, <1>2, <2>1
    <3> HIDE DEF first
    <3>2. Cardinality(first .. i) = IF first > i THEN 0 ELSE i - first + 1
      BY <1>1, <3>1, FS_Interval
    <3> QED
      BY <1>1, <3>1, <3>2
  <2> HIDE DEF first
  <2>5. Cardinality(first .. i) <= Cardinality(Recent(i))
    BY <1>5, <2>3, FS_Subset
  <2> QED
    BY <2>4, <2>5
<1>7. ASSUME ~Crowded(i) PROVE Cardinality(Recent(i)) < FloodNum
  <2>1. CASE i < FloodNum
    BY <1>1, <1>2, <1>5, <2>1
  <2>2. CASE i >= FloodNum
    <3> DEFINE first == i - FloodNum + 1
    <3>1. first \in 1 .. i /\ asked[i].at - asked[first].at > FloodTime
      BY <1>1, <1>2, <1>3, <1>7, <2>2 DEF Crowded
    <3>2. \A j \in 1 .. first : asked[j].at <= asked[first].at
      BY <1>1, <3>1 DEF Ordered
    <3>3. \A j \in 1 .. first : j \notin Recent(i)
      <4> HIDE DEF first
      <4> SUFFICES ASSUME NEW j \in 1 .. first PROVE ~(asked[i].at - asked[j].at <= FloodTime)
        BY DEF Recent
      <4>1. asked[j].at \in Int /\ asked[first].at \in Int /\ asked[i].at \in Int
        BY <1>1, <1>3, <3>1
      <4>2. asked[j].at <= asked[first].at
        BY <3>2
      <4> QED
        BY <1>2, <3>1, <4>1, <4>2
    <3>4. Recent(i) \subseteq first + 1 .. i
      BY <1>1, <1>4, <3>1, <3>3
    <3> HIDE DEF first
    <3>5. IsFiniteSet(first + 1 .. i) /\ Cardinality(first + 1 .. i) = FloodNum - 1
      <4>1. first + 1 \in Int /\ i \in Int
        BY <1>1, <3>1
      <4>2. /\ IsFiniteSet(first + 1 .. i)
            /\ Cardinality(first + 1 .. i) = IF first + 1 > i THEN 0 ELSE i - (first + 1) + 1
        BY <4>1, FS_Interval
      <4> QED
        BY <1>1, <1>2, <3>1, <4>2 DEF first
    <3>6. Cardinality(Recent(i)) <= FloodNum - 1
      BY <3>4, <3>5, FS_Subset
    <3> QED
      BY <1>2, <1>5, <3>6
  <2> QED
    BY <1>1, <1>2, <2>1, <2>2
<1> QED
  BY <1>2, <1>5, <1>6, <1>7

\* The oldest of the slots tells whether the next query is crowded.
LEMMA SlotTells ==
  ASSUME TypeOK, SlotsHoldLast, FloodNum # 0
  PROVE  IsFlood <=> /\ FloodNum <= Len(asked) + 1
                     /\ now - (IF FloodNum = 1 THEN now ELSE asked[Len(asked) - FloodNum + 2].at)
                            <= FloodTime
<1>1. /\ FloodNum \in Nat /\ FloodNum >= 1 /\ FloodTime \in Nat /\ MaxTime \in Nat
      /\ now \in Epoch .. MaxTime /\ Len(asked) \in Nat /\ Epoch = FloodTime + 1
  BY FloodAssumption DEF TypeOK, Epoch
<1>2. CASE FloodNum = 1
  BY <1>1, <1>2 DEF IsFlood, Shifted, SlotNumbers
<1>3. CASE FloodNum >= 2
  <2>1. Shifted[FloodNum - 1] = slots[FloodNum - 2]
    BY <1>1, <1>3 DEF Shifted, SlotNumbers
  <2>2. slots[FloodNum - 2] = IF FloodNum - 2 < Len(asked)
                              THEN asked[Len(asked) - (FloodNum - 2)].at ELSE 0
    BY <1>1, <1>3 DEF SlotsHoldLast, SlotNumbers
  <2>3. Len(asked) - (FloodNum - 2) = Len(asked) - FloodNum + 2
    BY <1>1
  <2> QED
    BY <1>1, <1>3, <2>1, <2>2, <2>3 DEF IsFlood
<1> QED
  BY <1>1, <1>2, <1>3

-----------------------------------------------------------------------------
\* The script starts in the invariant, with no query and no time in its slots.
LEMMA InitIInv == Init => IInv
<1> SUFFICES ASSUME Init PROVE IInv
  OBVIOUS
<1>1. Epoch \in Epoch .. MaxTime
  BY FloodAssumption DEF Epoch
<1>2. TypeOK
  BY <1>1, FloodAssumption DEF Init, TypeOK, Unused, SlotNumbers, Epoch
<1>3. Len(asked) = 0 /\ DOMAIN asked = {}
  BY DEF Init
<1>4. SlotsHoldLast
  BY <1>3 DEF Init, SlotsHoldLast, Unused, SlotNumbers
<1> QED
  BY <1>2, <1>3, <1>4 DEF IInv, Ordered, DropsCrowded

\* A query, answered or dropped, keeps the invariant.
LEMMA QueryKeepsIInv ==
  ASSUME IInv, NEW u \in Users, Heard(u), slots' = Shifted, now' = now,
         ignored' \in [Users -> 0 .. MaxTime + IgnoreTime],
         answered' = IF IsFlood THEN answered ELSE answered \cup {Len(asked) + 1}
  PROVE  IInv'
<1> DEFINE n == Len(asked)
           q == [user |-> u, at |-> now]
<1>0. /\ FloodNum \in Nat /\ FloodTime \in Nat /\ MaxTime \in Nat
      /\ Epoch = FloodTime + 1 /\ now \in Epoch .. MaxTime
  BY FloodAssumption DEF IInv, TypeOK, Epoch
<1>1. /\ asked \in Seq(Query) /\ q \in Query /\ asked' = Append(asked, q) /\ n \in Nat
  BY <1>0 DEF IInv, TypeOK, Query, Heard
<1>2. /\ asked' \in Seq(Query) /\ Len(asked') = n + 1
      /\ DOMAIN asked = 1 .. n /\ DOMAIN asked' = 1 .. n + 1
      /\ \A i \in 1 .. n : asked'[i] = asked[i]
      /\ asked'[n + 1] = q
  BY <1>1
<1>3. q.at = now
  OBVIOUS
<1> HIDE DEF n, q
<1>4. TypeOK'
  <2>1. slots' \in [SlotNumbers -> {0} \cup (Epoch .. MaxTime)]
    <3>1. \A i \in SlotNumbers : i # 0 => i - 1 \in SlotNumbers
      BY <1>0 DEF SlotNumbers
    <3> QED
      BY <1>0, <3>1 DEF Shifted, IInv, TypeOK
  <2>2. answered' \subseteq DOMAIN asked'
    <3>1. answered \subseteq 1 .. n
      BY <1>2 DEF IInv, TypeOK
    <3> QED
      <4>1. answered' \subseteq answered \cup {n + 1}
        BY DEF n
      <4>2. 1 .. n \subseteq 1 .. n + 1 /\ n + 1 \in 1 .. n + 1
        BY <1>1
      <4> QED
        BY <1>2, <3>1, <4>1, <4>2
  <2> QED
    BY <1>0, <1>2, <2>1, <2>2 DEF TypeOK, Query
<1>5. Ordered'
  <2>1. \A i \in 1 .. n : asked[i].at \in Int /\ asked[i].at <= now
    BY <1>2, TimesAreTimes DEF IInv, Ordered
  <2>2. \A i, j \in 1 .. n : i <= j => asked[i].at <= asked[j].at
    BY <1>2 DEF IInv, Ordered
  <2>3. \A i \in 1 .. n + 1 : i \in 1 .. n \/ i = n + 1
    BY <1>1
  <2>4. \A i \in 1 .. n + 1 : asked'[i].at <= now
    BY <1>0, <1>2, <1>3, <2>1, <2>3
  <2>5. \A i, j \in 1 .. n + 1 : i <= j => asked'[i].at <= asked'[j].at
    <3> SUFFICES ASSUME NEW i \in 1 .. n + 1, NEW j \in 1 .. n + 1, i <= j
                 PROVE  asked'[i].at <= asked'[j].at
      OBVIOUS
    <3>1. CASE j = n + 1
      BY <1>2, <1>3, <2>4, <3>1
    <3>2. CASE j \in 1 .. n
      <4>1. i \in 1 .. n
        BY <1>1, <3>2
      <4> QED
        BY <1>2, <2>2, <3>2, <4>1
    <3> QED
      BY <2>3, <3>1, <3>2
  <2> QED
    BY <1>2, <2>4, <2>5 DEF Ordered
<1>6. SlotsHoldLast'
  <2> SUFFICES ASSUME NEW i \in SlotNumbers
               PROVE  slots'[i] = IF i < Len(asked') THEN asked'[Len(asked') - i].at ELSE 0
    BY DEF SlotsHoldLast
  <2>1. CASE i = 0
    BY <1>1, <1>2, <1>3, <2>1 DEF Shifted
  <2>2. CASE i # 0
    <3>1. i - 1 \in SlotNumbers /\ i \in Nat /\ i >= 1
      BY <1>0, <2>2 DEF SlotNumbers
    <3>2. slots'[i] = slots[i - 1]
      BY <2>2 DEF Shifted
    <3>3. slots[i - 1] = IF i - 1 < n THEN asked[n - (i - 1)].at ELSE 0
      BY <3>1 DEF IInv, SlotsHoldLast, n
    <3>4. n - (i - 1) = n + 1 - i
      BY <1>1, <3>1
    <3>5. CASE i - 1 < n
      <4>1. n + 1 - i \in 1 .. n /\ i < n + 1
        BY <1>1, <3>1, <3>5
      <4>2. asked'[n + 1 - i] = asked[n + 1 - i]
        BY <1>2, <4>1
      <4>3. i < Len(asked') /\ Len(asked') - i = n + 1 - i
        BY <1>1, <1>2, <3>1, <4>1
      <4>4. slots'[i] = asked[n + 1 - i].at
        BY <3>2, <3>3, <3>4, <3>5
      <4> QED
        BY <4>2, <4>3, <4>4
    <3>6. CASE ~(i - 1 < n)
      <4>1. ~(i < Len(asked'))
        BY <1>1, <1>2, <3>1, <3>6
      <4> QED
        BY <3>2, <3>3, <3>6, <4>1
    <3> QED
      BY <3>5, <3>6
  <2> QED
    BY <2>1, <2>2
<1>7. DropsCrowded'
  <2> SUFFICES ASSUME FloodNum # 0, NEW i \in 1 .. n + 1
               PROVE  i \notin answered' <=> Crowded(i)'
    BY <1>2 DEF DropsCrowded
  <2>1. CASE i \in 1 .. n
    <3>1. i \notin answered' <=> i \notin answered
      BY <1>1, <2>1 DEF n
    <3>2. FloodNum <= i => i - FloodNum + 1 \in 1 .. n
      BY <1>0, <1>1, <2>1
    <3>3. Crowded(i)' <=> Crowded(i)
      BY <1>2, <2>1, <3>2 DEF Crowded
    <3> QED
      BY <1>2, <2>1, <3>1, <3>3 DEF IInv, DropsCrowded
  <2>2. CASE i = n + 1
    <3>1. n + 1 \notin answered
      <4>1. n + 1 \notin 1 .. n /\ answered \subseteq 1 .. n
        BY <1>1, <1>2 DEF IInv, TypeOK
      <4> QED
        BY <4>1
    <3>2. n + 1 \notin answered' <=> IsFlood
      BY <3>1 DEF n
    <3>4. asked'[i].at = now
      BY <1>2, <1>3, <2>2
    <3>5. CASE FloodNum = 1
      <4>1. i - FloodNum + 1 = i /\ FloodNum <= i
        BY <1>1, <2>2, <3>5
      <4>2. Crowded(i)' <=> now - now <= FloodTime
        BY <3>4, <4>1 DEF Crowded
      <4>3. IsFlood <=> 1 <= n + 1 /\ now - now <= FloodTime
        BY <3>5, SlotTells DEF IInv, n
      <4> QED
        BY <1>1, <2>2, <3>2, <4>2, <4>3
    <3>6. CASE FloodNum # 1
      <4>1. FloodNum <= i => i - FloodNum + 1 \in 1 .. n
        BY <1>0, <1>1, <2>2, <3>6
      <4>2. Crowded(i)' <=> /\ FloodNum <= i
                            /\ now - asked[i - FloodNum + 1].at <= FloodTime
        <5>1. Crowded(i)' <=> /\ FloodNum <= i
                              /\ asked'[i].at - asked'[i - FloodNum + 1].at <= FloodTime
          BY DEF Crowded
        <5>2. FloodNum <= i => asked'[i - FloodNum + 1] = asked[i - FloodNum + 1]
          BY <1>2, <4>1
        <5> QED
          BY <3>4, <5>1, <5>2
      <4>3. i - FloodNum + 1 = n - FloodNum + 2
        BY <1>0, <1>1, <2>2
      <4>4. IsFlood <=> /\ FloodNum <= n + 1
                        /\ now - asked[n - FloodNum + 2].at <= FloodTime
        BY <3>6, SlotTells DEF IInv, n
      <4> QED
        <5>1. asked[i - FloodNum + 1] = asked[n - FloodNum + 2]
          BY <4>3
        <5>2. Crowded(i)' <=> IsFlood
          BY <2>2, <4>2, <4>4, <5>1
        <5> QED
          BY <2>2, <3>2, <5>2
    <3> QED
      BY <3>5, <3>6
  <2> QED
    BY <1>1, <2>1, <2>2
<1> QED
  BY <1>4, <1>5, <1>6, <1>7 DEF IInv

\* Every step keeps the invariant.
LEMMA StepIInv == IInv /\ [Next]_vars => IInv'
<1> SUFFICES ASSUME IInv, [Next]_vars PROVE IInv'
  OBVIOUS
<1>0. /\ FloodTime \in Nat /\ IgnoreTime \in Nat /\ MaxTime \in Nat
      /\ Epoch = FloodTime + 1 /\ now \in Epoch .. MaxTime
  BY FloodAssumption DEF IInv, TypeOK, Epoch
<1>1. ASSUME NEW u \in Users, Answer(u) PROVE IInv'
  <2>1. ignored' \in [Users -> 0 .. MaxTime + IgnoreTime]
    BY <1>1 DEF Answer, IInv, TypeOK
  <2> QED
    BY <1>1, <2>1, QueryKeepsIInv DEF Answer
<1>2. ASSUME NEW u \in Users, Drop(u) PROVE IInv'
  <2>1. now + IgnoreTime \in 0 .. MaxTime + IgnoreTime
    BY <1>0
  <2>2. ignored' \in [Users -> 0 .. MaxTime + IgnoreTime]
    BY <1>2, <2>1 DEF Drop, IInv, TypeOK
  <2> QED
    BY <1>2, <2>2, QueryKeepsIInv DEF Drop
<1>3. CASE Rehash
  <2>1. Len(asked') = 0 /\ DOMAIN asked' = {} /\ asked' \in Seq(Query)
    BY <1>3 DEF Rehash
  <2>2. TypeOK'
    BY <1>0, <1>3, <2>1 DEF Rehash, IInv, TypeOK, Unused, SlotNumbers, Query
  <2>3. SlotsHoldLast'
    BY <1>3, <2>1 DEF Rehash, SlotsHoldLast, Unused, SlotNumbers
  <2> QED
    BY <2>1, <2>2, <2>3 DEF IInv, Ordered, DropsCrowded
<1>4. CASE Tick
  <2>1. now' \in Epoch .. MaxTime /\ now' = now + 1
    BY <1>0, <1>4 DEF Tick
  <2>2. UNCHANGED <<slots, ignored, asked, answered>>
    BY <1>4 DEF Tick
  <2>3. TypeOK'
    BY <2>1, <2>2 DEF IInv, TypeOK
  <2>4. \A i \in DOMAIN asked : asked[i].at \in Int
    BY TimesAreTimes DEF IInv
  <2>5. Ordered'
    BY <1>0, <2>1, <2>2, <2>4 DEF IInv, Ordered
  <2> QED
    BY <2>2, <2>3, <2>5 DEF IInv, SlotsHoldLast, DropsCrowded, Crowded
<1>5. CASE UNCHANGED vars
  BY <1>5 DEF vars, IInv, TypeOK, Ordered, SlotsHoldLast, DropsCrowded, Crowded
<1> QED
  BY <1>1, <1>2, <1>3, <1>4, <1>5 DEF Next

-----------------------------------------------------------------------------
\* The invariant of every behaviour of the flood protection.
LEMMA Invariance == Spec => []IInv
  BY InitIInv, StepIInv, PTL DEF Spec

\* The slots, the ignores and the memory of the queries keep their types.
THEOREM TypeCorrect == Spec => []TypeOK
<1>1. IInv => TypeOK
  BY DEF IInv
<1> QED
  BY <1>1, Invariance, PTL

\* The flood protection drops a query exactly if it is at least the
\* FloodNum-th within FloodTime.
THEOREM FloodsAreDropped == Spec => []DropsByWindow
<1>1. IInv => DropsByWindow
  BY CrowdedIsRecent DEF IInv, DropsCrowded, DropsByWindow
<1> QED
  BY <1>1, Invariance, PTL

\* The queries that are recent when query i comes are finitely many.
LEMMA RecentIsFinite ==
  ASSUME NEW i \in Nat
  PROVE  IsFiniteSet(Recent(i)) /\ IsFiniteSet(AnsweredBy(i))
<1>1. IsFiniteSet(1 .. i)
  BY FS_Interval
<1>2. Recent(i) \subseteq 1 .. i /\ AnsweredBy(i) \subseteq 1 .. i
  BY DEF Recent, AnsweredBy
<1> QED
  BY <1>1, <1>2, FS_Subset

\* A non-empty set of the numbers up to n has a last element: the first numbers
\* that cover it, as few of them as possible, end in it.
LEMMA LastOf ==
  ASSUME NEW n \in Nat, NEW S \in SUBSET (1 .. n), S # {}
  PROVE  \E k \in S : \A j \in S : j <= k
<1> DEFINE Covers == {C \in SUBSET (1 .. n) : \E k \in 0 .. n : C = 1 .. k /\ S \subseteq C}
<1>1. IsFiniteSet(1 .. n)
  BY FS_Interval
<1>2. FiniteSubsetsOf(1 .. n) = SUBSET (1 .. n)
  BY <1>1, FS_FiniteSubsetsOfFinite
<1>3. IsWellFoundedOn(StrictSubsetOrdering(1 .. n), SUBSET (1 .. n))
  BY <1>2, FS_StrictSubsetOrderingWellFounded
<1>4. Covers \subseteq SUBSET (1 .. n) /\ 1 .. n \in Covers
  OBVIOUS
<1> HIDE DEF Covers
<1>5. PICK C \in Covers : \A D \in Covers : ~(<<D, C>> \in StrictSubsetOrdering(1 .. n))
  BY <1>3, <1>4, WFMin
<1> USE DEF Covers
<1>6. PICK k \in 0 .. n : C = 1 .. k /\ S \subseteq 1 .. k
  BY <1>5
<1>7. k \in S
  <2> SUFFICES ASSUME k \notin S PROVE FALSE
    OBVIOUS
  <2>0. PICK j \in S : j \in 1 .. k
    BY <1>6
  <2>1. k > 0 /\ k - 1 \in 0 .. n
    BY <1>6, <2>0
  <2>2. S \subseteq 1 .. k - 1 /\ 1 .. k - 1 \in SUBSET (1 .. n)
    BY <1>6, <2>1
  <2>3. 1 .. k - 1 \in Covers
    BY <2>1, <2>2
  <2>4. /\ 1 .. k - 1 \subseteq 1 .. k /\ 1 .. k - 1 # 1 .. k
        /\ 1 .. k \in SUBSET (1 .. n)
    <3>1. k \in 1 .. k /\ k \notin 1 .. k - 1
      BY <2>1
    <3> QED
      BY <2>1, <3>1
  <2>5. <<1 .. k - 1, 1 .. k>> \in StrictSubsetOrdering(1 .. n)
    BY <2>2, <2>4 DEF StrictSubsetOrdering
  <2> QED
    BY <1>5, <1>6, <2>3, <2>5
<1> QED
  BY <1>6, <1>7

\* Between two rehashes, fewer than FloodNum answers fall into any FloodTime
\* seconds: the last of them was let through, so it was not the FloodNum-th
\* query, and the queries that were dropped after it are no answers.
THEOREM AnswersRationed == Spec => []AnswersAreRationed
<1>1. IInv => AnswersAreRationed
  <2> SUFFICES ASSUME IInv, FloodNum # 0, NEW i \in DOMAIN asked
               PROVE  Cardinality(AnsweredBy(i)) < FloodNum
    BY DEF AnswersAreRationed
  <2>1. /\ DOMAIN asked = 1 .. Len(asked) /\ Len(asked) \in Nat /\ i \in Nat
        /\ FloodNum \in Nat /\ FloodNum >= 1 /\ FloodTime \in Nat
    BY FloodAssumption DEF IInv, TypeOK
  <2>2. \A j \in DOMAIN asked : asked[j].at \in Int
    BY TimesAreTimes DEF IInv
  <2>3. \A j \in AnsweredBy(i) : Cardinality(Recent(j)) < FloodNum
    <3> SUFFICES ASSUME NEW j \in AnsweredBy(i)
                 PROVE  Cardinality(Recent(j)) < FloodNum
      OBVIOUS
    <3>1. j \in DOMAIN asked /\ j \in answered /\ j \in Nat
      BY <2>1 DEF AnsweredBy, Recent
    <3>2. ~(Cardinality(Recent(j)) >= FloodNum)
      BY <3>1, CrowdedIsRecent DEF IInv, DropsCrowded
    <3>3. Cardinality(Recent(j)) \in Nat
      BY <3>1, RecentIsFinite, FS_CardinalityType
    <3> QED
      BY <2>1, <3>2, <3>3
  <2>4. CASE AnsweredBy(i) = {}
    BY <2>1, <2>4, FS_EmptySet
  <2>5. CASE AnsweredBy(i) # {}
    \* The last answer at or before query i.
    <3>1. PICK k \in AnsweredBy(i) : \A j \in AnsweredBy(i) : j <= k
      <4>1. AnsweredBy(i) \in SUBSET (1 .. i)
        BY DEF AnsweredBy, Recent
      <4> QED
        BY <2>1, <2>5, <4>1, LastOf
    <3>2. k \in 1 .. i /\ k \in DOMAIN asked /\ asked[i].at - asked[k].at <= FloodTime
      BY <2>1, <3>1 DEF AnsweredBy, Recent
    <3>3. AnsweredBy(i) \subseteq Recent(k)
      <4> SUFFICES ASSUME NEW j \in AnsweredBy(i)
                   PROVE  j \in Recent(k)
        OBVIOUS
      <4>1. j \in 1 .. i /\ j <= k /\ j \in DOMAIN asked /\ asked[i].at - asked[j].at <= FloodTime
        BY <2>1, <3>1 DEF AnsweredBy, Recent
      <4>2. asked[k].at <= asked[i].at
        BY <3>2, <2>1 DEF IInv, Ordered
      <4> QED
        BY <2>1, <2>2, <3>2, <4>1, <4>2 DEF Recent
    <3>4. Cardinality(AnsweredBy(i)) <= Cardinality(Recent(k))
      BY <2>1, <3>2, <3>3, RecentIsFinite, FS_Subset
    <3>5. Cardinality(AnsweredBy(i)) \in Nat /\ Cardinality(Recent(k)) \in Nat
      BY <2>1, <3>2, RecentIsFinite, FS_CardinalityType
    <3> QED
      BY <2>1, <2>3, <3>1, <3>4, <3>5
  <2> QED
    BY <2>4, <2>5
<1> QED
  BY <1>1, Invariance, PTL

=============================================================================
