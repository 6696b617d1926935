-------------------------- MODULE SearchCache_proofs --------------------------
(***************************************************************************)
(* The cache keeps its cap and serves only the last answer stored for a    *)
(* query within its time to live, for any queries, spellings, cap and      *)
(* time to live.                                                           *)
(***************************************************************************)
EXTENDS SearchCache, FiniteSetTheorems, TLAPS

\* An entry in the store is the last one that was set for its key.
CachedIsLatest ==
    \A k \in Cached : /\ k \in DOMAIN latest
                      /\ store[k] = latest[k]
                      /\ store[k].expires_at = store[k].created_at + Ttl

IInv ==
    /\ TypeOK
    /\ IsFiniteSet(Cached)
    /\ WithinCap
    /\ CachedIsLatest

\* Initially there is no entry.
LEMMA InitIInv == Init => IInv
<1> SUFFICES ASSUME Init PROVE IInv
  OBVIOUS
<1>1. now \in Nat /\ Cached = {} /\ DOMAIN latest = {}
  BY BoundsAssumption DEF Init, NoEntries, Cached
<1>2. store = [k \in {} |-> Miss] /\ latest = [k \in {} |-> Miss]
  BY DEF Init, NoEntries
<1>3. Cardinality(Cached) = 0 /\ IsFiniteSet(Cached)
  BY <1>1, FS_EmptySet
<1>4. TypeOK
  BY <1>1, <1>2 DEF TypeOK, Cached
<1> QED
  BY <1>1, <1>3, <1>4, BoundsAssumption DEF IInv, WithinCap, CachedIsLatest

\* Dropping an entry keeps the invariant.
LEMMA DropStep ==
  ASSUME IInv, NEW k, store' = Without(store, k), UNCHANGED <<now, latest>>
  PROVE  IInv'
<1>1. Cached' = Cached \ {k} /\ \A j \in Cached' : store'[j] = store[j]
  BY DEF Cached, Without
<1>2. IsFiniteSet(Cached') /\ Cardinality(Cached') <= Cardinality(Cached)
  BY <1>1, FS_Subset DEF IInv
<1>3. Cardinality(Cached') \in Nat /\ Cardinality(Cached) \in Nat
  BY <1>2, FS_CardinalityType DEF IInv
<1>4. TypeOK'
  BY <1>1 DEF IInv, TypeOK, Cached, Without, Entry, Keys
<1> QED
  BY <1>1, <1>2, <1>3, <1>4, BoundsAssumption DEF IInv, WithinCap, CachedIsLatest

\* Storing an answer, with or without an eviction, keeps the invariant.
LEMMA SetStep ==
  ASSUME IInv, NEW t \in Texts, NEW a \in Answers, Set(t, a)
  PROVE  IInv'
<1> DEFINE k == Folded[t]
           e == NewEntry(a)
           filled == With(store, k, e)
<1>1. /\ k \in Keys /\ Normalize(t) = k /\ now' = now
      /\ latest' = With(latest, k, e)
  BY DEF Keys, Normalize, Set
<1>2. /\ e.answer \in Answers /\ e.created_at = now /\ e.expires_at = now + Ttl
      /\ e \in Entry /\ now \in Nat
  BY BoundsAssumption DEF NewEntry, Entry, IInv, TypeOK
<1> HIDE DEF k, e
<1>3. /\ DOMAIN filled = Cached \cup {k}
      /\ \A i \in DOMAIN filled : filled[i] = IF i = k THEN e ELSE store[i]
  BY DEF With, Cached
<1>4. \/ ~Overfull(k) /\ store' = filled
      \/ Overfull(k) /\ \E j \in DOMAIN filled : store' = Without(filled, j)
  BY <1>1 DEF Set, Oldest, k, e
<1> HIDE DEF filled
<1>5. /\ Cached' \subseteq Cached \cup {k}
      /\ \A i \in Cached' : store'[i] = IF i = k THEN e ELSE store[i]
      /\ store' = [i \in Cached' |-> IF i = k THEN e ELSE store[i]]
  <2>1. CASE store' = filled
    BY <2>1, <1>3 DEF Cached, filled, With
  <2>2. ASSUME NEW j \in DOMAIN filled, store' = Without(filled, j)
        PROVE  /\ Cached' \subseteq Cached \cup {k}
               /\ \A i \in Cached' : store'[i] = IF i = k THEN e ELSE store[i]
               /\ store' = [i \in Cached' |-> IF i = k THEN e ELSE store[i]]
    BY <2>2, <1>3 DEF Cached, Without
  <2> QED
    BY <1>4, <2>1, <2>2
<1>6. IsFiniteSet(Cached') /\ Cardinality(Cached') <= MaxEntries
  <2>1. /\ IsFiniteSet(Cached) /\ Cardinality(Cached) \in Nat
        /\ Cardinality(Cached) <= MaxEntries
    BY FS_CardinalityType DEF IInv, WithinCap
  <2>2. /\ IsFiniteSet(Cached \cup {k})
        /\ Cardinality(Cached \cup {k})
             = IF k \in Cached THEN Cardinality(Cached) ELSE Cardinality(Cached) + 1
    BY <2>1, FS_AddElement
  <2>3. CASE ~Overfull(k) /\ store' = filled
    <3>1. Cached' = Cached \cup {k}
      BY <2>3, <1>3 DEF Cached
    <3>2. k \in Cached \/ ~(Cardinality(Cached \cup {k}) > MaxEntries)
      BY <2>3 DEF Overfull
    <3> QED
      BY <3>1, <3>2, <2>1, <2>2, BoundsAssumption
  <2>4. ASSUME Overfull(k), NEW j \in DOMAIN filled, store' = Without(filled, j)
        PROVE  IsFiniteSet(Cached') /\ Cardinality(Cached') <= MaxEntries
    <3>1. Cached' = (Cached \cup {k}) \ {j} /\ j \in Cached \cup {k}
      BY <2>4, <1>3 DEF Cached, Without
    <3>2. k \notin Cached
      BY <2>4 DEF Overfull
    <3>3. /\ IsFiniteSet((Cached \cup {k}) \ {j})
          /\ Cardinality((Cached \cup {k}) \ {j}) = Cardinality(Cached \cup {k}) - 1
      BY <2>2, <3>1, FS_RemoveElement
    <3> QED
      BY <3>1, <3>2, <3>3, <2>1, <2>2
  <2> QED
    BY <1>4, <2>3, <2>4
<1>7. /\ DOMAIN latest' = DOMAIN latest \cup {k}
      /\ latest' = [i \in DOMAIN latest' |-> IF i = k THEN e ELSE latest[i]]
  BY <1>1 DEF With
<1>8. TypeOK'
  <2>1. Entry' = Entry
    BY <1>1 DEF Entry
  <2>2. Cached' \subseteq Keys /\ \A i \in Cached' \ {k} : store[i] \in Entry
    BY <1>1, <1>5 DEF IInv, TypeOK
  <2>3. store' \in [Cached' -> Entry]
    BY <1>2, <1>5, <2>2
  <2>4. /\ DOMAIN latest' \subseteq Keys
        /\ latest' \in [DOMAIN latest' -> Entry]
    BY <1>1, <1>2, <1>7 DEF IInv, TypeOK
  <2> QED
    BY <1>1, <1>2, <2>1, <2>2, <2>3, <2>4 DEF TypeOK, Keys
<1>9. CachedIsLatest'
  BY <1>2, <1>5, <1>7 DEF IInv, CachedIsLatest
<1> QED
  BY <1>6, <1>8, <1>9 DEF IInv, WithinCap

\* Every operation of the cache, and time, keep the invariant.
LEMMA StepIInv == IInv /\ [Next]_cacheVars => IInv'
<1> SUFFICES ASSUME IInv, [Next]_cacheVars PROVE IInv'
  OBVIOUS
<1>1. ASSUME UNCHANGED <<store, latest>>, now' \in Nat, now' >= now PROVE IInv'
  <2>1. Entry \subseteq Entry'
    BY <1>1 DEF Entry, IInv, TypeOK
  <2>2. Cached' = Cached
    BY <1>1 DEF Cached
  <2>3. TypeOK'
    BY <1>1, <2>1, <2>2 DEF IInv, TypeOK, Keys
  <2> QED
    BY <1>1, <2>2, <2>3 DEF IInv, WithinCap, CachedIsLatest
<1>2. ASSUME NEW t \in Texts, Get(t) PROVE IInv'
  <2>1. now \in Nat
    BY DEF IInv, TypeOK
  <2> QED
    BY <1>1, <1>2, <2>1, DropStep DEF Get
<1>3. ASSUME NEW t \in Texts, NEW a \in Answers, Set(t, a) PROVE IInv'
  BY <1>3, SetStep
<1>4. CASE Clear
  <2>1. now' = now /\ store' = [k \in {} |-> Miss] /\ latest' = [k \in {} |-> Miss]
    BY <1>4 DEF Clear, NoEntries
  <2>2. Cached' = {} /\ DOMAIN latest' = {}
    BY <2>1 DEF Cached
  <2>3. IsFiniteSet(Cached') /\ Cardinality(Cached') = 0
    BY <2>2, FS_EmptySet
  <2>4. TypeOK'
    BY <2>1, <2>2 DEF IInv, TypeOK, Cached
  <2> QED
    BY <2>2, <2>3, <2>4, BoundsAssumption DEF IInv, WithinCap, CachedIsLatest
<1>5. CASE Tick
  <2>1. now \in Nat /\ now' \in Nat /\ now' >= now
    BY <1>5, BoundsAssumption DEF Tick, IInv, TypeOK
  <2> QED
    BY <1>1, <1>5, <2>1 DEF Tick
<1>6. CASE UNCHANGED cacheVars
  <2>1. now \in Nat
    BY DEF IInv, TypeOK
  <2> QED
    BY <1>1, <1>6, <2>1 DEF cacheVars
<1> QED
  BY <1>2, <1>3, <1>4, <1>5, <1>6 DEF Next

\* The inductive invariant holds in every reachable state.
THEOREM Invariance == Spec => []IInv
  BY InitIInv, StepIInv, PTL DEF Spec

\* Entries are typed, never stored under an unfolded query, never from the
\* future.
THEOREM TypeCorrect == Spec => []TypeOK
<1>1. IInv => TypeOK
  BY DEF IInv
<1> QED
  BY <1>1, Invariance, PTL

\* The cap holds through any inserts, overwrites and evictions.
THEOREM CapKept == Spec => []WithinCap
<1>1. IInv => WithinCap
  BY DEF IInv
<1> QED
  BY <1>1, Invariance, PTL

\* What is served is the last answer stored for the query, and still fresh.
THEOREM ServedIsCurrent == Spec => []AnswersAreCurrent
<1>1. IInv => AnswersAreCurrent
  BY DEF IInv, CachedIsLatest, AnswersAreCurrent, Lookup, Live, Normalize
<1> QED
  BY <1>1, Invariance, PTL

-----------------------------------------------------------------------------
(* What eviction may lose.                                                  *)

\* The keys set when k was last set, or later.
Since(k) == {j \in DOMAIN latest : latest[j].created_at >= latest[k].created_at}

\* What is no longer there has expired, or more than MaxEntries keys were set
\* since it was.
Excused(k) == \/ latest[k].expires_at <= now
              \/ Cardinality(Since(k)) > MaxEntries

LossesExcused ==
    /\ IsFiniteSet(DOMAIN latest)
    /\ \A k \in DOMAIN latest : latest[k].expires_at = latest[k].created_at + Ttl
    /\ \A k \in DOMAIN latest \ Cached : Excused(k)

\* An answer is stored, for k: every other key's Since stays or grows.
LEMMA SetKeepsLossesExcused ==
  ASSUME IInv, IInv', LossesExcused, NEW t \in Texts, NEW a \in Answers, Set(t, a)
  PROVE  LossesExcused'
<1> DEFINE k == Folded[t]
           e == NewEntry(a)
           filled == With(store, k, e)
<1>1. /\ Normalize(t) = k /\ now' = now /\ now \in Nat
      /\ latest' = With(latest, k, e)
  BY DEF Normalize, Set, IInv, TypeOK
<1>2. e.created_at = now /\ e.expires_at = now + Ttl
  BY DEF NewEntry
<1>3. \A j \in DOMAIN latest : /\ latest[j].created_at \in 0 .. now
                             /\ latest[j].expires_at \in Nat
  BY DEF IInv, TypeOK, Entry
<1>4. \/ ~Overfull(k) /\ store' = filled
      \/ Overfull(k) /\ \E j \in Oldest(filled, k) : store' = Without(filled, j)
  BY <1>1 DEF Set
<1> HIDE DEF k, e
<1>5. /\ DOMAIN latest' = DOMAIN latest \cup {k}
      /\ \A j \in DOMAIN latest' : latest'[j] = IF j = k THEN e ELSE latest[j]
  BY <1>1 DEF With
<1>6. IsFiniteSet(DOMAIN latest')
  BY <1>5, FS_AddElement DEF LossesExcused
<1>7. ASSUME NEW j \in DOMAIN latest', j # k
      PROVE  /\ Since(j) \subseteq Since(j)'
             /\ IsFiniteSet(Since(j)') /\ IsFiniteSet(Since(j))
             /\ Cardinality(Since(j)) <= Cardinality(Since(j)')
             /\ Cardinality(Since(j)) \in Nat /\ Cardinality(Since(j)') \in Nat
  <2>1. Since(j) \subseteq Since(j)'
    BY <1>2, <1>3, <1>5, <1>7 DEF Since
  <2>2. Since(j)' \subseteq DOMAIN latest'
    BY DEF Since
  <2>3. IsFiniteSet(Since(j)')
    BY <1>6, <2>2, FS_Subset
  <2> QED
    BY <2>1, <2>3, FS_Subset, FS_CardinalityType
<1>8. ASSUME NEW j \in DOMAIN latest', j # k, j \notin Cached
      PROVE  Excused(j)'
  BY <1>1, <1>5, <1>7, <1>8, BoundsAssumption DEF LossesExcused, Excused
<1>9. DOMAIN filled = Cached \cup {k}
      /\ \A j \in DOMAIN filled : filled[j] = IF j = k THEN e ELSE store[j]
  BY DEF With, Cached
<1> HIDE DEF filled
\* The evicted key is the oldest of more than MaxEntries that are there.
<1>10. ASSUME NEW v \in Oldest(filled, k), Overfull(k)
       PROVE  v \in DOMAIN filled /\ Excused(v)'
  <2>1. v \in DOMAIN filled /\ \A i \in DOMAIN filled : filled[v].created_at <= filled[i].created_at
    BY DEF Oldest
  <2>2. \A j \in DOMAIN filled : j \in DOMAIN latest' /\ latest'[j] = filled[j]
    BY <1>5, <1>9 DEF IInv, CachedIsLatest
  <2>3. DOMAIN filled \subseteq Since(v)'
    BY <2>1, <2>2 DEF Since
  <2>4. Since(v)' \subseteq DOMAIN latest'
    BY DEF Since
  <2>5. IsFiniteSet(Since(v)')
    BY <2>4, <1>6, FS_Subset
  <2>6. /\ Cardinality(DOMAIN filled) <= Cardinality(Since(v)')
        /\ Cardinality(DOMAIN filled) \in Nat /\ Cardinality(Since(v)') \in Nat
    BY <2>3, <2>5, FS_Subset, FS_CardinalityType
  <2>7. Cardinality(DOMAIN filled) > MaxEntries
    BY <1>9, <1>10 DEF Overfull
  <2> QED
    BY <2>1, <2>6, <2>7, BoundsAssumption DEF Excused
<1>11. ASSUME NEW j \in DOMAIN latest' \ Cached'
       PROVE  Excused(j)'
  <2>1. CASE store' = filled
    BY <2>1, <1>8, <1>9, <1>11 DEF Cached
  <2>2. ASSUME NEW v \in Oldest(filled, k), Overfull(k), store' = Without(filled, v)
        PROVE  Excused(j)'
    <3>1. Cached' = (Cached \cup {k}) \ {v}
      BY <2>2, <1>9 DEF Cached, Without
    <3> QED
      BY <3>1, <2>2, <1>8, <1>10, <1>11
  <2> QED
    BY <2>1, <2>2, <1>4
<1>12. \A j \in DOMAIN latest' : latest'[j].expires_at = latest'[j].created_at + Ttl
  BY <1>2, <1>5 DEF LossesExcused
<1> QED
  BY <1>6, <1>11, <1>12 DEF LossesExcused

\* Every step leaves every loss excused.
LEMMA StepLossesExcused == IInv /\ IInv' /\ LossesExcused /\ [Next]_cacheVars => LossesExcused'
<1> SUFFICES ASSUME IInv, IInv', LossesExcused, [Next]_cacheVars PROVE LossesExcused'
  OBVIOUS
<1>0. now \in Nat /\ \A j \in DOMAIN latest : latest[j].expires_at \in Nat
  BY DEF IInv, TypeOK, Entry
<1>1. ASSUME UNCHANGED <<store, latest>>, now' \in Nat, now' >= now PROVE LossesExcused'
  <2>1. \A j : Since(j)' = Since(j)
    BY <1>1 DEF Since
  <2> QED
    BY <1>0, <1>1, <2>1 DEF LossesExcused, Excused, Cached
<1>2. ASSUME NEW t \in Texts, Get(t) PROVE LossesExcused'
  <2>1. UNCHANGED <<now, latest>> /\ \A j : Since(j)' = Since(j)
    BY <1>2 DEF Get, Since
  <2>2. CASE store' = store
    BY <1>0, <1>1, <2>1, <2>2
  <2>3. CASE store' = Without(store, Normalize(t)) /\ Normalize(t) \in Cached /\ ~Live(store[Normalize(t)])
    <3> DEFINE k == Normalize(t)
    <3>1. Cached' = Cached \ {k}
      BY <2>3 DEF Cached, Without
    <3>2. k \in DOMAIN latest /\ latest[k] = store[k]
      BY <2>3 DEF IInv, CachedIsLatest
    <3>3. Excused(k)
      BY <1>0, <2>3, <3>2 DEF Excused, Live
    <3> HIDE DEF k
    <3> QED
      BY <2>1, <3>1, <3>3 DEF LossesExcused, Excused
  <2> QED
    BY <1>2, <2>2, <2>3 DEF Get
<1>3. ASSUME NEW t \in Texts, NEW a \in Answers, Set(t, a) PROVE LossesExcused'
  BY <1>3, SetKeepsLossesExcused
<1>4. CASE Clear
  <2>1. DOMAIN latest' = {}
    BY <1>4 DEF Clear, NoEntries
  <2> QED
    BY <2>1, FS_EmptySet DEF LossesExcused
<1>5. CASE Tick
  BY <1>0, <1>1, <1>5, BoundsAssumption DEF Tick, IInv, TypeOK
<1>6. CASE UNCHANGED cacheVars
  BY <1>1, <1>6 DEF cacheVars, IInv, TypeOK
<1> QED
  BY <1>2, <1>3, <1>4, <1>5, <1>6 DEF Next

\* A fresh answer is found unless MaxEntries other queries were answered since.
THEOREM NewestKept == Spec => []KeepsTheNewest
<1>1. Init => LossesExcused
  BY FS_EmptySet DEF Init, NoEntries, LossesExcused
<1>2. IInv /\ LossesExcused => KeepsTheNewest
  <2> SUFFICES ASSUME IInv, LossesExcused, NEW t \in Texts,
                      Folded[t] \in DOMAIN latest,
                      now < latest[Folded[t]].created_at + Ttl,
                      Cardinality(Since(Folded[t])) <= MaxEntries
               PROVE  Lookup(t) = latest[Folded[t]].answer
    BY DEF KeepsTheNewest, Since
  <2> DEFINE k == Folded[t]
  <2>1. /\ latest[k].expires_at = latest[k].created_at + Ttl
        /\ latest[k].expires_at \in Nat /\ now \in Nat
    BY DEF LossesExcused, IInv, TypeOK, Entry
  <2>2. Cardinality(Since(k)) \in Nat
    <3>1. Since(k) \subseteq DOMAIN latest
      BY DEF Since
    <3>2. IsFiniteSet(Since(k))
      BY <3>1, FS_Subset DEF LossesExcused
    <3> QED
      BY <3>2, FS_CardinalityType
  <2>3. k \in Cached
    BY <2>1, <2>2, BoundsAssumption DEF LossesExcused, Excused
  <2>4. store[k] = latest[k]
    BY <2>3 DEF IInv, CachedIsLatest
  <2> QED
    BY <2>1, <2>3, <2>4 DEF Lookup, Normalize, Live
<1> QED
  BY <1>1, <1>2, StepLossesExcused, Invariance, PTL DEF Spec

=============================================================================
