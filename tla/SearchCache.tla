----------------------------- MODULE SearchCache -----------------------------
(***************************************************************************)
(* SearchCache of the search bot (searchbot/cache.py): a dictionary of     *)
(* answered queries with a time to live that is enforced when an entry is  *)
(* read, and a cap on the number of entries.  Like the rate limiter it is  *)
(* called from eggdrop's main thread, so a call is one step.               *)
(***************************************************************************)
EXTENDS Integers, FiniteSets

CONSTANTS Texts,       \* what users type as a query
          Folded,      \* per text, its cache key: blanks collapsed, lower case
          Answers,     \* what is cached: results with their short URLs
          Miss,        \* the answer of get when there is none
          Ttl,         \* CACHE_TTL_SECONDS, in ticks
          MaxEntries,  \* CACHE_MAX_ENTRIES
          MaxTime      \* bound on the clock, for TLC

ASSUME FoldedAssumption ==
    /\ Folded \in [Texts -> Texts]
    /\ \A t \in Texts : Folded[Folded[t]] = Folded[t]
ASSUME MissAssumption == Miss \notin Answers
ASSUME BoundsAssumption == Ttl \in Nat /\ MaxEntries \in Nat /\ MaxTime \in Nat

VARIABLES now,     \* time.monotonic()
          store,   \* _store: a function on the keys that have an entry
          latest   \* ghost: per key the last entry set since the last clear

cacheVars == <<now, store, latest>>

Entry == [answer : Answers, created_at : 0 .. now, expires_at : Nat]
Keys == {Folded[t] : t \in Texts}
Cached == DOMAIN store
NoEntries == [k \in {} |-> Miss]

\* The key is the text as typed.
Verbatim(t) == t
Normalize(t) == Folded[t]

Without(entries, k) == [j \in DOMAIN entries \ {k} |-> entries[j]]
With(entries, k, e) ==
    [j \in DOMAIN entries \cup {k} |-> IF j = k THEN e ELSE entries[j]]

\* An entry is served as long as it is there, however old.
LiveForever(e) == TRUE
Live(e) == now < e.expires_at

-----------------------------------------------------------------------------
Init ==
    /\ now \in 0 .. MaxTime
    /\ store = NoEntries
    /\ latest = NoEntries

\* What get returns ...
Lookup(t) ==
    IF Normalize(t) \in Cached /\ Live(store[Normalize(t)])
    THEN store[Normalize(t)].answer ELSE Miss

\* ... and what it does: an expired entry is dropped when it is asked for.
Get(t) ==
    /\ store' = IF Normalize(t) \in Cached /\ ~Live(store[Normalize(t)])
                THEN Without(store, Normalize(t)) ELSE store
    /\ UNCHANGED <<now, latest>>

NewEntry(a) == [answer |-> a, created_at |-> now, expires_at |-> now + Ttl]

\* The newest entry makes room instead of the oldest.
Newest(entries, k) ==
    {j \in DOMAIN entries :
        \A i \in DOMAIN entries : entries[i].created_at <= entries[j].created_at}

\* The entries eviction may pick: the smallest created_at.  Of two of the same
\* age the one inserted first goes, so never the one that was just added.
Oldest(entries, k) ==
    LET oldest == {j \in DOMAIN entries :
                     \A i \in DOMAIN entries :
                        entries[j].created_at <= entries[i].created_at}
    IN  IF oldest = {k} THEN oldest ELSE oldest \ {k}

\* The cap is checked before the entry is added.
OverfullBefore(k) == k \notin Cached /\ Cardinality(Cached) > MaxEntries

\* Only a new key can push the store past its cap.
Overfull(k) == k \notin Cached /\ Cardinality(Cached \cup {k}) > MaxEntries

Set(t, a) ==
    LET k == Normalize(t)
        filled == With(store, k, NewEntry(a))
    IN  /\ IF Overfull(k)
           THEN \E j \in Oldest(filled, k) : store' = Without(filled, j)
           ELSE store' = filled
        /\ latest' = With(latest, Folded[t], NewEntry(a))
        /\ UNCHANGED now

\* Everything is dropped: cache-bust command, or a new cache after a rehash.
Clear ==
    /\ store' = NoEntries
    /\ latest' = NoEntries
    /\ UNCHANGED now

Tick ==
    /\ now < MaxTime
    /\ now' \in (now + 1) .. MaxTime
    /\ UNCHANGED <<store, latest>>

Next ==
    \/ \E t \in Texts : Get(t) \/ \E a \in Answers : Set(t, a)
    \/ Clear
    \/ Tick

Spec == Init /\ [][Next]_cacheVars

-----------------------------------------------------------------------------
TypeOK ==
    /\ now \in Nat
    /\ Cached \subseteq Keys
    /\ store \in [Cached -> Entry]
    /\ DOMAIN latest \subseteq Keys
    /\ latest \in [DOMAIN latest -> Entry]

\* The cap holds through any sequence of inserts, overwrites and expiries.
WithinCap == Cardinality(Cached) <= MaxEntries

\* An answer is the last one stored for the query, however it was spelled, and
\* never older than the time to live, although expiry is only looked at when
\* an entry is read and evicted entries may have been stored again.
AnswersAreCurrent ==
    \A t \in Texts :
        Lookup(t) # Miss =>
            /\ Folded[t] \in DOMAIN latest
            /\ Lookup(t) = latest[Folded[t]].answer
            /\ now < latest[Folded[t]].created_at + Ttl

\* No answer is lost too early: one that is still fresh is found again unless
\* MaxEntries others were stored since, whichever entries were evicted,
\* expired or overwritten meanwhile.
KeepsTheNewest ==
    \A t \in Texts :
        LET k == Folded[t]
            since == {j \in DOMAIN latest : latest[j].created_at >= latest[k].created_at}
        IN  /\ k \in DOMAIN latest
            /\ now < latest[k].created_at + Ttl
            /\ Cardinality(since) <= MaxEntries
            => Lookup(t) = latest[k].answer

=============================================================================
