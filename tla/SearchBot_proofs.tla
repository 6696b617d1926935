--------------------------- MODULE SearchBot_proofs ---------------------------
(***************************************************************************)
(* What the search command promises, for any nicks, queries, cooldowns and *)
(* number of results.                                                      *)
(*                                                                         *)
(* The handler is put together from the cache and the limiter, and so is   *)
(* the proof: each step of the bot is a step of SearchCache or leaves it   *)
(* alone, and the same for RateLimiter, so what is proved of them holds of *)
(* the bot.  What is left is the handler's own invariant: the types, and   *)
(* that every line so far leads to its result.                             *)
(***************************************************************************)
EXTENDS SearchBot, SequenceTheorems, FiniteSetTheorems, TLAPS

CacheP == INSTANCE SearchCache_proofs
LimiterP == INSTANCE RateLimiter_proofs

HandlerOK ==
    /\ stage \in {"idle", "searching", "shortening"}
    /\ nick \in Nicks \cup {NoNick}
    /\ text \in Texts \cup {NoText}
    /\ stage # "idle" => text \in Texts
    /\ results \in UpTo(Urls)
    /\ shorts \in UpTo(Display)
    /\ Len(shorts) <= Len(results)
    /\ stage # "shortening" => results = << >> /\ shorts = << >>
    /\ reply \in [kind : Kinds, text : Texts \cup {NoText}, answer : Answers]
    /\ minted \subseteq ShortIds \X Urls

\* The lines put together so far lead to their results too.
LeadsSoFar ==
    \A i \in 1 .. Len(shorts) :
        shorts[i] = results[i] \/ <<shorts[i], results[i]>> \in minted

HInv == HandlerOK /\ LeadsSoFar /\ ShownLinksLead
IInv == HInv /\ CacheP!IInv /\ LimiterP!IInv

-----------------------------------------------------------------------------
(* The components' actions, as the bot and as their proofs instantiate them. *)

\* Both instances count and bound sets as this module does.
LEMMA SameSets ==
  \A S : /\ Cache!Cardinality(S) = Cardinality(S) /\ CacheP!Cardinality(S) = Cardinality(S)
         /\ CacheP!IsFiniteSet(S) = IsFiniteSet(S)
  BY DEF Cache!Cardinality, CacheP!Cardinality, Cardinality, CacheP!IsFiniteSet, IsFiniteSet

\* What the bot calls of the cache is what the cache's proofs are about.
LEMMA SameCache ==
  ASSUME NEW t, NEW a
  PROVE  /\ Cache!Get(t) => CacheP!Get(t)
         /\ Cache!Set(t, a) => CacheP!Set(t, a)
         /\ Cache!Clear => CacheP!Clear
         /\ Cache!Tick => CacheP!Tick
         /\ Cache!Init => CacheP!Init
         /\ Cache!Lookup(t) = CacheP!Lookup(t)
<1> USE DEF Cache!Normalize, CacheP!Normalize, Cache!Cached, CacheP!Cached,
            Cache!Live, CacheP!Live
<1>1. Cache!Get(t) => CacheP!Get(t)
  BY DEF Cache!Get, CacheP!Get, Cache!Without, CacheP!Without
<1>2. Cache!Set(t, a) => CacheP!Set(t, a)
  <2>1. \A es, k, e : Cache!With(es, k, e) = CacheP!With(es, k, e)
    BY DEF Cache!With, CacheP!With
  <2>2. \A es, k : Cache!Without(es, k) = CacheP!Without(es, k)
    BY DEF Cache!Without, CacheP!Without
  <2>3. \A es, k : Cache!Oldest(es, k) = CacheP!Oldest(es, k)
    BY DEF Cache!Oldest, CacheP!Oldest
  <2>4. \A k : Cache!Overfull(k) = CacheP!Overfull(k)
    BY SameSets DEF Cache!Overfull, CacheP!Overfull
  <2>5. Cache!NewEntry(a) = CacheP!NewEntry(a)
    BY DEF Cache!NewEntry, CacheP!NewEntry
  <2> QED
    BY <2>1, <2>2, <2>3, <2>4, <2>5 DEF Cache!Set, CacheP!Set
<1>3. Cache!Clear => CacheP!Clear
  BY DEF Cache!Clear, CacheP!Clear, Cache!NoEntries, CacheP!NoEntries
<1>4. Cache!Tick => CacheP!Tick
  BY DEF Cache!Tick, CacheP!Tick
<1>5. Cache!Init => CacheP!Init
  BY DEF Cache!Init, CacheP!Init, Cache!NoEntries, CacheP!NoEntries
<1>6. Cache!Lookup(t) = CacheP!Lookup(t)
  BY DEF Cache!Lookup, CacheP!Lookup
<1> QED
  BY <1>1, <1>2, <1>3, <1>4, <1>5, <1>6

\* The same for the limiter.
LEMMA SameLimiter ==
  ASSUME NEW n
  PROVE  /\ Limiter!Allow(n) => LimiterP!Allow(n)
         /\ Limiter!Deny(n) => LimiterP!Deny(n)
         /\ Limiter!Reload => LimiterP!Reload
         /\ Limiter!Init => LimiterP!Init
<1>1. Limiter!Swept = LimiterP!Swept
  BY DEF Limiter!Swept, LimiterP!Swept, Limiter!None, LimiterP!None
<1>2. Limiter!Decide(n) = LimiterP!Decide(n)
  BY <1>1 DEF Limiter!Decide, LimiterP!Decide, Limiter!Remaining, LimiterP!Remaining,
              Limiter!None, LimiterP!None
<1>3. Limiter!Allow(n) => LimiterP!Allow(n)
  BY <1>1, <1>2 DEF Limiter!Allow, LimiterP!Allow
<1>4. Limiter!Deny(n) => LimiterP!Deny(n)
  BY <1>1, <1>2 DEF Limiter!Deny, LimiterP!Deny
<1>5. Limiter!Reload => LimiterP!Reload
  BY DEF Limiter!Reload, LimiterP!Reload, Limiter!None, LimiterP!None
<1>6. Limiter!Init => LimiterP!Init
  BY DEF Limiter!Init, LimiterP!Init, Limiter!None, LimiterP!None
<1> QED
  BY <1>3, <1>4, <1>5, <1>6

-----------------------------------------------------------------------------
(* Results and lines are sequences.                                         *)

\* UpTo(S) are the sequences over S that are no longer than a page of results.
LEMMA UpToIs ==
  ASSUME NEW S, NEW s
  PROVE  s \in UpTo(S) <=> s \in Seq(S) /\ Len(s) <= ResultCount
<1>0. ResultCount \in Nat
  BY SearchAssumption
<1>1. ASSUME s \in UpTo(S) PROVE s \in Seq(S) /\ Len(s) <= ResultCount
  <2>1. PICK n \in 0 .. ResultCount : s \in [1 .. n -> S]
    BY <1>1 DEF UpTo
  <2>2. n \in Nat
    BY <1>0, <2>1
  <2>3. s \in Seq(S)
    BY <2>1, <2>2, SeqDef
  <2>4. Len(s) = n
    BY <2>1, <2>2, <2>3, LenProperties
  <2> QED
    BY <1>0, <2>1, <2>3, <2>4
<1>2. ASSUME s \in Seq(S), Len(s) <= ResultCount PROVE s \in UpTo(S)
  <2>1. Len(s) \in 0 .. ResultCount /\ s \in [1 .. Len(s) -> S]
    BY <1>0, <1>2, LenProperties
  <2>2. [1 .. Len(s) -> S] \in {[1 .. n -> S] : n \in 0 .. ResultCount}
    BY <2>1
  <2> QED
    BY <2>1, <2>2 DEF UpTo
<1> QED
  BY <1>1, <1>2

\* No results are some.
LEMMA NothingIsUpTo ==
  ASSUME NEW S
  PROVE  << >> \in UpTo(S) /\ Len(<< >>) = 0
<1>1. << >> \in Seq(S) /\ Len(<< >>) = 0
  BY EmptySeq
<1>2. 0 <= ResultCount
  BY SearchAssumption
<1> QED
  BY <1>1, <1>2, UpToIs

\* The answer before the first one promises nothing.
LEMMA NoAnswerLeads == NoAnswer \in Answers /\ Leads(NoAnswer)
<1>1. NoAnswer \in Answers
  BY NothingIsUpTo DEF NoAnswer, Answer, Answers
<1>2. NoAnswer.results = << >> /\ NoAnswer.shorts = << >>
  BY DEF NoAnswer, Answer
<1>3. DOMAIN << >> = {}
  OBVIOUS
<1> QED
  BY <1>1, <1>2, <1>3 DEF Leads

-----------------------------------------------------------------------------
(* The bot's steps are steps of its parts.                                  *)

\* The assumptions of the cache and of the limiter.
LEMMA PartsAssumed ==
  /\ CacheP!FoldedAssumption /\ CacheP!MissAssumption /\ CacheP!BoundsAssumption
  /\ LimiterP!CooldownAssumption /\ LimiterP!MaxTimeAssumption
  BY SearchAssumption DEF CacheP!FoldedAssumption, CacheP!MissAssumption,
        CacheP!BoundsAssumption, LimiterP!CooldownAssumption, LimiterP!MaxTimeAssumption

\* What is cached when a query is done.
LEMMA AnswerTyped ==
  ASSUME HandlerOK
  PROVE  /\ Answer(results, shorts) \in Answers
         /\ Answer(results, shorts).results = results
         /\ Answer(results, shorts).shorts = shorts
  BY DEF HandlerOK, Answer, Answers

\* Every step of the bot is a step of the cache, or leaves it alone.
LEMMA CacheStep ==
  ASSUME HandlerOK, [Next]_vars
  PROVE  [CacheP!Next]_(CacheP!cacheVars)
<1> SUFFICES CacheP!Next \/ UNCHANGED <<now, store, latest>>
  BY DEF CacheP!cacheVars
<1>1. ASSUME NEW t \in Texts, Cache!Get(t) PROVE CacheP!Next
  BY <1>1, SameCache DEF CacheP!Next
<1>2. ASSUME NEW t \in Texts, NEW a \in Answers, Cache!Set(t, a) PROVE CacheP!Next
  BY <1>2, SameCache DEF CacheP!Next
<1>3. Cache!Clear => CacheP!Next
  BY SameCache DEF CacheP!Next
<1>4. ASSUME NEW n \in Nicks, NEW t \in Texts, Ask(n, t) PROVE CacheP!Next
  BY <1>1, <1>4 DEF Ask, Hit, Denied, Allowed
<1>5. CASE Upstream
  <2>1. CASE Finish
    <3>1. text \in Texts
      BY <2>1 DEF Finish, HandlerOK
    <3> QED
      BY <1>2, <2>1, <3>1, AnswerTyped DEF Finish
  <2>2. CASE \E rs \in UpTo(Urls) : Found(rs)
    BY <2>2 DEF Found, cacheVars
  <2>3. CASE SearchFails
    BY <2>3 DEF SearchFails, cacheVars
  <2>4. CASE \E s \in ShortIds : Shortened(s)
    BY <2>4 DEF Shortened, cacheVars
  <2>5. CASE FallBack
    BY <2>5 DEF FallBack, cacheVars
  <2>6. CASE ShortenRaises
    BY <2>6 DEF ShortenRaises, cacheVars
  <2> QED
    BY <1>5, <2>1, <2>2, <2>3, <2>4, <2>5, <2>6 DEF Upstream
<1>6. CASE Refuse
  BY <1>6 DEF Refuse, cacheVars
<1>7. CASE CacheBust \/ Rehash \/ Crash
  BY <1>3, <1>7 DEF CacheBust, Rehash, Crash
<1>8. CASE Tick
  BY <1>8, SameCache DEF Tick, CacheP!Next
<1>9. CASE UNCHANGED vars
  BY <1>9 DEF vars
<1> QED
  BY <1>4, <1>5, <1>6, <1>7, <1>8, <1>9 DEF Next

\* Every step of the bot is a step of the limiter, or leaves it alone.
LEMMA LimiterStep ==
  ASSUME [Next]_vars
  PROVE  [LimiterP!Next]_(LimiterP!limiterVars)
<1> SUFFICES LimiterP!Next \/ UNCHANGED <<now, lastChannel, lastUser, decision, admitted>>
  BY DEF LimiterP!limiterVars
<1>1. ASSUME NEW n \in Nicks, NEW t \in Texts, Ask(n, t)
      PROVE  LimiterP!Next \/ UNCHANGED <<now, lastChannel, lastUser, decision, admitted>>
  <2>1. CASE Hit(n, t)
    BY <2>1 DEF Hit, Cache!Get, limiterVars
  <2>2. CASE Denied(n, t)
    BY <2>2, SameLimiter DEF Denied, LimiterP!Next, LimiterP!CheckAndRecord
  <2>3. CASE Allowed(n, t)
    BY <2>3, SameLimiter DEF Allowed, LimiterP!Next, LimiterP!CheckAndRecord
  <2> QED
    BY <1>1, <2>1, <2>2, <2>3 DEF Ask
<1>2. CASE Upstream
  <2>1. CASE Finish
    BY <2>1 DEF Finish, Cache!Set, limiterVars
  <2>2. CASE \E rs \in UpTo(Urls) : Found(rs)
    BY <2>2 DEF Found, limiterVars
  <2>3. CASE SearchFails
    BY <2>3 DEF SearchFails, limiterVars
  <2>4. CASE \E s \in ShortIds : Shortened(s)
    BY <2>4 DEF Shortened, limiterVars
  <2>5. CASE FallBack
    BY <2>5 DEF FallBack, limiterVars
  <2>6. CASE ShortenRaises
    BY <2>6 DEF ShortenRaises, limiterVars
  <2> QED
    BY <1>2, <2>1, <2>2, <2>3, <2>4, <2>5, <2>6 DEF Upstream
<1>3. CASE Refuse
  BY <1>3 DEF Refuse, limiterVars
<1>4. CASE CacheBust
  BY <1>4 DEF CacheBust, Cache!Clear, limiterVars
<1>5. CASE Rehash \/ Crash
  BY <1>5, SameLimiter DEF Rehash, Crash, LimiterP!Next
<1>6. CASE Tick
  BY <1>6 DEF Tick, Cache!Tick, limiterVars, LimiterP!Next, LimiterP!Tick
<1>7. CASE UNCHANGED vars
  BY <1>7 DEF vars
<1> QED
  BY <1>1, <1>2, <1>3, <1>4, <1>5, <1>6, <1>7 DEF Next

-----------------------------------------------------------------------------
(* The handler's invariant.                                                 *)

\* Links are never unminted, so a line that leads somewhere goes on to.
LEMMA LeadsLasts ==
  ASSUME NEW answer, Leads(answer), minted \subseteq minted'
  PROVE  Leads(answer)'
  BY DEF Leads

\* What is in the store after an operation of the cache.
LEMMA StoreAfter ==
  ASSUME NEW t, NEW a
  PROVE  /\ Cache!Get(t) =>
              \A k \in DOMAIN store' : k \in DOMAIN store /\ store'[k] = store[k]
         /\ Cache!Clear => DOMAIN store' = {}
         /\ Cache!Set(t, a) =>
              \A k \in DOMAIN store' : \/ k \in DOMAIN store /\ store'[k] = store[k]
                                       \/ store'[k].answer = a
<1>1. Cache!Get(t) => \A k \in DOMAIN store' : k \in DOMAIN store /\ store'[k] = store[k]
  BY DEF Cache!Get, Cache!Without, Cache!Cached
<1>2. Cache!Clear => DOMAIN store' = {}
  BY DEF Cache!Clear, Cache!NoEntries
<1>3. ASSUME Cache!Set(t, a)
      PROVE  \A k \in DOMAIN store' : \/ k \in DOMAIN store /\ store'[k] = store[k]
                                      \/ store'[k].answer = a
  <2> DEFINE key == Cache!Normalize(t)
             e == Cache!NewEntry(a)
             filled == Cache!With(store, key, e)
  <2>1. e.answer = a
    BY DEF Cache!NewEntry
  <2>2. store' = filled \/ \E j : store' = Cache!Without(filled, j)
    BY <1>3 DEF Cache!Set
  <2> HIDE DEF key, e
  <2>3. /\ DOMAIN filled = DOMAIN store \cup {key}
        /\ \A k \in DOMAIN filled : filled[k] = IF k = key THEN e ELSE store[k]
    BY DEF Cache!With
  <2> HIDE DEF filled
  <2>4. \A k \in DOMAIN store' : k \in DOMAIN filled /\ store'[k] = filled[k]
    BY <2>2 DEF Cache!Without
  <2> QED
    BY <2>1, <2>3, <2>4
<1> QED
  BY <1>1, <1>2, <1>3

\* A step that touches neither the query in progress nor the links.
LEMMA HandlerRests ==
  ASSUME HInv, UNCHANGED <<handlerVars, minted>>,
         reply' \in [kind : Kinds, text : Texts \cup {NoText}, answer : Answers],
         Leads(reply'.answer),
         \A k \in DOMAIN store' : k \in DOMAIN store /\ store'[k] = store[k]
  PROVE  HInv'
<1>1. HandlerOK' /\ LeadsSoFar'
  BY DEF HInv, HandlerOK, LeadsSoFar, handlerVars
<1>2. ShownLinksLead'
  BY DEF HInv, ShownLinksLead, Leads
<1> QED
  BY <1>1, <1>2 DEF HInv

\* The query ends or is lost, and the bot is idle again.
LEMMA HandlerEnds ==
  ASSUME HInv, Idle, minted \subseteq minted', minted' \subseteq ShortIds \X Urls,
         reply' \in [kind : Kinds, text : Texts \cup {NoText}, answer : Answers],
         Leads(reply'.answer) \/ reply' = reply,
         \A k \in DOMAIN store' : \/ k \in DOMAIN store /\ store'[k] = store[k]
                                  \/ Leads(store'[k].answer)
  PROVE  HInv'
<1>1. /\ stage' = "idle" /\ nick' = NoNick /\ text' = NoText
      /\ results' = << >> /\ shorts' = << >>
  BY DEF Idle
<1>2. << >> \in UpTo(Urls) /\ << >> \in UpTo(Display) /\ Len(<< >>) = 0
  BY NothingIsUpTo
<1>3. HandlerOK' /\ LeadsSoFar'
  BY <1>1, <1>2 DEF HandlerOK, LeadsSoFar
<1>4. Leads(reply.answer) /\ \A k \in DOMAIN store : Leads(store[k].answer)
  BY DEF HInv, ShownLinksLead
<1>5. ShownLinksLead'
  BY <1>4 DEF ShownLinksLead, Leads
<1> QED
  BY <1>3, <1>5 DEF HInv

\* The next result gets its line.
LEMMA LineAdded ==
  ASSUME HInv, Shortening, NEW line \in Display, shorts' = Append(shorts, line),
         UNCHANGED <<store, stage, nick, text, results, reply>>,
         minted \subseteq minted', minted' \subseteq ShortIds \X Urls,
         line = NextUrl \/ <<line, NextUrl>> \in minted'
  PROVE  HInv'
<1>1. /\ shorts \in Seq(Display) /\ results \in Seq(Urls)
      /\ Len(shorts) < Len(results) /\ Len(results) <= ResultCount /\ ResultCount \in Nat
      /\ Len(shorts) \in Nat /\ Len(results) \in Nat
  BY UpToIs, LenProperties, SearchAssumption DEF HInv, HandlerOK, Shortening
<1>2. /\ shorts' \in Seq(Display) /\ Len(shorts') = Len(shorts) + 1
      /\ shorts'[Len(shorts) + 1] = line
      /\ \A i \in 1 .. Len(shorts) : shorts'[i] = shorts[i]
  BY <1>1, AppendProperties
<1>3. shorts' \in UpTo(Display)
  <2>1. Len(shorts') <= ResultCount
    BY <1>1, <1>2
  <2> QED
    BY <1>2, <2>1, UpToIs
<1>4. HandlerOK'
  BY <1>1, <1>2, <1>3 DEF HInv, HandlerOK, Shortening
<1>5. LeadsSoFar'
  <2>1. \A i \in 1 .. Len(shorts) : shorts[i] = results[i] \/ <<shorts[i], results[i]>> \in minted
    BY DEF HInv, LeadsSoFar
  <2>2. \A i \in 1 .. Len(shorts') : i \in 1 .. Len(shorts) \/ i = Len(shorts) + 1
    BY <1>1, <1>2
  <2> QED
    BY <1>2, <2>1, <2>2 DEF LeadsSoFar, NextUrl
<1>6. ShownLinksLead'
  BY DEF HInv, ShownLinksLead, Leads
<1> QED
  BY <1>4, <1>5, <1>6 DEF HInv

\* What an upstream call for the next result may leave behind at the shortener.
LEMMA NextUrlMinted ==
  ASSUME HInv, Shortening
  PROVE  /\ NextUrl \in Urls
         /\ NoLinkHeard => minted \subseteq minted' /\ minted' \subseteq ShortIds \X Urls
         /\ \A s \in ShortIds : Mint(s, NextUrl) =>
               /\ minted \subseteq minted' /\ minted' \subseteq ShortIds \X Urls
               /\ <<s, NextUrl>> \in minted'
<1>1. NextUrl \in Urls
  <2>1. /\ results \in Seq(Urls) /\ Len(results) \in Nat /\ Len(shorts) \in Nat
        /\ Len(shorts) < Len(results)
    BY UpToIs, LenProperties DEF HInv, HandlerOK, Shortening
  <2>2. Len(shorts) + 1 \in 1 .. Len(results)
    BY <2>1
  <2> QED
    BY <2>1, <2>2, ElementOfSeq DEF NextUrl
<1>2. minted \subseteq ShortIds \X Urls
  BY DEF HInv, HandlerOK
<1> HIDE DEF NextUrl
<1>3. \A s \in ShortIds : Mint(s, NextUrl) =>
         /\ minted \subseteq minted' /\ minted' \subseteq ShortIds \X Urls
         /\ <<s, NextUrl>> \in minted'
  BY <1>1, <1>2 DEF Mint
<1> QED
  BY <1>1, <1>2, <1>3 DEF NoLinkHeard

\* Every step keeps what is the handler's own, shown lines included.
LEMMA HandlerStep ==
  ASSUME IInv, [Next]_vars
  PROVE  HInv'
<1>0. HInv /\ HandlerOK
  BY DEF IInv, HInv
<1>1. /\ reply \in [kind : Kinds, text : Texts \cup {NoText}, answer : Answers]
      /\ Leads(reply.answer)
      /\ \A k \in DOMAIN store : Leads(store[k].answer)
      /\ minted \subseteq ShortIds \X Urls
  BY <1>0 DEF HandlerOK, HInv, ShownLinksLead
<1>2. ASSUME NEW n \in Nicks, NEW t \in Texts, Hit(n, t) PROVE HInv'
  <2> DEFINE k == Cache!Normalize(t)
             a == Cache!Lookup(t)
  <2>1. /\ a # Miss /\ Cache!Get(t) /\ UNCHANGED <<handlerVars, minted>>
        /\ reply' = [kind |-> "results", text |-> t, answer |-> a]
    BY <1>2 DEF Hit, Reply
  <2>2. k \in DOMAIN store /\ a = store[k].answer
    BY <2>1 DEF Cache!Lookup, Cache!Cached
  <2>3. store[k].answer \in Answers
    BY <2>2 DEF IInv, CacheP!IInv, CacheP!TypeOK, CacheP!Cached, CacheP!Entry
  <2>4. a \in Answers /\ Leads(a)
    BY <1>1, <2>2, <2>3
  <2> HIDE DEF a, k
  <2>5. reply' \in [kind : Kinds, text : Texts \cup {NoText}, answer : Answers]
    BY <2>1, <2>4 DEF Kinds
  <2>6. Leads(reply'.answer)
    BY <2>1, <2>4
  <2> QED
    BY <1>0, <2>1, <2>5, <2>6, StoreAfter, HandlerRests
<1>3. ASSUME NEW n \in Nicks, NEW t \in Texts, Denied(n, t) PROVE HInv'
  <2>1. /\ Cache!Get(t) /\ UNCHANGED <<handlerVars, minted>>
        /\ reply' = [kind |-> "rate_limited", text |-> t, answer |-> NoAnswer]
    BY <1>3 DEF Denied, Reply
  <2>2. reply' \in [kind : Kinds, text : Texts \cup {NoText}, answer : Answers]
    BY <2>1, NoAnswerLeads DEF Kinds
  <2>3. Leads(reply'.answer)
    BY <2>1, NoAnswerLeads
  <2> QED
    BY <1>0, <2>1, <2>2, <2>3, StoreAfter, HandlerRests
<1>4. ASSUME NEW n \in Nicks, NEW t \in Texts, Allowed(n, t) PROVE HInv'
  <2>1. /\ stage = "idle" /\ Cache!Get(t) /\ UNCHANGED <<results, shorts, reply, minted>>
        /\ stage' = "searching" /\ nick' = n /\ text' = t
    BY <1>4 DEF Allowed
  <2>2. HandlerOK' /\ LeadsSoFar'
    BY <1>0, <2>1 DEF HInv, HandlerOK, LeadsSoFar
  <2>3. ShownLinksLead'
    <3>1. \A k \in DOMAIN store' : k \in DOMAIN store /\ store'[k] = store[k]
      BY <2>1, StoreAfter
    <3> QED
      BY <1>1, <2>1, <3>1 DEF ShownLinksLead, Leads
  <2> QED
    BY <2>2, <2>3 DEF HInv
<1>5. CASE Refuse
  <2>1. /\ UNCHANGED <<handlerVars, minted, store>>
        /\ reply' = [kind |-> "usage", text |-> NoText, answer |-> NoAnswer]
    BY <1>5 DEF Refuse, Reply, cacheVars
  <2>2. reply' \in [kind : Kinds, text : Texts \cup {NoText}, answer : Answers]
    BY <2>1, NoAnswerLeads DEF Kinds
  <2>3. Leads(reply'.answer)
    BY <2>1, NoAnswerLeads
  <2> QED
    BY <1>0, <2>1, <2>2, <2>3, HandlerRests
<1>6. ASSUME NEW rs \in UpTo(Urls), Found(rs) PROVE HInv'
  <2>1. /\ stage = "searching" /\ stage' = "shortening" /\ results' = rs
        /\ UNCHANGED <<store, nick, text, shorts, reply, minted>>
    BY <1>6 DEF Found, cacheVars
  <2>2. shorts = << >> /\ Len(shorts) = 0 /\ Len(rs) \in Nat
    <3>1. rs \in Seq(Urls)
      BY UpToIs
    <3> QED
      BY <1>0, <2>1, <3>1, NothingIsUpTo, LenProperties DEF HandlerOK
  <2>3. HandlerOK' /\ LeadsSoFar'
    BY <1>0, <2>1, <2>2 DEF HInv, HandlerOK, LeadsSoFar
  <2>4. ShownLinksLead'
    BY <1>1, <2>1 DEF ShownLinksLead, Leads
  <2> QED
    BY <2>3, <2>4 DEF HInv
<1>7. CASE SearchFails
  <2>1. /\ stage = "searching" /\ Idle /\ UNCHANGED <<store, minted>>
        /\ \E kind \in {"brave_error", "unexpected"} :
              reply' = [kind |-> kind, text |-> text, answer |-> NoAnswer]
    BY <1>7 DEF SearchFails, Reply, cacheVars
  <2>2. reply' \in [kind : Kinds, text : Texts \cup {NoText}, answer : Answers]
    BY <1>0, <2>1, NoAnswerLeads DEF Kinds, HandlerOK
  <2>3. Leads(reply'.answer)
    BY <2>1, NoAnswerLeads
  <2> QED
    BY <1>0, <1>1, <2>1, <2>2, <2>3, HandlerEnds
<1>8. ASSUME NEW s \in ShortIds, Shortened(s) PROVE HInv'
  <2>1. /\ Shortening /\ Mint(s, NextUrl) /\ shorts' = Append(shorts, s) /\ s \in Display
        /\ UNCHANGED <<store, stage, nick, text, results, reply>>
    BY <1>8 DEF Shortened, cacheVars, Display
  <2> QED
    BY <1>0, <2>1, NextUrlMinted, LineAdded
<1>9. CASE FallBack
  <2>1. /\ Shortening /\ NoLinkHeard /\ shorts' = Append(shorts, NextUrl)
        /\ UNCHANGED <<store, stage, nick, text, results, reply>>
    BY <1>9 DEF FallBack, cacheVars
  <2>2. /\ NextUrl \in Display
        /\ minted \subseteq minted' /\ minted' \subseteq ShortIds \X Urls
    BY <1>0, <2>1, NextUrlMinted DEF Display
  <2> QED
    BY <1>0, <2>1, <2>2, LineAdded
<1>10. CASE ShortenRaises
  <2>1. /\ Shortening /\ NoLinkHeard /\ Idle /\ UNCHANGED store
        /\ reply' = [kind |-> "unexpected", text |-> text, answer |-> NoAnswer]
    BY <1>10 DEF ShortenRaises, Reply, cacheVars
  <2>2. minted \subseteq minted' /\ minted' \subseteq ShortIds \X Urls
    BY <1>0, <2>1, NextUrlMinted
  <2>3. reply' \in [kind : Kinds, text : Texts \cup {NoText}, answer : Answers]
    BY <1>0, <2>1, NoAnswerLeads DEF Kinds, HandlerOK
  <2>4. Leads(reply'.answer)
    BY <2>1, NoAnswerLeads
  <2> QED
    BY <1>0, <1>1, <2>1, <2>2, <2>3, <2>4, HandlerEnds
<1>11. CASE Finish
  <2> DEFINE a == Answer(results, shorts)
  <2>1. /\ stage = "shortening" /\ Len(shorts) = Len(results) /\ Idle /\ UNCHANGED minted
        /\ Cache!Set(text, a)
        /\ reply' = [kind |-> "results", text |-> text, answer |-> a]
    BY <1>11 DEF Finish, Reply
  <2>2. a \in Answers /\ a.results = results /\ a.shorts = shorts
    BY <1>0, AnswerTyped
  <2>3. Leads(a)
    <3>1. /\ DOMAIN shorts = 1 .. Len(shorts) /\ DOMAIN results = 1 .. Len(results)
      BY <1>0, UpToIs, LenProperties DEF HandlerOK
    <3> QED
      BY <1>0, <2>1, <2>2, <3>1 DEF Leads, HInv, LeadsSoFar
  <2> HIDE DEF a
  <2>4. reply' \in [kind : Kinds, text : Texts \cup {NoText}, answer : Answers]
    BY <1>0, <2>1, <2>2 DEF Kinds, HandlerOK
  <2>5. Leads(reply'.answer)
    BY <2>1, <2>3
  <2>6. \A k \in DOMAIN store' : \/ k \in DOMAIN store /\ store'[k] = store[k]
                                 \/ Leads(store'[k].answer)
    BY <2>1, <2>3, StoreAfter
  <2> QED
    BY <1>0, <1>1, <2>1, <2>4, <2>5, <2>6, HandlerEnds
<1>12. CASE CacheBust \/ Rehash
  <2>1. UNCHANGED <<handlerVars, reply, minted>> /\ DOMAIN store' = {}
    BY <1>12, StoreAfter DEF CacheBust, Rehash
  <2> QED
    BY <1>0, <1>1, <2>1, HandlerRests
<1>13. CASE Crash
  <2>1. Idle /\ UNCHANGED <<reply, minted>> /\ DOMAIN store' = {}
    BY <1>13, StoreAfter DEF Crash
  <2> QED
    BY <1>0, <1>1, <2>1, HandlerEnds
<1>14. CASE Tick
  BY <1>0, <1>1, <1>14, HandlerRests DEF Tick, Cache!Tick
<1>15. CASE UNCHANGED vars
  BY <1>0, <1>1, <1>15, HandlerRests DEF vars, handlerVars
<1> QED
  BY <1>2, <1>3, <1>4, <1>5, <1>6, <1>7, <1>8, <1>9, <1>10, <1>11, <1>12, <1>13, <1>14, <1>15
     DEF Next, Ask, Upstream

-----------------------------------------------------------------------------
(* The theorems.                                                            *)

\* The bot starts in the invariant.
LEMMA InitIInv == Init => IInv
<1> SUFFICES ASSUME Init PROVE IInv
  OBVIOUS
<1>1. CacheP!IInv
  BY PartsAssumed, SameCache, CacheP!InitIInv DEF Init
<1>2. LimiterP!IInv
  BY PartsAssumed, SameLimiter, LimiterP!InitIInv DEF Init
<1>3. /\ stage = "idle" /\ nick = NoNick /\ text = NoText /\ minted = {}
      /\ results = << >> /\ shorts = << >> /\ DOMAIN store = {}
      /\ reply = [kind |-> "none", text |-> NoText, answer |-> NoAnswer]
  BY DEF Init, Cache!Init, Cache!NoEntries
<1>4. HandlerOK /\ LeadsSoFar
  <2>1. /\ << >> \in UpTo(Urls) /\ << >> \in UpTo(Display) /\ Len(<< >>) = 0
    BY NothingIsUpTo
  <2>2. reply \in [kind : Kinds, text : Texts \cup {NoText}, answer : Answers]
    BY <1>3, NoAnswerLeads DEF Kinds
  <2> QED
    BY <1>3, <2>1, <2>2 DEF HandlerOK, LeadsSoFar
<1>5. ShownLinksLead
  BY <1>3, NoAnswerLeads DEF ShownLinksLead
<1> QED
  BY <1>1, <1>2, <1>4, <1>5 DEF IInv, HInv

\* Every step of the bot keeps the invariant, part by part.
LEMMA StepIInv == IInv /\ [Next]_vars => IInv'
<1> SUFFICES ASSUME IInv, [Next]_vars PROVE IInv'
  OBVIOUS
<1>1. CacheP!IInv'
  BY PartsAssumed, CacheStep, CacheP!StepIInv DEF IInv, HInv
<1>2. LimiterP!IInv'
  BY PartsAssumed, LimiterStep, LimiterP!StepIInv DEF IInv
<1> QED
  BY <1>1, <1>2, HandlerStep DEF IInv

\* The invariant of every behaviour of the bot.
THEOREM Invariance == Spec => []IInv
  BY InitIInv, StepIInv, PTL DEF Spec

\* The types of handler, cache and limiter.
THEOREM TypeCorrect == Spec => []TypeOK
<1>1. IInv => TypeOK
  <2> SUFFICES ASSUME IInv PROVE TypeOK
    OBVIOUS
  <2>1. Cache!TypeOK
    BY DEF IInv, CacheP!IInv, CacheP!TypeOK, Cache!TypeOK, CacheP!Cached, Cache!Cached,
           CacheP!Entry, Cache!Entry, CacheP!Keys, Cache!Keys
  <2>2. Limiter!TypeOK
    BY DEF IInv, LimiterP!IInv, LimiterP!TypeOK, Limiter!TypeOK, LimiterP!Times,
           Limiter!Times, LimiterP!None, Limiter!None, LimiterP!Reasons, Limiter!Reasons
  <2> QED
    BY <2>1, <2>2 DEF IInv, HInv, HandlerOK, TypeOK
<1> QED
  BY <1>1, Invariance, PTL

\* Every line shown or cached leads to the result it names, whatever failed
\* while it was put together.
THEOREM LinksLead == Spec => []ShownLinksLead
<1>1. IInv => ShownLinksLead
  BY DEF IInv, HInv
<1> QED
  BY <1>1, Invariance, PTL

\* A step that is neither a query nor the end of one shows nothing.
LEMMA OnlyQueriesReply ==
  ASSUME [Next]_vars, stage = "idle"
  PROVE  \/ reply' = reply /\ stage' = "idle"
         \/ Refuse
         \/ \E n \in Nicks, t \in Texts : Ask(n, t)
<1>1. ASSUME Upstream PROVE FALSE
  BY <1>1 DEF Upstream, Found, SearchFails, Shortened, FallBack, ShortenRaises, Finish,
              Shortening
<1>2. ASSUME CacheBust \/ Rehash \/ Tick PROVE reply' = reply /\ stage' = "idle"
  BY <1>2 DEF CacheBust, Rehash, Tick, handlerVars
<1>3. ASSUME Crash PROVE FALSE
  BY <1>3 DEF Crash
<1>4. UNCHANGED vars => reply' = reply /\ stage' = "idle"
  BY DEF vars
<1> QED
  BY <1>1, <1>2, <1>3, <1>4 DEF Next

\* A repeated query is answered from the cache, during any cooldown.
THEOREM RepeatsAreFree == Spec => RepeatIsFree
<1>1. [Next]_vars =>
        [ /\ stage = "idle"
          /\ reply' # reply
          /\ reply'.text \in Texts
          /\ Cache!Lookup(reply'.text) # Miss
          => reply'.kind = "results" /\ UNCHANGED limiterVars ]_vars
  <2> SUFFICES ASSUME [Next]_vars, stage = "idle", reply' # reply,
                      reply'.text \in Texts, Cache!Lookup(reply'.text) # Miss
               PROVE  reply'.kind = "results" /\ UNCHANGED limiterVars
    OBVIOUS
  <2>1. ASSUME Refuse PROVE FALSE
    BY <2>1, SearchAssumption DEF Refuse, Reply
  <2>2. PICK n \in Nicks, t \in Texts : Ask(n, t)
    BY <2>1, OnlyQueriesReply
  <2>3. CASE Hit(n, t)
    BY <2>3 DEF Hit, Reply
  <2>4. CASE Denied(n, t)
    BY <2>4 DEF Denied, Reply
  <2>5. CASE Allowed(n, t)
    BY <2>5 DEF Allowed
  <2> QED
    BY <2>2, <2>3, <2>4, <2>5 DEF Ask
<1> QED
  BY <1>1, PTL DEF Spec, RepeatIsFree

\* Only a query that missed the cache and that the limiter allows starts a
\* search.
LEMMA OnlyAllowedSearches ==
  ASSUME [Next]_vars, StartsSearch
  PROVE  \E n \in Nicks, t \in Texts : Allowed(n, t)
<1>1. stage = "idle" /\ stage' = "searching"
  BY DEF StartsSearch
<1>2. ASSUME Refuse PROVE FALSE
  BY <1>1, <1>2 DEF Refuse, handlerVars
<1>3. PICK n \in Nicks, t \in Texts : Ask(n, t)
  BY <1>1, <1>2, OnlyQueriesReply
<1>4. ~Hit(n, t) /\ ~Denied(n, t)
  BY <1>1 DEF Hit, Denied, handlerVars
<1> QED
  BY <1>3, <1>4 DEF Ask

\* Each search is one that the cooldowns admit with nothing forgotten.
THEOREM UpstreamRationed == Spec => UpstreamIsRationed
<1>1. IInv /\ [Next]_vars => [StartsSearch => Memory!Admit(nick')]_vars
  <2> SUFFICES ASSUME IInv, [Next]_vars, StartsSearch PROVE Memory!Admit(nick')
    OBVIOUS
  <2>1. PICK n \in Nicks, t \in Texts : Allowed(n, t)
    BY OnlyAllowedSearches
  <2>2. LimiterP!Allow(n) /\ nick' = n
    BY <2>1, SameLimiter DEF Allowed
  <2>3. LimiterP!Memory!Admissible(n)
    BY <2>2, PartsAssumed, LimiterP!DecisionAgrees DEF IInv, LimiterP!Allow
  <2>4. Memory!Admissible(n)
    BY <2>3 DEF LimiterP!Memory!Admissible, Memory!Admissible, LimiterP!Memory!Passed,
                Memory!Passed, LimiterP!Memory!Unset, Memory!Unset
  <2> QED
    BY <2>2, <2>4 DEF LimiterP!Allow, Memory!Admit
<1> QED
  BY <1>1, Invariance, PTL DEF Spec, UpstreamIsRationed

\* What the bot does to its cache are steps of SearchCache, in its order, ...
THEOREM CacheInside == Spec => CacheP!Spec
<1>1. Init => CacheP!Init
  BY SameCache DEF Init
<1>2. IInv /\ [Next]_vars => [CacheP!Next]_(CacheP!cacheVars)
  BY CacheStep DEF IInv, HInv
<1> QED
  BY <1>1, <1>2, Invariance, PTL DEF Spec, CacheP!Spec

\* ... so that all it promises holds inside the bot, through upstream failures,
\* rehashes and crashes.
THEOREM CachePromisesHold ==
  Spec => [](Cache!WithinCap /\ Cache!AnswersAreCurrent /\ Cache!KeepsTheNewest)
<1>1. CacheP!Spec =>
        []CacheP!WithinCap /\ []CacheP!AnswersAreCurrent /\ []CacheP!KeepsTheNewest
  BY PartsAssumed, CacheP!CapKept, CacheP!ServedIsCurrent, CacheP!NewestKept, PTL
<1> USE SameSets, SameCache
<1>2. CacheP!WithinCap => Cache!WithinCap
  BY DEF CacheP!WithinCap, Cache!WithinCap, CacheP!Cached, Cache!Cached
<1>3. CacheP!AnswersAreCurrent => Cache!AnswersAreCurrent
  BY DEF CacheP!AnswersAreCurrent, Cache!AnswersAreCurrent
<1>4. CacheP!KeepsTheNewest => Cache!KeepsTheNewest
  BY DEF CacheP!KeepsTheNewest, Cache!KeepsTheNewest
<1> QED
  BY <1>1, <1>2, <1>3, <1>4, CacheInside, PTL

\* The same for the limiter, ...
THEOREM LimiterInside == Spec => LimiterP!Spec
<1>1. Init => LimiterP!Init
  BY SameLimiter DEF Init
<1>2. [Next]_vars => [LimiterP!Next]_(LimiterP!limiterVars)
  BY LimiterStep
<1> QED
  BY <1>1, <1>2, PTL DEF Spec, LimiterP!Spec

\* ... which stays small and implements the cooldowns inside the bot as well.
THEOREM LimiterPromisesHold == Spec => []LimiterP!BoundedMemory /\ LimiterP!ImplementsCooldown
<1>1. LimiterP!Spec => []LimiterP!BoundedMemory /\ LimiterP!ImplementsCooldown
  BY PartsAssumed, LimiterP!MemoryBounded, LimiterP!CooldownKept
<1> QED
  BY <1>1, LimiterInside

\* Brave is asked again only when the last answer has run out or been pushed
\* out.
THEOREM FreshNotRefetched == Spec => NeverRefetchesFresh
<1>1. Spec => CacheP!Spec
  BY CacheInside
<1>2. CacheP!Spec => []CacheP!KeepsTheNewest
  BY PartsAssumed, CacheP!NewestKept
<1>3. Spec => []CacheP!LossesExcused
  <2>1. Init => CacheP!LossesExcused
    <3>1. DOMAIN CacheP!NoEntries = {} /\ IsFiniteSet({})
      BY FS_EmptySet DEF CacheP!NoEntries
    <3>2. Init => latest = CacheP!NoEntries
      BY SameCache DEF Init, CacheP!Init
    <3> QED
      BY <3>1, <3>2, SameSets DEF CacheP!LossesExcused
  <2>2. IInv /\ IInv' /\ CacheP!LossesExcused /\ [Next]_vars => CacheP!LossesExcused'
    BY PartsAssumed, CacheStep, CacheP!StepLossesExcused DEF IInv, HInv
  <2> QED
    BY <2>1, <2>2, Invariance, PTL DEF Spec
<1> DEFINE Rests ==
        StartsSearch /\ Folded[text'] \in DOMAIN latest
        => LET k == Folded[text']
           IN  \/ now >= latest[k].created_at + Ttl
               \/ Cardinality({j \in DOMAIN latest :
                      latest[j].created_at >= latest[k].created_at}) > MaxEntries
<1>4. IInv /\ CacheP!KeepsTheNewest /\ CacheP!LossesExcused /\ [Next]_vars => [Rests]_vars
  <2> SUFFICES ASSUME IInv, CacheP!KeepsTheNewest, CacheP!LossesExcused, [Next]_vars,
                      StartsSearch, Folded[text'] \in DOMAIN latest,
                      ~(now >= latest[Folded[text']].created_at + Ttl),
                      ~(Cardinality({j \in DOMAIN latest :
                          latest[j].created_at >= latest[Folded[text']].created_at})
                            > MaxEntries)
               PROVE  FALSE
    OBVIOUS
  <2>1. PICK n \in Nicks, t \in Texts : Allowed(n, t)
    BY OnlyAllowedSearches
  <2> DEFINE k == Folded[t]
             since == {j \in DOMAIN latest : latest[j].created_at >= latest[k].created_at}
  <2>2. text' = t /\ CacheP!Lookup(t) = Miss
    BY <2>1, SameCache DEF Allowed
  <2>3. /\ latest[k] \in [answer : Answers, created_at : 0 .. now, expires_at : Nat]
        /\ now \in Nat /\ Ttl \in Nat /\ MaxEntries \in Nat
    BY <2>2, SearchAssumption DEF IInv, CacheP!IInv, CacheP!TypeOK, CacheP!Entry
  <2>4. Cardinality(since) \in Nat
    <3>1. IsFiniteSet(DOMAIN latest) /\ since \subseteq DOMAIN latest
      BY SameSets DEF CacheP!LossesExcused
    <3>2. IsFiniteSet(since)
      BY <3>1, FS_Subset
    <3> QED
      BY <3>2, FS_CardinalityType
  <2>5. k \in DOMAIN latest /\ now < latest[k].created_at + Ttl
    BY <2>2, <2>3
  <2>6. CacheP!Cardinality(since) <= MaxEntries
    <3>1. ~(Cardinality(since) > MaxEntries)
      BY <2>2
    <3> HIDE DEF since
    <3>2. Cardinality(since) <= MaxEntries
      BY <3>1, <2>3, <2>4
    <3> QED
      BY <3>2, SameSets
  <2>7. CacheP!Lookup(t) = latest[k].answer
    BY <2>5, <2>6 DEF CacheP!KeepsTheNewest
  <2> QED
    BY <2>2, <2>3, <2>7, SearchAssumption
<1>5. [][Rests]_vars => NeverRefetchesFresh
  BY DEF NeverRefetchesFresh
<1> QED
  BY <1>1, <1>2, <1>3, <1>4, <1>5, Invariance, PTL DEF Spec

-----------------------------------------------------------------------------
(* Every step of a query is a step towards its end.                         *)

\* One search, at most one call per result and a reply: a query that keeps
\* failing, or whose shortener does, never calls an upstream twice for the
\* same thing.
THEOREM QueriesBounded == Spec => QueriesAreBounded
<1>1. ASSUME IInv, [Next]_vars, stage # "idle", now' = now
      PROVE  StepsLeft' \in 0 .. StepsLeft - 1 \/ UNCHANGED vars
  <2>0. /\ stage \in {"idle", "searching", "shortening"}
        /\ Len(results) \in Nat /\ Len(shorts) \in Nat /\ ResultCount \in Nat
        /\ results \in Seq(Urls) /\ shorts \in Seq(Display)
        /\ Len(results) <= ResultCount /\ Len(shorts) <= Len(results)
        /\ stage = "searching" => Len(shorts) = 0
    <3>1. results \in Seq(Urls) /\ shorts \in Seq(Display) /\ Len(results) <= ResultCount
      BY <1>1, UpToIs DEF IInv, HInv, HandlerOK
    <3>2. Len(results) \in Nat /\ Len(shorts) \in Nat /\ Len(<< >>) = 0
      BY <3>1, LenProperties
    <3> QED
      BY <1>1, <3>1, <3>2, SearchAssumption DEF IInv, HInv, HandlerOK
  <2>1. ASSUME Idle PROVE StepsLeft' \in 0 .. StepsLeft - 1
    BY <1>1, <2>0, <2>1 DEF Idle, StepsLeft
  <2>2. ASSUME NEW rs \in UpTo(Urls), Found(rs) PROVE StepsLeft' \in 0 .. StepsLeft - 1
    <3>1. rs \in Seq(Urls) /\ Len(rs) <= ResultCount
      BY UpToIs
    <3>2. Len(rs) \in Nat
      BY <3>1, LenProperties
    <3> QED
      BY <2>0, <2>2, <3>1, <3>2 DEF Found, StepsLeft
  <2>3. ASSUME NEW line \in Display, Shortening, shorts' = Append(shorts, line),
               UNCHANGED <<stage, results>>
        PROVE  StepsLeft' \in 0 .. StepsLeft - 1
    <3>1. Len(Append(shorts, line)) = Len(shorts) + 1
      BY <2>0, AppendProperties
    <3> QED
      BY <2>0, <2>3, <3>1 DEF Shortening, StepsLeft
  <2>4. CASE \E s \in ShortIds : Shortened(s)
    BY <2>3, <2>4 DEF Shortened, Display
  <2>5. CASE FallBack
    <3>1. NextUrl \in Display
      <4>1. Len(shorts) + 1 \in 1 .. Len(results)
        BY <2>0, <2>5 DEF FallBack, Shortening
      <4>2. results[Len(shorts) + 1] \in Urls
        BY <2>0, <4>1, ElementOfSeq
      <4> QED
        BY <4>2 DEF NextUrl, Display
    <3> QED
      BY <2>3, <2>5, <3>1 DEF FallBack
  <2>6. CASE SearchFails \/ ShortenRaises \/ Finish \/ Crash
    BY <2>1, <2>6 DEF SearchFails, ShortenRaises, Finish, Crash
  <2>7. ASSUME Refuse \/ CacheBust \/ Rehash \/ Tick PROVE FALSE
    BY <1>1, <2>7, SearchAssumption DEF Refuse, CacheBust, Rehash, Tick, Cache!Tick
  <2>8. ASSUME NEW n \in Nicks, NEW t \in Texts, Ask(n, t) PROVE FALSE
    BY <1>1, <2>8 DEF Ask, Hit, Denied, Allowed
  <2> QED
    BY <1>1, <2>2, <2>4, <2>5, <2>6, <2>7, <2>8 DEF Next, Upstream
<1>2. IInv /\ [Next]_vars =>
        [stage # "idle" /\ UNCHANGED now => StepsLeft' \in 0 .. StepsLeft - 1]_vars
  BY <1>1
<1> QED
  BY <1>2, Invariance, PTL DEF Spec, QueriesAreBounded

=============================================================================
