------------------------------ MODULE SearchBot ------------------------------
(***************************************************************************)
(* The search command of Pompone (searchbot.py): a query is answered from  *)
(* the cache, or, if the rate limiter allows it, by a call to Brave and    *)
(* one call to the URL shortener per result, whose answer is cached.       *)
(*                                                                         *)
(* Eggdrop runs one handler at a time on its main thread, and the upstream *)
(* calls block it: queries, the cache-bust command and a rehash wait until *)
(* the handler is done.  What interleaves with a handler is the clock, the *)
(* upstream services, which may act and lose their answer, and a crash.    *)
(***************************************************************************)
EXTENDS Integers, FiniteSets, Sequences

CONSTANTS Nicks, Texts, Folded, Miss,
          PerUserCooldown, ChannelCooldown, Ttl, MaxEntries, MaxTime,
          Urls,         \* what Brave may return
          ShortIds,     \* what the shortener may mint, for TLC a bound
          ResultCount,  \* RESULT_COUNT
          NoNick, NoText

VARIABLES
    now, store, latest,                        \* see SearchCache
    lastChannel, lastUser, decision, admitted, \* see RateLimiter
    stage,     \* what the main thread does: "idle", "searching", "shortening"
    nick,      \* the asking nick
    text,      \* the query
    results,   \* the URLs Brave returned
    shorts,    \* the display URLs so far, parallel to results
    reply,     \* the last reply to the channel
    minted     \* the shortener's links, as pairs <<short ID, URL>>

cacheVars == <<store, latest>>
limiterVars == <<lastChannel, lastUser, decision, admitted>>
handlerVars == <<stage, nick, text, results, shorts>>
vars == <<now, store, latest, lastChannel, lastUser, decision, admitted,
          stage, nick, text, results, shorts, reply, minted>>

\* A result is shown with its short URL or, as a fallback, with its own.
Display == ShortIds \cup Urls
UpTo(S) == UNION {[1 .. n -> S] : n \in 0 .. ResultCount}
Answers == [results : UpTo(Urls), shorts : UpTo(Display)]
Answer(rs, ss) == [results |-> rs, shorts |-> ss]

ASSUME SearchAssumption ==
    /\ Folded \in [Texts -> Texts] /\ \A t \in Texts : Folded[Folded[t]] = Folded[t]
    /\ Miss \notin Answers
    /\ NoText \notin Texts
    /\ {PerUserCooldown, ChannelCooldown, Ttl, MaxEntries, MaxTime, ResultCount} \subseteq Nat

Cache == INSTANCE SearchCache
Limiter == INSTANCE RateLimiter

\* What a reply says: the query it answers and, for results, the lines.
Kinds == {"none", "usage", "results", "rate_limited", "brave_error", "unexpected"}
NoAnswer == Answer(<< >>, << >>)
Reply(kind, t, answer) == reply' = [kind |-> kind, text |-> t, answer |-> answer]

-----------------------------------------------------------------------------
\* The short URLs of the last query are still there when the next one starts.
IdleWithShorts ==
    /\ stage' = "idle"
    /\ nick' = NoNick
    /\ text' = NoText
    /\ results' = << >>
    /\ shorts' = shorts

Idle ==
    /\ stage' = "idle"
    /\ nick' = NoNick
    /\ text' = NoText
    /\ results' = << >>
    /\ shorts' = << >>

Init ==
    /\ Cache!Init
    /\ Limiter!Init
    /\ stage = "idle"
    /\ nick = NoNick
    /\ text = NoText
    /\ results = << >>
    /\ shorts = << >>
    /\ reply = [kind |-> "none", text |-> NoText, answer |-> NoAnswer]
    /\ minted = {}

-----------------------------------------------------------------------------
(* A query, up to its first upstream call.                                  *)

\* An empty query, or one that is too long, is answered before anything else.
Refuse ==
    /\ stage = "idle"
    /\ Reply("usage", NoText, NoAnswer)
    /\ UNCHANGED <<now, cacheVars, limiterVars, handlerVars, minted>>

\* The cache has it: no upstream call, so no rate-limit slot.
Hit(n, t) ==
    /\ stage = "idle"
    /\ Cache!Lookup(t) # Miss
    /\ Cache!Get(t)
    /\ Reply("results", t, Cache!Lookup(t))
    /\ UNCHANGED <<limiterVars, handlerVars, minted>>

\* The limiter is asked before the cache.
DeniedFirst(n, t) ==
    /\ stage = "idle"
    /\ Limiter!Deny(n)
    /\ Reply("rate_limited", t, NoAnswer)
    /\ UNCHANGED <<cacheVars, handlerVars, minted>>

Denied(n, t) ==
    /\ stage = "idle"
    /\ Cache!Lookup(t) = Miss
    /\ Cache!Get(t)
    /\ Limiter!Deny(n)
    /\ Reply("rate_limited", t, NoAnswer)
    /\ UNCHANGED <<handlerVars, minted>>

\* The per-user cooldown is kept per query text, not per nick.
AllowedForAnother(n, t) ==
    /\ stage = "idle"
    /\ Cache!Lookup(t) = Miss
    /\ Cache!Get(t)
    /\ \E m \in Nicks : Limiter!Allow(m)
    /\ stage' = "searching"
    /\ nick' = n
    /\ text' = t
    /\ UNCHANGED <<results, shorts, reply, minted>>

Allowed(n, t) ==
    /\ stage = "idle"
    /\ Cache!Lookup(t) = Miss
    /\ Cache!Get(t)
    /\ Limiter!Allow(n)
    /\ stage' = "searching"
    /\ nick' = n
    /\ text' = t
    /\ UNCHANGED <<results, shorts, reply, minted>>

Ask(n, t) == Hit(n, t) \/ Denied(n, t) \/ Allowed(n, t)

-----------------------------------------------------------------------------
(* The upstream calls.                                                      *)

\* Brave answers 200 with up to ResultCount well-formed results.
Found(rs) ==
    /\ stage = "searching"
    /\ stage' = "shortening"
    /\ results' = rs
    /\ UNCHANGED <<now, cacheVars, limiterVars, nick, text, shorts, reply, minted>>

\* Brave fails with a BraveError, whose message goes to the channel, or with
\* an exception brave.search does not catch.  The slot stays used.
SearchFails ==
    /\ stage = "searching"
    /\ \E kind \in {"brave_error", "unexpected"} : Reply(kind, text, NoAnswer)
    /\ Idle
    /\ UNCHANGED <<now, cacheVars, limiterVars, minted>>

Shortening == stage = "shortening" /\ Len(shorts) < Len(results)
NextUrl == results[Len(shorts) + 1]

\* What the shortener does when it is asked, as LinkStore promises it: every
\* call mints a new link, under a short ID no other link has.
Mint(s, u) ==
    /\ \A link \in minted : link[1] # s
    /\ minted' = minted \cup {<<s, u>>}

\* The shortener answers 201 with the link it minted.
Shortened(s) ==
    /\ Shortening
    /\ Mint(s, NextUrl)
    /\ shorts' = Append(shorts, s)
    /\ UNCHANGED <<now, cacheVars, limiterVars, stage, nick, text, results, reply>>

\* The call fails, before or after the shortener minted a link.
NoLinkHeard ==
    \/ UNCHANGED minted
    \/ \E s \in ShortIds : Mint(s, NextUrl)

\* The result keeps the short URL of the one before it.
ShortenStale ==
    /\ Shortening
    /\ NoLinkHeard
    /\ shorts' = Append(shorts, IF shorts = << >> THEN NextUrl ELSE shorts[Len(shorts)])
    /\ UNCHANGED <<now, cacheVars, limiterVars, stage, nick, text, results, reply>>

\* A ShortenerError: this result falls back to its own URL.
FallBack ==
    /\ Shortening
    /\ NoLinkHeard
    /\ shorts' = Append(shorts, NextUrl)
    /\ UNCHANGED <<now, cacheVars, limiterVars, stage, nick, text, results, reply>>

\* An unexpected failure starts the query over.
StartOver ==
    /\ Shortening
    /\ NoLinkHeard
    /\ stage' = "searching"
    /\ results' = << >>
    /\ shorts' = << >>
    /\ UNCHANGED <<now, cacheVars, limiterVars, nick, text, reply>>

\* The call raises what shorten does not turn into a ShortenerError (requests
\* reports a response cut off half-way as ChunkedEncodingError, and a base URL
\* without a scheme as InvalidSchema): the whole query fails, nothing is cached.
ShortenRaises ==
    /\ Shortening
    /\ NoLinkHeard
    /\ Reply("unexpected", text, NoAnswer)
    /\ Idle
    /\ UNCHANGED <<now, cacheVars, limiterVars>>

\* An answer with a fallback in it is shown but not cached.
FinishUncached ==
    /\ stage = "shortening"
    /\ Len(shorts) = Len(results)
    /\ latest' = Cache!With(latest, Folded[text], Cache!NewEntry(Answer(results, shorts)))
    /\ Reply("results", text, Answer(results, shorts))
    /\ Idle
    /\ UNCHANGED <<now, store, limiterVars, minted>>

\* Every result has its display URL: the answer is cached, fallbacks included,
\* and shown.
Finish ==
    /\ stage = "shortening"
    /\ Len(shorts) = Len(results)
    /\ Cache!Set(text, Answer(results, shorts))
    /\ Reply("results", text, Answer(results, shorts))
    /\ Idle
    /\ UNCHANGED <<limiterVars, minted>>

-----------------------------------------------------------------------------
(* Operators, the process, and time.                                        *)

\* The partyline command that drops the cache (handle_cache_bust).
CacheBust ==
    /\ stage = "idle"
    /\ Cache!Clear
    /\ UNCHANGED <<limiterVars, handlerVars, reply, minted>>

\* The script is loaded again: a new cache and a new limiter.
Rehash ==
    /\ stage = "idle"
    /\ Cache!Clear
    /\ Limiter!Reload
    /\ UNCHANGED <<handlerVars, reply, minted>>

\* The bot dies and is started again: what it was doing is forgotten, what the
\* shortener has minted is not.
Crash ==
    /\ stage # "idle"
    /\ Cache!Clear
    /\ Limiter!Reload
    /\ Idle
    /\ UNCHANGED <<reply, minted>>

\* Time passes while the bot is idle and while an upstream call blocks it.
Tick ==
    /\ Cache!Tick
    /\ UNCHANGED <<limiterVars, handlerVars, reply, minted>>

Upstream ==
    \/ \E rs \in UpTo(Urls) : Found(rs)
    \/ SearchFails
    \/ \E s \in ShortIds : Shortened(s)
    \/ FallBack
    \/ ShortenRaises
    \/ Finish

Next ==
    \/ \E n \in Nicks, t \in Texts : Ask(n, t)
    \/ Refuse
    \/ Upstream
    \/ CacheBust
    \/ Rehash
    \/ Crash
    \/ Tick

Spec == Init /\ [][Next]_vars

\* Every upstream call ends: requests gives up after its timeout.
FairSpec == Spec /\ WF_vars(Upstream)

-----------------------------------------------------------------------------
TypeOK ==
    /\ Cache!TypeOK
    /\ Limiter!TypeOK
    /\ stage \in {"idle", "searching", "shortening"}
    /\ nick \in Nicks \cup {NoNick}
    /\ text \in Texts \cup {NoText}
    /\ results \in UpTo(Urls)
    /\ shorts \in UpTo(Display)
    /\ Len(shorts) <= Len(results)
    /\ reply \in [kind : Kinds, text : Texts \cup {NoText}, answer : Answers]
    /\ minted \subseteq ShortIds \X Urls

\* A display URL leads to the result it is shown with: it is the result's own
\* URL or a short URL the shortener minted for it, in the same position.
Leads(answer) ==
    /\ DOMAIN answer.shorts = DOMAIN answer.results
    /\ \A i \in DOMAIN answer.results :
          \/ answer.shorts[i] = answer.results[i]
          \/ <<answer.shorts[i], answer.results[i]>> \in minted

\* Whatever part of the upstreams failed while an answer was put together,
\* every line ever shown, and every line the cache would show, leads to the
\* result it names.
ShownLinksLead ==
    /\ Leads(reply.answer)
    /\ \A k \in DOMAIN store : Leads(store[k].answer)

\* A query with a live cache entry is answered from it, in any spelling and
\* during any cooldown, and takes no rate-limit slot ("a popular repeat query
\* stays free to answer even during a per-user cooldown").
RepeatIsFree ==
    [][ /\ stage = "idle"
        /\ reply' # reply
        /\ reply'.text \in Texts
        /\ Cache!Lookup(reply'.text) # Miss
        => reply'.kind = "results" /\ UNCHANGED limiterVars ]_vars

StartsSearch == stage = "idle" /\ stage' = "searching"

\* The limiter with a perfect memory of the searches it admitted.
Memory == INSTANCE Cooldown WITH admittedAny <- lastChannel

\* Every upstream request is one that the cooldowns admit, with nothing
\* forgotten since the script was loaded, and it is charged to its own nick.
UpstreamIsRationed == [][StartsSearch => Memory!Admit(nick')]_vars

\* Brave is asked again, and new short URLs minted, only when the last answer
\* has outlived its time to live, MaxEntries others were stored since, or the
\* cache was dropped: a repeat never leaks duplicate links.
NeverRefetchesFresh ==
    [][ StartsSearch /\ Folded[text'] \in DOMAIN latest
        => LET k == Folded[text']
           IN  \/ now >= latest[k].created_at + Ttl
               \/ Cardinality({j \in DOMAIN latest :
                      latest[j].created_at >= latest[k].created_at}) > MaxEntries ]_vars

\* How many more steps a query takes at most: the search, one call per result
\* and the reply.
StepsLeft ==
    CASE stage = "idle"       -> 0
      [] stage = "searching"  -> ResultCount + 2
      [] stage = "shortening" -> Len(results) - Len(shorts) + 1

\* Whatever the upstreams answer and however they fail, a query blocks the bot
\* for one search and at most one call per result: nothing is asked for twice.
QueriesAreBounded ==
    [][ stage # "idle" /\ UNCHANGED now => StepsLeft' \in 0 .. StepsLeft - 1 ]_vars

\* Every query that reaches the upstreams is done sooner or later, so that the
\* bot gets back to its other handlers.
QueriesEnd == stage # "idle" ~> stage = "idle"

\* "Shortener failures are logged but never surface to IRC": once Brave has
\* answered, the query ends with its results.
ShortenerNeverSurfaces ==
    [][ stage = "shortening" /\ reply' # reply => reply'.kind = "results" ]_vars

=============================================================================
