# A formal model of the efnetmoto fleet

TLA+ modules that model the programs of this repository, the TLC runs that
check them on small instances, and theorems that TLAPS proves for all
instances. `PROJECT.json` lists, for every definition, the source lines it
stands for.

## 1. The system

The fleet is three eggdrop bots, each on a host of its own, deployed and backed
up with Ansible:

| bot | parts |
|---|---|
| Pompone | `searchbot.py` (web search), the URL shortener (Go, SQLite), pisg statistics behind nginx |
| Decisis | `bseen1.4.2.tcl` (who was last seen when) |
| Xerokewl | `quoteengine.tcl` (quotes in SQLite), `weather.py` |

Eggdrop runs one handler at a time on its main thread. What interleaves with a
handler is therefore the clock, the services it calls, other processes (the
backup) and a crash; real concurrency is found in the URL shortener, where
each HTTP request is a goroutine.

### Inventory

| component | state | operations | what is hard | what makes it correct |
|---|---|---|---|---|
| URL shortener `services/url-shortener` | table `links`, a pool of one connection, in-flight requests, the process | create, redirect, start, shutdown | concurrent creates, contexts that end while a statement runs, shutdown with requests in flight, crashes | short IDs are unique; a link once told resolves for ever; one row per request, which its answer accounts for; requests and shutdowns end |
| rate limiter `searchbot/ratelimit.py` | last time per nick and for the channel | check_and_record | sweeps on every call, boundary instants | decides like a limiter that never forgets; stays bounded |
| result cache `searchbot/cache.py` | dictionary of entries | get, set, clear | lazy expiry, eviction at the cap, overwriting | serves only the last fresh answer; loses none too early |
| search handler `searchbot.py`, `brave.py`, `shortener.py` | the query in progress | query, cache bust, rehash | upstreams that fail, act and lose their answer, or hang | hits are free; upstreams are rationed; each line leads to its result |
| bseen database | `bs_list`, data file, backup file | events, unseen, trim, save, load | crash or failure between two steps of a save, restarts, rehash | one whole copy survives; nothing removed returns; oldest go first |
| bseen flood protection | slots of times, ignores | query, rehash | the window's arithmetic, ignores | drops exactly the queries over the limit |
| weather bot `weather.py`, `weather/` | a preference text per user, in eggdrop's user records | .wz, .wzset | patterns that overlap, flags that contradict, a probe before saving, five parsers with five ideas of a missing value, forecasts that fail | preferences read back; a default replays where it was tried; nothing unreported is shown; every command is answered |
| bseen queries | none of its own | seen, lastspoke, statistics, bot-net search | nick-change chains, empty tables | not modelled (section 6) |
| quote engine, bots_broke | table `quotes`; none | add, delete, search | unique titles, LIKE patterns | not modelled |
| backup, off-site copies, retention, restore | archives on each host | playbooks | a backup during a save, peers that miss copies, retention, restore paths | not modelled |
| pisg rotation, deployment | logs, cache, keys | playbooks | steps that fail half-way | not modelled |
| images, nginx, templates, CI, tests | static | | | not modelled |

## 2. The modules

Each component has a module with its variables, one action per operation or
step, its specification and its properties; an `MC` module that instantiates it
for TLC with a `.cfg` per question; and, where something is proved, a
`_proofs` module. A definition that stands directly above another one and is
introduced by a comment telling a slip (`Leak` above `Release`) is a mutated
form of it: no action uses it, and the property named in `PROJECT.json` fails
when it takes the other's place. That shows the property can fail.

| module | models | actions |
|---|---|---|
| `LinkStore` | what the shortener promises: links are minted under fresh IDs, kept for ever, and only existing ones are told | `Mint`, `Issue`, `Visit` |
| `UrlShortener` | `main.go`, `httpapi`, `store`, `shortid` | request arrival and refusal, each statement of `Store.Create` and `Store.Lookup`, responses, clients that give up, start, shutdown and its timeout, crash |
| `Cooldown` | what the limiter promises, with a perfect memory | `Admit`, `Forget`, `Advance` |
| `RateLimiter` | `ratelimit.py` | `Allow`, `Deny`, `Reload` |
| `SearchCache` | `cache.py` | `Get`, `Set`, `Clear` |
| `SearchBot` | `searchbot.py`, `brave.py`, `shortener.py`, composed of instances of `SearchCache` and `RateLimiter` and of the shortener as `LinkStore` promises it | `Refuse`, `Hit`, `Denied`, `Allowed`, `Found`, `SearchFails`, `Shortened`, `FallBack`, `ShortenRaises`, `Finish`, `CacheBust`, `Rehash`, `Crash` |
| `SeenStore` | what bseen's files promise, told without files: what outlives the bot is at any time a part of what it knew at one moment, and is put by before it is overwritten | `Change`, `PutBy`, `Store`, `EndSave`, `Die`, `Recall`, `FallBack`, `BreakOff` |
| `SeenDb` | bseen's database and its files | `Log`, `Rename`, `Unseen`, `Trim`, the steps of `bs_save` and their failures, `Stop`, `Start`, `Rehash`, a restore that breaks off (`RestoreBreaksOff`), the loss of the data file |
| `SeenFlood` | `bs_flood` | `Answer`, `Drop`, `Rehash` |
| `WeatherProviders` | what each of the five providers supports, reads, needs and lets through, and the requests of its forecast | none: a record per provider |
| `WeatherRouting` | `resolver.py`, `router.py` | none: `Classify` and `Route` |
| `WeatherReports` | the parsers and `formatter.py`: from a response to the figures of a line, or to a failure | none: `Parsed`, `Line`, `Outcomes` |
| `WeatherBot` | `weather.py`, `prefs.py`, on top of the three above | `Wz`, `WzReplay`, `WzUser`, `WzRefuse`, `Wzset`, `WzsetUnits`, `WzsetRefuse`, `AskAnswered`, `AskUseless`, `AskFails`, `ForecastAnswered`, `ForecastFails`, `ProbeAnswered` |

### How state corresponds to the code

* `UrlShortener`: a handler slot is a goroutine serving a request, `pc` where
  it is in the handler, `conn` who holds the only connection
  (`SetMaxOpenConns(1)`), `links` the rows in the order of their ids.
  `waiting[h]` says that the client is still there; once it is not, `r.Context()`
  may be done, so a statement may fail before or *after* its row is committed
  (`CommitUnheard`). A committed row's ID may also not be readable (`IdUnread`),
  whether the client is there or not. Request bodies and tokens are classes that the checks tell
  apart. The ghosts `issued`, `visited`, `rows` and `knew` record what the
  outside was told; no guard reads them.
* `RateLimiter`, `SearchCache`: a call is one step, since they are only called
  from eggdrop's main thread. Time is counted in ticks of the monotonic clock.
  `admitted` and `latest` are ghosts that remember what the code forgets.
* `SearchBot`: between `Allowed` and `Finish` the main thread is blocked by an
  upstream call and no other handler runs, so only upstream results, the clock
  and a crash can happen. A failed shortening may or may not have minted a link.
* `SeenDb`: a record is a channel and a time. A line is written in two halves,
  so that a crash can cut it; the records go out in any order, as Tcl arrays
  have none. `left` is what the save has still to write. `saved`, `failed` and
  `forgotten` are ghosts: the last database saved to the end or loaded, whether
  a file operation failed since (`saved` then is of no interest, and empty), and
  how far a removal by `unseen` has got. A copy that is cut, by `bs_save` or by
  `bs_read`, leaves any part of the lines: a torn line at its end would be read
  like none.
* `SeenFlood`: `slots` is `bs_flood_array`; the ghosts `asked` and `answered`
  remember all queries since the last rehash.
* `WeatherBot`: a handler waits for every response on eggdrop's only thread, so
  one `task` is under way at a time, in the stage of the request it waits for.
  A text is what the parsers make of it: its flags, the name after `--user`, its
  location and where it was written; a stored preference is a text of flags and
  a location, and `Serialize` and `Deserialize` say which flags are written and
  how they are read. `source` stands for the code's `metar` and `provider_id`,
  of which at most one is ever set. A response is, field by field, a reading:
  missing, null, zero, some value, or the airports' "10+"; what a parser and a
  formatter make of it is `Parsed` and `Line`. A place is known by the patterns
  it matches (`Looks`). The ghosts `told` and `vouched` remember what users have
  asked for and which provider answered a probe.

## 3. The runs

| run | question | bounds |
|---|---|---|
| `shortener` | Do concurrent requests, crashes, shutdowns and lost clients leave the table, the connection and every link told intact, does every row fit the answer its request gets, is `LinkStore` implemented, and does every step of a request bring it closer to its end? | 2 handlers, 2 IDs, 2 URLs, 2 attempts: two creates can collide, retry, exhaust and race a redirect |
| `shortener_live` | Do requests and shutdowns end? | 2 handlers, 1 ID |
| `limiter` | Does the sweeping limiter decide like a perfect memory, within bounded memory? | 4 nicks, cooldowns of 5 and 2, a clock of 9 ticks: cooldowns start, overlap and elapse |
| `cache` | Is every answer current, is the cap kept, is nothing lost early? | 4 texts with 3 keys, cap 2, a clock past the time to live |
| `bot` | Do cache, limiter, handler and shortener keep their promises together, does every line lead to the result it names, does a query make no more calls than a search and one per result, and does it end? | 2 nicks, 2 queries of which one has 2 spellings, 2 results, 2 URLs, 1 ID (the second shortening has to fail), cap 1, a clock of 2 ticks with cooldowns of 2 and 1 and a time to live of 2 |
| `bot_surface` | *Violated.* Do shortener failures never surface? | 1 nick, 2 results, 1 URL |
| `seen` | What survives crashes and failures in a save or a restore, is everything put by before it is overwritten, do removed channels stay removed, are the oldest forgotten first, and is `SeenStore` implemented? | 2 nicks, 2 channels, limit 1, 3 instants: saves, trims, torn files, backups of different ages and restores that break off |
| `seen_unseen` | *Violated.* Is a removal that the hourly save has seen final? | the same, with 2 instants |
| `seen_flood` | Does the slot window drop exactly the right queries, and are so few answered that all users together stay under the limit? | 2 users, 3 slots, 6 queries, 7 instants |
| `seen_beyond` | *Violated.* Are only queries beyond x in y seconds dropped? | the same |
| `weather` | Do preferences read back, do defaults go where they were tried, is nothing invented, does a command make four requests at most, is every command answered? | 2 users and strangers, an airport that looks like a station too, an NWS station, an Ambient and an APRS station, texts of every kind a parser tells apart, 7 observations that differ in what is missing |
| `weather_visibility` | *Violated.* Is an airport shown with more than ten miles only if it has reported so? | the same |

Bounds named in the configurations: `MaxTime` ends the clock, `MaxAttempts` is
the code's five attempts reduced to two (the loop's three cases, retry, retry
and succeed, exhaust, all occur), `MaxQueries` ends a flood. `ShortIds` bounds
the links: when all are used, creates collide until they fail, which is the
case the code calls pathological. The places and
observations of `weather` are few, but reach every parser, formatter and failure:
three providers can be asked about the airport alone. Symmetry is used for interchangeable nicks,
handlers, URLs, IDs, users and channels, and never in a run with a liveness
property.

### What the violated runs show

* `bot_surface`: `searchbot.py:95` says that shortener failures never surface
  to IRC. `shorten` turns only `requests.Timeout` and `requests.ConnectionError`
  into a `ShortenerError`; any other failure of the request, such as a response
  cut off half-way, ends the query with "An unexpected error occurred".
* `seen_unseen`: `bs_save` returns at once when no record is left, so a removal
  that empties the database is never written, and the next rehash or start
  (`bseen1.4.2.tcl:187-190`) reads the old records back.
* `seen_beyond`: the x-th query in y seconds is dropped, not only those beyond x
  (the integration tests' README knows: it keeps to three).
* `weather_visibility`: `avwx.py` drops the visibility "10+" to `None`, and
  `format_metar` prints `None` as "> 10 SM"; but a visibility that is null,
  missing or zero becomes `None` too (`if visib_raw` and `float(...)` are false
  for it), so fog at zero miles is announced as a clear day.

### What the weather bot shows besides

Found while its properties were stated, and described rather than asserted since
no document says otherwise: `.wzset <location>` without units puts metric over
the units chosen before (`ReadsBack` takes that for what was asked); `.wz
--imperial` without a location replays the saved default, units included, and so
shows a metric default in metric units (`weather.py:185-188`, `WzReplay`), while
`.wz --imperial --user somebody` does take the units it names; an airport
without the raw text of its report can be saved as a default, and its replay ends
in an unexpected error; a null forecast URL of the NWS is handed to `requests`,
whose exception costs the user the weather that was already there; APRS reads a
missing temperature as 0 °C, which `NoInventedFigures` exempts.

### What `SeenDb` shows besides

A crash in a save leaves a whole copy in one of the two files
(`OneCopyIsWhole`). The code does not look for it: `bs_read` takes the backup
only when there is no data file, and the first save after the start copies the
torn file over the whole backup. A failing `cp` is caught and the save goes on,
and a save that fails after the truncation leaves a torn file that the next
save copies over the backup; `failed` marks these runs, and the property says
nothing of them. Nor does it say anything of the time after a start that has
loaded a torn file: what was loaded counts as the database then.

The restore is a `cp` of its own (`bseen1.4.2.tcl:137`), which nothing catches. If
it fails, the script does not finish loading, and eggdrop halts on its
configuration; if it fails or is cut part-way, what it has copied is a data file
from then on (`RestoreBreaksOff`), so the next start loads that part and never
looks at the whole backup again, which the save after it overwrites. All that can
be promised is what `SeenStore` says: the part is of one database, and the backup
stays whole until that save.

That the database shrinks to its limit is not stated: `ForgetsTheOldest` says what
a trim may take, not that it is ever run.

## 4. Fairness

* `UrlShortener`: weak fairness of each handler's own steps (goroutines run, and
  statements end), strong fairness of `Acquire`, because the connection is free
  and taken again any number of times while a request waits (`database/sql`
  serves waiting requests in order), and weak fairness of the end of a shutdown,
  which has a timeout. Nothing is assumed of clients, signals or crashes.
* `SearchBot`: weak fairness of `Upstream`: a call returns or is given up. The
  code passes a timeout to `requests`, which bounds each read and not the whole
  call, so this is an assumption about the upstreams: they do not send a response
  drop by drop for ever.
* `WeatherBot`: weak fairness of `Upstream`, for the same reason and with the same
  assumption: every request has a timeout of ten seconds. A task asks for at most
  three responses more (`CommandsAreBounded`), so no strong fairness is needed.

## 5. The proofs

| theorem | statement |
|---|---|
| `UrlShortener_proofs!TypeCorrect`, `ConnectionSafe`, `ShortIdsUnique`, `IssuedLinksLast`, `NoLinkLost`, `RowsAccounted`, `AnswersAccounted` | the invariants of the run `shortener`, for any number of handlers, IDs, URLs and attempts |
| `UrlShortener_proofs!RequestsBounded` | every step of a request brings it closer to its end, for any number of attempts and handlers |
| `UrlShortener_proofs!PromiseKept`, `PromiseMeans` | `Spec => KeepsPromise`: the refinement of `LinkStore`; and that its invariants are therefore true of the rows and answers of the service |
| `RateLimiter_proofs!TypeCorrect`, `LimiterDecides`, `CooldownKept`, `MemoryBounded` | the limiter decides as `Cooldown`, implements it, and remembers no more than the names of one sweep interval and one cooldown |
| `SearchCache_proofs!TypeCorrect`, `CapKept`, `ServedIsCurrent`, `NewestKept` | the cap, that what is served is current, and that what is gone had expired or had to go |
| `SearchBot_proofs!CacheInside`, `CachePromisesHold`, `LimiterInside`, `LimiterPromisesHold` | the bot drives its cache and its limiter as their specifications allow, so all they promise holds inside it |
| `SearchBot_proofs!QueriesBounded` | one search and at most one call per result, for any number of results |
| `SearchBot_proofs!TypeCorrect`, `LinksLead`, `RepeatsAreFree`, `UpstreamRationed`, `FreshNotRefetched` | the safety properties of the run `bot`, for any nicks, texts, results, IDs and times |
| `SeenDb_proofs!TypeCorrect`, `WholeCopyRemains`, `RemovedStaysRemoved`, `NothingGoesBack`, `OldestForgotten` | the safety properties of the run `seen`, for any nicks, channels, limit and times |
| `SeenDb_proofs!StoreKept` | `Spec => KeepsAsStored`: the refinement of `SeenStore` |
| `SeenFlood_proofs!TypeCorrect`, `FloodsAreDropped`, `AnswersRationed` | `bs_flood`'s slots drop what a perfect memory would, for any limit and window, and fewer than the limit are answered |
| `WeatherBot_proofs!RouterKeepsItsWord` | what the docstring of `route` promises, for every type of place and every flag |
| `WeatherBot_proofs!CommandsBounded` | each answer and each failure uses up one of at most four requests |
| `WeatherBot_proofs!TypesHold`, `PreferencesReadBack`, `DefaultsReplay`, `NothingInvented` | the safety properties of the run `weather`, for any users, places, texts and observations |

So every safety property of every passing run is a theorem, and both refinements
are. `TypeOK` of the limiter and of the cache is checked by the run `bot`, whose own
includes both.

* **UrlShortener.** The inductive invariant `IInv` adds to the properties a
  request-local part (`RequestInv`): a handler that may still insert has
  inserted nothing, a handler about to answer 201 or 302 holds a linked pair,
  and a redirect whose ID was known is looking for an ID that is linked; and which
  row is whose (`OwnRows`): until a request is answered, no issued link and no other request's
  row has the ID of its own. It is
  needed because `IssuedResolves` alone does not say why a link is in the table
  when its answer is written. One lemma per part shows that every step keeps it;
  the table only ever grows (`LinkedStays`), which carries it through crashes and
  restarts.
  `RequestsBounded` is what of `RequestsEnd` can be proved: the measure
  `StepsLeft`, three steps for each attempt that is left and one or two to
  answer, falls whenever a request moves. It needs `attempt < MaxAttempts` while a
  request creates, which is in `RequestInv`. `PromiseMeans` carries `LinkStore`'s invariants,
  proved of its two-line actions, over the refinement.
* **RateLimiter.** The invariant relates `lastUser` to the ghost `admitted`: an
  entry is the time remembered, or it was swept and that time has elapsed. For
  `MemoryBounded` it also says how densely entries can lie (`Spaced`): those made since any
  instant, times the channel's cooldown, fit into the time since then and one
  cooldown more; and whoever was allowed last has swept what was too old by then.
* **SearchCache.** The invariant says that every entry is the last one stored for
  its key, with the expiry that follows from its creation; the cap follows from
  the cardinality lemmas for one element added and one removed. `NewestKept` adds
  what a lost entry is excused by (`LossesExcused`), which no later step takes back.
* **SearchBot.** The proof is compositional: every step of the bot is a step of the
  cache or leaves it alone, and the same for the limiter, so the invariants proved
  for them hold of the instances without another proof. What the bot adds is the
  handler's own state (`HandlerOK`) and that the results shortened so far lead to
  where they should (`LeadsSoFar`), since links once minted stay. `CacheInside` and
  `LimiterInside` say the same of whole behaviours: the bot implements the
  specifications of its parts, so their theorems are theorems of the bot.
* **SeenDb.** The invariant says, stage by stage, which file is whole and how much
  of the other has been written (`WholeCopies`, `PartWritten`), and how far a
  removal has got in memory and in the files (`StaysRemoved`). That a trim spares
  what is newer follows from its cut: the records it must keep inject into those
  it keeps (`TrimSparesNewer`).
  The refinement (`StoreStep`) reads off the files what the next start would bring
  back: the whole records of the data file, or of the backup if there is none. A
  copy puts by what was kept, or a part of it if it is cut off; the truncation and each
  half of a line keep a part of what is known; a write that fails leaves what is kept
  as it is. A restore that breaks off keeps a part of the backup (`RestoreIsPart`).
  That a save overwrites only what it has put by is in the order of `SeenStore`'s
  actions: `Store` needs the phase that `PutBy` begins, and `PutBy` takes all that is
  kept or is marked as failed. What makes it true is `PartWritten`: the file being written has
  only records that are still in memory as they are, since no handler runs in a save.
* **SeenFlood.** The slots hold the times of the last queries, newest first; a
  query is in a crowd exactly if the oldest slot lies within the window
  (`CrowdedIsRecent`).
  For `AnswersRationed` the last answer in the window is the one to look at: it was let
  through, so fewer than the limit were recent then, and every earlier answer in the
  window was among them. That there is a last one (`LastOf`) takes a minimum over
  finite sets, which the library's well-founded orderings give without induction.
* **WeatherBot.** The properties are inductive together with what holds of a
  request in flight (`InFlight`): its provider is the router's for its place and
  source, and only a known user's own request probes. What is then stored is
  where the probe went. The router is a pure function, and what is proved of it
  (`RouterKeepsItsWord`) holds of the five providers as they declare themselves: a
  sixth that supports less or owns more would have to be checked again.

Assumptions are those the modules name: at least one attempt, the "no value"
constants (`NoHandler`, `NoText`, `None`, `Cut`, `NoFile`, ...) outside their sets,
cooldowns, limits and bounds natural numbers, finitely many nicks in `SeenDb`,
folding idempotent, texts and observations of their types, and a flood window
shorter than the time since 1970 (`FloodTime < MaxTime`: the empty slots hold the
time 0, which must be out of the window). TLC evaluates each of them in the runs.

Only model-checked: liveness (`RequestsEnd`, `ShutdownEnds`, `QueriesEnd`,
`CommandsAnswered`), since TLAPS has no rules for the fairness and `ENABLED` it
needs; and the violated properties. Of three of the four the part that says how
much work is left is proved (`RequestsBounded`, `QueriesBounded`, `CommandsBounded`);
that the next step is taken at all is what the fairness adds. A shutdown has no such
measure: it waits for requests, or for its timeout.

## 6. What is not modelled

Formatting, wording, logging and configuration parsing; the content of titles,
URLs and queries; SQLite's own durability (a committed row survives, a running
statement is rolled back); eggdrop's binds, its user file and its network; the
network between hosts. Besides:

* **Weather.** `conversions.py` is floating-point arithmetic without state, which
  its own tests compare with known values. Of a line only which figures it shows
  is modelled, not their values or layout; conditions, UV and the forecast's
  lines are left out. `.wzhelp` changes nothing.
* **bseen.** The updater for older versions and events without a channel. The
  queries, the statistics and the bot-net search change no record. One thing they
  do is divide by the number of records (`bs_chanstats`), which is zero for an
  empty database: the Tcl error is caught nowhere.
* **Quote engine, bots_broke.** Single SQL statements, run one at a time by
  eggdrop's only thread, and replies without state: a model would restate them.
* **Backup, restore, rotation, deployment.** Sequential playbooks whose correctness
  lies in paths, patterns and the rules by which Ansible copies, none of them under
  this repository's control. Reading them has shown where they disagree:
  * `backup-decisis.yml:28` copies `data/seen`, without a trailing slash, into the
    directory `seen` that the staging area already has, which makes `seen/seen`;
    `restore-decisis.yml` copies `seen/` to `data/seen/`, so the database comes back
    as `data/seen/seen`, where the bot does not look. The check after the restore
    compares the same two trees and passes.
  * The copy is taken while the bot runs, and of its two files at two instants:
    `OneCopyIsWhole` holds at each instant, not across both.
  * `restore-decisis.yml:13` names the variables `Decisis.yml`; the file is
    `decisis.yml`, and on a file system that tells cases apart the playbook stops
    before it has done anything.
  * Pompone's `archives` are backed up and never restored.
  * `rotate-pompone-pisg.yml:13` looks for logs in `logs/channel`; they are in
    `logs/channels` (`docker-compose.yml:27`), so it never finds any to archive.
    When it finds a cache file of last year it deletes the whole cache directory
    (line 63), whatever comes after.
  * Retention (`backup-finalize.yml:30`) deletes by age every archive in the
    directory, copies of the peers' included: of a bot that is no longer backed
    up, the last copy goes after thirty days.
  * A second backup on the same day has the name of the first and overwrites it.

These would be the next modules of this project: the archives of several hosts
with their retention, and an abstract promise that a lost host can be restored from a copy
no older than its last backup.
