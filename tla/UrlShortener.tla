----------------------------- MODULE UrlShortener -----------------------------
(***************************************************************************)
(* The URL shortener service (services/url-shortener): concurrent HTTP     *)
(* handlers for POST /api/v1/links and GET /{short_id} over one SQLite     *)
(* database reached through a pool of exactly one connection, in a process *)
(* that may crash, be told to shut down, and be started again.             *)
(*                                                                         *)
(* A handler is one slot of Handlers; a slot is used again for a later     *)
(* request once its response has been written.  The variables below the    *)
(* line "ghost" record history for the properties; no guard reads them.    *)
(***************************************************************************)
EXTENDS Naturals, Sequences

CONSTANTS Handlers,      \* request slots: the requests served at one time
          ShortIds,      \* what shortid.Generate can return
          Urls,          \* destination URLs that validURL accepts
          MaxAttempts,   \* store.maxAttempts
          NoHandler,     \* the connection is free
          NoId,          \* a create request has not generated a short ID yet
          NoUrl          \* a redirect request has not found a destination yet

ASSUME AttemptsAssumption == MaxAttempts \in Nat \ {0}
ASSUME NoHandlerAssumption == NoHandler \notin Handlers
ASSUME NoValueAssumption == NoId \notin ShortIds /\ NoUrl \notin Urls

VARIABLES
    proc,      \* the process: "down", "up", "draining" (Shutdown), "closing"
    links,     \* the rows of table links, in the order of their AUTOINCREMENT id
    conn,      \* the handler that holds the one connection, or NoHandler
    pc,        \* where each handler is
    sid,       \* the short ID generated (create) or asked for (redirect)
    url,       \* the destination asked for (create) or found (redirect)
    attempt,   \* the loop counter of Store.Create
    status,    \* the HTTP status to be written
    waiting,   \* the client is still there: r.Context() can only be done if not
    rows,      \* ghost: rows inserted on behalf of the request in this slot
    knew,      \* ghost: the ID a redirect asks for was issued before it was sent
    issued,    \* ghost: the links clients have been told of
    visited    \* ghost: the redirects visitors have been given

ghosts == <<rows, knew, issued, visited>>
request == <<sid, url, attempt, status, waiting, rows, knew>>
vars == <<proc, links, conn, pc, sid, url, attempt, status, waiting,
          rows, knew, issued, visited>>

Row == [short_id : ShortIds, destination_url : Urls]

Serving == {"up", "draining", "closing"}
HoldsConn == {"inserting", "looking"}
PCs == {"idle", "generate", "insert", "lookup", "reply"} \cup HoldsConn
Refusals == {400, 401, 413}
Statuses == {0, 201, 302, 404, 500} \cup Refusals

\* WHERE short_id = s
Rows(s) == {i \in DOMAIN links : links[i].short_id = s}

\* Without the UNIQUE constraint of the schema.
NeverViolated(s) == FALSE
UniqueViolated(s) == Rows(s) # {}

Linked(s, u) == \E i \in DOMAIN links :
                    links[i].short_id = s /\ links[i].destination_url = u

-----------------------------------------------------------------------------
NoRequests ==
    /\ pc' = [h \in Handlers |-> "idle"]
    /\ sid' = [h \in Handlers |-> NoId]
    /\ url' = [h \in Handlers |-> NoUrl]
    /\ attempt' = [h \in Handlers |-> 0]
    /\ status' = [h \in Handlers |-> 0]
    /\ waiting' = [h \in Handlers |-> FALSE]
    /\ rows' = [h \in Handlers |-> 0]
    /\ knew' = [h \in Handlers |-> FALSE]

Init ==
    /\ proc = "down"
    /\ links = << >>
    /\ conn = NoHandler
    /\ pc = [h \in Handlers |-> "idle"]
    /\ sid = [h \in Handlers |-> NoId]
    /\ url = [h \in Handlers |-> NoUrl]
    /\ attempt = [h \in Handlers |-> 0]
    /\ status = [h \in Handlers |-> 0]
    /\ waiting = [h \in Handlers |-> FALSE]
    /\ rows = [h \in Handlers |-> 0]
    /\ knew = [h \in Handlers |-> FALSE]
    /\ issued = {}
    /\ visited = {}

-----------------------------------------------------------------------------
(* A request arrives.  What the mux, requireAuth and the checks at the top  *)
(* of createLink decide depends on the request alone: a request that fails  *)
(* one of them is answered without touching the store.                      *)
(*                                                                          *)
(* Throughout, a definition directly above an operator with the same        *)
(* parameters is the slip a comment describes; no action uses it.           *)

\* Requests are still accepted during the shutdown.
ArrivesLate(h) ==
    /\ proc \in {"up", "draining"}
    /\ pc[h] = "idle"
    /\ waiting' = [waiting EXCEPT ![h] = TRUE]
    /\ rows' = [rows EXCEPT ![h] = 0]
    /\ UNCHANGED <<proc, links, conn, issued, visited>>
Arrives(h) ==
    /\ proc = "up"
    /\ pc[h] = "idle"
    /\ waiting' = [waiting EXCEPT ![h] = TRUE]
    /\ rows' = [rows EXCEPT ![h] = 0]
    /\ UNCHANGED <<proc, links, conn, issued, visited>>

\* The status a create request is refused with, 0 if it is accepted: the
\* token is checked first, then the body.
Verdict(token, body) ==
    IF token # "api_key" THEN 401
    ELSE IF body = "too_large" THEN 413
    ELSE IF body \in {"not_json", "not_url"} THEN 400
    ELSE 0

RefuseCreate(h, token, body) ==
    /\ Arrives(h)
    /\ Verdict(token, body) # 0
    /\ pc' = [pc EXCEPT ![h] = "reply"]
    /\ status' = [status EXCEPT ![h] = Verdict(token, body)]
    /\ UNCHANGED <<sid, url, attempt, knew>>

AcceptCreate(h, u) ==
    /\ Arrives(h)
    /\ Verdict("api_key", u) = 0
    /\ pc' = [pc EXCEPT ![h] = "generate"]
    /\ url' = [url EXCEPT ![h] = u]
    /\ attempt' = [attempt EXCEPT ![h] = 0]
    /\ UNCHANGED <<sid, status, knew>>

AcceptRedirect(h, s) ==
    /\ Arrives(h)
    /\ pc' = [pc EXCEPT ![h] = "lookup"]
    /\ sid' = [sid EXCEPT ![h] = s]
    /\ knew' = [knew EXCEPT ![h] = \E link \in issued : link[1] = s]
    /\ UNCHANGED <<url, attempt, status>>

-----------------------------------------------------------------------------
(* Store.Create and Store.Lookup, one statement at a time.                  *)

Answer(h, code) ==
    /\ pc' = [pc EXCEPT ![h] = "reply"]
    /\ status' = [status EXCEPT ![h] = code]

\* shortid.Generate picks any ID: uniqueness is the database's concern.
Generate(h, s) ==
    /\ pc[h] = "generate"
    /\ pc' = [pc EXCEPT ![h] = "insert"]
    /\ sid' = [sid EXCEPT ![h] = s]
    /\ UNCHANGED <<proc, links, conn, url, attempt, status, waiting>>
    /\ UNCHANGED ghosts

\* crypto/rand fails: surfaced directly, not treated as a collision.
GenerateFails(h) ==
    /\ pc[h] = "generate"
    /\ Answer(h, 500)
    /\ UNCHANGED <<proc, links, conn, sid, url, attempt, waiting>>
    /\ UNCHANGED ghosts

\* database/sql hands the only connection to one waiting statement.
Acquire(h) ==
    /\ pc[h] \in {"insert", "lookup"}
    /\ proc \in {"up", "draining"}
    /\ conn = NoHandler
    /\ conn' = h
    /\ pc' = [pc EXCEPT ![h] = IF pc[h] = "insert" THEN "inserting" ELSE "looking"]
    /\ UNCHANGED <<proc, links, sid, url, attempt, status, waiting>>
    /\ UNCHANGED ghosts

\* The wait for the connection ends with an error when the request's context
\* is done (its client is gone) or the database has been closed.
AcquireFails(h) ==
    /\ pc[h] \in {"insert", "lookup"}
    /\ ~waiting[h] \/ proc = "closing"
    /\ Answer(h, 500)
    /\ UNCHANGED <<proc, links, conn, sid, url, attempt, waiting>>
    /\ UNCHANGED ghosts

\* The result set is not closed, so its connection never returns to the pool.
Leak(h) == conn = h /\ conn' = h
Release(h) == conn = h /\ conn' = NoHandler

\* The loop makes one attempt too many.
MayRetryPast(n) == n <= MaxAttempts
MayRetry(n) == n < MaxAttempts

\* The UNIQUE constraint refuses the row.
Collide(h) ==
    /\ pc[h] = "inserting"
    /\ UniqueViolated(sid[h])
    /\ Release(h)
    /\ attempt' = [attempt EXCEPT ![h] = @ + 1]
    /\ UNCHANGED <<proc, links, sid, url, waiting>>
    /\ UNCHANGED ghosts

\* INSERT OR IGNORE: a collision passes for a success.
RetryIgnored(h) ==
    /\ Collide(h)
    /\ MayRetry(attempt[h] + 1)
    /\ Answer(h, 201)

\* Try again with a fresh ID ...
Retry(h) ==
    /\ Collide(h)
    /\ MayRetry(attempt[h] + 1)
    /\ pc' = [pc EXCEPT ![h] = "generate"]
    /\ UNCHANGED status

\* ... unless this was the last attempt: ErrExhaustedRetries.
Exhaust(h) ==
    /\ Collide(h)
    /\ ~MayRetry(attempt[h] + 1)
    /\ Answer(h, 500)

InsertRow(h) ==
    /\ ~UniqueViolated(sid[h])
    /\ links' = Append(links, [short_id |-> sid[h], destination_url |-> url[h]])
    /\ rows' = [rows EXCEPT ![h] = @ + 1]

\* The INSERT commits, so the row survives any later crash, and its ID is read.
Commit(h) ==
    /\ pc[h] = "inserting"
    /\ InsertRow(h)
    /\ Release(h)
    /\ Answer(h, 201)
    /\ UNCHANGED <<proc, sid, url, attempt, waiting, knew, issued, visited>>

\* Every error of the INSERT is taken for a collision and tried again.
CommitThenRetry(h) ==
    /\ pc[h] = "inserting"
    /\ ~waiting[h]
    /\ InsertRow(h)
    /\ Release(h)
    /\ pc' = [pc EXCEPT ![h] = "generate"]
    /\ UNCHANGED <<proc, sid, url, attempt, status, waiting, knew, issued, visited>>

\* The client goes away while the INSERT runs: the driver reports the done
\* context although the row may already be committed.
CommitUnheard(h) ==
    /\ pc[h] = "inserting"
    /\ ~waiting[h]
    /\ InsertRow(h)
    /\ Release(h)
    /\ Answer(h, 500)
    /\ UNCHANGED <<proc, sid, url, attempt, waiting, knew, issued, visited>>

\* The INSERT has committed but LastInsertId fails: Create returns an error
\* although the row stays, and the client, still waiting or not, is told so.
IdUnread(h) ==
    /\ pc[h] = "inserting"
    /\ InsertRow(h)
    /\ Release(h)
    /\ Answer(h, 500)
    /\ UNCHANGED <<proc, sid, url, attempt, waiting, knew, issued, visited>>

\* Any other error of a statement (I/O, a done context): returned at once.
StatementFails(h) ==
    /\ pc[h] \in HoldsConn
    /\ Release(h)
    /\ Answer(h, 500)
    /\ UNCHANGED <<proc, links, sid, url, attempt, waiting>>
    /\ UNCHANGED ghosts

\* The WHERE clause matches more rows than the one asked for.
FoundAny(h, i) ==
    /\ pc[h] = "looking"
    /\ Release(h)
    /\ url' = [url EXCEPT ![h] = links[i].destination_url]
    /\ Answer(h, 302)
    /\ UNCHANGED <<proc, links, sid, attempt, waiting>>
    /\ UNCHANGED ghosts

Found(h, i) ==
    /\ pc[h] = "looking"
    /\ Release(h)
    /\ i \in Rows(sid[h])
    /\ url' = [url EXCEPT ![h] = links[i].destination_url]
    /\ Answer(h, 302)
    /\ UNCHANGED <<proc, links, sid, attempt, waiting>>
    /\ UNCHANGED ghosts

\* Every error of the lookup is taken for a missing row.
NotFoundOnAnyError(h) ==
    /\ pc[h] = "looking"
    /\ Release(h)
    /\ Answer(h, 404)
    /\ UNCHANGED <<proc, links, sid, url, attempt, waiting>>
    /\ UNCHANGED ghosts

NotFound(h) ==
    /\ pc[h] = "looking"
    /\ Rows(sid[h]) = {}
    /\ Release(h)
    /\ Answer(h, 404)
    /\ UNCHANGED <<proc, links, sid, url, attempt, waiting>>
    /\ UNCHANGED ghosts

-----------------------------------------------------------------------------
(* Responses and clients.                                                   *)

\* The response is written and the slot is free again.  A client that has
\* gone away learns nothing from it.
Reply(h) ==
    /\ pc[h] = "reply"
    /\ issued' = IF waiting[h] /\ status[h] = 201
                 THEN issued \cup {<<sid[h], url[h]>>} ELSE issued
    /\ visited' = IF waiting[h] /\ status[h] = 302
                  THEN visited \cup {<<sid[h], url[h]>>} ELSE visited
    /\ pc' = [pc EXCEPT ![h] = "idle"]
    /\ sid' = [sid EXCEPT ![h] = NoId]
    /\ url' = [url EXCEPT ![h] = NoUrl]
    /\ attempt' = [attempt EXCEPT ![h] = 0]
    /\ status' = [status EXCEPT ![h] = 0]
    /\ waiting' = [waiting EXCEPT ![h] = FALSE]
    /\ rows' = [rows EXCEPT ![h] = 0]
    /\ knew' = [knew EXCEPT ![h] = FALSE]
    /\ UNCHANGED <<proc, links, conn>>

\* The client times out (the search bot waits 5 s), disconnects, or its
\* response is cut off by the server's WriteTimeout.
ClientGivesUp(h) ==
    /\ waiting[h]
    /\ waiting' = [waiting EXCEPT ![h] = FALSE]
    /\ UNCHANGED <<proc, links, conn, pc, sid, url, attempt, status>>
    /\ UNCHANGED ghosts

-----------------------------------------------------------------------------
(* The process.                                                             *)

\* The schema is laid out afresh at every start.
StartAfresh ==
    /\ proc = "down"
    /\ proc' = "up"
    /\ links' = << >>
    /\ UNCHANGED <<conn, pc, issued, visited>>
    /\ UNCHANGED request

\* config.Load, store.Open (CREATE TABLE IF NOT EXISTS: an existing database
\* is kept as it is), httpapi.New and ListenAndServe succeed.  When one of
\* them fails the process exits and stays down.
Start ==
    /\ proc = "down"
    /\ proc' = "up"
    /\ UNCHANGED <<links, conn, pc, issued, visited>>
    /\ UNCHANGED request

\* SIGTERM or SIGINT: Shutdown stops accepting, in-flight requests go on.
Terminate ==
    /\ proc = "up"
    /\ proc' = "draining"
    /\ UNCHANGED <<links, conn, pc, issued, visited>>
    /\ UNCHANGED request

\* Every request has been answered: Shutdown returns nil, the store is closed.
ShutdownComplete ==
    /\ proc = "draining"
    /\ \A h \in Handlers : pc[h] = "idle"
    /\ proc' = "down"
    /\ UNCHANGED <<links, conn, pc, issued, visited>>
    /\ UNCHANGED request

\* Ten seconds are over and a request is still in flight: run returns the
\* error, its deferred call closes the database under the running handlers.
ShutdownTimesOut ==
    /\ proc = "draining"
    /\ \E h \in Handlers : pc[h] # "idle"
    /\ proc' = "closing"
    /\ UNCHANGED <<links, conn, pc, issued, visited>>
    /\ UNCHANGED request

Stop ==
    /\ proc' = "down"
    /\ conn' = NoHandler
    /\ NoRequests
    /\ UNCHANGED <<links, issued, visited>>

\* main exits with the handlers that are still running.
Exit == proc = "closing" /\ Stop

\* The process dies (SIGKILL, a panic, the host): a statement that was
\* running is rolled back from the journal unless it had committed.
Crash == proc \in Serving /\ Stop

-----------------------------------------------------------------------------
Request(h) ==
    \/ \E token \in {"api_key", "other"},
          body \in {"too_large", "not_json", "not_url"} \cup Urls :
              RefuseCreate(h, token, body)
    \/ \E u \in Urls : AcceptCreate(h, u)
    \/ \E s \in ShortIds : AcceptRedirect(h, s)

Statement(h) ==
    \/ Retry(h) \/ Exhaust(h)
    \/ Commit(h) \/ CommitUnheard(h) \/ IdUnread(h) \/ StatementFails(h)
    \/ \E i \in DOMAIN links : Found(h, i)
    \/ NotFound(h)

Work(h) ==
    \/ \E s \in ShortIds : Generate(h, s)
    \/ GenerateFails(h)
    \/ AcquireFails(h)
    \/ Statement(h)
    \/ Reply(h)

Process == Start \/ Terminate \/ ShutdownComplete \/ ShutdownTimesOut
           \/ Exit \/ Crash

Next ==
    \/ \E h \in Handlers :
          Request(h) \/ Acquire(h) \/ Work(h) \/ ClientGivesUp(h)
    \/ Process

Spec == Init /\ [][Next]_vars

\* A handler's goroutine runs on, a statement ends, and the pool picks each
\* waiting statement sooner or later.  Shutdown is bounded by its timeout.
\* Nothing is assumed of clients, of signals or of crashes.
Fairness ==
    /\ \A h \in Handlers : WF_vars(Work(h)) /\ SF_vars(Acquire(h))
    /\ WF_vars(ShutdownComplete)
    /\ WF_vars(ShutdownTimesOut)
    /\ WF_vars(Exit)

FairSpec == Spec /\ Fairness

-----------------------------------------------------------------------------
TypeOK ==
    /\ proc \in Serving \cup {"down"}
    /\ links \in Seq(Row)
    /\ conn \in Handlers \cup {NoHandler}
    /\ pc \in [Handlers -> PCs]
    /\ sid \in [Handlers -> ShortIds \cup {NoId}]
    /\ url \in [Handlers -> Urls \cup {NoUrl}]
    /\ attempt \in [Handlers -> 0 .. MaxAttempts]
    /\ status \in [Handlers -> Statuses]
    /\ waiting \in [Handlers -> BOOLEAN]
    /\ rows \in [Handlers -> Nat]
    /\ knew \in [Handlers -> BOOLEAN]
    /\ issued \subseteq ShortIds \X Urls
    /\ visited \subseteq ShortIds \X Urls

\* The pool's one connection: whoever runs a statement holds it, and nobody
\* else runs one ("A single underlying connection is used to serialize
\* writes", Store.Open).  A connection nobody releases would stop every
\* later request.
SingleConnection == \A h \in Handlers : pc[h] \in HoldsConn <=> conn = h

\* No two rows have the same short ID, whatever IDs concurrent creates draw.
UniqueShortIds ==
    \A i, j \in DOMAIN links : links[i].short_id = links[j].short_id => i = j

\* A short URL a client was told of leads to the URL it was created for,
\* after any crash, shutdown and restart of the service.
IssuedResolves == \A link \in issued : Linked(link[1], link[2])

\* A redirect sent after the ID was handed out is never answered 404.
NoLost404 == \A h \in Handlers : knew[h] => status[h] # 404

\* However often Create retries, a request inserts at most one row: only a
\* refused INSERT is retried, never one whose outcome is not known.
AtMostOneRow == \A h \in Handlers : rows[h] <= 1

\* What a create answers and the row it leaves.  Behind a 201 there is a row
\* of the request's own.  A create that has used up its attempts leaves none.
\* Any other 500 may leave one, its client waiting or not, but under an ID that
\* no client has been told and no other request has a row for: what a failed
\* create leaves behind is nobody's link.
AnswersMatchRows ==
    \A h \in Handlers : pc[h] = "reply" =>
        /\ status[h] = 201 => rows[h] = 1
        /\ rows[h] = 1 =>
              /\ attempt[h] < MaxAttempts
              /\ \A link \in issued : link[1] # sid[h]
              /\ \A g \in Handlers \ {h} : rows[g] = 1 => sid[g] # sid[h]

\* How many more steps a request takes at most: up to three per attempt, one
\* to fail or to answer, one to reply.
StepsOnceThere == [idle |-> 0, reply |-> 1, looking |-> 2, lookup |-> 3,
                   inserting |-> 2, insert |-> 3, generate |-> 4]
Creating == {"generate", "insert", "inserting"}
StepsLeft(h) ==
    StepsOnceThere[pc[h]]
        + (IF pc[h] \in Creating THEN 3 * (MaxAttempts - 1 - attempt[h]) ELSE 0)

\* However its statements fail and collide, and whatever the other requests do
\* in between, a request gets closer to its end with every step it takes.
RequestsAreBounded ==
    [][ \A h \in Handlers :
          pc[h] # "idle" /\ pc'[h] # pc[h] =>
              StepsLeft(h)' \in 0 .. StepsLeft(h) - 1 ]_vars

\* Every request ends: answered, or dropped with the process.
RequestsEnd == \A h \in Handlers : pc[h] # "idle" ~> pc[h] = "idle"

\* A shutdown ends, whatever the handlers and their clients do.
ShutdownEnds == proc \in {"draining", "closing"} ~> proc = "down"

-----------------------------------------------------------------------------
\* The promise of the service (LinkStore), read off the rows of the table.
Promise == INSTANCE LinkStore
             WITH minted <- {<<links[i].short_id, links[i].destination_url>> :
                               i \in DOMAIN links}

KeepsPromise == Promise!Spec

=============================================================================
