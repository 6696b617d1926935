-------------------------- MODULE UrlShortener_proofs --------------------------
(***************************************************************************)
(* Safety of the URL shortener, for any number of concurrent requests, any *)
(* set of short IDs and URLs and any number of attempts.                   *)
(*                                                                         *)
(* None of the properties is inductive.  A request that may still insert   *)
(* has attempts left and has inserted nothing; one that has an answer to   *)
(* write has the rows that go with it; and what a redirect knew when it    *)
(* was sent is still true of the ID it looks up.  RequestInv says so, and  *)
(* OwnRows that a row a request has left is its own and so far nobody's.   *)
(***************************************************************************)
EXTENDS UrlShortener, TLAPS

HasId == {"insert", "inserting", "lookup", "looking"}

RequestInv(h) ==
    /\ pc[h] \in Creating => attempt[h] < MaxAttempts /\ url[h] \in Urls
    /\ pc[h] \in HasId => sid[h] \in ShortIds
    /\ pc[h] # "reply" => status[h] = 0 /\ rows[h] = 0
    /\ status[h] \in {201, 302} => Linked(sid[h], url[h])
    /\ rows[h] <= 1
    /\ status[h] = 201 => rows[h] = 1
    /\ rows[h] = 1 => attempt[h] < MaxAttempts /\ Linked(sid[h], url[h])
    /\ knew[h] => /\ pc[h] \in {"lookup", "looking", "reply"}
                  /\ \E link \in issued : link[1] = sid[h]
                  /\ status[h] # 404

OwnRows ==
    \A h \in Handlers : rows[h] = 1 =>
        /\ \A link \in issued : link[1] # sid[h]
        /\ \A g \in Handlers \ {h} : rows[g] = 1 => sid[g] # sid[h]

VisitedResolves == \A link \in visited : Linked(link[1], link[2])

IInv ==
    /\ TypeOK
    /\ SingleConnection
    /\ UniqueShortIds
    /\ IssuedResolves
    /\ VisitedResolves
    /\ OwnRows
    /\ \A h \in Handlers : RequestInv(h)

\* The rows of the table are typed, and so is every link.
LEMMA RowsTyped ==
  ASSUME TypeOK, NEW i \in DOMAIN links
  PROVE  links[i].short_id \in ShortIds /\ links[i].destination_url \in Urls
<1>1. links[i] \in Row
  BY DEF TypeOK
<1> QED
  BY <1>1 DEF Row

\* A linked pair is a short ID and a URL.
LEMMA LinkedTyped ==
  ASSUME TypeOK, NEW s, NEW u, Linked(s, u)
  PROVE  s \in ShortIds /\ u \in Urls
BY RowsTyped DEF Linked

\* Links stay: a step leaves the table as it is or appends a row.
LEMMA LinkedStays ==
  ASSUME TypeOK, NEW row \in Row, links' = links \/ links' = Append(links, row),
         NEW s, NEW u, Linked(s, u)
  PROVE  Linked(s, u)'
<1>1. PICK i \in DOMAIN links : links[i].short_id = s /\ links[i].destination_url = u
  BY DEF Linked
<1>2. links \in Seq(Row)
  BY DEF TypeOK
<1>3. i \in DOMAIN links' /\ links'[i] = links[i]
  BY <1>2
<1> QED
  BY <1>1, <1>3 DEF Linked

\* Only a create that fails a check is answered with its verdict.
LEMMA VerdictIsRefusal ==
  ASSUME NEW token, NEW body, Verdict(token, body) # 0
  PROVE  Verdict(token, body) \in Refusals
BY DEF Verdict, Refusals

\* Every step keeps the types.
LEMMA TypeOKStep == IInv /\ [Next]_vars => TypeOK'
<1> SUFFICES ASSUME TypeOK, [Next]_vars, \A h \in Handlers : RequestInv(h)
             PROVE  TypeOK'
  BY DEF IInv
<1> USE AttemptsAssumption DEF TypeOK, PCs, Statuses, HoldsConn, Serving
<1>1. ASSUME NEW h \in Handlers, NEW token, NEW body, RefuseCreate(h, token, body) PROVE TypeOK'
  BY <1>1, VerdictIsRefusal DEF RefuseCreate, Arrives
<1>2. ASSUME NEW h \in Handlers, NEW u \in Urls, AcceptCreate(h, u) PROVE TypeOK'
  BY <1>2 DEF AcceptCreate, Arrives
<1>3. ASSUME NEW h \in Handlers, NEW s \in ShortIds, AcceptRedirect(h, s) PROVE TypeOK'
  BY <1>3 DEF AcceptRedirect, Arrives
<1>4. ASSUME NEW h \in Handlers, NEW s \in ShortIds, Generate(h, s) PROVE TypeOK'
  BY <1>4 DEF Generate, ghosts
<1>5. ASSUME NEW h \in Handlers, GenerateFails(h) PROVE TypeOK'
  BY <1>5 DEF GenerateFails, Answer, ghosts
<1>6. ASSUME NEW h \in Handlers, Acquire(h) PROVE TypeOK'
  BY <1>6 DEF Acquire, ghosts
<1>7. ASSUME NEW h \in Handlers, AcquireFails(h) PROVE TypeOK'
  BY <1>7 DEF AcquireFails, Answer, ghosts
<1>8. ASSUME NEW h \in Handlers, Collide(h), Retry(h) \/ Exhaust(h) PROVE TypeOK'
  <2>1. attempt[h] < MaxAttempts
    BY <1>8 DEF Collide, RequestInv, Creating
  <2>2. attempt' \in [Handlers -> 0 .. MaxAttempts]
    BY <1>8, <2>1 DEF Collide
  <2>3. pc' \in [Handlers -> PCs] /\ status' \in [Handlers -> Statuses]
    <3>1. CASE Retry(h)
      <4>1. pc' = [pc EXCEPT ![h] = "generate"] /\ status' = status
        BY <3>1 DEF Retry
      <4> QED
        BY <4>1
    <3>2. CASE Exhaust(h)
      <4>1. pc' = [pc EXCEPT ![h] = "reply"] /\ status' = [status EXCEPT ![h] = 500]
        BY <3>2 DEF Exhaust, Answer
      <4> QED
        BY <4>1
    <3> QED
      BY <1>8, <3>1, <3>2
  <2> QED
    BY <1>8, <2>2, <2>3 DEF Collide, Release, ghosts
<1>9. ASSUME NEW h \in Handlers, InsertRow(h), Commit(h) \/ CommitUnheard(h) \/ IdUnread(h)
      PROVE  TypeOK'
  <2>1. [short_id |-> sid[h], destination_url |-> url[h]] \in Row
    BY <1>9 DEF Commit, CommitUnheard, IdUnread, RequestInv, Creating, HasId, Row
  <2>2. links' \in Seq(Row)
    BY <1>9, <2>1 DEF InsertRow
  <2>3. /\ conn' = NoHandler
        /\ pc' = [pc EXCEPT ![h] = "reply"]
        /\ \E code \in {201, 500} : status' = [status EXCEPT ![h] = code]
        /\ rows' = [rows EXCEPT ![h] = @ + 1]
        /\ UNCHANGED <<proc, sid, url, attempt, waiting, knew, issued, visited>>
    BY <1>9 DEF Commit, CommitUnheard, IdUnread, InsertRow, Answer, Release
  <2>4. status' \in [Handlers -> Statuses]
    BY <2>3
  <2>5. rows' \in [Handlers -> Nat]
    BY <2>3
  <2> QED
    BY <2>2, <2>3, <2>4, <2>5
<1>11. ASSUME NEW h \in Handlers, StatementFails(h) PROVE TypeOK'
  BY <1>11 DEF StatementFails, Answer, Release, ghosts
<1>12. ASSUME NEW h \in Handlers, NEW i \in DOMAIN links, Found(h, i) PROVE TypeOK'
  <2> DEFINE u == links[i].destination_url
  <2>1. u \in Urls
    BY RowsTyped
  <2>2. /\ conn' = NoHandler
        /\ pc' = [pc EXCEPT ![h] = "reply"]
        /\ status' = [status EXCEPT ![h] = 302]
        /\ url' = [url EXCEPT ![h] = u]
        /\ UNCHANGED <<proc, links, sid, attempt, waiting, rows, knew, issued, visited>>
    BY <1>12 DEF Found, Answer, Release, ghosts
  <2> HIDE DEF u
  <2> QED
    BY <2>1, <2>2
<1>13. ASSUME NEW h \in Handlers, NotFound(h) PROVE TypeOK'
  BY <1>13 DEF NotFound, Answer, Release, ghosts
<1>14. ASSUME NEW h \in Handlers, Reply(h) PROVE TypeOK'
  <2>1. status[h] \in {201, 302} => <<sid[h], url[h]>> \in ShortIds \X Urls
    BY LinkedTyped DEF RequestInv
  <2> QED
    BY <1>14, <2>1 DEF Reply
<1>15. ASSUME NEW h \in Handlers, ClientGivesUp(h) PROVE TypeOK'
  BY <1>15 DEF ClientGivesUp, ghosts
<1>16. CASE Start
  BY <1>16 DEF Start, request
<1>17. CASE Terminate
  BY <1>17 DEF Terminate, request
<1>18. CASE ShutdownComplete
  BY <1>18 DEF ShutdownComplete, request
<1>19. CASE ShutdownTimesOut
  BY <1>19 DEF ShutdownTimesOut, request
<1>20. CASE Exit
  BY <1>20 DEF Exit, Stop, NoRequests
<1>21. CASE Crash
  BY <1>21 DEF Crash, Stop, NoRequests
<1>22. CASE UNCHANGED vars
  BY <1>22 DEF vars
<1> HIDE DEF TypeOK
<1> QED
  BY <1>1, <1>2, <1>3, <1>4, <1>5, <1>6, <1>7, <1>8, <1>9, <1>11, <1>12, <1>13, <1>14, <1>15, <1>16, <1>17, <1>18, <1>19, <1>20, <1>21, <1>22 DEF Next, Request, Work, Statement, Process, Retry, Exhaust, Commit, CommitUnheard, IdUnread

-----------------------------------------------------------------------------
\* The connection: taken when it is free, given back by whoever holds it.
LEMMA SingleConnectionStep ==
  ASSUME TypeOK, SingleConnection, [Next]_vars
  PROVE  SingleConnection'
<1> USE NoHandlerAssumption DEF TypeOK, SingleConnection, HoldsConn, PCs
<1>1. ASSUME NEW h \in Handlers, NEW at \in PCs \ HoldsConn,
             pc[h] \notin HoldsConn, pc' = [pc EXCEPT ![h] = at], conn' = conn
      PROVE  SingleConnection'
  BY <1>1
<1>2. ASSUME NEW h \in Handlers, NEW at \in PCs \ HoldsConn,
             pc[h] \in HoldsConn, pc' = [pc EXCEPT ![h] = at], conn' = NoHandler
      PROVE  SingleConnection'
  BY <1>2
<1>3. ASSUME NEW h \in Handlers, Request(h) PROVE SingleConnection'
  BY <1>3, <1>1 DEF Request, RefuseCreate, AcceptCreate, AcceptRedirect, Arrives
<1>4. ASSUME NEW h \in Handlers, NEW s \in ShortIds, Generate(h, s)
      PROVE  SingleConnection'
  BY <1>4, <1>1 DEF Generate
<1>5. ASSUME NEW h \in Handlers, GenerateFails(h) \/ AcquireFails(h) \/ Reply(h)
      PROVE  SingleConnection'
  BY <1>5, <1>1 DEF GenerateFails, AcquireFails, Reply, Answer
<1>6. ASSUME NEW h \in Handlers, Acquire(h) PROVE SingleConnection'
  BY <1>6 DEF Acquire
<1>7. ASSUME NEW h \in Handlers, Statement(h) PROVE SingleConnection'
  <2>1. pc[h] \in HoldsConn /\ conn' = NoHandler
    BY <1>7 DEF Statement, Retry, Exhaust, Collide, Commit, CommitUnheard, IdUnread,
       StatementFails, Found, NotFound, Release
  <2>2. \E at \in {"generate", "reply"} : pc' = [pc EXCEPT ![h] = at]
    <3> HIDE DEF TypeOK, SingleConnection
    <3> QED
      BY <1>7 DEF Statement, Retry, Exhaust, Collide, Commit, CommitUnheard, IdUnread,
         StatementFails, Found, NotFound, Answer
  <2>3. {"generate", "reply"} \subseteq PCs \ HoldsConn
    OBVIOUS
  <2> QED
    BY <1>2, <2>1, <2>2, <2>3
<1>8. ASSUME NEW h \in Handlers, ClientGivesUp(h) PROVE SingleConnection'
  BY <1>8 DEF ClientGivesUp
<1>9. CASE Start \/ Terminate \/ ShutdownComplete \/ ShutdownTimesOut
  BY <1>9 DEF Start, Terminate, ShutdownComplete, ShutdownTimesOut
<1>10. CASE Exit \/ Crash
  BY <1>10 DEF Exit, Crash, Stop, NoRequests
<1>11. CASE UNCHANGED vars
  BY <1>11 DEF vars
<1> HIDE DEF SingleConnection
<1> QED
  BY <1>3, <1>4, <1>5, <1>6, <1>7, <1>8, <1>9, <1>10, <1>11
     DEF Next, Work, Process

-----------------------------------------------------------------------------
\* The table changes in one way only.
LEMMA LinksStep ==
  ASSUME [Next]_vars
  PROVE  \/ links' = links
         \/ \E h \in Handlers : pc[h] = "inserting" /\ InsertRow(h)
BY DEF Next, Request, RefuseCreate, AcceptCreate, AcceptRedirect, Arrives,
   Acquire, Work, Generate, GenerateFails, AcquireFails, Statement, Retry,
   Exhaust, Collide, Commit, CommitUnheard, IdUnread, StatementFails, Found, NotFound,
   Reply, ClientGivesUp, Process, Start, Terminate, ShutdownComplete,
   ShutdownTimesOut, Exit, Crash, Stop, vars

\* The row an INSERT appends is a row.
LEMMA InsertedRow ==
  ASSUME TypeOK, NEW h \in Handlers, RequestInv(h), pc[h] = "inserting"
  PROVE  [short_id |-> sid[h], destination_url |-> url[h]] \in Row
BY DEF RequestInv, Creating, HasId, Row

\* The only INSERT that succeeds is one whose short ID no row has.
LEMMA UniqueShortIdsStep ==
  ASSUME IInv, [Next]_vars
  PROVE  UniqueShortIds'
<1> USE DEF IInv, UniqueShortIds
<1>1. CASE links' = links
  BY <1>1
<1>2. ASSUME NEW h \in Handlers, pc[h] = "inserting", InsertRow(h)
      PROVE  UniqueShortIds'
  <2> DEFINE row == [short_id |-> sid[h], destination_url |-> url[h]]
  <2>1. row \in Row /\ links \in Seq(Row) /\ links' = Append(links, row)
    BY <1>2, InsertedRow DEF TypeOK, InsertRow
  <2>2. \A i \in DOMAIN links : links[i].short_id # row.short_id
    BY <1>2 DEF InsertRow, UniqueViolated, Rows
  <2> HIDE DEF row
  <2>3. /\ DOMAIN links' = DOMAIN links \cup {Len(links) + 1}
        /\ \A i \in DOMAIN links : links'[i] = links[i]
        /\ links'[Len(links) + 1] = row
    BY <2>1
  <2> QED
    BY <2>2, <2>3
<1> QED
  BY <1>1, <1>2, LinksStep

\* What is linked stays linked, over every step.
LEMMA LinkedStep ==
  ASSUME IInv, [Next]_vars, NEW s, NEW u, Linked(s, u)
  PROVE  Linked(s, u)'
<1>1. CASE links' = links
  BY <1>1 DEF Linked
<1>2. ASSUME NEW h \in Handlers, pc[h] = "inserting", InsertRow(h)
      PROVE  Linked(s, u)'
  BY <1>2, InsertedRow, LinkedStays DEF IInv, InsertRow
<1> QED
  BY <1>1, <1>2, LinksStep

-----------------------------------------------------------------------------
\* Only a response tells anybody anything, and only of a link that exists.
LEMMA ToldStep ==
  ASSUME [Next]_vars
  PROVE  \/ issued' = issued /\ visited' = visited
         \/ \E h \in Handlers :
              /\ status[h] = 201 /\ issued' = issued \cup {<<sid[h], url[h]>>}
              /\ visited' = visited /\ links' = links
         \/ \E h \in Handlers :
              /\ status[h] = 302 /\ visited' = visited \cup {<<sid[h], url[h]>>}
              /\ issued' = issued /\ links' = links
<1>1. ASSUME NEW h \in Handlers, Reply(h)
      PROVE  \/ issued' = issued /\ visited' = visited
             \/ /\ status[h] = 201 /\ issued' = issued \cup {<<sid[h], url[h]>>}
                /\ visited' = visited /\ links' = links
             \/ /\ status[h] = 302 /\ visited' = visited \cup {<<sid[h], url[h]>>}
                /\ issued' = issued /\ links' = links
  BY <1>1 DEF Reply
<1>2. CASE ~\E h \in Handlers : Reply(h)
  BY <1>2 DEF Next, Request, RefuseCreate, AcceptCreate, AcceptRedirect,
     Arrives, Acquire, Work, Generate, GenerateFails, AcquireFails, Statement,
     Retry, Exhaust, Collide, Commit, CommitUnheard, IdUnread, StatementFails, Found,
     NotFound, ClientGivesUp, Process, Start, Terminate, ShutdownComplete,
     ShutdownTimesOut, Exit, Crash, Stop, vars, ghosts
<1> QED
  BY <1>1, <1>2

\* What clients and visitors have been told of stays in the table.
LEMMA ToldResolvesStep ==
  ASSUME IInv, [Next]_vars
  PROVE  IssuedResolves' /\ VisitedResolves'
<1>1. \A h \in Handlers : status[h] \in {201, 302} => Linked(sid[h], url[h])
  BY DEF IInv, RequestInv
<1>2. ASSUME NEW link \in issued' PROVE Linked(link[1], link[2])'
  <2>1. Linked(link[1], link[2])
    BY <1>1, <1>2, ToldStep DEF IInv, IssuedResolves
  <2> QED
    BY <2>1, LinkedStep
<1>3. ASSUME NEW link \in visited' PROVE Linked(link[1], link[2])'
  <2>1. Linked(link[1], link[2])
    BY <1>1, <1>3, ToldStep DEF IInv, VisitedResolves
  <2> QED
    BY <2>1, LinkedStep
<1> QED
  BY <1>2, <1>3 DEF IssuedResolves, VisitedResolves

-----------------------------------------------------------------------------
\* A step that is not about request g leaves it as it is.
Untouched(g) ==
    /\ pc'[g] = pc[g] /\ sid'[g] = sid[g] /\ url'[g] = url[g]
    /\ attempt'[g] = attempt[g] /\ status'[g] = status[g]
    /\ rows'[g] = rows[g] /\ knew'[g] = knew[g]

\* A request that a step leaves alone is not disturbed by what it does to the
\* table.
LEMMA UntouchedRequestStep ==
  ASSUME IInv, [Next]_vars, NEW g \in Handlers, Untouched(g)
  PROVE  RequestInv(g)'
<1>1. RequestInv(g)
  BY DEF IInv
<1>2. ASSUME Linked(sid[g], url[g]) PROVE Linked(sid[g], url[g])'
  <2>1. PICK s, u : s = sid[g] /\ u = url[g]
    OBVIOUS
  <2>2. Linked(s, u)'
    BY <1>2, <2>1, LinkedStep
  <2> QED
    BY <2>1, <2>2 DEF Untouched, Linked
<1>3. issued \subseteq issued'
  BY ToldStep
<1> QED
  BY <1>1, <1>2, <1>3 DEF RequestInv, Untouched

\* An idle slot satisfies the invariant whatever is asked next.
LEMMA IdleRequest ==
  ASSUME NEW g \in Handlers, pc'[g] = "idle", status'[g] = 0, rows'[g] = 0,
         knew'[g] = FALSE
  PROVE  RequestInv(g)'
BY DEF RequestInv, Creating, HasId

\* Every step keeps the invariant of every request, its own and the others'.
LEMMA RequestStep ==
  ASSUME IInv, [Next]_vars, NEW g \in Handlers
  PROVE  RequestInv(g)'
<1>0. TypeOK /\ RequestInv(g)
  BY DEF IInv
<1> USE <1>0 DEF TypeOK
<1>1. ASSUME NEW h \in Handlers, Request(h) PROVE RequestInv(g)'
  <2>1. CASE g # h
    BY <1>1, <2>1, UntouchedRequestStep DEF Untouched, Request, RefuseCreate,
       AcceptCreate, AcceptRedirect, Arrives
  <2>2. CASE g = h
    <3>1. ASSUME NEW token, NEW body, RefuseCreate(g, token, body)
          PROVE  RequestInv(g)'
      <4>1. status'[g] \in {400, 401, 413}
        <5>1. status'[g] = Verdict(token, body) /\ Verdict(token, body) # 0
          BY <3>1 DEF RefuseCreate
        <5> QED
          BY <5>1, VerdictIsRefusal DEF Refusals
      <4>2. /\ pc[g] = "idle" /\ pc'[g] = "reply" /\ rows'[g] = 0
            /\ knew'[g] = knew[g]
        BY <3>1 DEF RefuseCreate, Arrives
      <4> QED
        BY <4>1, <4>2 DEF RequestInv, Creating, HasId
    <3>2. ASSUME NEW u \in Urls, AcceptCreate(g, u) PROVE RequestInv(g)'
      BY <3>2, AttemptsAssumption
         DEF AcceptCreate, Arrives, RequestInv, Creating, HasId
    <3>3. ASSUME NEW s \in ShortIds, AcceptRedirect(g, s) PROVE RequestInv(g)'
      BY <3>3 DEF AcceptRedirect, Arrives, RequestInv, Creating, HasId
    <3> QED
      BY <1>1, <2>2, <3>1, <3>2, <3>3 DEF Request
  <2> QED
    BY <2>1, <2>2
<1>2. ASSUME NEW h \in Handlers, Work(h) \/ Acquire(h) \/ ClientGivesUp(h), g # h
      PROVE  RequestInv(g)'
  BY <1>2, UntouchedRequestStep DEF Untouched, Work, Acquire, ClientGivesUp,
     Generate, GenerateFails, AcquireFails, Statement, Retry, Exhaust, Collide,
     Commit, CommitUnheard, IdUnread, InsertRow, StatementFails, Found, NotFound, Reply,
     Answer, ghosts
<1>3. ASSUME NEW s \in ShortIds, Generate(g, s) PROVE RequestInv(g)'
  BY <1>3 DEF Generate, RequestInv, Creating, HasId, ghosts
<1>4. CASE GenerateFails(g) \/ AcquireFails(g)
  BY <1>4 DEF GenerateFails, AcquireFails, Answer, RequestInv, Creating, HasId, ghosts
<1>5. CASE Acquire(g)
  BY <1>5 DEF Acquire, RequestInv, Creating, HasId, ghosts
<1>6. CASE Retry(g)
  BY <1>6, AttemptsAssumption
     DEF Retry, Collide, MayRetry, RequestInv, Creating, HasId, ghosts
<1>7. CASE Exhaust(g)
  BY <1>7 DEF Exhaust, Collide, Answer, RequestInv, Creating, HasId, ghosts
<1>8. CASE Commit(g) \/ CommitUnheard(g) \/ IdUnread(g)
  <2>1. /\ pc[g] = "inserting" /\ InsertRow(g) /\ pc'[g] = "reply"
        /\ status'[g] \in {201, 500} /\ rows'[g] = rows[g] + 1
        /\ UNCHANGED <<sid, url, attempt, knew, issued>>
    BY <1>8 DEF Commit, CommitUnheard, IdUnread, InsertRow, Answer
  <2>2. PICK row \in Row : /\ row = [short_id |-> sid[g], destination_url |-> url[g]]
                           /\ links \in Seq(Row) /\ links' = Append(links, row)
    BY <2>1, InsertedRow DEF InsertRow
  <2>3. Len(links) + 1 \in DOMAIN links' /\ links'[Len(links) + 1] = row
    BY <2>2
  <2>4. sid'[g] = row.short_id /\ url'[g] = row.destination_url
    BY <2>1, <2>2
  <2>5. Linked(sid[g], url[g])'
    BY <2>3, <2>4 DEF Linked
  <2> QED
    BY <2>1, <2>5 DEF RequestInv, Creating, HasId
<1>10. CASE StatementFails(g)
  BY <1>10 DEF StatementFails, Answer, RequestInv, Creating, HasId, HoldsConn, ghosts
<1>11. ASSUME NEW i \in DOMAIN links, Found(g, i) PROVE RequestInv(g)'
  <2> DEFINE u == links[i].destination_url
  <2>1. i \in DOMAIN links' /\ links' = links /\ url'[g] = u /\ sid'[g] = links'[i].short_id
    BY <1>11 DEF Found, Rows
  <2>2. Linked(sid[g], url[g])'
    BY <2>1 DEF Linked
  <2> HIDE DEF u
  <2>3. /\ pc[g] = "looking" /\ pc'[g] = "reply" /\ status'[g] = 302
        /\ sid'[g] = sid[g]
        /\ UNCHANGED <<waiting, rows, knew, issued>>
    BY <1>11 DEF Found, Answer, ghosts
  <2> QED
    BY <2>2, <2>3 DEF RequestInv, Creating, HasId
<1>12. CASE NotFound(g)
  <2>1. ~knew[g]
    <3> SUFFICES ASSUME knew[g] PROVE FALSE
      OBVIOUS
    <3>1. PICK link \in issued : link[1] = sid[g]
      BY DEF RequestInv
    <3>2. Linked(link[1], link[2])
      BY <3>1 DEF IInv, IssuedResolves
    <3> QED
      BY <1>12, <3>1, <3>2 DEF NotFound, Rows, Linked
  <2> QED
    BY <1>12, <2>1 DEF NotFound, Answer, RequestInv, Creating, HasId, ghosts
<1>13. CASE Reply(g)
  BY <1>13, IdleRequest DEF Reply
<1>14. CASE ClientGivesUp(g)
  BY <1>14, UntouchedRequestStep DEF ClientGivesUp, Untouched, ghosts
<1>15. CASE Start \/ Terminate \/ ShutdownComplete \/ ShutdownTimesOut
            \/ UNCHANGED vars
  BY <1>15, UntouchedRequestStep DEF Start, Terminate, ShutdownComplete,
     ShutdownTimesOut, Untouched, request, vars
<1>16. CASE Exit \/ Crash
  <2>1. pc'[g] = "idle" /\ status'[g] = 0 /\ rows'[g] = 0 /\ knew'[g] = FALSE
    BY <1>16 DEF Exit, Crash, Stop, NoRequests
  <2> QED
    BY <2>1, IdleRequest
<1> QED
  BY <1>1, <1>2, <1>3, <1>4, <1>5, <1>6, <1>7, <1>8, <1>10, <1>11, <1>12,
     <1>13, <1>14, <1>15, <1>16 DEF Next, Work, Statement, Process

-----------------------------------------------------------------------------
\* Rows are inserted in one way only, and a slot that has left one keeps its
\* short ID until its response is written.
LEMMA RowsStep ==
  ASSUME IInv, [Next]_vars
  PROVE  \/ /\ issued' = issued
            /\ \A g \in Handlers : rows'[g] = 1 => rows[g] = 1 /\ sid'[g] = sid[g]
         \/ \E h \in Handlers : pc[h] = "inserting" /\ InsertRow(h) /\ UNCHANGED <<sid, issued>>
         \/ \E h \in Handlers : Reply(h)
<1> DEFINE Kept == /\ issued' = issued
                   /\ \A g \in Handlers : rows'[g] = 1 => rows[g] = 1 /\ sid'[g] = sid[g]
<1>0. /\ sid \in [Handlers -> ShortIds \cup {NoId}] /\ rows \in [Handlers -> Nat]
      /\ \A h \in Handlers : pc[h] # "reply" => rows[h] = 0
  BY DEF IInv, TypeOK, RequestInv
<1>1. ASSUME NEW h \in Handlers, Request(h) PROVE Kept
  <2>1. /\ rows' = [rows EXCEPT ![h] = 0] /\ issued' = issued
        /\ sid' = sid \/ \E s \in ShortIds : sid' = [sid EXCEPT ![h] = s]
    BY <1>1 DEF Request, RefuseCreate, AcceptCreate, AcceptRedirect, Arrives
  <2> QED
    BY <1>0, <2>1
<1>2. ASSUME NEW h \in Handlers, NEW s \in ShortIds, Generate(h, s) PROVE Kept
  BY <1>0, <1>2 DEF Generate, ghosts
<1>3. ASSUME NEW h \in Handlers,
             \/ GenerateFails(h) \/ AcquireFails(h) \/ Acquire(h) \/ ClientGivesUp(h)
             \/ Retry(h) \/ Exhaust(h) \/ StatementFails(h) \/ NotFound(h)
             \/ \E i \in DOMAIN links : Found(h, i)
      PROVE  Kept
  BY <1>3 DEF GenerateFails, AcquireFails, Acquire, ClientGivesUp, Retry, Exhaust, Collide,
     StatementFails, NotFound, Found, ghosts
<1>4. ASSUME NEW h \in Handlers, Commit(h) \/ CommitUnheard(h) \/ IdUnread(h)
      PROVE  pc[h] = "inserting" /\ InsertRow(h) /\ UNCHANGED <<sid, issued>>
  BY <1>4 DEF Commit, CommitUnheard, IdUnread
<1>5. CASE Process \/ UNCHANGED vars
  <2>1. issued' = issued /\ (rows' = [h \in Handlers |-> 0] \/ UNCHANGED <<rows, sid>>)
    BY <1>5 DEF Process, Start, Terminate, ShutdownComplete, ShutdownTimesOut, Exit, Crash,
       Stop, NoRequests, request, vars
  <2> QED
    BY <2>1
<1> HIDE DEF Kept
<1> DEFINE Inserts(h) == pc[h] = "inserting" /\ InsertRow(h) /\ UNCHANGED <<sid, issued>>
<1>6. ASSUME NEW h \in Handlers, Request(h) \/ Acquire(h) \/ Work(h) \/ ClientGivesUp(h)
      PROVE  Kept \/ Inserts(h) \/ Reply(h)
  <2>1. CASE Request(h)
    BY <1>1, <2>1
  <2>2. CASE \E s \in ShortIds : Generate(h, s)
    BY <1>2, <2>2
  <2>3. CASE Commit(h) \/ CommitUnheard(h) \/ IdUnread(h)
    BY <1>4, <2>3
  <2>4. CASE \/ GenerateFails(h) \/ AcquireFails(h) \/ Acquire(h) \/ ClientGivesUp(h)
             \/ Retry(h) \/ Exhaust(h) \/ StatementFails(h) \/ NotFound(h)
             \/ \E i \in DOMAIN links : Found(h, i)
    BY <1>3, <2>4
  <2> HIDE DEF Inserts
  <2> QED
    BY <1>6, <2>1, <2>2, <2>3, <2>4 DEF Work, Statement
<1> QED
  BY <1>5, <1>6 DEF Next, Kept

\* A row that a request has left stays its own, and nobody else hears of it.
LEMMA OwnRowsStep ==
  ASSUME IInv, [Next]_vars
  PROVE  OwnRows'
<1>0. /\ OwnRows /\ IssuedResolves /\ rows \in [Handlers -> Nat]
      /\ \A h \in Handlers : /\ rows[h] = 1 => Linked(sid[h], url[h])
                             /\ status[h] = 201 => rows[h] = 1
  BY DEF IInv, RequestInv, TypeOK
<1>1. CASE /\ issued' = issued
           /\ \A g \in Handlers : rows'[g] = 1 => rows[g] = 1 /\ sid'[g] = sid[g]
  BY <1>0, <1>1 DEF OwnRows
<1>2. ASSUME NEW h \in Handlers, pc[h] = "inserting", InsertRow(h), UNCHANGED <<sid, issued>>
      PROVE  OwnRows'
  <2>1. \A s, u : Linked(s, u) => s # sid[h]
    BY <1>2 DEF InsertRow, UniqueViolated, Rows, Linked
  <2>2. \A g \in Handlers \ {h} : rows'[g] = rows[g]
    BY <1>0, <1>2 DEF InsertRow
  <2>3. \A g \in Handlers \ {h} : rows[g] = 1 => sid[g] # sid[h]
    BY <1>0, <2>1
  <2>4. \A link \in issued : link[1] # sid[h]
    BY <1>0, <2>1 DEF IssuedResolves
  <2> QED
    BY <1>0, <1>2, <2>2, <2>3, <2>4 DEF OwnRows
<1>3. ASSUME NEW h \in Handlers, Reply(h) PROVE OwnRows'
  <2>1. /\ rows'[h] = 0 /\ \A g \in Handlers \ {h} : rows'[g] = rows[g] /\ sid'[g] = sid[g]
        /\ \/ issued' = issued
           \/ rows[h] = 1 /\ issued' = issued \cup {<<sid[h], url[h]>>}
    BY <1>0, <1>3 DEF Reply, IInv, TypeOK
  <2>2. \A g \in Handlers \ {h} : rows[g] = 1 =>
           \A link \in issued' : link[1] # sid[g]
    BY <1>0, <2>1 DEF OwnRows
  <2> QED
    BY <1>0, <2>1, <2>2 DEF OwnRows
<1> QED
  BY <1>1, <1>2, <1>3, RowsStep

-----------------------------------------------------------------------------
\* A service that has never run satisfies the invariant.
LEMMA InitIInv == Init => IInv
<1> SUFFICES ASSUME Init PROVE IInv
  OBVIOUS
<1> USE DEF Init
<1>1. TypeOK
  <2>1. 0 \in 0 .. MaxAttempts
    BY AttemptsAssumption
  <2>2. links \in Seq(Row)
    OBVIOUS
  <2> QED
    BY <2>1, <2>2 DEF TypeOK, PCs, Serving, Statuses
<1>2. /\ SingleConnection /\ UniqueShortIds /\ IssuedResolves /\ VisitedResolves
      /\ OwnRows
  BY NoHandlerAssumption DEF SingleConnection, HoldsConn, UniqueShortIds,
     IssuedResolves, VisitedResolves, OwnRows
<1>3. ASSUME NEW h \in Handlers PROVE RequestInv(h)
  <2>1. pc[h] = "idle" /\ status[h] = 0 /\ rows[h] = 0 /\ knew[h] = FALSE
    OBVIOUS
  <2> HIDE DEF Init
  <2> QED
    BY <2>1 DEF RequestInv, Creating, HasId
<1> QED
  BY <1>1, <1>2, <1>3 DEF IInv

\* Every step of the service keeps the invariant.
LEMMA StepIInv == IInv /\ [Next]_vars => IInv'
<1> SUFFICES ASSUME IInv, [Next]_vars PROVE IInv'
  OBVIOUS
<1>1. TypeOK'
  BY TypeOKStep
<1>2. SingleConnection' /\ UniqueShortIds' /\ IssuedResolves' /\ VisitedResolves'
  BY SingleConnectionStep, UniqueShortIdsStep, ToldResolvesStep DEF IInv
<1>3. OwnRows' /\ \A h \in Handlers : RequestInv(h)'
  BY OwnRowsStep, RequestStep
<1> QED
  BY <1>1, <1>2, <1>3 DEF IInv

\* The inductive invariant holds in every reachable state of the service.
THEOREM Invariance == Spec => []IInv
  BY InitIInv, StepIInv, PTL DEF Spec

\* Every variable keeps its type; the loop of Store.Create stays in bounds.
THEOREM TypeCorrect == Spec => []TypeOK
<1>1. IInv => TypeOK
  BY DEF IInv
<1> QED
  BY <1>1, Invariance, PTL

\* The pool of one connection is never shared and never leaked.
THEOREM ConnectionSafe == Spec => []SingleConnection
<1>1. IInv => SingleConnection
  BY DEF IInv
<1> QED
  BY <1>1, Invariance, PTL

\* Short IDs are unique, however many creates run and whatever they draw.
THEOREM ShortIdsUnique == Spec => []UniqueShortIds
<1>1. IInv => UniqueShortIds
  BY DEF IInv
<1> QED
  BY <1>1, Invariance, PTL

\* A short URL that was handed out keeps leading to its destination, across
\* crashes, shutdowns and restarts.
THEOREM IssuedLinksLast == Spec => []IssuedResolves
<1>1. IInv => IssuedResolves
  BY DEF IInv
<1> QED
  BY <1>1, Invariance, PTL

\* A short URL that was handed out is never answered 404.
THEOREM NoLinkLost == Spec => []NoLost404
<1>1. IInv => NoLost404
  BY DEF IInv, RequestInv, NoLost404
<1> QED
  BY <1>1, Invariance, PTL

\* A request inserts at most one row.
THEOREM RowsAccounted == Spec => []AtMostOneRow
<1>1. ASSUME IInv, NEW h \in Handlers PROVE rows[h] <= 1
  BY <1>1 DEF IInv, RequestInv
<1>2. IInv => AtMostOneRow
  BY <1>1 DEF AtMostOneRow
<1> QED
  BY <1>2, Invariance, PTL

\* Behind a 201 there is a row of the request's own; a row behind any other
\* answer comes from an attempt that was not given up, and is nobody's link.
THEOREM AnswersAccounted == Spec => []AnswersMatchRows
<1>1. IInv => AnswersMatchRows
  BY DEF IInv, RequestInv, OwnRows, AnswersMatchRows
<1> QED
  BY <1>1, Invariance, PTL

-----------------------------------------------------------------------------
(* Every step of a request is a step towards its end.                       *)

\* The steps that are left in an attempt, place by place.
LEMMA StepCounts ==
  /\ StepsOnceThere["idle"] = 0 /\ StepsOnceThere["reply"] = 1
  /\ StepsOnceThere["looking"] = 2 /\ StepsOnceThere["lookup"] = 3
  /\ StepsOnceThere["inserting"] = 2 /\ StepsOnceThere["insert"] = 3
  /\ StepsOnceThere["generate"] = 4
  BY DEF StepsOnceThere

\* How far a request is from its end, by where it is.
LEMMA StepsLeftIs ==
  ASSUME IInv, NEW h \in Handlers
  PROVE  /\ pc[h] = "idle" => StepsLeft(h) = 0
         /\ pc[h] = "reply" => StepsLeft(h) = 1
         /\ pc[h] = "looking" => StepsLeft(h) = 2
         /\ pc[h] = "lookup" => StepsLeft(h) = 3
         /\ pc[h] = "inserting" => StepsLeft(h) = 3 * (MaxAttempts - 1 - attempt[h]) + 2
         /\ pc[h] = "insert" => StepsLeft(h) = 3 * (MaxAttempts - 1 - attempt[h]) + 3
         /\ pc[h] = "generate" => StepsLeft(h) = 3 * (MaxAttempts - 1 - attempt[h]) + 4
         /\ attempt[h] \in 0 .. MaxAttempts /\ MaxAttempts \in Nat
         /\ pc[h] \in Creating => attempt[h] < MaxAttempts
  BY StepCounts, AttemptsAssumption DEF IInv, TypeOK, RequestInv, StepsLeft, Creating

\* Where a request can go from where it is.
LEMMA WhereNext ==
  ASSUME IInv, [Next]_vars, NEW g \in Handlers, pc[g] # "idle", pc'[g] # pc[g]
  PROVE  \/ pc'[g] = "idle"
         \/ pc[g] # "reply" /\ pc'[g] = "reply"
         \/ pc[g] = "lookup" /\ pc'[g] = "looking"
         \/ pc[g] = "generate" /\ pc'[g] = "insert" /\ attempt'[g] = attempt[g]
         \/ pc[g] = "insert" /\ pc'[g] = "inserting" /\ attempt'[g] = attempt[g]
         \/ /\ pc[g] = "inserting" /\ pc'[g] = "generate"
            /\ attempt'[g] = attempt[g] + 1
<1> USE DEF IInv, TypeOK
<1>1. ASSUME NEW h \in Handlers, Request(h) PROVE FALSE
  BY <1>1 DEF Request, RefuseCreate, AcceptCreate, AcceptRedirect, Arrives
<1>2. ASSUME NEW h \in Handlers, Work(h) \/ Acquire(h) \/ ClientGivesUp(h), g # h
      PROVE  FALSE
  BY <1>2 DEF Work, Acquire, ClientGivesUp, Generate, GenerateFails, AcquireFails,
     Statement, Retry, Exhaust, Collide, Commit, CommitUnheard, IdUnread, StatementFails,
     Found, NotFound, Reply, Answer
<1>3. ASSUME NEW s \in ShortIds, Generate(g, s)
      PROVE  pc[g] = "generate" /\ pc'[g] = "insert" /\ attempt'[g] = attempt[g]
  BY <1>3 DEF Generate
<1>4. CASE Acquire(g)
  BY <1>4 DEF Acquire
<1>5. CASE GenerateFails(g) \/ AcquireFails(g) \/ Exhaust(g) \/ Commit(g)
           \/ CommitUnheard(g) \/ IdUnread(g) \/ StatementFails(g) \/ NotFound(g)
           \/ \E i \in DOMAIN links : Found(g, i)
  BY <1>5 DEF GenerateFails, AcquireFails, Exhaust, Collide, Commit, CommitUnheard, IdUnread,
     StatementFails, Found, NotFound, Answer, HoldsConn
<1>6. CASE Retry(g)
  BY <1>6 DEF Retry, Collide
<1>7. CASE Reply(g)
  BY <1>7 DEF Reply
<1>8. CASE ClientGivesUp(g)
  BY <1>8 DEF ClientGivesUp
<1>9. CASE Start \/ Terminate \/ ShutdownComplete \/ ShutdownTimesOut \/ UNCHANGED vars
  BY <1>9 DEF Start, Terminate, ShutdownComplete, ShutdownTimesOut, vars
<1>10. CASE Exit \/ Crash
  BY <1>10 DEF Exit, Crash, Stop, NoRequests
<1> QED
  BY <1>1, <1>2, <1>3, <1>4, <1>5, <1>6, <1>7, <1>8, <1>9, <1>10
     DEF Next, Work, Statement, Process

\* A request takes at most three steps per attempt and one to reply, whatever
\* its statements come to and whatever the other requests do.
THEOREM RequestsBounded == Spec => RequestsAreBounded
<1>1. ASSUME IInv, IInv', [Next]_vars, NEW h \in Handlers, pc[h] # "idle", pc'[h] # pc[h]
      PROVE  StepsLeft(h)' \in 0 .. StepsLeft(h) - 1
  <2>0. /\ attempt'[h] \in 0 .. MaxAttempts /\ MaxAttempts \in Nat
        /\ pc'[h] \in Creating => attempt'[h] < MaxAttempts
    BY <1>1, AttemptsAssumption DEF IInv, TypeOK, RequestInv
  <2>1. /\ pc'[h] = "idle" => StepsLeft(h)' = 0
        /\ pc'[h] = "reply" => StepsLeft(h)' = 1
        /\ pc'[h] = "looking" => StepsLeft(h)' = 2
        /\ pc'[h] = "inserting" => StepsLeft(h)' = 3 * (MaxAttempts - 1 - attempt'[h]) + 2
        /\ pc'[h] = "insert" => StepsLeft(h)' = 3 * (MaxAttempts - 1 - attempt'[h]) + 3
        /\ pc'[h] = "generate" => StepsLeft(h)' = 3 * (MaxAttempts - 1 - attempt'[h]) + 4
    BY <1>1, <2>0 DEF StepsLeft, StepsOnceThere, Creating
  <2>2. pc[h] \in PCs
    BY <1>1 DEF IInv, TypeOK
  <2> QED
    BY <1>1, <2>0, <2>1, <2>2, StepsLeftIs, WhereNext DEF PCs, HoldsConn, Creating
<1>2. IInv /\ IInv' /\ [Next]_vars =>
        \A h \in Handlers :
            pc[h] # "idle" /\ pc'[h] # pc[h] => StepsLeft(h)' \in 0 .. StepsLeft(h) - 1
  BY <1>1
<1> QED
  BY <1>2, Invariance, PTL DEF Spec, RequestsAreBounded

-----------------------------------------------------------------------------
(* The service implements LinkStore.                                        *)

Minted == {<<links[i].short_id, links[i].destination_url>> : i \in DOMAIN links}

\* The links of the promise are the linked pairs of the table.
LEMMA MintedLinked ==
  ASSUME NEW s, NEW u
  PROVE  <<s, u>> \in Minted <=> Linked(s, u)
BY DEF Minted, Linked

\* A step of the service is a step of the promise or leaves it as it is.
LEMMA PromiseStep == IInv /\ [Next]_vars => [Promise!Next]_(Promise!linkVars)
<1> SUFFICES ASSUME IInv, [Next]_vars
             PROVE  Promise!Next \/ UNCHANGED <<Minted, issued, visited>>
  BY DEF Promise!linkVars, Minted
<1>1. CASE links' = links
  <2>1. Minted' = Minted
    BY <1>1 DEF Minted
  <2>2. ASSUME NEW h \in Handlers, status[h] \in {201, 302}
        PROVE  <<sid[h], url[h]>> \in Minted
    BY <2>2, MintedLinked DEF IInv, RequestInv
  <2>3. ASSUME NEW link \in Minted, issued' = issued \cup {link}, visited' = visited
        PROVE  Promise!Next
    BY <2>1, <2>3 DEF Promise!Next, Promise!Issue, Minted
  <2>4. ASSUME NEW link \in Minted, visited' = visited \cup {link}, issued' = issued
        PROVE  Promise!Next
    BY <2>1, <2>4 DEF Promise!Next, Promise!Visit, Minted
  <2> QED
    BY <2>1, <2>2, <2>3, <2>4, ToldStep
<1>2. ASSUME NEW h \in Handlers, pc[h] = "inserting", InsertRow(h), links' # links
      PROVE  Promise!Next
  <2>1. issued' = issued /\ visited' = visited
    BY <1>2, ToldStep
  <2>2. PICK row \in Row : /\ row = [short_id |-> sid[h], destination_url |-> url[h]]
                           /\ links \in Seq(Row) /\ links' = Append(links, row)
    BY <1>2, InsertedRow DEF InsertRow, IInv, TypeOK
  <2>3. Minted' = Minted \cup {<<row.short_id, row.destination_url>>}
    <3>1. /\ DOMAIN links' = DOMAIN links \cup {Len(links) + 1}
          /\ \A i \in DOMAIN links : links'[i] = links[i]
          /\ links'[Len(links) + 1] = row
      BY <2>2
    <3> QED
      BY <3>1 DEF Minted
  <2>4. \A link \in Minted : link[1] # row.short_id
    BY <1>2, <2>2 DEF InsertRow, UniqueViolated, Rows, Minted
  <2>5. row.short_id \in ShortIds /\ row.destination_url \in Urls
    BY <2>2 DEF Row
  <2>6. Promise!Mint(row.short_id, row.destination_url)
    BY <2>1, <2>3, <2>4 DEF Promise!Mint, Minted
  <2> QED
    BY <2>5, <2>6 DEF Promise!Next
<1> QED
  BY <1>1, <1>2, LinksStep

\* The shortener keeps its promise to the fleet: links are minted under
\* fresh IDs, kept for ever, and only existing links are told to anyone.
THEOREM PromiseKept == Spec => KeepsPromise
<1>1. Init => Promise!Init
  BY DEF Init, Promise!Init
<1> QED
  BY <1>1, PromiseStep, Invariance, PTL DEF Spec, KeepsPromise, Promise!Spec

\* What the promise comes to for the fleet: a short URL stands for one
\* destination, and nobody is told of a link that does not exist.
THEOREM PromiseMeans == Spec => [](Promise!OneUrlPerId /\ Promise!OnlyMintedIsTold)
<1>1. IInv => Promise!OneUrlPerId
  BY DEF IInv, UniqueShortIds, Promise!OneUrlPerId
<1>2. IInv => Promise!OnlyMintedIsTold
  <2> SUFFICES ASSUME IInv, NEW link \in issued \cup visited
               PROVE  link \in Minted
    BY DEF Promise!OnlyMintedIsTold, Minted
  <2>1. Linked(link[1], link[2]) /\ link = <<link[1], link[2]>>
    BY DEF IInv, TypeOK, IssuedResolves, VisitedResolves
  <2> QED
    BY <2>1, MintedLinked
<1> QED
  BY <1>1, <1>2, Invariance, PTL

=============================================================================
