------------------------------ MODULE SeenFlood ------------------------------
(***************************************************************************)
(* The flood protection of Decisis's seen queries (bs_flood_init, bs_flood *)
(* and the top of bs_pubreq and bs_msgreq): the times of the last queries  *)
(* of everybody are kept in a fixed number of slots, and a query that      *)
(* finds the slots filled too fast is dropped and its user ignored.        *)
(***************************************************************************)
EXTENDS Integers, Sequences, FiniteSets

CONSTANTS Users,       \* who asks, as far as an ignore mask tells them apart
          FloodNum,    \* bs(flood_num), the x of bs(flood)
          FloodTime,   \* bs(flood_time), the y of bs(flood), in seconds
          IgnoreTime,  \* bs(ignore_time), in seconds
          MaxTime,     \* bound on the clock
          MaxQueries   \* bound on the queries between two rehashes

ASSUME FloodAssumption ==
    /\ FloodNum \in Nat
    /\ FloodTime \in Nat
    /\ IgnoreTime \in Nat
    /\ MaxTime \in Nat
    /\ FloodTime < MaxTime

VARIABLES
    now,        \* unixtime
    slots,      \* bs_flood_array, the newest time in slot 0
    ignored,    \* until when eggdrop drops what a user says
    asked,      \* ghost: the queries the script has seen, [user, at], oldest first
    answered    \* ghost: the places in asked of the queries let through

vars == <<now, slots, ignored, asked, answered>>

\* The clock starts far from 0, the time in an unused slot.
Epoch == FloodTime + 1

SlotNumbers == 0 .. FloodNum - 1

\* The loop that empties the slots stops before slot 0.
UnusedButFirst == [i \in 1 .. FloodNum - 1 |-> 0]

Unused == [i \in SlotNumbers |-> 0]

Init ==
    /\ now = Epoch
    /\ slots = Unused
    /\ ignored = [u \in Users |-> 0]
    /\ asked = << >>
    /\ answered = {}

\* Every slot moves up by one, the oldest time is lost.
Shifted == [i \in SlotNumbers |-> IF i = 0 THEN now ELSE slots[i - 1]]

\* The oldest slot is looked at before this query is recorded.
IsFloodBefore == FloodNum # 0 /\ now - slots[FloodNum - 1] <= FloodTime

\* Does the oldest of the slots, this query included, lie within FloodTime?
IsFlood == FloodNum # 0 /\ now - Shifted[FloodNum - 1] <= FloodTime

\* Eggdrop hands the query to the script unless the user is being ignored.
Heard(u) ==
    /\ ignored[u] <= now
    /\ Len(asked) < MaxQueries
    /\ asked' = Append(asked, [user |-> u, at |-> now])

\* Only a query that is let through takes a slot.
DropUnrecorded(u) ==
    /\ Heard(u)
    /\ IsFlood
    /\ slots' = slots
    /\ ignored' = [ignored EXCEPT ![u] = now + IgnoreTime]
    /\ UNCHANGED <<now, answered>>

\* A flood: no answer, and the user is ignored for a while.
Drop(u) ==
    /\ Heard(u)
    /\ IsFlood
    /\ slots' = Shifted
    /\ ignored' = [ignored EXCEPT ![u] = now + IgnoreTime]
    /\ UNCHANGED <<now, answered>>

Answer(u) ==
    /\ Heard(u)
    /\ ~IsFlood
    /\ slots' = Shifted
    /\ answered' = answered \cup {Len(asked) + 1}
    /\ UNCHANGED <<now, ignored>>

\* The script is loaded again: bs_flood_init empties the slots.
Rehash ==
    /\ slots' = Unused
    /\ asked' = << >>
    /\ answered' = {}
    /\ UNCHANGED <<now, ignored>>

Tick ==
    /\ now < MaxTime
    /\ now' = now + 1
    /\ UNCHANGED <<slots, ignored, asked, answered>>

Next ==
    \/ \E u \in Users : Answer(u) \/ Drop(u)
    \/ Rehash
    \/ Tick

Spec == Init /\ [][Next]_vars

-----------------------------------------------------------------------------
TypeOK ==
    /\ now \in Epoch .. MaxTime
    /\ slots \in [SlotNumbers -> {0} \cup (Epoch .. MaxTime)]
    /\ ignored \in [Users -> 0 .. MaxTime + IgnoreTime]
    /\ asked \in Seq([user : Users, at : Epoch .. MaxTime])
    /\ answered \subseteq DOMAIN asked

\* The queries of the FloodTime seconds before query i, itself included.
Recent(i) == {j \in 1 .. i : asked[i].at - asked[j].at <= FloodTime}

\* What the slots stand for: a query is dropped exactly if it is at least the
\* FloodNum-th, of all users together, in the last FloodTime seconds, dropped
\* ones counted (with a memory of every query, which the slots are not).
DropsByWindow ==
    FloodNum # 0 =>
        \A i \in DOMAIN asked : i \notin answered <=> Cardinality(Recent(i)) >= FloodNum

\* The answered ones of the queries in the FloodTime seconds before query i.
AnsweredBy(i) == {j \in Recent(i) : j \in answered}

\* What the flood protection is for: between two rehashes, all users together get
\* fewer than FloodNum answers in any FloodTime seconds, whatever queries are
\* dropped in between (bs_flood and the returns it makes its callers take).
AnswersAreRationed ==
    FloodNum # 0 => \A i \in DOMAIN asked : Cardinality(AnsweredBy(i)) < FloodNum

\* "bs(flood) is used for flood protection, in the form x:y.  Any queries beyond
\* x in y seconds is considered a flood and ignored": x queries in y seconds
\* are no flood.
OnlyBeyondIsFlood ==
    \A i \in DOMAIN asked : i \notin answered => Cardinality(Recent(i)) > FloodNum

=============================================================================
