----------------------------- MODULE RateLimiter -----------------------------
(***************************************************************************)
(* RateLimiter of the search bot (searchbot/ratelimit.py): the per-user    *)
(* and channel-wide cooldowns of the search command.  The bot calls it     *)
(* from the main thread of eggdrop, so a call is one step.                 *)
(*                                                                         *)
(* Time is counted in ticks of the monotonic clock.  A dictionary is a     *)
(* function that is None (-1) where the code has no entry.                 *)
(***************************************************************************)
EXTENDS Integers, FiniteSets

CONSTANTS Nicks,            \* the nicks that use the search command
          PerUserCooldown,  \* PER_USER_COOLDOWN_SECONDS, in ticks
          ChannelCooldown,  \* CHANNEL_COOLDOWN_SECONDS, in ticks
          MaxTime           \* bound on the clock, for TLC

ASSUME CooldownAssumption == PerUserCooldown \in Nat /\ ChannelCooldown \in Nat
ASSUME MaxTimeAssumption == MaxTime \in Nat

VARIABLES now,          \* time.monotonic()
          lastChannel,  \* _last_channel
          lastUser,     \* _last_user
          decision,     \* the reason of the last decision
          admitted      \* ghost: when each nick was last allowed, never swept

limiterVars == <<now, lastChannel, lastUser, decision, admitted>>

None == -1
\* The time stamps there can be: a past time or none.
Times == {None} \cup 0 .. now
Reasons == {"none", "allowed", "user_cooldown", "channel_cooldown"}

\* The nicks with a recorded time stamp (RateLimiter.__contains__).
Recorded == {n \in Nicks : lastUser[n] # None}

\* Seconds left on a cooldown started at last, 0 if unset or elapsed.
Remaining(last, cooldown) ==
    IF last = None \/ last + cooldown <= now THEN 0 ELSE last + cooldown - now

Init ==
    /\ now \in 0 .. MaxTime
    /\ lastChannel = None
    /\ lastUser = [n \in Nicks |-> None]
    /\ decision = "none"
    /\ admitted = [n \in Nicks |-> None]

\* The sweep measures age with the channel's cooldown instead of the user's.
SweepByChannel ==
    [n \in Nicks |-> IF lastUser[n] # None /\ lastUser[n] + ChannelCooldown > now
                     THEN lastUser[n] ELSE None]

\* The entries nobody needs are never dropped.
SweepNothing == lastUser

\* Elapsed per-user entries are dropped on every call.
Swept ==
    [n \in Nicks |-> IF lastUser[n] # None /\ lastUser[n] + PerUserCooldown > now
                     THEN lastUser[n] ELSE None]

\* The channel-wide cooldown is checked first, then the user's.
Decide(n) ==
    IF Remaining(lastChannel, ChannelCooldown) > 0 THEN "channel_cooldown"
    ELSE IF Remaining(Swept[n], PerUserCooldown) > 0 THEN "user_cooldown"
    ELSE "allowed"

Allow(n) ==
    /\ Decide(n) = "allowed"
    /\ lastChannel' = now
    /\ lastUser' = [Swept EXCEPT ![n] = now]
    /\ decision' = "allowed"
    /\ admitted' = [admitted EXCEPT ![n] = now]
    /\ UNCHANGED now

\* The time stamp of a denied request is recorded too.
DenyAndRecord(n) ==
    /\ Decide(n) # "allowed"
    /\ lastUser' = [Swept EXCEPT ![n] = now]
    /\ lastChannel' = now
    /\ decision' = Decide(n)
    /\ UNCHANGED <<now, admitted>>

\* Only an allowed request updates the time stamps; the sweep happens anyway.
Deny(n) ==
    /\ Decide(n) # "allowed"
    /\ lastUser' = Swept
    /\ decision' = Decide(n)
    /\ UNCHANGED <<now, lastChannel, admitted>>

CheckAndRecord(n) == Allow(n) \/ Deny(n)

\* The script is loaded again (eggdrop rehash): a new RateLimiter is made.
Reload ==
    /\ lastChannel' = None
    /\ lastUser' = [n \in Nicks |-> None]
    /\ decision' = "none"
    /\ admitted' = [n \in Nicks |-> None]
    /\ UNCHANGED now

Tick ==
    /\ now < MaxTime
    /\ now' \in (now + 1) .. MaxTime
    /\ UNCHANGED <<lastChannel, lastUser, decision, admitted>>

Next == (\E n \in Nicks : CheckAndRecord(n)) \/ Reload \/ Tick

Spec == Init /\ [][Next]_limiterVars

-----------------------------------------------------------------------------
TypeOK ==
    /\ now \in Nat
    /\ lastChannel \in Times
    /\ lastUser \in [Nicks -> Times]
    /\ decision \in Reasons
    /\ admitted \in [Nicks -> Times]

\* The dictionary stays bounded over any uptime and any number of nicks: the
\* entries kept were admitted at least ChannelCooldown apart and within one
\* PerUserCooldown, so there are at most the quotient of the two, rounded up.
BoundedMemory ==
    ChannelCooldown > 0 /\ PerUserCooldown > 0 =>
        Cardinality(Recorded) * ChannelCooldown
            < PerUserCooldown + ChannelCooldown

\* The same limiter with a perfect memory (Cooldown).
Memory == INSTANCE Cooldown WITH admittedAny <- lastChannel

\* Whatever has been swept and denied before, the next decision about any nick
\* is the one the perfect memory makes: nobody gets in early, and nobody who
\* has waited is turned away ("an elapsed entry would be allowed anyway, so
\* removing it changes nothing observable"; a denied request "never extends
\* either cooldown").
DecidesLikeMemory ==
    \A n \in Nicks : Decide(n) = "allowed" <=> Memory!Admissible(n)

\* Admitted requests are a ChannelCooldown apart, those of one nick also a
\* PerUserCooldown, until the script is loaded again.
ImplementsCooldown == Memory!Spec

=============================================================================
