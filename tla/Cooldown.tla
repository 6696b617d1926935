------------------------------- MODULE Cooldown -------------------------------
(***************************************************************************)
(* What the search bot's rate limiter promises, told with a perfect        *)
(* memory: a request is admitted exactly when ChannelCooldown has passed   *)
(* since the last admitted request of anyone and PerUserCooldown since the *)
(* last admitted request of the same nick.  A denied request changes       *)
(* nothing, so it never extends a cooldown.                                *)
(***************************************************************************)
EXTENDS Integers

CONSTANTS Nicks, PerUserCooldown, ChannelCooldown

VARIABLES now,          \* the monotonic clock
          admittedAny,  \* when the last request was admitted, -1 before
          admitted      \* per nick, when its last request was admitted, or -1

cooldownVars == <<now, admittedAny, admitted>>

\* A time stamp that has not been set.
Unset == -1

Passed(last, cooldown) == last = Unset \/ now >= last + cooldown

Admissible(n) ==
    /\ Passed(admittedAny, ChannelCooldown)
    /\ Passed(admitted[n], PerUserCooldown)

Init ==
    /\ now \in Nat
    /\ admittedAny = Unset
    /\ admitted = [n \in Nicks |-> Unset]

Admit(n) ==
    /\ Admissible(n)
    /\ admittedAny' = now
    /\ admitted' = [admitted EXCEPT ![n] = now]
    /\ UNCHANGED now

\* The memory is lost with the script (rehash) or the process.
Forget ==
    /\ admittedAny' = Unset
    /\ admitted' = [n \in Nicks |-> Unset]
    /\ UNCHANGED now

Advance == now' > now /\ UNCHANGED <<admittedAny, admitted>>

Next == (\E n \in Nicks : Admit(n)) \/ Forget \/ Advance

Spec == Init /\ [][Next]_cooldownVars

=============================================================================
