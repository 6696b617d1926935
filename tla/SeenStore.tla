------------------------------ MODULE SeenStore ------------------------------
(***************************************************************************)
(* What the files of the seen database promise, told without the files:    *)
(* two databases outlive the bot, the one its next start brings back and   *)
(* an older one to fall back on.  Each is at any time a part of what the   *)
(* bot knew at one single moment, whatever was lost or cut off meanwhile:  *)
(* records of different times are never mixed, and none is made up.  And   *)
(* what is kept is only overwritten after it has been put by, unless       *)
(* putting it by has failed.                                               *)
(***************************************************************************)
EXTENDS Integers

CONSTANTS Nicks, Chans, MaxTime

VARIABLES now,      \* the clock
          phase,    \* is the bot "down", "up", or "saving"?
          known,    \* what it knows: a record per nick, a channel and a time
          kept,     \* what its next start brings back
          older,    \* what that would be if the data file were lost
          hurt      \* something has failed since the last start or whole save

storeVars == <<now, phase, known, kept, older, hurt>>

Nothing == [n \in {} |-> 0]
Part(a, b) == DOMAIN a \subseteq DOMAIN b /\ a = [n \in DOMAIN a |-> b[n]]

Init ==
    /\ now = 1
    /\ phase = "down"
    /\ known = Nothing
    /\ kept = Nothing
    /\ older = Nothing
    /\ hurt = FALSE

\* An event tells of one or two nicks that they were on a channel, now or a
\* moment ago: all the rest was known before.
News(c) == [chan : {c}, at : {now - 1, now}]

Learn ==
    /\ DOMAIN known \subseteq DOMAIN known'
    /\ \E c \in Chans :
          \A n \in DOMAIN known' :
             \/ n \in DOMAIN known /\ known'[n] = known[n]
             \/ n \in Nicks /\ known'[n] \in News(c)

Forget == Part(known', known)

\* What happens in memory leaves what outlives the bot alone.
Change ==
    /\ phase = "up"
    /\ UNCHANGED <<now, phase, kept, older, hurt>>
    /\ Learn \/ Forget

\* A save begins: what was kept is put by, or fails to be.
PutBy ==
    /\ phase = "up"
    /\ phase' = "saving"
    /\ UNCHANGED <<now, known, kept>>
    /\ \/ older' = kept /\ hurt' = hurt
       \/ hurt' = TRUE /\ (older' = older \/ Part(older', kept))

\* It goes on: what is known is kept, or what can be of it.
Store ==
    /\ phase = "saving"
    /\ UNCHANGED <<now, phase, known, older, hurt>>
    /\ Part(kept', known)

\* It ends: all that is known is kept, or something has failed.
EndSave ==
    /\ phase = "saving"
    /\ phase' = "up"
    /\ UNCHANGED <<now, known, kept, older>>
    /\ hurt' = TRUE \/ (kept = known /\ hurt' = FALSE)

\* The bot stops, at the worst while it puts by what was kept.
Die ==
    /\ phase # "down"
    /\ phase' = "down"
    /\ known' = Nothing
    /\ UNCHANGED <<now, kept, hurt>>
    /\ older' = older \/ (phase = "up" /\ Part(older', kept))

\* A bot that knows nothing knows what was kept.
Recall ==
    /\ phase # "saving"
    /\ phase' = "up"
    /\ known = Nothing
    /\ known' = kept
    /\ hurt' = FALSE
    /\ UNCHANGED <<now, kept, older>>

\* What was kept is lost.
FallBack ==
    /\ phase = "down"
    /\ kept' = older
    /\ hurt' = TRUE
    /\ UNCHANGED <<now, phase, known, older>>

\* Falling back on what was put by breaks off, and the bot with it: a part may
\* be all that is kept, but what was put by is still there.
BreakOff ==
    /\ phase # "saving"
    /\ phase' = "down"
    /\ known = Nothing
    /\ kept = older
    /\ Part(kept', older)
    /\ hurt' = TRUE
    /\ UNCHANGED <<now, known, older>>

Tick ==
    /\ phase = "up"
    /\ now < MaxTime
    /\ now' = now + 1
    /\ UNCHANGED <<phase, known, kept, older, hurt>>

Next ==
    \/ Change
    \/ PutBy
    \/ Store
    \/ EndSave
    \/ Die
    \/ Recall
    \/ FallBack
    \/ BreakOff
    \/ Tick

Spec == Init /\ [][Next]_storeVars

=============================================================================
