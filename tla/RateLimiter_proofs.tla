-------------------------- MODULE RateLimiter_proofs --------------------------
(***************************************************************************)
(* The rate limiter is as strict and as lenient as a perfect memory, for   *)
(* any nicks, any cooldowns and any clock.  The invariant says what the    *)
(* sweep may forget: the dictionary agrees with the memory, or has dropped *)
(* an entry whose cooldown is over.  A second invariant bounds the         *)
(* dictionary: since any instant, at most one entry per channel cooldown.  *)
(***************************************************************************)
EXTENDS RateLimiter, FiniteSetTheorems, TLAPS

SweepForgetsElapsed ==
    \A n \in Nicks :
        lastUser[n] # admitted[n] =>
            /\ lastUser[n] = None
            /\ admitted[n] + PerUserCooldown <= now

IInv == TypeOK /\ SweepForgetsElapsed

\* The sweep keeps types, and keeps what is still in its cooldown.
LEMMA SweptTyped ==
  ASSUME TypeOK
  PROVE  /\ Swept \in [Nicks -> Times]
         /\ \A n \in Nicks :
              Swept[n] = IF lastUser[n] # None /\ lastUser[n] + PerUserCooldown > now
                         THEN lastUser[n] ELSE None
BY DEF TypeOK, Swept, Times, None

\* An allowed request is one the memory admits, and conversely.
LEMMA DecisionAgrees ==
  ASSUME IInv, NEW n \in Nicks
  PROVE  Decide(n) = "allowed" <=> Memory!Admissible(n)
<1>1. /\ now \in Nat /\ lastChannel \in Int /\ lastUser[n] \in Int /\ admitted[n] \in Int
      /\ PerUserCooldown \in Nat /\ ChannelCooldown \in Nat
      /\ lastUser[n] # admitted[n] =>
            lastUser[n] = -1 /\ admitted[n] + PerUserCooldown <= now
      /\ Swept[n] = IF lastUser[n] # -1 /\ lastUser[n] + PerUserCooldown > now
                    THEN lastUser[n] ELSE -1
  BY CooldownAssumption, SweptTyped
     DEF IInv, TypeOK, SweepForgetsElapsed, Times, None
<1>2. Remaining(lastChannel, ChannelCooldown) > 0
        <=> ~Memory!Passed(lastChannel, ChannelCooldown)
  BY <1>1 DEF Remaining, None, Memory!Passed, Memory!Unset
<1>3. Remaining(Swept[n], PerUserCooldown) > 0
        <=> ~Memory!Passed(admitted[n], PerUserCooldown)
  BY <1>1 DEF Remaining, None, Memory!Passed, Memory!Unset
<1> QED
  BY <1>2, <1>3 DEF Decide, Memory!Admissible

\* Initially nothing is recorded.
LEMMA InitIInv == Init => IInv
BY MaxTimeAssumption DEF Init, IInv, TypeOK, SweepForgetsElapsed, Times, None, Reasons

\* Every step of the limiter, of the clock and of the bot keeps the invariant.
LEMMA StepIInv == IInv /\ [Next]_limiterVars => IInv'
<1> SUFFICES ASSUME IInv, [Next]_limiterVars PROVE IInv'
  OBVIOUS
<1> USE CooldownAssumption, MaxTimeAssumption
    DEF IInv, TypeOK, SweepForgetsElapsed, Times, None
<1>1. ASSUME NEW n \in Nicks, Allow(n) PROVE IInv'
  <2>1. /\ lastUser' \in [Nicks -> Times] /\ lastChannel' = now
        /\ admitted' = [admitted EXCEPT ![n] = now] /\ now' = now
        /\ decision' \in Reasons
    BY <1>1, SweptTyped DEF Allow, Reasons
  <2>2. ASSUME NEW m \in Nicks, lastUser'[m] # admitted'[m]
        PROVE  lastUser'[m] = -1 /\ admitted'[m] + PerUserCooldown <= now
    <3>1. m # n
      BY <1>1, <2>2, SweptTyped DEF Allow
    <3>2. lastUser'[m] = Swept[m] /\ admitted'[m] = admitted[m]
      BY <1>1, <3>1, SweptTyped DEF Allow
    <3> QED
      BY <2>2, <3>2, SweptTyped
  <2> QED
    BY <2>1, <2>2
<1>2. ASSUME NEW n \in Nicks, Deny(n) PROVE IInv'
  <2>1. decision' \in Reasons
    BY <1>2 DEF Deny, Decide, Reasons
  <2>2. ASSUME NEW m \in Nicks, lastUser'[m] # admitted'[m]
        PROVE  lastUser'[m] = -1 /\ admitted'[m] + PerUserCooldown <= now
    BY <1>2, <2>2, SweptTyped DEF Deny
  <2> QED
    BY <1>2, <2>1, <2>2, SweptTyped DEF Deny
<1>3. CASE Reload
  BY <1>3 DEF Reload, Reasons
<1>4. CASE Tick
  BY <1>4 DEF Tick
<1>5. CASE UNCHANGED limiterVars
  BY <1>5 DEF limiterVars
<1> QED
  BY <1>1, <1>2, <1>3, <1>4, <1>5 DEF Next, CheckAndRecord

\* The inductive invariant holds in every reachable state.
THEOREM Invariance == Spec => []IInv
  BY InitIInv, StepIInv, PTL DEF Spec

\* Time stamps are past times, the clock never runs back behind one.
THEOREM TypeCorrect == Spec => []TypeOK
<1>1. IInv => TypeOK
  BY DEF IInv
<1> QED
  BY <1>1, Invariance, PTL

\* Sweeping and denying are unobservable: each decision is the memory's.
THEOREM LimiterDecides == Spec => []DecidesLikeMemory
<1>1. IInv => DecidesLikeMemory
  BY DecisionAgrees DEF DecidesLikeMemory
<1> QED
  BY <1>1, Invariance, PTL

\* The limiter implements the cooldowns it is specified by.
THEOREM CooldownKept == Spec => ImplementsCooldown
<1>1. Init => Memory!Init
  BY MaxTimeAssumption DEF Init, Memory!Init, Memory!Unset, None
<1>2. IInv /\ [Next]_limiterVars => [Memory!Next]_(Memory!cooldownVars)
  <2> SUFFICES ASSUME IInv, [Next]_limiterVars
               PROVE  Memory!Next \/ UNCHANGED <<now, lastChannel, admitted>>
    BY DEF Memory!cooldownVars
  <2>1. ASSUME NEW n \in Nicks, Allow(n) PROVE Memory!Next
    BY <2>1, DecisionAgrees DEF Allow, Memory!Next, Memory!Admit
  <2>2. ASSUME NEW n \in Nicks, Deny(n)
        PROVE  UNCHANGED <<now, lastChannel, admitted>>
    BY <2>2 DEF Deny
  <2>3. CASE Reload
    BY <2>3 DEF Reload, None, Memory!Next, Memory!Forget, Memory!Unset
  <2>4. CASE Tick
    BY <2>4, MaxTimeAssumption
       DEF Tick, IInv, TypeOK, Memory!Next, Memory!Advance
  <2>5. CASE UNCHANGED limiterVars
    BY <2>5 DEF limiterVars
  <2> QED
    BY <2>1, <2>2, <2>3, <2>4, <2>5 DEF Next, CheckAndRecord
<1> QED
  BY <1>1, <1>2, Invariance, PTL DEF Spec, ImplementsCooldown, Memory!Spec

-----------------------------------------------------------------------------
(* The size of the dictionary.                                              *)

\* The entries made at an instant or later.
Since(t) == {n \in Recorded : lastUser[n] >= t}

\* A cooldown apart, they are no more than the time since then has room for;
\* and the last allowed request has swept what was too old by then.
Spaced ==
    /\ IsFiniteSet(Recorded)
    /\ \A n \in Recorded : /\ lastUser[n] <= lastChannel
                           /\ PerUserCooldown > 0 => lastUser[n] + PerUserCooldown > lastChannel
    /\ \A t \in Int : t <= lastChannel =>
          Cardinality(Since(t)) * ChannelCooldown <= lastChannel - t + ChannelCooldown

\* Forgetting entries leaves the others as far apart as they are.
LEMMA ForgettingKeepsSpaced ==
  ASSUME TypeOK, Spaced, UNCHANGED lastChannel, Recorded' \subseteq Recorded,
         \A n \in Recorded' : lastUser'[n] = lastUser[n]
  PROVE  Spaced'
<1>1. IsFiniteSet(Recorded') /\ IsFiniteSet(Recorded)
  BY FS_Subset DEF Spaced
<1>2. ASSUME NEW t \in Int, t <= lastChannel
      PROVE  Cardinality(Since(t)') * ChannelCooldown <= lastChannel - t + ChannelCooldown
  <2>1. Since(t)' \subseteq Since(t) /\ IsFiniteSet(Since(t))
    BY <1>1, FS_Subset DEF Since
  <2>2. /\ Cardinality(Since(t)) \in Nat /\ Cardinality(Since(t)') \in Nat
        /\ Cardinality(Since(t)') <= Cardinality(Since(t))
    BY <2>1, FS_Subset, FS_CardinalityType
  <2>3. \A c, d, e \in Nat : c <= d => c * e <= d * e
    OBVIOUS
  <2>4. Cardinality(Since(t)') * ChannelCooldown <= Cardinality(Since(t)) * ChannelCooldown
    BY <2>2, <2>3, CooldownAssumption
  <2>5. lastChannel \in Int
    BY DEF TypeOK, Times, None
  <2> DEFINE c == Cardinality(Since(t)) * ChannelCooldown
             d == Cardinality(Since(t)') * ChannelCooldown
  <2>6. c \in Int /\ d \in Int /\ d <= c /\ c <= lastChannel - t + ChannelCooldown
    BY <2>2, <2>4, <1>2, CooldownAssumption DEF Spaced
  <2> HIDE DEF c, d
  <2>7. d <= lastChannel - t + ChannelCooldown
    BY <2>5, <2>6, CooldownAssumption
  <2> QED
    BY <2>7 DEF d
<1> QED
  BY <1>1, <1>2 DEF Spaced

\* An allowed request comes a cooldown after the last one.
LEMMA AllowKeepsSpaced ==
  ASSUME IInv, Spaced, NEW n \in Nicks, Allow(n)
  PROVE  Spaced'
<1>1. /\ now \in Nat /\ lastChannel \in Int /\ lastChannel <= now
      /\ PerUserCooldown \in Nat /\ ChannelCooldown \in Nat
      /\ \A m \in Nicks : lastUser[m] \in Int
  BY CooldownAssumption DEF IInv, TypeOK, Times, None
<1>2. /\ lastChannel' = now /\ lastUser'[n] = now
      /\ \A m \in Nicks \ {n} : lastUser'[m] = Swept[m]
  BY SweptTyped DEF Allow, IInv
<1>3. lastChannel = None \/ lastChannel + ChannelCooldown <= now
  BY <1>1 DEF Allow, Decide, Remaining
<1>4. \A m \in Nicks : Swept[m] # None =>
          /\ m \in Recorded /\ Swept[m] = lastUser[m] /\ lastUser[m] + PerUserCooldown > now
  BY SweptTyped DEF IInv, Recorded
<1>5. /\ Recorded' \subseteq Recorded \cup {n} /\ n \in Recorded'
      /\ \A m \in Recorded' \ {n} : /\ m \in Recorded /\ lastUser'[m] = lastUser[m]
                                    /\ lastUser[m] + PerUserCooldown > now
  BY <1>1, <1>2, <1>4 DEF Recorded, None
<1>6. IsFiniteSet(Recorded) /\ IsFiniteSet(Recorded \cup {n}) /\ IsFiniteSet(Recorded')
  BY <1>5, FS_AddElement, FS_Subset DEF Spaced
<1>7. \A m \in Recorded' : /\ lastUser'[m] <= now
                           /\ PerUserCooldown > 0 => lastUser'[m] + PerUserCooldown > now
  BY <1>1, <1>2, <1>5 DEF Spaced, Recorded
<1>8. ASSUME NEW t \in Int, t <= now
      PROVE  Cardinality(Since(t)') * ChannelCooldown <= now - t + ChannelCooldown
  <2>1. /\ Since(t) \subseteq Recorded /\ IsFiniteSet(Since(t))
        /\ IsFiniteSet(Since(t) \cup {n}) /\ Cardinality(Since(t)) \in Nat
        /\ Cardinality(Since(t) \cup {n}) <= Cardinality(Since(t)) + 1
    <3>1. Since(t) \subseteq Recorded
      BY DEF Since
    <3>2. IsFiniteSet(Since(t))
      BY <1>6, <3>1, FS_Subset
    <3>3. Cardinality(Since(t)) \in Nat
      BY <3>2, FS_CardinalityType
    <3>4. /\ IsFiniteSet(Since(t) \cup {n})
          /\ \/ Cardinality(Since(t) \cup {n}) = Cardinality(Since(t))
             \/ Cardinality(Since(t) \cup {n}) = Cardinality(Since(t)) + 1
      BY <3>2, FS_AddElement
    <3> QED
      BY <3>1, <3>2, <3>3, <3>4
  <2>2. Since(t)' \subseteq Since(t) \cup {n}
    BY <1>5 DEF Since
  <2>3. /\ Cardinality(Since(t)') \in Nat
        /\ Cardinality(Since(t)') <= Cardinality(Since(t)) + 1
    BY <2>1, <2>2, FS_Subset, FS_CardinalityType
  <2> DEFINE c == Cardinality(Since(t))
             d == Cardinality(Since(t)')
  <2>4. d * ChannelCooldown <= c * ChannelCooldown + ChannelCooldown
    <3>1. \A i, j, k \in Nat : i <= j + 1 => i * k <= j * k + k
      OBVIOUS
    <3> QED
      BY <3>1, <2>1, <2>3, <1>1
  <2>5. c * ChannelCooldown \in Int /\ d * ChannelCooldown \in Int
    BY <2>1, <2>3, <1>1
  <2>6. CASE t <= lastChannel
    <3>1. c * ChannelCooldown <= lastChannel - t + ChannelCooldown
      BY <2>6 DEF Spaced
    <3>2. CASE lastChannel # None
      <4> HIDE DEF c, d
      <4> DEFINE x == c * ChannelCooldown
                 y == d * ChannelCooldown
      <4>1. x \in Int /\ y \in Int /\ y <= x + ChannelCooldown
            /\ x <= lastChannel - t + ChannelCooldown /\ lastChannel + ChannelCooldown <= now
        BY <2>4, <2>5, <3>1, <3>2, <1>3
      <4> HIDE DEF x, y
      <4>2. y <= now - t + ChannelCooldown
        BY <4>1, <1>1
      <4> QED
        BY <4>2 DEF y, d
    <3>3. CASE lastChannel = None
      <4>1. Recorded = {}
        <5>1. \A m \in Recorded : lastUser[m] <= -1 /\ lastUser[m] # -1 /\ lastUser[m] \in {-1} \cup 0 .. now
          BY <3>3 DEF Spaced, Recorded, None, IInv, TypeOK, Times
        <5> QED
          BY <5>1, <1>1
      <4>0. Since(t) = {}
        BY <4>1 DEF Since
      <4>2. c = 0
        BY <4>0, FS_EmptySet
      <4>3. d * ChannelCooldown <= ChannelCooldown
        BY <4>2, <2>4, <2>5, <1>1
      <4> HIDE DEF c, d
      <4> DEFINE y == d * ChannelCooldown
      <4>4. y \in Int /\ y <= ChannelCooldown
        BY <4>3, <2>5
      <4> HIDE DEF y
      <4>5. y <= now - t + ChannelCooldown
        BY <4>4, <1>1, <1>8
      <4> QED
        BY <4>5 DEF y, d
    <3> QED
      BY <3>2, <3>3
  <2>7. CASE t > lastChannel
    <3>1. Since(t) = {}
      <4>1. \A m \in Recorded : lastUser[m] \in Int /\ lastUser[m] <= lastChannel
        BY <1>1 DEF Spaced, Recorded
      <4> QED
        BY <4>1, <2>7, <1>1 DEF Since
    <3>2. c = 0
      BY <3>1, FS_EmptySet
    <3>3. d * ChannelCooldown <= ChannelCooldown
      BY <3>2, <2>4, <2>5, <1>1
    <3> HIDE DEF c, d
    <3> DEFINE y == d * ChannelCooldown
    <3>4. y \in Int /\ y <= ChannelCooldown
      BY <3>3, <2>5
    <3> HIDE DEF y
    <3>5. y <= now - t + ChannelCooldown
      BY <3>4, <1>1, <1>8
    <3> QED
      BY <3>5 DEF y, d
  <2> QED
    BY <2>6, <2>7, <1>1
<1> QED
  BY <1>2, <1>6, <1>7, <1>8 DEF Spaced

\* Every step keeps the entries spaced.
LEMMA StepSpaced == IInv /\ Spaced /\ [Next]_limiterVars => Spaced'
<1> SUFFICES ASSUME IInv, Spaced, [Next]_limiterVars PROVE Spaced'
  OBVIOUS
<1>1. ASSUME NEW n \in Nicks, Deny(n) PROVE Spaced'
  <2>1. /\ UNCHANGED lastChannel
        /\ Recorded' \subseteq Recorded /\ \A m \in Recorded' : lastUser'[m] = lastUser[m]
    BY <1>1, SweptTyped DEF Deny, Recorded, IInv
  <2> QED
    BY <2>1, ForgettingKeepsSpaced DEF IInv
<1>2. CASE Reload
  <2>1. Recorded' = {} /\ lastChannel' = -1
    BY <1>2 DEF Reload, Recorded, None
  <2>2. IsFiniteSet(Recorded') /\ \A t \in Int : Since(t)' = {}
    BY <2>1, FS_EmptySet DEF Since
  <2>3. \A t \in Int : Cardinality(Since(t)') = 0
    BY <2>2, FS_EmptySet
  <2> QED
    BY <2>1, <2>2, <2>3, CooldownAssumption DEF Spaced
<1>3. CASE Tick
  BY <1>3, ForgettingKeepsSpaced DEF Tick, Recorded, IInv
<1>4. CASE UNCHANGED limiterVars
  BY <1>4, ForgettingKeepsSpaced DEF limiterVars, Recorded, IInv
<1> QED
  BY <1>1, <1>2, <1>3, <1>4, AllowKeepsSpaced DEF Next, CheckAndRecord

\* Over any uptime and for any number of nicks, the dictionary has at most as
\* many entries as channel cooldowns fit in a user's cooldown, rounded up.
THEOREM MemoryBounded == Spec => []BoundedMemory
<1>1. Init => Spaced
  <2> SUFFICES ASSUME Init PROVE Spaced
    OBVIOUS
  <2>1. Recorded = {} /\ lastChannel = -1
    BY DEF Init, Recorded, None
  <2>2. IsFiniteSet(Recorded) /\ \A t \in Int : Since(t) = {}
    BY <2>1, FS_EmptySet DEF Since
  <2>3. \A t \in Int : Cardinality(Since(t)) = 0
    BY <2>2, FS_EmptySet
  <2> QED
    BY <2>1, <2>2, <2>3, CooldownAssumption DEF Spaced
<1>2. IInv /\ Spaced => BoundedMemory
  <2> SUFFICES ASSUME IInv, Spaced, ChannelCooldown > 0, PerUserCooldown > 0
               PROVE  Cardinality(Recorded) * ChannelCooldown < PerUserCooldown + ChannelCooldown
    BY DEF BoundedMemory
  <2> DEFINE t == lastChannel - PerUserCooldown + 1
  <2>1. t \in Int /\ t <= lastChannel /\ lastChannel \in Int
    BY CooldownAssumption DEF IInv, TypeOK, Times, None
  <2>2. \A n \in Recorded : lastUser[n] \in Int /\ lastUser[n] + PerUserCooldown > lastChannel
    <3>1. \A n \in Nicks : lastUser[n] \in Int
      BY DEF IInv, TypeOK, Times, None
    <3> QED
      BY <3>1 DEF Spaced, Recorded
  <2>3. Since(t) = Recorded
    BY <2>1, <2>2, CooldownAssumption DEF Since
  <2>4. Cardinality(Recorded) * ChannelCooldown <= lastChannel - t + ChannelCooldown
    BY <2>1, <2>3 DEF Spaced
  <2>5. Cardinality(Recorded) \in Nat
    BY FS_CardinalityType DEF Spaced
  <2> DEFINE c == Cardinality(Recorded) * ChannelCooldown
  <2>6. c \in Int /\ c <= lastChannel - t + ChannelCooldown
    BY <2>4, <2>5, CooldownAssumption
  <2> HIDE DEF c
  <2>7. c < PerUserCooldown + ChannelCooldown
    BY <2>1, <2>6, CooldownAssumption
  <2> QED
    BY <2>7 DEF c
<1> QED
  BY <1>1, <1>2, StepSpaced, Invariance, PTL DEF Spec

=============================================================================
