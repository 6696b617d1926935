-------------------------- MODULE WeatherBot_proofs --------------------------
(***************************************************************************)
(* The weather bot's preferences, for any users, places, texts and         *)
(* observations: what is stored reads back as what was asked for, and a    *)
(* default location goes where its probe went.  The invariant adds what    *)
(* holds between a command and its answer: the request in flight is where  *)
(* the router sends it, and only a user's own probe is ever stored.        *)
(***************************************************************************)
EXTENDS WeatherBot, TLAPS

\* A request in flight is for a place, is where the router sends it, and was
\* made by somebody; only known users probe, and in the units they are stored.
InFlight ==
    task.stage # "idle" =>
        /\ task.location \in Locations
        /\ task.provider \in Providers
        /\ task.provider = Route(Classify(task.location), task.source)
        /\ task.whose \in Handles \cup {Stranger}
        /\ task.stage = "probing" => task.whose \in Handles
        /\ task.stage = "forecasting" => report \in Observations /\ task.left \in 1 .. 3
        /\ reply.kind = "none"

IInv == TypeOK /\ ReadsBack /\ DefaultReplays /\ NoInventedFigures /\ InFlight

-----------------------------------------------------------------------------
(* The router.                                                              *)

\* A few numbers have a least one.
LEMMA LeastHit ==
  ASSUME NEW S \in SUBSET (1 .. 7), S # {}
  PROVE  \E n \in S : \A m \in S : n <= m
<1> SUFFICES ASSUME \A n \in S : \E m \in S : m < n PROVE FALSE
  OBVIOUS
<1>0. \A m \in S : m \in 1 .. 7
  OBVIOUS
<1>1. \A m \in S : m > 1
  BY <1>0
<1>2. \A m \in S : m > 2
  BY <1>0, <1>1
<1>3. \A m \in S : m > 3
  BY <1>0, <1>2
<1>4. \A m \in S : m > 4
  BY <1>0, <1>3
<1>5. \A m \in S : m > 5
  BY <1>0, <1>4
<1>6. \A m \in S : m > 6
  BY <1>0, <1>5
<1>7. \A m \in S : m > 7
  BY <1>0, <1>6
<1>8. PICK m \in S : TRUE
  OBVIOUS
<1> QED
  BY <1>0, <1>7, <1>8

\* The first element of a sequence that lies in a set does lie there, if any does.
LEMMA FirstInIsIn ==
  ASSUME NEW seq, NEW S, DOMAIN seq \subseteq 1 .. 7,
         NEW i \in DOMAIN seq, seq[i] \in S
  PROVE  FirstIn(seq, S) \in S
<1> DEFINE Hits == {j \in DOMAIN seq : seq[j] \in S}
<1>1. PICK n \in Hits : \A m \in Hits : n <= m
  <2>1. Hits \in SUBSET (1 .. 7) /\ Hits # {}
    OBVIOUS
  <2> HIDE DEF Hits
  <2> QED
    BY <2>1, LeastHit
<1>2. n \in DOMAIN seq /\ seq[n] \in S /\ \A j \in DOMAIN seq : seq[j] \in S => n <= j
  BY <1>1
<1> QED
  BY <1>2 DEF FirstIn

\* Every place has a type.
LEMMA ClassifyTyped ==
  ASSUME NEW l \in Locations
  PROVE  Classify(l) \in LocationTypes
<1> DEFINE Named == {Patterns[i] : i \in DOMAIN Patterns}
<1>1. Looks[l] \subseteq Named
  BY LooksAssumption
<1>2. DOMAIN Patterns = 1 .. 7 /\ Named \subseteq LocationTypes
  BY DEF Patterns, LocationTypes
<1>3. CASE Looks[l] = {}
  BY <1>3 DEF Classify, LocationTypes
<1>4. CASE Looks[l] # {}
  <2>1. PICK i \in DOMAIN Patterns : Patterns[i] \in Looks[l]
    BY <1>1, <1>4
  <2>2. DOMAIN Patterns \subseteq 1 .. 7
    BY <1>2
  <2>3. FirstIn(Patterns, Looks[l]) \in Looks[l]
    BY <2>1, <2>2, FirstInIsIn
  <2> QED
    BY <2>3, <1>1, <1>2, <1>4 DEF Classify
<1> QED
  BY <1>3, <1>4

\* Every provider is registered: of any that could be asked, one is found.
LEMMA OneIsFound ==
  ASSUME NEW S \in SUBSET Providers, S # {}
  PROVE  FirstIn(Registered, S) \in S
<1>1. DOMAIN Registered \subseteq 1 .. 7
  BY DEF Registered
<1>2. \A p \in Providers : \E i \in DOMAIN Registered : Registered[i] = p
  <2>1. /\ Registered[1] = "weatherapi" /\ Registered[2] = "avwx" /\ Registered[3] = "aprs"
        /\ Registered[4] = "awn" /\ Registered[5] = "nws" /\ DOMAIN Registered = 1 .. 5
    BY DEF Registered
  <2> QED
    BY <2>1 DEF Providers
<1>3. PICK i \in DOMAIN Registered : Registered[i] \in S
  BY <1>2
<1> QED
  BY <1>1, <1>3, FirstInIsIn

\* A provider can be asked about whatever it owns, and one about everything.
LEMMA OwnersAreAble ==
  ASSUME NEW type \in LocationTypes
  PROVE  /\ Owners(type) \subseteq Able(type) /\ Able(type) \subseteq Providers
         /\ Able(type) # {}
<1>1. \A p \in Providers : Profile[p].owns \subseteq Profile[p].supports
  BY DEF Providers, Profile, WeatherApi, AvWx, Aprs, Ambient, Nws
<1>2. "weatherapi" \in Providers /\ Profile["weatherapi"].supports = LocationTypes
  BY DEF Providers, Profile, WeatherApi
<1> QED
  BY <1>1, <1>2 DEF Owners, Able

\* What the docstring of route promises.  Whoever is asked can be asked about
\* the place; who is named is asked or nobody is.  Left to itself the router
\* turns down only an airport's code without --metar and --metar without one,
\* so that its last raise is never reached, and prefers who owns the place.
THEOREM RouterKeepsItsWord ==
  ASSUME NEW type \in LocationTypes, NEW source \in Sources
  PROVE  /\ Route(type, source) # None =>
              /\ Route(type, source) \in Providers
              /\ type \in Profile[Route(type, source)].supports
         /\ source \in Providers => Route(type, source) \in {source, None}
         /\ source \notin Providers =>
              /\ Route(type, source) = None <=> (source = "metar") # (type = "ICAO")
              /\ Route(type, source) # None /\ Owners(type) # {} =>
                   Route(type, source) \in Owners(type)
<1> DEFINE Candidates == IF Owners(type) # {} THEN Owners(type) ELSE Able(type)
<1>1. Candidates \subseteq Able(type) /\ Candidates \subseteq Providers /\ Candidates # {}
  BY OwnersAreAble
<1>2. FirstIn(Registered, Candidates) \in Candidates
  BY <1>1, OneIsFound
<1>3. None \notin Providers
  BY NoneAssumption
<1>4. CASE source \in Providers
  BY <1>3, <1>4 DEF Route, Able
<1>5. CASE source \notin Providers
  <2>1. Route(type, source) = IF (source = "metar") # (type = "ICAO") THEN None
                              ELSE FirstIn(Registered, Candidates)
    BY <1>5 DEF Route
  <2>2. FirstIn(Registered, Candidates) # None
    BY <1>1, <1>2, <1>3
  <2>3. /\ FirstIn(Registered, Candidates) \in Providers
        /\ type \in Profile[FirstIn(Registered, Candidates)].supports
        /\ Owners(type) # {} => FirstIn(Registered, Candidates) \in Owners(type)
    BY <1>1, <1>2 DEF Able
  <2> HIDE DEF Candidates
  <2> QED
    BY <1>5, <2>1, <2>2, <2>3
<1> QED
  BY <1>4, <1>5

\* The router names a provider or none.
LEMMA RouteTyped ==
  ASSUME NEW type \in LocationTypes, NEW source \in Sources
  PROVE  Route(type, source) \in Providers \cup {None}
BY RouterKeepsItsWord

-----------------------------------------------------------------------------
(* The stored texts.                                                        *)

\* The source a text of flags names is found again.
LEMMA SourceFound ==
  ASSUME NEW source \in Sources \ {"auto"}, NEW units \in Units
  PROVE  /\ ({source, units} \ {"auto", "metric"}) \cap Sources = {source}
         /\ (CHOOSE s \in {source} : TRUE) = source
  BY DEF Sources, Providers, Units

\* A preference survives being stored; only the default leaves a blank text.
LEMMA RoundTrip ==
  ASSUME NEW pref \in Pref
  PROVE  /\ Serialize(pref) \in [flags : SUBSET Flags, location : Locations \cup {None}]
         /\ (IF Serialize(pref) = Blank THEN DefaultPref ELSE Deserialize(Serialize(pref))) = pref
<1> DEFINE flags == {pref.source, pref.units} \ {"auto", "metric"}
<1>1. /\ pref.location \in Locations \cup {None} /\ pref.units \in Units
      /\ pref.source \in Sources
      /\ pref = [location |-> pref.location, units |-> pref.units, source |-> pref.source]
  BY DEF Pref
<1>2. /\ Serialize(pref).flags = flags /\ Serialize(pref).location = pref.location
      /\ Serialize(pref) = [flags |-> flags, location |-> pref.location]
  BY DEF Serialize
<1>3. flags \subseteq Flags
  BY <1>1 DEF Flags, Sources, Units, Providers
<1>4. "imperial" \in flags <=> pref.units = "imperial"
  BY <1>1 DEF Sources, Units, Providers
<1>5. (IF flags \cap Sources = {} THEN "auto" ELSE CHOOSE s \in flags \cap Sources : TRUE)
         = pref.source
  <2>1. CASE pref.source = "auto"
    <3>1. flags \cap Sources = {}
      BY <2>1, <1>1 DEF Sources, Units, Providers
    <3> QED
      BY <3>1, <2>1
  <2>2. CASE pref.source # "auto"
    <3>1. flags \cap Sources = {pref.source} /\ (CHOOSE s \in {pref.source} : TRUE) = pref.source
      BY <2>2, <1>1, SourceFound
    <3>2. flags \cap Sources # {}
      BY <3>1
    <3> QED
      BY <3>1, <3>2
  <2> QED
    BY <2>1, <2>2
<1>6. Deserialize(Serialize(pref)) = pref
  BY <1>1, <1>2, <1>4, <1>5 DEF Deserialize, Units
<1>7. Serialize(pref) = Blank => pref = DefaultPref
  BY <1>1, <1>2, <1>4, <1>5 DEF Blank, DefaultPref, Units
<1> QED
  BY <1>1, <1>2, <1>3, <1>6, <1>7

-----------------------------------------------------------------------------
(* What is said.                                                            *)

\* A line has a figure, or none, for every field.
LEMMA LineTyped ==
  ASSUME NEW p \in Providers, NEW obs \in Observations
  PROVE  Line(Profile[p].mode, Parsed(p, obs)) \in [Fields -> Shown]
<1>1. obs \in [Fields -> Readings]
  BY ObservationsAssumption
<1>2. \A f \in Fields : obs[f] \in Readings
  BY <1>1
<1>3. \A f \in Fields : Parsed(p, obs)[f] \in Figures
  BY <1>2 DEF Parsed, Figures, Readings, Missing
<1>4. \A f \in Fields : Line(Profile[p].mode, Parsed(p, obs))[f] \in Shown
  BY <1>3 DEF Line, Shown, Figures
<1> QED
  BY <1>4 DEF Line

Replies == [kind : Kinds, provider : Providers \cup {None}, units : Units,
            figures : [Fields -> Shown]]

\* Whatever is said of something else than the weather is a reply.
LEMMA SayTyped ==
  ASSUME NEW kind \in Kinds
  PROVE  Say(kind) \in Replies /\ Say(kind).kind = kind
BY DEF Say, Replies, Units, Unshown, Shown

\* A figure that is shown was reported, or is one of the few that are assumed.
LEMMA ShownIsReported ==
  ASSUME NEW p \in Providers \ {"aprs"}, NEW obs \in Observations,
         NEW f \in Fields \ {"wind", "vis"},
         ~Unprintable(Profile[p].mode, Parsed(p, obs)),
         Line(Profile[p].mode, Parsed(p, obs))[f] # "unshown"
  PROVE  obs[f] \notin Missing
<1> DEFINE mode == Profile[p].mode
           fig == Parsed(p, obs)
<1>1. f \in ShownFields(mode, fig)
  BY DEF Line
<1>2. fig[f] # "none"
  <2>1. CASE f \in Always[mode]
    BY <2>1 DEF Unprintable
  <2>2. CASE f \notin Always[mode]
    BY <1>1, <2>2 DEF ShownFields
  <2> QED
    BY <2>1, <2>2
<1>3. f \notin AssumedZero(p)
  BY DEF AssumedZero, Profile, WeatherApi, AvWx, Ambient, Nws, NwsParser, Providers
<1> QED
  BY <1>2, <1>3 DEF Parsed

\* What shows the current weather asks at least once for its forecast.
LEMMA ForecastsTakeRequests ==
  ASSUME NEW p \in Providers, Profile[p].mode = "CURRENT"
  PROVE  Profile[p].forecast.requests \in 1 .. 3
BY DEF Providers, Profile, WeatherApi, AvWx, Aprs, Ambient, Nws, NwsForecast

\* What Show says.
LEMMA ShowTyped ==
  ASSUME NEW obs \in Observations, task.provider \in Providers, task.units \in Units, Show(obs)
  PROVE  /\ task' = Idle /\ reply' \in Replies
         /\ report' = obs => NoInventedFigures'
<1>1. Say("unexpected") \in Replies
  BY SayTyped DEF Kinds
<1>2. Line(Profile[task.provider].mode, Parsed(task.provider, obs)) \in [Fields -> Shown]
  BY LineTyped
<1>3. [kind |-> "weather", provider |-> task.provider, units |-> task.units,
       figures |-> Line(Profile[task.provider].mode, Parsed(task.provider, obs))] \in Replies
  BY <1>2 DEF Replies, Kinds
<1>4. report' = obs => NoInventedFigures'
  <2>1. CASE Unprintable(Profile[task.provider].mode, Parsed(task.provider, obs))
    <3>1. reply' = Say("unexpected")
      BY <2>1 DEF Show
    <3> QED
      BY <3>1 DEF NoInventedFigures, Say
  <2>2. CASE ~Unprintable(Profile[task.provider].mode, Parsed(task.provider, obs))
    <3>1. /\ reply'.provider = task.provider
          /\ reply'.figures = Line(Profile[task.provider].mode, Parsed(task.provider, obs))
      BY <2>2 DEF Show
    <3> QED
      BY <2>2, <3>1, ShownIsReported DEF NoInventedFigures
  <2> QED
    BY <2>1, <2>2
<1> QED
  BY <1>1, <1>3, <1>4 DEF Show

-----------------------------------------------------------------------------
(* Steps.                                                                   *)

\* The units a text names, or others in their place.
LEMMA GivenUnitsTyped ==
  ASSUME NEW t \in Texts
  PROVE  GivenUnits(t) \in Units \cup {"unsaid"}
BY DEF GivenUnits, Units

\* The providers a text names, or none.
LEMMA GivenSourcesTyped ==
  ASSUME NEW t \in Texts
  PROVE  GivenSources(t) \subseteq Sources
BY DEF GivenSources, Sources

\* A text that names a place names one of the places.
LEMMA TextTyped ==
  ASSUME NEW t \in Texts
  PROVE  t.location # None => t.location \in Locations
BY TextsAssumption DEF Text

\* The preference of a user, as its commands made it.
LEMMA PrefIsTold ==
  ASSUME IInv, NEW h \in Handles
  PROVE  /\ PrefOrDefault(h) = told[h] /\ told[h] \in Pref
         /\ PrefOrDefault(h).location \in Locations \cup {None}
         /\ PrefOrDefault(h).units \in Units /\ PrefOrDefault(h).source \in Sources
<1>1. PrefOrDefault(h) = told[h] /\ told[h] \in Pref
  BY DEF IInv, TypeOK, ReadsBack
<1> QED
  BY <1>1 DEF Pref

\* Everybody's units are units, a stranger's among them.
LEMMA UnitsOfTyped ==
  ASSUME IInv, NEW h \in Handles \cup {Stranger}
  PROVE  UnitsOf(h) \in Units
<1>1. CASE h = Stranger
  BY <1>1 DEF UnitsOf, Units
<1>2. CASE h # Stranger
  BY <1>2, PrefIsTold DEF UnitsOf
<1> QED
  BY <1>1, <1>2

\* A command that ends without storing anything keeps the invariant.
LEMMA EndKeeps ==
  ASSUME IInv, task' = Idle, reply' \in Replies, report' \in Observations \cup {None}, Kept,
         NoInventedFigures'
  PROVE  IInv'
<1>1. saved' = saved /\ told' = told /\ vouched' = vouched
  BY DEF Kept
<1>2. TypeOK'
  BY <1>1 DEF IInv, TypeOK, Idle, Stages, Units, Sources, Replies
<1>3. ReadsBack' /\ DefaultReplays'
  BY <1>1 DEF IInv, ReadsBack, DefaultReplays, PrefOrDefault
<1>4. InFlight'
  BY DEF InFlight, Idle
<1> QED
  BY <1>2, <1>3, <1>4 DEF IInv

\* And so does whatever is said of something else than the weather.
LEMMA SayKeeps ==
  ASSUME IInv, NEW kind \in Kinds \ {"weather"}, Finish(kind),
         report' \in Observations \cup {None}, Kept
  PROVE  IInv'
<1>1. Say(kind) \in Replies /\ Say(kind).kind = kind
  BY SayTyped
<1>2. NoInventedFigures'
  BY <1>1 DEF Finish, NoInventedFigures
<1> QED
  BY <1>1, <1>2, EndKeeps DEF Finish

\* A command that is turned down keeps the invariant.
LEMMA RefuseKeeps ==
  ASSUME IInv, Refuse
  PROVE  IInv'
BY SayKeeps DEF Refuse, Kinds

\* A request keeps it.
LEMMA AskKeeps ==
  ASSUME IInv, NEW stage \in {"asking", "probing"}, NEW whose \in Handles \cup {Stranger},
         NEW location \in Locations, NEW units \in Units, NEW source \in Sources,
         stage = "probing" => whose \in Handles,
         Ask(stage, whose, location, units, source)
  PROVE  IInv'
<1> DEFINE provider == Route(Classify(location), source)
<1>1. provider \in Providers \cup {None}
  BY ClassifyTyped, RouteTyped
<1>2. CASE provider = None
  BY <1>2, SayKeeps DEF Ask, Kinds
<1>3. CASE provider # None
  <2>1. /\ task' = [stage |-> stage, whose |-> whose, location |-> location,
                    provider |-> provider, units |-> units, source |-> source,
                    left |-> 0]
        /\ reply' = Say("none") /\ report' = None
        /\ saved' = saved /\ told' = told /\ vouched' = vouched
    BY <1>3 DEF Ask, Kept
  <2>2. Say("none") \in Replies /\ Say("none").kind = "none"
    BY SayTyped DEF Kinds
  <2> HIDE DEF provider
  <2>3. TypeOK'
    BY <2>1, <2>2, <1>1 DEF IInv, TypeOK, Stages, Replies
  <2>4. ReadsBack' /\ DefaultReplays'
    BY <2>1 DEF IInv, ReadsBack, DefaultReplays, PrefOrDefault
  <2>5. InFlight'
    BY <2>1, <2>2, <1>1, <1>3 DEF InFlight, provider
  <2>6. NoInventedFigures'
    BY <2>1, <2>2 DEF NoInventedFigures
  <2> QED
    BY <2>3, <2>4, <2>5, <2>6 DEF IInv
<1> QED
  BY <1>2, <1>3

\* Every command keeps it.
LEMMA CommandKeeps ==
  ASSUME IInv, Command
  PROVE  IInv'
<1> PICK t \in Texts :
        \/ \E h \in Handles \cup {Stranger} :
              Wz(h, t) \/ WzReplay(h, t) \/ WzRefuse(h, t) \/ WzsetRefuse(h, t)
        \/ WzUser(t)
        \/ \E h \in Handles : WzsetUnits(h, t) \/ Wzset(h, t)
  BY DEF Command
<1> DEFINE given == GivenUnits(t)
<1>0. /\ GivenSources(t) \subseteq Sources
      /\ t.location # None => t.location \in Locations
      /\ \A default \in Units : UnitsOr(given, default) \in Units
  BY GivenUnitsTyped, GivenSourcesTyped, TextTyped DEF UnitsOr
<1> HIDE DEF given
<1>1. ASSUME NEW h \in Handles \cup {Stranger}, Wz(h, t)
      PROVE  IInv'
  <2>1. UnitsOf(h) \in Units
    BY UnitsOfTyped
  <2>2. PICK source \in GivenSources(t) :
           Ask("asking", h, t.location, UnitsOr(given, UnitsOf(h)), source)
    BY <1>1 DEF Wz, given
  <2>3. /\ t.location \in Locations /\ source \in Sources
        /\ UnitsOr(given, UnitsOf(h)) \in Units
    BY <1>0, <1>1, <2>1 DEF Wz
  <2> QED
    BY <2>2, <2>3, AskKeeps
<1>2. ASSUME NEW h \in Handles \cup {Stranger}, WzReplay(h, t)
      PROVE  IInv'
  <2>1. h \in Handles /\ PrefOrDefault(h).location # None
    BY <1>2 DEF WzReplay, HasDefault
  <2>2. /\ PrefOrDefault(h).location \in Locations
        /\ PrefOrDefault(h).source \in Sources
        /\ UnitsOf(h) \in Units
    BY <2>1, PrefIsTold, UnitsOfTyped
  <2>3. Ask("asking", h, PrefOrDefault(h).location, UnitsOf(h), PrefOrDefault(h).source)
    BY <1>2 DEF WzReplay
  <2> QED
    BY <2>2, <2>3, AskKeeps
<1>3. ASSUME WzUser(t)
      PROVE  IInv'
  <2> DEFINE h == t.user
  <2>1. h \in Handles /\ PrefOrDefault(h).location # None
    BY <1>3 DEF WzUser, HasDefault
  <2>2. /\ PrefOrDefault(h).location \in Locations
        /\ PrefOrDefault(h).source \in Sources
        /\ UnitsOf(h) \in Units
    BY <2>1, PrefIsTold, UnitsOfTyped
  <2>3. PICK named \in GivenSources(t) :
           Ask("asking", h, PrefOrDefault(h).location, UnitsOr(given, UnitsOf(h)),
               IF named \in Providers THEN named ELSE PrefOrDefault(h).source)
    BY <1>3 DEF WzUser, given
  <2>4. /\ (IF named \in Providers THEN named ELSE PrefOrDefault(h).source) \in Sources
        /\ UnitsOr(given, UnitsOf(h)) \in Units
    BY <1>0, <2>2 DEF Sources
  <2> HIDE DEF h
  <2> QED
    BY <2>1, <2>2, <2>3, <2>4, AskKeeps
<1>4. ASSUME NEW h \in Handles \cup {Stranger}, WzRefuse(h, t) \/ WzsetRefuse(h, t)
      PROVE  IInv'
  BY <1>4, RefuseKeeps DEF WzRefuse, WzsetRefuse
<1>5. ASSUME NEW h \in Handles, Wzset(h, t)
      PROVE  IInv'
  <2>1. PICK source \in GivenSources(t) :
           Ask("probing", h, t.location, UnitsOr(given, "metric"), source)
    BY <1>5 DEF Wzset, given
  <2>2. /\ t.location \in Locations /\ source \in Sources
        /\ UnitsOr(given, "metric") \in Units
    BY <1>0, <1>5 DEF Wzset, Units
  <2> QED
    BY <2>1, <2>2, AskKeeps
<1>6. ASSUME NEW h \in Handles, WzsetUnits(h, t)
      PROVE  IInv'
  <2> DEFINE units == UnitsOr(given, "metric")
             pref == WithUnits(PrefOrDefault(h), units)
  <2>1. /\ saved' = [saved EXCEPT ![h] = Serialize(pref)]
        /\ told' = [told EXCEPT ![h].units = units]
        /\ task' = Idle /\ reply' = Say("updated") /\ report' = None /\ vouched' = vouched
    BY <1>6 DEF WzsetUnits, Finish, given
  <2>2. units \in Units
    BY <1>0 DEF Units
  <2>3. /\ PrefOrDefault(h) = told[h] /\ told[h] \in Pref
    BY PrefIsTold
  <2>4. /\ pref \in Pref /\ pref.location = told[h].location /\ pref.source = told[h].source
        /\ pref = [told[h] EXCEPT !.units = units]
    BY <2>2, <2>3 DEF WithUnits, Pref
  <2>5. /\ Serialize(pref) \in [flags : SUBSET Flags, location : Locations \cup {None}]
        /\ (IF Serialize(pref) = Blank THEN DefaultPref ELSE Deserialize(Serialize(pref))) = pref
    BY <2>4, RoundTrip
  <2> HIDE DEF pref, units
  <2>6. told' = [told EXCEPT ![h] = pref]
    BY <2>1, <2>4
  <2>7. Say("updated") \in Replies
    BY SayTyped DEF Kinds
  <2>8. TypeOK'
    <3>1. saved' \in [Handles -> [flags : SUBSET Flags, location : Locations \cup {None}]]
      BY <2>1, <2>5 DEF IInv, TypeOK
    <3>2. told' \in [Handles -> Pref]
      BY <2>4, <2>6 DEF IInv, TypeOK
    <3>3. /\ task' = Idle /\ reply' \in Replies /\ report' = None /\ vouched' = vouched
      BY <2>1, <2>7
    <3> QED
      BY <3>1, <3>2, <3>3 DEF IInv, TypeOK, Idle, Stages, Units, Sources, Replies
  <2>9. \A g \in Handles :
           PrefOrDefault(g)' = IF g = h THEN pref ELSE PrefOrDefault(g)
    BY <2>1, <2>5 DEF PrefOrDefault, IInv, TypeOK
  <2>10. ReadsBack'
    BY <2>6, <2>9 DEF ReadsBack, IInv, TypeOK
  <2>11. DefaultReplays'
    <3> SUFFICES ASSUME NEW g \in Handles, PrefOrDefault(g)'.location # None
                 PROVE  /\ vouched[g]'.location = PrefOrDefault(g)'.location
                        /\ vouched[g]'.provider
                             = Route(Classify(PrefOrDefault(g)'.location),
                                     PrefOrDefault(g)'.source)
      BY DEF DefaultReplays
    <3>1. vouched[g]' = vouched[g]
      BY <2>1
    <3>2. /\ PrefOrDefault(g)'.location = PrefOrDefault(g).location
          /\ PrefOrDefault(g)'.source = PrefOrDefault(g).source
      BY <2>3, <2>4, <2>9
    <3> QED
      BY <3>1, <3>2 DEF IInv, DefaultReplays
  <2>12. InFlight'
    BY <2>1 DEF InFlight, Idle
  <2>13. NoInventedFigures'
    BY <2>1 DEF NoInventedFigures, Say
  <2> QED
    BY <2>8, <2>10, <2>11, <2>12, <2>13 DEF IInv
<1> QED
  BY <1>1, <1>2, <1>3, <1>4, <1>5, <1>6

\* A saved default is what was probed.
LEMMA ProbeKeeps ==
  ASSUME IInv, ProbeAnswered
  PROVE  IInv'
<1> DEFINE h == task.whose
           pref == [location |-> task.location, units |-> task.units, source |-> task.source]
<1>1. /\ task.stage = "probing"
      /\ saved' = [saved EXCEPT ![h] = Serialize(pref)]
      /\ told' = [told EXCEPT ![h] = pref]
      /\ vouched' = [vouched EXCEPT ![h] = [location |-> task.location,
                                            provider |-> task.provider]]
      /\ task' = Idle /\ reply' = Say("saved") /\ report' \in Observations
  BY DEF ProbeAnswered, Finish
<1>2. /\ h \in Handles /\ task.location \in Locations /\ task.provider \in Providers
      /\ task.provider = Route(Classify(task.location), task.source)
  BY <1>1 DEF IInv, InFlight
<1>3. /\ pref \in Pref /\ pref.location = task.location /\ pref.source = task.source
  BY <1>2 DEF Pref, IInv, TypeOK
<1>4. /\ Serialize(pref) \in [flags : SUBSET Flags, location : Locations \cup {None}]
      /\ (IF Serialize(pref) = Blank THEN DefaultPref ELSE Deserialize(Serialize(pref))) = pref
  BY <1>3, RoundTrip
<1> HIDE DEF pref, h
<1>5. Say("saved") \in Replies
  BY SayTyped DEF Kinds
<1>6. TypeOK'
  BY <1>1, <1>2, <1>3, <1>4, <1>5 DEF IInv, TypeOK, Idle, Stages, Units, Sources, Replies
<1>7. \A g \in Handles :
         PrefOrDefault(g)' = IF g = h THEN pref ELSE PrefOrDefault(g)
  BY <1>1, <1>4 DEF PrefOrDefault, IInv, TypeOK
<1>8. ReadsBack'
  BY <1>1, <1>2, <1>7 DEF ReadsBack, IInv, TypeOK
<1>9. DefaultReplays'
  <2> SUFFICES ASSUME NEW g \in Handles, PrefOrDefault(g)'.location # None
               PROVE  /\ vouched[g]'.location = PrefOrDefault(g)'.location
                      /\ vouched[g]'.provider
                           = Route(Classify(PrefOrDefault(g)'.location), PrefOrDefault(g)'.source)
    BY DEF DefaultReplays
  <2>1. CASE g = h
    BY <2>1, <1>1, <1>2, <1>3, <1>7 DEF IInv, TypeOK
  <2>2. CASE g # h
    <3>1. PrefOrDefault(g)' = PrefOrDefault(g) /\ vouched[g]' = vouched[g]
      BY <2>2, <1>1, <1>2, <1>7 DEF IInv, TypeOK
    <3> QED
      BY <3>1 DEF IInv, DefaultReplays
  <2> QED
    BY <2>1, <2>2
<1>10. InFlight'
  BY <1>1 DEF InFlight, Idle
<1>11. NoInventedFigures'
  BY <1>1 DEF NoInventedFigures, Say
<1> QED
  BY <1>6, <1>8, <1>9, <1>10, <1>11 DEF IInv

Tasks == [stage : Stages, whose : Handles \cup {Stranger, None},
          location : Locations \cup {None}, provider : Providers \cup {None},
          units : Units, source : Sources, left : 0 .. 3]

\* A request that waits on is still a request.
LEMMA WaitTyped ==
  ASSUME TypeOK, NEW stage \in Stages, NEW left \in 0 .. 3
  PROVE  [task EXCEPT !.stage = stage, !.left = left] \in Tasks
BY DEF TypeOK, Tasks

\* And so does every step of a request.
LEMMA UpstreamKeeps ==
  ASSUME IInv, Upstream
  PROVE  IInv'
<1>0. task.stage # "idle" =>
        /\ task.location \in Locations /\ task.provider \in Providers
        /\ task.units \in Units /\ task.stage \in Stages
  BY DEF IInv, InFlight, TypeOK
<1>1. ASSUME AskFails
      PROVE  IInv'
  <2>1. PICK kind \in {"error", "unexpected"} : Finish(kind)
    BY <1>1 DEF AskFails, Ended
  <2> QED
    BY <2>1, <1>1, SayKeeps DEF AskFails, IInv, TypeOK, Kinds
<1>2. ASSUME AskUseless
      PROVE  IInv'
  BY <1>2, SayKeeps DEF AskUseless, Kinds
<1>3. ASSUME AskAnswered
      PROVE  IInv'
  <2>1. task.stage = "asking" /\ Kept
    BY <1>3 DEF AskAnswered
  <2>2. PICK obs \in Observations :
          /\ report' = obs
          /\ IF Profile[task.provider].mode = "CURRENT"
             THEN /\ task' = [task EXCEPT !.stage = "forecasting",
                                          !.left = Profile[task.provider].forecast.requests]
                  /\ UNCHANGED reply
             ELSE Show(obs)
    BY <1>3 DEF AskAnswered
  <2>3. CASE Profile[task.provider].mode # "CURRENT"
    BY <2>1, <2>2, <2>3, <1>0, ShowTyped, EndKeeps
  <2>4. CASE Profile[task.provider].mode = "CURRENT"
    <3>1. Profile[task.provider].forecast.requests \in 1 .. 3
      BY <1>0, <2>1, <2>4, ForecastsTakeRequests
    <3>2. /\ task' = [task EXCEPT !.stage = "forecasting",
                                  !.left = Profile[task.provider].forecast.requests]
          /\ reply' = reply /\ report' \in Observations
          /\ saved' = saved /\ told' = told /\ vouched' = vouched
      BY <2>1, <2>2, <2>4 DEF Kept
    <3>3. TypeOK'
      <4>1. task' \in Tasks
        <5>1. Profile[task.provider].forecast.requests \in 0 .. 3 /\ "forecasting" \in Stages
          BY <3>1 DEF Stages
        <5> QED
          BY <5>1, <3>2, WaitTyped DEF IInv
      <4> QED
        BY <4>1, <3>2 DEF Tasks, IInv, TypeOK
    <3>4. ReadsBack' /\ DefaultReplays'
      BY <3>2 DEF IInv, ReadsBack, DefaultReplays, PrefOrDefault
    <3>5. InFlight'
      BY <2>1, <3>1, <3>2 DEF IInv, TypeOK, InFlight
    <3>6. NoInventedFigures'
      BY <2>1, <3>2 DEF IInv, InFlight, NoInventedFigures
    <3> QED
      BY <3>3, <3>4, <3>5, <3>6 DEF IInv
  <2> QED
    BY <2>3, <2>4
<1>4. ASSUME ForecastAnswered
      PROVE  IInv'
  <2>1. /\ task.stage = "forecasting" /\ report' = report /\ Kept
        /\ report \in Observations /\ task.left \in 1 .. 3
    BY <1>4 DEF ForecastAnswered, IInv, InFlight
  <2>2. CASE ~(task.left > 1)
    BY <2>1, <2>2, <1>0, <1>4, ShowTyped, EndKeeps DEF ForecastAnswered
  <2>3. CASE task.left > 1
    <3>1. /\ task' = [task EXCEPT !.left = task.left - 1]
          /\ reply' = reply /\ report' = report
          /\ saved' = saved /\ told' = told /\ vouched' = vouched
      BY <2>1, <2>3, <1>4 DEF ForecastAnswered, Kept
    <3>2. TypeOK'
      <4>1. task' \in Tasks
        BY <2>1, <2>3, <3>1 DEF Tasks, IInv, TypeOK
      <4> QED
        BY <4>1, <3>1 DEF Tasks, IInv, TypeOK
    <3>3. ReadsBack' /\ DefaultReplays'
      BY <3>1 DEF IInv, ReadsBack, DefaultReplays, PrefOrDefault
    <3>4. InFlight'
      BY <2>1, <2>3, <3>1 DEF IInv, TypeOK, InFlight
    <3>5. NoInventedFigures'
      BY <2>1, <3>1 DEF IInv, InFlight, NoInventedFigures
    <3> QED
      BY <3>2, <3>3, <3>4, <3>5 DEF IInv
  <2> QED
    BY <2>2, <2>3
<1>5. ASSUME ForecastFails
      PROVE  IInv'
  <2>1. /\ task.stage = "forecasting" /\ report' = report /\ Kept
        /\ report \in Observations
    BY <1>5 DEF ForecastFails, IInv, InFlight
  <2>2. Show(report) \/ Finish("unexpected")
    BY <1>5 DEF ForecastFails
  <2>3. CASE Show(report)
    BY <2>1, <2>3, <1>0, ShowTyped, EndKeeps
  <2>4. CASE Finish("unexpected")
    BY <2>1, <2>4, SayKeeps DEF Kinds
  <2> QED
    BY <2>2, <2>3, <2>4
<1> QED
  BY <1>1, <1>2, <1>3, <1>4, <1>5, ProbeKeeps DEF Upstream

-----------------------------------------------------------------------------
\* The bot starts in the invariant.
LEMMA InitInv ==
  ASSUME Init
  PROVE  IInv
<1>1. Say("none") \in Replies
  BY SayTyped DEF Kinds
<1>2. TypeOK
  BY <1>1 DEF Init, TypeOK, Idle, Stages, Units, Sources, Blank, Untried, DefaultPref, Pref, Replies
<1>3. \A h \in Handles : PrefOrDefault(h) = DefaultPref /\ told[h] = DefaultPref
  BY DEF Init, PrefOrDefault
<1>4. ReadsBack /\ DefaultReplays
  BY <1>3 DEF ReadsBack, DefaultReplays, DefaultPref
<1>5. InFlight /\ NoInventedFigures
  BY DEF Init, Idle, InFlight, NoInventedFigures, Say
<1> QED
  BY <1>2, <1>4, <1>5 DEF IInv

\* The invariant of every behaviour of the bot.
THEOREM Invariance == Spec => []IInv
<1>1. Init => IInv
  BY InitInv
<1>2. IInv /\ [Next]_vars => IInv'
  <2>1. IInv /\ UNCHANGED vars => IInv'
    BY DEF vars, IInv, TypeOK, ReadsBack, DefaultReplays, PrefOrDefault, NoInventedFigures,
           InFlight
  <2> QED
    BY <2>1, CommandKeeps, UpstreamKeeps DEF Next
<1> QED
  BY <1>1, <1>2, PTL DEF Spec

\* Types, for any users, places, texts and observations.
THEOREM TypesHold == Spec => []TypeOK
<1>1. IInv => TypeOK
  BY DEF IInv
<1> QED
  BY <1>1, Invariance, PTL

\* What is stored reads back as what the user's commands have asked for.
THEOREM PreferencesReadBack == Spec => []ReadsBack
<1>1. IInv => ReadsBack
  BY DEF IInv
<1> QED
  BY <1>1, Invariance, PTL

\* A default location goes to the provider that has answered for it.
THEOREM DefaultsReplay == Spec => []DefaultReplays
<1>1. IInv => DefaultReplays
  BY DEF IInv
<1> QED
  BY <1>1, Invariance, PTL

\* No provider but APRS's makes a figure of what its station has not reported.
THEOREM NothingInvented == Spec => []NoInventedFigures
<1>1. IInv => NoInventedFigures
  BY DEF IInv
<1> QED
  BY <1>1, Invariance, PTL

-----------------------------------------------------------------------------
(* How long a command holds up the bot.                                     *)

\* A command starts only where none is under way.
LEMMA CommandsStartIdle ==
  ASSUME Command
  PROVE  task.stage = "idle"
BY DEF Command, Wz, WzReplay, WzUser, WzRefuse, WzsetRefuse, WzsetUnits, Wzset, Ask, Refuse

\* Whatever ends a command leaves no request to make.
LEMMA NoneLeft ==
  ASSUME IInv, task.stage # "idle", task' = Idle
  PROVE  RequestsLeft' \in 0 .. RequestsLeft - 1
<1>1. task'.stage = "idle"
  BY DEF Idle
<1>2. RequestsLeft' = 0
  BY <1>1 DEF RequestsLeft
<1>3. RequestsLeft \in Nat /\ RequestsLeft >= 1
  <2>1. task.stage \in {"asking", "forecasting", "probing"}
    BY DEF IInv, TypeOK, Stages
  <2>2. task.stage = "forecasting" => task.left \in 1 .. 3
    BY DEF IInv, InFlight
  <2> QED
    BY <2>1, <2>2 DEF RequestsLeft
<1> QED
  BY <1>2, <1>3

\* Each answer and each failure uses up one of the requests that are left.
LEMMA UpstreamUsesOne ==
  ASSUME IInv, Upstream, task.stage # "idle"
  PROVE  RequestsLeft' \in 0 .. RequestsLeft - 1
<1>1. CASE AskFails \/ AskUseless \/ ProbeAnswered \/ ForecastFails
  <2>1. task' = Idle
    BY <1>1 DEF AskFails, AskUseless, ProbeAnswered, ForecastFails, Ended, Finish, Show
  <2> QED
    BY <2>1, NoneLeft
<1>2. CASE AskAnswered
  <2>1. task.stage = "asking" /\ task.provider \in Providers
    BY <1>2 DEF AskAnswered, IInv, InFlight
  <2>2. CASE Profile[task.provider].mode # "CURRENT"
    <3>1. task' = Idle
      BY <1>2, <2>2 DEF AskAnswered, Show
    <3> QED
      BY <3>1, NoneLeft
  <2>3. CASE Profile[task.provider].mode = "CURRENT"
    <3>1. Profile[task.provider].forecast.requests \in 1 .. 3
      BY <2>1, <2>3, ForecastsTakeRequests
    <3>2. task' = [task EXCEPT !.stage = "forecasting",
                               !.left = Profile[task.provider].forecast.requests]
      BY <1>2, <2>3 DEF AskAnswered
    <3>3. /\ task'.stage = "forecasting"
          /\ task'.left = Profile[task.provider].forecast.requests
      BY <3>2 DEF IInv, TypeOK
    <3>4. RequestsLeft = 4 /\ RequestsLeft' = task'.left
      BY <2>1, <3>3 DEF RequestsLeft
    <3> QED
      BY <3>1, <3>3, <3>4
  <2> QED
    BY <2>2, <2>3
<1>3. CASE ForecastAnswered
  <2>1. task.stage = "forecasting" /\ task.left \in 1 .. 3
    BY <1>3 DEF ForecastAnswered, IInv, InFlight
  <2>2. CASE task.left > 1
    <3>1. task' = [task EXCEPT !.left = task.left - 1]
      BY <1>3, <2>2 DEF ForecastAnswered
    <3>2. task'.stage = "forecasting" /\ task'.left = task.left - 1
      BY <2>1, <3>1 DEF IInv, TypeOK
    <3>3. RequestsLeft = task.left /\ RequestsLeft' = task.left - 1
      BY <2>1, <3>2 DEF RequestsLeft
    <3> QED
      BY <2>1, <3>3
  <2>3. CASE ~(task.left > 1)
    <3>1. task' = Idle
      BY <1>3, <2>3 DEF ForecastAnswered, Show
    <3> QED
      BY <3>1, NoneLeft
  <2> QED
    BY <2>2, <2>3
<1> QED
  BY <1>1, <1>2, <1>3 DEF Upstream

\* A .wz takes four requests at most and a .wzset one, whatever comes of them.
THEOREM CommandsBounded == Spec => CommandsAreBounded
<1>1. IInv /\ [Next]_vars => [task.stage # "idle" => RequestsLeft' \in 0 .. RequestsLeft - 1]_vars
  BY CommandsStartIdle, UpstreamUsesOne DEF Next
<1> QED
  BY <1>1, Invariance, PTL DEF Spec, CommandsAreBounded

=============================================================================
