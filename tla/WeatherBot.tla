------------------------------ MODULE WeatherBot ------------------------------
(***************************************************************************)
(* Xerokewl's weather bot (weather.py, weather/prefs.py): .wz shows the    *)
(* weather at a place, at one's own default or at somebody else's;  .wzset *)
(* asks the provider about a place before it makes it the default.  The    *)
(* handlers run on eggdrop's only thread and wait for every response, so   *)
(* one command is under way at a time.  Eggdrop's user records are         *)
(* external: a map from handles to the stored texts.                       *)
(***************************************************************************)
EXTENDS WeatherReports

CONSTANTS Handles,       \* the users the bot knows
          Stranger,      \* "*", the handle of everybody else
          Texts,         \* what users write after a command
          Observations   \* what stations report

VARIABLES saved,     \* per handle the text stored under "weather-pref"
          task,      \* the command under way
          report,    \* what the station has answered it
          reply,     \* what the last command was answered
          told,      \* per handle what its .wzset commands have asked for
          vouched    \* per handle the place and the provider .wzset has tried

vars == <<saved, task, report, reply, told, vouched>>

Units == {"metric", "imperial"}
Flags == Providers \cup Units \cup {"metar", "unknown"}

\* A text as the parsers split it: flags, the name after --user, a location.
Text == [flags : SUBSET Flags, user : Handles \cup {Stranger, None},
         location : Locations \cup {None}, via : {"channel", "private"}]

ASSUME TextsAssumption == Texts \subseteq Text
ASSUME ObservationsAssumption == Observations \subseteq [Fields -> Readings]
ASSUME NoneAssumption == None \notin Locations \cup Handles \cup {Stranger} \cup Providers
                         /\ Stranger \notin Handles

Pref == [location : Locations \cup {None}, units : Units, source : Sources]
DefaultPref == [location |-> None, units |-> "metric", source |-> "auto"]

Stages == {"idle", "asking", "forecasting", "probing"}
Idle == [stage |-> "idle", whose |-> None, location |-> None, provider |-> None,
         units |-> "metric", source |-> "auto", left |-> 0]

Kinds == {"none", "refused", "unrouted", "error", "unexpected", "weather", "updated", "saved"}
Unshown == [f \in Fields |-> "unshown"]
Say(kind) == [kind |-> kind, provider |-> None, units |-> "metric", figures |-> Unshown]
Untried == [location |-> None, provider |-> None]

-----------------------------------------------------------------------------
(* The stored preferences.                                                  *)

\* A slip: the units are only written where no provider is.
SerializeOneFlag(pref) ==
    [flags    |-> IF pref.source = "auto" THEN {pref.units} \ {"metric"} ELSE {pref.source},
     location |-> pref.location]

\* A text of flags and a location.  The defaults leave no flag behind.
Serialize(pref) == [flags    |-> {pref.source, pref.units} \ {"auto", "metric"},
                    location |-> pref.location]
Blank == [flags |-> {}, location |-> None]

Deserialize(text) ==
    [location |-> text.location,
     units    |-> IF "imperial" \in text.flags THEN "imperial" ELSE "metric",
     source   |-> IF text.flags \cap Sources = {} THEN "auto"
                  ELSE CHOOSE s \in text.flags \cap Sources : TRUE]

\* A blank text is no preference at all, for which the handlers take the default.
PrefOrDefault(h) == IF saved[h] = Blank THEN DefaultPref ELSE Deserialize(saved[h])
UnitsOf(h) == IF h = Stranger THEN "metric" ELSE PrefOrDefault(h).units

HasDefault(h) == h \in Handles /\ PrefOrDefault(h).location # None

-----------------------------------------------------------------------------
(* What a text asks for.                                                    *)

Contradictory(t) == \/ "unknown" \in t.flags
                    \/ Units \subseteq t.flags
                    \/ "metar" \in t.flags /\ t.flags \cap Providers # {}

\* The last of several providers is taken.
GivenSources(t) == IF t.flags \cap Sources = {} THEN {"auto"} ELSE t.flags \cap Sources

GivenUnits(t) == IF t.flags \cap Units = {} THEN "unsaid" ELSE CHOOSE u \in t.flags \cap Units : TRUE

\* A slip: the caller's default is forgotten.
UnitsAsGiven(given, default) == given
UnitsOr(given, default) == IF given = "unsaid" THEN default ELSE given

-----------------------------------------------------------------------------
Init ==
    /\ saved = [h \in Handles |-> Blank]
    /\ task = Idle
    /\ report = None
    /\ reply = Say("none")
    /\ told = [h \in Handles |-> DefaultPref]
    /\ vouched = [h \in Handles |-> Untried]

Kept == UNCHANGED <<saved, told, vouched>>
Finish(kind) == task' = Idle /\ reply' = Say(kind)
Refuse == task.stage = "idle" /\ Finish("refused") /\ report' = None /\ Kept

\* The router names the provider of a command, or refuses.
Ask(stage, whose, location, units, source) ==
    LET provider == Route(Classify(location), source) IN
    /\ task.stage = "idle"
    /\ IF provider = None
       THEN Finish("unrouted")
       ELSE /\ task' = [stage |-> stage, whose |-> whose, location |-> location,
                        provider |-> provider, units |-> units, source |-> source,
                        left |-> 0]
            /\ reply' = Say("none")
    /\ report' = None
    /\ Kept

\* .wz: what the handler turns down before it looks for a place.
WzRefused(t) ==
    \/ t.user # None /\ t.via = "private"
    \/ Contradictory(t)
    \/ t.user # None /\ t.location # None
    \/ t.user = None /\ t.location = None /\ t.flags \cap Providers # {}

\* .wz <location>, in one's saved units unless the text names some.
Wz(h, t) ==
    /\ ~WzRefused(t)
    /\ t.location # None
    /\ \E source \in GivenSources(t) :
          Ask("asking", h, t.location, UnitsOr(GivenUnits(t), UnitsOf(h)), source)

\* .wz alone replays one's whole preference, whatever flags come with it.
WzReplay(h, t) ==
    /\ ~WzRefused(t)
    /\ t.user = None /\ t.location = None
    /\ HasDefault(h)
    /\ Ask("asking", h, PrefOrDefault(h).location, UnitsOf(h), PrefOrDefault(h).source)

\* .wz --user replays somebody else's, except for a provider or units it names.
WzUser(t) ==
    /\ ~WzRefused(t)
    /\ HasDefault(t.user)
    /\ \E given \in GivenSources(t) :
          Ask("asking", t.user, PrefOrDefault(t.user).location,
              UnitsOr(GivenUnits(t), UnitsOf(t.user)),
              IF given \in Providers THEN given ELSE PrefOrDefault(t.user).source)

WzRefuse(h, t) ==
    /\ \/ WzRefused(t)
       \/ t.user # None /\ ~HasDefault(t.user)
       \/ t.user = None /\ t.location = None /\ ~HasDefault(h)
    /\ Refuse

\* .wzset knows no --user; an airport's code is the only place --metar goes with.
WzsetRefused(h, t) ==
    \/ h = Stranger
    \/ t.flags = {} /\ t.location = None
    \/ t.user # None \/ Contradictory(t)
    \/ t.location = None /\ t.flags \cap Sources # {}
    \/ "metar" \in t.flags /\ t.location # None /\ Classify(t.location) # "ICAO"

WzsetRefuse(h, t) == WzsetRefused(h, t) /\ Refuse

\* A slip: the preference is built anew from its location.
UnitsAfresh(pref, units) == [DefaultPref EXCEPT !.location = pref.location, !.units = units]
WithUnits(pref, units) == [pref EXCEPT !.units = units]

\* .wzset --metric or --imperial alone changes the units and nothing else.
WzsetUnits(h, t) ==
    LET units == UnitsOr(GivenUnits(t), "metric") IN
    /\ ~WzsetRefused(h, t)
    /\ task.stage = "idle" /\ t.location = None
    /\ saved' = [saved EXCEPT ![h] = Serialize(WithUnits(PrefOrDefault(h), units))]
    /\ told' = [told EXCEPT ![h].units = units]
    /\ Finish("updated")
    /\ report' = None
    /\ UNCHANGED vouched

\* .wzset <location> asks the provider first.
Wzset(h, t) ==
    /\ ~WzsetRefused(h, t)
    /\ t.location # None
    /\ \E source \in GivenSources(t) :
          Ask("probing", h, t.location, UnitsOr(GivenUnits(t), "metric"), source)

Command == \E t \in Texts :
              \/ \E h \in Handles \cup {Stranger} :
                    Wz(h, t) \/ WzReplay(h, t) \/ WzRefuse(h, t) \/ WzsetRefuse(h, t)
              \/ WzUser(t)
              \/ \E h \in Handles : WzsetUnits(h, t) \/ Wzset(h, t)

-----------------------------------------------------------------------------
(* Waiting for a provider.                                                  *)

Ended(outcome) == Finish(IF outcome = "error" THEN "error" ELSE "unexpected")

\* No response, or none a parser makes sense of.
AskFails ==
    /\ task.stage \in {"asking", "probing"}
    /\ \E failure \in Failures : \E outcome \in Outcomes(task.provider, failure) : Ended(outcome)
    /\ UNCHANGED report /\ Kept

\* An observation without what its provider cannot do without.
AskUseless ==
    /\ task.stage \in {"asking", "probing"}
    /\ \E obs \in Observations :
          Unparsable(task.provider, obs) /\ report' = obs
    /\ Finish("error") /\ Kept

\* The line is sent, unless the formatter raises.
Show(obs) ==
    LET mode == Profile[task.provider].mode
        fig == Parsed(task.provider, obs)
    IN /\ task' = Idle
       /\ reply' = IF Unprintable(mode, fig) THEN Say("unexpected")
                   ELSE [kind |-> "weather", provider |-> task.provider, units |-> task.units,
                         figures |-> Line(mode, fig)]

\* What shows the current weather asks for a forecast as well.
AskAnswered ==
    /\ task.stage = "asking"
    /\ \E obs \in Observations :
          /\ ~Unparsable(task.provider, obs)
          /\ report' = obs
          /\ IF Profile[task.provider].mode = "CURRENT"
             THEN /\ task' = [task EXCEPT !.stage = "forecasting",
                                          !.left = Profile[task.provider].forecast.requests]
                  /\ UNCHANGED reply
             ELSE Show(obs)
    /\ Kept

ForecastAnswered ==
    /\ task.stage = "forecasting"
    /\ IF task.left > 1
       THEN task' = [task EXCEPT !.left = @ - 1] /\ UNCHANGED reply
       ELSE Show(report)
    /\ UNCHANGED report /\ Kept

\* A slip: a forecast that fails is asked for again.
ForecastAgain ==
    /\ task.stage = "forecasting"
    /\ task' = [task EXCEPT !.left = Profile[task.provider].forecast.requests]
    /\ UNCHANGED <<reply, report>> /\ Kept

\* The weather is shown without its forecast, unless the failure gets through.
ForecastFails ==
    /\ task.stage = "forecasting"
    /\ \E failure \in Failures \cup {"hollow"} :
          \E outcome \in ForecastOutcomes(task.provider, task.left, failure) :
             IF outcome = "error" THEN Show(report) ELSE Finish("unexpected")
    /\ UNCHANGED report /\ Kept

\* The place becomes the default; units the text left out become metric.
ProbeAnswered ==
    LET h == task.whose
        pref == [location |-> task.location, units |-> task.units, source |-> task.source]
    IN /\ task.stage = "probing"
       /\ \E obs \in Observations : ~Unparsable(task.provider, obs) /\ report' = obs
       /\ saved' = [saved EXCEPT ![h] = Serialize(pref)]
       /\ told' = [told EXCEPT ![h] = pref]
       /\ vouched' = [vouched EXCEPT ![h] = [location |-> task.location,
                                             provider |-> task.provider]]
       /\ Finish("saved")

Upstream == \/ AskFails
            \/ AskUseless
            \/ AskAnswered
            \/ ForecastAnswered
            \/ ForecastFails
            \/ ProbeAnswered

Next == Command \/ Upstream

Spec == Init /\ [][Next]_vars

\* Every request has a timeout, and the handler goes on once it has run out.
FairSpec == Spec /\ WF_vars(Upstream)

-----------------------------------------------------------------------------
TypeOK ==
    /\ saved \in [Handles -> [flags : SUBSET Flags, location : Locations \cup {None}]]
    /\ task \in [stage : Stages, whose : Handles \cup {Stranger, None},
                 location : Locations \cup {None}, provider : Providers \cup {None},
                 units : Units, source : Sources, left : 0 .. 3]
    /\ report \in Observations \cup {None}
    /\ reply \in [kind : Kinds, provider : Providers \cup {None}, units : Units,
                  figures : [Fields -> Shown]]
    /\ told \in [Handles -> Pref]
    /\ vouched \in [Handles -> [location : Locations \cup {None}, provider : Providers \cup {None}]]

\* Whatever was written, overwritten and left blank in between, the stored text
\* reads back as what the user's .wzset commands have asked for (prefs.py).
ReadsBack == \A h \in Handles : PrefOrDefault(h) = told[h]

\* A default location is only stored after a provider has answered for it, and
\* a replay goes to that provider however the preference was changed since
\* (the probe of _handle_wzset_impl, the replay of _do_fetch_weather).
DefaultReplays ==
    \A h \in Handles :
        LET pref == PrefOrDefault(h) IN
        pref.location # None =>
            /\ vouched[h].location = pref.location
            /\ vouched[h].provider = Route(Classify(pref.location), pref.source)

\* The temperatures, the humidity, the gusts and the rain of the line were
\* reported: missing ones are left out or make an error.  Only APRS's are taken
\* for zero (the five _parse_obs and the three formatters).
NoInventedFigures ==
    (reply.kind = "weather" /\ reply.provider # "aprs") =>
        \A f \in Fields \ {"wind", "vis"} :
            reply.figures[f] # "unshown" => report[f] \notin Missing

\* avwx.py reads "10+" as a visibility greater than 10 miles: that is what
\* the line of format_metar says of a station that has reported it.
BeyondWasReported ==
    (reply.kind = "weather" /\ reply.figures["vis"] = "beyond") => report["vis"] = "beyond"

\* How many more requests a command makes at most: the station's and up to
\* three for the forecast.
RequestsLeft ==
    CASE task.stage = "idle"        -> 0
      [] task.stage = "probing"     -> 1
      [] task.stage = "asking"      -> 4
      [] task.stage = "forecasting" -> task.left

\* Whatever the providers answer and however they fail, a command holds up the
\* bot's only thread for at most four requests, and a .wzset for one.
CommandsAreBounded ==
    [][ task.stage # "idle" => RequestsLeft' \in 0 .. RequestsLeft - 1 ]_vars

\* Every command gets its answer: no failure of a provider, however odd, and
\* no failure of a forecast leaves the user waiting (the handlers' except).
CommandsAnswered == (task.stage # "idle") ~> (task.stage = "idle" /\ reply.kind # "none")

=============================================================================
