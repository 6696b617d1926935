---------------------------- MODULE MCWeatherBot ----------------------------
(***************************************************************************)
(* WeatherBot with two users: an airport whose code three patterns match   *)
(* and three providers can be asked about, a station of the NWS and two    *)
(* personal ones, and the observations that parsers and formatters treat   *)
(* differently.                                                            *)
(***************************************************************************)
EXTENDS WeatherBot, TLC

CONSTANTS h1, h2, KSFO, BNDC1, slug, cwop

MCLooks == KSFO :> {"ICAO", "NWS_STATION"} @@ BNDC1 :> {"NWS_STATION"}
           @@ slug :> {"AMBIENT_SLUG"} @@ cwop :> {"APRS"}

Plain(flags, location) == [flags |-> flags, user |-> None, location |-> location, via |-> "channel"]
About(flags, user, via) == [flags |-> flags, user |-> user, location |-> None, via |-> via]

MCTexts ==
    {Plain(flags, None) : flags \in {{}, {"metric"}, {"imperial"}, Units, {"nws"}, {"metar"}}}
    \cup {Plain(flags, KSFO) : flags \in {{}, {"metar"}, {"metar", "imperial"}, {"nws", "weatherapi"},
                                          {"nws", "imperial"}, {"metar", "nws"}}}
    \cup {Plain(flags, BNDC1) : flags \in {{}, {"nws"}, {"imperial"}, {"metar"}, {"unknown"}}}
    \cup {Plain(flags, slug) : flags \in {{}, {"imperial"}, {"awn", "imperial"}}}
    \cup {Plain({}, cwop)}
    \cup {About({}, h1, "channel"), About({"imperial"}, h1, "channel"), About({"nws"}, h1, "channel"),
          About({}, Stranger, "channel"), About({}, h1, "private")}

\* Everything reported, and observations that differ from it in some fields.
Full == [f \in Fields |-> "some"]
MCObservations ==
    {Full,
     [Full EXCEPT !["vis"] = "beyond", !["humidity"] = "null", !["gust"] = "absent"],
     [Full EXCEPT !["vis"] = "zero", !["rain"] = "zero", !["temp"] = "zero"],
     [Full EXCEPT !["temp"] = "null", !["vis"] = "null"],
     [Full EXCEPT !["temp"] = "absent", !["rain"] = "absent"],
     [Full EXCEPT !["raw"] = "absent", !["feels"] = "null", !["vis"] = "absent"],
     [Full EXCEPT !["feels"] = "absent", !["wind"] = "absent", !["event"] = "absent"]}

=============================================================================
