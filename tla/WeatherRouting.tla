---------------------------- MODULE WeatherRouting ----------------------------
(***************************************************************************)
(* How Xerokewl's weather bot finds out what place a user means            *)
(* (resolver.py) and which provider to ask about it (router.py).           *)
(***************************************************************************)
EXTENDS WeatherProviders, Integers, Sequences

CONSTANTS Locations,   \* the places users write
          Looks,       \* which of the resolver's patterns each text matches
          None         \* no location, no provider, nobody

\* The resolver's patterns in the order it tries them.  They overlap: a ZIP
\* code and an airport code also look like a station ID.
Patterns == <<"AMBIENT_URL", "AMBIENT_SLUG", "ZIP", "APRS", "ICAO", "IATA", "NWS_STATION">>

ASSUME LooksAssumption == Looks \in [Locations -> SUBSET {Patterns[i] : i \in DOMAIN Patterns}]

\* The first element of a sequence that lies in a set.
FirstIn(seq, S) ==
    seq[CHOOSE i \in DOMAIN seq :
            seq[i] \in S /\ \A j \in DOMAIN seq : seq[j] \in S => i <= j]

\* What matches no pattern is taken for the name of a city.
Classify(l) == IF Looks[l] = {} THEN "CITY_STATE" ELSE FirstIn(Patterns, Looks[l])

-----------------------------------------------------------------------------
\* The providers in the order they are registered.
Registered == <<"weatherapi", "avwx", "aprs", "awn", "nws">>

\* Where a query goes: "auto" leaves it to the router, "metar" insists on an
\* airport report (--metar), a provider's id insists on it (--<provider>).
Sources == {"auto", "metar"} \cup Providers

Able(type) == {p \in Providers : type \in Profile[p].supports}
Owners(type) == {p \in Providers : type \in Profile[p].owns}

\* The provider to ask, or None if the router raises a ProviderError.
Route(type, source) ==
    IF source \in Providers
    THEN IF source \in Able(type) THEN source ELSE None
    ELSE IF (source = "metar") # (type = "ICAO")
    THEN None
    ELSE FirstIn(Registered, IF Owners(type) # {} THEN Owners(type) ELSE Able(type))

=============================================================================
