--------------------------- MODULE WeatherProviders ---------------------------
(***************************************************************************)
(* What each weather provider says of itself and does with a response      *)
(* (weather/providers/*.py).                                               *)
(*   supports, owns  the location types it can be asked about, and those   *)
(*                   it is preferred for                                   *)
(*   mode            the formatter of its results                          *)
(*   parser          the readings it looks at; those whose absence, or     *)
(*                   whose null, makes it give up with a ProviderError;    *)
(*                   those it takes for zero when they are missing         *)
(*   escapes         the failures that it may let through as some other    *)
(*                   exception than a ProviderError                        *)
(*   forecast        how many requests a forecast takes; counted from the  *)
(*                   last one, those whose hollow response (without its    *)
(*                   figures, its URL or its place) raises, and those that *)
(*                   catch whatever they stumble on                        *)
(***************************************************************************)

LocationTypes == {"ZIP", "CITY_STATE", "IATA", "ICAO", "AMBIENT_SLUG", "AMBIENT_URL",
                  "APRS", "NWS_STATION"}

\* What a station may measure, as far as the replies tell it apart.
Fields == {"temp", "feels", "humidity", "wind", "gust", "vis", "rain", "event", "raw"}

\* refused: another status than 200, or no such station; no_json: no JSON at
\* all; foreign: JSON without the keys the parser needs; misshapen: something
\* else where an object or a text is expected; broken: any failure of requests
\* other than a timeout or a lost connection, such as a response cut off.
Failures == {"timeout", "unreachable", "broken", "refused", "no_json", "foreign", "misshapen"}

NoForecast == [requests |-> 0, hollow |-> {}, tolerant |-> {}]

WeatherApi ==
    [ supports |-> LocationTypes,
      owns     |-> {},
      mode     |-> "CURRENT",
      parser   |-> [ reads  |-> {"temp", "feels", "humidity", "wind", "gust", "vis"},
                     absent |-> {"temp", "feels", "humidity", "wind", "vis"},
                     null   |-> {},
                     zero   |-> {} ],
      escapes  |-> {"broken", "misshapen"},
      forecast |-> [requests |-> 1, hollow |-> {1}, tolerant |-> {}] ]

\* The only one that never calls a method of what it parses.  A raw report that is
\* no text gets past the parser like a null one, and the formatter raises on both.
AvWx ==
    [ supports |-> {"ICAO"},
      owns     |-> {"ICAO"},
      mode     |-> "METAR",
      parser   |-> [ reads  |-> {"temp", "humidity", "wind", "gust", "vis", "raw"},
                     absent |-> {"temp"},
                     null   |-> {"temp"},
                     zero   |-> {"wind"} ],
      escapes  |-> {"broken"},
      forecast |-> NoForecast ]

\* It reads data["found"] outside of its try.
Aprs ==
    [ supports |-> {"APRS"},
      owns     |-> {"APRS"},
      mode     |-> "PWS",
      parser   |-> [ reads  |-> {"temp", "humidity", "wind", "gust", "rain"},
                     absent |-> {},
                     null   |-> {"humidity"},
                     zero   |-> {"temp", "humidity", "wind", "rain"} ],
      escapes  |-> {"broken", "foreign", "misshapen"},
      forecast |-> NoForecast ]

Ambient ==
    [ supports |-> {"AMBIENT_SLUG", "AMBIENT_URL"},
      owns     |-> {"AMBIENT_SLUG", "AMBIENT_URL"},
      mode     |-> "PWS",
      parser   |-> [ reads  |-> {"temp", "feels", "humidity", "wind", "gust", "rain", "event"},
                     absent |-> {"temp", "feels", "humidity", "wind"},
                     null   |-> {"temp", "feels", "humidity", "wind"},
                     zero   |-> {} ],
      escapes  |-> {"broken", "misshapen"},
      forecast |-> NoForecast ]

NwsParser ==
    [ reads  |-> {"temp", "feels", "humidity", "wind", "gust", "vis"},
      absent |-> {"temp"},
      null   |-> {"temp"},
      zero   |-> {"wind"} ]

\* The station's place, the forecast's URL (a null one is asked for) and the
\* forecast; the place is parsed in a try that catches everything.
NwsForecast == [requests |-> 3, hollow |-> {2}, tolerant |-> {3}]

Nws ==
    [ supports |-> {"NWS_STATION", "ICAO"},
      owns     |-> {},
      mode     |-> "CURRENT",
      parser   |-> NwsParser,
      escapes  |-> {"broken", "misshapen"},
      forecast |-> NwsForecast ]

Profile == [weatherapi |-> WeatherApi, avwx |-> AvWx, aprs |-> Aprs, awn |-> Ambient, nws |-> Nws]
Providers == {"weatherapi", "avwx", "aprs", "awn", "nws"}

=============================================================================
