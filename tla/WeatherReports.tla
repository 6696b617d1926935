---------------------------- MODULE WeatherReports ----------------------------
(***************************************************************************)
(* What becomes of a weather service's response: each provider's parser    *)
(* makes figures of the readings it finds, or fails, and the formatter of  *)
(* the provider's mode shows them (providers/*.py, formatter.py).          *)
(***************************************************************************)
EXTENDS WeatherRouting

\* A reading is missing, present without a value, zero, or some value; the
\* airports' "10+" says that one can see beyond ten miles.
Readings == {"absent", "null", "zero", "some", "beyond"}
Missing == {"absent", "null"}
Figures == {"none", "zero", "some", "beyond"}
Shown == Figures \cup {"unshown"}

\* A slip: what aprs.py takes for zero is taken for zero everywhere.
AssumedZeroLikeAprs(p) == Aprs.parser.zero

AssumedZero(p) == Profile[p].parser.zero

Unparsable(p, obs) ==
    \E f \in Fields : \/ obs[f] = "absent" /\ f \in Profile[p].parser.absent
                      \/ obs[f] = "null" /\ f \in Profile[p].parser.null

\* No visibility and a visibility of zero both become None, like "10+".
Parsed(p, obs) ==
    [f \in Fields |->
        IF f \notin Profile[p].parser.reads \/ (p = "avwx" /\ f = "vis" /\ obs[f] # "some") THEN "none"
        ELSE IF obs[f] \notin Missing THEN obs[f]
        ELSE IF f \in AssumedZero(p) THEN "zero"
        ELSE "none"]

\* The fields a line of each mode shows when there is a figure for them.
Optional == [ CURRENT |-> {"feels", "humidity"},
              PWS     |-> {"feels", "humidity", "gust", "rain", "event"},
              METAR   |-> {} ]
Always == [ CURRENT |-> {"temp", "wind"},
            PWS     |-> {"temp", "wind"},
            METAR   |-> {"temp", "wind", "vis", "raw"} ]

\* The formatter raises on a None it prints as a number, and on a METAR
\* without its raw text.
Unprintable(mode, fig) == \E f \in Always[mode] \ {"vis"} : fig[f] = "none"

\* The event's rain is told only on a day with rain.
ShownFields(mode, fig) ==
    Always[mode] \cup {f \in Optional[mode] : fig[f] # "none"
                                              /\ (f = "event" => fig["rain"] = "some")}

\* A METAR line without a visibility says "> 10 SM".
Line(mode, fig) ==
    [f \in Fields |->
        IF f \notin ShownFields(mode, fig) THEN "unshown"
        ELSE IF f = "vis" /\ fig[f] = "none" THEN "beyond"
        ELSE fig[f]]

-----------------------------------------------------------------------------
(* How a request can fail.                                                  *)

\* A parser turns most failures into a ProviderError ("error"); what it lets
\* through ("raise") ends the command.
Outcomes(p, failure) ==
    IF failure = "broken" THEN {"raise"}
    ELSE {"error"} \cup (IF failure \in Profile[p].escapes THEN {"raise"} ELSE {})

\* A forecast may also come hollow: what is missing is then printed or asked for.
ForecastOutcomes(p, left, failure) ==
    LET forecast == Profile[p].forecast IN
    IF failure = "hollow"
    THEN {IF left \in forecast.hollow THEN "raise" ELSE "error"}
    ELSE IF failure = "misshapen" /\ left \in forecast.tolerant THEN {"error"}
    ELSE Outcomes(p, failure)

=============================================================================
