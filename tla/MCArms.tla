-------------------------------- MODULE MCArms --------------------------------
(***************************************************************************)
(* An instance of Arms for TLC: two-hour days, three-day months, a period  *)
(* of two or three days that may be of two months, a prototype that, as    *)
(* the repository's, asks for the facility and cooling meters hourly, and  *)
(* two zones of one zone list on shared schedules.                         *)
(***************************************************************************)
EXTENDS Arms

OfficePrototype ==
  [zoneLists |-> [offices |-> {"core", "perimeter"}],
   controls |-> <<[reference |-> "offices", thermostat |-> "dual"],
                  [reference |-> "attic", thermostat |-> "none"]>>,
   thermostats |-> [dual |-> [heat |-> "heating", cool |-> "cooling"]],
   schedules |-> [heating |-> [form |-> "compact", values |-> {16, 21}],
                  cooling |-> [form |-> "compact", values |-> {24, 27, 99}],
                  lights |-> [form |-> "compact", values |-> {1}]],
   people |-> <<[name |-> "core people", reference |-> "core", fanger |-> FALSE],
                [name |-> "all people", reference |-> "core", fanger |-> FALSE]>>,
   variables |-> {[key |-> "*", variable |-> "temp", every |-> "hour"]},
   meters |-> {[name |-> "facility", every |-> "hour"], [name |-> "cooling", every |-> "hour"]},
   sqlite |-> TRUE, period |-> "annual", steps |-> 4, weather |-> FALSE]

WeatherHours == <<20, 30, 33, 31, 29, 28>>
HourPrices == [h \in {0, 1} |-> 1 + 2 * h]
HourCarbon == [h \in {0, 1} |-> 3 - h]
RunRequests ==
  {[start |-> NoStart, days |-> 1, steps |-> 2, secondary |-> "constant"],
   [start |-> NoStart, days |-> 3, steps |-> 2, secondary |-> "constant"],
   [start |-> 2, days |-> 2, steps |-> 2, secondary |-> "none"],
   [start |-> 0, days |-> 0, steps |-> 2, secondary |-> "other"]}
Use(pattern) == [facility |-> [i \in 1 .. 12 |-> pattern[1 + (i % 3)]],
                 cooling |-> [i \in 1 .. 12 |-> pattern[1 + ((i + 1) % 3)]],
                 pumps |-> [i \in 1 .. 12 |-> 0]]
Buildings == {Use(<<2, 1, 0>>), Use(<<1, 5, 1>>), Use(<<3, 3, 3>>)}
OccupiedSteps == {2, 3, 4, 7}
DiscomfortSteps == {3, 7, 8}
ZoneVars == {"temp", "occupancy"}
PeopleVars == {"pmv"}
AllMeters == {"facility", "cooling", "pumps"}
Hvac == {"cooling", "pumps"}

\* What the theorem on the hours of comfort assumes holds of this prototype.
ASSUME MeteredByTheTimestep == ComfortMetered
=============================================================================
