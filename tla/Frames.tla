------------------------------- MODULE Frames -------------------------------
(* From the answer of the station to the entities: transform_data of both   *)
(* generations, and the listeners the core then calls one after the other   *)
(* in a bare loop, so that one which raises silences the rest.  A value is  *)
(* the class it belongs to; what matters of it is what Python's float() and *)
(* int() and the checks of the core make of it.                             *)
EXTENDS CoordinatorView, Integers, FiniteSets

CONSTANT MaxDamaged   \* bound: fields of one answer that are not as usual

ASSUME FramesAssumption ==
  /\ MaxDamaged \in Nat
  /\ None \notin STRING /\ Absent \notin STRING /\ None # Absent

VARIABLES
  model,   \* the generation of the station
  raw,     \* the latest answer
  clock,   \* what the clock of the station showed in it, and when
  heard,   \* the listeners the latest poll reached
  kept,    \* what the daily sensors count from: _baseline and _prev
  shown,   \* what every entity shows
  usual    \* history: what it shows of an answer that is as usual

frameVars == <<lastOk, model, raw, clock, heard, kept, shown, usual>>

Fields ==
  {"sessionTime", "voltMeas1", "curMeas1", "powerMeas", "sessionEnergy", "totalEnergy",
   "temperature1", "curDesign", "minCurrent", "gridRange", "state", "subState", "aiStatus",
   "aiModecurrent", "evseEnabled", "systemTime", "timeMsg", "timeZone"}

\* A number as text; a float whose square overflows; the temperature of a
\* sensor that is missing; the code of the error state of V2; other numbers.
Numbers == {"numeral", "huge", "sentinel", "seven", "zero", "number"}

\* Besides them the key may be missing or null; or there is text, a list or an
\* object, full or empty; the token NaN, which stands for Infinity too, or
\* -Infinity; an integer no float can hold; a wall clock.
Garbage == {"text", "nan", "neginf", "bigint", "clock"}

Values == {Absent, None} \cup Garbage \cup Numbers

\* V1 has no such fields; its power is derived.
OfV2 == {"powerMeas", "minCurrent", "gridRange", "subState", "timeMsg", "timeZone"}

Usual(m) ==
  [f \in Fields |->
     IF m = "v1" /\ f \in OfV2 THEN Absent
     ELSE IF m = "v1" /\ f = "systemTime" THEN "clock"
     ELSE IF f \in {"timeMsg", "gridRange"} THEN "zero" ELSE "number"]

Sent(m) == {f \in Fields : Usual(m)[f] # Absent}

\* An answer with some of its fields replaced.
Replacing(r, b) == [f \in Fields |-> IF f \in DOMAIN b THEN b[f] ELSE r[f]]

-----------------------------------------------------------------------------
\* Plausible bug: NaN and the infinities survive float().
AsFloatAny(v) == IF v \in Numbers \cup {"nan", "neginf"} THEN v ELSE None

\* as_float: a finite number or nothing.
AsFloat(v) == IF v \in Numbers THEN v ELSE None

\* as_enum_int: int() takes large numbers, and text that is a number.
AsEnumInt(v) ==
  IF v = "numeral" THEN "number"
  ELSE IF v \in Numbers \cup {"bigint"} THEN v ELSE None

\* A code through a map with these keys; a missing field counts as zero.
Mapped(v, keys) ==
  LET code == IF v = Absent THEN "zero" ELSE AsEnumInt(v)
  IN IF code \in keys THEN code ELSE "unknown"

StateKeys(m) == IF m = "v2" THEN {"zero", "number", "seven"} ELSE {"zero", "number"}

\* blank_absent_temperature.  It converts with float(), but does not expect
\* what that raises for an integer it cannot hold.
BlankRaises(v) == v = "bigint"

Blanked(v) == IF v \in {"sentinel", "neginf"} THEN None ELSE v

\* _drop_unparseable_numerics: what is no number goes, a null stays.
Validated(v) == IF v # None /\ AsFloat(v) = None THEN Absent ELSE v

\* _set_or_drop of a rescaled reading.
SetOrDrop(v) == IF AsFloat(v) = None THEN Absent ELSE "number"

\* numeric_fields, temperatures apart.
NumericFields(m) ==
  {"sessionTime", "curDesign", "aiModecurrent"} \cup
  (IF m = "v2"
   THEN {"voltMeas1", "curMeas1", "powerMeas", "sessionEnergy", "totalEnergy", "minCurrent"}
   ELSE {})

\* The power of V1 is a product of two readings, checked once more.
Power(r) ==
  IF \/ None \in {AsFloat(r["voltMeas1"]), AsFloat(r["curMeas1"])}
     \/ r["voltMeas1"] = "huge" /\ r["curMeas1"] = "huge"
  THEN Absent ELSE "number"

\* V1 sends a wall clock.
ClockOfV1(v) ==
  IF v \in {None, Absent} THEN v ELSE IF v = "clock" THEN "datetime" ELSE None

\* V2 sends an epoch of its local time, void while timeMsg is one.
ClockOfV2(r) ==
  LET Whole == Numbers \ {"huge"}
  IN IF AsEnumInt(r["timeMsg"]) = "number" THEN None
     ELSE IF r["systemTime"] \in {None, Absent} THEN r["systemTime"]
     ELSE IF r["systemTime"] \in Whole /\ r["timeZone"] \in Whole \cup {Absent} THEN "datetime"
     ELSE None

\* subState of V2 is a fault or a limit, by a state that could be read; the
\* pair stands for the name the map has for it.
SubState(r) ==
  LET sub == IF r["subState"] \in {None, Absent} THEN "unknown"
             ELSE Mapped(r["subState"], {"zero", "number", "seven"})
  IN IF sub = "unknown" \/ (r["state"] # Absent /\ AsEnumInt(r["state"]) = None)
     THEN [map |-> "none", code |-> "unknown"]
     ELSE [map |-> IF r["state"] = "seven" THEN "error" ELSE "limit", code |-> sub]

Transform(m, r) ==
  [f \in Fields |->
     CASE f \in NumericFields(m)           -> Validated(r[f])
       [] f = "temperature1"               -> Validated(Blanked(r[f]))
       [] f = "state"                      -> Mapped(r[f], StateKeys(m))
       [] f = "aiStatus"                   -> Mapped(r[f], {"zero", "number"})
       [] m = "v2" /\ f = "subState"       -> SubState(r)
       [] m = "v2" /\ f = "systemTime"     -> ClockOfV2(r)
       [] m = "v1" /\ f = "systemTime"     -> ClockOfV1(r[f])
       [] m = "v1" /\ f = "powerMeas"      -> Power(r)
       [] m = "v1" /\ f = "voltMeas1"      -> IF AsFloat(r[f]) = None THEN Absent ELSE r[f]
       [] m = "v1" /\ f \in {"curMeas1", "sessionEnergy", "totalEnergy"} -> SetOrDrop(r[f])
       [] OTHER                            -> r[f]]

-----------------------------------------------------------------------------
(* The clock.  now: seconds since midnight in Home Assistant's time zone     *)
(* when the station read its clock; offset: how far that is wrong; delay:    *)
(* until the sensor asks; zone: the zone of the host, less Home Assistant's. *)

DaySeconds == 86400

Clocks(m) ==
  [now : {0, 5, 43200, 86390, 86399},
   offset : {0, -20, 20, -30, 30, 35, -3600, 3600, -43100, 43100} \cup
            (IF m = "v2" THEN {46800, -90000} ELSE {}),
   delay : {0, 2, 12},
   zone : {-14400, 0, 10800}]

InSync == [now |-> 43200, offset |-> 0, delay |-> 0, zone |-> 0]

\* What transform_data makes of it: V1 sends the time of day, which is glued to
\* the date on the host; V2 an instant.
DeviceTime(m, c) ==
  IF m = "v2" THEN c.now + c.offset
  ELSE ((c.now + c.offset) % DaySeconds)
       + ((c.now + c.delay + c.zone) \div DaySeconds) * DaySeconds

\* Plausible bug: a drift of more than half a day is folded on V2 as well.
WrapBoth(m, d) ==
  IF d > DaySeconds \div 2 THEN d - DaySeconds
  ELSE IF d < -(DaySeconds \div 2) THEN d + DaySeconds ELSE d

Wrap(m, d) ==
  IF m # "v1" THEN d
  ELSE IF d > DaySeconds \div 2 THEN d - DaySeconds
  ELSE IF d < -(DaySeconds \div 2) THEN d + DaySeconds ELSE d

\* Python's round() to tens: a tie goes to the even ten.
RoundedToTens(d) ==
  LET tens == d \div 10   rest == d % 10
  IN 10 * IF rest > 5 \/ (rest = 5 /\ tens % 2 = 1) THEN tens + 1 ELSE tens

\* TimeDriftSensor.native_value
Drift(m, c) ==
  LET d == Wrap(m, DeviceTime(m, c) - (c.now + c.delay))
  IN IF d \in -29..29 THEN 0 ELSE RoundedToTens(d)

-----------------------------------------------------------------------------
Numeric == {"sessionTime", "voltMeas1", "curMeas1", "powerMeas", "sessionEnergy",
            "totalEnergy", "temperature1", "curDesign", "aiModecurrent"}

Entities(m) ==
  Numeric \cup {"state", "aiStatus", "systemTime", "time_drift", "current_set", "ai_mode"}
  \cup (IF m = "v2" THEN {"subState", "charging"} ELSE {})

\* Neither a missing key nor a null is a value.
Get(d, f) == IF d[f] = Absent THEN None ELSE d[f]

\* native_min_value and native_max_value: anything falsy or not a number gives
\* way to the constant, and 110 V limit the range.
Limits(d) ==
  LET OrDefault(v) == IF v \in {None, Absent, "text", "clock", "zero"} THEN "default" ELSE v
      max == OrDefault(d["curDesign"])
  IN [min |-> OrDefault(d["minCurrent"]),
      max |-> IF d["gridRange"] = "number" /\ max \notin {"seven", "sentinel"} THEN "twelve" ELSE max]

\* What an entity shows of the transformed answer d.
Value(e, m, d, c) ==
  CASE e = "aiModecurrent" -> IF d["aiStatus"] = "zero" THEN None ELSE Get(d, e)
    [] e = "time_drift"    -> IF Get(d, "systemTime") = None THEN None ELSE Drift(m, c)
    [] e = "current_set"   -> Limits(d)
    [] e = "ai_mode"       -> IF d["aiStatus"] = "unknown" THEN None ELSE d["aiStatus"]
    [] e = "charging"      -> IF Get(d, "evseEnabled") = None THEN None
                              ELSE IF d["evseEnabled"] = "zero" THEN "on" ELSE "off"
    [] OTHER               -> Get(d, e)

\* It raises instead: the core refuses a number that is none or not finite, and
\* what is asked of a datetime fails on anything else.
NotFinite == {"nan", "neginf", "bigint"}

Raises(e, d) ==
  \/ e \in Numeric /\ d[e] \in NotFinite \cup {"text", "clock"}
     /\ ~(e = "aiModecurrent" /\ d["aiStatus"] = "zero")
  \/ e \in {"systemTime", "time_drift"} /\ d["systemTime"] \notin {"datetime", None, Absent}
  \/ e = "current_set" /\ {d["minCurrent"], d["curDesign"]} \cap NotFinite # {}

(* The two daily sensors hang in the same loop.  They compute with a number   *)
(* as it arrived, and what they count from may be one too; their figures are *)
(* the subject of DailyEnergy and DailySessionTime.                          *)
Daily == {"energy_daily", "session_time_daily"}

Listeners(m) == Entities(m) \cup Daily

\* What a daily sensor reads: nothing, a number, or a number that is still text.
DailyReading(e, d) ==
  LET v == Get(d, IF e = "energy_daily" THEN "totalEnergy" ELSE "sessionTime")
  IN IF v \in {None, "numeral"} THEN v ELSE "number"

\* It subtracts, or rounds what it subtracted.  was: what it counts from so far;
\* turned: the frame is the first of a day no timer announced.
DailyRaises(e, d, was, turned) ==
  /\ DailyReading(e, d) # None
  /\ \/ ~turned /\ was # None /\ "numeral" \in {was, DailyReading(e, d)}
     \/ e = "energy_daily" /\ DailyReading(e, d) = "numeral"

\* What it counts from afterwards.  The energy sensor turns the day over before
\* it raises, but not without a reading.
DailyKept(e, d, was, turned) ==
  IF turned THEN IF e = "energy_daily" /\ DailyReading(e, d) = None THEN was ELSE DailyReading(e, d)
  ELSE IF was = None /\ ~DailyRaises(e, d, was, turned) THEN DailyReading(e, d) ELSE was

NothingKept == [e \in Daily |-> None]

Showing(m, r, c) ==
  LET d == Transform(m, r) IN [e \in Entities(m) |-> Value(e, m, d, c)]

FramesTypeOK ==
  /\ model \in {"v1", "v2"}
  /\ DOMAIN raw = Fields /\ \A f \in Fields : raw[f] \in Values
  /\ clock \in Clocks(model)
  /\ heard \subseteq Listeners(model) /\ DOMAIN shown = Entities(model)
  /\ kept \in [Daily -> {None, "number", "numeral"}]
  /\ DOMAIN usual = Entities(model)
  /\ lastOk \in BOOLEAN

FramesNew ==
  /\ model \in {"v1", "v2"}
  /\ raw = Usual(model) /\ clock = InSync
  /\ heard = Listeners(model) /\ shown = Showing(model, raw, clock)
  /\ kept = [e \in Daily |-> "number"]
  /\ usual = shown

FramesInit == FramesNew /\ lastOk = TRUE

\* One pass over the listeners with the data d, until one raises: by the order
\* they were registered in, that is before all the others or after them.
Heeded(d, loud, was, turned) ==
  LET raising == loud \cup {e \in Daily : DailyRaises(e, d, was[e], e \in turned)}
      keeping(reached) ==
        [e \in Daily |-> IF e \in reached THEN DailyKept(e, d, was[e], e \in turned) ELSE was[e]]
  IN \/ raising = {} /\ heard' = Listeners(model) /\ kept' = keeping(Daily)
     \/ \E first \in raising :
          /\ heard' \in {{}, Listeners(model) \ raising}
          /\ kept' = keeping(heard' \cup {first})

\* The poll has failed: of the sensors here only the daily energy looks at the
\* old data once more.
FailureHeeded(d, was, turned) ==
  /\ heard' = {}
  /\ kept' = [was EXCEPT !["energy_daily"] = DailyKept("energy_daily", d, @, "energy_daily" \in turned)]

\* The station answers, and transform_data may raise.  Midnight may have passed
\* since the last poll, with the timer of the daily sensors or without.
FramePolled(r, c) ==
  /\ raw' = r /\ clock' = c
  /\ lastOk' = ~BlankRaises(r["temperature1"])
  /\ LET d    == Transform(model, IF lastOk' THEN r ELSE raw)
         loud == {e \in Entities(model) : Raises(e, d)}
         now  == Showing(model, r, c)
     IN /\ \E turned \in SUBSET Daily :
             \E was \in IF turned = {} THEN {kept, NothingKept} ELSE {kept} :
               IF lastOk' THEN Heeded(d, loud, was, turned) ELSE FailureHeeded(d, was, turned)
        /\ shown' = [e \in Entities(model) |-> IF e \in heard' THEN now[e] ELSE shown[e]]
  /\ UNCHANGED <<model, usual>>

\* A number the station sent as text, of those a daily sensor computes with: now, or
\* at the frame it counts from.
NumberAsText ==
  \/ raw["sessionTime"] = "numeral"
  \/ model = "v2" /\ raw["totalEnergy"] = "numeral"
  \/ \E e \in Daily : kept[e] = "numeral"

UnderUsual == raw = Usual(model) /\ clock = InSync /\ ~NumberAsText

\* One answer is damaged, or one is of a station whose clock is off; the next is as
\* usual again, and the ones after it until no daily sensor counts from text.
ClockOff == UnderUsual /\ \E c \in Clocks(model) : FramePolled(raw, c)

Damaged ==
  /\ UnderUsual
  /\ \E D \in {D \in SUBSET Sent(model) : Cardinality(D) = MaxDamaged} :
       \E b \in [D -> Values] : FramePolled(Replacing(raw, b), InSync)

UsualAgain == FramePolled(Usual(model), InSync)

FramesNext == ClockOff \/ Damaged \/ UsualAgain

FramesSpec == FramesInit /\ [][FramesNext]_frameVars

-----------------------------------------------------------------------------
\* The fields an entity is about.
About(e) ==
  CASE e = "powerMeas" /\ model = "v1"    -> {"voltMeas1", "curMeas1"}
    [] e = "subState"                     -> {"state", "subState"}
    [] e = "aiModecurrent"                -> {"aiModecurrent", "aiStatus"}
    [] e \in {"systemTime", "time_drift"} -> {"systemTime", "timeMsg", "timeZone"}
    [] e = "current_set"                  -> {"minCurrent", "curDesign", "gridRange"}
    [] e = "ai_mode"                      -> {"aiStatus"}
    [] e = "charging"                     -> {"evseEnabled"}
    [] OTHER                              -> {e}

\* "One bad field" stays one bad sensor: whatever fields are damaged, every listener
\* hears of the poll, and the entities which are about other fields show what they
\* usually do.  Two exceptions: an integer too large for a float where a temperature
\* should be fails the poll, and a number sent as text stops a daily sensor.
DamageIsContained ==
  raw["temperature1"] # "bigint" /\ ~NumberAsText /\ clock = InSync =>
    /\ heard = Listeners(model)
    /\ LET answer == Usual(model)
       IN \A e \in Entities(model) :
            (\A f \in About(e) : raw[f] = answer[f]) => shown[e] = usual[e]

\* time_drift, where its sensor heard of the poll, is how far the clock of the station
\* is off, to ten seconds and the time the answer took, and zero only where that is
\* small: through midnight on either side, a host in another time zone, and more than
\* half a day on V2.
DriftIsOffset ==
  raw = Usual(model) /\ "time_drift" \in heard =>
    LET error == shown["time_drift"] - clock.offset
    IN IF clock.offset - clock.delay \in -29..29 THEN shown["time_drift"] = 0
       ELSE error \in -(clock.delay + 5)..5
=============================================================================
