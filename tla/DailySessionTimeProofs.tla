----------------------- MODULE DailySessionTimeProofs -----------------------
(* What the daily session time sensor promises of its figure and its flag,   *)
(* for any length of the day and any number of sessions and restarts.        *)
EXTENDS DailySessionTime, TLAPS

\* What the sensor holds, or has stored, counts no time but today's, in which a
\* session was open; and none before current flowed.
Counted(p) ==
  p.date = Today =>
    /\ p.accumulated <= opened
    /\ p.prev # None => p.accumulated + time <= opened + p.prev
    /\ ~flowed => p.accumulated = 0
    /\ ~flowed /\ p.prev # None /\ p.prevTotal # None => total <= p.prevTotal

\* A stamp of today, other than one of midnight sharp, is the stamp of a frame the
\* day has had.
Stamped(p) ==
  p.prevStamp # None =>
    /\ p.prevStamp <= clock
    /\ p.prevStamp > StartOfDay => p.date = Today /\ p.dayHadFrame

\* What it says of a day it calls complete: watched to the latest reading ...
Watched(p) ==
  p.date = Today /\ ~p.incomplete /\ p.prevStamp # None /\ p.prevStamp >= StartOfDay
  => WatchedUntil(p.prevStamp)

\* ... and, if the car charged all the while, counted to it.
Charged(p) ==
  /\ p.date = Today /\ ~p.dayHadFrame => p.prev = None /\ p.accumulated = 0
  /\ p.date = Today /\ steady =>
       /\ p.dayHadFrame => p.prev # None
       /\ p.prev # None => p.prevStamp # None /\ time + p.prevStamp = clock + p.prev
       /\ ~p.incomplete /\ p.prevStamp # None =>
            p.prevStamp <= p.accumulated + StartOfDay + Tolerance

Sound(p) ==
  /\ p.date \in 0..Today \cup {None}
  /\ Counted(p) /\ Stamped(p) /\ Watched(p) /\ Charged(p)

\* Of the day itself: only it is watched, and no session was open for longer.
DayInv ==
  /\ \A w \in watched : StartOfDay <= w /\ w <= clock
  /\ opened + StartOfDay <= clock
  /\ flow => flowed
  /\ steady => flow

\* The timer is due at midnight sharp; while Home Assistant is down nothing is held.
TimerInv ==
  /\ timer # "set" => clock = StartOfDay
  /\ ~up => Blank /\ timer = "set"

\* The inductive invariant.
IInv ==
  /\ TypeOK /\ DayInv /\ TimerInv
  /\ Sound(Payload)
  /\ stored # None => Sound(stored)

-----------------------------------------------------------------------------
\* The day: what a tick does to it.

\* The day began no later than now, and a tick either leaves it or, at midnight,
\* begins the next one.
LEMMA DayFacts ==
  ASSUME NEW t \in Nat
  PROVE  /\ t \div DayTicks \in Nat /\ (t + 1) \div DayTicks \in Nat
         /\ (t \div DayTicks) * DayTicks \in Nat /\ (t \div DayTicks) * DayTicks <= t
         /\ t < (t \div DayTicks) * DayTicks + DayTicks
         /\ IF (t + 1) % DayTicks = 0
            THEN /\ (t + 1) \div DayTicks = t \div DayTicks + 1
                 /\ ((t + 1) \div DayTicks) * DayTicks = t + 1
            ELSE (t + 1) \div DayTicks = t \div DayTicks
<1>1. DayTicks \in Nat /\ 0 < DayTicks
  BY SessionTimeAssumption
<1> DEFINE q == t \div DayTicks   r == t % DayTicks
           p == (t + 1) \div DayTicks   s == (t + 1) % DayTicks
<1>2. q \in Int /\ r \in 0..(DayTicks - 1) /\ t = DayTicks * q + r
  BY <1>1
<1>3. p \in Int /\ s \in 0..(DayTicks - 1) /\ t + 1 = DayTicks * p + s
  BY <1>1
<1> HIDE DEF q, r, p, s
<1> QED
  BY <1>1, <1>2, <1>3

\* What the types say of the numbers the proofs compute with.
LEMMA Numbers ==
  ASSUME TypeOK
  PROVE  /\ clock \in Nat /\ time \in Nat /\ total \in Nat /\ opened \in Nat
         /\ Today \in Nat /\ StartOfDay \in Nat /\ StartOfDay <= clock
         /\ Tolerance \in Nat /\ None \notin Int
<1>1. clock \in Nat
  BY SessionTimeAssumption DEF TypeOK
<1>2. Today \in Nat /\ StartOfDay \in Nat /\ StartOfDay <= clock
  BY <1>1, DayFacts DEF Today, StartOfDay
<1> QED
  BY <1>1, <1>2, SessionTimeAssumption DEF TypeOK

\* What the sensor would store.
LEMMA PayloadType ==
  ASSUME TypeOK
  PROVE  Payload \in Payloads
<1>1. date \in Nat \cup {None} /\ prevStamp \in Nat \cup {None}
  BY Numbers, SessionTimeAssumption DEF TypeOK
<1> QED
  BY <1>1 DEF Payload, Payloads, TypeOK

\* A frame read now leaves nothing of before unwatched, and is itself no gap if the
\* previous reading, or midnight, is within the tolerance.
LEMMA WatchedStays ==
  ASSUME NEW t, WatchedUntil(t), UNCHANGED clock,
         watched' = watched \/ (watched' = watched \cup {clock} /\ t <= clock),
         t \in Nat, clock \in Nat
  PROVE  WatchedUntil(t)'
BY DEF WatchedUntil, StartOfDay, Today

\* While the station is switched and frames come in, what is held or stored stays
\* sound.
LEMMA SoundStays ==
  ASSUME TypeOK, NEW p \in Payloads, Sound(p), UNCHANGED <<clock, opened>>,
         time' = time \/ (time' = 0 /\ ~steady'),
         total' \in Nat, total' <= total,
         flowed => flowed', steady' => steady,
         watched' = watched \/ watched' = watched \cup {clock}
  PROVE  Sound(p)'
<1>0. /\ clock \in Nat /\ time \in Nat /\ total \in Nat /\ opened \in Nat
      /\ Today \in Nat /\ StartOfDay \in Nat /\ None \notin Int
  BY Numbers
<1>1. Today' = Today /\ StartOfDay' = StartOfDay
  BY DEF Today, StartOfDay
<1>2. /\ p.accumulated \in Nat /\ p.prev \in Nat \cup {None}
      /\ p.prevTotal \in Nat \cup {None} /\ p.prevStamp \in Nat \cup {None}
  BY DEF Payloads
<1>3. Counted(p)'
  <2>1. CASE time' = time
    BY <1>0, <1>1, <1>2, <2>1 DEF Sound, Counted
  <2>2. CASE time' = 0
    BY <1>0, <1>1, <1>2, <2>2 DEF Sound, Counted
  <2> QED
    BY <2>1, <2>2
<1>4. Stamped(p)'
  BY <1>1 DEF Sound, Stamped
<1>5. Watched(p)'
  <2>1. p.prevStamp # None => p.prevStamp \in Nat /\ p.prevStamp <= clock
    BY <1>2 DEF Sound, Stamped
  <2>2. p.prevStamp # None /\ WatchedUntil(p.prevStamp) => WatchedUntil(p.prevStamp)'
    BY <1>0, <2>1, WatchedStays
  <2> QED
    BY <1>1, <2>2 DEF Sound, Watched
<1>6. Charged(p)'
  BY <1>1 DEF Sound, Charged
<1> QED
  BY <1>1, <1>3, <1>4, <1>5, <1>6 DEF Sound

\* A tick, in which sessionTime and the totals run on as the station is.
LEMMA TickKeeps ==
  ASSUME IInv, Tick
  PROVE  IInv'
<1>0. /\ clock \in Nat /\ time \in Nat /\ total \in Nat /\ opened \in Nat
      /\ Today \in Nat /\ StartOfDay \in Nat /\ StartOfDay <= clock /\ None \notin Int
      /\ Tolerance \in Nat /\ TypeOK /\ DayInv /\ TimerInv
  BY Numbers DEF IInv
<1>1. /\ clock < MaxClock /\ timer = "set" /\ clock' = clock + 1
      /\ time' = IF running THEN time + 1 ELSE time
      /\ total' = IF flow THEN total + 1 ELSE total
      /\ UNCHANGED <<running, flow, up, frameTime, accumulated, prev, date, incomplete,
                     dayHadFrame, prevTotal, prevStamp, lastReset, stored, switches,
                     sessions, restarts>>
  BY DEF Tick, sensorVars
<1> DEFINE midnight == (clock + 1) % DayTicks = 0
<1>2. /\ timer' = IF midnight /\ up THEN "due" ELSE "set"
      /\ watched' = IF midnight THEN {} ELSE watched
      /\ opened' = IF midnight THEN 0 ELSE IF running THEN opened + 1 ELSE opened
      /\ flowed' = IF midnight THEN flow ELSE flowed
      /\ steady' = IF midnight THEN flow ELSE steady
  BY DEF Tick
<1>3. /\ midnight => Today' = Today + 1 /\ StartOfDay' = clock + 1
      /\ ~midnight => Today' = Today /\ StartOfDay' = StartOfDay
  BY <1>0, <1>1, DayFacts DEF Today, StartOfDay
<1>4. ~midnight => clock + 1 < StartOfDay + DayTicks
  <2>1. clock + 1 < ((clock + 1) \div DayTicks) * DayTicks + DayTicks
    BY <1>0, DayFacts
  <2>2. ~midnight => ((clock + 1) \div DayTicks) * DayTicks = StartOfDay
    BY <1>0, DayFacts DEF Today, StartOfDay
  <2> HIDE DEF midnight
  <2> QED
    BY <2>1, <2>2
<1> HIDE DEF midnight
<1>5. flow => running
  BY <1>0 DEF TypeOK
\* What is held or stored stays sound; at midnight it is about the day before.
<1>6. ASSUME NEW p \in Payloads, Sound(p)
      PROVE  Sound(p)'
  <2>1. /\ p.accumulated \in Nat /\ p.prev \in Nat \cup {None}
        /\ p.prevTotal \in Nat \cup {None} /\ p.prevStamp \in Nat \cup {None}
    BY DEF Payloads
  <2>2. CASE midnight
    <3>1. p.date # Today' /\ p.date \in 0..Today' \cup {None}
      BY <1>0, <1>3, <1>6, <2>2 DEF Sound
    <3>2. Stamped(p)'
      BY <1>0, <1>1, <1>3, <1>6, <2>1, <2>2 DEF Sound, Stamped
    <3> QED
      BY <3>1, <3>2 DEF Sound, Counted, Watched, Charged
  <2>3. CASE ~midnight
    <3>1. Today' = Today /\ StartOfDay' = StartOfDay
      BY <1>3, <2>3
    <3>2. /\ watched' = watched /\ flowed' = flowed /\ steady' = steady
          /\ opened' = IF running THEN opened + 1 ELSE opened
      BY <1>2, <2>3
    <3>3. Counted(p)'
      <4>1. CASE running
        <5>1. time' = time + 1 /\ opened' = opened + 1
          BY <1>1, <3>2, <4>1
        <5> QED
          BY <1>0, <1>1, <1>6, <2>1, <3>1, <3>2, <5>1 DEF Sound, Counted, DayInv
      <4>2. CASE ~running
        BY <1>0, <1>1, <1>5, <1>6, <2>1, <3>1, <3>2, <4>2 DEF Sound, Counted
      <4> QED
        BY <4>1, <4>2
    <3>4. Stamped(p)'
      BY <1>0, <1>1, <1>6, <2>1, <3>1 DEF Sound, Stamped
    <3>5. Watched(p)'
      BY <1>6, <3>1, <3>2 DEF Sound, Watched, WatchedUntil
    <3>6. Charged(p)'
      <4>1. CASE steady
        <5>1. time' = time + 1
          BY <1>0, <1>1, <1>5, <4>1 DEF DayInv
        <5> QED
          BY <1>0, <1>1, <1>6, <2>1, <3>1, <3>2, <5>1 DEF Sound, Charged
      <4>2. CASE ~steady
        BY <1>6, <3>1, <3>2, <4>2 DEF Sound, Charged
      <4> QED
        BY <4>1, <4>2
    <3> QED
      BY <1>6, <3>1, <3>3, <3>4, <3>5, <3>6 DEF Sound
  <2> QED
    BY <2>2, <2>3
<1>7. Payload' = Payload
  BY <1>1 DEF Payload
<1>8. Sound(Payload)'
  BY <1>0, <1>6, <1>7, PayloadType DEF IInv
<1>9. stored' # None => Sound(stored)'
  BY <1>0, <1>1, <1>6 DEF IInv, TypeOK
<1>10. DayInv'
  <2>1. CASE midnight
    BY <1>0, <1>1, <1>2, <1>3, <2>1 DEF DayInv
  <2>2. CASE ~midnight
    <3>1. /\ watched' = watched /\ StartOfDay' = StartOfDay /\ flowed' = flowed
          /\ steady' = steady /\ flow' = flow /\ clock' = clock + 1
          /\ opened' = opened \/ opened' = opened + 1
      BY <1>1, <1>2, <1>3, <2>2
    <3>2. \A w \in watched : w \in Nat
      BY <1>0 DEF TypeOK
    <3> QED
      BY <1>0, <3>1, <3>2 DEF DayInv
  <2> QED
    BY <2>1, <2>2
<1>11. opened' \in 0..DayTicks
  BY <1>0, <1>1, <1>2, <1>4, SessionTimeAssumption DEF DayInv
<1>12. TypeOK'
  <2>1. clock' \in 0..MaxClock
    BY <1>0, <1>1, SessionTimeAssumption
  <2>2. /\ frameTime \in 0..clock' \cup {None} /\ prevStamp \in 0..clock' \cup {None}
        /\ watched' \subseteq 0..clock'
    <3>1. \A n \in 0..clock : n \in 0..clock'
      BY <1>0, <1>1
    <3>2. frameTime \in 0..clock \cup {None} /\ prevStamp \in 0..clock \cup {None}
          /\ watched \subseteq 0..clock /\ watched' \subseteq watched
      BY <1>0, <1>2 DEF TypeOK
    <3> QED
      BY <3>1, <3>2
  <2>3. date \in 0..Today' \cup {None} /\ lastReset \in 0..Today' \cup {None}
    BY <1>0, <1>3 DEF TypeOK
  <2>4. time' \in Nat /\ total' \in Nat /\ timer' \in {"set", "due", "late"}
    BY <1>0, <1>1, <1>2
  <2>5. flowed' \in BOOLEAN /\ steady' \in BOOLEAN
    BY <1>0, <1>2 DEF TypeOK
  <2> QED
    BY <1>0, <1>1, <1>11, <2>1, <2>2, <2>3, <2>4, <2>5 DEF TypeOK
<1>13. TimerInv'
  BY <1>0, <1>1, <1>2, <1>3 DEF TimerInv, Blank
<1> QED
  BY <1>8, <1>9, <1>10, <1>12, <1>13 DEF IInv

\* The station is switched or starts or ends a session: the sensor does not see it.
LEMMA StationKeeps ==
  ASSUME IInv, SwitchCurrent \/ StartSession \/ EndSession
  PROVE  IInv'
<1>0. /\ time \in Nat /\ total \in Nat /\ TypeOK /\ DayInv /\ TimerInv
      /\ {MaxSwitches, MaxSessions} \subseteq Nat
  BY Numbers, SessionTimeAssumption DEF IInv
<1>1. UNCHANGED <<clock, up, timer, frameTime, accumulated, prev, date, incomplete,
                  dayHadFrame, prevTotal, prevStamp, lastReset, stored, watched,
                  opened, restarts>>
  BY DEF SwitchCurrent, StartSession, EndSession, sensorVars
<1>2. /\ running' \in BOOLEAN /\ flow' \in BOOLEAN /\ (flow' => running')
      /\ time' = time \/ (time' = 0 /\ ~steady')
      /\ total' \in Nat /\ total' <= total
      /\ flowed' \in BOOLEAN /\ (flowed => flowed') /\ (flow' => flowed') /\ steady' = FALSE
      /\ switches' \in 0..MaxSwitches /\ sessions' \in 0..MaxSessions
  <2>1. CASE SwitchCurrent
    <3>1. switches' \in 0..MaxSwitches
      BY <1>0, <2>1 DEF SwitchCurrent, TypeOK
    <3> QED
      BY <1>0, <2>1, <3>1 DEF SwitchCurrent, TypeOK, DayInv
  <2>2. CASE StartSession
    <3>1. sessions' \in 0..MaxSessions
      BY <1>0, <2>2 DEF StartSession, TypeOK
    <3>2. total' \in Nat /\ total' <= total
      BY <1>0, <2>2 DEF StartSession
    <3>3. flowed' \in BOOLEAN /\ (flowed => flowed') /\ (flow' => flowed')
      BY <1>0, <2>2, Zenon DEF StartSession, TypeOK
    <3> QED
      BY <1>0, <2>2, <3>1, <3>2, <3>3 DEF StartSession, TypeOK
  <2>3. CASE EndSession
    <3>1. /\ running' = FALSE /\ flow' = FALSE /\ steady' = FALSE
          /\ UNCHANGED <<time, total, flowed, switches, sessions>>
      BY <2>3 DEF EndSession
    <3>2. total' \in Nat /\ total' <= total
      BY <1>0, <3>1
    <3> QED
      BY <1>0, <3>1, <3>2 DEF TypeOK
  <2> QED
    BY <2>1, <2>2, <2>3
<1>3. Today' = Today /\ StartOfDay' = StartOfDay /\ Payload' = Payload
  BY <1>1 DEF Today, StartOfDay, Payload
<1>4. ASSUME NEW p \in Payloads, Sound(p)
      PROVE  Sound(p)'
  BY <1>0, <1>1, <1>2, <1>4, SoundStays
<1>5. Sound(Payload)'
  BY <1>0, <1>3, <1>4, PayloadType DEF IInv
<1>6. stored' # None => Sound(stored)'
  BY <1>0, <1>1, <1>4 DEF IInv, TypeOK
<1>7. TypeOK'
  <2>1. flow' \in BOOLEAN /\ running' \in BOOLEAN /\ (flow' => running')
        /\ flowed' \in BOOLEAN /\ steady' \in BOOLEAN /\ time' \in Nat /\ total' \in Nat
    <3>1. time' \in Nat /\ total' \in Nat
      BY <1>0, <1>2
    <3>2. steady' \in BOOLEAN
      BY <1>2
    <3> QED
      BY <1>2, <3>1, <3>2, Zenon
  <2> QED
    BY <1>0, <1>1, <1>2, <1>3, <2>1 DEF TypeOK
<1>8. DayInv' /\ TimerInv'
  BY <1>0, <1>1, <1>2, <1>3 DEF DayInv, TimerInv, Blank
<1> QED
  BY <1>5, <1>6, <1>7, <1>8 DEF IInv

\* The timer turns the day over: nothing is counted, and no position is kept.
LEMMA RollOverKeeps ==
  ASSUME IInv, RollOverAtMidnight
  PROVE  IInv'
<1>0. /\ clock \in Nat /\ time \in Nat /\ total \in Nat /\ opened \in Nat /\ Today \in Nat
      /\ StartOfDay \in Nat /\ None \notin Int /\ TypeOK /\ DayInv /\ TimerInv
      /\ Sound(Payload)
  BY Numbers DEF IInv
<1>1. /\ timer # "set" /\ timer' = "set" /\ accumulated' = 0 /\ prev' = None
      /\ dayHadFrame' = FALSE /\ incomplete' = TRUE /\ date' = Today /\ lastReset' = Today
      /\ UNCHANGED <<clock, running, flow, time, total, up, frameTime, prevTotal,
                     prevStamp, stored, watched, opened, flowed, steady, switches,
                     sessions, restarts>>
  BY DEF RollOverAtMidnight, stationVars, historyVars
<1>2. Today' = Today /\ StartOfDay' = StartOfDay
  BY <1>1 DEF Today, StartOfDay
<1>3. Payload' = [date |-> Today, accumulated |-> 0, prev |-> None, incomplete |-> TRUE,
                  dayHadFrame |-> FALSE, prevTotal |-> prevTotal, prevStamp |-> prevStamp]
  BY <1>1 DEF Payload
<1>4. prevStamp # None => prevStamp \in Nat /\ prevStamp <= clock
  BY <1>0 DEF TypeOK
<1>5. prevStamp # None => ~(prevStamp > StartOfDay)
  BY <1>0, <1>1, <1>4 DEF TimerInv
<1>6. Sound(Payload)'
  BY <1>0, <1>1, <1>2, <1>3, <1>4, <1>5 DEF Sound, Counted, Stamped, Watched, Charged
<1>7. stored' # None => Sound(stored)'
  BY <1>1, <1>2 DEF IInv, Sound, Counted, Stamped, Watched, Charged, WatchedUntil
<1>8. TypeOK'
  <2>1. date' \in 0..Today' \cup {None} /\ lastReset' \in 0..Today' \cup {None}
    BY <1>0, <1>1, <1>2
  <2> QED
    BY <1>0, <1>1, <1>2, <2>1 DEF TypeOK
<1>9. DayInv' /\ TimerInv'
  BY <1>0, <1>1, <1>2 DEF DayInv, TimerInv
<1> QED
  BY <1>6, <1>7, <1>8, <1>9 DEF IInv

\* A frame: the figure of the day, and what its flag says, are sound again.
LEMMA HandleKeeps ==
  ASSUME IInv, PollAnswered
  PROVE  Sound(Payload)' /\ accumulated' \in Nat /\ incomplete' \in BOOLEAN
         /\ dayHadFrame' = TRUE /\ date' = Today
         /\ prev' \in Nat \cup {None} /\ prevTotal' \in Nat \cup {None}
         /\ prevStamp' \in 0..clock \cup {None}
         /\ lastReset' \in 0..Today \cup {None}
<1>0. /\ clock \in Nat /\ time \in Nat /\ total \in Nat /\ opened \in Nat /\ Today \in Nat
      /\ StartOfDay \in Nat /\ StartOfDay <= clock /\ None \notin Int /\ Tolerance \in Nat
      /\ TypeOK /\ DayInv /\ Sound(Payload)
  BY Numbers DEF IInv
<1>1. PICK f \in Frames :
        /\ HandleUpdate(f)
        /\ watched' = IF f.time # None THEN watched \cup {clock} ELSE watched
        /\ steady' = (steady /\ f.time # None /\ f.amps)
  BY DEF PollAnswered
<1>2. /\ f.time \in {time, None} /\ f.total \in {total, None} /\ (f.amps => flow)
      /\ f.at = clock
  <2>1. f \in {[time |-> time, total |-> total, amps |-> flow, at |-> clock],
              [time |-> None, total |-> total, amps |-> flow, at |-> clock],
              [time |-> time, total |-> None, amps |-> flow, at |-> clock],
              [time |-> time, total |-> total, amps |-> FALSE, at |-> clock]}
    BY DEF Frames
  <2>2. f.time \in {time, None} /\ f.total \in {total, None} /\ f.at = clock
    BY <2>1
  <2>3. f.amps = flow \/ f.amps = FALSE
    BY <2>1
  <2> QED
    BY <2>2, <2>3, Zenon
<1>3. UNCHANGED <<clock, running, flow, time, total, up, stored, opened, flowed>>
  BY DEF PollAnswered, stationVars
<1>4. Today' = Today /\ StartOfDay' = StartOfDay
  BY <1>3 DEF Today, StartOfDay
<1>5. /\ accumulated \in Nat /\ prev \in Nat \cup {None} /\ prevTotal \in Nat \cup {None}
      /\ prevStamp \in 0..clock \cup {None} /\ incomplete \in BOOLEAN
      /\ dayHadFrame \in BOOLEAN /\ frameTime \in 0..clock \cup {None}
      /\ lastReset \in 0..Today \cup {None}
  BY <1>0 DEF TypeOK
<1>6. /\ date' = Today /\ dayHadFrame' = TRUE
      /\ lastReset' = IF date # Today THEN Today ELSE lastReset
      /\ date # Today => accumulated' = 0 /\ prev' = f.time
      /\ date = Today /\ Counts(f) => accumulated' = accumulated + (f.time - prev)
      /\ date = Today /\ ~Counts(f) => accumulated' = accumulated
      /\ date = Today => prev' = IF f.time # None THEN f.time ELSE prev
      /\ prevTotal' = IF f.time # None THEN f.total ELSE prevTotal
      /\ prevStamp' = IF f.time # None THEN clock ELSE prevStamp
  BY <1>1, <1>2 DEF HandleUpdate
<1>7. incomplete' = Verdict(Gap(clock), clock, date # Today \/ ~dayHadFrame)
  BY <1>1, <1>2, Zenon DEF HandleUpdate
\* What is known of the day so far ...
<1>8. /\ date = Today =>
           /\ accumulated <= opened
           /\ prev # None => accumulated + time <= opened + prev
           /\ ~flowed => accumulated = 0
           /\ ~flowed /\ prev # None /\ prevTotal # None => total <= prevTotal
           /\ ~dayHadFrame => prev = None /\ accumulated = 0
           /\ steady /\ dayHadFrame => prev # None
           /\ steady /\ prev # None => prevStamp # None /\ time + prevStamp = clock + prev
           /\ ~incomplete /\ prevStamp # None /\ prevStamp >= StartOfDay =>
                WatchedUntil(prevStamp)
      /\ prevStamp # None /\ prevStamp > StartOfDay => date = Today /\ dayHadFrame
  BY <1>0 DEF Sound, Counted, Stamped, Watched, Charged, Payload
<1>9. date = Today /\ steady /\ ~incomplete /\ prevStamp # None =>
        prevStamp <= accumulated + StartOfDay + Tolerance
  BY <1>0 DEF Sound, Charged, Payload
\* ... and of the gap this frame ends.
<1>10. Gap(clock) # None =>
         prevStamp # None /\ Gap(clock) \in Int /\ clock <= prevStamp + Gap(clock)
  BY <1>0, <1>5 DEF Gap
<1> DEFINE first == date # Today \/ ~dayHadFrame
<1>11. ~incomplete' /\ first => clock <= StartOfDay + Tolerance
  <2> SUFFICES ASSUME ~incomplete', first
               PROVE  clock <= StartOfDay + Tolerance
    OBVIOUS
  <2>1. ~TooLong(Clipped(Gap(clock), clock))
    BY <1>7, Zenon DEF Verdict
  <2>2. CASE Clipped(Gap(clock), clock) = clock - StartOfDay
    BY <1>0, <2>1, <2>2 DEF TooLong
  <2>3. CASE Clipped(Gap(clock), clock) # clock - StartOfDay
    <3>1. Gap(clock) # None /\ Gap(clock) <= Tolerance
      BY <1>0, <1>10, <2>1, <2>3 DEF Clipped, TooLong
    <3>2. prevStamp # None /\ ~(prevStamp > StartOfDay)
      BY <1>8, <1>10, <3>1
    <3> QED
      BY <1>0, <1>5, <1>10, <3>1, <3>2
  <2> QED
    BY <2>2, <2>3
<1>12. ~incomplete' /\ ~first =>
         /\ date = Today /\ dayHadFrame /\ ~incomplete /\ ~TooLong(Gap(clock))
         /\ prevStamp # None /\ clock <= prevStamp + Tolerance
  <2> SUFFICES ASSUME ~incomplete', ~first
               PROVE  <1>12!2
    OBVIOUS
  <2>1. ~incomplete /\ ~TooLong(Gap(clock))
    BY <1>7, Zenon DEF Verdict
  <2>2. Gap(clock) # None /\ Gap(clock) <= Tolerance
    BY <1>0, <1>10, <2>1 DEF TooLong
  <2>3. prevStamp # None /\ clock <= prevStamp + Tolerance
    BY <1>0, <1>5, <1>10, <2>2
  <2> QED
    BY <2>1, <2>3
<1>13. incomplete' \in BOOLEAN
  BY <1>5, <1>7, Zenon DEF Verdict, TooLong
<1>14. /\ Counts(f) => /\ f.time = time /\ prev \in Nat /\ time > prev
                       /\ flowed \/ (prevTotal # None /\ total > prevTotal)
  <2>1. Counts(f) => f.time = time /\ prev # None /\ time > prev /\ (f.amps \/ Moved(f))
    BY <1>2 DEF Counts
  <2>2. f.amps => flowed
    BY <1>0, <1>2 DEF DayInv
  <2>3. Moved(f) => prevTotal # None /\ total > prevTotal
    BY <1>2 DEF Moved
  <2> QED
    BY <1>5, <2>1, <2>2, <2>3
<1> HIDE DEF first
<1>15. /\ accumulated' \in Nat /\ prev' \in Nat \cup {None} /\ prevTotal' \in Nat \cup {None}
       /\ prevStamp' \in 0..clock \cup {None}
       /\ lastReset' \in 0..Today \cup {None}
  BY <1>0, <1>2, <1>5, <1>6, <1>14
\* The figure.
<1>16. /\ accumulated' <= opened
       /\ prev' # None => accumulated' + time <= opened + prev'
       /\ ~flowed => accumulated' = 0
       /\ ~flowed /\ prev' # None /\ prevTotal' # None => total <= prevTotal'
  <2>1. CASE date # Today
    <3>1. accumulated' = 0 /\ prev' = f.time
      BY <1>6, <2>1
    <3>2. prev' # None => prev' = time /\ prevTotal' = f.total
      BY <1>2, <1>6, <3>1
    <3> QED
      BY <1>0, <1>2, <3>1, <3>2
  <2>2. CASE date = Today /\ Counts(f)
    <3>1. /\ accumulated' = accumulated + (time - prev) /\ prev' = time
          /\ prevTotal' = f.total /\ prev \in Nat /\ time > prev
      BY <1>0, <1>6, <1>14, <2>2
    <3>2. flowed
      BY <1>0, <1>5, <1>8, <1>14, <2>2
    <3> QED
      BY <1>0, <1>2, <1>5, <1>8, <2>2, <3>1, <3>2
  <2>3. CASE date = Today /\ ~Counts(f)
    <3>1. accumulated' = accumulated
      BY <1>6, <2>3
    <3>2. CASE f.time = None
      <4>1. prev' = prev /\ prevTotal' = prevTotal
        BY <1>6, <2>3, <3>2
      <4> QED
        BY <1>8, <2>3, <3>1, <4>1
    <3>3. CASE f.time = time /\ f.time # None
      <4>1. prev' = time /\ prevTotal' = f.total
        BY <1>6, <2>3, <3>3
      <4> QED
        BY <1>0, <1>2, <1>5, <1>8, <2>3, <3>1, <4>1
    <3> QED
      BY <1>2, <3>2, <3>3
  <2> QED
    BY <2>1, <2>2, <2>3
\* Complete: watched to this reading.
<1>17. ~incomplete' /\ prevStamp' # None /\ prevStamp' >= StartOfDay =>
         WatchedUntil(prevStamp)'
  <2> SUFFICES ASSUME ~incomplete', prevStamp' # None, prevStamp' >= StartOfDay
               PROVE  WatchedUntil(prevStamp)'
    OBVIOUS
  <2>0. \A w \in watched : w \in Nat /\ StartOfDay <= w /\ w <= clock
    BY <1>0 DEF DayInv, TypeOK
  <2>1. CASE f.time # None
    <3>1. prevStamp' = clock /\ watched' = watched \cup {clock}
      BY <1>1, <1>6, <2>1
    <3>2. CASE clock <= StartOfDay + Tolerance
      BY <1>0, <1>4, <2>0, <3>1, <3>2 DEF WatchedUntil
    <3>3. CASE ~(clock <= StartOfDay + Tolerance)
      <4>1. /\ date = Today /\ ~incomplete /\ prevStamp \in Nat
            /\ prevStamp <= clock /\ clock <= prevStamp + Tolerance
        BY <1>0, <1>5, <1>11, <1>12, <3>3
      <4>2. prevStamp >= StartOfDay /\ WatchedUntil(prevStamp)
        BY <1>0, <1>8, <3>3, <4>1
      <4> QED
        BY <1>0, <1>4, <2>0, <3>1, <4>1, <4>2 DEF WatchedUntil
    <3> QED
      BY <3>2, <3>3
  <2>2. CASE f.time = None
    <3>1. prevStamp' = prevStamp /\ watched' = watched
      BY <1>1, <1>6, <2>2
    <3>2. CASE first
      <4>1. prevStamp = StartOfDay
        BY <1>0, <1>5, <1>8, <3>1, <3>2 DEF first
      <4> QED
        BY <1>0, <1>4, <2>0, <3>1, <4>1 DEF WatchedUntil
    <3>3. CASE ~first
      <4>1. WatchedUntil(prevStamp)
        BY <1>8, <1>12, <3>1, <3>3
      <4> QED
        BY <1>4, <3>1, <4>1 DEF WatchedUntil
    <3> QED
      BY <3>2, <3>3
  <2> QED
    BY <2>1, <2>2
\* Charging all the while: counted to this reading.
<1>18. steady' =>
         /\ prev' # None /\ prevStamp' # None /\ time + prevStamp' = clock + prev'
         /\ ~incomplete' => prevStamp' <= accumulated' + StartOfDay + Tolerance
  <2> SUFFICES ASSUME steady'
               PROVE  <1>18!2
    OBVIOUS
  <2>1. steady /\ f.time = time /\ f.amps
    BY <1>1, <1>2, Zenon
  <2>2. prev' = time /\ prevStamp' = clock
    BY <1>0, <1>6, <2>1
  <2>3. ASSUME ~incomplete'
        PROVE  clock <= accumulated' + StartOfDay + Tolerance
    <3>1. CASE first
      <4>1. \A n \in Nat : clock <= n + StartOfDay + Tolerance
        BY <1>0, <1>11, <2>3, <3>1
      <4> QED
        BY <1>15, <4>1, Zenon
    <3>2. CASE ~first
      <4>1. /\ date = Today /\ dayHadFrame /\ ~incomplete /\ ~TooLong(Gap(clock))
            /\ prevStamp # None /\ prevStamp \in Nat /\ prevStamp <= clock
            /\ prev \in Nat /\ time + prevStamp = clock + prev
            /\ prevStamp <= accumulated + StartOfDay + Tolerance
        BY <1>0, <1>5, <1>8, <1>9, <1>12, <2>1, <2>3, <3>2
      <4>2. CASE time > prev
        <5>1. Counts(f)
          BY <1>0, <1>2, <2>1, <4>1, <4>2 DEF Counts
        <5>2. accumulated' = accumulated + (time - prev)
          BY <1>6, <2>1, <4>1, <5>1
        <5> QED
          BY <1>0, <1>5, <4>1, <5>2
      <4>3. CASE ~(time > prev)
        <5>1. ~Counts(f)
          BY <1>14, <4>3
        <5>2. accumulated' = accumulated
          BY <1>6, <4>1, <5>1
        <5> QED
          BY <1>0, <1>5, <4>1, <4>3, <5>2
      <4> QED
        BY <4>2, <4>3
    <3> QED
      BY <3>1, <3>2
  <2> QED
    BY <1>0, <2>2, <2>3
<1>19. Payload' = [date |-> Today, accumulated |-> accumulated', prev |-> prev',
                   incomplete |-> incomplete', dayHadFrame |-> TRUE,
                   prevTotal |-> prevTotal', prevStamp |-> prevStamp']
  BY <1>6 DEF Payload
<1>20. Counted(Payload)'
  BY <1>3, <1>4, <1>16, <1>19 DEF Counted
<1>21. Stamped(Payload)'
  BY <1>0, <1>3, <1>4, <1>15, <1>19 DEF Stamped
<1>22. Watched(Payload)'
  BY <1>4, <1>17, <1>19 DEF Watched, WatchedUntil
<1>23. Charged(Payload)'
  BY <1>3, <1>4, <1>18, <1>19 DEF Charged
<1> QED
  BY <1>0, <1>4, <1>6, <1>13, <1>15, <1>19, <1>20, <1>21, <1>22, <1>23 DEF Sound

\* A poll was answered.
LEMMA PollKeeps ==
  ASSUME IInv, PollAnswered
  PROVE  IInv'
<1>0. /\ clock \in Nat /\ total \in Nat /\ None \notin Int /\ StartOfDay \in Nat
      /\ StartOfDay <= clock /\ TypeOK /\ DayInv /\ TimerInv
  BY Numbers DEF IInv
<1>1. /\ up /\ timer # "late" /\ timer' = IF timer = "due" THEN "late" ELSE timer
      /\ frameTime' = clock
      /\ UNCHANGED <<clock, running, flow, time, total, up, stored, opened, flowed,
                     switches, sessions, restarts>>
  BY DEF PollAnswered, NotBeforeTimer, stationVars
<1>2. /\ watched' = watched \/ watched' = watched \cup {clock}
      /\ steady' \in BOOLEAN /\ (steady' => steady)
  <2>1. PICK f \in Frames :
          /\ watched' = IF f.time # None THEN watched \cup {clock} ELSE watched
          /\ steady' = (steady /\ f.time # None /\ f.amps)
    BY DEF PollAnswered
  <2>2. watched' = watched \/ watched' = watched \cup {clock}
    BY <2>1
  <2>3. steady' \in BOOLEAN /\ (steady' => steady)
    BY <2>1, Zenon
  <2> QED
    BY <2>2, <2>3
<1>3. Today' = Today /\ StartOfDay' = StartOfDay
  BY <1>1 DEF Today, StartOfDay
<1>4. ASSUME NEW p \in Payloads, Sound(p)
      PROVE  Sound(p)'
  <2>1. total' \in Nat /\ total' <= total
    BY <1>0, <1>1
  <2> QED
    BY <1>0, <1>1, <1>2, <1>4, <2>1, SoundStays
<1>5. stored' # None => Sound(stored)'
  BY <1>0, <1>1, <1>4 DEF IInv, TypeOK
<1>6. timer' \in {"set", "late"} /\ (timer' # "set" => timer # "set")
  BY <1>0, <1>1 DEF TypeOK
<1>7. TypeOK'
  <2>1. watched' \subseteq 0..clock
    <3>1. watched \subseteq 0..clock /\ clock \in 0..clock
      BY <1>0 DEF TypeOK
    <3> QED
      BY <1>2, <3>1
  <2>2. frameTime' \in 0..clock \cup {None}
    BY <1>0, <1>1
  <2>3. /\ accumulated' \in Nat /\ incomplete' \in BOOLEAN /\ dayHadFrame' \in BOOLEAN
        /\ date' \in 0..Today \cup {None} /\ lastReset' \in 0..Today \cup {None}
        /\ prev' \in Nat \cup {None} /\ prevTotal' \in Nat \cup {None}
        /\ prevStamp' \in 0..clock \cup {None}
    <3>1. Today \in 0..Today
      BY Numbers, <1>0
    <3> QED
      BY <3>1, HandleKeeps
  <2>4. timer' \in {"set", "due", "late"} /\ steady' \in BOOLEAN
    BY <1>2, <1>6
  <2> QED
    BY <1>0, <1>1, <1>3, <2>1, <2>2, <2>3, <2>4 DEF TypeOK
<1>8. DayInv' /\ TimerInv'
  BY <1>0, <1>1, <1>2, <1>3, <1>6 DEF DayInv, TimerInv
<1> QED
  BY <1>5, <1>7, <1>8, HandleKeeps DEF IInv

\* Storage is given what the sensor holds.
LEMMA DumpKeeps ==
  ASSUME IInv, Dump
  PROVE  IInv'
<1>0. TypeOK /\ Sound(Payload)
  BY DEF IInv
<1>1. /\ stored' = Payload
      /\ UNCHANGED <<clock, running, flow, time, total, up, timer, frameTime, accumulated,
                     prev, date, incomplete, dayHadFrame, prevTotal, prevStamp, lastReset,
                     watched, opened, flowed, steady, switches, sessions, restarts>>
  BY DEF Dump, stationVars, sensorVars, historyVars
<1>2. Today' = Today /\ StartOfDay' = StartOfDay /\ Payload' = Payload
  BY <1>1 DEF Today, StartOfDay, Payload
<1>3. Sound(Payload)'
  BY <1>0, <1>1, <1>2 DEF Sound, Counted, Stamped, Watched, Charged, WatchedUntil
<1>4. Sound(stored)'
  BY <1>1, <1>2, <1>3 DEF Sound, Counted, Stamped, Watched, Charged, WatchedUntil
<1>5. TypeOK'
  BY <1>0, <1>1, <1>2, PayloadType DEF TypeOK
<1>6. DayInv' /\ TimerInv'
  BY <1>1, <1>2 DEF IInv, DayInv, TimerInv, Blank
<1> QED
  BY <1>3, <1>4, <1>5, <1>6 DEF IInv

\* Home Assistant stops; what storage holds is of now or of the last dump.
LEMMA StopKeeps ==
  ASSUME IInv, Stop
  PROVE  IInv'
<1>0. /\ TypeOK /\ DayInv /\ None \notin Int /\ restarts \in Nat /\ Today \in Nat
      /\ MaxRestarts \in Nat
  BY Numbers, SessionTimeAssumption DEF IInv, TypeOK
<1>1. /\ up' = FALSE /\ restarts < MaxRestarts /\ restarts' = restarts + 1
      /\ stored' \in {stored, Payload}
      /\ timer' = "set" /\ frameTime' = None
      /\ accumulated' = 0 /\ prev' = None /\ date' = None
      /\ incomplete' = TRUE /\ dayHadFrame' = FALSE
      /\ prevTotal' = None /\ prevStamp' = None /\ lastReset' = None
      /\ UNCHANGED <<clock, running, flow, time, total, watched, opened, flowed, steady,
                     switches, sessions>>
  BY DEF Stop, stationVars
<1>2. Today' = Today /\ StartOfDay' = StartOfDay
  BY <1>1 DEF Today, StartOfDay
<1>3. stored' \in Payloads \cup {None} /\ (stored' # None => Sound(stored'))
  BY <1>0, <1>1, PayloadType DEF IInv, TypeOK
<1>4. stored' # None => Sound(stored)'
  BY <1>1, <1>2, <1>3 DEF Sound, Counted, Stamped, Watched, Charged, WatchedUntil
<1>5. Payload'.date = None /\ Payload'.prevStamp = None
  BY <1>1 DEF Payload
<1>6. Sound(Payload)'
  BY <1>0, <1>2, <1>5 DEF Sound, Counted, Stamped, Watched, Charged
<1>7. TypeOK'
  <2>1. restarts' \in 0..MaxRestarts
    BY <1>0, <1>1
  <2>2. date' \in 0..Today' \cup {None} /\ lastReset' \in 0..Today' \cup {None}
    BY <1>1
  <2> QED
    BY <1>0, <1>1, <1>2, <1>3, <2>1, <2>2 DEF TypeOK
<1>8. DayInv' /\ TimerInv'
  BY <1>0, <1>1, <1>2 DEF DayInv, TimerInv, Blank
<1> QED
  BY <1>4, <1>6, <1>7, <1>8 DEF IInv

\* Home Assistant starts: the stamp is taken up, and the rest if it is of today.
LEMMA StartKeeps ==
  ASSUME IInv, Start
  PROVE  IInv'
<1>0. /\ TypeOK /\ DayInv /\ TimerInv /\ Sound(Payload) /\ None \notin Int /\ Today \in Nat
      /\ clock \in Nat /\ StartOfDay \in Nat
  BY Numbers DEF IInv
<1>1. /\ ~up /\ up' = TRUE /\ frameTime' \in {None, clock}
      /\ UNCHANGED <<clock, running, flow, time, total, timer, stored, watched, opened,
                     flowed, steady, switches, sessions, restarts>>
  BY DEF Start, stationVars, historyVars
<1>2. Blank /\ timer = "set"
  BY <1>0, <1>1 DEF TimerInv
<1>3. Today' = Today /\ StartOfDay' = StartOfDay
  BY <1>1 DEF Today, StartOfDay
<1>4. /\ Sound(Payload)'
      /\ accumulated' \in Nat /\ prev' \in Nat \cup {None} /\ prevTotal' \in Nat \cup {None}
      /\ prevStamp' \in 0..clock \cup {None} /\ incomplete' \in BOOLEAN
      /\ dayHadFrame' \in BOOLEAN
      /\ date' \in 0..Today \cup {None} /\ lastReset' \in 0..Today \cup {None}
  <2>1. CASE stored = None
    <3>1. UNCHANGED <<accumulated, prev, date, incomplete, dayHadFrame, prevTotal,
                      prevStamp, lastReset>>
      BY <2>1 DEF Start, sensorVars
    <3>2. Payload' = Payload
      BY <3>1 DEF Payload
    <3>3. Sound(Payload)'
      BY <1>0, <1>1, <1>3, <3>2
      DEF Sound, Counted, Stamped, Watched, Charged, WatchedUntil
    <3> QED
      BY <1>0, <3>1, <3>3 DEF TypeOK
  <2>2. CASE stored # None
    <3>1. stored \in Payloads /\ Sound(stored) /\ Restore(stored)
      BY <1>0, <2>2 DEF IInv, TypeOK, Start
    <3>2. stored.prevStamp # None => stored.prevStamp \in 0..clock
      BY <1>0, <3>1 DEF Sound, Stamped, Payloads
    <3>3. CASE stored.date = Today
      <4>1. /\ date' = Today /\ lastReset' = Today /\ accumulated' = stored.accumulated
            /\ prev' = stored.prev /\ prevTotal' = stored.prevTotal
            /\ incomplete' = stored.incomplete /\ dayHadFrame' = stored.dayHadFrame
            /\ prevStamp' = stored.prevStamp
        BY <3>1, <3>3 DEF Restore
      <4>2. /\ Payload'.date = stored.date /\ Payload'.accumulated = stored.accumulated
            /\ Payload'.prev = stored.prev /\ Payload'.prevTotal = stored.prevTotal
            /\ Payload'.incomplete = stored.incomplete
            /\ Payload'.dayHadFrame = stored.dayHadFrame
            /\ Payload'.prevStamp = stored.prevStamp
        BY <3>3, <4>1 DEF Payload
      <4>3. Sound(Payload)'
        BY <1>1, <1>3, <3>1, <4>2
        DEF Sound, Counted, Stamped, Watched, Charged, WatchedUntil
      <4> QED
        BY <1>0, <3>1, <3>2, <4>1, <4>3 DEF Payloads
    <3>4. CASE stored.date # Today
      <4>1. /\ UNCHANGED <<accumulated, prev, date, incomplete, dayHadFrame, prevTotal,
                           lastReset>>
            /\ prevStamp' = stored.prevStamp
        BY <3>1, <3>4 DEF Restore
      <4>2. Payload'.date = None /\ Payload'.prevStamp = stored.prevStamp
        BY <1>2, <4>1 DEF Payload, Blank
      <4>3. Sound(Payload)'
        BY <1>0, <1>1, <1>3, <3>1, <3>4, <4>2
        DEF Sound, Counted, Stamped, Watched, Charged
      <4> QED
        BY <1>0, <3>1, <3>2, <4>1, <4>3 DEF TypeOK
    <3> QED
      BY <3>3, <3>4
  <2> QED
    BY <2>1, <2>2
<1>5. stored' # None => Sound(stored)'
  BY <1>1, <1>3 DEF IInv, Sound, Counted, Stamped, Watched, Charged, WatchedUntil
<1>6. TypeOK'
  <2>1. frameTime' \in 0..clock \cup {None}
    BY <1>0, <1>1
  <2> QED
    BY <1>0, <1>1, <1>3, <1>4, <2>1 DEF TypeOK
<1>7. DayInv' /\ TimerInv'
  BY <1>0, <1>1, <1>2, <1>3 DEF DayInv, TimerInv
<1> QED
  BY <1>4, <1>5, <1>6, <1>7 DEF IInv

\* A new install: nothing is held and nothing has been watched.
LEMMA InitKeeps == Init => IInv
<1> SUFFICES ASSUME Init
             PROVE  IInv
  OBVIOUS
<1>1. /\ DayTicks \in Nat /\ FirstTotal \in Nat /\ FirstClock \in 0..MaxClock /\ None \notin Int
      /\ 0 \in 0..MaxSwitches /\ 0 \in 0..MaxSessions /\ 0 \in 0..MaxRestarts
      /\ 0 \in 0..DayTicks /\ clock \in Nat
  BY SessionTimeAssumption DEF Init
<1>2. Today \in Nat /\ StartOfDay \in Nat /\ StartOfDay <= clock
  BY <1>1, DayFacts DEF Today, StartOfDay
<1>3. TypeOK
  BY <1>1, <1>2 DEF Init, Blank, TypeOK
<1>4. DayInv /\ TimerInv
  BY <1>1, <1>2 DEF Init, DayInv, TimerInv
<1>5. Payload.date = None /\ Payload.prevStamp = None
  BY DEF Init, Blank, Payload
<1>6. Sound(Payload)
  BY <1>1, <1>2, <1>5 DEF Sound, Counted, Stamped, Watched, Charged
<1> QED
  BY <1>3, <1>4, <1>6 DEF Init, IInv

\* The invariant is inductive: one case per action.
LEMMA NextKeeps == IInv /\ [Next]_vars => IInv'
<1> SUFFICES ASSUME IInv, [Next]_vars
             PROVE  IInv'
  OBVIOUS
<1>1. CASE Tick
  BY <1>1, TickKeeps
<1>2. CASE SwitchCurrent \/ StartSession \/ EndSession
  BY <1>2, StationKeeps
<1>3. CASE RollOverAtMidnight
  BY <1>3, RollOverKeeps
<1>4. CASE PollAnswered
  BY <1>4, PollKeeps
<1>5. CASE Dump
  BY <1>5, DumpKeeps
<1>6. CASE Stop
  BY <1>6, StopKeeps
<1>7. CASE Start
  BY <1>7, StartKeeps
<1>8. CASE UNCHANGED vars
  BY <1>8 DEF vars, stationVars, sensorVars, historyVars, IInv, TypeOK, Today, StartOfDay,
              DayInv, TimerInv, Blank, Payload, Sound, Counted, Stamped, Watched, Charged,
              WatchedUntil
<1> QED
  BY <1>1, <1>2, <1>3, <1>4, <1>5, <1>6, <1>7, <1>8 DEF Next

\* The invariant holds in every state the sensor reaches.
THEOREM DayIsWatched == Spec => []IInv
<1> QED
  BY InitKeeps, NextKeeps, PTL DEF Spec

-----------------------------------------------------------------------------
\* Every variable of the daily session time sensor has its type; in particular no
\* more time is open in a day than the day has.
THEOREM TypeCorrect == Spec => []TypeOK
<1>1. IInv => TypeOK
  BY DEF IInv
<1> QED
  BY <1>1, DayIsWatched, PTL

\* A day that does not flag itself incomplete was watched without a gap from
\* midnight to the latest reading, through restarts and crashes.
THEOREM CompleteDayIsWatched == Spec => []CompleteIsWatched
<1>1. IInv => CompleteIsWatched
  BY DEF IInv, Sound, Watched, Payload, CompleteIsWatched
<1> QED
  BY <1>1, DayIsWatched, PTL

\* The figure of the day is at most the time a session was open since midnight, and
\* nothing on a day without current, whatever turned the day over.
THEOREM NightIsNotBilled == Spec => []CountedIsToday
<1>1. IInv => CountedIsToday
  BY DEF IInv, Sound, Counted, Payload, CountedIsToday
<1> QED
  BY <1>1, DayIsWatched, PTL

\* On a complete day of uninterrupted charging the figure lacks at most the
\* tolerance at the day's start, restarts included.
THEOREM ChargingTimeIsKept == Spec => []ChargingIsCounted
<1>1. IInv => ChargingIsCounted
  <2> SUFFICES ASSUME IInv, date = Today, ~incomplete, steady, prevStamp # None
               PROVE  accumulated >= prevStamp - StartOfDay - Tolerance
    BY DEF ChargingIsCounted
  <2>1. prevStamp <= accumulated + StartOfDay + Tolerance
    BY DEF IInv, Sound, Charged, Payload
  <2>2. /\ prevStamp \in Nat /\ accumulated \in Nat /\ StartOfDay \in Nat /\ Tolerance \in Nat
    BY Numbers, SessionTimeAssumption DEF IInv, TypeOK
  <2> QED
    BY <2>1, <2>2
<1> QED
  BY <1>1, DayIsWatched, PTL
=============================================================================
