-------------------------- MODULE DailyEnergyProofs --------------------------
(* What the daily energy sensor promises of its figure, for any length of   *)
(* the day, any number of power cuts, resets and restarts.                  *)
EXTENDS DailyEnergy, TLAPS

StartOfDay == Today * DayTicks

\* The energy of the day flowed since midnight, at most one unit in a tick.
DayDated ==
  /\ delivered + StartOfDay <= clock + atMidnight
  /\ delivered <= clock
  /\ total + lost = FirstTotal + delivered

\* What is known of a frame with a reading, from when it was taken: what had been
\* delivered and lost by then, and how far it was from midnight.
Seen(f) ==
  /\ f.total \in Nat /\ f.at \in 0..clock /\ f.delivered \in 0..delivered
  /\ delivered + f.at <= clock + f.delivered
  /\ f.at >= StartOfDay =>
       atMidnight <= f.delivered /\ f.delivered + StartOfDay <= f.at + atMidnight
  /\ f.at < StartOfDay =>
       f.delivered <= atMidnight /\ atMidnight + f.at <= StartOfDay + f.delivered
  /\ carried <= f.delivered
  /\ f.lost \in lostCarried..lost
  /\ f.total + f.lost = FirstTotal + f.delivered

\* It is no older than the reading of p, and measured against the baseline of p it
\* does not give more than was delivered.
Fits(f, p) ==
  /\ p.atReading <= f.delivered /\ p.lostReading <= f.lost
  /\ p.date = Today /\ p.baseline # None =>
       f.total + carried <= f.delivered + p.baseline

\* The figure is within the tolerance of what flowed since midnight, or lacks what
\* the counter lost.
Whole(p) ==
  /\ p.computed + atMidnight <= p.atReading + Tolerance
  /\ p.atReading + lostCarried <= p.computed + atMidnight + Tolerance + p.lostReading

\* What the sensor holds, or has stored, says about the day it speaks of.
Sound(p) ==
  /\ p.computed # None => p.computed >= 0
  /\ p.baseline = None => p.computed \in {None, 0}
  /\ p.baseline # None => p.computed # None
  /\ p.baseline # None =>
       p.computed + p.baseline + p.lostReading = FirstTotal + p.atReading
  /\ p.date = Today =>
       /\ p.computed \notin {None, 0} => p.computed + carried <= p.atReading
       /\ p.baseline # None => total + carried <= delivered + p.baseline
       /\ p.baseline # None /\ ~p.incomplete => Whole(p)

\* Until the timer has fired the day has not turned over, or a frame did it.
TimerInv ==
  /\ timer = "due" => date # Today
  /\ timer = "late" => date # Today \/ computed = 0
  /\ lastReset = date
  /\ ~up => timer = "set" /\ frame = None /\ baseline = None /\ computed = None
            /\ date = None /\ atReading = 0 /\ lostReading = 0

\* What is known of the frame in coordinator.data, which a failed poll hands over
\* once more, and of what storage holds.
FrameInv == HasReading(frame) => Seen(frame) /\ Fits(frame, Payload)

StoredInv ==
  stored # None =>
    /\ stored.date \in 0..Today \cup {None} /\ stored.atReading <= delivered
    /\ stored.lostReading <= lost
    /\ Sound(stored)

\* The inductive invariant.
IInv ==
  TypeOK /\ DayDated /\ FrameInv /\ Sound(Payload) /\ StoredInv /\ TimerInv

-----------------------------------------------------------------------------
\* The day: what a tick does to it.

\* The day began no later than now, and a tick either leaves it or, at midnight,
\* begins the next one.
LEMMA DayFacts ==
  ASSUME NEW t \in Nat
  PROVE  /\ t \div DayTicks \in Nat /\ (t + 1) \div DayTicks \in Nat
         /\ (t \div DayTicks) * DayTicks \in Nat /\ (t \div DayTicks) * DayTicks <= t
         /\ IF (t + 1) % DayTicks = 0
            THEN /\ (t + 1) \div DayTicks = t \div DayTicks + 1
                 /\ ((t + 1) \div DayTicks) * DayTicks = t + 1
            ELSE (t + 1) \div DayTicks = t \div DayTicks
<1>1. DayTicks \in Nat /\ 0 < DayTicks
  BY DailyAssumption
<1> DEFINE q == t \div DayTicks   r == t % DayTicks
           p == (t + 1) \div DayTicks   s == (t + 1) % DayTicks
<1>2. q \in Int /\ r \in 0..(DayTicks - 1) /\ t = DayTicks * q + r
  BY <1>1
<1>3. p \in Int /\ s \in 0..(DayTicks - 1) /\ t + 1 = DayTicks * p + s
  BY <1>1
<1> HIDE DEF q, r, p, s
<1> QED
  BY <1>1, <1>2, <1>3

\* What the types say of the numbers the proofs compute with.
LEMMA Numbers ==
  ASSUME TypeOK
  PROVE  /\ clock \in Nat /\ total \in Nat /\ delivered \in Nat /\ atMidnight \in Nat
         /\ carried \in Nat /\ atReading \in Nat /\ losses \in Nat
         /\ lost \in Nat /\ lostCarried \in 0..lost /\ lostReading \in 0..lost
         /\ Today \in Nat /\ StartOfDay \in Nat /\ StartOfDay <= clock
         /\ FirstTotal \in Nat /\ Tolerance \in Nat
         /\ baseline # None => baseline \in Int
         /\ computed # None => computed \in Int
         /\ carried <= atMidnight /\ atMidnight <= delivered /\ atReading <= delivered
         /\ None \notin Int
<1>1. clock \in Nat /\ delivered \in Nat
  BY DailyAssumption DEF TypeOK
<1>2. Today \in Nat /\ StartOfDay \in Nat /\ StartOfDay <= clock
  BY <1>1, DayFacts DEF Today, StartOfDay
<1> QED
  BY <1>1, <1>2, DailyAssumption DEF TypeOK

\* A frame within the tolerance of midnight lies within it of the energy at
\* midnight: at most one unit flows in a tick.
LEMMA CoveredIsClose ==
  ASSUME TypeOK, NEW f, Seen(f), CoversMidnight(f.at)
  PROVE  f.delivered <= atMidnight + Tolerance /\ atMidnight <= f.delivered + Tolerance
<1>1. f.at \in Nat /\ f.delivered \in Nat /\ StartOfDay \in Nat /\ atMidnight \in Nat
      /\ Tolerance \in Nat
  BY Numbers DEF Seen
<1>2. f.at - StartOfDay <= Tolerance /\ StartOfDay - f.at <= Tolerance
  BY <1>1 DEF CoversMidnight, StartOfDay
<1>3. CASE f.at >= StartOfDay
  BY <1>1, <1>2, <1>3 DEF Seen
<1>4. CASE f.at < StartOfDay
  BY <1>1, <1>2, <1>4 DEF Seen
<1> QED
  BY <1>1, <1>3, <1>4

\* A frame with a reading, new or handed over once more: the figure it gives is
\* sound, and falls within the day by no more than the counter lost.
LEMMA HandleKeeps ==
  ASSUME TypeOK, DayDated, Sound(Payload), lastReset = date, NEW f, f # None, f.total # None,
         Seen(f), Fits(f, Payload), HandleUpdate(f),
         UNCHANGED <<clock, total, delivered, lost, dayVars>>
  PROVE  /\ date' = Today /\ lastReset' = Today
         /\ atReading' = f.delivered /\ lostReading' = f.lost
         /\ baseline' \in Int /\ computed' \in Int /\ incomplete' \in BOOLEAN
         /\ Sound(Payload') /\ Fits(f, Payload')
         /\ date # Today => computed' = 0
         /\ date = Today /\ computed # None /\ computed' < computed =>
              computed - computed' <= f.lost - lostReading
<1>0. /\ clock \in Nat /\ total \in Nat /\ delivered \in Nat /\ atMidnight \in Nat
      /\ carried \in Nat /\ atReading \in Nat /\ Today \in Nat
      /\ lost \in Nat /\ lostCarried \in Nat /\ lostReading \in Nat
      /\ FirstTotal \in Nat /\ Tolerance \in Nat /\ None \notin Int
      /\ baseline # None => baseline \in Int
      /\ computed # None => computed \in Int
      /\ carried <= atMidnight /\ atMidnight <= delivered
  BY Numbers
<1>1. /\ f.total \in Nat /\ f.delivered \in Nat /\ f.delivered <= delivered
      /\ f.lost \in Nat /\ lostCarried <= f.lost /\ f.lost <= lost
      /\ carried <= f.delivered
      /\ f.total + f.lost = FirstTotal + f.delivered
  BY <1>0 DEF Seen
<1>2. /\ computed # None => computed >= 0
      /\ baseline = None => computed \in {None, 0}
      /\ baseline # None => computed # None
      /\ baseline # None => computed + baseline + lostReading = FirstTotal + atReading
      /\ date = Today =>
           /\ computed \notin {None, 0} => computed + carried <= atReading
           /\ baseline # None => total + carried <= delivered + baseline
           /\ baseline # None /\ ~incomplete =>
                /\ computed + atMidnight <= atReading + Tolerance
                /\ atReading + lostCarried <= computed + atMidnight + Tolerance + lostReading
  BY DEF Sound, Whole, Payload
<1>3. /\ atReading <= f.delivered /\ lostReading <= f.lost
      /\ date = Today /\ baseline # None => f.total + carried <= f.delivered + baseline
  BY DEF Fits, Payload
<1>4. date' = Today /\ lastReset' = Today /\ atReading' = f.delivered /\ lostReading' = f.lost
  BY DEF HandleUpdate, HasReading
<1>5. Today' = Today
  BY DEF Today
\* It is enough to look at the figure, the baseline and the flag.
<1>6. ASSUME baseline' \in Int, computed' \in Int, incomplete' \in BOOLEAN,
             computed' >= 0, computed' = f.total - baseline',
             computed' # 0 => computed' + carried <= f.delivered,
             total + carried <= delivered + baseline',
             f.total + carried <= f.delivered + baseline',
             ~incomplete' =>
               /\ computed' + atMidnight <= f.delivered + Tolerance
               /\ f.delivered + lostCarried <= computed' + atMidnight + Tolerance + f.lost
      PROVE  Sound(Payload') /\ Fits(f, Payload')
  <2>1. Payload' = [date |-> Today, baseline |-> baseline', computed |-> computed',
                    incomplete |-> incomplete', atReading |-> f.delivered,
                    lostReading |-> f.lost]
    BY <1>4 DEF Payload
  <2>2. computed' + baseline' + f.lost = FirstTotal + f.delivered
    BY <1>0, <1>1, <1>6
  <2>3. Sound(Payload')
    BY <1>0, <1>6, <2>1, <2>2 DEF Sound, Whole
  <2>4. Fits(f, Payload')
    BY <1>1, <1>6, <2>1 DEF Fits
  <2> QED
    BY <2>3, <2>4
\* A frame gives the day its first baseline, itself: at the turn of the day, or
\* after the timer.
<1>7. ASSUME baseline' = f.total, computed' = f.total - baseline',
             incomplete' = ~CoversMidnight(f.at)
      PROVE  /\ baseline' \in Int /\ computed' = 0 /\ incomplete' \in BOOLEAN
             /\ Sound(Payload') /\ Fits(f, Payload')
  <2>1. baseline' \in Int /\ computed' = 0
    BY <1>1, <1>7
  <2>2. incomplete' \in BOOLEAN
    BY <1>7 DEF CoversMidnight
  <2>3. ~incomplete' => f.delivered <= atMidnight + Tolerance
                        /\ atMidnight <= f.delivered + Tolerance
    <3>1. ~incomplete' => CoversMidnight(f.at)
      BY <1>7, Zenon
    <3> QED
      BY <3>1, CoveredIsClose
  <2>4. ~incomplete' =>
          /\ computed' + atMidnight <= f.delivered + Tolerance
          /\ f.delivered + lostCarried <= computed' + atMidnight + Tolerance + f.lost
    BY <1>0, <1>1, <2>1, <2>3
  <2>5. total + carried <= delivered + baseline'
    <3>1. total + lost = FirstTotal + delivered
      BY DEF DayDated
    <3> QED
      BY <1>0, <1>1, <1>7, <3>1
  <2> QED
    BY <1>0, <1>1, <1>6, <1>7, <2>1, <2>2, <2>4, <2>5
<1>8. CASE date # Today
  <2>1. /\ baseline' = f.total /\ computed' = f.total - baseline'
        /\ incomplete' = ~CoversMidnight(f.at)
    BY <1>0, <1>1, <1>8 DEF HandleUpdate, HasReading
  <2> QED
    BY <1>0, <1>4, <1>7, <1>8, <2>1
<1>9. CASE date = Today /\ baseline = None
  <2>1. /\ baseline' = f.total /\ computed' = f.total - baseline'
        /\ incomplete' = ~CoversMidnight(f.at)
    <3>1. OrZero(computed) = 0
      BY <1>2, <1>9 DEF OrZero
    <3> QED
      BY <1>0, <1>1, <1>9, <3>1 DEF HandleUpdate, HasReading
  <2> QED
    BY <1>0, <1>2, <1>4, <1>7, <1>9, <2>1
\* The counter is below the baseline: it is taken anew, and the figure stays.
<1>10. CASE date = Today /\ baseline # None /\ f.total < baseline
  <2>1. /\ baseline' = f.total - computed /\ computed' = f.total - baseline'
        /\ incomplete' = incomplete /\ computed \in Int
    BY <1>0, <1>1, <1>2, <1>10 DEF HandleUpdate, HasReading, OrZero
  <2>2. computed' = computed /\ baseline' \in Int
    BY <1>1, <2>1
  <2>3. computed # 0 => computed + carried <= f.delivered
    BY <1>0, <1>1, <1>2, <1>3, <1>10, <2>1
  <2>4. incomplete' \in BOOLEAN
    BY <2>1 DEF TypeOK
  <2>5. f.delivered + lostReading <= atReading + f.lost
    <3>1. /\ computed >= 0 /\ baseline \in Int /\ f.total < baseline
          /\ computed + baseline + lostReading = FirstTotal + atReading
      BY <1>0, <1>2, <1>10
    <3> QED
      BY <1>0, <1>1, <2>1, <3>1
  <2>6. ~incomplete' =>
          /\ computed' + atMidnight <= f.delivered + Tolerance
          /\ f.delivered + lostCarried <= computed' + atMidnight + Tolerance + f.lost
    <3>1. ~incomplete' =>
            /\ computed + atMidnight <= atReading + Tolerance
            /\ atReading + lostCarried <= computed + atMidnight + Tolerance + lostReading
      BY <1>2, <1>10, <2>1
    <3> QED
      BY <1>0, <1>1, <1>3, <2>1, <2>2, <2>5, <3>1
  <2>7. f.total + carried <= f.delivered + baseline'
    BY <1>0, <1>1, <1>2, <2>1, <2>3
  <2>8. total + carried <= delivered + baseline'
    <3>1. total + lost = FirstTotal + delivered
      BY DEF DayDated
    <3> QED
      BY <1>0, <1>1, <2>2, <2>7, <3>1
  <2>9. Sound(Payload') /\ Fits(f, Payload')
    BY <1>0, <1>2, <1>6, <1>10, <2>1, <2>2, <2>3, <2>4, <2>6, <2>7, <2>8
  <2> QED
    BY <1>0, <1>4, <1>10, <2>1, <2>2, <2>4, <2>9
\* The baseline stays, and the figure follows the counter.
<1>11. CASE date = Today /\ baseline # None /\ ~(f.total < baseline)
  <2>1. /\ baseline' = baseline /\ computed' = f.total - baseline
        /\ incomplete' = incomplete /\ baseline \in Int /\ computed \in Int
    BY <1>0, <1>1, <1>2, <1>11 DEF HandleUpdate, HasReading
  <2>2. incomplete' \in BOOLEAN
    BY <2>1 DEF TypeOK
  <2>3. computed' \in Int /\ computed' >= 0 /\ computed' + carried <= f.delivered
    BY <1>0, <1>1, <1>3, <1>11, <2>1
  <2>4. computed' + f.lost + atReading = computed + lostReading + f.delivered
    <3>1. computed + baseline + lostReading = FirstTotal + atReading
      BY <1>2, <1>11
    <3> QED
      BY <1>0, <1>1, <2>1, <3>1
  <2>5. ~incomplete' =>
          /\ computed' + atMidnight <= f.delivered + Tolerance
          /\ f.delivered + lostCarried <= computed' + atMidnight + Tolerance + f.lost
    BY <1>0, <1>1, <1>2, <1>3, <1>11, <2>1, <2>3, <2>4
  <2>6. Sound(Payload') /\ Fits(f, Payload')
    BY <1>0, <1>1, <1>2, <1>3, <1>6, <1>11, <2>1, <2>2, <2>3, <2>5
  <2>7. computed - computed' <= f.lost - lostReading
    BY <1>0, <1>1, <1>3, <2>1, <2>3, <2>4
  <2> QED
    BY <1>4, <1>11, <2>1, <2>2, <2>3, <2>6, <2>7
<1> QED
  BY <1>8, <1>9, <1>10, <1>11

\* What the sensor would store.
LEMMA PayloadType ==
  ASSUME TypeOK
  PROVE  /\ Payload \in Payloads
         /\ Payload.date \in 0..Today \cup {None} /\ Payload.atReading \in 0..delivered
         /\ Payload.lostReading \in 0..lost
<1>1. atReading \in 0..MaxClock /\ lostReading \in Nat /\ date \in Nat \cup {None}
  BY Numbers, DailyAssumption DEF TypeOK
<1> QED
  BY <1>1 DEF Payload, Payloads, TypeOK

\* What holds of a counter's distance keeps to the energy delivered meanwhile.
LEMMA NoFaster ==
  ASSUME NEW t \in Int, NEW t1 \in Int, NEW d \in Int, NEW d1 \in Int,
         NEW b \in Int, NEW c \in Int, t + c <= d + b, t1 + d <= t + d1
  PROVE  t1 + c <= d1 + b
  OBVIOUS

\* What is sound stays so while time passes, energy flows and the counter loses some.
LEMMA SoundStays ==
  ASSUME TypeOK, NEW p \in Payloads, Sound(p), p.date \in 0..Today \cup {None},
         total' \in Nat, delivered' \in Nat,
         \/ Today' = Today /\ UNCHANGED dayVars
         \/ Today' = Today + 1,
         total' + delivered <= total + delivered'
  PROVE  Sound(p)' /\ p.date \in 0..Today' \cup {None}
<1>1. /\ total \in Int /\ delivered \in Int /\ Today \in Nat /\ None \notin Int
      /\ total' \in Int /\ delivered' \in Int
  BY Numbers
<1>2. p.baseline # None => p.baseline \in Int
  BY DEF Payloads
<1>3. CASE Today' = Today /\ UNCHANGED dayVars
  <2>1. ASSUME p.date = Today, p.baseline # None
        PROVE  total' + carried <= delivered' + p.baseline
    <3>1. carried \in Int /\ p.baseline \in Int
      BY <1>2, <2>1, Numbers
    <3>2. total + carried <= delivered + p.baseline
      BY <2>1 DEF Sound
    <3> QED
      BY <1>1, <3>1, <3>2, NoFaster, Zenon
  <2> QED
    BY <1>1, <1>3, <2>1 DEF Sound, Whole, dayVars
<1>4. CASE Today' = Today + 1
  <2>1. p.date # Today' /\ p.date \in 0..Today' \cup {None}
    BY <1>1, <1>4
  <2> QED
    BY <2>1 DEF Sound
<1> QED
  BY <1>3, <1>4

\* Time passes, with or without energy; at midnight everything known of the day
\* before is void.
LEMMA TickKeeps ==
  ASSUME IInv, Tick
  PROVE  IInv'
<1>0. /\ clock \in Nat /\ total \in Nat /\ delivered \in Nat /\ atMidnight \in Nat
      /\ carried \in Nat /\ atReading \in Nat /\ lost \in Nat
      /\ Today \in Nat /\ StartOfDay \in Nat /\ StartOfDay <= clock /\ None \notin Int
      /\ carried <= atMidnight /\ atMidnight <= delivered /\ atReading <= delivered
      /\ TypeOK
  BY Numbers DEF IInv
<1>1. /\ clock < MaxClock /\ timer = "set" /\ clock' = clock + 1
      /\ UNCHANGED <<up, lastOk, frame, baseline, computed, date, incomplete, lastReset,
                     stored, lost, atReading, lostReading, losses, restarts>>
  BY DEF Tick, sensorVars, readingVars
<1>2. PICK e \in {0, 1} : total' = total + e /\ delivered' = delivered + e
  BY DEF Tick
<1> DEFINE midnight == (clock + 1) % DayTicks = 0
<1>3. /\ timer' = IF midnight /\ up THEN "due" ELSE "set"
      /\ atMidnight' = IF midnight THEN delivered' ELSE atMidnight
      /\ ~midnight => carried' = carried /\ lostCarried' = lostCarried
      /\ midnight /\ HasReading(frame) =>
           carried' = frame.delivered /\ lostCarried' = frame.lost
      /\ midnight /\ ~HasReading(frame) => carried' = delivered' /\ lostCarried' = lost
  BY DEF Tick
<1>4. /\ midnight => Today' = Today + 1 /\ StartOfDay' = clock + 1
      /\ ~midnight => Today' = Today /\ StartOfDay' = StartOfDay
  BY <1>0, <1>1, DayFacts DEF Today, StartOfDay
<1> HIDE DEF midnight
<1>5. HasReading(frame) => frame.delivered \in 0..delivered /\ frame.lost \in 0..lost
  BY <1>0, Numbers DEF IInv, FrameInv, Seen
<1>6. /\ delivered' \in 0..MaxClock /\ clock' \in 0..MaxClock /\ delivered' \in Nat /\ total' \in Nat
      /\ atMidnight' \in 0..delivered' /\ carried' \in 0..atMidnight'
      /\ lostCarried' \in 0..lost
  BY <1>0, <1>1, <1>2, <1>3, <1>5, DailyAssumption, Numbers DEF IInv, DayDated
<1>7. DayDated'
  BY <1>0, <1>1, <1>2, <1>3, <1>4, DailyAssumption DEF IInv, DayDated
<1>8. TypeOK'
  BY <1>0, <1>1, <1>2, <1>3, <1>4, <1>6 DEF TypeOK
<1>9. Payload' = Payload
  BY <1>1 DEF Payload
<1>10. (Today' = Today /\ UNCHANGED dayVars) \/ Today' = Today + 1
  BY <1>3, <1>4 DEF dayVars
<1>11. ASSUME NEW p \in Payloads, Sound(p), p.date \in 0..Today \cup {None}
       PROVE  Sound(p)' /\ p.date \in 0..Today' \cup {None}
  BY <1>0, <1>1, <1>2, <1>6, <1>10, <1>11, SoundStays
<1>13. Sound(Payload)' /\ Payload.date \in 0..Today' \cup {None}
  BY <1>0, <1>9, <1>11, PayloadType DEF IInv
<1>12. StoredInv'
  <2>1. stored # None => stored \in Payloads
    BY <1>0 DEF TypeOK
  <2>2. stored # None => Sound(stored)' /\ stored.date \in 0..Today' \cup {None}
    BY <1>1, <1>11, <2>1 DEF IInv, StoredInv
  <2>3. stored # None => stored.atReading \in Int /\ stored.atReading <= delivered
    BY <2>1 DEF IInv, StoredInv, Payloads
  <2>4. stored # None => stored.atReading <= delivered'
    BY <1>0, <1>2, <2>3
  <2>5. stored' = stored
    BY <1>1
  <2> QED
    BY <1>1, <2>2, <2>4, <2>5 DEF IInv, StoredInv, Sound, Whole
<1>14. FrameInv'
  <2>1. HasReading(frame) => Seen(frame) /\ Fits(frame, Payload)
    BY DEF IInv, FrameInv
  <2>2. ASSUME HasReading(frame)
        PROVE  Seen(frame)'
    <3>1. /\ Seen(frame) /\ frame.at \in Int /\ frame.delivered \in Int
          /\ frame.total \in Int /\ frame' = frame /\ lost' = lost
          /\ frame.lost \in 0..lost /\ FirstTotal \in Int
      BY <1>1, <1>5, <2>1, <2>2, DailyAssumption DEF Seen
    <3>2. CASE midnight
      <4>1. /\ atMidnight' = delivered + e /\ carried' = frame.delivered
            /\ lostCarried' = frame.lost
            /\ StartOfDay' = clock + 1
        BY <1>2, <1>3, <1>4, <2>2, <3>2
      <4> QED
        BY <1>0, <1>1, <1>2, <3>1, <4>1 DEF Seen
    <3>3. CASE ~midnight
      <4>1. /\ atMidnight' = atMidnight /\ carried' = carried
            /\ lostCarried' = lostCarried
            /\ StartOfDay' = StartOfDay
        BY <1>3, <1>4, <3>3
      <4> QED
        BY <1>0, <1>1, <1>2, <3>1, <4>1 DEF Seen
    <3> QED
      BY <3>2, <3>3
  <2>3. ASSUME HasReading(frame)
        PROVE  Fits(frame, Payload)'
    <3>1. Fits(frame, Payload) /\ frame' = frame
      BY <1>1, <2>1, <2>3
    <3>2. CASE midnight
      <4>1. Payload.date # Today'
        BY <1>0, <1>4, <3>2, PayloadType
      <4> QED
        BY <1>9, <3>1, <4>1 DEF Fits
    <3>3. CASE ~midnight
      BY <1>3, <1>4, <1>9, <3>1, <3>3 DEF Fits
    <3> QED
      BY <3>2, <3>3
  <2> QED
    BY <1>1, <2>2, <2>3 DEF FrameInv, HasReading
<1>15. TimerInv'
  <2>1. TimerInv
    BY DEF IInv
  <2>2. midnight => date # Today'
    BY <1>0, <1>4 DEF TypeOK
  <2> QED
    BY <1>1, <1>3, <2>1, <2>2 DEF TimerInv
<1> QED
  BY <1>7, <1>8, <1>12, <1>13, <1>14, <1>15 DEF IInv

\* What the counter loses it has delivered and shows no more.
LEMMA LossKeeps ==
  ASSUME IInv, NEW amount \in Nat, amount <= total, CounterLoses(amount)
  PROVE  IInv'
<1>0. /\ clock \in Nat /\ total \in Nat /\ delivered \in Nat /\ atMidnight \in Nat
      /\ carried \in Nat /\ losses \in Nat /\ Today \in Nat /\ StartOfDay \in Nat
      /\ lost \in Nat /\ lostCarried \in 0..lost /\ lostReading \in 0..lost
      /\ None \notin Int /\ TypeOK
  BY Numbers DEF IInv
<1>1. /\ losses' = losses + 1 /\ losses < MaxLosses
      /\ total' = total - amount /\ lost' = lost + amount
      /\ UNCHANGED <<clock, up, timer, lastOk, frame, baseline, computed, date,
                     incomplete, lastReset, stored, delivered, atMidnight, carried,
                     lostCarried, atReading, lostReading, restarts>>
  BY DEF CounterLoses, sensorVars, dayVars, readingVars
<1>2. Today' = Today /\ StartOfDay' = StartOfDay /\ Payload' = Payload
  BY <1>1 DEF Today, StartOfDay, Payload
<1>3. total' \in Nat /\ lost' \in Nat /\ lost <= lost'
  BY <1>0, <1>1
<1>4. TypeOK'
  <2>1. losses' \in 0..MaxLosses
    BY <1>0, <1>1, DailyAssumption
  <2>2. lostCarried' \in 0..lost' /\ lostReading' \in 0..lost'
    BY <1>0, <1>1, <1>3
  <2> QED
    BY <1>0, <1>1, <1>2, <1>3, <2>1, <2>2 DEF TypeOK
<1>5. DayDated'
  <2>1. total + lost = FirstTotal + delivered /\ FirstTotal \in Nat
    BY Numbers DEF IInv, DayDated
  <2>2. total' + lost' = FirstTotal' + delivered'
    BY <1>0, <1>1, <2>1
  <2> QED
    BY <1>1, <1>2, <2>2 DEF IInv, DayDated
<1>6. ASSUME NEW p \in Payloads, Sound(p), p.date \in 0..Today \cup {None}
      PROVE  Sound(p)'
  <2>1. total' \in Nat /\ delivered' \in Nat /\ total' + delivered <= total + delivered'
    BY <1>0, <1>1, <1>3
  <2> QED
    BY <1>0, <1>1, <1>2, <1>6, <2>1, SoundStays DEF dayVars
<1>7. Sound(Payload)'
  BY <1>0, <1>2, <1>6, PayloadType DEF IInv
<1>8. StoredInv'
  <2>1. ASSUME stored # None
        PROVE  Sound(stored)' /\ stored.lostReading \in Nat /\ stored.lostReading <= lost'
    <3>1. stored \in Payloads /\ stored.lostReading <= lost
      BY <1>0, <2>1 DEF IInv, StoredInv, TypeOK
    <3>2. stored.lostReading \in Nat
      BY <3>1 DEF Payloads
    <3>3. Sound(stored)'
      <4>1. Sound(stored) /\ stored.date \in 0..Today \cup {None}
        BY <2>1 DEF IInv, StoredInv
      <4>2. stored' = stored
        BY <1>1
      <4> QED
        BY <1>6, <3>1, <4>1, <4>2 DEF Sound, Whole
    <3> QED
      BY <1>0, <1>3, <3>1, <3>2, <3>3
  <2> QED
    BY <1>1, <1>2, <2>1 DEF IInv, StoredInv, Sound, Whole
<1>9. FrameInv'
  <2>1. ASSUME HasReading(frame), Seen(frame)
        PROVE  Seen(frame)'
    <3>1. frame.lost \in lostCarried'..lost'
      BY <1>0, <1>1, <1>3, <2>1 DEF Seen
    <3> QED
      BY <1>0, <1>1, <1>2, <2>1, <3>1 DEF Seen
  <2> QED
    BY <1>1, <1>2, <2>1 DEF IInv, FrameInv, HasReading, Fits
<1>10. TimerInv'
  BY <1>1, <1>2 DEF IInv, TimerInv
<1> QED
  BY <1>4, <1>5, <1>7, <1>8, <1>9, <1>10 DEF IInv

\* What holds of a payload does not depend on more than time and the counter.
LEMMA SoundSame ==
  ASSUME NEW p, Sound(p), UNCHANGED <<clock, total, delivered, dayVars>>
  PROVE  Sound(p)'
BY DEF Sound, Whole, Today, dayVars

\* A notification, with a new frame or the one the sensor has already seen.
LEMMA UpdateKeeps ==
  ASSUME IInv, NEW f \in Frames \cup {None},
         HasReading(f) => Seen(f) /\ Fits(f, Payload),
         up, NotBeforeTimer, HandleUpdate(f), frame' = f, lastOk' \in BOOLEAN,
         UNCHANGED <<clock, total, up, stored, delivered, lost, dayVars, losses, restarts>>
  PROVE  IInv'
<1>0. /\ clock \in Nat /\ total \in Nat /\ delivered \in Nat /\ atMidnight \in Nat
      /\ carried \in Nat /\ atReading \in Nat /\ atReading <= delivered
      /\ lost \in Nat /\ lostReading \in 0..lost /\ lostCarried \in 0..lost
      /\ Today \in Nat /\ None \notin Int /\ TypeOK
  BY Numbers DEF IInv
<1>1. Today' = Today /\ StartOfDay' = StartOfDay
  BY DEF Today, StartOfDay
<1>2. TimerInv /\ lastReset = date /\ Sound(Payload)
  BY DEF IInv, TimerInv
<1>3. /\ timer # "late" /\ timer' \in {"set", "late"}
      /\ timer' = "late" => timer = "due"
  BY <1>0 DEF NotBeforeTimer, TypeOK
<1>4. /\ date' \in 0..Today \cup {None} /\ lastReset' = date'
      /\ baseline' \in Int \cup {None} /\ computed' \in Int \cup {None}
      /\ incomplete' \in BOOLEAN /\ atReading' \in 0..delivered /\ lostReading' \in 0..lost
      /\ Sound(Payload') /\ (HasReading(f) => Fits(f, Payload'))
      /\ timer' = "late" => date' # Today \/ computed' = 0
  <2>1. CASE HasReading(f)
    <3>1. f # None /\ f.total # None /\ Seen(f) /\ Fits(f, Payload)
      BY <2>1 DEF HasReading
    <3>2. /\ date' = Today /\ lastReset' = Today
          /\ atReading' = f.delivered /\ lostReading' = f.lost
          /\ baseline' \in Int /\ computed' \in Int /\ incomplete' \in BOOLEAN
          /\ Sound(Payload') /\ Fits(f, Payload')
          /\ (date # Today => computed' = 0)
      BY <1>0, <1>2, <3>1, HandleKeeps DEF IInv
    <3>3. f.delivered \in 0..delivered /\ f.lost \in 0..lost
      BY <1>0, <3>1 DEF Seen
    <3> QED
      BY <1>0, <1>2, <1>3, <3>2, <3>3 DEF TimerInv
  <2>2. CASE ~HasReading(f)
    <3>1. UNCHANGED <<baseline, computed, date, incomplete, lastReset, atReading, lostReading>>
      BY <2>2 DEF HandleUpdate, sensorVars, readingVars
    <3>2. Payload' = Payload
      BY <3>1 DEF Payload
    <3> QED
      BY <1>0, <1>2, <1>3, <2>2, <3>1, <3>2 DEF TimerInv, TypeOK
  <2> QED
    BY <2>1, <2>2
<1>5. TypeOK'
  BY <1>0, <1>1, <1>3, <1>4 DEF TypeOK, dayVars
<1>6. DayDated'
  BY <1>1 DEF IInv, DayDated, dayVars
<1>7. FrameInv'
  BY <1>1, <1>4 DEF FrameInv, HasReading, Seen, Fits, dayVars
<1>8. Sound(Payload)'
  BY <1>1, <1>4 DEF Sound, Whole, dayVars
<1>9. StoredInv'
  BY <1>1 DEF IInv, StoredInv, Sound, Whole, dayVars
<1>10. TimerInv'
  BY <1>1, <1>2, <1>3, <1>4 DEF TimerInv
<1> QED
  BY <1>5, <1>6, <1>7, <1>8, <1>9, <1>10 DEF IInv

\* A frame of now is exact, and fits whatever the sensor holds of today.
LEMMA FreshFits ==
  ASSUME TypeOK, DayDated, NEW p, Sound(p), p.atReading \in 0..delivered,
         p.lostReading \in 0..lost, p.baseline \in Int \cup {None},
         NEW f, f.total = total, f.at = clock, f.delivered = delivered, f.lost = lost
  PROVE  Seen(f) /\ Fits(f, p)
<1>0. /\ clock \in Nat /\ total \in Nat /\ delivered \in Nat /\ atMidnight \in Nat
      /\ carried \in Nat /\ StartOfDay \in Nat /\ StartOfDay <= clock
      /\ carried <= atMidnight /\ atMidnight <= delivered /\ atReading <= delivered
      /\ lost \in Nat /\ lostCarried \in 0..lost
  BY Numbers
<1>1. Seen(f)
  BY <1>0 DEF Seen, DayDated
<1>2. Fits(f, p)
  BY <1>0 DEF Fits, Sound
<1> QED
  BY <1>1, <1>2

\* A poll was answered.
LEMMA PollAnsweredKeeps ==
  ASSUME IInv, PollAnswered
  PROVE  IInv'
<1>0. clock \in 0..MaxClock /\ delivered \in 0..MaxClock /\ total \in Nat /\ lost \in Nat /\ TypeOK
      /\ None \notin Int
  BY Numbers DEF IInv, TypeOK
<1>1. PICK reading \in {total, None} :
        frame' = [total |-> reading, at |-> clock, delivered |-> delivered, lost |-> lost]
  BY DEF PollAnswered
<1> DEFINE f == [total |-> reading, at |-> clock, delivered |-> delivered, lost |-> lost]
<1>2. f \in Frames \cup {None} /\ frame' = f
  BY <1>0, <1>1 DEF Frames
<1>3. HandleUpdate(f)
  BY <1>1 DEF PollAnswered
<1>4. HasReading(f) => Seen(f) /\ Fits(f, Payload)
  <2>1. HasReading(f) => f.total = total /\ f.at = clock /\ f.delivered = delivered
                         /\ f.lost = lost
    BY DEF HasReading
  <2> HIDE DEF f
  <2>2. Payload.atReading \in 0..delivered /\ Payload.baseline \in Int \cup {None}
        /\ Payload.lostReading \in 0..lost
    BY <1>0, PayloadType DEF Payloads
  <2> QED
    BY <2>1, <2>2, FreshFits DEF IInv
<1> HIDE DEF f
<1> QED
  BY <1>2, <1>3, <1>4, UpdateKeeps DEF PollAnswered

\* The first failure hands over the previous frame.
LEMMA PollFailsKeeps ==
  ASSUME IInv, PollFails
  PROVE  IInv'
<1>1. frame \in Frames \cup {None} /\ (HasReading(frame) => Seen(frame) /\ Fits(frame, Payload))
  BY DEF IInv, TypeOK, FrameInv
<1>2. HandleUpdate(frame) /\ frame' = frame /\ lastOk' \in BOOLEAN
  BY DEF PollFails
<1> QED
  BY <1>1, <1>2, UpdateKeeps DEF PollFails

\* The timer turns the day over: zero, and nothing measured yet.
LEMMA RollOverKeeps ==
  ASSUME IInv, RollOverAtMidnight
  PROVE  IInv'
<1>0. Today \in Nat /\ TypeOK /\ None \notin Int /\ TimerInv
  BY Numbers DEF IInv
<1>1. /\ timer # "set" /\ timer' = "set" /\ baseline' = None /\ computed' = 0
      /\ incomplete' = TRUE /\ date' = Today /\ lastReset' = Today
      /\ UNCHANGED <<clock, total, up, lastOk, frame, stored, delivered, lost, atMidnight,
                     carried, lostCarried, atReading, lostReading, losses, restarts>>
  BY DEF RollOverAtMidnight, historyVars, dayVars, readingVars
<1>2. Today' = Today /\ StartOfDay' = StartOfDay
  BY <1>1 DEF Today, StartOfDay
<1>3. TypeOK'
  BY <1>0, <1>1, <1>2 DEF TypeOK
<1>4. Payload' = [date |-> Today, baseline |-> None, computed |-> 0,
                  incomplete |-> TRUE, atReading |-> atReading, lostReading |-> lostReading]
  BY <1>1 DEF Payload
<1>5. Sound(Payload)'
  BY <1>0, <1>4 DEF Sound
<1>6. FrameInv'
  <2>1. HasReading(frame) => Seen(frame) /\ atReading <= frame.delivered
                             /\ lostReading <= frame.lost
    BY DEF IInv, FrameInv, Fits, Payload
  <2> QED
    BY <1>1, <1>2, <1>4, <2>1 DEF FrameInv, HasReading, Seen, Fits
<1>7. DayDated' /\ StoredInv'
  BY <1>1, <1>2 DEF IInv, DayDated, StoredInv, Sound, Whole
<1>8. TimerInv'
  BY <1>0, <1>1, <1>2 DEF TimerInv
<1> QED
  BY <1>3, <1>5, <1>6, <1>7, <1>8 DEF IInv

\* Storage is given what the sensor holds.
LEMMA DumpKeeps ==
  ASSUME IInv, Dump
  PROVE  IInv'
<1>0. TypeOK /\ Sound(Payload)
  BY DEF IInv
<1>1. /\ stored' = Payload
      /\ UNCHANGED <<clock, total, up, timer, lastOk, frame, baseline, computed, date,
                     incomplete, lastReset, delivered, lost, atMidnight, carried,
                     lostCarried, atReading, lostReading, losses, restarts>>
  BY DEF Dump, sensorVars, historyVars, dayVars, readingVars
<1>2. Today' = Today /\ StartOfDay' = StartOfDay /\ Payload' = Payload
  BY <1>1 DEF Today, StartOfDay, Payload
<1>3. /\ Payload \in Payloads /\ Payload.date \in 0..Today \cup {None}
      /\ Payload.atReading <= delivered /\ Payload.lostReading <= lost
  BY <1>0, PayloadType, Numbers
<1>4. Sound(Payload)'
  BY <1>0, <1>1, <1>2 DEF Sound, Whole
<1>5. StoredInv'
  BY <1>1, <1>2, <1>3, <1>4 DEF StoredInv, Sound, Whole
<1>6. TypeOK'
  BY <1>0, <1>1, <1>2, <1>3 DEF TypeOK
<1>7. DayDated' /\ FrameInv' /\ TimerInv'
  BY <1>1, <1>2 DEF IInv, DayDated, FrameInv, HasReading, Seen, Fits, TimerInv
<1> QED
  BY <1>4, <1>5, <1>6, <1>7 DEF IInv

\* Home Assistant stops; what storage holds is of now or of the last dump.
LEMMA StopKeeps ==
  ASSUME IInv, Stop
  PROVE  IInv'
<1>0. TypeOK /\ Sound(Payload) /\ StoredInv /\ None \notin Int /\ restarts \in Nat
      /\ delivered \in Nat /\ Today \in Nat
  BY Numbers, DailyAssumption DEF IInv, TypeOK
<1>1. /\ up' = FALSE /\ restarts < MaxRestarts /\ restarts' = restarts + 1
      /\ stored' \in {stored, Payload}
      /\ timer' = "set" /\ frame' = None /\ lastOk' = FALSE
      /\ baseline' = None /\ computed' = None /\ date' = None
      /\ incomplete' = TRUE /\ lastReset' = None /\ atReading' = 0 /\ lostReading' = 0
      /\ UNCHANGED <<clock, total, delivered, lost, atMidnight, carried, lostCarried, losses>>
  BY DEF Stop, dayVars
<1>2. Today' = Today /\ StartOfDay' = StartOfDay
  BY <1>1 DEF Today, StartOfDay
<1>3. /\ Payload \in Payloads /\ Payload.date \in 0..Today \cup {None}
      /\ Payload.atReading <= delivered /\ Payload.lostReading <= lost
  BY <1>0, PayloadType, Numbers
<1>4. /\ stored' \in Payloads \cup {None}
      /\ stored' # None =>
           /\ stored'.date \in 0..Today \cup {None} /\ stored'.atReading <= delivered
           /\ stored'.lostReading <= lost
           /\ Sound(stored')
  BY <1>0, <1>1, <1>3 DEF StoredInv, TypeOK
<1>5. StoredInv'
  BY <1>1, <1>2, <1>4 DEF StoredInv, Sound, Whole
<1>6. TypeOK'
  <2>1. restarts' \in 0..MaxRestarts /\ atReading' \in 0..delivered'
        /\ lostReading' \in 0..lost'
    BY <1>0, <1>1, DailyAssumption, Numbers
  <2>2. date' \in 0..Today' \cup {None} /\ lastReset' \in 0..Today' \cup {None}
    BY <1>1
  <2> QED
    BY <1>0, <1>1, <1>2, <1>4, <2>1, <2>2 DEF TypeOK
<1>7. Payload' = [date |-> None, baseline |-> None, computed |-> None,
                  incomplete |-> TRUE, atReading |-> 0, lostReading |-> 0]
  BY <1>1 DEF Payload
<1>8. Sound(Payload)'
  BY <1>0, <1>2, <1>7 DEF Sound
<1>9. DayDated' /\ FrameInv' /\ TimerInv'
  BY <1>1, <1>2 DEF IInv, DayDated, FrameInv, HasReading, TimerInv
<1> QED
  BY <1>5, <1>6, <1>8, <1>9 DEF IInv

\* Home Assistant starts: the sensor takes the day up from storage if it is still
\* the same, and the frame of setup waits in coordinator.data.
LEMMA StartKeeps ==
  ASSUME IInv, Start
  PROVE  IInv'
<1>0. /\ TypeOK /\ DayDated /\ StoredInv /\ TimerInv /\ Sound(Payload)
      /\ None \notin Int /\ delivered \in 0..MaxClock /\ clock \in 0..MaxClock
      /\ total \in Nat /\ Today \in Nat /\ atReading \in 0..delivered
      /\ lost \in Nat /\ lostReading \in 0..lost /\ lostCarried \in 0..lost
  BY Numbers DEF IInv, TypeOK
<1>1. /\ ~up /\ up' = TRUE
      /\ UNCHANGED <<clock, total, timer, stored, delivered, lost, atMidnight, carried,
                     lostCarried, losses, restarts>>
  BY DEF Start, dayVars
<1>2. timer = "set" /\ baseline = None /\ computed = None /\ date = None
      /\ lastReset = None /\ atReading = 0 /\ lostReading = 0
  BY <1>0, <1>1 DEF TimerInv
<1>3. Today' = Today /\ StartOfDay' = StartOfDay
  BY <1>1 DEF Today, StartOfDay
<1>4. /\ date' \in 0..Today \cup {None} /\ lastReset' = date'
      /\ baseline' \in Int \cup {None} /\ computed' \in Int \cup {None}
      /\ incomplete' \in BOOLEAN /\ atReading' \in 0..delivered /\ lostReading' \in 0..lost
      /\ Sound(Payload')
  <2>1. CASE stored # None /\ stored.date = Today
    <3>1. /\ date' = Today /\ lastReset' = Today
          /\ baseline' = stored.baseline /\ computed' = stored.computed
          /\ incomplete' = stored.incomplete /\ atReading' = stored.atReading
          /\ lostReading' = stored.lostReading
      BY <2>1 DEF Start
    <3>2. stored \in Payloads /\ stored.atReading <= delivered
          /\ stored.lostReading <= lost /\ Sound(stored)
      BY <1>0, <2>1 DEF TypeOK, StoredInv
    <3>3. Payload' = [date |-> stored.date, baseline |-> stored.baseline,
                      computed |-> stored.computed, incomplete |-> stored.incomplete,
                      atReading |-> stored.atReading, lostReading |-> stored.lostReading]
      BY <2>1, <3>1 DEF Payload
    <3>4. Sound(Payload')
      BY <3>2, <3>3 DEF Sound, Whole
    <3>5. stored.lostReading \in 0..lost /\ stored.atReading \in 0..delivered /\ stored.incomplete \in BOOLEAN
          /\ stored.baseline \in Int \cup {None} /\ stored.computed \in Int \cup {None}
      BY <1>0, <3>2 DEF Payloads
    <3> QED
      BY <1>0, <3>1, <3>4, <3>5
  <2>2. CASE ~(stored # None /\ stored.date = Today)
    <3>1. UNCHANGED <<baseline, computed, date, incomplete, lastReset, atReading, lostReading>>
      BY <2>2 DEF Start, sensorVars, readingVars
    <3>2. Payload' = Payload
      BY <3>1 DEF Payload
    <3> QED
      BY <1>0, <1>2, <3>1, <3>2 DEF TypeOK
  <2> QED
    BY <2>1, <2>2
<1>5. /\ frame' \in Frames \cup {None} /\ lastOk' \in BOOLEAN
      /\ HasReading(frame') =>
           /\ frame'.total = total /\ frame'.at = clock
           /\ frame'.delivered = delivered /\ frame'.lost = lost
  <2>1. CASE frame' = None /\ lastOk' = FALSE
    BY <2>1 DEF HasReading
  <2>2. CASE \E reading \in {total, None} :
               /\ frame' = [total |-> reading, at |-> clock, delivered |-> delivered, lost |-> lost]
               /\ lastOk' = TRUE
    <3>1. PICK reading \in {total, None} :
            frame' = [total |-> reading, at |-> clock, delivered |-> delivered, lost |-> lost]
      BY <2>2
    <3>2. lastOk' = TRUE
      BY <2>2
    <3>3. frame' \in Frames
      BY <1>0, <3>1 DEF Frames
    <3> QED
      BY <1>0, <3>1, <3>2, <3>3 DEF HasReading
  <2> QED
    BY <2>1, <2>2 DEF Start
<1>6. TypeOK'
  BY <1>0, <1>1, <1>3, <1>4, <1>5 DEF TypeOK
<1>7. DayDated' /\ StoredInv' /\ TimerInv'
  BY <1>0, <1>1, <1>2, <1>3, <1>4 DEF DayDated, StoredInv, Sound, Whole, TimerInv
<1>8. Sound(Payload)'
  BY <1>1, <1>3, <1>4 DEF Sound, Whole
<1>9. FrameInv'
  <2>1. /\ Payload'.atReading \in 0..delivered /\ Payload'.lostReading \in 0..lost
        /\ Payload'.baseline \in Int \cup {None}
    BY <1>4 DEF Payload
  <2>2. HasReading(frame') => Seen(frame') /\ Fits(frame', Payload')
    BY <1>0, <1>4, <1>5, <2>1, FreshFits
  <2> QED
    BY <1>1, <1>3, <2>2 DEF FrameInv, HasReading, Seen, Fits
<1> QED
  BY <1>6, <1>7, <1>8, <1>9 DEF IInv

\* A new install: nothing is known and nothing has been delivered.
LEMMA InitKeeps == Init => IInv
<1> SUFFICES ASSUME Init
             PROVE  IInv
  OBVIOUS
<1>1. /\ DayTicks \in Nat /\ Tolerance \in Nat /\ FirstTotal \in Nat /\ MaxClock \in Nat
      /\ 1 <= MaxClock /\ MaxLosses \in Nat /\ MaxRestarts \in Nat /\ None \notin Int
  BY DailyAssumption
<1>2. Today \in Nat /\ StartOfDay \in Nat /\ StartOfDay <= clock
  BY DayFacts DEF Init, Today, StartOfDay
<1>3. TypeOK
  <2>1. /\ 1 \in 0..MaxClock /\ 0 \in 0..MaxClock /\ 0 \in 0..0
        /\ 0 \in 0..MaxLosses /\ 0 \in 0..MaxRestarts
    BY <1>1
  <2>2. /\ clock \in 0..MaxClock /\ delivered \in 0..MaxClock /\ atMidnight \in 0..delivered
        /\ carried \in 0..atMidnight /\ atReading \in 0..delivered
        /\ lost \in Nat /\ {lostCarried, lostReading} \subseteq 0..lost
        /\ losses \in 0..MaxLosses /\ restarts \in 0..MaxRestarts
    BY <2>1 DEF Init
  <2> QED
    BY <1>1, <2>2 DEF Init, TypeOK
<1>4. DayDated
  BY <1>1, <1>2 DEF Init, DayDated
<1>5. Payload = [date |-> None, baseline |-> None, computed |-> None,
                 incomplete |-> TRUE, atReading |-> 0, lostReading |-> 0]
  BY DEF Init, Payload
<1>6. Sound(Payload)
  BY <1>1, <1>2, <1>5 DEF Sound
<1>7. FrameInv /\ StoredInv /\ TimerInv
  BY DEF Init, FrameInv, HasReading, StoredInv, TimerInv
<1> QED
  BY <1>3, <1>4, <1>6, <1>7 DEF IInv

\* The invariant is inductive: one case per action.
LEMMA NextKeeps == IInv /\ [Next]_vars => IInv'
<1> SUFFICES ASSUME IInv, [Next]_vars
             PROVE  IInv'
  OBVIOUS
<1>1. CASE Tick
  BY <1>1, TickKeeps
<1>2. CASE PowerCut
  <2>1. PICK tail \in 1..MaxTail : tail <= total /\ CounterLoses(tail)
    BY <1>2 DEF PowerCut
  <2> QED
    BY <2>1, LossKeeps, DailyAssumption
<1>10. CASE ResetCounter
  <2>1. total \in Nat
    BY Numbers DEF IInv
  <2> QED
    BY <1>10, <2>1, LossKeeps DEF ResetCounter
<1>3. CASE RollOverAtMidnight
  BY <1>3, RollOverKeeps
<1>4. CASE PollAnswered
  BY <1>4, PollAnsweredKeeps
<1>5. CASE PollFails
  BY <1>5, PollFailsKeeps
<1>6. CASE Dump
  BY <1>6, DumpKeeps
<1>7. CASE Stop
  BY <1>7, StopKeeps
<1>8. CASE Start
  BY <1>8, StartKeeps
<1>9. CASE UNCHANGED vars
  BY <1>9 DEF vars, sensorVars, historyVars, dayVars, readingVars, IInv, TypeOK, Today,
              StartOfDay, DayDated, FrameInv, HasReading, Seen, Fits, Sound, Whole,
              Payload, StoredInv, TimerInv
<1> QED
  BY <1>1, <1>2, <1>3, <1>4, <1>5, <1>6, <1>7, <1>8, <1>9, <1>10 DEF Next

\* The invariant holds in every state the sensor reaches.
THEOREM DayIsAccounted == Spec => []IInv
<1> QED
  BY InitKeeps, NextKeeps, PTL DEF Spec

-----------------------------------------------------------------------------
\* Every variable of the daily energy sensor has its type.
THEOREM TypeCorrect == Spec => []TypeOK
<1>1. IInv => TypeOK
  BY DEF IInv
<1> QED
  BY <1>1, DayIsAccounted, PTL

\* The day never starts loaded with energy of the day before, whichever of the
\* timer, a frame, a failed poll and a restart turned it over, and a reset of the
\* counter counts no energy twice.
THEOREM DayStartsEmpty == Spec => []DayNotInflated
<1>1. IInv => DayNotInflated
  <2> SUFFICES ASSUME IInv, date = Today, computed # None
               PROVE  computed <= delivered - carried
    BY DEF DayNotInflated
  <2>1. /\ computed \in Int /\ carried \in Nat /\ delivered \in Nat /\ atReading \in Nat
        /\ atReading <= delivered /\ carried <= delivered
    BY Numbers DEF IInv
  <2>2. computed \notin {None, 0} => computed + carried <= atReading
    BY DEF IInv, Sound, Payload
  <2> QED
    BY <2>1, <2>2
<1> QED
  BY <1>1, DayIsAccounted, PTL

\* A day that does not flag itself incomplete is whole up to the latest reading,
\* but for the tolerance and what the counter itself has lost: the flag survives
\* restarts with the baseline it is about.
THEOREM CompleteDayIsWhole == Spec => []CompleteIsWhole
<1>1. IInv => CompleteIsWhole
  <2> SUFFICES ASSUME IInv, date = Today, ~incomplete, baseline # None
               PROVE  /\ computed - (atReading - atMidnight) <= Tolerance
                      /\ (atReading - atMidnight) - computed
                           <= Tolerance + (lostReading - lostCarried)
    BY DEF CompleteIsWhole
  <2>1. /\ computed # None
        /\ computed + atMidnight <= atReading + Tolerance
        /\ atReading + lostCarried <= computed + atMidnight + Tolerance + lostReading
    BY DEF IInv, Sound, Whole, Payload
  <2>2. /\ computed \in Int /\ atReading \in Nat /\ atMidnight \in Nat
        /\ lostReading \in Int /\ lostCarried \in Int /\ Tolerance \in Nat
    BY <2>1, Numbers DEF IInv
  <2> QED
    BY <2>1, <2>2
<1> QED
  BY <1>1, DayIsAccounted, PTL

\* The published figure falls only with last_reset, or by no more than the counter
\* lost between two readings, and never below zero.
THEOREM FallsAreAnnounced == Spec => NoUnannouncedFall
<1> DEFINE Announced ==
      up /\ up' /\ computed # None /\ computed' < computed
      => \/ lastReset' # lastReset
         \/ computed' >= 0 /\ computed - computed' <= lostReading' - lostReading
<1>1. ASSUME IInv, [Next]_vars
      PROVE  Announced
  <2> SUFFICES ASSUME up, up', computed # None, computed' < computed
               PROVE  \/ lastReset' # lastReset
                      \/ computed' >= 0 /\ computed - computed' <= lostReading' - lostReading
    OBVIOUS
  <2>1. computed \in Int /\ Today \in Nat /\ None \notin Int /\ TypeOK /\ TimerInv
        /\ Sound(Payload) /\ DayDated
    BY <1>1, Numbers DEF IInv
  <2>2. computed' # computed
    BY <2>1
  <2>3. CASE RollOverAtMidnight
    <3>1. computed' = 0 /\ lastReset' = Today /\ timer # "set"
      BY <2>3 DEF RollOverAtMidnight
    <3>2. timer \in {"due", "late"}
      BY <2>1, <3>1 DEF TypeOK
    <3> QED
      BY <2>1, <2>2, <3>1, <3>2 DEF TimerInv
  \* A frame is handled, whether it is new or not.
  <2>4. ASSUME NEW f, HandleUpdate(f), HasReading(f) => Seen(f) /\ Fits(f, Payload),
               UNCHANGED <<clock, total, delivered, lost, dayVars>>
        PROVE  \/ lastReset' # lastReset
               \/ computed' >= 0 /\ computed - computed' <= lostReading' - lostReading
    <3>1. HasReading(f)
      BY <2>2, <2>4 DEF HandleUpdate, sensorVars
    <3>2. /\ date' = Today /\ lastReset' = Today /\ lostReading' = f.lost
          /\ (date = Today /\ computed # None /\ computed' < computed =>
                 computed - computed' <= f.lost - lostReading)
          /\ computed' \in Int /\ Sound(Payload')
      BY <2>1, <2>4, <3>1, HandleKeeps DEF HasReading, TimerInv
    <3>3. computed' >= 0
      BY <2>1, <3>2 DEF Sound, Payload
    <3> QED
      BY <2>1, <3>2, <3>3 DEF TimerInv
  <2>5. CASE PollAnswered
    <3>1. PICK reading \in {total, None} :
            frame' = [total |-> reading, at |-> clock, delivered |-> delivered, lost |-> lost]
      BY <2>5 DEF PollAnswered
    <3>2. HasReading(frame') =>
            /\ frame'.total = total /\ frame'.at = clock
            /\ frame'.delivered = delivered /\ frame'.lost = lost
      BY <3>1 DEF HasReading
    <3>3. Payload.atReading \in 0..delivered /\ Payload.baseline \in Int \cup {None}
          /\ Payload.lostReading \in 0..lost
      BY <2>1, PayloadType DEF Payloads
    <3>4. HasReading(frame') => Seen(frame') /\ Fits(frame', Payload)
      BY <1>1, <2>1, <3>2, <3>3, FreshFits DEF IInv
    <3> QED
      BY <2>4, <2>5, <3>4 DEF PollAnswered
  <2>6. CASE PollFails
    <3>1. HasReading(frame) => Seen(frame) /\ Fits(frame, Payload)
      BY <1>1 DEF IInv, FrameInv
    <3> QED
      BY <2>4, <2>6, <3>1 DEF PollFails
  <2> QED
    BY <1>1, <2>2, <2>3, <2>5, <2>6
    DEF Next, vars, sensorVars, Tick, PowerCut, ResetCounter, CounterLoses, Dump, Stop, Start
<1>2. Spec => [][Announced]_vars
  BY <1>1, DayIsAccounted, PTL DEF Spec
<1> QED
  BY <1>2 DEF NoUnannouncedFall
=============================================================================
