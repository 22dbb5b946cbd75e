----------------------------- MODULE PartsProofs -----------------------------
(* Theorems about the parts of the integration: first those of each part as  *)
(* a system of its own, for any number of polls, writes, sessions, restarts  *)
(* and flows, then those of the parts side by side.                          *)
EXTENDS Parts, TLAPS

-----------------------------------------------------------------------------
(* The three promises of the safety sensor, for histories of any length.    *)

\* What a poll that is answered adds to the history.
LEMMA MeaningType ==
  ASSUME NEW f \in GroundFrames
  PROVE  Meaning(f) \in Outcomes
BY DEF Meaning, Outcomes

\* The four cases a frame can be, and what it means in each.
LEMMA MeaningFacts ==
  ASSUME NEW f \in GroundFrames
  PROVE  /\ f.fault = "grounding" => Meaning(f) = "declared"
         /\ f.fault # "grounding" /\ f.groundCtrl # 1 => Meaning(f) = "unmonitored"
         /\ f.fault # "grounding" /\ f.groundCtrl = 1 /\ f.ground = Absent
              => Meaning(f) = "unread"
         /\ f.fault # "grounding" /\ f.groundCtrl = 1 /\ f.ground # Absent
              => Meaning(f) = IF ~RawOn(f) THEN "present"
                              ELSE IF f.fault = "firmware" THEN "faulted" ELSE "lost"
BY GroundAssumption DEF Meaning, RawOn, GroundFrames

\* A longer history agrees with the shorter one on what that holds.
LEMMA Appended ==
  ASSUME NEW h \in Seq(Outcomes), NEW e \in Outcomes
  PROVE  /\ Append(h, e) \in Seq(Outcomes)
         /\ Len(h) \in Nat /\ Len(Append(h, e)) = Len(h) + 1
         /\ Append(h, e)[Len(h) + 1] = e
         /\ \A i \in 1..Len(h) : Append(h, e)[i] = h[i]
OBVIOUS

\* What raised an alarm goes on doing so.
LEMMA RaisedGrows ==
  ASSUME NEW h \in Seq(Outcomes), NEW e \in Outcomes, NEW i \in 1..Len(h), RaisedAt(h, i)
  PROVE  RaisedAt(Append(h, e), i)
<1> DEFINE g == Append(h, e)
<1>1. Len(h) \in Nat /\ \A j \in 1..Len(h) : g[j] = h[j]
  BY Appended
<1>2. \A a \in 1..i : a \in 1..Len(h) /\ \A j \in a..i : j \in 1..Len(h)
  BY <1>1
<1> HIDE DEF g
<1>3. RaisedAt(g, i)
  BY <1>1, <1>2 DEF RaisedAt
<1> QED
  BY <1>3 DEF g

\* ... until a frame shows the earth or the end of its monitoring.
LEMMA RaisedStays ==
  ASSUME NEW h \in Seq(Outcomes), NEW e \in Outcomes \ {"present", "unmonitored"}, Raised(h)
  PROVE  Raised(Append(h, e))
<1> DEFINE g == Append(h, e)
<1>1. /\ Len(h) \in Nat /\ Len(g) = Len(h) + 1 /\ g[Len(h) + 1] = e
      /\ \A j \in 1..Len(h) : g[j] = h[j]
  BY Appended
<1>2. PICK i \in 1..Len(h) :
        RaisedAt(h, i) /\ \A j \in i..Len(h) : h[j] \notin {"present", "unmonitored"}
  BY DEF Raised
<1>3. RaisedAt(g, i)
  BY <1>2, RaisedGrows
<1>4. i \in 1..Len(g) /\ \A j \in i..Len(g) : j \in i..Len(h) \/ j = Len(h) + 1
  BY <1>1
<1>5. \A j \in i..Len(h) : j \in 1..Len(h)
  BY <1>1
<1> HIDE DEF g
<1>6. Raised(g)
  BY <1>1, <1>2, <1>3, <1>4, <1>5 DEF Raised
<1> QED
  BY <1>6 DEF g

\* An entry of its own that raises the alarm.
LEMMA RaisedNow ==
  ASSUME NEW h \in Seq(Outcomes), NEW e \in Outcomes \ {"present", "unmonitored"},
         RaisedAt(Append(h, e), Len(h) + 1)
  PROVE  Raised(Append(h, e))
<1> DEFINE g == Append(h, e)
<1>1. Len(h) \in Nat /\ Len(g) = Len(h) + 1 /\ g[Len(h) + 1] = e
  BY Appended
<1>2. \A j \in (Len(h) + 1)..Len(g) : j = Len(h) + 1
  BY <1>1
<1> HIDE DEF g
<1>3. Len(h) + 1 \in 1..Len(g)
  BY <1>1
<1>4. RaisedAt(g, Len(h) + 1)
  BY DEF g
<1>5. Raised(g)
  BY <1>1, <1>2, <1>3, <1>4 DEF Raised
<1> QED
  BY <1>5 DEF g

-----------------------------------------------------------------------------
\* The entries from a on are readings of a lost earth, or no readings.
Streak(h, a) == h[a] = "lost" /\ \A j \in a..Len(h) : h[j] \in {"lost", "unread"}

\* The count is the length of the streak the history ends in, and full only
\* with an alarm behind it.
CountIsStreak ==
  /\ count = 1 => \E a \in 1..Len(log) : Streak(log, a)
  /\ count = 2 => \E a, b \in 1..Len(log) : a < b /\ Streak(log, a) /\ Streak(log, b)
  /\ count = 3 => Raised(log)

\* Readings of a lost earth at the end of the history have all been counted.
Lost(h, k) == Len(h) >= k /\ \A j \in (Len(h) - k + 1)..Len(h) : h[j] = "lost"

LostAreCounted ==
  /\ Lost(log, 1) => count >= 1 /\ (count = 3 => on = TRUE)
  /\ Lost(log, 2) => count >= 2
  /\ Lost(log, 3) => count = 3

GroundInv ==
  /\ GroundTypeOK
  /\ lastOk = FALSE => count = 0
  /\ CountIsStreak
  /\ LostAreCounted
  /\ NoFalseAlarm
  /\ SafeIsObserved

\* A streak of lost readings goes on through a frame that says nothing.
LEMMA StreakGrows ==
  ASSUME NEW h \in Seq(Outcomes), NEW e \in {"lost", "unread"}, NEW a \in 1..Len(h),
         Streak(h, a)
  PROVE  a \in 1..Len(Append(h, e)) /\ Streak(Append(h, e), a)
<1> DEFINE g == Append(h, e)
<1>1. /\ Len(h) \in Nat /\ Len(g) = Len(h) + 1 /\ g[Len(h) + 1] = e
      /\ \A j \in 1..Len(h) : g[j] = h[j]
  BY Appended DEF Outcomes
<1>2. \A j \in a..Len(g) : (j \in a..Len(h) /\ j \in 1..Len(h)) \/ j = Len(h) + 1
  BY <1>1
<1> HIDE DEF g
<1>3. a \in 1..Len(g) /\ Streak(g, a)
  BY <1>1, <1>2 DEF Streak
<1> QED
  BY <1>3 DEF g

\* A lost reading begins a streak.
LEMMA StreakBegins ==
  ASSUME NEW h \in Seq(Outcomes)
  PROVE  /\ Len(h) + 1 \in 1..Len(Append(h, "lost"))
         /\ Streak(Append(h, "lost"), Len(h) + 1)
<1>1. /\ Len(h) \in Nat /\ Len(Append(h, "lost")) = Len(h) + 1
      /\ Append(h, "lost")[Len(h) + 1] = "lost"
  BY Appended DEF Outcomes
<1>2. \A j \in (Len(h) + 1)..Len(Append(h, "lost")) : j = Len(h) + 1
  BY <1>1
<1> QED
  BY <1>1, <1>2 DEF Streak

\* The third reading of a streak raises the alarm.
LEMMA StreakRaises ==
  ASSUME NEW h \in Seq(Outcomes), NEW a \in 1..Len(h), NEW b \in 1..Len(h), a < b,
         Streak(h, a), Streak(h, b)
  PROVE  Raised(Append(h, "lost"))
<1> DEFINE g == Append(h, "lost")
<1>1. /\ Len(h) \in Nat /\ Len(g) = Len(h) + 1 /\ g[Len(h) + 1] = "lost"
      /\ \A j \in 1..Len(h) : g[j] = h[j]
  BY Appended DEF Outcomes
<1>2. \A j \in a..(Len(h) + 1) : (j \in a..Len(h) /\ j \in 1..Len(h)) \/ j = Len(h) + 1
  BY <1>1
<1>3. a \in 1..(Len(h) + 1) /\ b \in 1..(Len(h) + 1) /\ b < Len(h) + 1
  BY <1>1
<1> HIDE DEF g
<1>4. RaisedAt(g, Len(h) + 1)
  BY <1>1, <1>2, <1>3 DEF Streak, RaisedAt
<1> QED
  BY <1>4, RaisedNow DEF Outcomes, g

\* The last k frames read lost only if the one before did so k - 1 times.
LEMMA LostShrinks ==
  ASSUME NEW h \in Seq(Outcomes), NEW e \in Outcomes
  PROVE  /\ \A k \in {1, 2, 3} : Lost(Append(h, e), k) => e = "lost"
         /\ Lost(Append(h, e), 2) => Lost(h, 1)
         /\ Lost(Append(h, e), 3) => Lost(h, 2)
<1> DEFINE g == Append(h, e)
<1>1. /\ Len(h) \in Nat /\ Len(g) = Len(h) + 1 /\ g[Len(h) + 1] = e
      /\ \A j \in 1..Len(h) : g[j] = h[j]
  BY Appended
<1> HIDE DEF g
<1>2. ASSUME NEW k \in {1, 2, 3}, Lost(g, k)
      PROVE  e = "lost"
  <2>1. Len(g) \in (Len(g) - k + 1)..Len(g)
    BY <1>1
  <2> QED
    BY <2>1, <1>1, <1>2 DEF Lost
<1>3. Lost(g, 2) => Lost(h, 1)
  <2> SUFFICES ASSUME Lost(g, 2)
               PROVE  Lost(h, 1)
    OBVIOUS
  <2>1. Len(h) >= 1
    BY <1>1 DEF Lost
  <2>2. \A j \in (Len(h) - 1 + 1)..Len(h) : j \in (Len(g) - 2 + 1)..Len(g) /\ j \in 1..Len(h)
    BY <2>1, <1>1
  <2> QED
    BY <2>1, <2>2, <1>1 DEF Lost
<1>4. Lost(g, 3) => Lost(h, 2)
  <2> SUFFICES ASSUME Lost(g, 3)
               PROVE  Lost(h, 2)
    OBVIOUS
  <2>1. Len(h) >= 2
    BY <1>1 DEF Lost
  <2>2. \A j \in (Len(h) - 2 + 1)..Len(h) : j \in (Len(g) - 3 + 1)..Len(g) /\ j \in 1..Len(h)
    BY <2>1, <1>1
  <2> QED
    BY <2>1, <2>2, <1>1 DEF Lost
<1> QED
  BY <1>2, <1>3, <1>4 DEF g

\* What "safe" rests on, as far as the history goes.
Observed(h) ==
  \E i \in 1..Len(h) :
    /\ h[i] \in {"present", "lost"}
    /\ \A j \in (i + 1)..Len(h) : h[j] \in {"failed", "unread"}

\* Frames that say nothing do not undo an observation.
LEMMA ObservedStays ==
  ASSUME NEW h \in Seq(Outcomes), NEW e \in {"failed", "unread"}, Observed(h)
  PROVE  Observed(Append(h, e))
<1> DEFINE g == Append(h, e)
<1>1. /\ Len(h) \in Nat /\ Len(g) = Len(h) + 1 /\ g[Len(h) + 1] = e
      /\ \A j \in 1..Len(h) : g[j] = h[j]
  BY Appended DEF Outcomes
<1>2. PICK i \in 1..Len(h) : /\ h[i] \in {"present", "lost"}
                             /\ \A j \in (i + 1)..Len(h) : h[j] \in {"failed", "unread"}
  BY DEF Observed
<1>3. i \in 1..Len(g) /\ \A j \in (i + 1)..Len(g) :
        (j \in (i + 1)..Len(h) /\ j \in 1..Len(h)) \/ j = Len(h) + 1
  BY <1>1
<1> HIDE DEF g
<1>4. Observed(g)
  BY <1>1, <1>2, <1>3 DEF Observed
<1> QED
  BY <1>4 DEF g

\* A reading is an observation.
LEMMA ObservedNow ==
  ASSUME NEW h \in Seq(Outcomes), NEW e \in {"present", "lost"}
  PROVE  Observed(Append(h, e))
<1> DEFINE g == Append(h, e)
<1>1. Len(h) \in Nat /\ Len(g) = Len(h) + 1 /\ g[Len(h) + 1] = e
  BY Appended DEF Outcomes
<1>2. Len(g) \in 1..Len(g) /\ \A j \in (Len(g) + 1)..Len(g) : FALSE
  BY <1>1
<1> HIDE DEF g
<1>3. Observed(g)
  BY <1>1, <1>2 DEF Observed
<1> QED
  BY <1>3 DEF g

-----------------------------------------------------------------------------
\* The count after a frame, and the state it decides.
LEMMA CountedFacts ==
  ASSUME GroundTypeOK, NEW f \in GroundFrames, Counted(f)
  PROVE  /\ count' = IF ~RawOn(f) THEN 0
                     ELSE IF f.fault = "firmware" \/ count + 1 > 3 THEN 3 ELSE count + 1
         /\ on' \in BOOLEAN
         /\ on' = TRUE <=> count' >= 3
         /\ on' = FALSE <=> ~(count' >= 3)
<1>1. /\ count' = IF ~RawOn(f) THEN 0
                  ELSE IF f.fault = "firmware" \/ count + 1 > 3 THEN 3 ELSE count + 1
      /\ on' = (count' >= 3)
  BY Zenon DEF Counted, DebounceThreshold
<1> DEFINE full == count' >= 3
<1> HIDE DEF full
<1>2. on' = full /\ full \in BOOLEAN
  BY <1>1 DEF full
<1>3. on' \in BOOLEAN /\ (on' = TRUE <=> full) /\ (on' = FALSE <=> ~full)
  BY <1>2, Zenon
<1> QED
  BY <1>1, <1>3 DEF full

\* An answered poll leaves the variables well-typed.
LEMMA GoodPollType ==
  ASSUME GroundTypeOK, NEW f \in GroundFrames, GoodPoll(f)
  PROVE  GroundTypeOK' /\ log' = Append(log, Meaning(f)) /\ ctrlOn' = (f.groundCtrl = 1)
<1>1. log' = Append(log, Meaning(f)) /\ ctrlOn' = (f.groundCtrl = 1)
  BY DEF GoodPoll, RecomputeCtrl
<1>2. log' \in Seq(Outcomes)
  BY <1>1, MeaningType DEF GroundTypeOK
<1>3. count' \in 0..DebounceThreshold
  <2>1. count \in 0..3
    BY DEF GroundTypeOK, DebounceThreshold
  <2>2. ASSUME Counted(f)
        PROVE  count' \in 0..3
    <3>1. count' = IF ~RawOn(f) THEN 0
                   ELSE IF f.fault = "firmware" \/ count + 1 > 3 THEN 3 ELSE count + 1
      BY <2>2, CountedFacts
    <3> QED
      BY <3>1, <2>1
  <2> QED
    BY <2>1, <2>2 DEF GoodPoll, Recompute, DeclaredFault, Unmonitored, Unread, DebounceThreshold
<1>4. on' \in BOOLEAN \cup {None}
  BY CountedFacts DEF GoodPoll, Recompute, DeclaredFault, Unmonitored, Unread, GroundTypeOK
<1> QED
  BY <1>1, <1>2, <1>3, <1>4 DEF GoodPoll, GroundTypeOK

\* An answered poll, by what the frame says of the ground.
LEMMA GoodPollKeepsInv ==
  ASSUME GroundInv, NEW f \in GroundFrames, GoodPoll(f)
  PROVE  GroundInv'
<1>1. /\ GroundTypeOK /\ GroundTypeOK' /\ log \in Seq(Outcomes) /\ Meaning(f) \in Outcomes
      /\ log' = Append(log, Meaning(f)) /\ ctrlOn' = (f.groundCtrl = 1)
      /\ count \in 0..3 /\ lastOk' = TRUE
  BY GoodPollType, MeaningType DEF GroundInv, GroundTypeOK, DebounceThreshold, GoodPoll
<1>2. CountIsStreak /\ LostAreCounted /\ NoFalseAlarm /\ SafeIsObserved
  BY DEF GroundInv
<1>3. \A k \in {1, 2, 3} : Lost(log', k) => Meaning(f) = "lost"
  BY <1>1, LostShrinks
<1>4. CASE DeclaredFault(f)
  <2>1. count' = 3 /\ on' = TRUE /\ Meaning(f) = "declared"
    BY <1>4, MeaningFacts DEF DeclaredFault, DebounceThreshold
  <2>2. Raised(log')
    <3>1. log'[Len(log) + 1] = "declared"
      BY <2>1, <1>1, Appended
    <3> QED
      BY <2>1, <3>1, <1>1, RaisedNow DEF RaisedAt
  <2> QED
    BY <2>1, <2>2, <1>1, <1>3, GroundAssumption
    DEF GroundInv, CountIsStreak, LostAreCounted, NoFalseAlarm, SafeIsObserved
<1>5. CASE Unmonitored(f)
  <2>1. count' = 0 /\ on' = None /\ Meaning(f) = "unmonitored"
    BY <1>5, MeaningFacts DEF Unmonitored
  <2>2. NoFalseAlarm' /\ SafeIsObserved'
    BY <2>1, GroundAssumption, Zenon DEF NoFalseAlarm, SafeIsObserved
  <2>3. CountIsStreak' /\ LostAreCounted'
    BY <2>1, <1>3 DEF CountIsStreak, LostAreCounted
  <2> QED
    BY <2>2, <2>3, <1>1 DEF GroundInv
<1>6. CASE Unread(f)
  <2>1. count' = count /\ on' = on /\ Meaning(f) = "unread" /\ ctrlOn' = TRUE
    BY <1>1, <1>6, MeaningFacts DEF Unread
  <2>2. CountIsStreak'
    <3>1. count = 1 => \E a \in 1..Len(log') : Streak(log', a)
      BY <2>1, <1>1, <1>2, StreakGrows DEF CountIsStreak
    <3>2. count = 2 => \E a, b \in 1..Len(log') : a < b /\ Streak(log', a) /\ Streak(log', b)
      <4> SUFFICES ASSUME count = 2
                   PROVE  \E a, b \in 1..Len(log') :
                            a < b /\ Streak(log', a) /\ Streak(log', b)
        OBVIOUS
      <4>1. PICK a \in 1..Len(log), b \in 1..Len(log) :
              a < b /\ Streak(log, a) /\ Streak(log, b)
        BY <1>2 DEF CountIsStreak
      <4>2. a \in 1..Len(log') /\ Streak(log', a) /\ b \in 1..Len(log') /\ Streak(log', b)
        BY <4>1, <2>1, <1>1, StreakGrows
      <4> QED
        BY <4>1, <4>2
    <3>3. count = 3 => Raised(log')
      BY <2>1, <1>1, <1>2, RaisedStays DEF CountIsStreak, Outcomes
    <3> QED
      BY <2>1, <3>1, <3>2, <3>3 DEF CountIsStreak
  <2>3. NoFalseAlarm'
    BY <2>1, <1>1, <1>2, RaisedStays DEF NoFalseAlarm, Outcomes
  <2>4. SafeIsObserved'
    <3>1. on = FALSE => Observed(log)
      BY <1>2 DEF SafeIsObserved, Observed
    <3>2. on' = FALSE => Observed(log')
      BY <3>1, <2>1, <1>1, ObservedStays
    <3> QED
      BY <3>2, <2>1 DEF SafeIsObserved, Observed
  <2> QED
    BY <2>1, <2>2, <2>3, <2>4, <1>1, <1>3 DEF GroundInv, LostAreCounted
<1>7. CASE Counted(f)
  <2>1. f.fault # "grounding" /\ f.groundCtrl = 1 /\ f.ground # Absent /\ ctrlOn' = TRUE
    BY <1>1, <1>7 DEF Counted
  <2>2. CASE ~RawOn(f)
    <3>0. count' = 0 /\ Meaning(f) = "present"
      BY <2>1, <2>2, <1>1, <1>7, MeaningFacts, CountedFacts
    <3>1. count' = 0 /\ on' = FALSE /\ Meaning(f) = "present"
      <4>1. ~(count' >= 3)
        BY <3>0
      <4> QED
        BY <3>0, <4>1, <1>1, <1>7, CountedFacts, Zenon
    <3>2. Observed(log')
      BY <3>1, <1>1, ObservedNow
    <3> QED
      BY <2>1, <3>1, <3>2, <1>1, <1>3
      DEF GroundInv, CountIsStreak, LostAreCounted, NoFalseAlarm, SafeIsObserved, Observed
  <2>3. CASE RawOn(f) /\ f.fault = "firmware"
    <3>0. count' = 3 /\ Meaning(f) = "faulted"
      BY <2>1, <2>3, <1>1, <1>7, MeaningFacts, CountedFacts
    <3>1. count' = 3 /\ on' = TRUE /\ Meaning(f) = "faulted"
      <4>1. count' >= 3
        BY <3>0
      <4> QED
        BY <3>0, <4>1, <1>1, <1>7, CountedFacts, Zenon
    <3>2. Raised(log')
      <4>1. log'[Len(log) + 1] = "faulted"
        BY <3>1, <1>1, Appended
      <4> QED
        BY <3>1, <4>1, <1>1, RaisedNow DEF RaisedAt
    <3> QED
      BY <3>1, <3>2, <1>1, <1>3
      DEF GroundInv, CountIsStreak, LostAreCounted, NoFalseAlarm, SafeIsObserved
  <2>4. CASE RawOn(f) /\ f.fault # "firmware"
    <3>1. Meaning(f) = "lost" /\ log' = Append(log, "lost")
      BY <2>1, <2>4, <1>1, MeaningFacts
    <3>2. count' = (IF count + 1 > 3 THEN 3 ELSE count + 1) /\ (on' = TRUE <=> count' >= 3)
      BY <2>4, <1>1, <1>7, CountedFacts
    <3>3. count >= 2 => Raised(log')
      <4>1. CASE count = 2
        BY <4>1, <3>1, <1>1, <1>2, StreakRaises DEF CountIsStreak
      <4>2. CASE count = 3
        BY <4>2, <3>1, <1>1, <1>2, RaisedStays DEF CountIsStreak, Outcomes
      <4> QED
        BY <4>1, <4>2, <1>1
    <3>4. Len(log) + 1 \in 1..Len(log') /\ Streak(log', Len(log) + 1)
      BY <3>1, <1>1, StreakBegins
    <3>5. CountIsStreak'
      <4>1. CASE count = 0
        BY <4>1, <3>2, <3>4 DEF CountIsStreak
      <4>2. CASE count = 1
        <5>1. PICK a \in 1..Len(log) : Streak(log, a)
          BY <4>2, <1>2 DEF CountIsStreak
        <5>2. a \in 1..Len(log') /\ Streak(log', a)
          BY <5>1, <3>1, <1>1, StreakGrows
        <5>3. a < Len(log) + 1
          BY <1>1
        <5> QED
          BY <4>2, <5>2, <5>3, <3>2, <3>4 DEF CountIsStreak
      <4>3. CASE count >= 2
        BY <4>3, <3>2, <3>3, <1>1 DEF CountIsStreak
      <4> QED
        BY <4>1, <4>2, <4>3, <1>1
    <3>6. LostAreCounted'
      BY <3>1, <3>2, <1>1, <1>2, LostShrinks DEF LostAreCounted
    <3>7. NoFalseAlarm'
      BY <3>2, <3>3, <1>1 DEF NoFalseAlarm
    <3>8. SafeIsObserved'
      <4>1. Observed(log')
        BY <3>1, <1>1, ObservedNow
      <4> QED
        BY <4>1, <2>1 DEF SafeIsObserved, Observed
    <3> QED
      BY <3>5, <3>6, <3>7, <3>8, <1>1 DEF GroundInv
  <2> QED
    BY <2>2, <2>3, <2>4
<1> QED
  BY <1>4, <1>5, <1>6, <1>7 DEF GoodPoll, Recompute

\* The count is dropped, which a streak must not survive.
LEMMA FailedPollKeepsInv ==
  ASSUME GroundInv, FailedPoll
  PROVE  GroundInv'
<1>1. /\ log \in Seq(Outcomes) /\ log' = Append(log, "failed")
      /\ on' = on /\ ctrlOn' = ctrlOn /\ data' = data /\ lastOk' = FALSE
      /\ count' = 0 /\ count \in 0..3
  BY DEF GroundInv, GroundTypeOK, FailedPoll, DebounceThreshold
<1>2. CountIsStreak /\ LostAreCounted /\ NoFalseAlarm /\ SafeIsObserved
  BY DEF GroundInv
<1>3. "failed" \in Outcomes \ {"present", "unmonitored"}
  BY DEF Outcomes
<1>4. GroundTypeOK'
  <2>1. log' \in Seq(Outcomes) /\ count' \in 0..3
    BY <1>1, <1>3
  <2> QED
    BY <2>1, <1>1 DEF GroundInv, GroundTypeOK, DebounceThreshold
<1>5. LostAreCounted' /\ CountIsStreak'
  BY <1>1, <1>3, LostShrinks DEF LostAreCounted, CountIsStreak
<1>6. NoFalseAlarm'
  BY <1>1, <1>2, <1>3, RaisedStays DEF NoFalseAlarm
<1>7. SafeIsObserved'
  <2>1. on = FALSE => ctrlOn = TRUE /\ Observed(log)
    BY <1>2 DEF SafeIsObserved, Observed
  <2>2. on' = FALSE => Observed(log')
    BY <2>1, <1>1, ObservedStays
  <2> QED
    BY <2>1, <2>2, <1>1 DEF SafeIsObserved, Observed
<1> QED
  BY <1>1, <1>4, <1>5, <1>6, <1>7 DEF GroundInv

\* A sensor that has heard of nothing claims nothing.
LEMMA NothingHeard ==
  ASSUME data = None, lastOk = TRUE, count = 0, on = None, ctrlOn = None, log = <<>>
  PROVE  GroundInv
<1>1. log \in Seq(Outcomes) /\ Len(log) = 0
  OBVIOUS
<1>2. GroundTypeOK
  BY <1>1 DEF GroundTypeOK, DebounceThreshold
<1>3. NoFalseAlarm /\ SafeIsObserved
  BY GroundAssumption, Zenon DEF NoFalseAlarm, SafeIsObserved
<1>4. CountIsStreak /\ LostAreCounted
  BY <1>1 DEF CountIsStreak, LostAreCounted, Lost
<1> QED
  BY <1>2, <1>3, <1>4 DEF GroundInv

\* Every poll of the sensor, answered or not, and a reload keep GroundInv.
LEMMA GroundNextKeeps ==
  ASSUME GroundInv, [GroundNext]_groundVars
  PROVE  GroundInv'
<1>1. ASSUME NEW f \in GroundFrames, GoodPoll(f)
      PROVE  GroundInv'
  BY <1>1, GoodPollKeepsInv
<1>2. CASE FailedPoll
  BY <1>2, FailedPollKeepsInv
<1>3. CASE Reload
  <2>1. /\ data' = None /\ lastOk' = TRUE /\ count' = 0
        /\ on' = None /\ ctrlOn' = None /\ log' = <<>>
    BY <1>3 DEF Reload
  <2>2. log' \in Seq(Outcomes) /\ Len(log') = 0
    BY <2>1
  <2>3. GroundTypeOK'
    BY <2>1, <2>2 DEF GroundTypeOK, DebounceThreshold
  <2>4. NoFalseAlarm' /\ SafeIsObserved'
    BY <2>1, GroundAssumption, Zenon DEF NoFalseAlarm, SafeIsObserved
  <2>5. CountIsStreak' /\ LostAreCounted'
    BY <2>1, <2>2 DEF CountIsStreak, LostAreCounted, Lost
  <2> QED
    BY <2>1, <2>3, <2>4, <2>5 DEF GroundInv
<1>4. CASE UNCHANGED groundVars
  <2>1. /\ lastOk' = lastOk /\ data' = data /\ count' = count /\ on' = on
        /\ ctrlOn' = ctrlOn /\ log' = log
    BY <1>4 DEF groundVars
  <2>2. GroundTypeOK' /\ NoFalseAlarm' /\ SafeIsObserved'
    BY <2>1 DEF GroundInv, GroundTypeOK, NoFalseAlarm, SafeIsObserved
  <2> QED
    BY <2>1, <2>2 DEF GroundInv, CountIsStreak, LostAreCounted
<1> QED
  BY <1>1, <1>2, <1>3, <1>4 DEF GroundNext

\* The inductive invariant of the safety sensor.
THEOREM GroundInvariance == GroundSpec => []GroundInv
<1>1. GroundInit => GroundInv
  BY NothingHeard DEF GroundInit, GroundNew
<1>2. GroundInv /\ [GroundNext]_groundVars => GroundInv'
  BY GroundNextKeeps
<1> QED
  BY <1>1, <1>2, PTL DEF GroundSpec

\* Three real readings in a row or a declared fault are behind every alarm, and
\* nothing since has shown the earth: a failed poll is not one of the three.
THEOREM AlarmsAreNotFalse == GroundSpec => []NoFalseAlarm
BY GroundInvariance, PTL DEF GroundInv

\* What three lost readings in a row have raised.
LEMMA LostIsAlarmed == GroundInv => NoMissedAlarm
<1> SUFFICES ASSUME GroundInv, Len(log) >= 3,
                    \A j \in (Len(log) - 2)..Len(log) : log[j] = "lost"
             PROVE  on = TRUE
  BY DEF NoMissedAlarm
<1>1. Len(log) \in Nat
  BY DEF GroundInv, GroundTypeOK
<1>2. Lost(log, 1) /\ Lost(log, 3)
  BY <1>1 DEF Lost
<1> QED
  BY <1>2 DEF GroundInv, LostAreCounted

\* Three readings of a lost earth in a row raise the alarm.
THEOREM AlarmsAreNotMissed == GroundSpec => []NoMissedAlarm
<1>1. GroundInv => NoMissedAlarm
  BY LostIsAlarmed
<1> QED
  BY <1>1, GroundInvariance, PTL

\* "safe" is only said of an earth somebody was checking.
THEOREM SafeIsConfirmed == GroundSpec => []SafeIsObserved
BY GroundInvariance, PTL DEF GroundInv

-----------------------------------------------------------------------------
(* The toggle holds what was asked for, for any number of writes, touches   *)
(* and polls, if the station lags by fewer responses than the toggle waits. *)

\* What a write that the station did is on its way to: its value is held until
\* the station has stopped serving the old one, and is read from then on.
Held ==
  wanted # None =>
    /\ enabled = wanted
    /\ writing # None => writing = wanted /\ lagging = Lag
    /\ writing = None /\ optimistic # None =>
         optimistic = wanted /\ (lagging > 0 => polls + lagging <= Lag)
    /\ writing = None /\ optimistic = None =>
         reading = wanted /\ (lagging > 0 => cached = wanted)

SwitchInv == SwitchTypeOK /\ Held

\* Neither value for nothing is a state of the contactor.
LEMMA NothingsDiffer == None \notin BOOLEAN /\ Absent \notin BOOLEAN /\ None # Absent
BY SwitchAssumption

\* A write the station carries out makes it lag from then on.
LEMMA WriteKeeps ==
  ASSUME SwitchInv, NEW b \in BOOLEAN, Write(b)
  PROVE  SwitchInv'
<1>1. /\ writing' = b /\ lagging' = Lag /\ enabled' \in {enabled, b}
      /\ cached' \in {enabled, cached}
      /\ wanted' = IF enabled' = b THEN b ELSE None
      /\ writes' = writes + 1 /\ writes < MaxWrites
      /\ UNCHANGED <<optimistic, polls, reading, lastOk, touches>>
  BY DEF Write
<1>2. SwitchTypeOK'
  BY <1>1, SwitchAssumption DEF SwitchInv, SwitchTypeOK
<1>3. wanted' # None => wanted' = b /\ enabled' = b
  BY <1>1
<1>4. writing' # None
  BY <1>1, NothingsDiffer
<1>5. Held'
  BY <1>1, <1>3, <1>4 DEF Held
<1> QED
  BY <1>2, <1>5 DEF SwitchInv

\* Once the write is acknowledged its value is held, for a fresh count of polls.
LEMMA ReturnKeeps ==
  ASSUME SwitchInv, WriteReturns
  PROVE  SwitchInv'
<1>1. /\ writing # None /\ writing' = None /\ optimistic' = writing /\ polls' = 0
      /\ UNCHANGED <<enabled, cached, lagging, reading, lastOk, writes, touches, wanted>>
  BY DEF WriteReturns, contactor
<1>2. SwitchTypeOK'
  BY <1>1 DEF SwitchInv, SwitchTypeOK, OptimisticMaxPolls
<1>3. Held'
  <2>1. lagging \in Nat /\ Lag \in Nat
    BY SwitchAssumption DEF SwitchInv, SwitchTypeOK
  <2> QED
    BY <2>1, <1>1 DEF SwitchInv, Held
<1> QED
  BY <1>2, <1>3 DEF SwitchInv

\* What a notification may do to the toggle.
LEMMA NotifiedType ==
  ASSUME SwitchTypeOK, NEW r \in BOOLEAN \cup {None, Absent}, Notified(r)
  PROVE  /\ optimistic' \in {optimistic, None}
         /\ polls' \in 0..OptimisticMaxPolls
         /\ optimistic' # None => polls' < OptimisticMaxPolls
<1>1. polls \in 0..3 /\ (optimistic # None => polls < 3)
  BY DEF SwitchTypeOK, OptimisticMaxPolls
<1>2. CASE optimistic = None
  BY <1>1, <1>2 DEF Notified, held, OptimisticMaxPolls
<1>3. CASE optimistic # None
  <2>1. polls' = polls + 1 /\ optimistic' = IF Polled(r) = optimistic \/ polls + 1 >= 3
                                           THEN None ELSE optimistic
    BY <1>3 DEF Notified, OptimisticMaxPolls
  <2>2. polls' \in 0..3 /\ optimistic' \in {optimistic, None}
    BY <2>1, <1>1, <1>3
  <2>3. optimistic' # None => polls' < 3
    BY <2>1, <1>1
  <2> QED
    BY <2>2, <2>3 DEF OptimisticMaxPolls
<1> QED
  BY <1>2, <1>3

\* The responses the station still owes are fewer than the polls left.
LEMMA AnswerKeeps ==
  ASSUME SwitchInv, PollAnswered, Lag < OptimisticMaxPolls
  PROVE  SwitchInv'
<1>1. /\ writing = None /\ writing' = None
      /\ reading' \in {Absent, IF lagging > 0 THEN cached ELSE enabled}
      /\ lagging' = IF lagging > 0 THEN lagging - 1 ELSE 0
      /\ lastOk' = TRUE
      /\ Notified(reading')
      /\ wanted' = IF reading' = Absent THEN None ELSE wanted
      /\ UNCHANGED <<enabled, cached, writes, touches>>
  BY DEF PollAnswered, LockFree
<1>2. /\ enabled \in BOOLEAN /\ cached \in BOOLEAN /\ lagging \in 0..Lag /\ Lag \in Nat
      /\ polls \in 0..3 /\ Lag < 3 /\ optimistic \in BOOLEAN \cup {None}
      /\ wanted \in BOOLEAN \cup {None}
  BY SwitchAssumption DEF SwitchInv, SwitchTypeOK, OptimisticMaxPolls
<1>3. reading' \in BOOLEAN \cup {None, Absent}
  BY <1>1, <1>2
<1>4. SwitchTypeOK'
  <2>1. /\ optimistic' \in {optimistic, None} /\ polls' \in 0..OptimisticMaxPolls
        /\ optimistic' # None => polls' < OptimisticMaxPolls
    BY <1>1, <1>3, NotifiedType DEF SwitchInv
  <2>2. lagging' \in 0..Lag
    BY <1>1, <1>2
  <2> QED
    BY <2>1, <2>2, <1>1, <1>2, <1>3 DEF SwitchInv, SwitchTypeOK
<1>5. ASSUME wanted' # None
      PROVE  /\ enabled' = wanted'
             /\ optimistic' # None =>
                  optimistic' = wanted' /\ (lagging' > 0 => polls' + lagging' <= Lag)
             /\ optimistic' = None =>
                  reading' = wanted' /\ (lagging' > 0 => cached' = wanted')
  <2>1. /\ wanted' = wanted /\ reading' = IF lagging > 0 THEN cached ELSE enabled
        /\ enabled = wanted /\ enabled' = enabled /\ cached' = cached
    BY <1>1, <1>5 DEF SwitchInv, Held
  <2>2. Polled(reading') = reading'
    BY <2>1, <1>2 DEF Polled
  <2>3. CASE optimistic = None
    <3>1. optimistic' = None
      BY <2>3, <1>1 DEF Notified, held
    <3>2. lagging > 0 => cached = wanted
      BY <1>1, <1>5, <2>1, <2>3 DEF SwitchInv, Held
    <3>3. lagging' > 0 => lagging > 0
      BY <1>1, <1>2
    <3> QED
      BY <2>1, <3>1, <3>2, <3>3
  <2>4. CASE optimistic # None
    <3>1. /\ optimistic = wanted /\ (lagging > 0 => polls + lagging <= Lag)
      BY <1>1, <1>5, <2>1, <2>4 DEF SwitchInv, Held
    <3>2. /\ polls' = polls + 1
          /\ optimistic' = IF reading' = optimistic \/ polls + 1 >= 3 THEN None ELSE optimistic
      BY <2>2, <2>4, <1>1 DEF Notified, OptimisticMaxPolls
    <3>3. CASE reading' = wanted
      <4>1. optimistic' = None
        BY <3>1, <3>2, <3>3
      <4>2. lagging' > 0 => lagging > 0
        BY <1>1, <1>2
      <4> QED
        BY <4>1, <4>2, <2>1, <3>3
    <3>4. CASE reading' # wanted
      <4>1. lagging > 0
        BY <2>1, <3>4
      <4>2. polls + 1 < 3 /\ (lagging' > 0 => polls' + lagging' <= Lag)
        BY <4>1, <3>1, <3>2, <1>1, <1>2
      <4>3. optimistic' = wanted
        BY <4>2, <3>1, <3>2, <3>4, <1>2
      <4> QED
        BY <4>2, <4>3, <2>1, <1>5
    <3> QED
      BY <3>3, <3>4
  <2> QED
    BY <2>3, <2>4
<1> QED
  BY <1>1, <1>4, <1>5 DEF SwitchInv, Held

\* Without a promise there is nothing to hold.
LEMMA FailureKeeps ==
  ASSUME SwitchInv, PollFails
  PROVE  SwitchInv'
<1>1. /\ wanted' = None /\ lastOk' = FALSE
      /\ IF lastOk THEN Notified(reading) ELSE UNCHANGED held
      /\ UNCHANGED <<enabled, cached, lagging, writing, reading, writes, touches>>
  BY DEF PollFails, contactor
<1>2. reading \in BOOLEAN \cup {None, Absent} /\ SwitchTypeOK
  BY DEF SwitchInv, SwitchTypeOK
<1>3. /\ optimistic' \in {optimistic, None} /\ polls' \in 0..OptimisticMaxPolls
      /\ optimistic' # None => polls' < OptimisticMaxPolls
  <2>1. CASE lastOk
    BY <2>1, <1>1, <1>2, NotifiedType
  <2>2. CASE ~lastOk
    BY <2>2, <1>1, <1>2 DEF held, SwitchTypeOK
  <2> QED
    BY <2>1, <2>2
<1>4. SwitchTypeOK'
  BY <1>1, <1>2, <1>3 DEF SwitchTypeOK
<1> QED
  BY <1>1, <1>4 DEF SwitchInv, Held

\* Nothing is promised at first.
LEMMA SwitchNewKeeps ==
  ASSUME SwitchNew, lastOk \in BOOLEAN
  PROVE  SwitchInv
<1>1. SwitchTypeOK
  BY SwitchAssumption, NothingsDiffer DEF SwitchNew, SwitchTypeOK, OptimisticMaxPolls
<1> QED
  BY <1>1 DEF SwitchNew, SwitchInv, Held

\* Every step of the user, of the station and of a poll keeps SwitchInv.
LEMMA SwitchNextKeeps ==
  ASSUME Lag < OptimisticMaxPolls, SwitchInv, [SwitchNext]_switchVars
  PROVE  SwitchInv'
<1>1. CASE Touch
  <2>1. SwitchTypeOK'
    BY <1>1, SwitchAssumption DEF Touch, SwitchInv, SwitchTypeOK
  <2> QED
    BY <1>1, <2>1 DEF Touch, SwitchInv, Held
<1>2. ASSUME NEW b \in BOOLEAN, Write(b)
      PROVE  SwitchInv'
  BY <1>2, WriteKeeps
<1>3. CASE WriteReturns
  BY <1>3, ReturnKeeps
<1>4. CASE WriteFails
  <2>1. SwitchTypeOK'
    BY <1>4 DEF WriteFails, contactor, held, SwitchInv, SwitchTypeOK
  <2> QED
    BY <1>4, <2>1 DEF WriteFails, SwitchInv, Held
<1>5. CASE PollAnswered
  BY <1>5, AnswerKeeps
<1>6. CASE PollFails
  BY <1>6, FailureKeeps
<1>7. CASE UNCHANGED switchVars
  BY <1>7 DEF switchVars, SwitchInv, SwitchTypeOK, Held
<1> QED
  BY <1>1, <1>2, <1>3, <1>4, <1>5, <1>6, <1>7 DEF SwitchNext

\* The invariant, and with it the promise, where the station lags by fewer
\* responses than the three polls the toggle waits.
THEOREM SwitchInvariance ==
  ASSUME Lag < OptimisticMaxPolls
  PROVE  SwitchSpec => []SwitchInv
<1>1. SwitchInit => SwitchInv
  BY SwitchNewKeeps DEF SwitchInit
<1>2. SwitchInv /\ [SwitchNext]_switchVars => SwitchInv'
  BY SwitchNextKeeps
<1> QED
  BY <1>1, <1>2, PTL DEF SwitchSpec

\* What the toggle shows of a promise.
LEMMA PromisesHold == SwitchInv => NoSpringBack
<1> SUFFICES ASSUME SwitchInv, wanted # None, writing = None
             PROVE  IsOn = wanted
  BY DEF NoSpringBack
<1>1. CASE optimistic # None
  BY <1>1 DEF SwitchInv, Held, IsOn
<1>2. CASE optimistic = None
  <2>1. reading = wanted /\ wanted \in BOOLEAN
    BY <1>2 DEF SwitchInv, SwitchTypeOK, Held
  <2> QED
    BY <1>2, <2>1, NothingsDiffer DEF IsOn
<1> QED
  BY <1>1, <1>2

\* Once a write has returned and the station did it, the toggle shows what was
\* asked for until somebody interferes, however often it is written, if the
\* station serves its old value for at most two responses.
THEOREM TogglesDoNotSpringBack ==
  ASSUME Lag < OptimisticMaxPolls
  PROVE  SwitchSpec => []NoSpringBack
<1>1. SwitchInv => NoSpringBack
  BY PromisesHold
<1> QED
  BY <1>1, SwitchInvariance, PTL

-----------------------------------------------------------------------------
(* No session is booked twice, for any number of sessions, restarts and     *)
(* crashes, unless a crash cuts a reset off from its save.                  *)

\* The session a reset opened a bucket for.
Bucket(o, r) == IF r = None THEN 1 ELSE o[r]

Resets == 1..Len(opened) \cup {None}

\* Resets that are stored or booked have fired.
ResetsExist ==
  /\ stored.reset \in Resets
  /\ saving # None => saving.reset \in Resets
  /\ seen # None => seen.reset \in Resets

\* The last value is that of the last frame, if it was handled.
PrevIsOfFrame == prev # None => frame # None /\ prev = frame.energy

\* What is always so.
Shape ==
  /\ BucketsTypeOK /\ lastOk \in BOOLEAN
  /\ ResetsExist /\ PrevIsOfFrame
  /\ energy < total /\ 1 <= session
  /\ lastOk => frame # None
  /\ ~up => saving = None /\ (~torn => stored.reset = lastReset)

\* Every reset fired on a later session than the one before, and the last one
\* is in force.
OpenedInOrder ==
  /\ \A i \in 1..Len(opened) : 1 < opened[i] /\ opened[i] <= session
  /\ \A i, j \in 1..Len(opened) : i < j => opened[i] < opened[j]
  /\ lastReset = IF Len(opened) = 0 THEN None ELSE Len(opened)

\* Since an anchor of this session the two counters have moved alike.
Agrees(r, a) ==
  a # None /\ Bucket(opened, r) = session => total - a.total = energy - a.energy

AnchorsAgree ==
  /\ Agrees(lastReset, anchor)
  /\ Agrees(stored.reset, stored.anchor)
  /\ saving # None => Agrees(saving.reset, saving.anchor)

\* The last frame with a value is of the session of the bucket.
FrameAgrees ==
  frame # None /\ frame.energy # None =>
    /\ frame.session = Bucket(opened, lastReset)
    /\ frame.session = session => frame.energy <= energy
    /\ Carries(frame) /\ frame.session = session =>
         total - frame.total = energy - frame.energy
    /\ Carries(frame) /\ anchor # None =>
         frame.total - anchor.total = frame.energy - anchor.energy

\* What the session of the last booking delivered after it has not been booked.
Unbooked == IF Bucket(opened, seen.reset) = session THEN energy - seen.value ELSE energy

Booked ==
  /\ seen = None => surplus = 0
  /\ seen # None =>
       /\ Bucket(opened, seen.reset) = session => seen.value <= energy
       /\ surplus + Unbooked <= 0

Clean == OpenedInOrder /\ AnchorsAgree /\ FrameAgrees /\ Booked

BucketsInv == Shape /\ (~late /\ ~torn => Clean)

-----------------------------------------------------------------------------
\* The station.

\* Charging raises both counters and what is not booked yet.
LEMMA ChargeKeeps ==
  ASSUME BucketsInv, ChargeUnit
  PROVE  BucketsInv'
<1>1. /\ energy' = energy + 1 /\ total' = total + 1
      /\ surplus' = IF seen = None THEN surplus ELSE surplus - 1
      /\ UNCHANGED <<session, booting, up, lastOk, frame, prev, anchor, lastReset, stored,
                     saving, starts, opened, seen, late, torn, handled, faint, doubt, missed>>
  BY DEF ChargeUnit, measured, witness
<1>2. energy \in Nat /\ total \in Nat /\ surplus \in Int
  BY DEF BucketsInv, Shape, BucketsTypeOK
<1>3. BucketsTypeOK'
  BY <1>1, <1>2 DEF BucketsInv, Shape, BucketsTypeOK
<1>4. Shape'
  BY <1>1, <1>2, <1>3 DEF BucketsInv, Shape, ResetsExist, Resets, PrevIsOfFrame
<1>5. ASSUME ~late, ~torn
      PROVE  Clean'
  <2>1. OpenedInOrder'
    BY <1>1, <1>5 DEF BucketsInv, Clean, OpenedInOrder
  <2>2. \A a \in Pairs : total' - a.total = energy' - a.energy <=> total - a.total = energy - a.energy
    BY <1>1, <1>2 DEF Pairs
  <2>3. /\ anchor # None => anchor \in Pairs
        /\ stored.anchor # None => stored.anchor \in Pairs
        /\ saving # None /\ saving.anchor # None => saving.anchor \in Pairs
    BY DEF BucketsInv, Shape, BucketsTypeOK, Payloads
  <2>4. AnchorsAgree'
    BY <1>1, <1>5, <2>2, <2>3 DEF BucketsInv, Clean, AnchorsAgree, Agrees
  <2>5. FrameAgrees'
    <3> SUFFICES ASSUME frame # None, frame.energy # None
                 PROVE  FrameAgrees'
      BY <1>1 DEF FrameAgrees
    <3>1. frame.energy \in Nat /\ (Carries(frame) => frame.total \in Nat)
      BY DEF BucketsInv, Shape, BucketsTypeOK, Readings, Carries
    <3> QED
      BY <1>1, <1>2, <1>5, <3>1 DEF BucketsInv, Clean, FrameAgrees, Carries
  <2>6. Booked'
    <3>1. seen # None => seen.value \in Nat
      BY DEF BucketsInv, Shape, BucketsTypeOK, Bookings
    <3> QED
      BY <1>1, <1>2, <1>5, <3>1 DEF BucketsInv, Clean, Booked, Unbooked
  <2> QED
    BY <2>1, <2>4, <2>5, <2>6 DEF Clean
<1> QED
  BY <1>1, <1>4, <1>5 DEF BucketsInv

\* With a new session nothing that was noted is of the present one.
LEMMA NewSessionKeeps ==
  ASSUME BucketsInv, session' = session + 1, energy' = 0, total' \in Nat, 0 < total',
         booting' \in BOOLEAN, faint' \subseteq Nat,
         UNCHANGED <<up, lastOk, frame, prev, anchor, lastReset, stored, saving, starts, opened,
                     seen, surplus, late, torn, handled, doubt, missed>>
  PROVE  BucketsInv'
<1>1. energy \in Nat /\ session \in Nat /\ surplus \in Int
  BY DEF BucketsInv, Shape, BucketsTypeOK
<1>2. BucketsTypeOK'
  BY <1>1 DEF BucketsInv, Shape, BucketsTypeOK
<1>3. Shape'
  BY <1>1, <1>2 DEF BucketsInv, Shape, ResetsExist, Resets, PrevIsOfFrame
<1>4. ASSUME ~late, ~torn
      PROVE  Clean'
  <2>1. OpenedInOrder'
    <3>1. \A i \in 1..Len(opened) : opened[i] \in Nat
      BY DEF BucketsInv, Shape, BucketsTypeOK
    <3> QED
      BY <1>1, <1>4, <3>1 DEF BucketsInv, Clean, OpenedInOrder
  <2>2. ASSUME NEW r \in Resets
        PROVE  Bucket(opened, r) <= session /\ Bucket(opened, r) \in Nat
    BY <1>1, <1>4, <2>2
    DEF BucketsInv, Shape, BucketsTypeOK, Clean, OpenedInOrder, Bucket, Resets
  <2>3. \A r \in Resets : Bucket(opened, r) # session + 1
    BY <1>1, <2>2
  <2>4. lastReset \in Resets
    BY DEF BucketsInv, Shape, BucketsTypeOK, Resets
  <2>5. AnchorsAgree'
    BY <2>3, <2>4 DEF BucketsInv, Shape, ResetsExist, AnchorsAgree, Agrees
  <2>6. FrameAgrees'
    BY <1>4, <2>3, <2>4 DEF BucketsInv, Clean, FrameAgrees, Carries
  <2>7. Booked'
    <3>1. ASSUME seen # None
          PROVE  surplus <= 0 /\ Bucket(opened, seen.reset) # session + 1
      <4>1. seen.value \in Nat
        BY <3>1 DEF BucketsInv, Shape, BucketsTypeOK, Bookings
      <4>2. Unbooked \in Int /\ 0 <= Unbooked
        BY <1>1, <1>4, <3>1, <4>1 DEF BucketsInv, Clean, Booked, Unbooked
      <4> QED
        BY <1>1, <1>4, <2>3, <3>1, <4>2 DEF BucketsInv, Shape, ResetsExist, Clean, Booked
    <3> QED
      BY <1>1, <1>4, <3>1 DEF BucketsInv, Clean, Booked, Unbooked
  <2> QED
    BY <2>1, <2>5, <2>6, <2>7 DEF Clean
<1> QED
  BY <1>3, <1>4 DEF BucketsInv

-----------------------------------------------------------------------------
\* Polls: what the entity makes of a frame, and the recorder of what it publishes.

\* What a reset that has fired was opened for does not change.
OpenedGrows ==
  /\ opened' \in Seq(Nat) /\ Len(opened) <= Len(opened')
  /\ \A i \in 1..Len(opened) : opened'[i] = opened[i]

\* A frame leaves everything it touches well-typed.
LEMMA HandleType ==
  ASSUME BucketsTypeOK, ResetsExist, NEW f \in Readings, Handle(f)
  PROVE  /\ OpenedGrows
         /\ prev' \in Nat \cup {None} /\ prev' = f.energy
         /\ anchor' \in Pairs \cup {None}
         /\ lastReset' \in Resets'
         /\ saving' \in Payloads \cup {None}
         /\ saving' # None => saving'.reset \in Resets'
         /\ handled' \in Nat /\ {doubt', missed'} \subseteq BOOLEAN /\ faint' = faint
<1>1. /\ f.energy \in Nat \cup {None} /\ f.total \in Nat \cup {None} /\ f.session \in Nat
      /\ Carries(f) => PairOf(f) \in Pairs
  BY DEF Readings, Carries, PairOf, Pairs
<1>2. /\ prev' = f.energy /\ handled' = f.session /\ doubt' = ~Carries(f) /\ faint' = faint
      /\ missed' = IF f.session = handled THEN missed
                   ELSE doubt \/ ~Carries(f) \/ faint \cap (handled + 1)..f.session # {}
  BY DEF Handle
<1>3. doubt' \in BOOLEAN /\ missed' \in BOOLEAN
  <2>1. missed \in BOOLEAN /\ doubt' \in BOOLEAN
    BY <1>2 DEF BucketsTypeOK
  <2>2. CASE f.session = handled
    BY <1>2, <2>1, <2>2
  <2>3. CASE f.session # handled
    BY <1>2, <2>3, Zenon
  <2> QED
    BY <2>1, <2>2, <2>3
<1>4. CASE BoundaryFound(f)
  <2>1. /\ opened' = Append(opened, f.session) /\ lastReset' = Len(opened')
        /\ anchor' = (IF Carries(f) THEN PairOf(f) ELSE None)
        /\ saving' = [reset |-> lastReset', anchor |-> anchor']
    BY <1>4 DEF BoundaryFound, Payload
  <2>2. OpenedGrows /\ Len(opened') = Len(opened) + 1 /\ Len(opened) \in Nat
    BY <2>1, <1>1 DEF BucketsTypeOK, OpenedGrows
  <2>3. lastReset' \in Resets' /\ lastReset' \in Nat
    BY <2>1, <2>2 DEF Resets
  <2>4. anchor' \in Pairs \cup {None}
    BY <1>1, <2>1
  <2>5. saving' \in Payloads /\ saving'.reset = lastReset'
    BY <2>1, <2>3, <2>4 DEF Payloads
  <2> QED
    BY <1>1, <1>2, <1>3, <2>2, <2>3, <2>4, <2>5
<1>5. CASE NoBoundary(f)
  <2>1. UNCHANGED <<opened, lastReset, saving>>
    BY <1>5 DEF NoBoundary
  <2>2. anchor' \in Pairs \cup {None}
    BY <1>1, <1>5 DEF NoBoundary, BucketsTypeOK
  <2> QED
    BY <1>1, <1>2, <1>3, <2>1, <2>2 DEF BucketsTypeOK, ResetsExist, OpenedGrows, Resets
<1> QED
  BY <1>4, <1>5 DEF Handle

\* So does what is published, under the reset in force.
LEMMA PublishType ==
  ASSUME BucketsTypeOK, ResetsExist, NEW f \in Readings, OpenedGrows,
         lastReset' \in Resets', Publish(f, lastReset')
  PROVE  /\ seen' \in Bookings \cup {None} /\ surplus' \in Int /\ late' \in BOOLEAN
         /\ seen' # None => seen'.reset \in Resets'
         /\ ~late' => ~late /\ (f.energy # None => Bucket(opened', lastReset') = f.session)
<1>1. late \in BOOLEAN /\ surplus \in Int
  BY DEF BucketsTypeOK
<1>2. Resets \subseteq Resets' /\ Resets' \subseteq Nat \cup {None}
  BY DEF OpenedGrows, Resets, BucketsTypeOK
<1>3. CASE f.energy = None
  BY <1>1, <1>2, <1>3 DEF Publish, recorder, BucketsTypeOK, ResetsExist
<1>4. CASE f.energy # None
  <2>1. f.energy \in Nat
    BY <1>4 DEF Readings
  <2> DEFINE known == IF seen = None THEN None ELSE seen.reset
             r == lastReset'
             booked == IF seen = None THEN 0
                       ELSE IF r # None /\ r # known THEN f.energy ELSE f.energy - seen.value
  <2>2. /\ seen' = [reset |-> IF r = None THEN known ELSE r, value |-> f.energy]
        /\ surplus' = surplus + booked
        /\ late' = (late \/ BucketOf(r) # f.session)
    BY <1>4 DEF Publish
  <2>3. known \in Resets'
    BY <1>2 DEF ResetsExist, Resets
  <2>4. booked \in Int
    BY <2>1 DEF BucketsTypeOK, Bookings
  <2>5. BucketOf(r) = Bucket(opened', r)
    BY DEF BucketOf, Bucket
  <2>6. (IF r = None THEN known ELSE r) \in Resets'
    BY <2>3
  <2> HIDE DEF known, booked, r
  <2>7. seen' \in Bookings /\ seen'.reset \in Resets'
    BY <1>2, <2>1, <2>2, <2>6 DEF Bookings
  <2>8. late' \in BOOLEAN /\ surplus' \in Int
    BY <1>1, <2>2, <2>4
  <2> QED
    BY <1>1, <2>2, <2>5, <2>7, <2>8 DEF r
<1> QED
  BY <1>3, <1>4

\* The heart of it: a value under a new reset is of a later session than the
\* last booking, one under the same reset is of the same session.
LEMMA PublishKeepsBooked ==
  ASSUME BucketsTypeOK, ResetsExist, Booked, NEW f \in Readings,
         f.energy \in {energy, None}, f.session = session, UNCHANGED <<energy, session>>,
         OpenedGrows, OpenedInOrder', lastReset' \in Resets',
         Publish(f, lastReset'), ~late'
  PROVE  Booked'
<1>1. energy \in Nat /\ surplus \in Int /\ session \in Nat
  BY DEF BucketsTypeOK
<1>2. \A q \in Resets : Bucket(opened', q) = Bucket(opened, q)
  BY DEF OpenedGrows, Resets, Bucket
<1>3. CASE f.energy = None
  <2>1. UNCHANGED <<seen, surplus>>
    BY <1>3 DEF Publish, recorder
  <2>2. seen # None => Bucket(opened', seen.reset) = Bucket(opened, seen.reset)
    BY <1>2 DEF ResetsExist
  <2> QED
    BY <2>1, <2>2 DEF Booked, Unbooked
<1>4. CASE f.energy # None
  <2>1. f.energy = energy /\ energy # None
    BY <1>4
  <2> DEFINE known == IF seen = None THEN None ELSE seen.reset
             r == lastReset'
             booked == IF seen = None THEN 0
                       ELSE IF r # None /\ r # known THEN energy ELSE energy - seen.value
  <2>2. /\ seen' = [reset |-> IF r = None THEN known ELSE r, value |-> energy]
        /\ surplus' = surplus + booked
    BY <1>4, <2>1 DEF Publish
  <2>3. Bucket(opened', r) = session
    BY <1>4, PublishType
  <2>4. known \in Resets /\ known \in Resets'
    BY DEF ResetsExist, Resets, OpenedGrows, BucketsTypeOK
  <2>5. r = None => known = None
    BY <2>4, BucketsAssumption DEF OpenedInOrder, Resets, OpenedGrows
  <2>6. seen'.reset = r /\ seen'.value = energy /\ seen' \in Bookings
    <3>1. r \in Nat \cup {None}
      BY DEF Resets, OpenedGrows
    <3> QED
      BY <1>1, <2>2, <2>5, <3>1 DEF Bookings
  <2>7. seen' # None
    BY <2>6, BucketsNoneAssumption
  <2>8. surplus' <= 0
    <3>1. CASE seen = None
      BY <1>1, <2>2, <3>1 DEF Booked
    <3>2. CASE seen # None /\ r # None /\ r # known
      <4>1. Bucket(opened', known) < Bucket(opened', r)
        <5>1. r = Len(opened') /\ r \in 1..Len(opened')
          BY <3>2 DEF OpenedInOrder, Resets
        <5>2. CASE known = None
          BY <5>1, <5>2, <3>2 DEF OpenedInOrder, Bucket
        <5>3. CASE known # None
          <6>1. known \in 1..Len(opened') /\ known < r
            BY <2>4, <3>2, <5>1, <5>3 DEF Resets, OpenedGrows
          <6> QED
            BY <3>2, <5>1, <5>3, <6>1 DEF OpenedInOrder, Bucket
        <5> QED
          BY <5>2, <5>3
      <4>2. Bucket(opened, seen.reset) # session
        BY <1>1, <1>2, <2>3, <2>4, <3>2, <4>1
      <4> QED
        BY <1>1, <2>2, <3>2, <4>2 DEF Booked, Unbooked
    <3>3. CASE seen # None /\ ~(r # None /\ r # known)
      <4>1. known = r /\ known = seen.reset
        BY <2>5, <3>3
      <4>2. Bucket(opened, seen.reset) = session
        BY <1>2, <2>3, <2>4, <4>1
      <4>3. seen.value \in Nat
        BY <3>3 DEF BucketsTypeOK, Bookings
      <4> QED
        BY <1>1, <2>2, <3>3, <4>2, <4>3 DEF Booked, Unbooked
    <3> QED
      BY <3>1, <3>2, <3>3
  <2>9. surplus' \in Int
    BY PublishType
  <2>10. Bucket(opened', seen'.reset) = session' /\ energy' - seen'.value = 0
    BY <1>1, <2>3, <2>6
  <2>11. seen'.value <= energy'
    BY <1>1, <2>6
  <2>12. surplus' + (energy' - seen'.value) <= 0
    BY <2>8, <2>9, <2>10
  <2> HIDE DEF r, known, booked
  <2> QED
    BY <2>7, <2>10, <2>11, <2>12 DEF Booked, Unbooked
<1> QED
  BY <1>3, <1>4

-----------------------------------------------------------------------------
\* A boundary is only found in a frame of a later session than the bucket's.
LEMMA BoundaryIsLater ==
  ASSUME Shape, Clean, NEW f \in Readings, BoundaryFound(f),
         f.energy \in {energy, None}, f.total \in {0, total, None}, f.session = session
  PROVE  Bucket(opened, lastReset) < session /\ Bucket(opened, lastReset) \in Nat
<1>1. energy \in Nat /\ total \in Nat /\ session \in Nat /\ 1 <= session
  BY DEF Shape, BucketsTypeOK
<1>2. Bucket(opened, lastReset) \in Nat /\ Bucket(opened, lastReset) <= session
  BY <1>1 DEF Shape, BucketsTypeOK, Clean, OpenedInOrder, Bucket
<1>3. Bucket(opened, lastReset) # session
  <2>1. CASE Fell(f)
    <3>1. prev # None /\ f.energy = energy /\ energy < prev
      BY <2>1 DEF Fell
    <3>2. frame # None /\ frame.energy = prev
      BY <3>1 DEF Shape, PrevIsOfFrame
    <3>3. prev \in Nat
      BY <3>1 DEF Shape, BucketsTypeOK
    <3> QED
      BY <1>1, <3>1, <3>2, <3>3 DEF Clean, FrameAgrees
  <2>2. CASE Disagree(f)
    <3>1. Carries(f) /\ anchor # None /\ f.total = total /\ f.energy = energy
          /\ (total - anchor.total) - (energy - anchor.energy) > Moved
      BY <2>2 DEF Disagree, Carries
    <3>2. anchor.total \in Nat /\ anchor.energy \in Nat
      BY <3>1 DEF Shape, BucketsTypeOK, Pairs
    <3> QED
      BY <1>1, <3>1, <3>2, BucketsAssumption DEF Clean, AnchorsAgree, Agrees
  <2> QED
    BY <2>1, <2>2 DEF BoundaryFound
<1> QED
  BY <1>1, <1>2, <1>3

\* A polled frame keeps the order of the resets and what the anchors are for.
LEMMA PolledIsClean ==
  ASSUME Shape, Clean, NEW f \in Readings, Handle(f), UNCHANGED <<energy, total, session, stored>>,
         f.energy \in {energy, None}, f.total \in {0, total, None}, f.session = session,
         frame' = f, f.energy # None => Bucket(opened', lastReset') = session
  PROVE  OpenedInOrder' /\ AnchorsAgree' /\ FrameAgrees'
<1>1. energy \in Nat /\ total \in Nat /\ session \in Nat /\ 1 <= session
      /\ BucketsTypeOK /\ ResetsExist
  BY DEF Shape, BucketsTypeOK
<1>2. OpenedGrows
  BY <1>1, HandleType
<1>3. \A q \in Resets : Bucket(opened', q) = Bucket(opened, q)
  BY <1>2 DEF OpenedGrows, Resets, Bucket
<1>4. OpenedInOrder'
  <2>1. CASE NoBoundary(f)
    BY <2>1 DEF NoBoundary, Clean, OpenedInOrder
  <2>2. CASE BoundaryFound(f)
    <3>1. opened' = Append(opened, session) /\ lastReset' = Len(opened')
      BY <2>2 DEF BoundaryFound
    <3>2. Bucket(opened, lastReset) < session
      BY <2>2, BoundaryIsLater
    <3>3. opened \in Seq(Nat) /\ Len(opened) \in Nat
      BY <1>1 DEF BucketsTypeOK
    <3>4. /\ Len(opened') = Len(opened) + 1 /\ opened'[Len(opened) + 1] = session
          /\ \A i \in 1..Len(opened) : opened'[i] = opened[i] /\ opened[i] \in Nat
      BY <1>1, <3>1, <3>3
    <3>5. 1 < session /\ \A i \in 1..Len(opened) : opened[i] < session
      <4>1. CASE Len(opened) = 0
        BY <1>1, <3>2, <4>1 DEF Clean, OpenedInOrder, Bucket
      <4>2. CASE Len(opened) # 0
        <5>1. Len(opened) # None /\ Len(opened) \in 1..Len(opened)
          BY <3>3, <4>2, BucketsAssumption
        <5>2. opened[Len(opened)] < session
          BY <3>2, <4>2, <5>1 DEF Clean, OpenedInOrder, Bucket
        <5>3. \A i \in 1..Len(opened) : opened[i] <= opened[Len(opened)]
          BY <3>3, <3>4, <5>1 DEF Clean, OpenedInOrder
        <5> QED
          BY <1>1, <3>3, <3>4, <5>1, <5>2, <5>3 DEF Clean, OpenedInOrder
      <4> QED
        BY <4>1, <4>2
    <3>6. ASSUME NEW i \in 1..Len(opened')
          PROVE  1 < opened'[i] /\ opened'[i] <= session'
      <4>1. i = Len(opened) + 1 \/ i \in 1..Len(opened)
        BY <3>3, <3>4
      <4> QED
        BY <1>1, <3>4, <3>5, <4>1 DEF Clean, OpenedInOrder
    <3>7. ASSUME NEW i \in 1..Len(opened'), NEW j \in 1..Len(opened'), i < j
          PROVE  opened'[i] < opened'[j]
      <4>1. i \in 1..Len(opened) /\ (j = Len(opened) + 1 \/ j \in 1..Len(opened))
        BY <3>3, <3>4, <3>7
      <4> QED
        BY <3>4, <3>5, <3>7, <4>1 DEF Clean, OpenedInOrder
    <3>8. lastReset' = IF Len(opened') = 0 THEN None ELSE Len(opened')
      BY <3>1, <3>3, <3>4
    <3> QED
      BY <3>6, <3>7, <3>8 DEF OpenedInOrder
  <2> QED
    BY <2>1, <2>2 DEF Handle
<1>5. Carries(f) => f.energy = energy /\ f.total = total
  BY DEF Carries
<1>6. Agrees(lastReset, anchor)'
  <2>1. CASE anchor' = PairOf(f) /\ Carries(f)
    BY <1>1, <1>5, <2>1 DEF Agrees, PairOf
  <2>2. CASE NoBoundary(f) /\ anchor' = anchor
    BY <2>2 DEF NoBoundary, Agrees, Clean, AnchorsAgree
  <2>3. CASE anchor' = None
    BY <2>3 DEF Agrees
  <2> QED
    BY <2>1, <2>2, <2>3 DEF Handle, BoundaryFound, NoBoundary
<1>7. AnchorsAgree'
  <2>1. Agrees(stored.reset, stored.anchor)'
    BY <1>1, <1>3 DEF ResetsExist, Clean, AnchorsAgree, Agrees
  <2>2. saving' # None => Agrees(saving.reset, saving.anchor)'
    <3>1. CASE saving' = [reset |-> lastReset', anchor |-> anchor']
      BY <1>6, <3>1 DEF Agrees
    <3>2. CASE UNCHANGED saving
      BY <1>1, <1>3, <3>2 DEF ResetsExist, Clean, AnchorsAgree, Agrees
    <3> QED
      BY <3>1, <3>2 DEF Handle, BoundaryFound, NoBoundary, Payload
  <2> QED
    BY <1>6, <2>1, <2>2 DEF AnchorsAgree
<1>8. FrameAgrees'
  <2> SUFFICES ASSUME f.energy # None
               PROVE  FrameAgrees'
    BY DEF FrameAgrees
  <2>1. f.energy = energy /\ Bucket(opened', lastReset') = session
    OBVIOUS
  <2>2. ASSUME Carries(f), anchor' # None
        PROVE  f.total - anchor'.total = f.energy - anchor'.energy
    BY <1>5, <1>6, <2>1, <2>2 DEF Agrees
  <2> QED
    BY <1>1, <1>5, <2>1, <2>2 DEF FrameAgrees, Carries
<1> QED
  BY <1>4, <1>7, <1>8

\* A frame of the station is well-typed and shows its counters.
LEMMA PolledFrame ==
  ASSUME BucketsTypeOK, NEW f \in PolledFrames, Answers(f)
  PROVE  /\ f \in Readings /\ f # None
         /\ f.energy \in {energy, None} /\ f.total \in {0, total, None} /\ f.session = session
         /\ UNCHANGED <<energy, total, session>> /\ booting' \in BOOLEAN
<1>1. f \in Readings
  BY DEF PolledFrames, Readings, BucketsTypeOK
<1>2. f.energy \in {energy, None} /\ f.total \in {0, total, None} /\ f.session = session
  BY DEF PolledFrames
<1>3. UNCHANGED <<energy, total, session>> /\ booting' \in BOOLEAN
  BY DEF Answers, BucketsTypeOK
<1> QED
  BY <1>1, <1>2, <1>3, BucketsNoneAssumption

\* A poll that is answered, with whatever fields.
LEMMA PolledKeeps ==
  ASSUME BucketsInv, BucketsPolled
  PROVE  BucketsInv'
<1>1. PICK f \in PolledFrames :
        Answers(f) /\ frame' = f /\ Handle(f) /\ Publish(f, lastReset')
  BY DEF BucketsPolled
<1>2. up /\ lastOk' = TRUE /\ UNCHANGED <<up, stored, starts, torn>>
  BY DEF BucketsPolled
<1>3. Shape /\ BucketsTypeOK /\ ResetsExist
  BY DEF BucketsInv, Shape
<1>4. /\ f \in Readings /\ f # None
      /\ f.energy \in {energy, None} /\ f.total \in {0, total, None} /\ f.session = session
      /\ UNCHANGED <<energy, total, session>> /\ booting' \in BOOLEAN
  BY <1>1, <1>3, PolledFrame
<1>5. /\ OpenedGrows
      /\ prev' \in Nat \cup {None} /\ prev' = f.energy
      /\ anchor' \in Pairs \cup {None}
      /\ lastReset' \in Resets'
      /\ saving' \in Payloads \cup {None}
      /\ saving' # None => saving'.reset \in Resets'
      /\ handled' \in Nat /\ {doubt', missed'} \subseteq BOOLEAN /\ faint' = faint
  BY <1>1, <1>3, <1>4, HandleType
<1>6. /\ seen' \in Bookings \cup {None} /\ surplus' \in Int /\ late' \in BOOLEAN
      /\ seen' # None => seen'.reset \in Resets'
      /\ ~late' => ~late /\ (f.energy # None => Bucket(opened', lastReset') = f.session)
  BY <1>1, <1>3, <1>4, <1>5, PublishType
<1>7. BucketsTypeOK'
  BY <1>1, <1>2, <1>3, <1>4, <1>5, <1>6 DEF BucketsTypeOK, OpenedGrows, Resets
<1>8. Shape'
  <2>1. ResetsExist'
    BY <1>2, <1>3, <1>5, <1>6 DEF ResetsExist, OpenedGrows, Resets, BucketsTypeOK
  <2>2. PrevIsOfFrame'
    BY <1>1, <1>4, <1>5 DEF PrevIsOfFrame
  <2> QED
    BY <1>1, <1>2, <1>3, <1>4, <1>7, <2>1, <2>2 DEF Shape
<1>9. ASSUME ~late', ~torn'
      PROVE  Clean'
  <2>1. Clean
    BY <1>2, <1>6, <1>9 DEF BucketsInv
  <2>2. OpenedInOrder' /\ AnchorsAgree' /\ FrameAgrees'
    BY <1>1, <1>2, <1>3, <1>4, <1>6, <1>9, <2>1, PolledIsClean
  <2>3. Booked'
    BY <1>1, <1>3, <1>4, <1>5, <1>9, <2>1, <2>2, PublishKeepsBooked DEF Clean
  <2> QED
    BY <2>2, <2>3 DEF Clean
<1> QED
  BY <1>8, <1>9 DEF BucketsInv

\* The previous frame, handed over once more, finds no boundary.
LEMMA PollFailsKeeps ==
  ASSUME BucketsInv, BucketsPollFails
  PROVE  BucketsInv'
<1>1. /\ up /\ lastOk /\ lastOk' = FALSE /\ Handle(frame)
      /\ UNCHANGED <<energy, total, session, booting, up, frame, stored, starts,
                     seen, surplus, late, torn>>
  BY DEF BucketsPollFails, meter, recorder
<1>2. Shape /\ BucketsTypeOK /\ ResetsExist /\ frame \in Readings /\ frame # None
  BY <1>1 DEF BucketsInv, Shape, BucketsTypeOK
<1>3. /\ OpenedGrows
      /\ prev' \in Nat \cup {None} /\ prev' = frame.energy
      /\ anchor' \in Pairs \cup {None}
      /\ lastReset' \in Resets'
      /\ saving' \in Payloads \cup {None}
      /\ saving' # None => saving'.reset \in Resets'
      /\ handled' \in Nat /\ {doubt', missed'} \subseteq BOOLEAN /\ faint' = faint
  BY <1>1, <1>2, HandleType
<1>4. BucketsTypeOK'
  BY <1>1, <1>2, <1>3 DEF BucketsTypeOK, OpenedGrows, Resets
<1>5. Shape'
  <2>1. ResetsExist'
    BY <1>1, <1>2, <1>3 DEF ResetsExist, OpenedGrows, Resets, BucketsTypeOK
  <2>2. PrevIsOfFrame'
    BY <1>1, <1>2, <1>3 DEF PrevIsOfFrame
  <2> QED
    BY <1>1, <1>2, <1>4, <2>1, <2>2 DEF Shape
<1>6. ASSUME ~late', ~torn'
      PROVE  Clean'
  <2>1. Clean
    BY <1>1, <1>6 DEF BucketsInv
  <2>2. frame.energy \in Nat \cup {None} /\ (Carries(frame) => frame.total \in Nat)
        /\ energy \in Nat /\ total \in Nat
    BY <1>2 DEF Readings, Carries, BucketsTypeOK
  <2>3. ~Fell(frame)
    BY <1>2, <2>2 DEF Fell, Shape, PrevIsOfFrame
  <2>4. ~Disagree(frame)
    <3> SUFFICES ASSUME Carries(frame), anchor # None
                 PROVE  ~((frame.total - anchor.total) - (frame.energy - anchor.energy) > Moved)
      BY DEF Disagree
    <3>1. frame.total - anchor.total = frame.energy - anchor.energy
      BY <1>2, <2>1 DEF Clean, FrameAgrees, Carries
    <3>2. frame.energy - anchor.energy \in Int
      BY <1>2, <2>2 DEF BucketsTypeOK, Pairs, Carries
    <3> QED
      BY <3>1, <3>2, BucketsAssumption
  <2>5. /\ UNCHANGED <<lastReset, opened, saving>>
        /\ anchor' = IF ~Carries(frame) THEN None
                     ELSE IF anchor = None THEN PairOf(frame) ELSE anchor
    BY <1>1, <2>3, <2>4 DEF Handle, BoundaryFound, NoBoundary
  <2>6. OpenedInOrder'
    BY <1>1, <2>1, <2>5 DEF Clean, OpenedInOrder
  <2>7. AnchorsAgree'
    <3>1. Agrees(lastReset, anchor)'
      BY <1>1, <1>2, <2>1, <2>5
      DEF Clean, AnchorsAgree, Agrees, FrameAgrees, Carries, PairOf
    <3> QED
      BY <1>1, <2>1, <2>5, <3>1 DEF Clean, AnchorsAgree, Agrees
  <2>8. FrameAgrees'
    BY <1>1, <1>2, <2>1, <2>2, <2>5 DEF Clean, FrameAgrees, Carries, PairOf
  <2>9. Booked'
    BY <1>1, <2>1, <2>5 DEF Clean, Booked, Unbooked
  <2> QED
    BY <2>6, <2>7, <2>8, <2>9 DEF Clean
<1> QED
  BY <1>5, <1>6 DEF BucketsInv

-----------------------------------------------------------------------------
\* Storage, stops and starts.

\* Saving what is in force, or writing it, loses nothing.
LEMMA StoringKeeps ==
  ASSUME BucketsInv,
         UNCHANGED <<energy, total, session, booting, lastOk, frame, prev, anchor, lastReset,
                     starts, opened, seen, surplus, late, torn, handled, faint, doubt, missed>>,
         saving' \in {saving, Payload, None},
         stored' \in {stored, Payload} \/ (stored' = saving /\ saving # None),
         up' \in BOOLEAN,
         ~up' => saving' = None /\ (stored' = Payload \/ (~up /\ stored' = stored))
  PROVE  BucketsInv'
<1>1. Payload \in Payloads /\ Payload.reset = lastReset /\ Payload.anchor = anchor
      /\ lastReset \in Resets
  BY DEF Payload, Payloads, BucketsInv, Shape, BucketsTypeOK, Resets
<1>2. stored' \in Payloads /\ saving' \in Payloads \cup {None}
  BY <1>1 DEF BucketsInv, Shape, BucketsTypeOK
<1>3. BucketsTypeOK'
  BY <1>2 DEF BucketsInv, Shape, BucketsTypeOK
<1>4. ResetsExist'
  BY <1>1 DEF BucketsInv, Shape, ResetsExist, Resets
<1>5. Shape'
  BY <1>1, <1>3, <1>4 DEF BucketsInv, Shape, PrevIsOfFrame
<1>6. ASSUME ~late, ~torn
      PROVE  Clean'
  <2>1. AnchorsAgree'
    BY <1>1, <1>6 DEF BucketsInv, Clean, AnchorsAgree, Agrees
  <2> QED
    BY <1>6, <2>1 DEF BucketsInv, Clean, OpenedInOrder, FrameAgrees, Carries, Booked, Unbooked
<1> QED
  BY <1>5, <1>6 DEF BucketsInv

\* A crash between two saves of one bucket loses no reset.
LEMMA CrashKeeps ==
  ASSUME BucketsInv, Crash
  PROVE  BucketsInv'
<1>1. /\ up /\ up' = FALSE /\ torn' = (torn \/ (lastReset # stored.reset)) /\ saving' = None
      /\ missed' = TRUE /\ doubt' = TRUE
      /\ UNCHANGED <<energy, total, session, booting, lastOk, frame, prev, anchor, lastReset,
                     stored, starts, opened, seen, surplus, late, handled, faint>>
  BY DEF Crash, meter, measured, recorder
<1>2. torn' \in BOOLEAN
  BY <1>1
<1>3. BucketsTypeOK'
  BY <1>1, <1>2 DEF BucketsInv, Shape, BucketsTypeOK
<1>4. Shape'
  BY <1>1, <1>3 DEF BucketsInv, Shape, ResetsExist, Resets, PrevIsOfFrame
<1>5. ASSUME ~late', ~torn'
      PROVE  Clean'
  BY <1>1, <1>5
  DEF BucketsInv, Clean, OpenedInOrder, AnchorsAgree, Agrees, FrameAgrees, Carries, Booked, Unbooked
<1> QED
  BY <1>4, <1>5 DEF BucketsInv

\* A start publishes the frame of setup under the restored reset, which is the
\* one that was in force.
LEMMA StartKeeps ==
  ASSUME BucketsInv, BucketsStart
  PROVE  BucketsInv'
<1>1. /\ ~up /\ up' = TRUE /\ starts' = starts + 1
      /\ lastReset' = stored.reset /\ anchor' = stored.anchor /\ prev' = None
      /\ UNCHANGED <<stored, saving, opened, torn, handled, faint, doubt, missed>>
  BY DEF BucketsStart, Restored, witness
<1>2. Shape /\ BucketsTypeOK /\ ResetsExist
  BY DEF BucketsInv, Shape
<1>3. OpenedGrows /\ lastReset' \in Resets' /\ anchor' \in Pairs \cup {None}
  BY <1>1, <1>2 DEF OpenedGrows, ResetsExist, Resets, BucketsTypeOK, Payloads
<1>4. ~torn => lastReset' = lastReset
  BY <1>1, <1>2 DEF Shape
<1>5. CASE \E f \in PolledFrames : Answers(f) /\ frame' = f /\ lastOk' = TRUE /\ Publish(f, lastReset')
  <2>1. PICK f \in PolledFrames :
          Answers(f) /\ frame' = f /\ lastOk' = TRUE /\ Publish(f, lastReset')
    BY <1>5
  <2>2. /\ f \in Readings /\ f # None
        /\ f.energy \in {energy, None} /\ f.total \in {0, total, None} /\ f.session = session
        /\ UNCHANGED <<energy, total, session>> /\ booting' \in BOOLEAN
    BY <1>2, <2>1, PolledFrame
  <2>3. /\ seen' \in Bookings \cup {None} /\ surplus' \in Int /\ late' \in BOOLEAN
        /\ seen' # None => seen'.reset \in Resets'
        /\ ~late' => ~late /\ (f.energy # None => Bucket(opened', lastReset') = f.session)
    BY <1>2, <1>3, <2>1, <2>2, PublishType
  <2>4. BucketsTypeOK'
    BY <1>1, <1>2, <1>3, <2>1, <2>2, <2>3 DEF BucketsTypeOK, Resets
  <2>5. Shape'
    <3>1. ResetsExist'
      BY <1>1, <1>2, <2>3 DEF ResetsExist, Resets
    <3> QED
      BY <1>1, <1>2, <2>1, <2>2, <2>4, <3>1 DEF Shape, PrevIsOfFrame
  <2>6. ASSUME ~late', ~torn'
        PROVE  Clean'
    <3>1. Clean
      BY <1>1, <2>3, <2>6 DEF BucketsInv
    <3>2. OpenedInOrder'
      BY <1>1, <1>4, <2>2, <2>6, <3>1 DEF Clean, OpenedInOrder
    <3>3. AnchorsAgree'
      BY <1>1, <2>2, <3>1 DEF Clean, AnchorsAgree, Agrees
    <3>4. FrameAgrees'
      <4> SUFFICES ASSUME f.energy # None
                   PROVE  FrameAgrees'
        BY <2>1 DEF FrameAgrees
      <4>1. f.energy = energy /\ Bucket(opened', lastReset') = session
        BY <2>2, <2>3, <2>6
      <4>2. Carries(f) => f.total = total
        BY <2>2 DEF Carries
      <4>3. Agrees(lastReset, anchor)'
        BY <3>3 DEF AnchorsAgree
      <4>4. energy \in Nat /\ total \in Nat
        BY <1>2 DEF BucketsTypeOK
      <4> QED
        BY <2>1, <2>2, <4>1, <4>2, <4>3, <4>4 DEF FrameAgrees, Carries, Agrees
    <3>5. Booked'
      BY <1>2, <1>3, <2>1, <2>2, <2>6, <3>1, <3>2, PublishKeepsBooked DEF Clean
    <3> QED
      BY <3>2, <3>3, <3>4, <3>5 DEF Clean
  <2> QED
    BY <2>5, <2>6 DEF BucketsInv
<1>6. CASE /\ frame' = None /\ lastOk' = FALSE
           /\ UNCHANGED <<meter, recorder>>
  <2>1. UNCHANGED <<energy, total, session, booting, seen, surplus, late>>
    BY <1>6 DEF meter, recorder
  <2>2. BucketsTypeOK'
    BY <1>1, <1>2, <1>3, <1>6, <2>1 DEF BucketsTypeOK, Resets
  <2>3. Shape'
    BY <1>1, <1>2, <1>6, <2>1, <2>2 DEF Shape, ResetsExist, Resets, PrevIsOfFrame
  <2>4. ASSUME ~late', ~torn'
        PROVE  Clean'
    BY <1>1, <1>4, <1>6, <2>1, <2>4
    DEF BucketsInv, Clean, OpenedInOrder, AnchorsAgree, Agrees, FrameAgrees, Booked, Unbooked
  <2> QED
    BY <2>3, <2>4 DEF BucketsInv
<1> QED
  BY <1>5, <1>6 DEF BucketsStart

-----------------------------------------------------------------------------
\* Nothing has been seen or stored at first.
LEMMA BucketsInvInit == BucketsInit => BucketsInv
<1> SUFFICES ASSUME BucketsInit PROVE BucketsInv
  OBVIOUS
<1>1. BucketsTypeOK
  <2>1. stored \in Payloads /\ opened \in Seq(Nat)
    BY DEF BucketsInit, BucketsNew, Payloads
  <2>2. booting \in BOOLEAN /\ up \in BOOLEAN /\ {late, torn, doubt, missed} \subseteq BOOLEAN
    BY DEF BucketsInit, BucketsNew
  <2> QED
    BY <2>1, <2>2 DEF BucketsInit, BucketsNew, BucketsTypeOK
<1>2. Shape
  <2>1. lastOk \in BOOLEAN /\ ~lastOk
    BY DEF BucketsInit
  <2>2. ResetsExist /\ PrevIsOfFrame
    BY DEF BucketsInit, BucketsNew, ResetsExist, Resets, PrevIsOfFrame
  <2>3. energy < total /\ 1 <= session /\ saving = None /\ stored.reset = lastReset
    BY DEF BucketsInit, BucketsNew
  <2> QED
    BY <1>1, <2>1, <2>2, <2>3 DEF Shape
<1>3. OpenedInOrder /\ Len(opened) = 0
  BY DEF BucketsInit, BucketsNew, OpenedInOrder
<1>4. AnchorsAgree /\ FrameAgrees /\ Booked
  BY DEF BucketsInit, BucketsNew, AnchorsAgree, Agrees, FrameAgrees, Booked
<1> QED
  BY <1>2, <1>3, <1>4 DEF BucketsInv, Clean

\* Every step of the station, of the entity and of its storage keeps BucketsInv.
LEMMA BucketsInvNext == BucketsInv /\ [BucketsNext]_bucketVars => BucketsInv'
<1> SUFFICES ASSUME BucketsInv, [BucketsNext]_bucketVars
             PROVE  BucketsInv'
  OBVIOUS
<1>1. CASE ChargeUnit
  BY <1>1, ChargeKeeps
<1>2. CASE SessionEnds
  <2>1. total \in Nat /\ 0 < total /\ energy \in Nat /\ session \in Nat /\ faint \subseteq Nat
    BY DEF BucketsInv, Shape, BucketsTypeOK
  <2>2. faint' \subseteq Nat
    BY <1>2, <2>1 DEF SessionEnds
  <2> QED
    BY <1>2, <2>1, <2>2, NewSessionKeeps
    DEF SessionEnds, measured, recorder, BucketsInv, Shape, BucketsTypeOK
<1>3. CASE PowerCut
  <2>1. total \in Nat /\ energy \in Nat /\ energy < total /\ session \in Nat /\ faint \subseteq Nat
    BY DEF BucketsInv, Shape, BucketsTypeOK
  <2>2. total' \in Nat /\ 0 < total' /\ faint' \subseteq Nat
    BY <1>3, <2>1 DEF PowerCut
  <2> QED
    BY <1>3, <2>2, NewSessionKeeps DEF PowerCut, measured, recorder
<1>4. CASE BucketsPolled
  BY <1>4, PolledKeeps
<1>5. CASE BucketsPollFails
  BY <1>5, PollFailsKeeps
<1>6. CASE Dump
  <2>1. /\ up /\ saving' = Payload
        /\ UNCHANGED <<energy, total, session, booting, up, lastOk, frame, prev, anchor, lastReset,
                       stored, starts, opened, seen, surplus, late, torn, handled, faint, doubt,
                       missed>>
    BY <1>6 DEF Dump, meter, measured, recorder, witness
  <2>2. up \in BOOLEAN
    BY DEF BucketsInv, Shape, BucketsTypeOK
  <2> QED
    BY <2>1, <2>2, StoringKeeps
<1>7. CASE SaveDone
  <2>1. /\ saving # None /\ stored' = saving /\ saving' = None
        /\ UNCHANGED <<energy, total, session, booting, up, lastOk, frame, prev, anchor, lastReset,
                       starts, opened, seen, surplus, late, torn, handled, faint, doubt, missed>>
    BY <1>7 DEF SaveDone, meter, measured, recorder, witness
  <2>2. up \in BOOLEAN /\ up
    BY <2>1 DEF BucketsInv, Shape, BucketsTypeOK
  <2> QED
    BY <2>1, <2>2, StoringKeeps
<1>8. CASE Stop
  <2>1. /\ up' = FALSE /\ stored' = Payload /\ saving' = None
        /\ UNCHANGED <<energy, total, session, booting, lastOk, frame, prev, anchor, lastReset,
                       starts, opened, seen, surplus, late, torn, handled, faint, doubt, missed>>
    BY <1>8 DEF Stop, meter, measured, recorder, witness
  <2>2. up' \in BOOLEAN
    BY <2>1
  <2>3. /\ saving' \in {saving, Payload, None}
        /\ stored' \in {stored, Payload} \/ (stored' = saving /\ saving # None)
        /\ ~up' => saving' = None /\ (stored' = Payload \/ (~up /\ stored' = stored))
    BY <2>1
  <2> QED
    BY <2>1, <2>2, <2>3, StoringKeeps
<1>9. CASE Crash
  BY <1>9, CrashKeeps
<1>10. CASE BucketsStart
  BY <1>10, StartKeeps
<1>11. CASE UNCHANGED bucketVars
  <2>1. UNCHANGED <<energy, total, session, booting, up, lastOk, frame, prev, anchor, lastReset,
                    stored, saving, starts, opened, seen, surplus, late, torn, handled, faint,
                    doubt, missed>>
    BY <1>11 DEF bucketVars, meter, measured, recorder, witness
  <2>2. Shape'
    BY <2>1 DEF BucketsInv, Shape, BucketsTypeOK, ResetsExist, Resets, PrevIsOfFrame
  <2>3. ~late' /\ ~torn' => Clean'
    BY <2>1 DEF BucketsInv, Clean, OpenedInOrder, AnchorsAgree, Agrees, FrameAgrees, Carries,
                Booked, Unbooked
  <2> QED
    BY <2>2, <2>3 DEF BucketsInv
<1> QED
  BY <1>1, <1>2, <1>3, <1>4, <1>5, <1>6, <1>7, <1>8, <1>9, <1>10, <1>11 DEF BucketsNext

\* The buckets, the anchors and the books agree for as long as no value went
\* into a foreign bucket and no crash cut a reset off from its save.
THEOREM BucketsInvariance == BucketsSpec => []BucketsInv
<1> QED
  BY BucketsInvInit, BucketsInvNext, PTL DEF BucketsSpec

\* The surplus of the recorder is what the books make it.
LEMMA BooksBalance == BucketsInv => NotBookedTwice
<1> SUFFICES ASSUME BucketsInv, ~late, ~torn
             PROVE  surplus <= 0
  BY DEF NotBookedTwice
<1>1. energy \in Nat /\ surplus \in Int
  BY DEF BucketsInv, Shape, BucketsTypeOK
<1>2. CASE seen = None
  BY <1>1, <1>2 DEF BucketsInv, Clean, Booked
<1>3. CASE seen # None
  <2>1. seen.value \in Nat
    BY <1>3 DEF BucketsInv, Shape, BucketsTypeOK, Bookings
  <2> QED
    BY <1>1, <1>3, <2>1 DEF BucketsInv, Clean, Booked, Unbooked
<1> QED
  BY <1>2, <1>3

\* No session is booked twice: the sum of the recorder stays within what the
\* station delivered.
THEOREM SessionsAreNotBookedTwice == BucketsSpec => []NotBookedTwice
<1>1. BucketsInv => NotBookedTwice
  BY BooksBalance
<1> QED
  BY <1>1, BucketsInvariance, PTL

-----------------------------------------------------------------------------
(* A boundary is noticed by the first frame handled after it.               *)

\* What the lifetime counter has beyond the session counter: it stands still
\* within a session and never falls, power cuts included.
Base(p) == p.total - p.energy

\* No session from the one after s up to t began after one that was too small.
Clear(s, t) == faint \cap (s + 1)..t = {}

\* Whatever was noted has been so once.
NotedBefore ==
  /\ anchor # None => Base(anchor) <= total - energy
  /\ stored.anchor # None => Base(stored.anchor) <= total - energy
  /\ saving # None /\ saving.anchor # None => Base(saving.anchor) <= total - energy
  /\ handled <= session
  /\ frame # None =>
       /\ handled <= frame.session /\ frame.session <= session
       /\ Carries(frame) =>
            /\ Base(frame) <= total - energy
            /\ anchor # None => Base(anchor) <= Base(frame)

\* The anchor lags behind the frame, and the frame behind the station, by more
\* than the threshold if there is a boundary between them that can be seen.
Visible ==
  /\ ~doubt =>
       /\ anchor # None
       /\ handled < session /\ Clear(handled, session) => (total - energy) - Base(anchor) > Moved
  /\ frame # None /\ Carries(frame) =>
       /\ frame.session < session /\ Clear(frame.session, session) =>
            (total - energy) - Base(frame) > Moved
       /\ ~doubt /\ handled < frame.session /\ Clear(handled, frame.session) =>
            Base(frame) - Base(anchor) > Moved

\* An orderly stop stores what is in force.
StoppedInOrder ==
  ~up => (~doubt => stored.anchor = anchor) /\ (~missed => stored.reset = lastReset)

NoticeInv == NotedBefore /\ Visible /\ StoppedInOrder /\ BoundaryNoticed

\* The types of what the invariant computes with.
LEMMA BaseTypes ==
  ASSUME Shape
  PROVE  /\ energy \in Nat /\ total \in Nat /\ session \in Nat /\ handled \in Nat /\ Moved \in Nat
         /\ anchor # None => Base(anchor) \in Int
         /\ stored.anchor # None => Base(stored.anchor) \in Int
         /\ saving # None /\ saving.anchor # None => Base(saving.anchor) \in Int
         /\ frame # None => frame.session \in Nat
         /\ frame # None /\ Carries(frame) => Base(frame) \in Int
         /\ doubt \in BOOLEAN /\ missed \in BOOLEAN /\ up \in BOOLEAN
<1>1. \A p \in Pairs : Base(p) \in Int
  BY DEF Pairs, Base
<1>2. stored \in Payloads /\ saving \in Payloads \cup {None} /\ anchor \in Pairs \cup {None}
      /\ frame \in Readings \cup {None}
  BY DEF Shape, BucketsTypeOK
<1>3. \A f \in Readings : f.session \in Nat /\ (Carries(f) => Base(f) \in Int)
  BY DEF Readings, Carries, Base
<1>4. doubt \in BOOLEAN /\ missed \in BOOLEAN /\ up \in BOOLEAN
  BY DEF Shape, BucketsTypeOK
<1>5. energy \in Nat /\ total \in Nat /\ session \in Nat /\ handled \in Nat /\ Moved \in Nat
  BY BucketsAssumption DEF Shape, BucketsTypeOK
<1> QED
  BY <1>1, <1>2, <1>3, <1>4, <1>5 DEF Payloads

\* A frame that is handled: a boundary is found, or there is none to be seen.
LEMMA HandledIsNoticed ==
  ASSUME Shape, NoticeInv, NEW f \in Readings, Handle(f), handled <= f.session,
         ~doubt /\ Carries(f) /\ handled < f.session /\ Clear(handled, f.session) =>
           Base(f) - Base(anchor) > Moved
  PROVE  /\ BoundaryNoticed'
         /\ anchor' \in {None, anchor, PairOf(f)}
         /\ anchor' # None <=> Carries(f)
         /\ handled' = f.session /\ (~doubt' => Carries(f)) /\ faint' = faint
<1>1. /\ handled' = f.session /\ doubt' = ~Carries(f) /\ faint' = faint
      /\ missed' = IF f.session = handled THEN missed
                   ELSE doubt \/ ~Carries(f) \/ faint \cap (handled + 1)..f.session # {}
  BY DEF Handle
<1>2. f.session \in Nat /\ handled \in Nat /\ (Carries(f) => PairOf(f) \in Pairs)
  BY DEF Readings, Shape, BucketsTypeOK, Carries, PairOf, Pairs
<1>3. Carries(f) => PairOf(f) # None
  BY <1>2, BucketsNoneAssumption
<1>4. anchor' \in {None, anchor, PairOf(f)} /\ (anchor' # None <=> Carries(f))
  BY <1>3 DEF Handle, BoundaryFound, NoBoundary
<1>5. ~doubt' => Carries(f)
  BY <1>1, Zenon
<1>6. CASE BoundaryFound(f)
  <2>1. opened' = Append(opened, f.session) /\ lastReset' = Len(opened')
    BY <1>6 DEF BoundaryFound
  <2>2. opened \in Seq(Nat)
    BY DEF Shape, BucketsTypeOK
  <2>3. lastReset' \in Nat /\ opened'[lastReset'] = f.session
    BY <1>2, <2>1, <2>2
  <2>4. BoundaryNoticed'
    BY <1>1, <2>3, BucketsAssumption DEF BoundaryNoticed
  <2> QED
    BY <1>1, <1>4, <1>5, <2>4
<1>7. CASE NoBoundary(f) /\ f.session = handled
  <2>1. BoundaryNoticed'
    BY <1>1, <1>7 DEF NoBoundary, NoticeInv, BoundaryNoticed
  <2> QED
    BY <1>1, <1>4, <1>5, <2>1
<1>8. CASE NoBoundary(f) /\ f.session # handled
  <2>1. BoundaryNoticed'
    <3> SUFFICES ASSUME ~missed'
                 PROVE  FALSE
      BY DEF BoundaryNoticed
    <3>1. ~(doubt \/ ~Carries(f) \/ faint \cap (handled + 1)..f.session # {})
      BY <1>1, <1>8, Zenon
    <3>2. ~doubt /\ Carries(f) /\ Clear(handled, f.session)
      BY <3>1 DEF Clear
    <3>3. anchor # None /\ Base(f) - Base(anchor) > Moved
      BY <1>2, <1>8, <3>2 DEF NoticeInv, Visible
    <3>4. f.total \in Nat /\ f.energy \in Nat /\ anchor.total \in Nat /\ anchor.energy \in Nat
      BY <3>2, <3>3 DEF Readings, Carries, Shape, BucketsTypeOK, Pairs
    <3>5. (f.total - anchor.total) - (f.energy - anchor.energy) > Moved
      BY <3>3, <3>4, BucketsAssumption DEF Base
    <3> QED
      BY <1>8, <3>2, <3>3, <3>5 DEF NoBoundary, Disagree
  <2> QED
    BY <1>1, <1>4, <1>5, <2>1
<1> QED
  BY <1>6, <1>7, <1>8 DEF Handle

\* A session ends: what it delivered, if it is enough, is between then and now.
LEMMA NewSessionNotices ==
  ASSUME Shape, NoticeInv, session' = session + 1, energy' = 0,
         NEW left \in 0..energy, total' = total - energy + left,
         faint' = IF left <= Moved THEN faint \cup {session + 1} ELSE faint,
         UNCHANGED <<up, frame, anchor, lastReset, stored, saving, opened, handled, doubt, missed>>
  PROVE  NoticeInv'
<1>1. /\ energy \in Nat /\ total \in Nat /\ session \in Nat /\ handled \in Nat /\ Moved \in Nat
      /\ anchor # None => Base(anchor) \in Int
      /\ stored.anchor # None => Base(stored.anchor) \in Int
      /\ saving # None /\ saving.anchor # None => Base(saving.anchor) \in Int
      /\ frame # None => frame.session \in Nat
      /\ frame # None /\ Carries(frame) => Base(frame) \in Int
      /\ doubt \in BOOLEAN /\ missed \in BOOLEAN /\ up \in BOOLEAN
  BY BaseTypes
<1>2. total' - energy' = (total - energy) + left /\ left \in Nat
  BY <1>1
<1>3. NotedBefore'
  BY <1>1, <1>2 DEF NoticeInv, NotedBefore, Base, Carries
<1>4. ASSUME NEW s \in Nat, s <= session, faint' \cap (s + 1)..(session + 1) = {}
      PROVE  left > Moved /\ Clear(s, session)
  <2>1. session + 1 \in (s + 1)..(session + 1)
    BY <1>1, <1>4
  <2>2. left > Moved
    <3>1. left <= Moved => session + 1 \in faint'
      OBVIOUS
    <3>2. session + 1 \notin faint'
      BY <1>4, <2>1
    <3>3. ~(left <= Moved)
      BY <3>1, <3>2
    <3> QED
      BY <1>1, <1>2, <3>3
  <2>3. (s + 1)..session \subseteq (s + 1)..(session + 1) /\ faint \subseteq faint'
    BY <1>1
  <2>4. Clear(s, session)
    BY <1>4, <2>3 DEF Clear
  <2> QED
    BY <2>2, <2>4
<1>5. ASSUME NEW s \in Nat, NEW t \in Nat, faint' \cap (s + 1)..t = {}
      PROVE  Clear(s, t)
  BY <1>5 DEF Clear
<1>6. ~doubt => anchor # None /\
        (handled < session + 1 /\ faint' \cap (handled + 1)..(session + 1) = {} =>
           (total' - energy') - Base(anchor) > Moved)
  <2> SUFFICES ASSUME ~doubt
               PROVE  anchor # None /\
                 (handled < session + 1 /\ faint' \cap (handled + 1)..(session + 1) = {} =>
                    (total' - energy') - Base(anchor) > Moved)
    OBVIOUS
  <2>1. anchor # None /\ Base(anchor) <= total - energy /\ handled <= session
    BY DEF NoticeInv, Visible, NotedBefore
  <2> QED
    BY <1>1, <1>2, <1>4, <2>1
<1>7. frame # None /\ Carries(frame) =>
        (frame.session < session + 1 /\ faint' \cap (frame.session + 1)..(session + 1) = {} =>
           (total' - energy') - Base(frame) > Moved)
  BY <1>1, <1>2, <1>4 DEF NoticeInv, NotedBefore
<1>8. frame # None /\ Carries(frame) =>
        (~doubt /\ handled < frame.session /\ faint' \cap (handled + 1)..frame.session = {} =>
           Base(frame) - Base(anchor) > Moved)
  BY <1>1, <1>5 DEF NoticeInv, Visible
<1>9. Visible'
  BY <1>6, <1>7, <1>8 DEF Visible, Clear, Base, Carries
<1>10. StoppedInOrder' /\ BoundaryNoticed'
  BY DEF NoticeInv, StoppedInOrder, BoundaryNoticed
<1> QED
  BY <1>3, <1>9, <1>10 DEF NoticeInv

\* A frame that was polled or is handed over once more leaves nothing unnoticed.
LEMMA HandleNotices ==
  ASSUME Shape, NoticeInv, up, up', NEW f \in Readings, Handle(f),
         UNCHANGED <<energy, total, session, stored>>, frame' = f,
         handled <= f.session, f.session <= session,
         Carries(f) => /\ Base(f) <= total - energy
                       /\ anchor # None => Base(anchor) <= Base(f)
                       /\ f.session < session /\ Clear(f.session, session) =>
                            (total - energy) - Base(f) > Moved,
         ~doubt /\ Carries(f) /\ handled < f.session /\ Clear(handled, f.session) =>
           Base(f) - Base(anchor) > Moved
  PROVE  NoticeInv'
<1>1. /\ energy \in Nat /\ total \in Nat /\ session \in Nat /\ handled \in Nat /\ Moved \in Nat
      /\ anchor # None => Base(anchor) \in Int
  BY BaseTypes
<1>2. /\ BoundaryNoticed'
      /\ anchor' \in {None, anchor, PairOf(f)}
      /\ anchor' # None <=> Carries(f)
      /\ handled' = f.session /\ (~doubt' => Carries(f)) /\ faint' = faint
  BY HandledIsNoticed
<1>3. f.session \in Nat /\ (Carries(f) => Base(f) \in Int /\ Base(PairOf(f)) = Base(f))
  BY DEF Readings, Carries, Base, PairOf
<1>4. ASSUME anchor' # None
      PROVE  Carries(f) /\ Base(anchor') \in Int /\ Base(anchor') <= Base(f)
  BY <1>1, <1>2, <1>3, <1>4
<1>5. saving' = saving \/ saving'.anchor = anchor'
  BY DEF Handle, BoundaryFound, NoBoundary, Payload
<1>6. anchor' # None => Base(anchor') <= total - energy
  BY <1>1, <1>3, <1>4
<1>7. saving' # None /\ saving'.anchor # None => Base(saving'.anchor) <= total - energy
  BY <1>5, <1>6 DEF NoticeInv, NotedBefore
<1>8. NotedBefore'
  BY <1>2, <1>3, <1>4, <1>6, <1>7 DEF NoticeInv, NotedBefore, Base, Carries
<1>9. ASSUME ~doubt', f.session < session, Clear(f.session, session)
      PROVE  (total - energy) - Base(anchor') > Moved
  BY <1>1, <1>2, <1>3, <1>4, <1>9
<1>10. Visible'
  BY <1>2, <1>3, <1>9 DEF Visible, Clear, Base, Carries
<1>11. StoppedInOrder'
  BY DEF StoppedInOrder
<1> QED
  BY <1>2, <1>8, <1>10, <1>11 DEF NoticeInv

\* A poll that answers shows the station as it is.
LEMMA AnswerIsPresent ==
  ASSUME Shape, NEW f \in PolledFrames, Answers(f)
  PROVE  /\ f \in Readings /\ f.session = session
         /\ Carries(f) => Base(f) = total - energy
         /\ UNCHANGED <<energy, total, session>>
<1>1. f.session = session /\ f.energy \in {energy, None} /\ f.total \in {0, total, None}
      /\ UNCHANGED <<energy, total, session>>
  BY DEF Answers, PolledFrames
<1>2. f \in Readings
  BY DEF PolledFrames, Readings, Shape, BucketsTypeOK
<1>3. Carries(f) => Base(f) = total - energy
  BY <1>1 DEF Carries, Base
<1> QED
  BY <1>1, <1>2, <1>3

\* Storing changes nothing that is noted.
LEMMA StoringNotices ==
  ASSUME Shape, NoticeInv,
         UNCHANGED <<energy, total, session, frame, anchor, lastReset, opened, handled, faint,
                     doubt, missed>>,
         saving' \in {saving, Payload, None},
         stored' \in {stored, Payload} \/ (stored' = saving /\ saving # None),
         (up' = up /\ (up \/ stored' = stored)) \/ stored' = Payload
  PROVE  NoticeInv'
<1>1. Payload.anchor = anchor /\ Payload.reset = lastReset
  BY DEF Payload
<1>2. /\ anchor # None => Base(anchor) <= total - energy
      /\ stored.anchor # None => Base(stored.anchor) <= total - energy
      /\ saving # None /\ saving.anchor # None => Base(saving.anchor) <= total - energy
  BY DEF NoticeInv, NotedBefore
<1>3. /\ stored'.anchor # None => Base(stored'.anchor) <= total - energy
      /\ saving' # None /\ saving'.anchor # None => Base(saving'.anchor) <= total - energy
  BY <1>1, <1>2
<1>4. NotedBefore'
  BY <1>3 DEF NoticeInv, NotedBefore, Base, Carries
<1>5. Visible'
  BY DEF NoticeInv, Visible, Clear, Base, Carries
<1>6. StoppedInOrder'
  BY <1>1 DEF NoticeInv, StoppedInOrder
<1>7. BoundaryNoticed'
  BY DEF NoticeInv, BoundaryNoticed
<1> QED
  BY <1>4, <1>5, <1>6, <1>7 DEF NoticeInv

\* A start takes over what an orderly stop stored, and at worst what was stored
\* before a crash.
LEMMA StartNotices ==
  ASSUME Shape, NoticeInv, BucketsStart
  PROVE  NoticeInv'
<1>1. /\ ~up /\ up' = TRUE /\ lastReset' = stored.reset /\ anchor' = stored.anchor
      /\ UNCHANGED <<stored, saving, opened, handled, faint, doubt, missed>>
  BY DEF BucketsStart, Restored, witness
<1>2. UNCHANGED <<energy, total, session>>
      /\ (frame' # None => frame'.session = session
                           /\ (Carries(frame') => Base(frame') = total - energy))
  <2>1. CASE \E f \in PolledFrames : Answers(f) /\ frame' = f
    BY <2>1, AnswerIsPresent
  <2>2. CASE frame' = None /\ UNCHANGED meter
    BY <2>2 DEF meter
  <2> QED
    BY <2>1, <2>2 DEF BucketsStart
<1>3. /\ energy \in Nat /\ total \in Nat /\ session \in Nat /\ handled \in Nat /\ Moved \in Nat
  BY BaseTypes
<1>4. NotedBefore'
  BY <1>1, <1>2, <1>3 DEF NoticeInv, NotedBefore, Base, Carries
<1>5. (~doubt => anchor' = anchor) /\ (~missed => lastReset' = lastReset)
  BY <1>1 DEF NoticeInv, StoppedInOrder
<1>6. Visible'
  <2>1. ASSUME ~doubt
        PROVE  anchor' # None /\
                 (handled < session /\ Clear(handled, session) =>
                    (total - energy) - Base(anchor') > Moved)
    BY <1>5, <2>1 DEF NoticeInv, Visible
  <2> QED
    BY <1>1, <1>2, <1>3, <2>1 DEF Visible, Clear, Base, Carries
<1>7. StoppedInOrder' /\ BoundaryNoticed'
  BY <1>1, <1>5 DEF NoticeInv, StoppedInOrder, BoundaryNoticed
<1> QED
  BY <1>4, <1>6, <1>7 DEF NoticeInv

\* Nothing has been noted at first.
LEMMA NoticeInit == BucketsInit => NoticeInv
  BY DEF BucketsInit, BucketsNew, NoticeInv, NotedBefore, Visible, StoppedInOrder, BoundaryNoticed

\* Every step keeps what makes a boundary visible.
LEMMA NoticeNext == BucketsInv /\ NoticeInv /\ [BucketsNext]_bucketVars => NoticeInv'
<1> SUFFICES ASSUME Shape, NoticeInv, [BucketsNext]_bucketVars
             PROVE  NoticeInv'
  BY DEF BucketsInv
<1>0. energy \in Nat /\ total \in Nat /\ session \in Nat /\ handled \in Nat /\ up \in BOOLEAN
  BY BaseTypes
<1>1. CASE ChargeUnit
  <2>1. /\ total' - energy' = total - energy
        /\ UNCHANGED <<session, up, frame, anchor, lastReset, stored, saving, opened, handled,
                       faint, doubt, missed>>
    BY <1>0, <1>1 DEF ChargeUnit, measured, witness
  <2> QED
    BY <2>1 DEF NoticeInv, NotedBefore, Visible, StoppedInOrder, BoundaryNoticed, Clear, Base,
                Carries
<1>2. CASE SessionEnds
  <2>1. energy \in 0..energy /\ total' = total - energy + energy
    BY <1>0, <1>2 DEF SessionEnds
  <2> QED
    BY <1>2, <2>1, NewSessionNotices DEF SessionEnds, measured
<1>3. CASE PowerCut
  <2>1. PICK lost \in 0..energy :
          /\ total' = total - lost
          /\ faint' = IF energy - lost <= Moved THEN faint \cup {session + 1} ELSE faint
    BY <1>3 DEF PowerCut
  <2>2. energy - lost \in 0..energy /\ total' = total - energy + (energy - lost)
    BY <1>0, <2>1
  <2> QED
    BY <1>3, <2>1, <2>2, NewSessionNotices DEF PowerCut, measured
<1>4. CASE BucketsPolled
  <2>1. PICK f \in PolledFrames : Answers(f) /\ frame' = f /\ Handle(f)
    BY <1>4 DEF BucketsPolled
  <2>2. up /\ up' /\ UNCHANGED stored
    BY <1>4 DEF BucketsPolled
  <2>3. f \in Readings /\ f.session = session /\ (Carries(f) => Base(f) = total - energy)
        /\ UNCHANGED <<energy, total, session>>
    BY <2>1, AnswerIsPresent
  <2>4. handled <= session /\ (anchor # None => Base(anchor) <= total - energy)
    BY DEF NoticeInv, NotedBefore
  <2>5. ~doubt /\ handled < session /\ Clear(handled, session) =>
          (total - energy) - Base(anchor) > Moved
    BY DEF NoticeInv, Visible
  <2> QED
    BY <1>0, <2>1, <2>2, <2>3, <2>4, <2>5, HandleNotices
<1>5. CASE BucketsPollFails
  <2>1. /\ up /\ up' /\ frame # None /\ Handle(frame) /\ frame' = frame
        /\ UNCHANGED <<energy, total, session, stored>>
    BY <1>5 DEF BucketsPollFails, Shape, meter
  <2>2. frame \in Readings
    BY <2>1 DEF Shape, BucketsTypeOK
  <2>3. /\ handled <= frame.session /\ frame.session <= session
        /\ Carries(frame) =>
             /\ Base(frame) <= total - energy
             /\ anchor # None => Base(anchor) <= Base(frame)
             /\ frame.session < session /\ Clear(frame.session, session) =>
                  (total - energy) - Base(frame) > Moved
        /\ ~doubt /\ Carries(frame) /\ handled < frame.session /\ Clear(handled, frame.session) =>
             Base(frame) - Base(anchor) > Moved
    BY <2>1 DEF NoticeInv, NotedBefore, Visible
  <2> QED
    BY <2>1, <2>2, <2>3, HandleNotices
<1>6. CASE Dump
  <2>1. /\ up /\ up' = up /\ saving' = Payload /\ stored' = stored
        /\ UNCHANGED <<energy, total, session, frame, anchor, lastReset, opened, handled, faint,
                       doubt, missed>>
    BY <1>6 DEF Dump, meter, measured, witness
  <2> QED
    BY <2>1, StoringNotices
<1>7. CASE SaveDone
  <2>1. /\ saving # None /\ stored' = saving /\ saving' = None /\ up' = up
        /\ UNCHANGED <<energy, total, session, frame, anchor, lastReset, opened, handled, faint,
                       doubt, missed>>
    BY <1>7 DEF SaveDone, meter, measured, witness
  <2>2. up
    BY <1>0, <2>1 DEF Shape
  <2> QED
    BY <2>1, <2>2, StoringNotices
<1>8. CASE Stop
  <2>1. /\ stored' = Payload /\ saving' = None
        /\ UNCHANGED <<energy, total, session, frame, anchor, lastReset, opened, handled, faint,
                       doubt, missed>>
    BY <1>8 DEF Stop, meter, measured, witness
  <2> QED
    BY <2>1, StoringNotices
<1>9. CASE Crash
  <2>1. /\ doubt' = TRUE /\ missed' = TRUE /\ saving' = None
        /\ UNCHANGED <<energy, total, session, frame, anchor, lastReset, stored, opened, handled,
                       faint>>
    BY <1>9 DEF Crash, meter, measured
  <2>2. NotedBefore'
    BY <2>1 DEF NoticeInv, NotedBefore, Base, Carries
  <2>3. Visible' /\ StoppedInOrder' /\ BoundaryNoticed'
    BY <2>1 DEF NoticeInv, Visible, StoppedInOrder, BoundaryNoticed, Clear, Base, Carries
  <2> QED
    BY <2>2, <2>3 DEF NoticeInv
<1>10. CASE BucketsStart
  BY <1>10, StartNotices
<1>11. CASE UNCHANGED bucketVars
  BY <1>11 DEF bucketVars, meter, measured, witness, NoticeInv, NotedBefore, Visible,
               StoppedInOrder, BoundaryNoticed, Clear, Base, Carries
<1> QED
  BY <1>1, <1>2, <1>3, <1>4, <1>5, <1>6, <1>7, <1>8, <1>9, <1>10, <1>11 DEF BucketsNext

\* A boundary that moved more than the threshold is found by the first frame
\* handled after it, whether or not anybody watched, for any number of sessions
\* and restarts.
THEOREM BoundariesAreNoticed == BucketsSpec => []BoundaryNoticed
<1>1. NoticeInv => BoundaryNoticed
  BY DEF NoticeInv
<1> QED
  BY <1>1, NoticeInit, NoticeNext, BucketsInvariance, PTL DEF BucketsSpec

-----------------------------------------------------------------------------
(* What holds of the entries and of the services whatever flows, setups,    *)
(* reloads and removals run side by side, for any number of them.           *)

\* What a test in flight can count on.  Each clause is what its form checked,
\* for as long as no flow has overtaken it that writes the same data.
TestHolds(t) ==
  /\ Accepted(t.ip, t.creds)
  /\ t.kind # "user" => t.entry \in Configured
  /\ t.kind = "reauth" /\ "reconfigure" \notin t.overtaken => entries[t.entry].ip = t.ip
  /\ t.kind = "reconfigure" /\ t.overtaken \cap {"user", "reconfigure"} = {} =>
       \A o \in Configured \ {t.entry} : entries[o].ip # t.ip
  /\ t.kind = "user" /\ "user" \notin t.overtaken /\ t.prefix # None =>
       \A o \in Configured : entries[o].prefix # t.prefix

TestsHold == \A f \in FlowIds : testing[f] # None => TestHolds(testing[f])

StoredWasTested ==
  \A e \in Slots : entries[e] # None /\ "credentials" \notin raced =>
                     Accepted(entries[e].ip, entries[e].creds)

\* A setup reads the data it runs with, or is followed by a reload.
SetupReadsStored ==
  \A e \in Slots : life[e] \in {"setup", "loaded"} /\ due[e] = 0 => runtime[e] = entries[e]

DataInv == TestsHold /\ EntriesDistinct /\ StoredWasTested

FlowsInv == FlowsTypeOK /\ DataInv /\ SetupReadsStored /\ ServicesFollowEntries

-----------------------------------------------------------------------------
\* The steps by what they do.

\* A submitted form leaves a test of the right type in flight.
LEMMA SubmittedType ==
  ASSUME FlowsTypeOK, NEW f \in FlowIds, NEW t \in Tests, Submit(f, t)
  PROVE  FlowsTypeOK'
<1>1. testing' = [testing EXCEPT ![f] = t] /\ submits' = submits + 1 /\ submits < MaxSubmits
      /\ UNCHANGED <<entries, life, after, due, runtime, services, raced>>
  BY DEF Submit
<1>2. testing' \in [FlowIds -> Tests \cup {None}]
  BY <1>1 DEF FlowsTypeOK
<1>3. submits' \in 0..MaxSubmits
  BY <1>1, FlowsAssumption DEF FlowsTypeOK
<1> QED
  BY <1>1, <1>2, <1>3 DEF FlowsTypeOK

\* It disturbs nothing but the list of the tests.
LEMMA SubmittedKeeps ==
  ASSUME FlowsInv, NEW f \in FlowIds, NEW t \in Tests, Submit(f, t), TestHolds(t)
  PROVE  FlowsInv'
<1>1. testing' = [testing EXCEPT ![f] = t]
      /\ UNCHANGED <<entries, life, after, due, runtime, services, raced>>
  BY DEF Submit
<1>2. FlowsTypeOK'
  BY SubmittedType DEF FlowsInv
<1>3. \A u : TestHolds(u) => TestHolds(u)'
  BY <1>1 DEF TestHolds, Configured, Accepted
<1>4. TestsHold'
  <2> SUFFICES ASSUME NEW g \in FlowIds, testing'[g] # None
               PROVE  TestHolds(testing[g])'
    BY DEF TestsHold
  <2>1. testing'[g] = IF g = f THEN t ELSE testing[g]
    BY <1>1 DEF FlowsInv, FlowsTypeOK
  <2>2. TestHolds(testing'[g])
    BY <2>1 DEF FlowsInv, DataInv, TestsHold
  <2>3. testing[g]' = testing'[g]
    OBVIOUS
  <2> QED
    BY <2>2, <1>1 DEF TestHolds, Configured, Accepted
<1>5. EntriesDistinct' /\ StoredWasTested' /\ SetupReadsStored' /\ ServicesFollowEntries'
  BY <1>1 DEF FlowsInv, DataInv, EntriesDistinct, StoredWasTested, SetupReadsStored,
              ServicesFollowEntries, Configured, Accepted
<1> QED
  BY <1>2, <1>4, <1>5 DEF FlowsInv, DataInv

\* What is typed is well-typed.
LEMMA TypedCredentials ==
  ASSUME NEW c \in Typed
  PROVE  c \in Credentials
<1>1. CASE c = [user |-> FALSE, password |-> None]
  BY <1>1 DEF Credentials
<1>2. CASE c \in [user : {TRUE}, password : Addresses]
  BY <1>2 DEF Credentials
<1> QED
  BY <1>1, <1>2 DEF Typed

\* A new entry's form: its prefix is free.
LEMMA SubmitUserKeeps ==
  ASSUME FlowsInv, NEW f \in FlowIds, NEW ip \in Addresses, NEW creds \in Typed,
         NEW prefix \in Prefixes \cup {None}, SubmitUser(f, ip, creds, prefix)
  PROVE  FlowsInv'
<1> DEFINE t == [kind |-> "user", entry |-> None, ip |-> ip, creds |-> creds,
                 prefix |-> prefix, overtaken |-> {}]
<1>1. t \in Tests
  BY TypedCredentials DEF Tests, Kinds
<1>2. Submit(f, t) /\ PrefixFree(prefix)
  BY DEF SubmitUser
<1>3. Accepted(t.ip, t.creds)
  BY <1>2 DEF Submit
<1>4. TestHolds(t)
  BY <1>2, <1>3 DEF TestHolds, PrefixFree
<1> HIDE DEF t
<1> QED
  BY <1>1, <1>2, <1>4, SubmittedKeeps

\* A reconfiguration's form: no other entry has the address.
LEMMA SubmitReconfigureKeeps ==
  ASSUME FlowsInv, NEW f \in FlowIds, NEW e \in Slots, NEW ip \in Addresses,
         NEW typed \in Typed \cup [user : {TRUE}, password : {None}],
         SubmitReconfigure(f, e, ip, typed)
  PROVE  FlowsInv'
<1> DEFINE password == IF typed.password = None THEN entries[e].creds.password
                       ELSE typed.password
           t == [kind |-> "reconfigure", entry |-> e, ip |-> ip,
                 creds |-> [user |-> typed.user, password |-> password],
                 prefix |-> None, overtaken |-> {}]
<1>1. Submit(f, t) /\ e \in Configured /\ \A o \in Configured \ {e} : entries[o].ip # ip
  BY DEF SubmitReconfigure
<1>2. typed.user \in BOOLEAN /\ typed.password \in Addresses \cup {None}
  <2>1. CASE typed \in Typed
    BY <2>1, TypedCredentials DEF Credentials
  <2>2. CASE typed \in [user : {TRUE}, password : {None}]
    BY <2>2
  <2> QED
    BY <2>1, <2>2
<1>3. entries[e] \in Stored
  BY <1>1 DEF FlowsInv, FlowsTypeOK, Configured
<1>4. password \in Addresses \cup {None}
  BY <1>2, <1>3 DEF Stored, Credentials
<1>5. t \in Tests
  BY <1>2, <1>4 DEF Tests, Kinds, Credentials
<1>6. Accepted(t.ip, t.creds)
  BY <1>1 DEF Submit
<1>7. TestHolds(t)
  BY <1>1, <1>6 DEF TestHolds
<1> HIDE DEF t, password
<1> QED
  BY <1>1, <1>5, <1>7, SubmittedKeeps

\* New credentials are tested at the address of the entry.
LEMMA SubmitReauthKeeps ==
  ASSUME FlowsInv, NEW f \in FlowIds, NEW e \in Slots, NEW creds \in Typed,
         SubmitReauth(f, e, creds)
  PROVE  FlowsInv'
<1> DEFINE t == [kind |-> "reauth", entry |-> e, ip |-> entries[e].ip, creds |-> creds,
                 prefix |-> None, overtaken |-> {}]
<1>1. Submit(f, t) /\ e \in Configured
  BY DEF SubmitReauth
<1>2. entries[e] \in Stored
  BY <1>1 DEF FlowsInv, FlowsTypeOK, Configured
<1>3. t \in Tests
  BY <1>2, TypedCredentials DEF Tests, Kinds, Stored
<1>4. Accepted(t.ip, t.creds)
  BY <1>1 DEF Submit
<1>5. TestHolds(t)
  BY <1>1, <1>4 DEF TestHolds
<1> HIDE DEF t
<1> QED
  BY <1>1, <1>3, <1>5, SubmittedKeeps

-----------------------------------------------------------------------------
\* The steps after the test.

\* A flow that has written is over; the others know its kind.
LEMMA OthersOvertaken ==
  ASSUME FlowsTypeOK, NEW f \in FlowIds, testing[f] # None, Wrote(f),
         NEW g \in FlowIds, testing'[g] # None
  PROVE  /\ g # f /\ testing[g] # None /\ testing[g] \in Tests
         /\ testing'[g] = [testing[g] EXCEPT !.overtaken = @ \cup {testing[f].kind}]
         /\ testing'[g].kind = testing[g].kind /\ testing'[g].entry = testing[g].entry
         /\ testing'[g].ip = testing[g].ip /\ testing'[g].creds = testing[g].creds
         /\ testing'[g].prefix = testing[g].prefix
         /\ testing'[g].overtaken = testing[g].overtaken \cup {testing[f].kind}
<1>1. /\ g # f /\ testing[g] # None
      /\ testing'[g] = [testing[g] EXCEPT !.overtaken = @ \cup {testing[f].kind}]
  BY DEF Wrote
<1>2. testing[g] \in Tests
  BY <1>1 DEF FlowsTypeOK
<1> QED
  BY <1>1, <1>2 DEF Tests

\* ... and stays well-typed.
LEMMA WroteType ==
  ASSUME FlowsTypeOK, NEW f \in FlowIds, testing[f] # None, Wrote(f)
  PROVE  testing' \in [FlowIds -> Tests \cup {None}]
<1>1. testing[f] \in Tests
  BY DEF FlowsTypeOK
<1>2. ASSUME NEW g \in FlowIds
      PROVE  testing'[g] \in Tests \cup {None}
  <2>1. CASE testing'[g] = None
    BY <2>1
  <2>2. CASE testing'[g] # None
    <3>1. testing[g] \in Tests
          /\ testing'[g] = [testing[g] EXCEPT !.overtaken = @ \cup {testing[f].kind}]
      BY <2>2, OthersOvertaken
    <3>2. testing[g].overtaken \cup {testing[f].kind} \in SUBSET Kinds
      BY <3>1, <1>1 DEF Tests
    <3> QED
      BY <3>1, <3>2 DEF Tests
  <2> QED
    BY <2>1, <2>2
<1> QED
  BY <1>2 DEF Wrote

\* A write that leaves the other entries alone, and in its own the address or
\* what a form would have looked for, keeps what the other tests count on.
LEMMA WroteKeepsTests ==
  ASSUME FlowsInv, NEW f \in FlowIds, testing[f] # None, Wrote(f),
         NEW e \in Slots, NEW written \in Stored, entries' = [entries EXCEPT ![e] = written],
         testing[f].kind = "user" => e \notin Configured,
         testing[f].kind = "reauth" => e \in Configured /\ written.ip = entries[e].ip,
         testing[f].kind # "user" => e \in Configured /\ written.prefix = entries[e].prefix
  PROVE  TestsHold'
<1> SUFFICES ASSUME NEW g \in FlowIds, testing'[g] # None
             PROVE  TestHolds(testing[g])'
  BY DEF TestsHold
<1> DEFINE t == testing[g]
           u == testing'[g]
<1>1. /\ t # None /\ t \in Tests /\ testing[f] \in Tests
      /\ u.kind = t.kind /\ u.entry = t.entry /\ u.ip = t.ip /\ u.creds = t.creds
      /\ u.prefix = t.prefix /\ u.overtaken = t.overtaken \cup {testing[f].kind}
  <2>1. FlowsTypeOK
    BY DEF FlowsInv
  <2>2. testing[f] \in Tests
    BY <2>1 DEF FlowsTypeOK
  <2> QED
    BY <2>1, <2>2, OthersOvertaken
<1>2. TestHolds(t)
  BY <1>1 DEF FlowsInv, DataInv, TestsHold
<1>3. \A o \in Slots : entries'[o] = IF o = e THEN written ELSE entries[o]
  BY DEF FlowsInv, FlowsTypeOK
<1>4. Configured' = Configured \cup {e}
  BY <1>3, StoredAssumption DEF Configured
<1>5. testing[f].kind \in Kinds /\ t.kind \in Kinds
  BY <1>1 DEF Tests
<1> HIDE DEF t, u
<1>6. Accepted(u.ip, u.creds) /\ (u.kind # "user" => u.entry \in Configured')
  BY <1>1, <1>2, <1>4 DEF TestHolds
<1>7. ASSUME u.kind = "reauth", "reconfigure" \notin u.overtaken
      PROVE  entries'[u.entry].ip = u.ip
  <2>1. entries[u.entry].ip = u.ip /\ u.entry \in Configured
    BY <1>1, <1>2, <1>7 DEF TestHolds
  <2>2. testing[f].kind \in {"user", "reauth"}
    BY <1>1, <1>5, <1>7 DEF Kinds
  <2>3. u.entry \in Slots
    BY <2>1 DEF Configured
  <2> QED
    BY <1>3, <2>1, <2>2, <2>3
<1>8. ASSUME u.kind = "reconfigure", u.overtaken \cap {"user", "reconfigure"} = {},
             NEW o \in Configured' \ {u.entry}
      PROVE  entries'[o].ip # u.ip
  <2>1. \A p \in Configured \ {u.entry} : entries[p].ip # u.ip
    BY <1>1, <1>2, <1>8 DEF TestHolds
  <2>2. testing[f].kind = "reauth"
    BY <1>1, <1>5, <1>8 DEF Kinds
  <2>3. o \in Configured /\ o \in Slots /\ entries'[o].ip = entries[o].ip
    BY <2>2, <1>3, <1>4 DEF Configured
  <2> QED
    BY <2>1, <2>3, <1>8
<1>9. ASSUME u.kind = "user", "user" \notin u.overtaken, u.prefix # None,
             NEW o \in Configured'
      PROVE  entries'[o].prefix # u.prefix
  <2>1. \A p \in Configured : entries[p].prefix # u.prefix
    BY <1>1, <1>2, <1>9 DEF TestHolds
  <2>2. testing[f].kind # "user"
    BY <1>1, <1>9
  <2>3. o \in Configured /\ o \in Slots /\ entries'[o].prefix = entries[o].prefix
    BY <2>2, <1>3, <1>4 DEF Configured
  <2> QED
    BY <2>1, <2>3
<1> QED
  BY <1>6, <1>7, <1>8, <1>9 DEF TestHolds, u, Accepted

\* A new entry has an address of its own.
LEMMA CreateKeeps ==
  ASSUME FlowsInv, NEW f \in FlowIds, UserCreates(f)
  PROVE  FlowsInv'
<1> DEFINE t == testing[f]
<1>1. t # None /\ t \in Tests /\ t.kind = "user" /\ ~AddressTaken(t.ip) /\ Wrote(f)
      /\ RacedIf("user" \in t.overtaken, "prefix")
      /\ UNCHANGED <<life, after, runtime, services, submits>>
  BY DEF UserCreates, FlowsInv, FlowsTypeOK
<1> DEFINE written == [ip |-> t.ip, creds |-> t.creds, prefix |-> t.prefix]
<1>2. PICK e \in Slots \ Configured :
        /\ entries' = [entries EXCEPT ![e] = written]
        /\ due' = [due EXCEPT ![e] = 1]
  BY DEF UserCreates
<1>3. written \in Stored
  BY <1>1 DEF Tests, Stored
<1>4. TestHolds(t)
  BY <1>1 DEF FlowsInv, DataInv, TestsHold
<1>5. raced \subseteq raced' /\ raced' \subseteq raced \cup {"prefix"}
      /\ ("user" \in t.overtaken => "prefix" \in raced')
  BY <1>1 DEF RacedIf
<1>6. \A o \in Slots : entries'[o] = IF o = e THEN written ELSE entries[o]
  BY <1>2 DEF FlowsInv, FlowsTypeOK
<1>7. Configured' = Configured \cup {e}
  BY <1>3, <1>6, StoredAssumption DEF Configured
<1>8. FlowsTypeOK'
  BY <1>1, <1>2, <1>3, <1>5, WroteType DEF FlowsInv, FlowsTypeOK, Races
<1>9. TestsHold'
  BY <1>1, <1>2, <1>3, WroteKeepsTests
<1>10. written.ip = t.ip /\ written.creds = t.creds /\ written.prefix = t.prefix
  OBVIOUS
<1> HIDE DEF written, t
<1>11. EntriesDistinct'
  <2>1. \A o \in Configured : o # e /\ o \in Slots /\ entries'[o] = entries[o]
    BY <1>2, <1>6 DEF Configured
  <2>2. \A o \in Configured : entries[o].ip # written.ip
    BY <1>1, <1>10 DEF AddressTaken
  <2>3. "prefix" \notin raced' /\ written.prefix # None =>
          \A o \in Configured : entries[o].prefix # written.prefix
    BY <1>1, <1>4, <1>5, <1>10 DEF TestHolds
  <2>4. entries'[e] = written
    BY <1>2, <1>6
  <2> QED
    BY <1>5, <1>7, <2>1, <2>2, <2>3, <2>4 DEF EntriesDistinct, FlowsInv, DataInv
<1>12. StoredWasTested'
  BY <1>4, <1>5, <1>6, <1>10 DEF TestHolds, StoredWasTested, FlowsInv, DataInv, Accepted
<1>13. SetupReadsStored' /\ ServicesFollowEntries'
  BY <1>1, <1>2, <1>6 DEF SetupReadsStored, ServicesFollowEntries, FlowsInv, FlowsTypeOK
<1> QED
  BY <1>8, <1>9, <1>11, <1>12, <1>13 DEF FlowsInv, DataInv

\* Rewriting an entry keeps everything, given what the flow knows of the data.
LEMMA RewriteKeeps ==
  ASSUME FlowsInv, NEW f \in FlowIds, testing[f] # None,
         NEW e \in Configured, testing[f].entry = e,
         NEW written \in Stored, Rewrite(f, written), written.prefix = entries[e].prefix,
         testing[f].kind \in {"reconfigure", "reauth"},
         testing[f].kind = "reauth" => written.ip = entries[e].ip,
         raced' \subseteq Races, raced \subseteq raced',
         "credentials" \notin raced' => Accepted(written.ip, written.creds),
         "address" \notin raced' => \A o \in Configured \ {e} : entries[o].ip # written.ip
  PROVE  FlowsInv'
<1>1. /\ entries' = [entries EXCEPT ![e] = written]
      /\ due' = [due EXCEPT ![e] = @ + 1]
      /\ Wrote(f)
      /\ UNCHANGED <<life, after, runtime, services, submits>>
  BY DEF Rewrite
<1>2. e \in Slots /\ entries[e] # None
  BY DEF Configured
<1>3. \A o \in Slots : entries'[o] = IF o = e THEN written ELSE entries[o]
  BY <1>1 DEF FlowsInv, FlowsTypeOK
<1>4. Configured' = Configured
  BY <1>2, <1>3, StoredAssumption DEF Configured
<1>5. FlowsTypeOK'
  <2>1. due' \in [Slots -> Nat]
    BY <1>1, <1>2 DEF FlowsInv, FlowsTypeOK
  <2> QED
    BY <1>1, <2>1, WroteType DEF FlowsInv, FlowsTypeOK
<1>6. TestsHold'
  BY <1>1, <1>2, WroteKeepsTests
<1>7. EntriesDistinct'
  <2>1. \A o \in Configured : o \in Slots
    BY DEF Configured
  <2> QED
    BY <1>3, <1>4, <2>1 DEF EntriesDistinct, FlowsInv, DataInv
<1>8. StoredWasTested'
  BY <1>3 DEF StoredWasTested, FlowsInv, DataInv, Accepted
<1>9. SetupReadsStored'
  <2>1. \A o \in Slots : due'[o] = IF o = e THEN due[o] + 1 ELSE due[o]
    BY <1>1 DEF FlowsInv, FlowsTypeOK
  <2>2. due'[e] # 0
    BY <2>1, <1>2 DEF FlowsInv, FlowsTypeOK
  <2> QED
    BY <1>1, <1>3, <2>1, <2>2 DEF SetupReadsStored, FlowsInv
<1>10. ServicesFollowEntries'
  BY <1>1 DEF ServicesFollowEntries, FlowsInv
<1> QED
  BY <1>5, <1>6, <1>7, <1>8, <1>9, <1>10 DEF FlowsInv, DataInv

\* A reconfiguration has looked for the address, unless it was overtaken.
LEMMA ReconfigureKeeps ==
  ASSUME FlowsInv, NEW f \in FlowIds, ReconfigureReturns(f)
  PROVE  FlowsInv'
<1> DEFINE t == testing[f]
           e == t.entry
           written == [ip |-> t.ip, creds |-> t.creds, prefix |-> entries[e].prefix]
<1>1. t # None /\ t.kind = "reconfigure" /\ Rewrite(f, written)
      /\ RacedIf(t.overtaken \cap {"user", "reconfigure"} # {}, "address")
  BY DEF ReconfigureReturns
<1>2. t \in Tests /\ TestHolds(t)
  BY <1>1 DEF FlowsInv, FlowsTypeOK, DataInv, TestsHold
<1>3. e \in Configured
  BY <1>1, <1>2 DEF TestHolds
<1>4. entries[e] \in Stored
  BY <1>3 DEF Configured, FlowsInv, FlowsTypeOK
<1>5. written \in Stored
  BY <1>2, <1>4 DEF Tests, Stored
<1>6. raced' \subseteq Races /\ raced \subseteq raced'
  BY <1>1 DEF RacedIf, FlowsInv, FlowsTypeOK, Races
<1>7. Accepted(written.ip, written.creds)
  BY <1>2 DEF TestHolds
<1>8. "address" \notin raced' => \A o \in Configured \ {e} : entries[o].ip # written.ip
  BY <1>1, <1>2 DEF TestHolds, RacedIf
<1>9. written.prefix = entries[e].prefix
  OBVIOUS
<1> HIDE DEF written
<1> QED
  BY <1>1, <1>3, <1>5, <1>6, <1>7, <1>8, <1>9, RewriteKeeps

\* New credentials were tested at the address, unless it was moved meanwhile.
LEMMA ReauthKeeps ==
  ASSUME FlowsInv, NEW f \in FlowIds, ReauthReturns(f)
  PROVE  FlowsInv'
<1> DEFINE t == testing[f]
           e == t.entry
           written == [entries[e] EXCEPT !.creds = t.creds]
<1>1. t # None /\ t.kind = "reauth" /\ Rewrite(f, written)
      /\ RacedIf("reconfigure" \in t.overtaken, "credentials")
  BY DEF ReauthReturns
<1>2. t \in Tests /\ TestHolds(t)
  BY <1>1 DEF FlowsInv, FlowsTypeOK, DataInv, TestsHold
<1>3. e \in Configured
  BY <1>1, <1>2 DEF TestHolds
<1>4. entries[e] \in Stored
  BY <1>3 DEF Configured, FlowsInv, FlowsTypeOK
<1>5. written \in Stored /\ written.ip = entries[e].ip /\ written.creds = t.creds
      /\ written.prefix = entries[e].prefix
  BY <1>2, <1>4 DEF Tests, Stored
<1>6. raced \subseteq raced' /\ raced' \subseteq raced \cup {"credentials"}
      /\ ("reconfigure" \in t.overtaken => "credentials" \in raced')
  BY <1>1 DEF RacedIf
<1>7. raced' \subseteq Races
  BY <1>6 DEF FlowsInv, FlowsTypeOK, Races
<1> HIDE DEF written
<1>8. "credentials" \notin raced' => Accepted(written.ip, written.creds)
  BY <1>1, <1>2, <1>5, <1>6 DEF TestHolds
<1>9. "address" \notin raced' => \A o \in Configured \ {e} : entries[o].ip # written.ip
  <2>1. "address" \notin raced' => "address" \notin raced
    BY <1>6
  <2> QED
    BY <1>3, <1>5, <2>1 DEF FlowsInv, DataInv, EntriesDistinct
<1> QED
  BY <1>1, <1>3, <1>5, <1>6, <1>7, <1>8, <1>9, RewriteKeeps

\* A flow that gives up writes nothing.
LEMMA AbortKeeps ==
  ASSUME FlowsInv, NEW f \in FlowIds, UserAborts(f)
  PROVE  FlowsInv'
<1>1. testing' = [testing EXCEPT ![f] = None]
      /\ UNCHANGED <<entries, life, after, due, runtime, services, submits, raced>>
  BY DEF UserAborts
<1>2. FlowsTypeOK'
  BY <1>1 DEF FlowsInv, FlowsTypeOK
<1>3. TestsHold'
  <2> SUFFICES ASSUME NEW g \in FlowIds, testing'[g] # None
               PROVE  TestHolds(testing[g])'
    BY DEF TestsHold
  <2>1. testing'[g] = testing[g]
    BY <1>1 DEF FlowsInv, FlowsTypeOK
  <2>2. TestHolds(testing[g])
    BY <2>1 DEF FlowsInv, DataInv, TestsHold
  <2> QED
    BY <2>1, <2>2, <1>1 DEF TestHolds, Configured, Accepted
<1>4. EntriesDistinct' /\ StoredWasTested' /\ SetupReadsStored' /\ ServicesFollowEntries'
  BY <1>1 DEF FlowsInv, DataInv, EntriesDistinct, StoredWasTested, SetupReadsStored,
              ServicesFollowEntries, Configured, Accepted
<1> QED
  BY <1>2, <1>3, <1>4 DEF FlowsInv, DataInv

-----------------------------------------------------------------------------
\* The steps of the core.

\* What concerns the data is kept by every step that leaves the data alone.
LEMMA DataStands ==
  ASSUME DataInv, UNCHANGED <<entries, testing, raced>>
  PROVE  DataInv'
BY DEF DataInv, TestsHold, TestHolds, EntriesDistinct, StoredWasTested, Configured, Accepted

\* Setup reads what is stored at the moment it begins.
LEMMA SetupBeginsKeeps ==
  ASSUME FlowsInv, NEW e \in Slots, SetupBegins(e)
  PROVE  FlowsInv'
<1>1. /\ life[e] = "unloaded" /\ due[e] > 0
      /\ due' = [due EXCEPT ![e] = @ - 1]
      /\ life' = [life EXCEPT ![e] = "setup"]
      /\ runtime' = [runtime EXCEPT ![e] = entries[e]]
      /\ UNCHANGED <<entries, testing, after, services, submits, raced>>
  BY DEF SetupBegins
<1>2. FlowsTypeOK'
  <2>1. due[e] \in Nat /\ due[e] - 1 \in Nat
    BY <1>1 DEF FlowsInv, FlowsTypeOK
  <2>2. due' \in [Slots -> Nat]
    BY <1>1, <2>1 DEF FlowsInv, FlowsTypeOK
  <2> QED
    BY <1>1, <2>2 DEF FlowsInv, FlowsTypeOK
<1>3. SetupReadsStored' /\ ServicesFollowEntries'
  BY <1>1 DEF SetupReadsStored, ServicesFollowEntries, FlowsInv, FlowsTypeOK
<1> QED
  BY <1>1, <1>2, <1>3, DataStands DEF FlowsInv

\* The services are registered, if they are not.
LEMMA SetupReturnsKeeps ==
  ASSUME FlowsInv, NEW e \in Slots, SetupReturns(e)
  PROVE  FlowsInv'
<1>1. /\ life[e] = "setup" /\ services' = TRUE
      /\ life' = [life EXCEPT ![e] = "loaded"]
      /\ UNCHANGED <<entries, testing, after, due, runtime, submits, raced>>
  BY DEF SetupReturns
<1>2. FlowsTypeOK'
  BY <1>1 DEF FlowsInv, FlowsTypeOK
<1>3. SetupReadsStored' /\ ServicesFollowEntries'
  BY <1>1 DEF SetupReadsStored, ServicesFollowEntries, FlowsInv, FlowsTypeOK
<1> QED
  BY <1>1, <1>2, <1>3, DataStands DEF FlowsInv

\* An entry that is being unloaded is not loaded, and the services stay for now.
LEMMA UnloadBeginsKeeps ==
  ASSUME FlowsInv, NEW e \in Slots, NEW then \in {"setup", "removed"},
         UnloadBegins(e, then), due' \in [Slots -> Nat],
         \A o \in Slots \ {e} : due'[o] = due[o]
  PROVE  FlowsInv'
<1>1. /\ life[e] = "loaded"
      /\ life' = [life EXCEPT ![e] = "unloading"]
      /\ after' = [after EXCEPT ![e] = then]
      /\ UNCHANGED <<entries, testing, runtime, services, submits, raced>>
  BY DEF UnloadBegins
<1>2. FlowsTypeOK'
  BY <1>1 DEF FlowsInv, FlowsTypeOK
<1>3. SetupReadsStored' /\ ServicesFollowEntries'
  BY <1>1 DEF SetupReadsStored, ServicesFollowEntries, FlowsInv, FlowsTypeOK
<1> QED
  BY <1>1, <1>2, <1>3, DataStands DEF FlowsInv

\* The services go when no other entry needs them; a reload reads the data anew.
LEMMA UnloadReturnsKeeps ==
  ASSUME FlowsInv, NEW e \in Slots, UnloadReturns(e)
  PROVE  FlowsInv'
<1>1. /\ life[e] = "unloading"
      /\ life' = [life EXCEPT ![e] = IF after[e] = "setup" THEN "setup" ELSE "unloaded"]
      /\ runtime' = [runtime EXCEPT ![e] = IF after[e] = "setup" THEN entries[e] ELSE None]
      /\ after' = [after EXCEPT ![e] = "setup"]
      /\ UNCHANGED <<submits, raced>>
  BY DEF UnloadReturns
<1>2. PICK unloading \in BOOLEAN : services' = (services /\ Remaining(e, unloading) # {})
  BY DEF UnloadReturns
<1>3. ServicesFollowEntries'
  <2>1. \A o \in Slots : life'[o] = IF o # e THEN life[o]
                                    ELSE IF after[e] = "setup" THEN "setup" ELSE "unloaded"
    BY <1>1 DEF FlowsInv, FlowsTypeOK
  <2>2. ASSUME NEW o \in Slots, life'[o] = "loaded"
        PROVE  services'
    <3>1. o # e /\ life[o] = "loaded"
      BY <2>1, <2>2
    <3>2. o \in Remaining(e, unloading)
      BY <3>1 DEF Remaining
    <3> QED
      BY <3>1, <3>2, <1>2 DEF FlowsInv, ServicesFollowEntries
  <2>3. ASSUME services'
        PROVE  \E o \in Slots : life'[o] \in {"loaded", "unloading", "failed"}
    <3>1. PICK o \in Slots \ {e} : life[o] \in {"loaded", "unloading"}
      BY <1>2, <2>3 DEF Remaining
    <3> QED
      BY <2>1, <3>1
  <2> QED
    BY <2>2, <2>3 DEF ServicesFollowEntries
<1>4. CASE after[e] # "removed"
  <2>1. UNCHANGED <<entries, due, testing>>
    BY <1>4 DEF UnloadReturns
  <2>2. after[e] = "setup"
    BY <1>4 DEF FlowsInv, FlowsTypeOK
  <2>3. FlowsTypeOK'
    BY <1>1, <1>2, <2>1, <2>2 DEF FlowsInv, FlowsTypeOK
  <2>4. SetupReadsStored'
    BY <1>1, <2>1, <2>2 DEF SetupReadsStored, FlowsInv, FlowsTypeOK
  <2> QED
    BY <1>1, <1>3, <2>1, <2>3, <2>4, DataStands DEF FlowsInv
<1>5. CASE after[e] = "removed"
  <2>1. /\ entries' = [entries EXCEPT ![e] = None]
        /\ due' = [due EXCEPT ![e] = 0]
        /\ testing' = [f \in FlowIds |-> IF testing[f] # None /\ testing[f].entry = e
                                         THEN None ELSE testing[f]]
    BY <1>5 DEF UnloadReturns
  <2>2. FlowsTypeOK'
    BY <1>1, <1>2, <1>5, <2>1 DEF FlowsInv, FlowsTypeOK
  <2>3. /\ \A o \in Slots : entries'[o] = IF o = e THEN None ELSE entries[o]
        /\ Configured' = Configured \ {e}
    BY <2>1 DEF FlowsInv, FlowsTypeOK, Configured
  <2>4. TestsHold'
    <3> SUFFICES ASSUME NEW g \in FlowIds, testing'[g] # None
                 PROVE  TestHolds(testing[g])'
      BY DEF TestsHold
    <3>1. testing'[g] = testing[g] /\ testing[g].entry # e
      BY <2>1
    <3>2. TestHolds(testing[g])
      BY <3>1 DEF FlowsInv, DataInv, TestsHold
    <3>3. \A o \in Configured' : o \in Configured /\ entries'[o] = entries[o]
      BY <2>3 DEF Configured
    <3>4. testing[g].entry \in Configured => testing[g].entry \in Configured'
      BY <3>1, <2>3
    <3> QED
      BY <3>1, <3>2, <3>3, <3>4 DEF TestHolds, Accepted
  <2>5. EntriesDistinct' /\ StoredWasTested'
    <3>1. \A o \in Configured' : o \in Configured /\ entries'[o] = entries[o]
      BY <2>3 DEF Configured
    <3> QED
      BY <1>1, <2>3, <3>1
      DEF FlowsInv, DataInv, EntriesDistinct, StoredWasTested, Accepted
  <2>6. SetupReadsStored'
    BY <1>1, <1>5, <2>1 DEF SetupReadsStored, FlowsInv, FlowsTypeOK
  <2> QED
    BY <1>3, <2>2, <2>4, <2>5, <2>6 DEF FlowsInv, DataInv
<1> QED
  BY <1>4, <1>5

\* An entry that failed to unload keeps the services it has.
LEMMA UnloadFailsKeeps ==
  ASSUME FlowsInv, NEW e \in Slots, UnloadFails(e)
  PROVE  FlowsInv'
<1>1. /\ life[e] = "unloading" /\ life' = [life EXCEPT ![e] = "failed"]
      /\ UNCHANGED <<entries, testing, after, due, runtime, services, submits, raced>>
  BY DEF UnloadFails
<1>2. FlowsTypeOK'
  BY <1>1 DEF FlowsInv, FlowsTypeOK
<1>3. SetupReadsStored' /\ ServicesFollowEntries'
  BY <1>1 DEF SetupReadsStored, ServicesFollowEntries, FlowsInv, FlowsTypeOK
<1> QED
  BY <1>1, <1>2, <1>3, DataStands DEF FlowsInv

-----------------------------------------------------------------------------
\* The first entry is stored without credentials, and due for its setup.
LEMMA FlowsInvInit == FlowsInit => FlowsInv
<1> SUFFICES ASSUME FlowsInit PROVE FlowsInv
  OBVIOUS
<1>1. PICK p \in Prefixes :
        entries = [e \in Slots |->
                     IF e = 1 THEN [ip |-> First, creds |-> [user |-> FALSE, password |-> None],
                                    prefix |-> p]
                     ELSE None]
  BY DEF FlowsInit
<1>2. [ip |-> First, creds |-> [user |-> FALSE, password |-> None], prefix |-> p] \in Stored
  BY FlowsAssumption DEF Stored, Credentials
<1>3. FlowsTypeOK
  <2>1. entries \in [Slots -> Stored \cup {None}]
    BY <1>1, <1>2
  <2>2. submits \in 0..MaxSubmits
    BY FlowsAssumption DEF FlowsInit
  <2>3. raced \subseteq Races /\ services \in BOOLEAN
    BY DEF FlowsInit
  <2>4. /\ testing \in [FlowIds -> Tests \cup {None}]
        /\ life \in [Slots -> {"unloaded", "setup", "loaded", "unloading", "failed"}]
        /\ after \in [Slots -> {"setup", "removed"}]
        /\ runtime \in [Slots -> Stored \cup {None}]
    BY DEF FlowsInit
  <2>5. due \in [Slots -> Nat]
    BY DEF FlowsInit
  <2> QED
    BY <2>1, <2>2, <2>3, <2>4, <2>5 DEF FlowsTypeOK
<1>4. TestsHold /\ SetupReadsStored /\ ServicesFollowEntries
  BY DEF FlowsInit, TestsHold, SetupReadsStored, ServicesFollowEntries
<1>5. EntriesDistinct
  BY <1>1 DEF EntriesDistinct, Configured
<1>6. StoredWasTested
  BY <1>1 DEF StoredWasTested, Accepted
<1> QED
  BY <1>3, <1>4, <1>5, <1>6 DEF FlowsInv, DataInv

\* Every step of a form, of a test that returns and of the core keeps FlowsInv.
LEMMA FlowsInvNext == FlowsInv /\ [FlowsNext]_flowVars => FlowsInv'
<1> SUFFICES ASSUME FlowsInv, [FlowsNext]_flowVars
             PROVE  FlowsInv'
  OBVIOUS
<1>1. CASE UNCHANGED flowVars
  <2>1. UNCHANGED <<entries, testing, life, after, due, runtime, services, submits, raced>>
    BY <1>1 DEF flowVars
  <2>2. FlowsTypeOK' /\ SetupReadsStored' /\ ServicesFollowEntries'
    BY <2>1 DEF FlowsInv, FlowsTypeOK, SetupReadsStored, ServicesFollowEntries
  <2> QED
    BY <2>1, <2>2, DataStands DEF FlowsInv
<1>2. ASSUME NEW f \in FlowIds, NEW ip \in Addresses, NEW creds \in Typed,
             NEW prefix \in Prefixes \cup {None}, SubmitUser(f, ip, creds, prefix)
      PROVE  FlowsInv'
  BY <1>2, SubmitUserKeeps
<1>3. ASSUME NEW f \in FlowIds, NEW e \in Slots, NEW ip \in Addresses,
             NEW typed \in Typed \cup [user : {TRUE}, password : {None}],
             SubmitReconfigure(f, e, ip, typed)
      PROVE  FlowsInv'
  BY <1>3, SubmitReconfigureKeeps
<1>4. ASSUME NEW f \in FlowIds, NEW e \in Slots, NEW creds \in Typed,
             SubmitReauth(f, e, creds)
      PROVE  FlowsInv'
  BY <1>4, SubmitReauthKeeps
<1>5. ASSUME NEW f \in FlowIds,
             UserAborts(f) \/ UserCreates(f) \/ ReconfigureReturns(f) \/ ReauthReturns(f)
      PROVE  FlowsInv'
  BY <1>5, AbortKeeps, CreateKeeps, ReconfigureKeeps, ReauthKeeps
<1>6. ASSUME NEW e \in Slots, SetupBegins(e) \/ SetupReturns(e) \/ UnloadReturns(e) \/ UnloadFails(e)
      PROVE  FlowsInv'
  BY <1>6, SetupBeginsKeeps, SetupReturnsKeeps, UnloadReturnsKeeps, UnloadFailsKeeps
<1>7. ASSUME NEW e \in Slots, ReloadBegins(e)
      PROVE  FlowsInv'
  <2>1. due[e] > 0 /\ due' = [due EXCEPT ![e] = @ - 1] /\ UnloadBegins(e, "setup")
    BY <1>7 DEF ReloadBegins
  <2>2. due[e] \in Nat /\ due[e] - 1 \in Nat
    BY <2>1 DEF FlowsInv, FlowsTypeOK
  <2>3. due' \in [Slots -> Nat] /\ \A o \in Slots \ {e} : due'[o] = due[o]
    BY <2>1, <2>2 DEF FlowsInv, FlowsTypeOK
  <2> QED
    BY <2>1, <2>3, UnloadBeginsKeeps
<1>8. ASSUME NEW e \in Slots, Remove(e)
      PROVE  FlowsInv'
  <2>1. UNCHANGED due /\ UnloadBegins(e, "removed")
    BY <1>8 DEF Remove
  <2>2. due' \in [Slots -> Nat] /\ \A o \in Slots \ {e} : due'[o] = due[o]
    BY <2>1 DEF FlowsInv, FlowsTypeOK
  <2> QED
    BY <2>1, <2>2, UnloadBeginsKeeps
<1> QED
  BY <1>1, <1>2, <1>3, <1>4, <1>5, <1>6, <1>7, <1>8 DEF FlowsNext

\* The variables of the flows keep their types and FlowsInv holds throughout.
THEOREM FlowsInvariance == FlowsSpec => []FlowsInv
<1> QED
  BY FlowsInvInit, FlowsInvNext, PTL DEF FlowsSpec

\* No two entries share an address or a prefix, but for a flow overtaken while
\* its connection test was awaited.
THEOREM EntriesStayDistinct == FlowsSpec => []EntriesDistinct
<1>1. FlowsInv => EntriesDistinct
  BY DEF FlowsInv, DataInv
<1> QED
  BY <1>1, FlowsInvariance, PTL

\* A loaded entry runs with what is stored, and that has passed the test.
THEOREM RunsWithWhatWasTested == FlowsSpec => []RunsWhatWasTested
<1>1. FlowsInv => RunsWhatWasTested
  BY DEF FlowsInv, DataInv, RunsWhatWasTested, SetupReadsStored, StoredWasTested
<1> QED
  BY <1>1, FlowsInvariance, PTL

\* The services are there exactly as long as they are needed.
THEOREM ServicesComeAndGo == FlowsSpec => []ServicesFollowEntries
<1>1. FlowsInv => ServicesFollowEntries
  BY DEF FlowsInv
<1> QED
  BY <1>1, FlowsInvariance, PTL

-----------------------------------------------------------------------------
(* One bad field stays one bad sensor, and the drift of the clock is shown    *)
(* as it is, for every answer and every clock.                                *)

\* Neither value for nothing is a class of readings.
LEMMA NothingIsNoText == None \notin STRING /\ Absent \notin STRING /\ None # Absent
BY FramesAssumption

\* ... nor a number sent as text.
LEMMA NothingIsNoNumeral == {None, Absent} \cap {"numeral"} = {}
BY NothingIsNoText

\* What transform_data makes of the fields that both generations treat alike.
LEMMA TransformAlike ==
  ASSUME NEW m \in {"v1", "v2"}, NEW r
  PROVE  /\ Transform(m, r)["sessionTime"] = Validated(r["sessionTime"])
         /\ Transform(m, r)["curDesign"] = Validated(r["curDesign"])
         /\ Transform(m, r)["aiModecurrent"] = Validated(r["aiModecurrent"])
         /\ Transform(m, r)["temperature1"] = Validated(Blanked(r["temperature1"]))
         /\ Transform(m, r)["state"] = Mapped(r["state"], StateKeys(m))
         /\ Transform(m, r)["aiStatus"] = Mapped(r["aiStatus"], {"zero", "number"})
         /\ Transform(m, r)["gridRange"] = r["gridRange"]
         /\ Transform(m, r)["evseEnabled"] = r["evseEnabled"]
BY DEF Transform, Fields, NumericFields

\* ... and of those in which they differ.
LEMMA TransformV1 ==
  ASSUME NEW r
  PROVE  /\ Transform("v1", r)["voltMeas1"] =
              IF AsFloat(r["voltMeas1"]) = None THEN Absent ELSE r["voltMeas1"]
         /\ Transform("v1", r)["curMeas1"] = SetOrDrop(r["curMeas1"])
         /\ Transform("v1", r)["sessionEnergy"] = SetOrDrop(r["sessionEnergy"])
         /\ Transform("v1", r)["totalEnergy"] = SetOrDrop(r["totalEnergy"])
         /\ Transform("v1", r)["powerMeas"] = Power(r)
         /\ Transform("v1", r)["minCurrent"] = r["minCurrent"]
         /\ Transform("v1", r)["systemTime"] = ClockOfV1(r["systemTime"])
BY DEF Transform, Fields, NumericFields

\* ... the second generation validates all of them.
LEMMA TransformV2 ==
  ASSUME NEW r
  PROVE  /\ Transform("v2", r)["voltMeas1"] = Validated(r["voltMeas1"])
         /\ Transform("v2", r)["curMeas1"] = Validated(r["curMeas1"])
         /\ Transform("v2", r)["sessionEnergy"] = Validated(r["sessionEnergy"])
         /\ Transform("v2", r)["totalEnergy"] = Validated(r["totalEnergy"])
         /\ Transform("v2", r)["powerMeas"] = Validated(r["powerMeas"])
         /\ Transform("v2", r)["minCurrent"] = Validated(r["minCurrent"])
         /\ Transform("v2", r)["systemTime"] = ClockOfV2(r)
         /\ Transform("v2", r)["subState"] = SubState(r)
BY DEF Transform, Fields, NumericFields

\* A number, or nothing.
NumberOrNothing == Numbers \cup {None, Absent}

\* What validation leaves is a number or nothing.
LEMMA Validates ==
  ASSUME NEW v
  PROVE  /\ Validated(v) \in NumberOrNothing
         /\ SetOrDrop(v) \in NumberOrNothing
         /\ AsFloat(v) # None => v \in NumberOrNothing
BY NothingIsNoText DEF Validated, SetOrDrop, AsFloat, NumberOrNothing, Numbers

\* The fields of the sensors that show numbers.
LEMMA NumericIsClean ==
  ASSUME NEW m \in {"v1", "v2"}, NEW r, NEW e \in Numeric
  PROVE  Transform(m, r)[e] \in NumberOrNothing
<1>1. Power(r) \in NumberOrNothing
  BY DEF Power, NumberOrNothing, Numbers
<1>2. CASE m = "v1"
  BY <1>1, <1>2, TransformAlike, TransformV1, Validates DEF Numeric, NumberOrNothing
<1>3. CASE m = "v2"
  BY <1>3, TransformAlike, TransformV2, Validates DEF Numeric
<1> QED
  BY <1>2, <1>3

\* The fields a station of the first generation does not have are missing.
OfItsModel(m, r) == m = "v1" => \A f \in OfV2 : r[f] = Absent

\* The clock, when it can be read.
LEMMA ClockIsClean ==
  ASSUME NEW m \in {"v1", "v2"}, NEW r
  PROVE  Transform(m, r)["systemTime"] \in {"datetime", None, Absent}
BY TransformV1, TransformV2 DEF ClockOfV1, ClockOfV2

\* No answer makes an entity raise.
LEMMA NoneRaises ==
  ASSUME NEW m \in {"v1", "v2"}, NEW r, OfItsModel(m, r), NEW e \in Entities(m)
  PROVE  ~Raises(e, Transform(m, r))
<1> DEFINE d == Transform(m, r)
<1>1. /\ e \in Numeric => d[e] \in NumberOrNothing
      /\ d["systemTime"] \in {"datetime", None, Absent}
  BY NumericIsClean, ClockIsClean
<1>2. d["curDesign"] \in NumberOrNothing /\ d["minCurrent"] \in NumberOrNothing
  <2>1. d["curDesign"] \in NumberOrNothing
    BY TransformAlike, Validates
  <2>2. CASE m = "v1"
    BY <2>1, <2>2, TransformV1 DEF OfItsModel, OfV2, NumberOrNothing
  <2>3. CASE m = "v2"
    BY <2>1, <2>3, TransformV2, Validates
  <2> QED
    BY <2>2, <2>3
<1>3. NumberOrNothing \cap (NotFinite \cup {"text", "clock"}) = {}
  BY NothingIsNoText DEF NumberOrNothing, Numbers, NotFinite
<1> HIDE DEF d
<1>4. ~Raises(e, d)
  BY <1>1, <1>2, <1>3 DEF Raises
<1> QED
  BY <1>4 DEF d

\* What an entity shows is decided by the fields it is about.
LEMMA ShowsItsFields ==
  ASSUME model \in {"v1", "v2"}, NEW r, NEW q, NEW c, NEW e \in Entities(model),
         \A f \in About(e) : r[f] = q[f]
  PROVE  Value(e, model, Transform(model, r), c) = Value(e, model, Transform(model, q), c)
<1>1. CASE e \in {"sessionTime", "curDesign", "temperature1", "state"}
  BY <1>1, TransformAlike DEF About, Value, Get
<1>2. CASE e \in {"aiStatus", "ai_mode", "aiModecurrent"}
  BY <1>2, TransformAlike DEF About, Value, Get
<1>3. CASE e = "charging"
  BY <1>3, TransformAlike DEF About, Value, Get
<1>4. CASE e \in {"voltMeas1", "curMeas1", "sessionEnergy", "totalEnergy"} /\ model = "v1"
  BY <1>4, TransformV1 DEF About, Value, Get
<1>5. CASE /\ e \in {"voltMeas1", "curMeas1", "sessionEnergy", "totalEnergy", "powerMeas"}
           /\ model = "v2"
  BY <1>5, TransformV2 DEF About, Value, Get
<1>6. CASE e = "powerMeas" /\ model = "v1"
  BY <1>6, TransformV1 DEF About, Value, Get, Power
<1>7. CASE e = "subState" /\ model = "v2"
  BY <1>7, TransformV2 DEF About, Value, Get, SubState
<1>8. CASE e \in {"systemTime", "time_drift"} /\ model = "v1"
  BY <1>8, TransformV1 DEF About, Value, Get
<1>9. CASE e \in {"systemTime", "time_drift"} /\ model = "v2"
  BY <1>9, TransformV2 DEF About, Value, Get, ClockOfV2
<1>10. CASE e = "current_set"
  BY <1>10, TransformAlike, TransformV1, TransformV2 DEF About, Value, Limits
<1> QED
  BY <1>1, <1>2, <1>3, <1>4, <1>5, <1>6, <1>7, <1>8, <1>9, <1>10 DEF Entities, Numeric

\* A number of seconds less than a day off the present one.
LEMMA DayOf ==
  ASSUME NEW x \in Int, -86400 <= x, x < 172800
  PROVE  /\ x % 86400 = IF x < 0 THEN x + 86400 ELSE IF x < 86400 THEN x ELSE x - 86400
         /\ x \div 86400 = IF x < 0 THEN -1 ELSE IF x < 86400 THEN 0 ELSE 1
<1>1. CASE x < 0
  BY <1>1
<1>2. CASE 0 <= x /\ x < 86400
  BY <1>2
<1>3. CASE 86400 <= x
  BY <1>3
<1> QED
  BY <1>1, <1>2, <1>3

\* Folding undoes the day the time of day does not tell: the difference is the
\* offset of the clock less the time the answer took, wherever midnight lies.
LEMMA Folded ==
  ASSUME NEW now \in Int, 0 <= now, now < 86400,
         NEW offset \in Int, -43100 <= offset, offset <= 43100,
         NEW delay \in Int, 0 <= delay, delay <= 12,
         NEW zone \in Int, -14400 <= zone, zone <= 10800,
         NEW d \in Int,
         d = (((now + offset) % 86400) + ((now + delay + zone) \div 86400) * 86400) - (now + delay)
  PROVE  (IF d > 43200 THEN d - 86400 ELSE IF d < -43200 THEN d + 86400 ELSE d)
           = offset - delay
<1> DEFINE x == now + offset
           y == now + delay + zone
<1>1. x \in Int /\ -86400 <= x /\ x < 172800
  OBVIOUS
<1>2. y \in Int /\ -86400 <= y /\ y < 172800
  OBVIOUS
<1>3. x % 86400 = IF x < 0 THEN x + 86400 ELSE IF x < 86400 THEN x ELSE x - 86400
  BY <1>1, DayOf
<1>4. y \div 86400 = IF y < 0 THEN -1 ELSE IF y < 86400 THEN 0 ELSE 1
  BY <1>2, DayOf
<1>5. d = ((x % 86400) + (y \div 86400) * 86400) - (now + delay)
  OBVIOUS
<1>6. (y \div 86400) * 86400 = IF y < 0 THEN -86400 ELSE IF y < 86400 THEN 0 ELSE 86400
  BY <1>4
<1> QED
  BY <1>3, <1>5, <1>6

\* Seen from Home Assistant, the clock is off by its offset, less the delay.
LEMMA DriftUnfolded ==
  ASSUME NEW m \in {"v1", "v2"}, NEW c \in Clocks(m)
  PROVE  Wrap(m, DeviceTime(m, c) - (c.now + c.delay)) = c.offset - c.delay
<1>1. c.now \in Int /\ 0 <= c.now /\ c.now < 86400
  <2>1. c.now \in {0, 5, 43200, 86390, 86399}
    BY DEF Clocks
  <2> QED
    BY <2>1
<1>2. c.delay \in Int /\ 0 <= c.delay /\ c.delay <= 12
  <2>1. c.delay \in {0, 2, 12}
    BY DEF Clocks
  <2> QED
    BY <2>1
<1>3. c.zone \in Int /\ -14400 <= c.zone /\ c.zone <= 10800
  <2>1. c.zone \in {-14400, 0, 10800}
    BY DEF Clocks
  <2> QED
    BY <2>1
<1>4. c.offset \in Int
  BY DEF Clocks
<1>5. CASE m = "v2"
  <2>1. DeviceTime(m, c) = c.now + c.offset
    BY <1>5 DEF DeviceTime
  <2>2. (c.now + c.offset) - (c.now + c.delay) = c.offset - c.delay
    BY <1>1, <1>2, <1>4
  <2> QED
    BY <1>5, <2>1, <2>2 DEF Wrap
<1>6. CASE m = "v1"
  <2>1. -43100 <= c.offset /\ c.offset <= 43100
    <3>1. c.offset \in {0, -20, 20, -30, 30, 35, -3600, 3600, -43100, 43100}
      BY <1>6 DEF Clocks
    <3> QED
      BY <3>1
  <2> DEFINE n == c.now
             o == c.offset
             l == c.delay
             z == c.zone
             d == (((n + o) % 86400) + ((n + l + z) \div 86400) * 86400) - (n + l)
  <2>2. DeviceTime(m, c) = ((n + o) % 86400) + ((n + l + z) \div 86400) * 86400
    BY <1>6 DEF DeviceTime, DaySeconds
  <2>3. DeviceTime(m, c) - (n + l) = d
    BY <2>2
  <2> HIDE DEF n, o, l, z
  <2>4. (IF d > 43200 THEN d - 86400 ELSE IF d < -43200 THEN d + 86400 ELSE d) = o - l
    <3>1. /\ n \in Int /\ 0 <= n /\ n < 86400 /\ l \in Int /\ 0 <= l /\ l <= 12
          /\ z \in Int /\ -14400 <= z /\ z <= 10800 /\ o \in Int /\ -43100 <= o /\ o <= 43100
      BY <1>1, <1>2, <1>3, <1>4, <2>1 DEF n, o, l, z
    <3>2. d \in Int
      BY <3>1
    <3>3. d = (((n + o) % 86400) + ((n + l + z) \div 86400) * 86400) - (n + l)
      OBVIOUS
    <3> HIDE DEF d
    <3> QED
      BY <3>1, <3>2, <3>3, Folded
  <2> HIDE DEF d
  <2>5. 86400 \div 2 = 43200
    OBVIOUS
  <2>6. Wrap(m, d) = IF d > 43200 THEN d - 86400 ELSE IF d < -43200 THEN d + 86400 ELSE d
    BY <1>6, <2>5 DEF Wrap, DaySeconds
  <2> QED
    BY <2>3, <2>4, <2>6 DEF n, o, l
<1> QED
  BY <1>5, <1>6

\* Rounding to tens is off by five at most.
LEMMA RoundedIsNear ==
  ASSUME NEW d \in Int
  PROVE  RoundedToTens(d) \in Int /\ RoundedToTens(d) - d \in -5..5
<1> DEFINE t == d \div 10
           r == d % 10
<1>1. t \in Int /\ r \in 0..9 /\ d = 10 * t + r
  OBVIOUS
<1>2. RoundedToTens(d) = 10 * IF r > 5 \/ (r = 5 /\ t % 2 = 1) THEN t + 1 ELSE t
  BY DEF RoundedToTens
<1> HIDE DEF t, r
<1> QED
  BY <1>1, <1>2

\* What time_drift comes to.
LEMMA DriftNear ==
  ASSUME NEW m \in {"v1", "v2"}, NEW c \in Clocks(m)
  PROVE  IF c.offset - c.delay \in -29..29 THEN Drift(m, c) = 0
         ELSE Drift(m, c) - c.offset \in -(c.delay + 5)..5
<1> DEFINE d == c.offset - c.delay
<1>1. c.offset \in Int /\ c.delay \in Nat /\ d \in Int
  BY DEF Clocks
<1>2. Drift(m, c) = IF d \in -29..29 THEN 0 ELSE RoundedToTens(d)
  BY DriftUnfolded DEF Drift
<1>3. RoundedToTens(d) \in Int /\ RoundedToTens(d) - d \in -5..5
  BY <1>1, RoundedIsNear
<1>4. RoundedToTens(d) - c.offset \in -(c.delay + 5)..5
  BY <1>1, <1>3
<1> QED
  BY <1>2, <1>4

-----------------------------------------------------------------------------
\* What an entity shows is what it makes of the latest answer it heard of; only a
\* failed poll and a number sent as text keep one from hearing.
FramesInv ==
  /\ FramesTypeOK
  /\ OfItsModel(model, raw)
  /\ usual = Showing(model, Usual(model), InSync)
  /\ \A e \in heard \cap Entities(model) : shown[e] = Showing(model, raw, clock)[e]
  /\ raw["temperature1"] # "bigint" /\ ~NumberAsText => heard = Listeners(model)

\* An answer that is as usual is one of its model, and can be read.
LEMMA UsualAnswer ==
  ASSUME NEW m \in {"v1", "v2"}
  PROVE  /\ DOMAIN Usual(m) = Fields /\ \A f \in Fields : Usual(m)[f] \in Values
         /\ OfItsModel(m, Usual(m))
         /\ Usual(m)["temperature1"] # "bigint"
         /\ InSync \in Clocks(m)
<1>1. OfV2 \subseteq Fields
  BY DEF OfV2, Fields
<1>2. OfItsModel(m, Usual(m))
  BY <1>1 DEF OfItsModel, Usual
<1>3. InSync \in Clocks(m)
  BY DEF InSync, Clocks
<1>4. "temperature1" \in Fields /\ "temperature1" \notin OfV2
  BY DEF Fields, OfV2
<1>5. Usual(m)["temperature1"] = "number"
  BY <1>4 DEF Usual
<1>6. DOMAIN Usual(m) = Fields /\ \A f \in Fields : Usual(m)[f] \in Values
  BY DEF Usual, Values, Garbage, Numbers
<1> QED
  BY <1>2, <1>3, <1>5, <1>6

\* What a daily sensor may count from.
References == {None, "number", "numeral"}

\* What it reads, and what it counts from next, are of that kind.
LEMMA DailyTypes ==
  ASSUME NEW e \in Daily, NEW d, NEW was \in References, NEW turned
  PROVE  /\ DailyReading(e, d) \in References
         /\ DailyKept(e, d, was, turned) \in References
<1>1. DailyReading(e, d) \in References
  BY DEF DailyReading, References
<1> QED
  BY <1>1 DEF DailyKept

\* A daily sensor reads text only where the station sent it.
LEMMA TextWasSent ==
  ASSUME NEW m \in {"v1", "v2"}, NEW r, NEW e \in Daily,
         DailyReading(e, Transform(m, r)) = "numeral"
  PROVE  r["sessionTime"] = "numeral" \/ (m = "v2" /\ r["totalEnergy"] = "numeral")
<1> DEFINE d == Transform(m, r)
<1>0. None # "numeral" /\ Absent # "numeral"
  BY NothingIsNoNumeral
<1>1. \A v : Validated(v) = "numeral" => v = "numeral"
  BY <1>0 DEF Validated
<1>2. \A v : SetOrDrop(v) # "numeral"
  BY <1>0 DEF SetOrDrop
<1>4. d["sessionTime"] = Validated(r["sessionTime"])
  BY TransformAlike
<1>5. /\ m = "v1" => d["totalEnergy"] = SetOrDrop(r["totalEnergy"])
      /\ m = "v2" => d["totalEnergy"] = Validated(r["totalEnergy"])
  BY TransformV1, TransformV2
<1>6. DailyReading(e, d) = "numeral"
  OBVIOUS
<1> HIDE DEF d
<1>3. \A f : Get(d, f) = "numeral" => d[f] = "numeral"
  BY <1>0 DEF Get
<1>7. d[IF e = "energy_daily" THEN "totalEnergy" ELSE "sessionTime"] = "numeral"
  <2>1. Get(d, IF e = "energy_daily" THEN "totalEnergy" ELSE "sessionTime") = "numeral"
    BY <1>6 DEF DailyReading
  <2> QED
    BY <1>3, <2>1
<1> QED
  BY <1>1, <1>2, <1>4, <1>5, <1>7

\* One pass over the listeners keeps the types.
LEMMA HeededTypes ==
  ASSUME NEW d, NEW loud, NEW turned \in SUBSET Daily, NEW was \in [Daily -> References],
         Heeded(d, loud, was, turned)
  PROVE  heard' \subseteq Listeners(model) /\ kept' \in [Daily -> References]
<1> DEFINE keeping(reached) ==
      [e \in Daily |-> IF e \in reached THEN DailyKept(e, d, was[e], e \in turned) ELSE was[e]]
<1>1. \A reached : keeping(reached) \in [Daily -> References]
  <2>1. ASSUME NEW e \in Daily PROVE DailyKept(e, d, was[e], e \in turned) \in References
    <3>1. was[e] \in References
      OBVIOUS
    <3> QED
      BY <3>1, DailyTypes
  <2> QED
    BY <2>1
<1>2. heard' \subseteq Listeners(model)
  BY DEF Heeded
<1>3. \E reached : kept' = keeping(reached)
  BY DEF Heeded
<1> QED
  BY <1>1, <1>2, <1>3

\* A daily sensor that raises has been sent text, or keeps what it was sent earlier.
LEMMA RaisingIsText ==
  ASSUME model \in {"v1", "v2"}, NEW r, NEW turned \in SUBSET Daily,
         NEW was \in [Daily -> References], raw' = r, model' = model,
         Heeded(Transform(model, r), {}, was, turned), heard' # Listeners(model)
  PROVE  NumberAsText'
<1> DEFINE d == Transform(model, r)
<1>1. PICK e \in Daily :
        /\ DailyRaises(e, d, was[e], e \in turned)
        /\ \E reached : e \in reached
             /\ kept' = [k \in Daily |-> IF k \in reached THEN DailyKept(k, d, was[k], k \in turned)
                                        ELSE was[k]]
  <2> HIDE DEF d
  <2>1. Heeded(d, {}, was, turned)
    BY DEF d
  <2> QED
    BY <2>1 DEF Heeded
<1>2. kept'[e] = DailyKept(e, d, was[e], e \in turned)
  BY <1>1
<1>3. CASE DailyReading(e, d) = "numeral"
  <2>1. r["sessionTime"] = "numeral" \/ (model = "v2" /\ r["totalEnergy"] = "numeral")
    BY <1>3, TextWasSent
  <2> QED
    BY <2>1 DEF NumberAsText
<1>4. CASE DailyReading(e, d) # "numeral"
  <2>1. was[e] = "numeral" /\ e \notin turned
    BY <1>1, <1>4 DEF DailyRaises
  <2>2. kept'[e] = "numeral"
    <3>1. None # "numeral"
      BY NothingIsNoNumeral
    <3> HIDE DEF d
    <3> QED
      BY <1>2, <2>1, <3>1 DEF DailyKept
  <2> QED
    BY <2>2 DEF NumberAsText
<1> QED
  BY <1>3, <1>4

\* A poll that is answered.
LEMMA FramePolledKeeps ==
  ASSUME FramesInv, NEW r, NEW c \in Clocks(model), FramePolled(r, c),
         DOMAIN r = Fields, \A f \in Fields : r[f] \in Values, OfItsModel(model, r)
  PROVE  FramesInv'
<1>1. /\ raw' = r /\ clock' = c /\ model' = model /\ usual' = usual
      /\ lastOk' = ~BlankRaises(r["temperature1"])
  BY DEF FramePolled
<1>2. model \in {"v1", "v2"} /\ usual = Showing(model, Usual(model), InSync)
      /\ DOMAIN usual = Entities(model) /\ kept \in [Daily -> References]
  BY DEF FramesInv, FramesTypeOK, References
<1>3. {e \in Entities(model) : Raises(e, Transform(model, r))} = {}
  BY <1>2, NoneRaises
<1>4. PICK turned \in SUBSET Daily, was \in [Daily -> References] :
        IF lastOk' THEN Heeded(Transform(model, r), {}, was, turned)
        ELSE FailureHeeded(Transform(model, raw), was, turned)
  <2>1. NothingKept \in [Daily -> References]
    BY DEF NothingKept, References
  <2>2. CASE lastOk'
    BY <1>2, <1>3, <2>1, <2>2 DEF FramePolled
  <2>3. CASE ~lastOk'
    BY <1>2, <2>1, <2>3 DEF FramePolled
  <2> QED
    BY <2>2, <2>3
<1>5. shown' = [e \in Entities(model) |->
                  IF e \in heard' THEN Showing(model, r, c)[e] ELSE shown[e]]
  BY DEF FramePolled
<1>6. lastOk' \in BOOLEAN
  BY <1>1
<1>7. heard' \subseteq Listeners(model) /\ kept' \in [Daily -> References]
  <2>1. CASE lastOk'
    BY <1>4, <2>1, HeededTypes
  <2>2. CASE ~lastOk'
    <3> DEFINE d == Transform(model, raw)
    <3>1. heard' = {} /\ kept' = [was EXCEPT !["energy_daily"] =
            DailyKept("energy_daily", d, was["energy_daily"], "energy_daily" \in turned)]
      BY <1>4, <2>2 DEF FailureHeeded
    <3> HIDE DEF d
    <3>2. "energy_daily" \in Daily
      BY DEF Daily
    <3>3. was["energy_daily"] \in References
      BY <3>2
    <3>4. DailyKept("energy_daily", d, was["energy_daily"], "energy_daily" \in turned) \in References
      BY <3>2, <3>3, DailyTypes
    <3> QED
      BY <3>1, <3>4
  <2> QED
    BY <2>1, <2>2
<1>8. FramesTypeOK'
  BY <1>1, <1>2, <1>5, <1>6, <1>7 DEF FramesTypeOK, References
<1>9. ASSUME r["temperature1"] # "bigint", ~NumberAsText'
      PROVE  heard' = Listeners(model)
  <2>1. lastOk'
    BY <1>1, <1>9 DEF BlankRaises
  <2>2. Heeded(Transform(model, r), {}, was, turned)
    BY <1>4, <2>1
  <2> QED
    BY <1>1, <1>2, <1>9, <2>2, RaisingIsText
<1>10. \A e \in heard' \cap Entities(model) : shown'[e] = Showing(model, r, c)[e]
  BY <1>5
<1> QED
  BY <1>1, <1>2, <1>8, <1>9, <1>10 DEF FramesInv

\* A station that is as usual, and one whose clock is off or whose answer is damaged.
LEMMA FramesNextKeeps ==
  ASSUME FramesInv, [FramesNext]_frameVars
  PROVE  FramesInv'
<1>1. /\ model \in {"v1", "v2"} /\ DOMAIN raw = Fields
      /\ \A f \in Fields : raw[f] \in Values
      /\ OfItsModel(model, raw)
  BY DEF FramesInv, FramesTypeOK
<1>2. CASE ClockOff
  <2>1. PICK c \in Clocks(model) : FramePolled(raw, c)
    BY <1>2 DEF ClockOff
  <2> QED
    BY <1>1, <2>1, FramePolledKeeps
<1>3. CASE Damaged
  <2>0. PICK D \in SUBSET Sent(model) :
          raw = Usual(model)
          /\ \E b \in [D -> Values] : FramePolled(Replacing(raw, b), InSync)
    BY <1>3 DEF Damaged, UnderUsual
  <2>1. PICK b \in [D -> Values] :
          raw = Usual(model) /\ FramePolled(Replacing(raw, b), InSync)
    BY <2>0
  <2> DEFINE r == Replacing(raw, b)
  <2>2. D \cap {f \in Fields : raw[f] = Absent} = {} /\ D \subseteq Fields
    BY <2>1 DEF Sent
  <2>3. DOMAIN r = Fields /\ \A f \in Fields : r[f] \in Values
    BY <1>1, <2>2 DEF Replacing
  <2>4. OfItsModel(model, r)
    <3>1. OfV2 \subseteq Fields
      BY DEF OfV2, Fields
    <3> QED
      BY <1>1, <2>2, <3>1 DEF OfItsModel, Replacing
  <2> HIDE DEF r
  <2>5. FramePolled(r, InSync)
    BY <2>1 DEF r
  <2> QED
    BY <1>1, <2>3, <2>4, <2>5, UsualAnswer, FramePolledKeeps
<1>4. CASE UsualAgain
  BY <1>1, <1>4, UsualAnswer, FramePolledKeeps DEF UsualAgain
<1>5. CASE UNCHANGED frameVars
  BY <1>5 DEF frameVars, FramesInv, FramesTypeOK, NumberAsText
<1> QED
  BY <1>2, <1>3, <1>4, <1>5 DEF FramesNext

\* The entities after the first answer.
LEMMA FramesNewKeeps ==
  ASSUME FramesNew, lastOk \in BOOLEAN
  PROVE  FramesInv
<1>1. /\ model \in {"v1", "v2"} /\ raw = Usual(model) /\ clock = InSync
      /\ heard = Listeners(model) /\ shown = Showing(model, raw, clock) /\ usual = shown
      /\ kept = [e \in Daily |-> "number"]
  BY DEF FramesNew
<1>2. DOMAIN shown = Entities(model)
  BY <1>1 DEF Showing
<1>3. FramesTypeOK
  BY <1>1, <1>2, UsualAnswer DEF FramesTypeOK
<1> QED
  BY <1>1, <1>3, UsualAnswer DEF FramesInv

\* The inductive invariant of the frames.
THEOREM FramesInvariance == FramesSpec => []FramesInv
<1>1. FramesInit => FramesInv
  BY FramesNewKeeps DEF FramesInit
<1>2. FramesInv /\ [FramesNext]_frameVars => FramesInv'
  BY FramesNextKeeps
<1> QED
  BY <1>1, <1>2, PTL DEF FramesSpec

\* Entities about other fields are not touched by what happened to these.
LEMMA FramesContain ==
  ASSUME FramesInv
  PROVE  DamageIsContained
<1> SUFFICES ASSUME raw["temperature1"] # "bigint", ~NumberAsText, clock = InSync
             PROVE  /\ heard = Listeners(model)
                    /\ \A e \in Entities(model) :
                         (\A f \in About(e) : raw[f] = Usual(model)[f]) => shown[e] = usual[e]
  BY DEF DamageIsContained
<1>1. /\ heard = Listeners(model) /\ Entities(model) \subseteq heard
      /\ \A e \in Entities(model) : shown[e] = Showing(model, raw, InSync)[e]
      /\ usual = Showing(model, Usual(model), InSync) /\ model \in {"v1", "v2"}
  BY DEF FramesInv, FramesTypeOK, Listeners
<1>2. ASSUME NEW e \in Entities(model), \A f \in About(e) : raw[f] = Usual(model)[f]
      PROVE  shown[e] = usual[e]
  <2>1. Value(e, model, Transform(model, raw), InSync)
          = Value(e, model, Transform(model, Usual(model)), InSync)
    BY <1>1, <1>2, ShowsItsFields
  <2> QED
    BY <1>1, <2>1 DEF Showing
<1> QED
  BY <1>1, <1>2

\* However many fields of an answer are damaged, and with whatever values: every
\* listener hears of the poll, the daily sensors among them, and the entities about
\* other fields show what they usually do -- unless a number a daily sensor computes
\* with was sent as text, or a temperature no float can hold failed the poll.
THEOREM OneBadFieldIsContained == FramesSpec => []DamageIsContained
<1>1. FramesInv => DamageIsContained
  BY FramesContain
<1> QED
  BY <1>1, FramesInvariance, PTL

\* The drift of an answer that is otherwise as usual is computed from its clock.
LEMMA FramesDrift ==
  ASSUME FramesInv
  PROVE  DriftIsOffset
<1> SUFFICES ASSUME raw = Usual(model), "time_drift" \in heard
             PROVE  IF clock.offset - clock.delay \in -29..29 THEN shown["time_drift"] = 0
                    ELSE shown["time_drift"] - clock.offset \in -(clock.delay + 5)..5
  BY DEF DriftIsOffset
<1>1. model \in {"v1", "v2"} /\ clock \in Clocks(model)
  BY DEF FramesInv, FramesTypeOK
<1>2. "time_drift" \in Entities(model)
         => shown["time_drift"] = Showing(model, Usual(model), clock)["time_drift"]
  BY <1>1 DEF FramesInv
<1>3. {None, Absent} \cap {"clock", "number", "zero", "datetime"} = {}
  BY NothingIsNoText
<1>4. Transform(model, Usual(model))["systemTime"] = "datetime"
  <2>1. CASE model = "v1"
    <3>1. Usual("v1")["systemTime"] = "clock"
      BY DEF Usual, Fields, OfV2
    <3> QED
      BY <1>3, <2>1, <3>1, TransformV1 DEF ClockOfV1
  <2>2. CASE model = "v2"
    <3>1. /\ Usual("v2")["systemTime"] = "number" /\ Usual("v2")["timeZone"] = "number"
          /\ Usual("v2")["timeMsg"] = "zero"
      BY DEF Usual, Fields
    <3> QED
      BY <1>3, <2>2, <3>1, TransformV2 DEF ClockOfV2, AsEnumInt, Numbers
  <2> QED
    BY <1>1, <2>1, <2>2
<1>5. "time_drift" \in Entities(model)
  BY DEF Entities
<1>6. Value("time_drift", model, Transform(model, Usual(model)), clock) = Drift(model, clock)
  BY <1>4, <1>3 DEF Value, Get
<1>7. shown["time_drift"] = Drift(model, clock)
  BY <1>2, <1>5, <1>6 DEF Showing
<1> QED
  BY <1>1, <1>7, DriftNear

\* For every clock of a station that is considered: time_drift is how far it is off,
\* to ten seconds and the time the answer took, and zero only where that is small.
THEOREM DriftIsTheOffset == FramesSpec => []DriftIsOffset
<1>1. FramesInv => DriftIsOffset
  BY FramesDrift
<1> QED
  BY <1>1, FramesInvariance, PTL

-----------------------------------------------------------------------------
(* The parts side by side.  They share lastOk: a poll of one decides what    *)
(* the others find there, and none of the promises above is lost by it.      *)

\* The types of the switch do not depend on how far the station lags.
LEMMA SwitchTypeKeeps ==
  ASSUME SwitchTypeOK, [SwitchNext]_switchVars
  PROVE  SwitchTypeOK'
<1>1. CASE Touch
  BY <1>1, SwitchAssumption DEF Touch, SwitchTypeOK
<1>2. ASSUME NEW b \in BOOLEAN, Write(b)
      PROVE  SwitchTypeOK'
  BY <1>2, SwitchAssumption DEF Write, SwitchTypeOK
<1>3. CASE WriteReturns
  BY <1>3 DEF WriteReturns, contactor, SwitchTypeOK, OptimisticMaxPolls
<1>4. CASE WriteFails
  BY <1>4 DEF WriteFails, contactor, held, SwitchTypeOK
<1>5. CASE PollAnswered
  <2>1. reading' \in BOOLEAN \cup {None, Absent} /\ Notified(reading')
    BY <1>5 DEF PollAnswered, SwitchTypeOK
  <2>2. /\ optimistic' \in {optimistic, None} /\ polls' \in 0..OptimisticMaxPolls
        /\ optimistic' # None => polls' < OptimisticMaxPolls
    BY <2>1, NotifiedType
  <2>3. lagging' \in 0..Lag
    BY <1>5, SwitchAssumption DEF PollAnswered, SwitchTypeOK
  <2> QED
    BY <1>5, <2>1, <2>2, <2>3 DEF PollAnswered, SwitchTypeOK
<1>6. CASE PollFails
  <2>1. CASE lastOk
    <3>1. /\ optimistic' \in {optimistic, None} /\ polls' \in 0..OptimisticMaxPolls
          /\ optimistic' # None => polls' < OptimisticMaxPolls
      BY <1>6, <2>1, NotifiedType DEF PollFails, SwitchTypeOK
    <3> QED
      BY <1>6, <3>1 DEF PollFails, contactor, SwitchTypeOK
  <2>2. CASE ~lastOk
    BY <1>6, <2>2 DEF PollFails, contactor, held, SwitchTypeOK
  <2> QED
    BY <2>1, <2>2
<1>7. CASE UNCHANGED switchVars
  BY <1>7 DEF switchVars, SwitchTypeOK
<1> QED
  BY <1>1, <1>2, <1>3, <1>4, <1>5, <1>6, <1>7 DEF SwitchNext

\* Every part keeps its own invariant while it moves, and stands in an initial
\* state while another one does.
PartsInv ==
  /\ subject \in {"ground", "switch", "buckets", "frames", "flows"}
  /\ lastOk \in BOOLEAN
  /\ IF subject = "ground" THEN GroundInv ELSE GroundNew
  /\ IF subject = "switch" THEN SwitchTypeOK /\ (Lag < OptimisticMaxPolls => Held)
                           ELSE SwitchNew
  /\ IF subject = "buckets" THEN BucketsInv /\ NoticeInv ELSE BucketsNew
  /\ IF subject = "frames" THEN FramesInv ELSE FramesNew
  /\ FlowsInv

\* A part that has not moved keeps its promises, whatever lastOk says.
LEMMA GroundStands ==
  ASSUME GroundNew, lastOk \in BOOLEAN
  PROVE  GroundTypeOK /\ NoFalseAlarm /\ NoMissedAlarm /\ SafeIsObserved
<1>1. GroundTypeOK
  BY DEF GroundNew, GroundTypeOK, DebounceThreshold
<1>2. NoFalseAlarm /\ SafeIsObserved
  BY GroundAssumption, Zenon DEF GroundNew, NoFalseAlarm, SafeIsObserved
<1>3. NoMissedAlarm
  BY DEF GroundNew, NoMissedAlarm
<1> QED
  BY <1>1, <1>2, <1>3

\* ... and the energy sensor before the first start.
LEMMA BucketsStand ==
  ASSUME BucketsNew
  PROVE  BucketsTypeOK /\ NotBookedTwice /\ BoundaryNoticed
<1>1. stored \in Payloads /\ opened \in Seq(Nat)
  BY DEF BucketsNew, Payloads
<1>2. booting \in BOOLEAN /\ up \in BOOLEAN /\ {late, torn, doubt, missed} \subseteq BOOLEAN
  BY DEF BucketsNew
<1>3. BucketsTypeOK
  BY <1>1, <1>2 DEF BucketsNew, BucketsTypeOK
<1>4. NotBookedTwice /\ BoundaryNoticed
  BY DEF BucketsNew, NotBookedTwice, BoundaryNoticed
<1> QED
  BY <1>3, <1>4

\* Nothing has happened to any part at first.
LEMMA PartsInitInv == PartsInit => PartsInv
<1> SUFFICES ASSUME PartsInit PROVE PartsInv
  OBVIOUS
<1>1. /\ subject \in {"ground", "switch", "buckets", "frames", "flows"}
      /\ GroundNew /\ SwitchNew /\ BucketsNew /\ FramesNew /\ FlowsInit
      /\ lastOk = IF subject = "switch" THEN reading # None ELSE subject # "buckets"
  BY DEF PartsInit
<1>2. lastOk \in BOOLEAN
  BY <1>1
<1>3. subject = "ground" => GroundInv
  BY <1>1, NothingHeard DEF GroundNew
<1>4. SwitchTypeOK /\ Held
  BY <1>1, <1>2, SwitchNewKeeps DEF SwitchInv
<1>5. subject = "buckets" => BucketsInv /\ NoticeInv
  BY <1>1, BucketsInvInit, NoticeInit DEF BucketsInit
<1>6. FramesInv
  BY <1>1, <1>2, FramesNewKeeps
<1>7. FlowsInv
  BY <1>1, FlowsInvInit
<1> QED
  BY <1>1, <1>2, <1>3, <1>4, <1>5, <1>6, <1>7 DEF PartsInv

\* The parts that stand still, but for lastOk.
LEMMA GroundNewStays ==
  ASSUME GroundNew, UNCHANGED groundOwn
  PROVE  GroundNew'
BY DEF GroundNew, groundOwn

\* ... likewise.
LEMMA SwitchNewStays ==
  ASSUME SwitchNew, UNCHANGED switchOwn
  PROVE  SwitchNew'
BY DEF SwitchNew, switchOwn

\* ... likewise.
LEMMA BucketsNewStays ==
  ASSUME BucketsNew, UNCHANGED bucketOwn
  PROVE  BucketsNew'
BY DEF BucketsNew, bucketOwn

\* ... likewise.
LEMMA FramesNewStays ==
  ASSUME FramesNew, UNCHANGED frameOwn
  PROVE  FramesNew'
BY DEF FramesNew, frameOwn

\* The entries do not even share lastOk.
LEMMA FlowsStay ==
  ASSUME FlowsInv, UNCHANGED flowVars
  PROVE  FlowsInv'
BY FlowsInvNext

\* One part moves.
LEMMA PartsNextInv == PartsInv /\ [PartsNext]_partsVars => PartsInv'
<1> SUFFICES ASSUME PartsInv, [PartsNext]_partsVars
             PROVE  PartsInv'
  OBVIOUS
<1>1. CASE GroundMoves
  <2>1. GroundInv /\ SwitchNew /\ BucketsNew /\ FramesNew /\ FlowsInv
    BY <1>1 DEF PartsInv, GroundMoves
  <2>2. GroundInv'
    BY <1>1, <2>1, GroundNextKeeps DEF GroundMoves
  <2>3. SwitchNew' /\ BucketsNew' /\ FramesNew' /\ FlowsInv'
    BY <1>1, <2>1, SwitchNewStays, BucketsNewStays, FramesNewStays, FlowsStay DEF GroundMoves
  <2>4. subject' = "ground" /\ lastOk' \in BOOLEAN
    BY <1>1, <2>2 DEF GroundMoves, GroundInv, GroundTypeOK
  <2> QED
    BY <2>2, <2>3, <2>4 DEF PartsInv
<1>2. CASE SwitchMoves
  <2>1. /\ GroundNew /\ BucketsNew /\ FramesNew /\ FlowsInv
        /\ SwitchTypeOK /\ (Lag < OptimisticMaxPolls => Held)
    BY <1>2 DEF PartsInv, SwitchMoves
  <2>2. SwitchTypeOK'
    BY <1>2, <2>1, SwitchTypeKeeps DEF SwitchMoves
  <2>3. Lag < OptimisticMaxPolls => Held'
    BY <1>2, <2>1, SwitchNextKeeps DEF SwitchMoves, SwitchInv
  <2>4. GroundNew' /\ BucketsNew' /\ FramesNew' /\ FlowsInv'
    BY <1>2, <2>1, GroundNewStays, BucketsNewStays, FramesNewStays, FlowsStay DEF SwitchMoves
  <2>5. subject' = "switch" /\ lastOk' \in BOOLEAN
    BY <1>2, <2>2 DEF SwitchMoves, SwitchTypeOK
  <2>6. (Lag < OptimisticMaxPolls => Held)'
    BY <2>3 DEF OptimisticMaxPolls
  <2> QED
    BY <2>2, <2>4, <2>5, <2>6 DEF PartsInv
<1>3. CASE BucketsMove
  <2>1. BucketsInv /\ NoticeInv /\ GroundNew /\ SwitchNew /\ FramesNew /\ FlowsInv
    BY <1>3 DEF PartsInv, BucketsMove
  <2>2. BucketsInv' /\ NoticeInv'
    BY <1>3, <2>1, BucketsInvNext, NoticeNext DEF BucketsMove
  <2>3. GroundNew' /\ SwitchNew' /\ FramesNew' /\ FlowsInv'
    BY <1>3, <2>1, GroundNewStays, SwitchNewStays, FramesNewStays, FlowsStay DEF BucketsMove
  <2>4. subject' = "buckets" /\ lastOk' \in BOOLEAN
    BY <1>3, <2>2 DEF BucketsMove, BucketsInv, Shape
  <2> QED
    BY <2>2, <2>3, <2>4 DEF PartsInv
<1>4. CASE FramesMove
  <2>1. FramesInv /\ GroundNew /\ SwitchNew /\ BucketsNew /\ FlowsInv
    BY <1>4 DEF PartsInv, FramesMove
  <2>2. FramesInv'
    BY <1>4, <2>1, FramesNextKeeps DEF FramesMove
  <2>3. GroundNew' /\ SwitchNew' /\ BucketsNew' /\ FlowsInv'
    BY <1>4, <2>1, GroundNewStays, SwitchNewStays, BucketsNewStays, FlowsStay DEF FramesMove
  <2>4. subject' = "frames" /\ lastOk' \in BOOLEAN
    BY <1>4, <2>2 DEF FramesMove, FramesInv, FramesTypeOK
  <2> QED
    BY <2>2, <2>3, <2>4 DEF PartsInv
<1>5. CASE FlowsMove
  <2>1. GroundNew /\ SwitchNew /\ BucketsNew /\ FramesNew /\ FlowsInv /\ lastOk \in BOOLEAN
    BY <1>5 DEF PartsInv, FlowsMove
  <2>2. FlowsInv'
    BY <1>5, <2>1, FlowsInvNext DEF FlowsMove
  <2>3. GroundNew' /\ SwitchNew' /\ BucketsNew' /\ FramesNew'
    BY <1>5, <2>1, GroundNewStays, SwitchNewStays, BucketsNewStays, FramesNewStays DEF FlowsMove
  <2>4. subject' = "flows" /\ lastOk' \in BOOLEAN
    BY <1>5, <2>1 DEF FlowsMove
  <2> QED
    BY <2>2, <2>3, <2>4 DEF PartsInv
<1>6. CASE UNCHANGED partsVars
  <2>1. /\ UNCHANGED <<subject, lastOk>> /\ UNCHANGED groundVars /\ UNCHANGED switchVars
        /\ UNCHANGED bucketVars /\ UNCHANGED frameVars /\ UNCHANGED flowVars
        /\ UNCHANGED groundOwn /\ UNCHANGED switchOwn /\ UNCHANGED bucketOwn
        /\ UNCHANGED frameOwn
    BY <1>6 DEF partsVars, groundVars, switchVars, bucketVars, frameVars, flowVars, groundOwn,
                switchOwn, bucketOwn, frameOwn, meter, measured, recorder, witness
  <2>2. IF subject = "ground" THEN GroundInv' ELSE GroundNew'
    BY <2>1, GroundNextKeeps, GroundNewStays DEF PartsInv
  <2>3. IF subject = "switch" THEN SwitchTypeOK' /\ (Lag < OptimisticMaxPolls => Held')
                              ELSE SwitchNew'
    BY <2>1, SwitchTypeKeeps, SwitchNextKeeps, SwitchNewStays DEF PartsInv, SwitchInv
  <2>4. IF subject = "buckets" THEN BucketsInv' /\ NoticeInv' ELSE BucketsNew'
    BY <2>1, BucketsInvNext, NoticeNext, BucketsNewStays DEF PartsInv
  <2>5. IF subject = "frames" THEN FramesInv' ELSE FramesNew'
    BY <2>1, FramesNextKeeps, FramesNewStays DEF PartsInv
  <2>6. FlowsInv'
    BY <2>1, FlowsStay DEF PartsInv
  <2>7. subject' = subject /\ lastOk' = lastOk /\ OptimisticMaxPolls' = OptimisticMaxPolls
    BY <2>1 DEF OptimisticMaxPolls
  <2> QED
    BY <2>2, <2>3, <2>4, <2>5, <2>6, <2>7 DEF PartsInv
<1> QED
  BY <1>1, <1>2, <1>3, <1>4, <1>5, <1>6 DEF PartsNext

\* The inductive invariant of the parts.
THEOREM PartsInvariance == PartsSpec => []PartsInv
<1> QED
  BY PartsInitInv, PartsNextInv, PTL DEF PartsSpec

\* The variables of all parts keep their types, whichever of them moves.
THEOREM PartsTypes == PartsSpec => []PartsTypeOK
<1>1. PartsInv => PartsTypeOK
  <2> SUFFICES ASSUME PartsInv PROVE PartsTypeOK
    OBVIOUS
  <2>1. GroundTypeOK
    BY GroundStands DEF PartsInv, GroundInv
  <2>2. SwitchTypeOK
    BY SwitchNewKeeps DEF PartsInv, SwitchInv
  <2>3. BucketsTypeOK
    BY BucketsStand DEF PartsInv, BucketsInv, Shape
  <2>4. FramesTypeOK
    BY FramesNewKeeps DEF PartsInv, FramesInv
  <2>5. FlowsTypeOK
    BY DEF PartsInv, FlowsInv
  <2> QED
    BY <2>1, <2>2, <2>3, <2>4, <2>5 DEF PartsInv, PartsTypeOK
<1> QED
  BY <1>1, PartsInvariance, PTL

\* What each part promises it promises beside the others too: none of them relies
\* on a lastOk that only its own polls would set.
THEOREM PartsKeepTheirPromises ==
  PartsSpec => [](/\ NoFalseAlarm /\ NoMissedAlarm /\ SafeIsObserved
                  /\ Lag < OptimisticMaxPolls => NoSpringBack
                  /\ NotBookedTwice /\ BoundaryNoticed
                  /\ DamageIsContained /\ DriftIsOffset
                  /\ EntriesDistinct /\ RunsWhatWasTested /\ ServicesFollowEntries)
<1> DEFINE Promises == /\ NoFalseAlarm /\ NoMissedAlarm /\ SafeIsObserved
                       /\ Lag < OptimisticMaxPolls => NoSpringBack
                       /\ NotBookedTwice /\ BoundaryNoticed
                       /\ DamageIsContained /\ DriftIsOffset
                       /\ EntriesDistinct /\ RunsWhatWasTested /\ ServicesFollowEntries
<1>1. PartsInv => Promises
  <2> SUFFICES ASSUME PartsInv PROVE Promises
    OBVIOUS
  <2>1. NoFalseAlarm /\ NoMissedAlarm /\ SafeIsObserved
    BY GroundStands, LostIsAlarmed DEF PartsInv, GroundInv
  <2>2. Lag < OptimisticMaxPolls => NoSpringBack
    BY SwitchNewKeeps, PromisesHold DEF PartsInv, SwitchInv
  <2>3. NotBookedTwice /\ BoundaryNoticed
    BY BucketsStand, BooksBalance DEF PartsInv, NoticeInv
  <2>4. DamageIsContained /\ DriftIsOffset
    BY FramesNewKeeps, FramesContain, FramesDrift DEF PartsInv
  <2>5. EntriesDistinct /\ RunsWhatWasTested /\ ServicesFollowEntries
    BY DEF PartsInv, FlowsInv, DataInv, RunsWhatWasTested, SetupReadsStored, StoredWasTested
  <2> QED
    BY <2>1, <2>2, <2>3, <2>4, <2>5
<1> HIDE DEF Promises
<1>2. PartsSpec => []Promises
  BY <1>1, PartsInvariance, PTL
<1> QED
  BY <1>2 DEF Promises
=============================================================================
