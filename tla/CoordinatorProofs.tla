-------------------------- MODULE CoordinatorProofs --------------------------
(* What the coordinator promises with both guards, the tracker and the      *)
(* schedule at work together, for any intervals, latency and boot window.   *)
EXTENDS Coordinator, TLAPS

\* The types, and what they lack: when a frame is in hand, what the guards made of
\* it, and that the version is asked for at most three times.
TypeInv ==
  /\ TypeOK
  /\ phase = "loading" =>
       /\ frame \in [state : SE!States, energy : SE!Figures, time : Nat]
       /\ cShown[Counter] \in 0..FullTotal \cup {Held}
       /\ sShown \in 0..MinCurrent \cup {Held}
       /\ lastSuccess # None
  /\ phase # "loading" => frame = None
  /\ lastSuccess # None => lastSuccess <= clock
  /\ ~loaded => attempts < 3
  /\ total \in {FullTotal - 1, FullTotal}

\* The device page, from its registration on.
DeviceInv ==
  /\ phase \in {"first", "forward"} => ~registered
  /\ phase = "idle" => registered
  /\ ~registered => ~written
  /\ written => page
  /\ DevicePageCurrent

\* The state a transition starts from was observed no more than Stale ago.
TransitionInv ==
  /\ prevState # None => lastSuccess # None
  /\ phase = "loading" /\ prevState # None => gap # None /\ gap <= Stale
  /\ phase # "loading" /\ fired \in {<<"charging_started">>, <<"session_ended">>}
       => gap # None /\ gap <= Stale

\* The schedule leaves a counter in doubt the interval it has to wait, but for Early;
\* what the second poll lacks the third one has.
ScheduleInv ==
  /\ phase = "first" => lastSuccess = None
  /\ phase = "idle" /\ lastSuccess # None => lastSuccess + interval <= due + Early
  /\ cSince[Counter] # None => lastSuccess # None /\ cSince[Counter] <= lastSuccess
  /\ cShown[Counter] = Held => cStreak[Counter] >= 1 /\ cSince[Counter] # None
  /\ waited >= 1 => cShown[Counter] = Held
  /\ waited >= 2 => cSince[Counter] + Early <= lastSuccess
  /\ LossConfirmsByThirdPoll

\* The boot in which a run of odd frames began: as long as it lasts, the first of
\* them came after it; one that was passed on was corroborated in another boot.
ZeroInv ==
  /\ bootAt <= clock
  /\ zeroBoot # None => zeroBoot <= boots
  /\ lowBoot # None => lowBoot <= boots
  /\ sSince # None => zeroBoot # None /\ (zeroBoot = boots => bootAt <= sSince)
  /\ cSince[Counter] # None =>
       lowBoot # None /\ (lowBoot = boots => bootAt <= cSince[Counter])
  /\ sFloor \in {None, 0} /\ (sFloor = 0 <=> sShown = 0)
  /\ sShown = 0 => zeroBoot # None /\ zeroBoot < boots
  /\ cLast[Counter] = 0 <=> cShown[Counter] = 0
  /\ cLast[Counter] = None => ~sawTotal
  /\ cShown[Counter] = 0 /\ sawTotal => lowBoot # None /\ lowBoot < boots
  /\ Settled => data.setpoint = sShown /\ data.counter = cShown[Counter]

\* The inductive invariant.
IInv == TypeInv /\ DeviceInv /\ TransitionInv /\ ScheduleInv
        /\ (BootWindow <= Fast => ZeroInv)

-----------------------------------------------------------------------------
\* What the types say of the numbers the proofs compute with.
LEMMA Numbers ==
  ASSUME TypeInv
  PROVE  /\ clock \in Nat /\ due \in Nat /\ boots \in Nat /\ bootAt \in Int
         /\ total \in {FullTotal - 1, FullTotal} /\ total \in Nat
         /\ interval \in {Fast, Slow} /\ interval \in Nat
         /\ lastSuccess \in Nat \cup {None} /\ gap \in Nat \cup {None}
         /\ cLast[Counter] \in Nat \cup {None} /\ cStreak[Counter] \in Nat
         /\ cSince[Counter] \in Nat \cup {None}
         /\ cShown[Counter] \in Nat \cup {Absent, Held}
         /\ sFloor \in Nat \cup {None} /\ sStreak \in Nat /\ sSince \in Nat \cup {None}
         /\ sShown \in Nat \cup {Absent, Held}
         /\ zeroBoot \in Nat \cup {None} /\ lowBoot \in Nat \cup {None}
         /\ waited \in Nat
BY CoordinatorAssumption DEF TypeInv, TypeOK, CG!TypeOK, SG!TypeOK, FullTotal, Counter

\* A reading lies under the bar and nothing corroborates it yet.
HeldBack(low, streak, since) ==
  low /\ ~(/\ ~AfterLongGap /\ streak + 1 >= 2 /\ since # None
           /\ clock - since >= interval)

\* The time stamp the evidence keeps.
Stamp(since) == IF AfterLongGap \/ since = None THEN clock ELSE since

CounterLow  == cLast[Counter] # None /\ TotalRead < cLast[Counter]
CounterHeld == HeldBack(CounterLow, cStreak[Counter], cSince[Counter])

\* What the counter guard does with the one counter of a frame.
LEMMA CounterJudged ==
  ASSUME TypeInv, Answer
  PROVE  /\ CounterHeld =>
              /\ cShown'[Counter] = Held /\ cLast'[Counter] = cLast[Counter]
              /\ cStreak'[Counter] \in Nat /\ cStreak'[Counter] >= 1
              /\ cSince'[Counter] = Stamp(cSince[Counter])
         /\ ~CounterHeld =>
              /\ cShown'[Counter] = TotalRead /\ cLast'[Counter] = TotalRead
              /\ cStreak'[Counter] = 0 /\ cSince'[Counter] = None
         /\ CG!SteppedDown(Counter, TotalRead) <=> CounterLow
         /\ TotalRead \in 0..FullTotal
         /\ cLast' \in [{Counter} -> Nat \cup {None}] /\ cStreak' \in [{Counter} -> Nat]
         /\ cSince' \in [{Counter} -> Nat \cup {None}]
         /\ cShown' \in [{Counter} -> Nat \cup {Absent, Held}]
<1>0. /\ clock \in Nat /\ interval \in Nat /\ 0 < interval
      /\ lastSuccess \in Nat \cup {None}
      /\ cLast[Counter] \in Nat \cup {None} /\ cStreak[Counter] \in Nat
      /\ cSince[Counter] \in Nat \cup {None}
      /\ None \notin Nat /\ Absent \notin Nat /\ Held \notin Nat
  BY Numbers, CoordinatorAssumption
<1>1. TotalRead \in 0..FullTotal /\ TotalRead # Absent
  BY <1>0, Numbers DEF TotalRead, FullTotal
<1> DEFINE v == TotalRead
           fr == [k \in {Counter} |-> v]
<1>2. CG!Judge(fr, clock)
  BY DEF Answer
<1>3. fr[Counter] = v
  OBVIOUS
<1>4. CG!SteppedDown(Counter, v) <=> CounterLow
  BY <1>1 DEF CG!SteppedDown, CounterLow
<1>5. CG!AfterLongGap(clock) <=> AfterLongGap
  BY DEF CG!AfterLongGap, AfterLongGap
<1>6. /\ CG!StreakKept(Counter, clock) = IF AfterLongGap THEN 0 ELSE cStreak[Counter]
      /\ CG!FirstSeen(Counter, clock) = Stamp(cSince[Counter])
  BY <1>5 DEF CG!StreakKept, CG!FirstSeen, CG!SinceKept, Stamp
<1>7. CG!Confirmed(Counter, clock) <=>
        ~AfterLongGap /\ cStreak[Counter] + 1 >= 2 /\ cSince[Counter] # None
        /\ clock - cSince[Counter] >= interval
  BY <1>0, <1>6 DEF CG!Confirmed, CG!ConfirmFrames, Stamp
<1>8. Counter \in CG!HeldBack(fr, clock) <=> CounterHeld
  BY <1>3, <1>4, <1>7 DEF CG!HeldBack, CounterHeld, HeldBack
<1>9. Counter \in CG!Taken(fr, clock) <=> ~CounterHeld
  BY <1>1, <1>3, <1>8 DEF CG!Taken
<1> DEFINE kept == IF AfterLongGap THEN 0 ELSE cStreak[Counter]
<1>10. /\ cLast' = [k \in {Counter} |-> IF k \in CG!Taken(fr, clock) THEN fr[k] ELSE cLast[k]]
       /\ cStreak' = [k \in {Counter} |->
                        IF k \in CG!Taken(fr, clock) THEN 0
                        ELSE IF k \in CG!HeldBack(fr, clock) THEN CG!StreakKept(k, clock) + 1
                        ELSE CG!StreakKept(k, clock)]
       /\ cSince' = [k \in {Counter} |->
                       IF k \in CG!Taken(fr, clock) THEN None
                       ELSE IF k \in CG!HeldBack(fr, clock) THEN CG!FirstSeen(k, clock)
                       ELSE CG!SinceKept(k, clock)]
       /\ cShown' = [k \in {Counter} |->
                       IF k \in CG!Taken(fr, clock) THEN fr[k]
                       ELSE IF k \in CG!HeldBack(fr, clock) THEN Held ELSE Absent]
  BY <1>2 DEF CG!Judge
<1> HIDE DEF fr
<1>11. CASE CounterHeld
  <2>1. /\ cLast' = [k \in {Counter} |-> cLast[Counter]]
        /\ cStreak' = [k \in {Counter} |-> kept + 1]
        /\ cSince' = [k \in {Counter} |-> Stamp(cSince[Counter])]
        /\ cShown' = [k \in {Counter} |-> Held]
    BY <1>6, <1>8, <1>9, <1>10, <1>11
  <2>2. kept + 1 \in Nat /\ kept + 1 >= 1 /\ Stamp(cSince[Counter]) \in Nat
    BY <1>0 DEF Stamp
  <2> HIDE DEF kept
  <2> QED
    BY <1>0, <1>1, <1>4, <1>11, <2>1, <2>2
<1>12. CASE ~CounterHeld
  <2>1. /\ cLast' = [k \in {Counter} |-> v] /\ cStreak' = [k \in {Counter} |-> 0]
        /\ cSince' = [k \in {Counter} |-> None] /\ cShown' = [k \in {Counter} |-> v]
    BY <1>3, <1>9, <1>10, <1>12
  <2>2. v \in Nat
    BY <1>1 DEF FullTotal
  <2> QED
    BY <1>1, <1>4, <1>12, <2>1, <2>2
<1> QED
  BY <1>11, <1>12

SetpointLow  == SetpointRead < MinCurrent /\ (sFloor = None \/ SetpointRead < sFloor)
SetpointHeld == HeldBack(SetpointLow, sStreak, sSince)

\* What the setpoint guard does with a frame.
LEMMA SetpointJudged ==
  ASSUME TypeInv, Answer
  PROVE  /\ SetpointHeld =>
              /\ sShown' = Held /\ sFloor' = sFloor
              /\ sStreak' \in Nat /\ sSince' = Stamp(sSince)
         /\ ~SetpointHeld =>
              /\ sShown' = SetpointRead /\ sStreak' = 0 /\ sSince' = None
              /\ sFloor' = IF SetpointRead < MinCurrent
                           THEN IF SetpointLow THEN SetpointRead ELSE sFloor
                           ELSE None
         /\ SetpointRead \in 0..MinCurrent
<1>0. /\ clock \in Nat /\ interval \in Nat /\ 0 < interval
      /\ lastSuccess \in Nat \cup {None}
      /\ sFloor \in Nat \cup {None} /\ sStreak \in Nat /\ sSince \in Nat \cup {None}
      /\ None \notin Nat /\ Absent \notin Nat /\ Held \notin Nat
  BY Numbers, CoordinatorAssumption
<1>1. SetpointRead \in 0..MinCurrent /\ SetpointRead # Absent /\ SetpointRead \in Nat
      /\ MinCurrent \in Nat
  BY <1>0 DEF SetpointRead, MinCurrent
<1> DEFINE v == SetpointRead
<1>2. SG!Judge(v, clock)
  BY DEF Answer
<1>3. SG!AfterLongGap(clock) <=> AfterLongGap
  BY DEF SG!AfterLongGap, AfterLongGap
<1>4. /\ SG!StreakKept(clock) = IF AfterLongGap THEN 0 ELSE sStreak
      /\ SG!FirstSeen(clock) = Stamp(sSince)
  BY <1>3 DEF SG!StreakKept, SG!FirstSeen, SG!SinceKept, Stamp
<1>5. SG!Confirmed(clock) <=>
        ~AfterLongGap /\ sStreak + 1 >= 2 /\ sSince # None /\ clock - sSince >= interval
  BY <1>0, <1>4 DEF SG!Confirmed, SG!ConfirmFrames, Stamp
<1>6. SG!Implausible(v) <=> SetpointLow
  BY <1>0, <1>1 DEF SG!Implausible, SG!Threshold, SetpointLow
<1>7. SetpointHeld <=> SetpointLow /\ ~SG!Confirmed(clock)
  BY <1>5 DEF SetpointHeld, HeldBack
<1>8. SG!StreakKept(clock) + 1 \in Nat
  BY <1>0, <1>4
<1>9. SetpointLow => v < MinCurrent
  BY DEF SetpointLow
<1> HIDE DEF v
<1> QED
  BY <1>0, <1>1, <1>2, <1>4, <1>6, <1>7, <1>8, <1>9
  DEF SG!Judge, SG!Missing, SG!Normal, SG!AtFloor, SG!Believe, SG!HoldBack, SG!ClearEvidence, v

-----------------------------------------------------------------------------
\* The device page.
LEMMA DeviceKeeps ==
  ASSUME TypeInv, DeviceInv, [Next]_vars
  PROVE  DeviceInv'
<1> USE DEF DeviceInv, DevicePageCurrent
<1>1. CASE StationStep
  BY <1>1 DEF StationStep, UnchangedCoordinator, schedVars, versionVars
<1>2. CASE StationBoot
  BY <1>2 DEF StationBoot, UnchangedCoordinator, schedVars, versionVars
<1>3. CASE Tick
  BY <1>3 DEF Tick, schedVars, versionVars
<1>4. CASE PollFails
  BY <1>4 DEF PollFails, Requested, Scheduled, Extra, AfterPoll, versionVars
<1>5. CASE Answer
  BY <1>5 DEF Answer, Requested, Scheduled, Extra, versionVars
<1>6. CASE Finish
  <2>1. /\ phase = "loading" /\ LoadVersion /\ WriteVersion
        /\ phase' = AfterPoll /\ registered' = registered
    BY <1>6 DEF Finish
  <2>2. known' = known \/ known' \in BOOLEAN
    BY <2>1 DEF LoadVersion, FetchVersion
  <2>3. written' => page'
    BY <2>1 DEF WriteVersion
  <2>4. ~registered => ~written'
    BY <2>1 DEF WriteVersion
  <2>5. known' /\ registered => page'
    BY <2>1 DEF WriteVersion
  <2> QED
    BY <2>1, <2>3, <2>4, <2>5 DEF AfterPoll
<1>7. CASE Register
  BY <1>7 DEF Register, DeviceInfo
<1>8. CASE UNCHANGED vars
  BY <1>8 DEF vars, schedVars, versionVars
<1> QED
  BY <1>1, <1>2, <1>3, <1>4, <1>5, <1>6, <1>7, <1>8 DEF Next

\* The events of a frame that follows no state of the station.
LEMMA TransitionNeedsBaseline ==
  ASSUME NEW f, prevState = None
  PROVE  SE!EventsOf(f, FALSE) \notin {<<"charging_started">>, <<"session_ended">>}
<1>1. ~SE!Starts(f, FALSE) /\ ~SE!Ends(f, FALSE)
  BY DEF SE!Starts, SE!Ends, SE!Baseline
<1>2. SE!EventsOf(f, FALSE) \in
        {(<<"session_ended", "charging_started">> \o <<>>) \o <<>>, (<<>> \o <<>>) \o <<>>}
  BY <1>1 DEF SE!EventsOf
<1>3. (<<"session_ended", "charging_started">> \o <<>>) \o <<>>
        = <<"session_ended", "charging_started">>
  OBVIOUS
<1>4. (<<>> \o <<>>) \o <<>> = <<>>
  OBVIOUS
<1>5. /\ Len(<<"session_ended", "charging_started">>) = 2 /\ Len(<<>>) = 0
      /\ Len(<<"charging_started">>) = 1 /\ Len(<<"session_ended">>) = 1
  OBVIOUS
<1> DEFINE e == SE!EventsOf(f, FALSE)
<1>6. Len(e) \in {0, 2}
  BY <1>2, <1>3, <1>4, <1>5
<1> HIDE DEF e
<1>7. e \notin {<<"charging_started">>, <<"session_ended">>}
  BY <1>5, <1>6
<1> QED
  BY <1>7 DEF e

\* The state a transition starts from.
LEMMA TransitionKeeps ==
  ASSUME TypeInv, TransitionInv, [Next]_vars
  PROVE  TransitionInv'
<1> USE DEF TransitionInv
<1>1. CASE StationStep \/ StationBoot
  BY <1>1 DEF StationStep, StationBoot, UnchangedCoordinator, schedVars, clockVars, trackerVars
<1>2. CASE Tick
  BY <1>2 DEF Tick, schedVars, clockVars, trackerVars
<1>3. CASE PollFails
  BY <1>3 DEF PollFails, Requested, Scheduled, Extra, AfterPoll, clockVars, trackerVars
<1>4. CASE Answer
  <2>1. /\ phase' = "loading" /\ lastSuccess' = clock
        /\ prevState' = IF AfterLongGap THEN None ELSE prevState
        /\ gap' = IF lastSuccess = None THEN None ELSE clock - lastSuccess
    BY <1>4 DEF Answer, SE!Baseline
  <2>2. clock \in Nat /\ None \notin Nat /\ lastSuccess \in Nat \cup {None} /\ Stale \in Nat
    BY Numbers, CoordinatorAssumption
  <2>3. ASSUME prevState' # None PROVE gap' # None /\ gap' <= Stale
    <3>1. lastSuccess # None /\ ~AfterLongGap
      BY <2>1, <2>3
    <3>2. clock - lastSuccess <= Stale /\ clock - lastSuccess \in Nat
      BY <2>2, <3>1 DEF AfterLongGap, TypeInv
    <3>3. gap' = clock - lastSuccess
      BY <2>1, <3>1
    <3> QED
      BY <2>2, <3>2, <3>3
  <2>4. lastSuccess' # None
    BY <2>1, <2>2
  <2> QED
    BY <2>1, <2>3, <2>4
<1>5. CASE Finish
  <2>1. /\ phase = "loading" /\ phase' \in {"idle", "forward"}
        /\ gap' = gap /\ lastSuccess' = lastSuccess
        /\ fired' = SE!EventsOf(frame, FALSE)
    BY <1>5 DEF Finish, AfterPoll, clockVars, SE!Process
  <2>2. lastSuccess' # None
    BY <2>1 DEF TypeInv
  <2>3. CASE prevState = None
    <3>1. fired' \notin {<<"charging_started">>, <<"session_ended">>}
      BY <2>1, <2>3, TransitionNeedsBaseline
    <3> QED
      BY <2>1, <2>2, <3>1
  <2>4. CASE prevState # None
    BY <2>1, <2>2, <2>4
  <2> QED
    BY <2>3, <2>4
<1>6. CASE Register
  BY <1>6 DEF Register, clockVars, trackerVars
<1>7. CASE UNCHANGED vars
  BY <1>7 DEF vars, schedVars, clockVars, trackerVars
<1> QED
  BY <1>1, <1>2, <1>3, <1>4, <1>5, <1>6, <1>7 DEF Next

\* When the core may poll next.
LEMMA NextDueBounds ==
  ASSUME TypeInv, NEW t \in NextDue
  PROVE  t \in Nat /\ clock + interval <= t + Early
<1>1. /\ clock \in Nat /\ interval \in {Fast, Slow} /\ {Fast, Slow, Early} \subseteq Nat
      /\ Fast < Slow /\ 2 * Early <= Fast
  BY Numbers, CoordinatorAssumption
<1>2. PICK e \in 0..Early : t = clock + interval - e
  BY DEF NextDue
<1>3. e \in Nat /\ e <= Early /\ Early <= interval
  BY <1>1
<1> QED
  BY <1>1, <1>2, <1>3

\* A poll that has just been arranged is an interval after the last frame.
LEMMA DueAfterFrame ==
  ASSUME TypeInv, due' \in NextDue, UNCHANGED <<interval, lastSuccess>>,
         lastSuccess # None
  PROVE  lastSuccess' + interval' <= due' + Early
<1>1. lastSuccess <= clock /\ lastSuccess \in Nat /\ clock \in Nat /\ interval \in Nat
  BY Numbers DEF TypeInv
<1>2. due' \in Nat /\ clock + interval <= due' + Early /\ Early \in Nat
  BY NextDueBounds, CoordinatorAssumption
<1>3. lastSuccess' = lastSuccess /\ interval' = interval
  OBVIOUS
<1>4. \A l, i, c, d, e \in Nat : l <= c /\ c + i <= d + e => l + i <= d + e
  OBVIOUS
<1> QED
  BY <1>1, <1>2, <1>3, <1>4

\* A poll that holds the counter back: the first two in a row may be scheduled ones.
LEMMA WaitedBounds ==
  ASSUME TypeInv, ScheduleInv, Answer, CounterHeld
  PROVE  /\ waited' \in Nat /\ waited' <= 2
         /\ waited' >= 2 => Stamp(cSince[Counter]) + Early <= clock
<1>1. /\ clock \in Nat /\ due \in Nat /\ waited \in Nat /\ Early \in Nat /\ Fast \in Nat
      /\ interval \in Nat /\ Fast <= interval /\ 2 * Early <= Fast
      /\ cStreak[Counter] \in Nat /\ cSince[Counter] \in Nat \cup {None}
      /\ lastSuccess \in Nat \cup {None} /\ (lastSuccess # None => lastSuccess <= clock)
  BY Numbers, CoordinatorAssumption DEF TypeInv
<1>2. waited' = (IF AfterLongGap THEN 0 ELSE waited) + (IF Scheduled THEN 1 ELSE 0)
  <2>1. cShown'[Counter] = Held /\ waited' = Waited(cShown'[Counter] = Held)
    BY CounterJudged DEF Answer
  <2> QED
    BY <2>1 DEF Waited
<1>3. CASE AfterLongGap \/ waited = 0
  <2>1. waited' \in {0, 1}
    BY <1>1, <1>2, <1>3
  <2> QED
    BY <2>1
<1>4. CASE ~AfterLongGap /\ waited >= 1
  <2>1. /\ cStreak[Counter] >= 1 /\ cSince[Counter] \in Nat /\ lastSuccess \in Nat
        /\ cSince[Counter] <= lastSuccess
        /\ (waited >= 2 => cSince[Counter] + Early <= lastSuccess) /\ waited <= 2
        /\ lastSuccess <= clock
    BY <1>1, <1>4, CoordinatorAssumption DEF ScheduleInv, LossConfirmsByThirdPoll
  <2>2. clock - cSince[Counter] < interval /\ Stamp(cSince[Counter]) = cSince[Counter]
    <3>1. cStreak[Counter] + 1 >= 2 /\ cSince[Counter] # None
      BY <1>1, <2>1, CoordinatorAssumption
    <3>2. ~(clock - cSince[Counter] >= interval)
      BY <1>4, <3>1 DEF CounterHeld, HeldBack
    <3>3. Stamp(cSince[Counter]) = cSince[Counter]
      BY <1>4, <3>1 DEF Stamp
    <3>4. clock - cSince[Counter] < interval
      BY <1>1, <2>1, <3>2
    <3> QED
      BY <3>3, <3>4
  <2>3. CASE ~Scheduled
    <3>1. waited' = waited
      BY <1>1, <1>2, <1>4, <2>3
    <3>2. waited' >= 2 => cSince[Counter] + Early <= clock
      BY <1>1, <2>1, <3>1
    <3> QED
      BY <1>1, <2>1, <2>2, <3>1, <3>2
  <2>4. CASE Scheduled
    <3>1. waited' = waited + 1
      BY <1>2, <1>4, <2>4
    <3>2. due <= clock /\ lastSuccess + interval <= due + Early
      BY <1>1, <2>1, <2>4, CoordinatorAssumption DEF ScheduleInv, Scheduled
    <3>3. cSince[Counter] + Early <= clock
      BY <1>1, <2>1, <3>2
    <3>4. ~(waited >= 2)
      BY <1>1, <2>1, <2>2, <3>2
    <3> QED
      BY <1>1, <2>2, <3>1, <3>3, <3>4
  <2> QED
    BY <2>3, <2>4
<1> QED
  BY <1>1, <1>3, <1>4

\* A counter in doubt waits for the interval the schedule waits for.
LEMMA ScheduleKeeps ==
  ASSUME TypeInv, ScheduleInv, [Next]_vars
  PROVE  ScheduleInv'
<1> USE DEF ScheduleInv, LossConfirmsByThirdPoll
<1>1. CASE StationStep \/ StationBoot
  BY <1>1 DEF StationStep, StationBoot, UnchangedCoordinator, schedVars, clockVars, guardVars,
     historyVars
<1>2. CASE Tick
  BY <1>2 DEF Tick, schedVars, clockVars, guardVars, historyVars
<1>3. CASE PollFails
  <2>1. /\ phase' \in {"idle", "forward"} /\ due' \in NextDue
        /\ UNCHANGED <<interval, lastSuccess, cSince, cShown, cStreak, waited>>
    BY <1>3 DEF PollFails, AfterPoll, clockVars, guardVars, historyVars
  <2> QED
    BY <2>1, DueAfterFrame
<1>4. CASE Answer
  <2>1. phase' = "loading" /\ lastSuccess' = clock
    BY <1>4 DEF Answer
  <2>2. /\ clock \in Nat /\ None \notin Nat /\ Held \notin Nat
        /\ lastSuccess \in Nat \cup {None} /\ cSince[Counter] \in Nat \cup {None}
        /\ (lastSuccess # None => lastSuccess <= clock)
    BY Numbers, CoordinatorAssumption DEF TypeInv
  <2>3. CASE CounterHeld
    <3>1. /\ cStreak'[Counter] >= 1 /\ cSince'[Counter] = Stamp(cSince[Counter])
      BY <1>4, <2>3, CounterJudged
    <3>2. Stamp(cSince[Counter]) \in Nat /\ Stamp(cSince[Counter]) <= clock
      BY <2>2 DEF Stamp
    <3>3. cShown'[Counter] = Held
      BY <1>4, <2>3, CounterJudged
    <3>4. /\ waited' \in Nat /\ waited' <= 2
          /\ waited' >= 2 => cSince'[Counter] + Early <= lastSuccess'
      BY <1>4, <2>1, <2>3, <3>1, WaitedBounds
    <3> QED
      BY <2>1, <2>2, <3>1, <3>2, <3>3, <3>4
  <2>4. CASE ~CounterHeld
    <3>1. cSince'[Counter] = None /\ cShown'[Counter] \in 0..FullTotal
      BY <1>4, <2>4, CounterJudged
    <3>2. cShown'[Counter] # Held
      BY <2>2, <3>1 DEF FullTotal
    <3>3. waited' = 0
      BY <1>4, <3>2 DEF Answer, Waited
    <3> QED
      BY <2>1, <3>1, <3>2, <3>3
  <2> QED
    BY <2>3, <2>4
<1>5. CASE Finish \/ Register
  <2>1. /\ phase' \in {"idle", "forward"} /\ due' \in NextDue
        /\ UNCHANGED <<interval, lastSuccess, cSince, cShown, cStreak, waited>>
    BY <1>5 DEF Finish, Register, AfterPoll, clockVars, guardVars, historyVars
  <2> QED
    BY <2>1, DueAfterFrame
<1>6. CASE UNCHANGED vars
  BY <1>6 DEF vars, schedVars, clockVars, guardVars, historyVars
<1> QED
  BY <1>1, <1>2, <1>3, <1>4, <1>5, <1>6 DEF Next

-----------------------------------------------------------------------------
\* The types, by the part of the state they speak of.
StationType ==
  /\ mode \in SE!States \cup {"off"} /\ resume \in BOOLEAN /\ sid \in Nat /\ kwh \in Nat
  /\ bootAt \in Int /\ boots \in 0..MaxBoots
  /\ total \in 0..FullTotal /\ total \in {FullTotal - 1, FullTotal}

TrackerType ==
  /\ prevState \in SE!States \cup {None}
  /\ liveEnergy \in SE!Figures \cup {None} /\ liveTime \in Nat \cup {None}
  /\ lastSession \in SE!Summaries \cup {None}
  /\ fired \in Seq({"charging_started", "session_ended"})

GuardType ==
  /\ cLast \in [{Counter} -> Nat \cup {None}] /\ cStreak \in [{Counter} -> Nat]
  /\ cSince \in [{Counter} -> Nat \cup {None}]
  /\ cShown \in [{Counter} -> Nat \cup {Absent, Held}]
  /\ sFloor \in Nat \cup {None} /\ sStreak \in Nat
  /\ sSince \in Nat \cup {None} /\ sShown \in Nat \cup {Absent, Held}

VersionType ==
  /\ loaded \in BOOLEAN /\ attempts \in 0..3 /\ known \in BOOLEAN
  /\ written \in BOOLEAN /\ registered \in BOOLEAN /\ page \in BOOLEAN
  /\ ~loaded => attempts < 3

PollType ==
  /\ clock \in 0..MaxClock
  /\ phase \in {"first", "forward", "idle", "loading"}
  /\ due \in Nat /\ extras \in 0..MaxExtras /\ lastOk \in BOOLEAN
  /\ data \in Published \cup {None} /\ issue \in BOOLEAN

FrameType ==
  /\ interval \in {Fast, Slow}
  /\ lastSuccess \in Nat \cup {None} /\ (lastSuccess # None => lastSuccess <= clock)
  /\ gap \in Nat \cup {None}
  /\ phase # "loading" => frame = None
  /\ phase = "loading" =>
       /\ frame \in [state : SE!States, energy : SE!Figures, time : Nat]
       /\ cShown[Counter] \in 0..FullTotal \cup {Held}
       /\ sShown \in 0..MinCurrent \cup {Held}
       /\ lastSuccess # None

HistoryType ==
  /\ {zeroBoot, lowBoot} \subseteq 0..MaxBoots \cup {None} /\ sawTotal \in BOOLEAN
  /\ waited \in Nat

\* The parts are the whole.
LEMMA TypeParts ==
  TypeInv <=> /\ StationType /\ TrackerType /\ GuardType /\ VersionType
              /\ PollType /\ FrameType /\ HistoryType
<1>1. 0..MaxClock \subseteq Nat
  OBVIOUS
<1>2. PollType => clock \in Nat
  BY <1>1 DEF PollType
<1>3. TypeInv => /\ StationType /\ TrackerType /\ GuardType /\ VersionType
                 /\ PollType /\ FrameType /\ HistoryType
  BY DEF TypeInv, TypeOK, CG!TypeOK, SG!TypeOK, SE!TypeOK, StationType, TrackerType,
     GuardType, VersionType, PollType, FrameType, HistoryType
<1>4. ASSUME StationType, TrackerType, GuardType, VersionType, PollType, FrameType, HistoryType
      PROVE  TypeInv
  <2>1. CG!TypeOK /\ SG!TypeOK /\ SE!TypeOK
    BY <1>2, <1>4
    DEF CG!TypeOK, SG!TypeOK, SE!TypeOK, StationType, TrackerType, GuardType, PollType, FrameType
  <2>2. frame \in SE!Frames \cup {None} \/ phase = "loading"
    BY <1>4 DEF FrameType
  <2>3. TypeOK
    BY <1>4, <2>1, <2>2 DEF TypeOK, StationType, VersionType, PollType, FrameType, HistoryType
  <2> QED
    BY <1>4, <2>3 DEF TypeInv, StationType, VersionType, FrameType
<1> QED
  BY <1>3, <1>4

AllTypes ==
  /\ StationType /\ TrackerType /\ GuardType /\ VersionType
  /\ PollType /\ FrameType /\ HistoryType

\* TypeInv by its parts, each of which some steps leave alone.
LEMMA TypeSplit == TypeInv <=> AllTypes
BY TypeParts DEF AllTypes

\* ... and after a step.
LEMMA TypeSplitNext == TypeInv' <=> AllTypes'
BY TypeSplit, PTL

\* The station keeps to its modes and its counter.
LEMMA StationTypeKeeps ==
  ASSUME TypeInv, StationStep \/ StationBoot
  PROVE  StationType'
<1>1. StationType /\ clock \in Nat /\ boots \in Nat /\ MaxBoots \in Nat
  BY TypeSplit, Numbers, CoordinatorAssumption DEF AllTypes
<1>2. sid + 1 \in Nat /\ kwh + 1 \in Nat /\ clock \in Int /\ 0 \in Nat
      /\ FullTotal - 1 \in 0..FullTotal /\ FullTotal \in 0..FullTotal
  BY <1>1 DEF StationType, FullTotal
<1>3. {"idle", "charging", "paused", "off"} = SE!States \cup {"off"}
  BY DEF SE!States, SE!Active
<1>4. CASE StationStep
  <2>1. UNCHANGED <<bootAt, boots, total>>
    BY <1>4 DEF StationStep
  <2>2. mode' \in SE!States \cup {"off"} /\ resume' \in BOOLEAN /\ sid' \in Nat /\ kwh' \in Nat
    BY <1>1, <1>2, <1>3, <1>4
    DEF StationStep, StationType, SE!StartSession, SE!NewSession, SE!Deliver, SE!StopSession,
        SE!PowerCut, SE!SwitchMode, SE!Active
  <2> QED
    BY <1>1, <2>1, <2>2 DEF StationType
<1>5. CASE StationBoot
  <2>1. bootAt' = clock /\ boots' = boots + 1 /\ boots < MaxBoots
        /\ total' \in {total, FullTotal - 1}
    BY <1>5 DEF StationBoot
  <2>2. boots + 1 \in 0..MaxBoots
    BY <1>1, <2>1
  <2>3. mode' \in SE!States \cup {"off"} /\ resume' \in BOOLEAN /\ sid' \in Nat /\ kwh' \in Nat
    BY <1>1, <1>2, <1>3, <1>5 DEF StationBoot, StationType, SE!PowerUp, SE!NewSession
  <2> QED
    BY <1>1, <1>2, <2>1, <2>2, <2>3 DEF StationType
<1> QED
  BY <1>4, <1>5

\* An extra poll is counted within the bound.
LEMMA ExtrasCounted ==
  ASSUME TypeInv, Requested
  PROVE  extras' \in 0..MaxExtras
<1>1. extras \in 0..MaxExtras /\ MaxExtras \in Nat
  BY TypeSplit, CoordinatorAssumption DEF AllTypes, PollType
<1>2. extras' = extras \/ (extras < MaxExtras /\ extras' = extras + 1)
  BY DEF Requested, Extra
<1>3. extras < MaxExtras => extras + 1 \in 0..MaxExtras
  BY <1>1
<1> QED
  BY <1>1, <1>2, <1>3

\* A frame is judged without leaving the types.
LEMMA AnswerTypeKeeps ==
  ASSUME TypeInv, Answer
  PROVE  AllTypes'
<1>1. AllTypes /\ clock \in Nat /\ None \notin Nat
  BY TypeSplit, Numbers, CoordinatorAssumption
<1>2. StationType' /\ VersionType'
  BY <1>1 DEF Answer, stationVars, versionVars, AllTypes, StationType, VersionType
<1>3. TrackerType'
  BY <1>1 DEF Answer, SE!Baseline, AllTypes, TrackerType
<1>4. sFloor' \in Nat \cup {None} /\ sStreak' \in Nat /\ sSince' \in Nat \cup {None}
      /\ sShown' \in 0..MinCurrent \cup {Held}
  <2>1. sFloor \in Nat \cup {None} /\ Stamp(sSince) \in Nat /\ 0 \in Nat
    BY <1>1 DEF AllTypes, GuardType, Stamp
  <2>2. SetpointRead \in Nat /\ SetpointRead \in 0..MinCurrent
    BY SetpointJudged DEF MinCurrent
  <2>3. CASE SetpointHeld
    BY <2>1, <2>3, SetpointJudged
  <2>4. CASE ~SetpointHeld
    BY <2>1, <2>2, <2>4, SetpointJudged
  <2> QED
    BY <2>3, <2>4
<1>5. sShown' \in Nat \cup {Absent, Held}
  BY <1>4 DEF MinCurrent
<1>6. GuardType'
  BY <1>4, <1>5, CounterJudged DEF GuardType
<1>7. cShown'[Counter] \in 0..FullTotal \cup {Held}
  <2>1. CASE CounterHeld
    BY <2>1, CounterJudged
  <2>2. CASE ~CounterHeld
    BY <2>2, CounterJudged
  <2> QED
    BY <2>1, <2>2
<1>8. PollType'
  <2>1. /\ clock' = clock /\ due' = due /\ lastOk' = lastOk /\ data' = data
        /\ phase' = "loading" /\ issue' = FALSE
    BY DEF Answer
  <2>2. extras' \in 0..MaxExtras
    BY ExtrasCounted DEF Answer
  <2> QED
    BY <1>1, <2>1, <2>2 DEF AllTypes, PollType
<1>9. FrameType'
  <2>1. /\ clock' = clock /\ lastSuccess' = clock /\ phase' = "loading"
        /\ gap' = IF lastSuccess = None THEN None ELSE clock - lastSuccess
        /\ interval' \in {Fast, Slow}
    BY DEF Answer, PollInterval
  <2>2. gap' \in Nat \cup {None}
    <3>1. lastSuccess \in Nat \cup {None} /\ (lastSuccess # None => lastSuccess <= clock)
      BY <1>1 DEF AllTypes, FrameType
    <3>2. lastSuccess # None => clock - lastSuccess \in Nat
      BY <1>1, <3>1
    <3> QED
      BY <2>1, <3>2
  <2>3. mode \in SE!States /\ sid \in Nat /\ kwh \in Nat
    BY <1>1 DEF Answer, AllTypes, StationType
  <2>4. frame' = [state |-> mode, energy |-> [sid |-> sid, amount |-> kwh], time |-> sid]
    BY DEF Answer
  <2>5. frame' \in [state : SE!States, energy : SE!Figures, time : Nat]
    BY <2>3, <2>4 DEF SE!Figures
  <2>6. lastSuccess' <= clock'
    BY <1>1, <2>1
  <2> QED
    BY <1>1, <1>4, <1>7, <2>1, <2>2, <2>5, <2>6 DEF FrameType
<1>10. HistoryType'
  <2>1. \A boot, odd, latest :
          boot \in 0..MaxBoots \cup {None}
            => RunBegan(boot, odd, latest) \in 0..MaxBoots \cup {None}
    BY <1>1 DEF AllTypes, StationType, RunBegan
  <2>2. waited' \in Nat
    <3>1. waited' = Waited(cShown'[Counter] = Held) /\ waited \in Nat
      BY Numbers DEF Answer
    <3> QED
      BY <3>1 DEF Waited
  <2> QED
    BY <1>1, <2>1, <2>2 DEF Answer, AllTypes, HistoryType
<1> QED
  BY <1>2, <1>3, <1>6, <1>8, <1>9, <1>10 DEF AllTypes

\* Publishing a frame keeps to the types.
LEMMA FinishTypeKeeps ==
  ASSUME TypeInv, Finish
  PROVE  AllTypes'
<1>1. AllTypes /\ clock \in Nat /\ interval \in Nat /\ phase = "loading"
  BY TypeSplit, Numbers DEF Finish
<1>2. /\ frame \in [state : SE!States, energy : SE!Figures, time : Nat]
      /\ cShown[Counter] \in 0..FullTotal \cup {Held}
      /\ sShown \in 0..MinCurrent \cup {Held}
  BY <1>1 DEF AllTypes, FrameType
<1>3. frame.state \in SE!States /\ frame.energy \in SE!Figures /\ frame.time \in Nat
  BY <1>2
<1>4. StationType' /\ HistoryType' /\ GuardType'
  BY <1>1
  DEF Finish, stationVars, historyVars, guardVars, AllTypes, StationType, HistoryType, GuardType
<1>5. TrackerType'
  <2>1. SE!Process(frame, FALSE) /\ TrackerType
    BY <1>1 DEF Finish, AllTypes
  <2>2. prevState' \in SE!States
    BY <1>3, <2>1 DEF SE!Process
  <2>3. liveEnergy' \in SE!Figures \cup {None} /\ liveTime' \in Nat \cup {None}
    BY <1>3, <2>1 DEF SE!Process, SE!Capture, TrackerType
  <2>4. lastSession' \in SE!Summaries \cup {None}
    BY <1>3, <2>1 DEF SE!Process, TrackerType, SE!Summaries
  <2>5. fired' \in Seq({"charging_started", "session_ended"})
    <3> DEFINE E == {"charging_started", "session_ended"}
               a == IF SE!Latches(frame) THEN <<"session_ended", "charging_started">> ELSE <<>>
               b == IF SE!Starts(frame, FALSE) /\ ~SE!Latches(frame)
                    THEN <<"charging_started">> ELSE <<>>
               c == IF SE!Ends(frame, FALSE) THEN <<"session_ended">> ELSE <<>>
    <3>0. /\ <<>> \in Seq(E) /\ <<"charging_started">> \in Seq(E)
          /\ <<"session_ended">> \in Seq(E)
          /\ <<"session_ended", "charging_started">> \in Seq(E)
      OBVIOUS
    <3>1. a \in Seq(E) /\ b \in Seq(E) /\ c \in Seq(E)
      <4> HIDE DEF E
      <4> QED BY <3>0, Zenon
    <3>2. fired' = (a \o b) \o c
      BY <2>1 DEF SE!Process, SE!EventsOf
    <3> HIDE DEF a, b, c
    <3>3. (a \o b) \o c \in Seq(E)
      BY <3>1
    <3> QED
      BY <3>2, <3>3
  <2> QED
    BY <2>2, <2>3, <2>4, <2>5 DEF TrackerType
<1>6. VersionType'
  <2>1. loaded' \in BOOLEAN /\ attempts' \in 0..3 /\ known' \in BOOLEAN
        /\ (~loaded' => attempts' < 3)
    <3>1. LoadVersion /\ VersionType
      BY <1>1 DEF Finish, AllTypes
    <3>2. CASE loaded
      BY <3>1, <3>2 DEF LoadVersion, VersionType
    <3>3. CASE ~loaded
      <4>1. known' \in BOOLEAN /\ attempts' = IF known' THEN attempts ELSE attempts + 1
        BY <3>1, <3>3 DEF LoadVersion, FetchVersion
      <4>2. loaded' = (known' \/ attempts' >= 3)
        BY <3>1, <3>3 DEF LoadVersion, MaxAttempts
      <4>3. attempts \in 0..2 /\ attempts + 1 \in 0..3
        BY <3>1, <3>3 DEF VersionType
      <4>4. attempts' \in 0..3
        BY <4>1, <4>3
      <4>5. loaded' \in BOOLEAN
        BY <4>2
      <4>6. ~loaded' => attempts' < 3
        <5>1. \A n \in 0..3 : ~(n >= 3) => n < 3
          OBVIOUS
        <5> QED
          BY <4>2, <4>4, <5>1, Zenon
      <4> QED
        BY <4>1, <4>4, <4>5, <4>6
    <3> QED
      BY <3>2, <3>3
  <2>2. WriteVersion /\ registered' = registered
    BY DEF Finish
  <2>3. written' \in BOOLEAN /\ page' \in BOOLEAN /\ registered' \in BOOLEAN
    BY <1>1, <2>2 DEF WriteVersion, AllTypes, VersionType
  <2> QED
    BY <2>1, <2>3 DEF VersionType
<1>7. PollType'
  <2>1. /\ phase' \in {"idle", "forward"} /\ due' \in NextDue
        /\ UNCHANGED <<clock, extras, issue>> /\ lastOk' = TRUE
        /\ data' = [state |-> frame.state, counter |-> cShown[Counter], setpoint |-> sShown]
    BY DEF Finish, AfterPoll
  <2>2. data' \in Published
    BY <1>2, <1>3, <2>1 DEF Published
  <2>3. due' \in Nat
    BY <2>1, NextDueBounds
  <2> QED
    BY <1>1, <2>1, <2>2, <2>3 DEF AllTypes, PollType
<1>8. FrameType'
  <2>1. phase' # "loading" /\ frame' = None /\ UNCHANGED <<clock, interval, lastSuccess, gap>>
    BY DEF Finish, AfterPoll, clockVars
  <2> QED
    BY <1>1, <2>1 DEF AllTypes, FrameType
<1> QED
  BY <1>4, <1>5, <1>6, <1>7, <1>8 DEF AllTypes

\* The types.
LEMMA TypeKeeps ==
  ASSUME TypeInv, [Next]_vars
  PROVE  TypeInv'
<1>0. AllTypes /\ clock \in Nat /\ interval \in Nat /\ MaxClock \in Nat
  BY TypeSplit, Numbers, CoordinatorAssumption
<1> SUFFICES AllTypes'
  BY TypeSplitNext
<1>1. CASE StationStep \/ StationBoot
  <2>1. UnchangedCoordinator
    BY <1>1 DEF StationStep, StationBoot
  <2>2. TrackerType'
    BY <1>0, <1>1 DEF StationStep, StationBoot, UnchangedCoordinator, trackerVars,
       AllTypes, TrackerType
  <2>3. GuardType' /\ VersionType' /\ HistoryType'
    BY <1>0, <2>1 DEF UnchangedCoordinator, guardVars, versionVars, historyVars,
       AllTypes, GuardType, VersionType, HistoryType
  <2>4. PollType' /\ FrameType'
    BY <1>0, <2>1 DEF UnchangedCoordinator, schedVars, clockVars, guardVars,
       AllTypes, PollType, FrameType
  <2>5. StationType'
    BY <1>1, StationTypeKeeps
  <2> QED
    BY <2>2, <2>3, <2>4, <2>5 DEF AllTypes
<1>2. CASE Tick
  <2>1. /\ clock < MaxClock /\ clock' = clock + 1
        /\ UNCHANGED <<schedVars, data, clockVars, issue, frame, versionVars,
                       guardVars, trackerVars, stationVars, historyVars>>
    BY <1>2 DEF Tick
  <2>2. clock + 1 \in 0..MaxClock
    BY <1>0, <2>1
  <2>3. /\ StationType' /\ TrackerType' /\ GuardType' /\ VersionType' /\ HistoryType'
    BY <1>0, <2>1 DEF guardVars, versionVars, historyVars, stationVars, trackerVars,
       AllTypes, StationType, TrackerType, GuardType, VersionType, HistoryType
  <2>4. PollType'
    BY <1>0, <2>1, <2>2 DEF schedVars, AllTypes, PollType
  <2>5. FrameType'
    <3>1. lastSuccess # None => lastSuccess <= clock + 1
      BY <1>0 DEF AllTypes, FrameType
    <3> QED
      BY <1>0, <2>1, <3>1 DEF schedVars, clockVars, guardVars, AllTypes, FrameType
  <2> QED
    BY <2>3, <2>4, <2>5 DEF AllTypes
<1>3. CASE PollFails
  <2>1. /\ phase \in {"first", "idle"} /\ phase' \in {"idle", "forward"} /\ lastOk' = FALSE
        /\ issue' \in {issue, TRUE} /\ due' \in NextDue
        /\ UNCHANGED <<clock, data, clockVars, frame, versionVars, guardVars,
                       trackerVars, stationVars, historyVars>>
    BY <1>3 DEF PollFails, Requested, Scheduled, Extra, AfterPoll
  <2>2. extras' \in 0..MaxExtras /\ due' \in Nat
    BY <1>0, <1>3, <2>1, ExtrasCounted, NextDueBounds DEF PollFails
  <2>3. /\ StationType' /\ TrackerType' /\ GuardType' /\ VersionType' /\ HistoryType'
    BY <1>0, <2>1 DEF guardVars, versionVars, historyVars, stationVars, trackerVars,
       AllTypes, StationType, TrackerType, GuardType, VersionType, HistoryType
  <2>4. PollType'
    BY <1>0, <2>1, <2>2 DEF AllTypes, PollType
  <2>5. FrameType'
    BY <1>0, <2>1 DEF clockVars, AllTypes, FrameType
  <2> QED
    BY <2>3, <2>4, <2>5 DEF AllTypes
<1>4. CASE Answer
  BY <1>4, AnswerTypeKeeps
<1>5. CASE Finish
  BY <1>5, FinishTypeKeeps
<1>6. CASE Register
  <2>1. /\ phase = "forward" /\ registered' = TRUE /\ page' = known /\ phase' = "idle"
        /\ due' \in NextDue
        /\ UNCHANGED <<clock, extras, lastOk, data, clockVars, issue, frame, loaded,
                       attempts, known, written, guardVars, trackerVars, stationVars,
                       historyVars>>
    BY <1>6 DEF Register, DeviceInfo
  <2>2. due' \in Nat
    BY <2>1, NextDueBounds
  <2>3. /\ StationType' /\ TrackerType' /\ GuardType' /\ HistoryType'
    BY <1>0, <2>1 DEF guardVars, historyVars, stationVars, trackerVars,
       AllTypes, StationType, TrackerType, GuardType, HistoryType
  <2>4. VersionType'
    BY <1>0, <2>1 DEF AllTypes, VersionType
  <2>5. PollType'
    BY <1>0, <2>1, <2>2 DEF AllTypes, PollType
  <2>6. FrameType'
    BY <1>0, <2>1 DEF clockVars, AllTypes, FrameType
  <2> QED
    BY <2>3, <2>4, <2>5, <2>6 DEF AllTypes
<1>7. CASE UNCHANGED vars
  <2>1. UNCHANGED <<clock, schedVars, data, clockVars, issue, frame, versionVars,
                    guardVars, trackerVars, stationVars, historyVars>>
    BY <1>7 DEF vars
  <2>2. /\ StationType' /\ TrackerType' /\ GuardType' /\ VersionType' /\ HistoryType'
    BY <1>0, <2>1 DEF guardVars, versionVars, historyVars, stationVars, trackerVars,
       AllTypes, StationType, TrackerType, GuardType, VersionType, HistoryType
  <2>3. PollType' /\ FrameType'
    BY <1>0, <2>1 DEF schedVars, clockVars, guardVars, AllTypes, PollType, FrameType
  <2> QED
    BY <2>2, <2>3 DEF AllTypes
<1> QED
  BY <1>1, <1>2, <1>3, <1>4, <1>5, <1>6, <1>7 DEF Next

-----------------------------------------------------------------------------
\* What holds of a run of odd readings: it began in a boot that had happened, and
\* its time stamp is not older than the boot it began in.
RunKnown(boot, since) ==
  /\ boot # None => boot <= boots
  /\ since # None => boot # None /\ (boot = boots => bootAt <= since)

\* A reading that is held back goes on with its run, or begins one.
LEMMA RunGoesOn ==
  ASSUME TypeInv, NEW boot \in Nat \cup {None}, NEW since \in Nat \cup {None},
         NEW latest, latest # 0, bootAt <= clock, RunKnown(boot, since)
  PROVE  RunKnown(RunBegan(boot, TRUE, latest), Stamp(since))
<1>1. clock \in Nat /\ boots \in Nat /\ bootAt \in Int /\ None \notin Nat
  BY Numbers, CoordinatorAssumption
<1> DEFINE r == RunBegan(boot, TRUE, latest)
<1>2. r = IF boot = None \/ AfterLongGap THEN boots ELSE boot
  BY DEF RunBegan
<1> HIDE DEF r
<1>3. r \in Nat /\ r <= boots
  <2>1. boot # None => boot \in Nat /\ boot <= boots
    BY DEF RunKnown
  <2>2. boots \in Nat /\ boots <= boots
    BY <1>1
  <2> QED
    BY <1>2, <2>1, <2>2
<1>4. r = boots => bootAt <= Stamp(since)
  BY <1>1, <1>2 DEF RunKnown, Stamp
<1> QED
  BY <1>1, <1>3, <1>4 DEF RunKnown, r

\* While the station boots, a run that began in this boot is too young to be believed.
LEMMA BootIsTooShort ==
  ASSUME TypeInv, BootWindow <= Fast, Booting, NEW since \in Nat, bootAt <= since
  PROVE  ~(clock - since >= interval)
<1>1. /\ clock \in Nat /\ bootAt \in Int /\ interval \in {Fast, Slow}
      /\ Fast \in Nat /\ Slow \in Nat /\ Fast < Slow /\ BootWindow \in Nat
  BY Numbers, CoordinatorAssumption
<1>2. clock - bootAt < BootWindow
  BY DEF Booting
<1>3. clock - since <= clock - bootAt
  BY <1>1
<1>4. Fast <= interval
  BY <1>1
<1> QED
  BY <1>1, <1>2, <1>3, <1>4

\* So a zero that is believed while the station boots began its run in another boot.
LEMMA BelievedFromOtherBoot ==
  ASSUME TypeInv, BootWindow <= Fast, Booting,
         NEW boot \in Nat \cup {None}, NEW since \in Nat \cup {None}, NEW streak, NEW latest,
         RunKnown(boot, since), NEW low \in BOOLEAN, low, ~HeldBack(low, streak, since)
  PROVE  RunBegan(boot, TRUE, latest) # None /\ RunBegan(boot, TRUE, latest) < boots
<1>1. ~AfterLongGap /\ since # None /\ clock - since >= interval
  BY DEF HeldBack
<1>2. boot # None /\ boot <= boots /\ boots \in Nat /\ since \in Nat
  BY <1>1, Numbers DEF RunKnown
<1>3. boot # boots
  BY <1>1, <1>2, BootIsTooShort DEF RunKnown
<1>4. RunBegan(boot, TRUE, latest) = boot
  BY <1>1, <1>2 DEF RunBegan
<1>5. boot < boots
  BY <1>2, <1>3
<1> QED
  BY <1>2, <1>4, <1>5, Zenon

\* What ZeroInv says of the one guard and of the other.
SetpointZero ==
  /\ RunKnown(zeroBoot, sSince)
  /\ sFloor \in {None, 0} /\ (sFloor = 0 <=> sShown = 0)
  /\ sShown = 0 => zeroBoot # None /\ zeroBoot < boots

CounterZero ==
  /\ RunKnown(lowBoot, cSince[Counter])
  /\ cLast[Counter] = 0 <=> cShown[Counter] = 0
  /\ cLast[Counter] = None => ~sawTotal
  /\ cShown[Counter] = 0 /\ sawTotal => lowBoot # None /\ lowBoot < boots

DataShown == Settled => data.setpoint = sShown /\ data.counter = cShown[Counter]

\* The invariant behind BootZeroStaysHidden by its parts.
LEMMA ZeroParts ==
  ZeroInv <=> bootAt <= clock /\ SetpointZero /\ CounterZero /\ DataShown
BY DEF ZeroInv, SetpointZero, CounterZero, DataShown, RunKnown

\* ... and after a step.
LEMMA ZeroPartsNext ==
  ZeroInv' <=> (bootAt <= clock /\ SetpointZero /\ CounterZero /\ DataShown)'
BY ZeroParts, PTL

\* A frame and the setpoint.
LEMMA SetpointZeroKeeps ==
  ASSUME TypeInv, BootWindow <= Fast, bootAt <= clock, SetpointZero, Answer
  PROVE  SetpointZero'
<1>1. /\ boots \in Nat /\ sFloor \in Nat \cup {None} /\ sSince \in Nat \cup {None}
      /\ zeroBoot \in Nat \cup {None} /\ None \notin Nat /\ Held \notin Nat
  BY Numbers, CoordinatorAssumption
<1>2. boots' = boots /\ bootAt' = bootAt /\ zeroBoot' = RunBegan(zeroBoot, Booting, sShown)
  BY DEF Answer, stationVars
<1>3. SetpointRead = IF Booting THEN 0 ELSE 1
  BY DEF SetpointRead, MinCurrent
<1>4. SetpointLow <=> Booting /\ sFloor = None
  BY <1>1, <1>3 DEF SetpointLow, MinCurrent, SetpointZero
<1>5. CASE SetpointHeld
  <2>1. Booting /\ sFloor = None /\ sShown # 0
    BY <1>1, <1>4, <1>5 DEF SetpointHeld, HeldBack, SetpointZero
  <2>2. sShown' = Held /\ sFloor' = None /\ sSince' = Stamp(sSince)
    BY <1>5, <2>1, SetpointJudged
  <2>3. RunKnown(RunBegan(zeroBoot, TRUE, sShown), Stamp(sSince))
    BY <1>1, <2>1, RunGoesOn DEF SetpointZero
  <2>4. RunKnown(zeroBoot, sSince)'
    BY <1>2, <2>1, <2>2, <2>3 DEF RunKnown
  <2> QED
    BY <1>1, <2>2, <2>4 DEF SetpointZero
<1>6. CASE ~SetpointHeld /\ ~Booting
  <2>1. SetpointRead = 1 /\ ~(1 < 1)
    BY <1>3, <1>6
  <2>2. sShown' = 1 /\ sFloor' = None /\ sSince' = None
    BY <1>6, <2>1, SetpointJudged DEF MinCurrent
  <2>3. zeroBoot' = None
    BY <1>2, <1>6 DEF RunBegan
  <2> QED
    BY <1>1, <2>2, <2>3 DEF SetpointZero, RunKnown
<1>7. CASE ~SetpointHeld /\ Booting
  <2>1. sShown' = 0 /\ sSince' = None /\ sFloor' = 0
    <3>1. SetpointRead = 0 /\ 0 < MinCurrent
      BY <1>3, <1>7 DEF MinCurrent
    <3>2. ~SetpointLow => sFloor = 0
      BY <1>4, <1>7 DEF SetpointZero
    <3> QED
      BY <1>7, <3>1, <3>2, SetpointJudged
  <2>2. zeroBoot' # None /\ zeroBoot' < boots
    <3>1. CASE SetpointLow
      <4>1. ~HeldBack(SetpointLow, sStreak, sSince) /\ SetpointLow \in BOOLEAN
        BY <1>7 DEF SetpointHeld, SetpointLow
      <4>2. RunBegan(zeroBoot, TRUE, sShown) # None /\ RunBegan(zeroBoot, TRUE, sShown) < boots
        BY <1>1, <1>7, <3>1, <4>1, BelievedFromOtherBoot DEF SetpointZero
      <4> QED
        BY <1>2, <1>7, <4>2
    <3>2. CASE ~SetpointLow
      <4>1. sShown = 0 /\ zeroBoot # None /\ zeroBoot < boots
        BY <1>1, <1>4, <1>7, <3>2 DEF SetpointZero
      <4>2. zeroBoot' = zeroBoot
        BY <1>2, <1>7, <4>1 DEF RunBegan
      <4> QED
        BY <4>1, <4>2
    <3> QED
      BY <3>1, <3>2
  <2>3. zeroBoot' <= boots'
    <3>1. zeroBoot' \in Nat
      BY <1>1, <1>2, <2>2 DEF RunBegan
    <3>2. \A n \in Nat : n < boots => n <= boots
      BY <1>1
    <3> QED
      BY <1>2, <2>2, <3>1, <3>2
  <2> QED
    BY <1>1, <1>2, <2>1, <2>2, <2>3 DEF SetpointZero, RunKnown
<1> QED
  BY <1>5, <1>6, <1>7

\* A frame and the counter.
LEMMA CounterZeroKeeps ==
  ASSUME TypeInv, BootWindow <= Fast, bootAt <= clock, CounterZero, Answer
  PROVE  CounterZero'
<1>1. /\ boots \in Nat /\ cLast[Counter] \in Nat \cup {None}
      /\ cSince[Counter] \in Nat \cup {None} /\ lowBoot \in Nat \cup {None}
      /\ total \in {1, 2} /\ None \notin Nat /\ Held \notin Nat
  BY Numbers, CoordinatorAssumption DEF FullTotal
<1>2. /\ boots' = boots /\ bootAt' = bootAt /\ sawTotal' = (sawTotal \/ ~Booting)
      /\ lowBoot' = RunBegan(lowBoot, Booting \/ CounterLow, cShown[Counter])
  BY CounterJudged DEF Answer, stationVars
<1>3. TotalRead = IF Booting THEN 0 ELSE total
  BY DEF TotalRead
<1>4. TotalRead \in {0, 1, 2} /\ (TotalRead = 0 <=> Booting)
  BY <1>1, <1>3
<1>5. CASE CounterHeld
  <2>1. CounterLow /\ cLast[Counter] \in Nat /\ cLast[Counter] # 0 /\ cShown[Counter] # 0
    BY <1>1, <1>4, <1>5 DEF CounterHeld, HeldBack, CounterLow, CounterZero
  <2>2. /\ cShown'[Counter] = Held /\ cLast'[Counter] = cLast[Counter]
        /\ cSince'[Counter] = Stamp(cSince[Counter])
    BY <1>5, CounterJudged
  <2>3. RunKnown(RunBegan(lowBoot, TRUE, cShown[Counter]), Stamp(cSince[Counter]))
    BY <1>1, <2>1, RunGoesOn DEF CounterZero
  <2>4. RunKnown(lowBoot', cSince'[Counter])
    BY <1>2, <2>1, <2>2, <2>3
  <2>5. RunKnown(lowBoot, cSince[Counter])'
    BY <1>2, <2>4 DEF RunKnown
  <2>6. Held # 0 /\ cLast[Counter] # None
    BY <1>1, <2>1
  <2> QED
    BY <2>1, <2>2, <2>5, <2>6 DEF CounterZero
<1>6. CASE ~CounterHeld
  <2>1. /\ cShown'[Counter] = TotalRead /\ cLast'[Counter] = TotalRead
        /\ cSince'[Counter] = None
    BY <1>6, CounterJudged
  <2>2. TotalRead # None
    BY <1>1, <1>4
  <2>3. lowBoot' # None => lowBoot' <= boots
    <3>1. lowBoot # None => lowBoot \in Nat /\ lowBoot <= boots
      BY <1>1 DEF CounterZero, RunKnown
    <3>2. boots <= boots
      BY <1>1
    <3>3. lowBoot' \in {None, boots, lowBoot}
      BY <1>2 DEF RunBegan
    <3> QED
      BY <3>1, <3>2, <3>3, Zenon
  <2>4. RunKnown(lowBoot, cSince[Counter])'
    BY <1>2, <2>1, <2>3 DEF RunKnown
  <2>5. CASE ~Booting
    <3>1. TotalRead # 0
      BY <1>4, <2>5
    <3> QED
      BY <2>1, <2>2, <2>4, <3>1 DEF CounterZero
  <2>6. CASE Booting
    <3>1. sawTotal' = sawTotal /\ lowBoot' = RunBegan(lowBoot, TRUE, cShown[Counter])
      <4>1. TypeInv'
        BY AnswerTypeKeeps, TypeSplitNext
      <4>2. sawTotal \in BOOLEAN /\ sawTotal' \in BOOLEAN
        BY <4>1 DEF TypeInv, TypeOK
      <4> QED
        BY <1>2, <2>6, <4>2
    <3>2. ASSUME sawTotal PROVE lowBoot' # None /\ lowBoot' < boots
      <4>1. cLast[Counter] # None /\ cLast[Counter] \in Nat
        BY <1>1, <3>2 DEF CounterZero
      <4>2. CASE cLast[Counter] = 0
        <5>1. cShown[Counter] = 0 /\ lowBoot # None /\ lowBoot < boots
          BY <3>2, <4>2 DEF CounterZero
        <5>2. lowBoot' = lowBoot
          BY <3>1, <5>1 DEF RunBegan
        <5> QED
          BY <5>1, <5>2
      <4>3. CASE cLast[Counter] # 0
        <5>1. CounterLow /\ CounterLow \in BOOLEAN
          BY <1>4, <2>6, <4>1, <4>3 DEF CounterLow
        <5>2. ~HeldBack(CounterLow, cStreak[Counter], cSince[Counter])
          BY <1>6 DEF CounterHeld
        <5>3. /\ RunBegan(lowBoot, TRUE, cShown[Counter]) # None
              /\ RunBegan(lowBoot, TRUE, cShown[Counter]) < boots
          BY <1>1, <2>6, <5>1, <5>2, BelievedFromOtherBoot DEF CounterZero
        <5> QED
          BY <3>1, <5>3
      <4> QED
        BY <4>2, <4>3
    <3> QED
      BY <1>2, <2>1, <2>2, <2>4, <3>1, <3>2 DEF CounterZero
  <2> QED
    BY <2>5, <2>6
<1> QED
  BY <1>5, <1>6

\* The zeroes of a boot.
LEMMA ZeroKeeps ==
  ASSUME TypeInv, BootWindow <= Fast, ZeroInv, [Next]_vars
  PROVE  ZeroInv'
<1>0. /\ bootAt <= clock /\ SetpointZero /\ CounterZero /\ DataShown
      /\ clock \in Nat /\ bootAt \in Int /\ boots \in Nat
  BY ZeroParts, Numbers
<1> SUFFICES (bootAt <= clock /\ SetpointZero /\ CounterZero /\ DataShown)'
  BY ZeroPartsNext
<1>1. CASE StationStep
  BY <1>0, <1>1
  DEF StationStep, UnchangedCoordinator, schedVars, guardVars, historyVars,
      SetpointZero, CounterZero, DataShown, RunKnown, Settled
<1>2. CASE StationBoot
  <2>1. /\ boots' = boots + 1 /\ bootAt' = clock
        /\ UNCHANGED <<clock, phase, data, guardVars, historyVars>>
    BY <1>2 DEF StationBoot, UnchangedCoordinator, schedVars
  <2>2. \A b \in Nat : (b <= boots => b <= boots + 1 /\ b # boots + 1)
                       /\ (b < boots => b < boots + 1)
    BY <1>0
  <2>3. zeroBoot \in Nat \cup {None} /\ lowBoot \in Nat \cup {None}
    BY Numbers
  <2>4. bootAt' <= clock'
    BY <1>0, <2>1
  <2>5. RunKnown(zeroBoot, sSince)'
    BY <1>0, <2>1, <2>2, <2>3 DEF RunKnown, SetpointZero, guardVars, historyVars
  <2>6. RunKnown(lowBoot, cSince[Counter])'
    BY <1>0, <2>1, <2>2, <2>3 DEF RunKnown, CounterZero, guardVars, historyVars
  <2>7. SetpointZero'
    BY <1>0, <2>1, <2>2, <2>3, <2>5 DEF SetpointZero, guardVars, historyVars
  <2>8. CounterZero'
    BY <1>0, <2>1, <2>2, <2>3, <2>6 DEF CounterZero, guardVars, historyVars
  <2> QED
    BY <1>0, <2>1, <2>4, <2>7, <2>8 DEF DataShown, Settled, guardVars
<1>3. CASE Tick
  <2>1. clock' = clock + 1 /\ bootAt <= clock + 1
        /\ UNCHANGED <<phase, data, guardVars, historyVars, boots, bootAt>>
    BY <1>0, <1>3 DEF Tick, schedVars, stationVars
  <2>2. bootAt' <= clock'
    BY <2>1
  <2> QED
    BY <1>0, <2>1, <2>2
    DEF SetpointZero, CounterZero, DataShown, RunKnown, Settled, guardVars, historyVars
<1>4. CASE PollFails \/ Register
  <2>1. /\ phase # "loading" /\ UNCHANGED <<clock, data, guardVars, historyVars, boots, bootAt>>
    BY <1>4 DEF PollFails, Register, Requested, Scheduled, Extra, stationVars
  <2> QED
    BY <1>0, <2>1
    DEF SetpointZero, CounterZero, DataShown, RunKnown, Settled, guardVars, historyVars
<1>5. CASE Answer
  <2>1. SetpointZero' /\ CounterZero'
    BY <1>0, <1>5, SetpointZeroKeeps, CounterZeroKeeps
  <2>2. phase' = "loading" /\ clock' = clock /\ bootAt' = bootAt
    BY <1>5 DEF Answer, stationVars
  <2> QED
    BY <1>0, <2>1, <2>2 DEF DataShown, Settled
<1>6. CASE Finish
  <2>1. /\ UNCHANGED <<clock, guardVars, historyVars, boots, bootAt>>
        /\ data'.setpoint = sShown /\ data'.counter = cShown[Counter]
    BY <1>6 DEF Finish, stationVars
  <2> QED
    BY <1>0, <2>1
    DEF SetpointZero, CounterZero, DataShown, RunKnown, guardVars, historyVars
<1>7. CASE UNCHANGED vars
  BY <1>0, <1>7
  DEF vars, schedVars, stationVars,
      SetpointZero, CounterZero, DataShown, RunKnown, Settled, guardVars, historyVars
<1> QED
  BY <1>1, <1>2, <1>3, <1>4, <1>5, <1>6, <1>7 DEF Next

-----------------------------------------------------------------------------
\* The first refresh begins in the invariant.
LEMMA InitKeeps ==
  ASSUME Init
  PROVE  IInv
<1>1. /\ {Fast, Slow, Stale, Latency, BootWindow} \subseteq Nat /\ MaxBoots \in Nat
      /\ MaxClock \in Nat /\ MaxExtras \in Nat
      /\ None \notin Nat /\ Held \notin Nat /\ Absent \notin Nat /\ Held # Absent
  BY CoordinatorAssumption
<1>2. 0 \in 0..MaxClock /\ 0 \in 0..MaxBoots /\ 0 \in 0..MaxExtras /\ 0 \in 0..3
      /\ 2 \in 0..2 /\ 0 - BootWindow \in Int /\ 0 - BootWindow <= 0
  BY <1>1
<1>3. StationType
  BY <1>2 DEF Init, SE!StationInit, StationType, FullTotal, SE!States, SE!Active
<1>4. TrackerType
  <2>1. <<>> \in Seq({"charging_started", "session_ended"})
    OBVIOUS
  <2> QED
    BY <2>1 DEF Init, SE!TrackerInit, TrackerType
<1>5. GuardType
  BY <1>1 DEF Init, CG!GuardInit, SG!GuardInit, GuardType
<1>6. VersionType /\ PollType
  <2>1. VersionType
    <3>1. 0 < 3 /\ 0 \in 0..3
      OBVIOUS
    <3>2. /\ loaded = FALSE /\ attempts = 0 /\ known = FALSE
          /\ written = FALSE /\ registered = FALSE /\ page = FALSE
      BY DEF Init
    <3> QED
      BY <3>1, <3>2, Zenon DEF VersionType
  <2>2. clock = 0 /\ due = 0 /\ extras = 0 /\ phase = "first" /\ 0 \in Nat
    BY DEF Init
  <2>3. PollType
    BY <1>2, <2>2 DEF Init, PollType
  <2> QED
    BY <2>1, <2>3
<1>7. FrameType /\ HistoryType
  BY <1>1 DEF Init, FrameType, HistoryType
<1>8. TypeInv
  BY <1>3, <1>4, <1>5, <1>6, <1>7, TypeSplit DEF AllTypes
<1>9. DeviceInv
  BY DEF Init, DeviceInv, DevicePageCurrent
<1>10. cSince[Counter] = None /\ cShown[Counter] = Absent /\ cLast[Counter] = None
  BY DEF Init, CG!GuardInit
<1>11. ScheduleInv
  BY <1>1, <1>10 DEF Init, ScheduleInv, LossConfirmsByThirdPoll
<1>12. TransitionInv
  <2>1. fired = <<>>
    BY DEF Init, SE!TrackerInit
  <2>2. fired \notin {<<"charging_started">>, <<"session_ended">>}
    BY <2>1
  <2> QED
    BY <2>2 DEF Init, SE!TrackerInit, TransitionInv
<1>13. ZeroInv
  BY <1>1, <1>2, <1>10 DEF Init, SG!GuardInit, ZeroInv, Settled
<1> QED
  BY <1>8, <1>9, <1>11, <1>12, <1>13 DEF IInv

\* Every step keeps it.
LEMMA NextKeeps ==
  ASSUME IInv, [Next]_vars
  PROVE  IInv'
<1>1. TypeInv' /\ DeviceInv' /\ TransitionInv' /\ ScheduleInv'
  BY TypeKeeps, DeviceKeeps, TransitionKeeps, ScheduleKeeps DEF IInv
<1>2. BootWindow <= Fast => ZeroInv'
  BY ZeroKeeps DEF IInv
<1> QED
  BY <1>1, <1>2 DEF IInv

\* The invariant behind every theorem below.
THEOREM PollIsConsistent == Spec => []IInv
BY InitKeeps, NextKeeps, PTL DEF Spec

\* Every variable of the coordinator, of both guards, of the tracker and of the
\* station keeps to its type, whatever the schedule and however often it is polled.
THEOREM TypeCorrect == Spec => []TypeOK
<1>1. IInv => TypeOK
  BY DEF IInv, TypeInv
<1> QED
  BY <1>1, PollIsConsistent, PTL

\* After a successful poll with the version known and the device registered, the
\* device page shows it: _load_sw_version_once, async_forward_entry_setups and
\* _write_sw_version_to_registry together leave no order in which it is missed.
THEOREM DevicePageShowsVersion == Spec => []DevicePageCurrent
<1>1. IInv => DevicePageCurrent
  BY DEF IInv, DeviceInv
<1> QED
  BY <1>1, PollIsConsistent, PTL

\* An event of one transition was decided against a state observed at most Stale
\* before: _async_update_data drops the baseline before it moves _last_success.
THEOREM TransitionsAreRecent == Spec => []NoTransitionAcrossLongGap
<1>1. IInv => NoTransitionAcrossLongGap
  BY DEF IInv, TransitionInv, NoTransitionAcrossLongGap, Settled
<1> QED
  BY <1>1, PollIsConsistent, PTL

\* A counter that keeps reading low is held back by two scheduled polls at most, for
\* any two intervals and any extra polls: the core may be early by less than half an
\* interval, and what the second poll lacks in waiting the third one has.
THEOREM LossIsConfirmedInTime == Spec => []LossConfirmsByThirdPoll
<1>1. IInv => LossConfirmsByThirdPoll
  BY DEF IInv, ScheduleInv
<1> QED
  BY <1>1, PollIsConsistent, PTL

\* The zeroes a rebooted station reads are not published, as the setpoint or as a
\* counter that was ever read, unless it booted again between the frames that
\* corroborate each other -- for any station that has loaded its figures from
\* flash within the fast polling interval.
THEOREM BootZeroesStayHidden ==
  (BootWindow <= Fast) => (Spec => []BootZeroStaysHidden)
<1>1. BootWindow <= Fast /\ IInv => BootZeroStaysHidden
  BY DEF IInv, ZeroInv, BootZeroStaysHidden
<1> SUFFICES ASSUME BootWindow <= Fast PROVE Spec => []BootZeroStaysHidden
  OBVIOUS
<1>2. IInv => BootZeroStaysHidden
  BY <1>1
<1> QED
  BY <1>2, PollIsConsistent, PTL
=============================================================================
