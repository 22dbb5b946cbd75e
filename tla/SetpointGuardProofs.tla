------------------------- MODULE SetpointGuardProofs -------------------------
(* The setpoint guard decides as the whole history would: proofs for every  *)
(* minimum, every set of readings, intervals and gaps, every history.       *)
EXTENDS SetpointGuardHistory, EvidenceProofs

IInv == HTypeOK /\ HistoryDated /\ EvidenceIsHistory

\* The entry HPoll appends to the history.
Entry(v, t) == [at |-> t, interval |-> interval, value |-> v]

\* A poll leaves the variables of the guard well-typed.
LEMMA PollType ==
  ASSUME TypeOK, NEW v \in Readings \cup {Absent}, NEW t \in Nat, Poll(v, t)
  PROVE  TypeOK'
<1>1. v # Absent => v \in Nat
  BY SetpointAssumption
<1>2. /\ StreakKept(t) \in Nat /\ StreakKept(t) + 1 \in Nat
      /\ SinceKept(t) \in Nat \cup {None}
      /\ FirstSeen(t) \in Nat
  BY DEF TypeOK, StreakKept, SinceKept, FirstSeen
<1>3. clock' \in Nat /\ lastSuccess' \in Nat \cup {None} /\ interval' \in Intervals
  BY DEF Poll
<1>4. Judge(v, t)
  BY DEF Poll
<1>5. /\ floor' \in Nat \cup {None} /\ streak' \in Nat
      /\ since' \in Nat \cup {None} /\ shown' \in Nat \cup {Absent, Held}
  <2>1. CASE Missing(v, t)
    BY <2>1, <1>2 DEF Missing, TypeOK
  <2>2. CASE Normal(v)
    BY <2>2, <1>1 DEF Normal, ClearEvidence
  <2>3. CASE AtFloor(v)
    BY <2>3, <1>1 DEF AtFloor, ClearEvidence, TypeOK
  <2>4. CASE Believe(v, t)
    BY <2>4, <1>1 DEF Believe, ClearEvidence
  <2>5. CASE HoldBack(v, t)
    BY <2>5, <1>2 DEF HoldBack, TypeOK
  <2> QED
    BY <1>4, <2>1, <2>2, <2>3, <2>4, <2>5 DEF Judge
<1> QED
  BY <1>3, <1>5 DEF TypeOK

\* Every value of the guard and of the clock around it has its type.
THEOREM TypeCorrect == Spec => []TypeOK
<1>1. Init => TypeOK
  BY DEF Init, GuardInit, TypeOK
<1>2. TypeOK /\ [Next]_vars => TypeOK'
  <2> SUFFICES ASSUME TypeOK, [Next]_vars
               PROVE  TypeOK'
    OBVIOUS
  <2>1. ASSUME NEW v \in Readings \cup {Absent}, NEW gap \in Gaps,
               Poll(v, clock + gap)
        PROVE  TypeOK'
    <3>1. clock + gap \in Nat
      BY SetpointAssumption DEF TypeOK
    <3> QED
      BY <2>1, <3>1, PollType
  <2>2. CASE Restart
    BY <2>2 DEF Restart, TypeOK
  <2>3. CASE UNCHANGED vars
    BY <2>3 DEF vars, TypeOK
  <2> QED
    BY <2>1, <2>2, <2>3 DEF Next
<1> QED
  BY <1>1, <1>2, PTL DEF Spec

-----------------------------------------------------------------------------
\* A silence the guard notices is one that severs the evidence.
LEMMA LongGapSevers ==
  ASSUME HTypeOK, HistoryDated, NEW v, NEW t \in Nat
  PROVE  AfterLongGap(t) <=> Severed(log, Entry(v, t))
<1>1. Entry(v, t).at = t
  BY DEF Entry
<1>2. /\ log # <<>> => lastSuccess = log[Len(log)].at
      /\ log = <<>> => lastSuccess = None
  BY DEF HistoryDated
<1>3. lastSuccess # None <=> log # <<>>
  <2>1. log # <<>> => log[Len(log)] \in Readouts
    BY DEF HTypeOK
  <2> QED
    BY <2>1, <1>2, EvidenceAssumption DEF Readouts
<1> QED
  BY <1>1, <1>2, <1>3 DEF AfterLongGap, Severed

\* A frame as the history sees it and as the guard sees it.
LEMMA FrameFacts ==
  ASSUME IInv, NEW v \in Readings \cup {Absent}, NEW t \in Nat,
         NEW f, f = Entry(v, t)
  PROVE  /\ f \in Readouts
         /\ f.at = t /\ f.interval = interval /\ f.value = v
         /\ Threshold \in Nat /\ Threshold <= MinCurrent
         /\ streak \in Nat /\ since \in Nat \cup {None}
         /\ StreakKept(t) = Kept(log, f, streak, 0)
         /\ SinceKept(t) = Kept(log, f, since, None)
         /\ v # Absent => v \in Nat
         /\ IsLow(f, Threshold) <=> v # Absent /\ Implausible(v)
<1>1. HTypeOK /\ TypeOK /\ HistoryDated
  BY DEF IInv, HTypeOK
<1>2. f \in Readouts
  BY <1>1, SetpointAssumption DEF TypeOK, Entry, Readouts
<1>3. f.at = t /\ f.interval = interval /\ f.value = v
  BY DEF Entry
<1>4. Threshold \in Nat /\ Threshold <= MinCurrent
  BY <1>1, SetpointAssumption DEF TypeOK, Threshold, HistoryDated
<1>5. streak \in Nat /\ since \in Nat \cup {None}
  BY <1>1 DEF TypeOK
<1>6. AfterLongGap(t) <=> Severed(log, f)
  BY <1>1, LongGapSevers
<1>7. v # Absent => v \in Nat
  BY SetpointAssumption
<1>8. IsLow(f, Threshold) <=> v # Absent /\ Implausible(v)
  BY <1>3, <1>4, <1>7, SetpointAssumption DEF Implausible, IsLow
<1> QED
  BY <1>2, <1>3, <1>4, <1>5, <1>6, <1>7, <1>8 DEF StreakKept, SinceKept, Kept

\* A poll keeps count and stamp in step with the history.
LEMMA PollKeepsIInv ==
  ASSUME IInv, NEW v \in Readings \cup {Absent}, NEW gap \in Gaps,
         HPoll(v, clock + gap)
  PROVE  IInv'
<1> DEFINE t == clock + gap
           f == Entry(v, t)
<1>1. t \in Nat /\ clock \in Nat /\ clock <= t
  BY SetpointAssumption DEF IInv, HTypeOK, TypeOK
<1>2. Poll(v, t) /\ log' = Append(log, f)
  BY DEF HPoll, Entry
<1>3. /\ f \in Readouts
      /\ f.at = t /\ f.interval = interval /\ f.value = v
      /\ Threshold \in Nat /\ Threshold <= MinCurrent
      /\ streak \in Nat /\ since \in Nat \cup {None}
      /\ StreakKept(t) = Kept(log, f, streak, 0)
      /\ SinceKept(t) = Kept(log, f, since, None)
      /\ v # Absent => v \in Nat
      /\ IsLow(f, Threshold) <=> v # Absent /\ Implausible(v)
  BY <1>1, FrameFacts
<1>4. log \in Seq(Readouts) /\ Tallied(log, Threshold, streak, since)
  BY DEF IInv, HTypeOK, EvidenceIsHistory
<1>5. Judge(v, t)
  BY <1>2 DEF Poll
<1> HIDE DEF f, t
<1>6. HTypeOK'
  <2>1. TypeOK'
    BY <1>1, <1>2, PollType DEF IInv, HTypeOK
  <2> QED
    BY <2>1, <1>2, <1>3, <1>4 DEF HTypeOK
<1>7. \A i \in 1..Len(log) : log[i].at <= clock /\ log[i].at \in Nat
  <2>1. \A i \in 1..Len(log) : log[i] \in Readouts
    BY <1>4
  <2> QED
    BY <2>1 DEF IInv, HistoryDated, Readouts
<1>8. HistoryDated'
  <2>1. clock' = t /\ lastSuccess' = t
    BY <1>2 DEF Poll
  <2>2. /\ Len(log') = Len(log) + 1 /\ log'[Len(log')] = f /\ log' # <<>>
        /\ \A i \in 1..Len(log) : log'[i] = log[i]
        /\ \A i \in 1..Len(log') : i \in 1..Len(log) \/ i = Len(log')
    BY <1>2, <1>3, <1>4
  <2>3. floor' # None => floor' < MinCurrent
    <3>1. floor # None => floor < MinCurrent
      BY DEF IInv, HistoryDated
    <3> QED
      BY <1>5, <3>1 DEF Judge, Missing, Normal, AtFloor, Believe, HoldBack, Implausible
  <2> QED
    BY <2>1, <2>2, <2>3, <1>7, <1>1, <1>3 DEF HistoryDated
<1>9. EvidenceIsHistory'
  <2>1. ASSUME streak' = 0, since' = None, Clears(f, Threshold'), Threshold' \in Nat
        PROVE  EvidenceIsHistory'
    BY <2>1, <1>2, <1>3, <1>4, TallyCleared DEF EvidenceIsHistory
  <2>2. CASE Missing(v, t)
    <3>1. Threshold' = Threshold /\ f.value = Absent
      BY <2>2, <1>3 DEF Missing, Threshold
    <3>2. Tallied(log', Threshold, StreakKept(t), SinceKept(t))
      BY <3>1, <1>2, <1>3, <1>4, TallyKept
    <3> QED
      BY <2>2, <3>1, <3>2 DEF Missing, EvidenceIsHistory
  <2>3. CASE Normal(v)
    <3>1. Threshold' = MinCurrent
      BY <2>3 DEF Normal, Threshold
    <3>2. Clears(f, Threshold') /\ Threshold' \in Nat
      BY <2>3, <3>1, <1>3, SetpointAssumption DEF Normal, Clears
    <3> QED
      BY <2>3, <3>2, <2>1 DEF Normal, ClearEvidence
  <2>4. CASE AtFloor(v)
    <3>1. Threshold' = Threshold
      BY <2>4 DEF AtFloor, Threshold
    <3>2. Clears(f, Threshold') /\ Threshold' \in Nat
      BY <2>4, <3>1, <1>3 DEF AtFloor, Implausible, Clears
    <3> QED
      BY <2>4, <3>2, <2>1 DEF AtFloor, ClearEvidence
  <2>5. CASE Believe(v, t)
    <3>1. Threshold' = v
      BY <2>5, <1>3, EvidenceAssumption DEF Believe, Threshold
    <3>2. Clears(f, Threshold') /\ Threshold' \in Nat
      BY <2>5, <3>1, <1>3 DEF Believe, Clears
    <3> QED
      BY <2>5, <3>2, <2>1 DEF Believe, ClearEvidence
  <2>6. CASE HoldBack(v, t)
    <3>1. Threshold' = Threshold /\ IsLow(f, Threshold)
      BY <2>6, <1>3 DEF HoldBack, Threshold
    <3>2. \A i \in 1..Len(log) : log[i].at <= f.at
      BY <1>7, <1>1, <1>3
    <3>3. Tallied(log', Threshold, StreakKept(t) + 1, FirstSeen(t))
      BY <3>1, <3>2, <1>2, <1>3, <1>4, TallyGrown DEF FirstSeen
    <3> QED
      BY <2>6, <3>1, <3>3 DEF HoldBack, EvidenceIsHistory
  <2> QED
    BY <1>5, <2>2, <2>3, <2>4, <2>5, <2>6 DEF Judge
<1> QED
  BY <1>6, <1>8, <1>9 DEF IInv

\* The inductive invariant: types, the dates of the history, and the tally.
THEOREM Invariance == HSpec => []IInv
<1>1. HInit => IInv
  <2> SUFFICES ASSUME HInit
               PROVE  IInv
    OBVIOUS
  <2>1. TypeOK /\ log = <<>> /\ streak = 0 /\ since = None
    BY DEF HInit, Init, GuardInit, TypeOK
  <2>2. HistoryDated
    BY <2>1 DEF HInit, Init, GuardInit, HistoryDated
  <2>3. EvidenceIsHistory
    BY <2>1, EmptyHistory DEF EvidenceIsHistory
  <2> QED
    BY <2>1, <2>2, <2>3 DEF IInv, HTypeOK
<1>2. IInv /\ [HNext]_hvars => IInv'
  <2> SUFFICES ASSUME IInv, [HNext]_hvars
               PROVE  IInv'
    OBVIOUS
  <2>1. ASSUME NEW v \in Readings \cup {Absent}, NEW gap \in Gaps,
               HPoll(v, clock + gap)
        PROVE  IInv'
    BY <2>1, PollKeepsIInv
  <2>2. CASE HRestart
    <3>1. TypeOK' /\ log' = <<>> /\ streak' = 0 /\ since' = None
      BY <2>2 DEF HRestart, Restart, TypeOK
    <3>2. HistoryDated'
      BY <2>2 DEF HRestart, Restart, HistoryDated
    <3>3. EvidenceIsHistory'
      BY <3>1, EmptyHistory DEF EvidenceIsHistory
    <3> QED
      BY <3>1, <3>2, <3>3 DEF IInv, HTypeOK
  <2>3. CASE UNCHANGED hvars
    BY <2>3 DEF hvars, IInv, HTypeOK, TypeOK, HistoryDated, EvidenceIsHistory, Threshold
  <2> QED
    BY <2>1, <2>2, <2>3 DEF HNext
<1> QED
  BY <1>1, <1>2, PTL DEF HSpec

\* The count and the stamp of the guard are those of the unbroken run of low
\* frames its history ends in, in every reachable state.
THEOREM EvidenceCorrect == HSpec => []EvidenceIsHistory
BY Invariance, PTL DEF IInv

\* The guard and the history of the frames it judged keep their types.
THEOREM HistoryTypes == HSpec => []HTypeOK
BY Invariance, PTL DEF IInv

-----------------------------------------------------------------------------
\* A poll is a step of Corroboration: an implausible setpoint reaches the
\* entities if and only if the history corroborates it.
LEMMA PollCorroborates ==
  ASSUME IInv, NEW v \in Readings \cup {Absent}, NEW gap \in Gaps,
         HPoll(v, clock + gap)
  PROVE  Abs!CorNext
<1> DEFINE t == clock + gap
           f == Entry(v, t)
<1>1. t \in Nat
  BY SetpointAssumption DEF IInv, HTypeOK, TypeOK
<1>2. Judge(v, t) /\ log' = Append(log, f)
  BY DEF HPoll, Poll, Entry
<1>3. /\ f \in Readouts
      /\ f.at = t /\ f.interval = interval /\ f.value = v
      /\ Threshold \in Nat /\ Threshold <= MinCurrent
      /\ streak \in Nat /\ since \in Nat \cup {None}
      /\ StreakKept(t) = Kept(log, f, streak, 0)
      /\ SinceKept(t) = Kept(log, f, since, None)
      /\ v # Absent => v \in Nat
      /\ IsLow(f, Threshold) <=> v # Absent /\ Implausible(v)
  BY <1>1, FrameFacts
<1>4. log \in Seq(Readouts) /\ Tallied(log, Threshold, streak, since)
  BY DEF IInv, HTypeOK, EvidenceIsHistory
<1> HIDE DEF f, t
<1>5. IsLow(f, Threshold) => (Confirmed(t) <=> Corroborated(log', Threshold))
  <2>1. SUFFICES ASSUME IsLow(f, Threshold)
                 PROVE  Confirmed(t) <=> Corroborated(log', Threshold)
    OBVIOUS
  <2>2. Corroborated(log', Threshold) <=>
          StreakKept(t) + 1 >= 2 /\ f.at - FirstSeen(t) >= f.interval
    BY <2>1, <1>2, <1>3, <1>4, TallyDecides DEF FirstSeen
  <2> QED
    BY <2>2, <1>3 DEF Confirmed, ConfirmFrames
<1>6. Abs!Latest(log') = f /\ log' # <<>>
  BY <1>2, <1>3, <1>4 DEF Abs!Latest
<1>7. f \in Abs!Readouts
  BY <1>3 DEF Readouts, Abs!Readouts
<1>8. Abs!Corroborated(log', Threshold) <=> Corroborated(log', Threshold)
  BY DEF Abs!Corroborated, Corroborated, Abs!Unbroken, Unbroken,
         Abs!IsLow, IsLow, Abs!Clears, Clears
<1>9. Abs!IsLow(f, Threshold) <=> IsLow(f, Threshold)
  BY DEF Abs!IsLow, IsLow
<1>10. SUFFICES \/ Abs!NothingToJudge(f) \/ Abs!Plausible(f)
                \/ Abs!Believed(f) \/ Abs!Doubted(f)
  BY <1>2, <1>6, <1>7 DEF Abs!CorNext, Abs!Observe
<1>11. CASE Missing(v, t)
  BY <1>11, <1>3 DEF Missing, Abs!NothingToJudge, Threshold
<1>12. CASE Normal(v)
  <2>1. Threshold' = MinCurrent
    BY <1>12 DEF Normal, Threshold
  <2>2. MinCurrent \in Threshold..v /\ v >= Threshold
    BY <1>12, <1>3, SetpointAssumption DEF Normal
  <2> QED
    BY <1>12, <1>3, <2>1, <2>2 DEF Normal, Abs!Plausible, Abs!Clears
<1>13. CASE AtFloor(v)
  <2>1. Threshold' = Threshold
    BY <1>13 DEF AtFloor, Threshold
  <2>2. v >= Threshold /\ Threshold \in Threshold..v
    BY <1>13, <1>3 DEF AtFloor, Implausible
  <2> QED
    BY <1>13, <1>3, <2>1, <2>2 DEF AtFloor, Abs!Plausible, Abs!Clears
<1>14. CASE Believe(v, t)
  <2>1. Threshold' = v
    BY <1>14, <1>3, EvidenceAssumption DEF Believe, Threshold
  <2>2. IsLow(f, Threshold) /\ Confirmed(t) /\ shown' = v
    BY <1>14, <1>3 DEF Believe
  <2> QED
    BY <2>1, <2>2, <1>3, <1>5, <1>8, <1>9 DEF Abs!Believed
<1>15. CASE HoldBack(v, t)
  <2>1. Threshold' = Threshold
    BY <1>15 DEF HoldBack, Threshold
  <2>2. IsLow(f, Threshold) /\ ~Confirmed(t) /\ shown' = Held
    BY <1>15, <1>3 DEF HoldBack
  <2> QED
    BY <2>1, <2>2, <1>5, <1>8, <1>9 DEF Abs!Doubted
<1> QED
  BY <1>2, <1>11, <1>12, <1>13, <1>14, <1>15 DEF Judge

\* SetpointGuard, which keeps a floor, a count and one stamp, implements
\* Corroboration, which keeps the whole history.
THEOREM Implements == HSpec => Corroborates
<1>1. HInit => Abs!CorInit
  BY SetpointAssumption DEF HInit, Init, GuardInit, Abs!CorInit, Threshold
<1>2. IInv /\ [HNext]_hvars => [Abs!CorNext]_(Abs!corVars)
  <2> SUFFICES ASSUME IInv, [HNext]_hvars
               PROVE  [Abs!CorNext]_(Abs!corVars)
    OBVIOUS
  <2>1. ASSUME NEW v \in Readings \cup {Absent}, NEW gap \in Gaps,
               HPoll(v, clock + gap)
        PROVE  Abs!CorNext
    BY <2>1, PollCorroborates
  <2>2. CASE HRestart
    BY <2>2, SetpointAssumption DEF HRestart, Restart, Abs!CorNext, Abs!Forget, Threshold
  <2>3. CASE UNCHANGED hvars
    BY <2>3 DEF hvars, Abs!corVars, Threshold
  <2> QED
    BY <2>1, <2>2, <2>3 DEF HNext
<1> QED
  BY <1>1, <1>2, Invariance, PTL DEF HSpec, Corroborates, Abs!CorSpec
=============================================================================
