------------------------- MODULE CounterGuardProofs -------------------------
(* The counter guard decides as the whole history would: proofs for every   *)
(* set of counters and readings, every interval and gap, every history.     *)
EXTENDS CounterGuardHistory, EvidenceProofs

IInv == HTypeOK /\ HistoryDated /\ EvidenceIsHistory

\* The entry HPoll appends to the history.
Entry(frame, t) == [at |-> t, interval |-> interval, value |-> frame[Tracked]]

\* A history entry is well-typed.
LEMMA EntryType ==
  ASSUME TypeOK, NEW frame \in Frames, NEW t \in Nat
  PROVE  Entry(frame, t) \in Readouts
BY CounterAssumption, HistoryAssumption DEF TypeOK, Frames, Entry, Readouts

\* A poll leaves the variables of the guard well-typed.
LEMMA PollType ==
  ASSUME TypeOK, NEW frame \in Frames, NEW t \in Nat, Poll(frame, t)
  PROVE  TypeOK'
<1>1. \A k \in Counters : frame[k] \in Nat \cup {Absent}
  BY CounterAssumption DEF Frames
<1>2. \A k \in Taken(frame, t) : k \in Counters /\ frame[k] \in Nat
  BY <1>1 DEF Taken
<1>3. \A k \in Counters :
        /\ StreakKept(k, t) \in Nat
        /\ SinceKept(k, t) \in Nat \cup {None}
        /\ FirstSeen(k, t) \in Nat
  BY DEF TypeOK, StreakKept, SinceKept, FirstSeen
<1>4. clock' \in Nat /\ lastSuccess' \in Nat \cup {None} /\ interval' \in Intervals
  BY DEF Poll
<1>5. last' \in [Counters -> Nat \cup {None}]
  BY <1>2 DEF Poll, Judge, TypeOK
<1>6. streak' \in [Counters -> Nat]
  BY <1>3 DEF Poll, Judge
<1>7. since' \in [Counters -> Nat \cup {None}]
  BY <1>3 DEF Poll, Judge
<1>8. shown' \in [Counters -> Nat \cup {Absent, Held}]
  BY <1>2 DEF Poll, Judge
<1> QED
  BY <1>4, <1>5, <1>6, <1>7, <1>8 DEF TypeOK

\* Every value of the guard and of the clock around it has its type.
THEOREM TypeCorrect == Spec => []TypeOK
<1>1. Init => TypeOK
  BY DEF Init, GuardInit, TypeOK
<1>2. TypeOK /\ [Next]_vars => TypeOK'
  <2> SUFFICES ASSUME TypeOK, [Next]_vars
               PROVE  TypeOK'
    OBVIOUS
  <2>1. ASSUME NEW frame \in Frames, NEW gap \in Gaps, Poll(frame, clock + gap)
        PROVE  TypeOK'
    <3>1. clock + gap \in Nat
      BY CounterAssumption DEF TypeOK
    <3> QED
      BY <2>1, <3>1, PollType
  <2>2. CASE Restart
    BY <2>2 DEF Restart, TypeOK
  <2>3. CASE UNCHANGED vars
    BY <2>3 DEF vars, TypeOK
  <2> QED
    BY <2>1, <2>2, <2>3 DEF Next
<1> QED
  BY <1>1, <1>2, PTL DEF Spec

-----------------------------------------------------------------------------
\* A silence the guard notices is one that severs the evidence.
LEMMA LongGapSevers ==
  ASSUME HTypeOK, HistoryDated, NEW frame \in Frames, NEW t \in Nat
  PROVE  AfterLongGap(t) <=> Severed(log, Entry(frame, t))
<1>1. Entry(frame, t).at = t
  BY DEF Entry
<1>2. log # <<>> => lastSuccess = log[Len(log)].at
  BY DEF HistoryDated
<1>3. log = <<>> => lastSuccess = None
  BY DEF HistoryDated
<1>4. lastSuccess # None <=> log # <<>>
  <2>1. log # <<>> => log[Len(log)] \in Readouts
    BY DEF HTypeOK
  <2> QED
    BY <2>1, <1>2, <1>3, EvidenceAssumption DEF Readouts
<1> QED
  BY <1>1, <1>2, <1>4 DEF AfterLongGap, Severed

\* What one poll does to the counter the history follows.
LEMMA TrackedEffect ==
  ASSUME IInv, NEW frame \in Frames, NEW t \in Nat, Poll(frame, t),
         NEW f, f = Entry(frame, t)
  PROVE  /\ f \in Readouts
         /\ f.at = t /\ f.interval = interval /\ f.value = frame[Tracked]
         /\ Bar \in Nat
         /\ streak[Tracked] \in Nat /\ since[Tracked] \in Nat \cup {None}
         /\ StreakKept(Tracked, t) = Kept(log, f, streak[Tracked], 0)
         /\ SinceKept(Tracked, t) = Kept(log, f, since[Tracked], None)
         /\ SteppedDown(Tracked, f.value) <=> IsLow(f, Bar)
<1>1. HTypeOK /\ TypeOK /\ HistoryDated
  BY DEF IInv, HTypeOK
<1>2. f \in Readouts
  BY <1>1, EntryType
<1>3. f.at = t /\ f.interval = interval /\ f.value = frame[Tracked]
  BY DEF Entry
<1>4. Bar \in Nat /\ streak[Tracked] \in Nat /\ since[Tracked] \in Nat \cup {None}
  BY <1>1, HistoryAssumption DEF TypeOK, Bar
<1>5. AfterLongGap(t) <=> Severed(log, f)
  BY <1>1, LongGapSevers
<1>6. SteppedDown(Tracked, f.value) <=> IsLow(f, Bar)
  BY <1>2 DEF SteppedDown, IsLow, Bar, Readouts
<1> QED
  BY <1>2, <1>3, <1>4, <1>5, <1>6 DEF StreakKept, SinceKept, Kept

\* A poll keeps count and stamp in step with the history.
LEMMA PollKeepsIInv ==
  ASSUME IInv, NEW frame \in Frames, NEW gap \in Gaps, HPoll(frame, clock + gap)
  PROVE  IInv'
<1> DEFINE t == clock + gap
           f == Entry(frame, t)
<1>1. t \in Nat /\ clock <= t
  BY CounterAssumption DEF IInv, HTypeOK, TypeOK
<1>2. Poll(frame, t) /\ log' = Append(log, f)
  BY DEF HPoll, Entry
<1>3. /\ f \in Readouts
      /\ f.at = t /\ f.interval = interval /\ f.value = frame[Tracked]
      /\ Bar \in Nat
      /\ streak[Tracked] \in Nat /\ since[Tracked] \in Nat \cup {None}
      /\ StreakKept(Tracked, t) = Kept(log, f, streak[Tracked], 0)
      /\ SinceKept(Tracked, t) = Kept(log, f, since[Tracked], None)
      /\ SteppedDown(Tracked, f.value) <=> IsLow(f, Bar)
  BY <1>1, <1>2, TrackedEffect
<1>4. log \in Seq(Readouts) /\ Tallied(log, Bar, streak[Tracked], since[Tracked])
  BY DEF IInv, HTypeOK, EvidenceIsHistory
<1>5. Tracked \in Counters
  BY HistoryAssumption
<1> HIDE DEF f, t
<1>6. HTypeOK'
  <2>1. TypeOK'
    BY <1>1, <1>2, PollType DEF IInv, HTypeOK
  <2> QED
    BY <2>1, <1>2, <1>3, <1>4 DEF HTypeOK
<1>7. HistoryDated'
  <2>1. clock' = t /\ lastSuccess' = t
    BY <1>2 DEF Poll
  <2>2. /\ Len(log') = Len(log) + 1 /\ log'[Len(log')] = f /\ log' # <<>>
        /\ \A i \in 1..Len(log) : log'[i] = log[i] /\ log[i] \in Readouts
        /\ \A i \in 1..Len(log') : i \in 1..Len(log) \/ i = Len(log')
    BY <1>2, <1>3, <1>4
  <2>3. \A i \in 1..Len(log) : log[i].at <= clock /\ log[i].at \in Nat
    BY <2>2 DEF IInv, HistoryDated, Readouts
  <2>4. clock \in Nat
    BY DEF IInv, HTypeOK, TypeOK
  <2> QED
    BY <2>1, <2>2, <2>3, <2>4, <1>1, <1>3 DEF HistoryDated
<1>8. EvidenceIsHistory'
  <2>1. CASE Tracked \in Taken(frame, t)
    <3>1. last'[Tracked] = f.value /\ streak'[Tracked] = 0 /\ since'[Tracked] = None
      BY <2>1, <1>2, <1>3, <1>5 DEF Poll, Judge
    <3>2. f.value # Absent /\ f.value \in Nat
      BY <2>1, <1>3 DEF Taken, Readouts
    <3>3. Bar' = f.value /\ Clears(f, Bar')
      BY <3>1, <3>2, EvidenceAssumption DEF Bar, Clears
    <3> QED
      BY <3>1, <3>2, <3>3, <1>2, <1>3, <1>4, TallyCleared DEF EvidenceIsHistory
  <2>2. CASE Tracked \in HeldBack(frame, t)
    <3>1. Tracked \notin Taken(frame, t) /\ IsLow(f, Bar)
      BY <2>2, <1>3 DEF Taken, HeldBack
    <3>2. /\ last'[Tracked] = last[Tracked]
          /\ streak'[Tracked] = StreakKept(Tracked, t) + 1
          /\ since'[Tracked] = FirstSeen(Tracked, t)
      BY <2>2, <3>1, <1>2, <1>5 DEF Poll, Judge
    <3>3. Bar' = Bar
      BY <3>2 DEF Bar
    <3>4. \A i \in 1..Len(log) : log[i].at <= f.at
      <4>1. \A i \in 1..Len(log) : log[i] \in Readouts
        BY <1>4
      <4> QED
        BY <4>1, <1>1, <1>3 DEF IInv, HTypeOK, TypeOK, HistoryDated, Readouts
    <3>5. Tallied(log', Bar, StreakKept(Tracked, t) + 1, FirstSeen(Tracked, t))
      BY <3>1, <3>4, <1>2, <1>3, <1>4, TallyGrown DEF FirstSeen
    <3> QED
      BY <3>2, <3>3, <3>5 DEF EvidenceIsHistory
  <2>3. CASE Tracked \notin Taken(frame, t) /\ Tracked \notin HeldBack(frame, t)
    <3>1. f.value = Absent
      BY <2>3, <1>3, <1>5 DEF Taken
    <3>2. /\ last'[Tracked] = last[Tracked]
          /\ streak'[Tracked] = StreakKept(Tracked, t)
          /\ since'[Tracked] = SinceKept(Tracked, t)
      BY <2>3, <1>2, <1>5 DEF Poll, Judge
    <3>3. Bar' = Bar
      BY <3>2 DEF Bar
    <3>4. Tallied(log', Bar, StreakKept(Tracked, t), SinceKept(Tracked, t))
      BY <3>1, <1>2, <1>3, <1>4, TallyKept
    <3> QED
      BY <3>2, <3>3, <3>4 DEF EvidenceIsHistory
  <2> QED
    BY <2>1, <2>2, <2>3
<1> QED
  BY <1>6, <1>7, <1>8 DEF IInv

\* The inductive invariant: types, the dates of the history, and the tally.
THEOREM Invariance == HSpec => []IInv
<1>1. HInit => IInv
  <2> SUFFICES ASSUME HInit
               PROVE  IInv
    OBVIOUS
  <2>1. TypeOK /\ log = <<>> /\ streak[Tracked] = 0 /\ since[Tracked] = None
    BY HistoryAssumption DEF HInit, Init, GuardInit, TypeOK
  <2>2. HistoryDated
    BY <2>1 DEF HInit, Init, HistoryDated
  <2>3. EvidenceIsHistory
    BY <2>1, EmptyHistory DEF EvidenceIsHistory
  <2> QED
    BY <2>1, <2>2, <2>3 DEF IInv, HTypeOK
<1>2. IInv /\ [HNext]_hvars => IInv'
  <2> SUFFICES ASSUME IInv, [HNext]_hvars
               PROVE  IInv'
    OBVIOUS
  <2>1. ASSUME NEW frame \in Frames, NEW gap \in Gaps, HPoll(frame, clock + gap)
        PROVE  IInv'
    BY <2>1, PollKeepsIInv
  <2>2. CASE HRestart
    <3>1. TypeOK' /\ log' = <<>> /\ streak'[Tracked] = 0 /\ since'[Tracked] = None
      BY <2>2, HistoryAssumption DEF HRestart, Restart, TypeOK
    <3>2. HistoryDated'
      BY <2>2 DEF HRestart, Restart, HistoryDated
    <3>3. EvidenceIsHistory'
      BY <3>1, EmptyHistory DEF EvidenceIsHistory
    <3> QED
      BY <3>1, <3>2, <3>3 DEF IInv, HTypeOK
  <2>3. CASE UNCHANGED hvars
    BY <2>3 DEF hvars, IInv, HTypeOK, TypeOK, HistoryDated, EvidenceIsHistory, Bar
  <2> QED
    BY <2>1, <2>2, <2>3 DEF HNext
<1> QED
  BY <1>1, <1>2, PTL DEF HSpec

\* The count and the stamp of the guard are those of the unbroken run of low
\* frames its history ends in, in every reachable state.
THEOREM EvidenceCorrect == HSpec => []EvidenceIsHistory
BY Invariance, PTL DEF IInv

\* The guard and the history of the frames it judged keep their types.
THEOREM HistoryTypes == HSpec => []HTypeOK
BY Invariance, PTL DEF IInv

-----------------------------------------------------------------------------
\* A poll is a step of Corroboration: the guard believes a lower counter if
\* and only if the history corroborates it.
LEMMA PollCorroborates ==
  ASSUME IInv, NEW frame \in Frames, NEW gap \in Gaps, HPoll(frame, clock + gap)
  PROVE  Abs!CorNext
<1> DEFINE t == clock + gap
           f == Entry(frame, t)
<1>1. t \in Nat
  BY CounterAssumption DEF IInv, HTypeOK, TypeOK
<1>2. Poll(frame, t) /\ log' = Append(log, f)
  BY DEF HPoll, Entry
<1>3. /\ f \in Readouts
      /\ f.at = t /\ f.interval = interval /\ f.value = frame[Tracked]
      /\ Bar \in Nat
      /\ streak[Tracked] \in Nat /\ since[Tracked] \in Nat \cup {None}
      /\ StreakKept(Tracked, t) = Kept(log, f, streak[Tracked], 0)
      /\ SinceKept(Tracked, t) = Kept(log, f, since[Tracked], None)
      /\ SteppedDown(Tracked, f.value) <=> IsLow(f, Bar)
  BY <1>1, <1>2, TrackedEffect
<1>4. log \in Seq(Readouts) /\ Tallied(log, Bar, streak[Tracked], since[Tracked])
  BY DEF IInv, HTypeOK, EvidenceIsHistory
<1>5. Tracked \in Counters
  BY HistoryAssumption
<1> HIDE DEF f, t
<1>6. IsLow(f, Bar) => (Confirmed(Tracked, t) <=> Corroborated(log', Bar))
  <2>1. StreakKept(Tracked, t) \in Nat
    BY <1>3 DEF Kept
  <2>2. SUFFICES ASSUME IsLow(f, Bar)
                 PROVE  Confirmed(Tracked, t) <=> Corroborated(log', Bar)
    OBVIOUS
  <2>3. Corroborated(log', Bar) <=>
          /\ StreakKept(Tracked, t) + 1 >= 2
          /\ f.at - FirstSeen(Tracked, t) >= f.interval
    BY <2>2, <1>2, <1>3, <1>4, TallyDecides DEF FirstSeen
  <2> QED
    BY <2>3, <1>3 DEF Confirmed, ConfirmFrames
<1>7. Abs!Latest(log') = f /\ log' # <<>>
  BY <1>2, <1>3, <1>4 DEF Abs!Latest
<1>8. f \in Abs!Readouts
  BY <1>3 DEF Readouts, Abs!Readouts
<1>9. Abs!Corroborated(log', Bar) <=> Corroborated(log', Bar)
  BY DEF Abs!Corroborated, Corroborated, Abs!Unbroken, Unbroken,
         Abs!IsLow, IsLow, Abs!Clears, Clears
<1>10. CASE f.value = Absent
  <2>1. Tracked \notin Taken(frame, t) /\ Tracked \notin HeldBack(frame, t)
    BY <1>10, <1>3 DEF Taken, HeldBack, SteppedDown
  <2>2. shown'[Tracked] = Absent /\ last'[Tracked] = last[Tracked]
    BY <2>1, <1>2, <1>5 DEF Poll, Judge
  <2>3. Abs!NothingToJudge(f)
    BY <1>10, <2>2 DEF Abs!NothingToJudge, Bar
  <2> QED
    BY <2>3, <1>2, <1>7, <1>8 DEF Abs!CorNext, Abs!Observe
<1>11. CASE f.value # Absent /\ ~IsLow(f, Bar)
  <2>1. Tracked \in Taken(frame, t)
    BY <1>11, <1>3, <1>5 DEF Taken, HeldBack
  <2>2. shown'[Tracked] = f.value /\ last'[Tracked] = f.value
    BY <2>1, <1>2, <1>3, <1>5 DEF Poll, Judge
  <2>3. f.value \in Nat /\ Bar <= f.value
    BY <1>11, <1>3 DEF Readouts, IsLow
  <2>4. Bar' = f.value
    BY <2>2, <2>3, EvidenceAssumption DEF Bar
  <2>5. Abs!Plausible(f)
    BY <1>11, <1>3, <2>2, <2>3, <2>4 DEF Abs!Plausible, Abs!Clears
  <2> QED
    BY <2>5, <1>2, <1>7, <1>8 DEF Abs!CorNext, Abs!Observe
<1>12. CASE IsLow(f, Bar) /\ Confirmed(Tracked, t)
  <2>1. Tracked \in Taken(frame, t)
    BY <1>12, <1>3, <1>5 DEF Taken, HeldBack, IsLow
  <2>2. shown'[Tracked] = f.value /\ last'[Tracked] = f.value
    BY <2>1, <1>2, <1>3, <1>5 DEF Poll, Judge
  <2>3. Bar' = f.value
    BY <2>2, <1>3, <1>12, EvidenceAssumption DEF Bar, IsLow, Readouts
  <2>4. Abs!Believed(f)
    BY <1>6, <1>9, <1>12, <2>2, <2>3 DEF Abs!Believed, Abs!IsLow, IsLow
  <2> QED
    BY <2>4, <1>2, <1>7, <1>8 DEF Abs!CorNext, Abs!Observe
<1>13. CASE IsLow(f, Bar) /\ ~Confirmed(Tracked, t)
  <2>1. Tracked \in HeldBack(frame, t) /\ Tracked \notin Taken(frame, t)
    BY <1>13, <1>3, <1>5 DEF Taken, HeldBack
  <2>2. shown'[Tracked] = Held /\ last'[Tracked] = last[Tracked]
    BY <2>1, <1>2, <1>5 DEF Poll, Judge
  <2>3. Abs!Doubted(f)
    BY <1>6, <1>9, <1>13, <2>2 DEF Abs!Doubted, Abs!IsLow, IsLow, Bar
  <2> QED
    BY <2>3, <1>2, <1>7, <1>8 DEF Abs!CorNext, Abs!Observe
<1> QED
  BY <1>10, <1>11, <1>12, <1>13

\* CounterGuard, which keeps a value, a count and one stamp per counter,
\* implements Corroboration, which keeps the whole history.
THEOREM Implements == HSpec => Corroborates
<1>1. HInit => Abs!CorInit
  BY HistoryAssumption DEF HInit, Init, GuardInit, Abs!CorInit, Bar
<1>2. IInv /\ [HNext]_hvars => [Abs!CorNext]_(Abs!corVars)
  <2> SUFFICES ASSUME IInv, [HNext]_hvars
               PROVE  [Abs!CorNext]_(Abs!corVars)
    OBVIOUS
  <2>1. ASSUME NEW frame \in Frames, NEW gap \in Gaps, HPoll(frame, clock + gap)
        PROVE  Abs!CorNext
    BY <2>1, PollCorroborates
  <2>2. CASE HRestart
    BY <2>2, HistoryAssumption DEF HRestart, Restart, Abs!CorNext, Abs!Forget, Bar
  <2>3. CASE UNCHANGED hvars
    BY <2>3 DEF hvars, Abs!corVars, Bar
  <2> QED
    BY <2>1, <2>2, <2>3 DEF HNext
<1> QED
  BY <1>1, <1>2, Invariance, PTL DEF HSpec, Corroborates, Abs!CorSpec
=============================================================================
