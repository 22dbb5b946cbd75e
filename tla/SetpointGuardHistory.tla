------------------------ MODULE SetpointGuardHistory ------------------------
(* SetpointGuard with a history variable: every frame currentSet was read   *)
(* from.  The guard has to decide as Corroboration does from the whole      *)
(* history.                                                                 *)
EXTENDS SetpointGuard

CONSTANT MaxFrames   \* bound on the history, for model checking

ASSUME HistoryAssumption == MaxFrames \in Nat

VARIABLE log         \* history: the frames since the coordinator was built

hvars == <<clock, lastSuccess, interval, floor, streak, since, shown, log>>

HInit == Init /\ log = <<>>

HPoll(v, t) ==
  /\ Len(log) < MaxFrames
  /\ Poll(v, t)
  /\ log' = Append(log, [at |-> t, interval |-> interval, value |-> v])

HRestart == Restart /\ log' = <<>>

HNext ==
  \/ \E v \in Readings \cup {Absent}, gap \in Gaps : HPoll(v, clock + gap)
  \/ HRestart

HSpec == HInit /\ [][HNext]_hvars


Abs == INSTANCE Corroboration WITH bar <- Threshold

HTypeOK == TypeOK /\ log \in Seq(Readouts)

\* No frame of the history lies in the future, the latest dates _last_success,
\* and a confirmed floor is below the minimum.
HistoryDated ==
  /\ \A i \in 1..Len(log) : log[i].at <= clock
  /\ lastSuccess = IF log = <<>> THEN None ELSE log[Len(log)].at
  /\ floor # None => floor < MinCurrent

\* The count and the time stamp _drop_implausible_setpoint keeps are those of
\* the unbroken run of low frames the history ends in.  If a stamp survived the
\* confirmation of a floor, the guard would have switched itself off: the next
\* boot zero would confirm on its first frame.
EvidenceIsHistory == Tallied(log, Threshold, streak, since)

\* An implausible setpoint reaches the entities exactly when the history
\* corroborates it: a boot artefact never steers an automation, and a station
\* that really sits below the minimum is not hidden for ever.
Corroborates == Abs!CorSpec
=============================================================================
