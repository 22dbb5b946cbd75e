------------------------ MODULE CounterGuardHistory ------------------------
(* CounterGuard with a history variable: every frame one counter was read   *)
(* from.  The guard, which keeps a value, a count and one time stamp, has   *)
(* to decide as Corroboration does from the whole history.                  *)
EXTENDS CounterGuard

CONSTANTS Tracked,    \* any one of the counters
          MaxFrames   \* bound on the history, for model checking

ASSUME HistoryAssumption == Tracked \in Counters /\ MaxFrames \in Nat

VARIABLE log         \* history: the frames since the coordinator was built

hvars == <<clock, lastSuccess, interval, last, streak, since, shown, log>>

HInit == Init /\ log = <<>>

HPoll(frame, t) ==
  /\ Len(log) < MaxFrames
  /\ Poll(frame, t)
  /\ log' = Append(log, [at |-> t, interval |-> interval, value |-> frame[Tracked]])

HRestart == Restart /\ log' = <<>>

HNext ==
  \/ \E frame \in Frames, gap \in Gaps : HPoll(frame, clock + gap)
  \/ HRestart

HSpec == HInit /\ [][HNext]_hvars

\* No value is known yet: nothing can be below it.
Bar == IF last[Tracked] = None THEN 0 ELSE last[Tracked]

Abs == INSTANCE Corroboration WITH bar <- Bar, shown <- shown[Tracked]

HTypeOK == TypeOK /\ log \in Seq(Readouts)

\* No frame of the history lies in the future, and the latest dates _last_success.
HistoryDated ==
  /\ \A i \in 1..Len(log) : log[i].at <= clock
  /\ lastSuccess = IF log = <<>> THEN None ELSE log[Len(log)].at

\* The count and the time stamp _drop_unconfirmed_counter_drops keeps are those
\* of the unbroken run of low frames the history ends in.  A stamp that survived
\* a recovery, an outage or a rebase would confirm an unrelated reading on its
\* first frame.
EvidenceIsHistory == Tallied(log, Bar, streak[Tracked], since[Tracked])

\* The guard passes a lower counter on exactly when the history corroborates
\* it: never on one frame, never on two within a poll interval, never across
\* a recovery or a long silence -- and always once it is corroborated, so a
\* permanent loss cannot freeze the sensor.
Corroborates == Abs!CorSpec
=============================================================================
