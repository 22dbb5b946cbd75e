---------------------------- MODULE CounterGuard ----------------------------
(* ChargerCoordinator._drop_unconfirmed_counter_drops with the part of      *)
(* _forget_stale_guard_evidence that concerns it: a lifetime counter that   *)
(* stepped down is taken out of the frame until a later frame, a real poll  *)
(* interval away, reads low as well.                                        *)
(*                                                                          *)
(* Times are whole ticks of the wall clock, which is taken not to run       *)
(* backwards.  _counter_dropped is left out: only diagnostics.py reads it.  *)
EXTENDS Evidence

CONSTANTS Counters,   \* the keys of LIFETIME_COUNTERS
          Readings,   \* the values a counter can take
          Held,       \* the guard deleted the key
          Intervals,  \* the poll intervals the coordinator switches between
          Gaps        \* how far apart two successful polls can be

ASSUME CounterAssumption ==
  /\ Readings \subseteq Nat
  /\ Intervals \subseteq Nat
  /\ Gaps \subseteq Nat
  /\ Held \notin Nat
  /\ Absent # Held

VARIABLES
  clock,        \* dt_util.utcnow() of the latest successful poll
  lastSuccess,  \* _last_success
  interval,     \* update_interval
  last,         \* _last_counter
  streak,       \* _counter_low_streak
  since,        \* _counter_low_since
  shown         \* what the frame still holds for each key after the guard

vars == <<clock, lastSuccess, interval, last, streak, since, shown>>

ConfirmFrames == 2

Frames == [Counters -> Readings \cup {Absent}]

TypeOK ==
  /\ clock \in Nat
  /\ lastSuccess \in Nat \cup {None}
  /\ interval \in Intervals
  /\ last \in [Counters -> Nat \cup {None}]
  /\ streak \in [Counters -> Nat]
  /\ since \in [Counters -> Nat \cup {None}]
  /\ shown \in [Counters -> Nat \cup {Absent, Held}]

GuardInit ==
  /\ last = [k \in Counters |-> None]
  /\ streak = [k \in Counters |-> 0]
  /\ since = [k \in Counters |-> None]
  /\ shown = [k \in Counters |-> Absent]

Init ==
  /\ clock = 0
  /\ lastSuccess = None
  /\ interval \in Intervals
  /\ GuardInit

-----------------------------------------------------------------------------
(* _forget_stale_guard_evidence, run before the guard on the same frame.    *)
AfterLongGap(t) == lastSuccess # None /\ t - lastSuccess > Stale

StreakKept(k, t) == IF AfterLongGap(t) THEN 0 ELSE streak[k]

\* Plausible bug: the count is forgotten, its time stamp is not.
SinceKeptThroughGap(k, t) == since[k]

SinceKept(k, t) == IF AfterLongGap(t) THEN None ELSE since[k]

\* _counter_low_since.setdefault(key, now)
FirstSeen(k, t) == IF SinceKept(k, t) = None THEN t ELSE SinceKept(k, t)

SteppedDown(k, v) == v # Absent /\ last[k] # None /\ v < last[k]

\* Plausible bug: two frames are enough, however close.
ConfirmedByCount(k, t) == StreakKept(k, t) + 1 >= ConfirmFrames

\* Plausible bug: off by one, so that the next scheduled poll comes too early.
ConfirmedStrictly(k, t) ==
  /\ StreakKept(k, t) + 1 >= ConfirmFrames
  /\ t - FirstSeen(k, t) > interval

Confirmed(k, t) ==
  /\ StreakKept(k, t) + 1 >= ConfirmFrames
  /\ t - FirstSeen(k, t) >= interval

HeldBack(frame, t) ==
  {k \in Counters : SteppedDown(k, frame[k]) /\ ~Confirmed(k, t)}

\* Plausible bug: the value is used without as_float having accepted it.
TakenUnparsed(frame, t) == Counters \ HeldBack(frame, t)

Taken(frame, t) ==
  {k \in Counters : frame[k] # Absent} \ HeldBack(frame, t)

\* The loop over LIFETIME_COUNTERS, on a frame that arrived at t.
Judge(frame, t) ==
  LET held  == HeldBack(frame, t)
      taken == Taken(frame, t)
  IN  /\ last' = [k \in Counters |-> IF k \in taken THEN frame[k] ELSE last[k]]
      /\ streak' = [k \in Counters |-> IF k \in taken THEN 0
                                       ELSE IF k \in held THEN StreakKept(k, t) + 1
                                       ELSE StreakKept(k, t)]
      /\ since' = [k \in Counters |-> IF k \in taken THEN None
                                      ELSE IF k \in held THEN FirstSeen(k, t)
                                      ELSE SinceKept(k, t)]
      /\ shown' = [k \in Counters |-> IF k \in taken THEN frame[k]
                                      ELSE IF k \in held THEN Held
                                      ELSE Absent]

-----------------------------------------------------------------------------
(* The coordinator around the guard, as far as the guard can tell.          *)

\* A successful poll.  The interval changes after the guards have run.
Poll(frame, t) ==
  /\ clock' = t
  /\ lastSuccess' = t
  /\ interval' \in Intervals
  /\ Judge(frame, t)

\* A new coordinator: nothing of the guard outlives a restart or a reload.
Restart ==
  /\ clock' = 0
  /\ lastSuccess' = None
  /\ interval' \in Intervals
  /\ last' = [k \in Counters |-> None]
  /\ streak' = [k \in Counters |-> 0]
  /\ since' = [k \in Counters |-> None]
  /\ shown' = [k \in Counters |-> Absent]

Next ==
  \/ \E frame \in Frames, gap \in Gaps : Poll(frame, clock + gap)
  \/ Restart

Spec == Init /\ [][Next]_vars
=============================================================================
