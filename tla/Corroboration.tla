--------------------------- MODULE Corroboration ---------------------------
(* What the two plausibility guards of the coordinator promise, said over   *)
(* the complete history of frames: a reading under the bar is passed on if  *)
(* and only if an earlier frame corroborates it -- one that was low as      *)
(* well, at least one poll interval before, with neither a recovery nor a   *)
(* long silence in between.  CounterGuardHistory and SetpointGuardHistory   *)
(* implement this specification.                                            *)
EXTENDS Evidence

CONSTANT Held       \* the guard took the field out of the frame

VARIABLES log,      \* every successful frame, oldest first
          bar,      \* readings below this one have to be corroborated
          shown     \* what the latest frame hands on to the entities

corVars == <<log, bar, shown>>

CorInit == log = <<>> /\ bar \in Nat /\ shown = Absent

NothingToJudge(f) == f.value = Absent /\ shown' = Absent /\ UNCHANGED bar

\* The bar may follow a plausible reading up, never down.
Plausible(f) == Clears(f, bar) /\ shown' = f.value /\ bar' \in bar..f.value

Believed(f) ==
  /\ IsLow(f, bar)
  /\ Corroborated(log', bar)
  /\ shown' = f.value
  /\ bar' = f.value

Doubted(f) ==
  /\ IsLow(f, bar)
  /\ ~Corroborated(log', bar)
  /\ shown' = Held
  /\ UNCHANGED bar

Observe(f) ==
  /\ log' = Append(log, f)
  /\ NothingToJudge(f) \/ Plausible(f) \/ Believed(f) \/ Doubted(f)

\* The coordinator is built anew and knows nothing of earlier frames.
Forget == log' = <<>> /\ bar' \in Nat /\ shown' = Absent

\* The frame a step observes is the one it appends: naming it so spares TLC
\* the enumeration of Readouts.
Latest(h) == h[Len(h)]

CorNext ==
  \/ Forget
  \/ log' # <<>> /\ Latest(log') \in Readouts /\ Observe(Latest(log'))

CorSpec == CorInit /\ [][CorNext]_corVars
=============================================================================
