---------------------------- MODULE SessionEvents ----------------------------
(* ChargerCoordinator._process_session_events: how the integration decides, *)
(* from one frame after another, that a charging session started or ended,  *)
(* and with which figures it reports the end.  The station whose sessions   *)
(* are being reported is the environment.                                   *)
(*                                                                          *)
(* An energy figure is tagged with the session it belongs to: [sid, amount].*)
(* The code sees the amount only.  Nothing is decided on the duration, so   *)
(* it is abstracted to the session it was read in.                          *)
EXTENDS Integers, Sequences, FiniteSets

CONSTANTS None,         \* Python's None, and a field the frame lacks
          MaxSessions,  \* bound: sessions the station runs
          MaxAmount     \* bound: how far a session's energy runs

Active == {"charging", "paused"}      \* SESSION_ACTIVE_STATES
States == {"idle"} \cup Active        \* every other state reads as "idle"

Figures == [sid : Nat, amount : Nat]
Summaries == [energy : Figures \cup {None}, time : Nat \cup {None}, state : States]

ASSUME SessionAssumption ==
  /\ MaxSessions \in Nat
  /\ MaxAmount \in Nat
  /\ None \notin Nat \cup States \cup Figures \cup Summaries

VARIABLES
  mode,         \* station: "idle", "charging", "paused" or "off"
  resume,       \* station: lost power while active, boots back into charging
  sid,          \* station: the current or latest session
  kwh,          \* station: sessionEnergy
  prevState,    \* _prev_state
  liveEnergy,   \* _live_energy
  liveTime,     \* _live_time
  lastSession,  \* last_session
  fired         \* the events fired while the latest frame was processed

stationVars == <<mode, resume, sid, kwh>>
trackerVars == <<prevState, liveEnergy, liveTime, lastSession, fired>>
vars == <<mode, resume, sid, kwh,
          prevState, liveEnergy, liveTime, lastSession, fired>>

TypeOK ==
  /\ mode \in States \cup {"off"}
  /\ resume \in BOOLEAN
  /\ sid \in Nat /\ kwh \in Nat
  /\ prevState \in States \cup {None}
  /\ liveEnergy \in Figures \cup {None}
  /\ liveTime \in Nat \cup {None}
  /\ lastSession \in Summaries \cup {None}
  /\ fired \in Seq({"charging_started", "session_ended"})

StationInit == mode = "idle" /\ resume = FALSE /\ sid = 0 /\ kwh = 0

TrackerInit ==
  /\ prevState = None
  /\ liveEnergy = None
  /\ liveTime = None
  /\ lastSession = None
  /\ fired = <<>>

Init == StationInit /\ TrackerInit

-----------------------------------------------------------------------------
(* The station.                                                             *)

\* The counters are wiped the moment a session starts.
NewSession ==
  /\ sid < MaxSessions
  /\ sid' = sid + 1
  /\ kwh' = 0
  /\ mode' = "charging"
  /\ resume' = FALSE

StartSession == mode = "idle" /\ NewSession

\* Energy flows only while charging.
Deliver ==
  /\ mode = "charging"
  /\ kwh < MaxAmount /\ kwh' = kwh + 1
  /\ UNCHANGED <<mode, resume, sid>>

SwitchMode(from, to) ==
  mode = from /\ mode' = to /\ UNCHANGED <<resume, sid, kwh>>

StopSession == \E m \in Active : SwitchMode(m, "idle")

PowerCut ==
  /\ mode # "off"
  /\ mode' = "off"
  /\ resume' \in BOOLEAN /\ (resume' <=> mode \in Active)
  /\ UNCHANGED <<sid, kwh>>

\* A station that lost power in a session boots straight back into charging,
\* with its session counters at zero.
PowerUp ==
  /\ mode = "off"
  /\ IF resume THEN NewSession
     ELSE mode' = "idle" /\ UNCHANGED <<resume, sid, kwh>>

Station ==
  /\ \/ StartSession \/ Deliver \/ StopSession \/ PowerCut \/ PowerUp
     \/ SwitchMode("charging", "paused") \/ SwitchMode("paused", "charging")
  /\ UNCHANGED trackerVars

-----------------------------------------------------------------------------
(* One frame.  stale: more than STALE_STATE_AFTER since the previous one.   *)

\* What a frame reads; a field may be missing or not parse.
Frames ==
  {[state |-> mode, energy |-> e, time |-> t] :
     e \in {None, [sid |-> sid, amount |-> kwh]},
     t \in {None, sid}}

\* _async_update_data drops the baseline after a long gap.
Baseline(stale) == IF stale THEN None ELSE prevState

\* session_transition
TransitionStarts(from, to) == to = "charging" /\ from # "charging"

\* Plausible bug: a pause ends the session.
TransitionEndsOnPause(from, to) == from \in Active /\ to # "charging"

TransitionEnds(from, to) == from \in Active /\ to \notin Active

\* Plausible bug: without the latch, a power cut shows no boundary.
LatchesNever(frame) == FALSE

\* The session counter is back at zero while the state is active.
Latches(frame) ==
  /\ frame.state \in Active
  /\ frame.energy # None /\ frame.energy.amount = 0
  /\ liveEnergy # None /\ liveEnergy.amount > 0

\* Plausible bug: a session that was paused before it ended is forgotten.
EndsFromCharging(frame, stale) ==
  Baseline(stale) = "charging" /\ frame.state \notin Active

Ends(frame, stale) ==
  Baseline(stale) # None /\ TransitionEnds(Baseline(stale), frame.state)

Starts(frame, stale) ==
  Baseline(stale) # None /\ TransitionStarts(Baseline(stale), frame.state)

\* The live figures after the frame: captured while active, after a latch has
\* published the old ones; gone once published.
Capture(frame, field, live) ==
  IF frame.state \in Active
  THEN IF field # None THEN field ELSE IF Latches(frame) THEN None ELSE live
  ELSE live

\* Plausible bug: the transition announces a latched start once more.
EventsOfBothPaths(frame, stale) ==
  (IF Latches(frame) THEN <<"session_ended", "charging_started">> ELSE <<>>)
  \o (IF Starts(frame, stale) THEN <<"charging_started">> ELSE <<>>)
  \o (IF Ends(frame, stale) THEN <<"session_ended">> ELSE <<>>)

\* A latched start is not announced again by the transition.
EventsOf(frame, stale) ==
  (IF Latches(frame) THEN <<"session_ended", "charging_started">> ELSE <<>>)
  \o (IF Starts(frame, stale) /\ ~Latches(frame) THEN <<"charging_started">> ELSE <<>>)
  \o (IF Ends(frame, stale) THEN <<"session_ended">> ELSE <<>>)

\* Plausible bug: the live figures outlive their publication.
ProcessKeepsLive(frame, stale) ==
  /\ lastSession' = IF Latches(frame) \/ Ends(frame, stale)
                    THEN [energy |-> liveEnergy, time |-> liveTime,
                          state |-> frame.state]
                    ELSE lastSession
  /\ fired' = EventsOf(frame, stale)
  /\ liveEnergy' = Capture(frame, frame.energy, liveEnergy)
  /\ liveTime' = Capture(frame, frame.time, liveTime)
  /\ prevState' = frame.state

\* Plausible bug: the duration is captured before the latch publishes.
ProcessCapturesFirst(frame, stale) ==
  LET captured == Capture(frame, frame.time, liveTime)
      ends == Ends(frame, stale)
  IN  /\ lastSession' = IF Latches(frame) \/ ends
                        THEN [energy |-> liveEnergy, time |-> captured,
                              state |-> frame.state]
                        ELSE lastSession
      /\ fired' = EventsOf(frame, stale)
      /\ liveEnergy' = IF ends THEN None ELSE Capture(frame, frame.energy, liveEnergy)
      /\ liveTime' = IF ends THEN None ELSE captured
      /\ prevState' = frame.state

Process(frame, stale) ==
  LET ended == Latches(frame) \/ Ends(frame, stale)
      keep(captured) == IF Ends(frame, stale) THEN None ELSE captured
  IN  /\ lastSession' = IF ended
                        THEN [energy |-> liveEnergy, time |-> liveTime,
                              state |-> frame.state]
                        ELSE lastSession
      /\ fired' = EventsOf(frame, stale)
      /\ liveEnergy' = keep(Capture(frame, frame.energy, liveEnergy))
      /\ liveTime' = keep(Capture(frame, frame.time, liveTime))
      /\ prevState' = frame.state

\* Plausible bug: a poll of a station that is off counts as a frame.
PollUnanswered(frame, stale) ==
  /\ Process(frame, stale)
  /\ UNCHANGED stationVars

Poll(frame, stale) ==
  /\ mode # "off"
  /\ Process(frame, stale)
  /\ UNCHANGED stationVars

\* A new coordinator: nothing outlives a restart or a reload.
Restart ==
  /\ prevState' = None
  /\ liveEnergy' = None /\ liveTime' = None
  /\ lastSession' = None
  /\ fired' = <<>>
  /\ UNCHANGED stationVars

Next ==
  \/ Station
  \/ \E frame \in Frames, stale \in BOOLEAN : Poll(frame, stale)
  \/ Restart

Spec == Init /\ [][Next]_vars
=============================================================================
