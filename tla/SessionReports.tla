--------------------------- MODULE SessionReports ---------------------------
(* SessionEvents with the history its promises are about: what was reported *)
(* so far, which sessions the polls have seen, and which of them no polling *)
(* integration could have reported.                                         *)
EXTENDS SessionEvents

VARIABLES
  reports,    \* history: every session_ended so far, oldest first
  witnessed,  \* history: sessions a poll saw active with energy delivered
  excused,    \* history: witnessed sessions lost to a restart, or because
              \*          their successor's counter was never seen at zero
  whole,      \* history: no active frame since the latest report lacked a field
  cut,        \* history: a long gap came since the latest active frame
  over        \* history: an idle frame came since the latest active frame

historyVars == <<reports, witnessed, excused, whole, cut, over>>
hvars == <<mode, resume, sid, kwh,
           prevState, liveEnergy, liveTime, lastSession, fired,
           reports, witnessed, excused, whole, cut, over>>

HInit ==
  /\ Init
  /\ reports = <<>> /\ witnessed = {} /\ excused = {}
  /\ whole = TRUE /\ cut = FALSE /\ over = FALSE

\* The sessions reported so far.
Reported == {s \in 1..sid : \E i \in 1..Len(reports) :
               reports[i].energy # None /\ reports[i].energy.sid = s}

HStation == Station /\ UNCHANGED historyVars

EndsSession(frame, stale) == Latches(frame) \/ Ends(frame, stale)

HPoll(frame, stale) ==
  LET active == frame.state \in Active
      energetic == active /\ frame.energy # None /\ frame.energy.amount > 0
  IN  /\ Poll(frame, stale)
      /\ reports' = IF EndsSession(frame, stale)
                    THEN Append(reports, [energy |-> lastSession'.energy,
                                          time |-> lastSession'.time,
                                          whole |-> whole, over |-> over])
                    ELSE reports
      /\ witnessed' = IF energetic THEN witnessed \cup {sid} ELSE witnessed
      /\ excused' = IF energetic THEN excused \cup {s \in witnessed \ Reported : s < sid}
                    ELSE excused
      /\ whole' = ((whole \/ EndsSession(frame, stale))
                   /\ (active => frame.energy # None /\ frame.time # None))
      /\ cut' = (~active /\ (cut \/ stale))
      /\ over' = (~active)

HRestart ==
  /\ Restart
  /\ excused' = excused \cup (witnessed \ Reported)
  /\ whole' = TRUE /\ cut' = FALSE /\ over' = FALSE
  /\ UNCHANGED <<reports, witnessed>>

HNext ==
  \/ HStation
  \/ \E frame \in Frames, stale \in BOOLEAN : HPoll(frame, stale)
  \/ HRestart

HSpec == HInit /\ [][HNext]_hvars

-----------------------------------------------------------------------------
ReportRecords == [energy : Figures \cup {None}, time : Nat \cup {None},
                  whole : BOOLEAN, over : BOOLEAN]

HTypeOK ==
  /\ TypeOK
  /\ reports \in Seq(ReportRecords)
  /\ witnessed \subseteq 1..sid /\ excused \subseteq witnessed
  /\ whole \in BOOLEAN /\ cut \in BOOLEAN /\ over \in BOOLEAN

\* No session is reported as ended twice, neither by the transition and the
\* latch together nor by a latch after a long gap.
ReportedOnce ==
  \A i, j \in 1..Len(reports) :
    /\ i # j
    /\ reports[i].energy # None /\ reports[j].energy # None
    => reports[i].energy.sid # reports[j].energy.sid

\* session_ended is never fired for the session that is still running.
ReportedIsOver ==
  /\ \A i \in 1..Len(reports) :
       reports[i].energy # None => reports[i].energy.sid \in 1..sid
  /\ sid \in Reported => mode \notin Active

\* As long as frames are whole, the energy and the duration of a report are
\* those of one session ("final session values captured just before the
\* charger resets its counters"): the latch publishes before it captures.
FiguresOfOneSession ==
  \A i \in 1..Len(reports) :
    reports[i].whole /\ reports[i].energy # None /\ reports[i].time # None
    => reports[i].energy.sid = reports[i].time

\* A session that was seen to deliver energy is reported, or is still to be,
\* unless a restart or the next session's counter running ahead of the polls
\* made that impossible: an interrupted session is not lost to the boot zero.
NothingLost ==
  \A s \in witnessed :
    \/ s \in Reported \cup excused
    \/ liveEnergy # None /\ liveEnergy.sid = s

\* Once a poll shows the station out of a session, its figures are published
\* at once; only a long gap leaves them pending.
PublishedPromptly ==
  prevState \notin Active /\ liveEnergy # None => cut

\* A frame announces at most one start and at most one end, and the end of the
\* session that was replaced before the start of the one replacing it: a zeroed
\* counter on resume from pause is a latch and a transition at once.
EventsPaired ==
  fired \in {<<>>, <<"charging_started">>, <<"session_ended">>,
            <<"session_ended", "charging_started">>}

\* "replaying its transition would fire a stale session_ended with pre-offline
\* figures" (coordinator.py, STALE_STATE_AFTER): a session whose end a poll has
\* already passed over is not reported later.
NoStaleReplay == \A i \in 1..Len(reports) : ~reports[i].over
=============================================================================
