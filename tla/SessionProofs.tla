--------------------------- MODULE SessionProofs ---------------------------
(* What the session reports and the two LastSessionSensors promise, for     *)
(* every number of sessions.                                                *)
EXTENDS LastSession, TLAPS

\* The figures held for the session in progress: of a session that began, not
\* yet reported, never ahead of the station, and positive once witnessed so.
LiveOK ==
  /\ liveEnergy # None =>
       /\ liveEnergy.sid \in 1..sid
       /\ \A i \in 1..Len(reports) :
            reports[i].energy # None => reports[i].energy.sid # liveEnergy.sid
       /\ liveEnergy.sid = sid => liveEnergy.amount <= kwh
       /\ liveEnergy.sid \in witnessed => liveEnergy.amount > 0
  /\ sid \in witnessed => kwh > 0
  /\ mode \in Active \/ (mode = "off" /\ resume) => sid \in 1..sid

IInv ==
  /\ HTypeOK
  /\ LiveOK
  /\ ReportedOnce
  /\ ReportedIsOver
  /\ NothingLost
  /\ PublishedPromptly

\* What the frame of a poll reads.
LEMMA FrameFacts ==
  ASSUME NEW frame \in Frames
  PROVE  /\ frame.state = mode
         /\ frame.energy = None \/ frame.energy = [sid |-> sid, amount |-> kwh]
         /\ frame.time = None \/ frame.time = sid
BY DEF Frames

\* The figures of the present session, and those held.
LEMMA FigureFacts ==
  ASSUME HTypeOK
  PROVE  /\ [sid |-> sid, amount |-> kwh] \in Figures
         /\ [sid |-> sid, amount |-> kwh] # None
         /\ liveEnergy # None => liveEnergy \in Figures /\ liveEnergy.amount \in Nat
         /\ sid \in Nat /\ kwh \in Nat
BY SessionAssumption DEF HTypeOK, TypeOK, Figures

\* The report a poll would add to the history.
Report == [energy |-> liveEnergy, time |-> liveTime, whole |-> whole, over |-> over]

\* What is held makes a well-typed report.
LEMMA ReportType ==
  ASSUME HTypeOK
  PROVE  Report \in ReportRecords
BY DEF HTypeOK, TypeOK, Report, ReportRecords

\* A poll that finds the session counter back at zero.
LatchStep ==
  /\ mode \in Active /\ kwh = 0
  /\ liveEnergy # None /\ liveEnergy.amount > 0
  /\ reports' = Append(reports, Report)
  /\ liveEnergy' = [sid |-> sid, amount |-> kwh]
  /\ UNCHANGED <<witnessed, excused>>

\* A poll that sees the station leave the active states.
EndStep ==
  /\ mode \notin Active
  /\ reports' = Append(reports, Report)
  /\ liveEnergy' = None
  /\ UNCHANGED <<witnessed, excused>>

\* A poll that takes the counter of the session in progress.
CaptureStep ==
  /\ mode \in Active
  /\ reports' = reports
  /\ liveEnergy' = [sid |-> sid, amount |-> kwh]
  /\ \/ /\ kwh > 0
        /\ witnessed' = witnessed \cup {sid}
        /\ excused' = excused \cup {s \in witnessed \ Reported : s < sid}
     \/ /\ kwh = 0
        /\ liveEnergy = None \/ ~(liveEnergy.amount > 0)
        /\ UNCHANGED <<witnessed, excused>>

\* A poll that leaves the figures as they are.
KeepStep == UNCHANGED <<reports, liveEnergy, witnessed, excused>>

\* A poll is one of these four, on a station that is up and stays as it is.
LEMMA PollShape ==
  ASSUME HTypeOK, NEW frame \in Frames, NEW stale \in BOOLEAN, HPoll(frame, stale)
  PROVE  /\ mode \in States /\ UNCHANGED <<mode, resume, sid, kwh>>
         /\ prevState' = mode
         /\ LatchStep \/ EndStep \/ CaptureStep \/ KeepStep
<1>1. mode \in States /\ UNCHANGED <<mode, resume, sid, kwh>> /\ Process(frame, stale)
  BY DEF HPoll, Poll, stationVars, HTypeOK, TypeOK
<1>2. /\ frame.state = mode
      /\ frame.energy = None \/ frame.energy = [sid |-> sid, amount |-> kwh]
  BY FrameFacts
<1>3. [sid |-> sid, amount |-> kwh] # None /\ kwh \in Nat
  BY FigureFacts
<1>3a. Latches(frame) \/ Ends(frame, stale)
      => lastSession'.energy = liveEnergy /\ lastSession'.time = liveTime
  BY <1>1 DEF Process
<1>4. prevState' = mode
  BY <1>1, <1>2 DEF Process
<1>5. CASE Latches(frame)
  <2>1. mode \in Active /\ frame.energy = [sid |-> sid, amount |-> kwh] /\ kwh = 0
        /\ liveEnergy # None /\ liveEnergy.amount > 0
    BY <1>5, <1>2 DEF Latches
  <2>2. ~Ends(frame, stale)
    BY <2>1, <1>2 DEF Ends, TransitionEnds
  <2>3. liveEnergy' = [sid |-> sid, amount |-> kwh]
    BY <2>1, <2>2, <1>1, <1>2, <1>3 DEF Process, Capture
  <2>4. reports' = Append(reports, Report)
    BY <1>5, <1>3a DEF HPoll, EndsSession, Report
  <2>5. UNCHANGED <<witnessed, excused>>
    BY <2>1 DEF HPoll
  <2> QED
    BY <1>1, <1>4, <2>1, <2>3, <2>4, <2>5 DEF LatchStep
<1>6. CASE Ends(frame, stale)
  <2>1. mode \notin Active
    BY <1>6, <1>2 DEF Ends, TransitionEnds
  <2>2. liveEnergy' = None
    BY <1>6, <1>1 DEF Process
  <2>3. reports' = Append(reports, Report)
    BY <1>6, <1>3a DEF HPoll, EndsSession, Report
  <2>4. UNCHANGED <<witnessed, excused>>
    BY <2>1, <1>2 DEF HPoll
  <2> QED
    BY <1>1, <1>4, <2>1, <2>2, <2>3, <2>4 DEF EndStep
<1>7. CASE ~Latches(frame) /\ ~Ends(frame, stale)
  <2>1. reports' = reports
    BY <1>7 DEF HPoll, EndsSession
  <2>2. CASE mode \in Active /\ frame.energy # None
    <3>1. frame.energy = [sid |-> sid, amount |-> kwh] /\ frame.energy.amount = kwh
      BY <2>2, <1>2
    <3>2. liveEnergy' = [sid |-> sid, amount |-> kwh]
      BY <2>2, <3>1, <1>1, <1>2, <1>7 DEF Process, Capture
    <3>3. CASE kwh > 0
      <4>1. /\ witnessed' = witnessed \cup {sid}
            /\ excused' = excused \cup {s \in witnessed \ Reported : s < sid}
        BY <2>2, <3>1, <3>3, <1>2 DEF HPoll
      <4> QED
        BY <2>1, <2>2, <3>2, <3>3, <4>1, <1>1, <1>4 DEF CaptureStep
    <3>4. CASE kwh = 0
      <4>1. UNCHANGED <<witnessed, excused>>
        BY <3>1, <3>4 DEF HPoll
      <4>2. liveEnergy = None \/ ~(liveEnergy.amount > 0)
        BY <2>2, <3>1, <3>4, <1>2, <1>7 DEF Latches
      <4> QED
        BY <2>1, <2>2, <3>2, <3>4, <4>1, <4>2, <1>1, <1>4 DEF CaptureStep
    <3> QED
      BY <3>3, <3>4, <1>3
  <2>3. CASE ~(mode \in Active /\ frame.energy # None)
    <3>1. liveEnergy' = liveEnergy
      BY <2>3, <1>1, <1>2, <1>7 DEF Process, Capture
    <3>2. UNCHANGED <<witnessed, excused>>
      BY <2>3, <1>2 DEF HPoll
    <3> QED
      BY <2>1, <3>1, <3>2, <1>1, <1>4 DEF KeepStep
  <2> QED
    BY <2>2, <2>3
<1> QED
  BY <1>5, <1>6, <1>7

\* A poll leaves the tracker and its history well-typed.
LEMMA PollType ==
  ASSUME HTypeOK, LiveOK, NEW frame \in Frames, NEW stale \in BOOLEAN,
         HPoll(frame, stale)
  PROVE  HTypeOK'
<1>1. /\ mode \in States /\ UNCHANGED <<mode, resume, sid, kwh>>
      /\ prevState' = mode
      /\ LatchStep \/ EndStep \/ CaptureStep \/ KeepStep
  BY PollShape
<1>2. Process(frame, stale) /\ frame.state = mode
  BY FrameFacts DEF HPoll, Poll
<1>3. [sid |-> sid, amount |-> kwh] \in Figures
  BY FigureFacts
<1>4. Report \in ReportRecords
  BY ReportType
<1>5. reports' \in Seq(ReportRecords)
  BY <1>1, <1>4 DEF LatchStep, EndStep, CaptureStep, KeepStep, HTypeOK
<1>6. liveEnergy' \in Figures \cup {None}
  BY <1>1, <1>3 DEF LatchStep, EndStep, CaptureStep, KeepStep, HTypeOK, TypeOK
<1>7. liveTime' \in Nat \cup {None}
  <2>1. frame.time \in Nat \cup {None} /\ liveTime \in Nat \cup {None}
    BY FrameFacts, FigureFacts DEF HTypeOK, TypeOK
  <2> QED
    BY <2>1, <1>2 DEF Process, Capture
<1>8. lastSession' \in Summaries \cup {None}
  <2>1. [energy |-> liveEnergy, time |-> liveTime, state |-> frame.state] \in Summaries
    BY <1>1, <1>2 DEF Summaries, HTypeOK, TypeOK
  <2> QED
    BY <2>1, <1>2 DEF Process, HTypeOK, TypeOK
<1>9. fired' \in Seq({"charging_started", "session_ended"})
  BY <1>2 DEF Process, EventsOf
<1>10. witnessed' \subseteq 1..sid /\ excused' \subseteq witnessed'
  <2>1. mode \in Active => sid \in 1..sid
    BY DEF LiveOK
  <2> QED
    BY <1>1, <2>1 DEF LatchStep, EndStep, CaptureStep, KeepStep, HTypeOK
<1>11. whole' \in BOOLEAN /\ cut' \in BOOLEAN /\ over' \in BOOLEAN
  BY DEF HPoll, HTypeOK
<1>12. TypeOK'
  BY <1>1, <1>6, <1>7, <1>8, <1>9 DEF HTypeOK, TypeOK, States
<1> QED
  BY <1>1, <1>5, <1>10, <1>11, <1>12 DEF HTypeOK

\* One more report: of a session not reported before, that is over.
LEMMA OneMoreReport ==
  ASSUME HTypeOK, LiveOK, ReportedOnce, ReportedIsOver,
         UNCHANGED <<mode, sid, kwh>>, reports' = Append(reports, Report),
         liveEnergy # None => liveEnergy.sid # sid \/ mode \notin Active
  PROVE  /\ ReportedOnce' /\ ReportedIsOver'
         /\ Reported' = Reported \cup
              (IF liveEnergy # None THEN {liveEnergy.sid} ELSE {})
<1>1. reports \in Seq(ReportRecords) /\ Report \in ReportRecords
  BY ReportType DEF HTypeOK
<1>2. /\ Len(reports') = Len(reports) + 1 /\ Len(reports) \in Nat
      /\ reports'[Len(reports) + 1] = Report
      /\ \A i \in 1..Len(reports) : reports'[i] = reports[i]
      /\ 1..Len(reports') = 1..Len(reports) \cup {Len(reports) + 1}
  BY <1>1
<1>3. Report.energy = liveEnergy
  BY DEF Report
<1>4. liveEnergy # None =>
        /\ liveEnergy.sid \in 1..sid
        /\ \A i \in 1..Len(reports) :
             reports[i].energy # None => reports[i].energy.sid # liveEnergy.sid
  BY DEF LiveOK
<1>5. ReportedOnce'
  BY <1>2, <1>3, <1>4 DEF ReportedOnce
<1>6. \A i \in 1..Len(reports') :
        reports'[i].energy # None => reports'[i].energy.sid \in 1..sid
  BY <1>2, <1>3, <1>4 DEF ReportedIsOver
<1>7. Reported' = Reported \cup (IF liveEnergy # None THEN {liveEnergy.sid} ELSE {})
  <2>1. ASSUME NEW s \in 1..sid
        PROVE  (\E i \in 1..Len(reports') :
                  reports'[i].energy # None /\ reports'[i].energy.sid = s)
               <=> \/ \E i \in 1..Len(reports) :
                        reports[i].energy # None /\ reports[i].energy.sid = s
                   \/ liveEnergy # None /\ liveEnergy.sid = s
    BY <1>2, <1>3
  <2> QED
    BY <2>1, <1>4 DEF Reported
<1>8. ReportedIsOver'
  BY <1>6, <1>7 DEF ReportedIsOver
<1> QED
  BY <1>5, <1>7, <1>8

\* A poll keeps track of whose figures are held and who has been reported.
LEMMA PollKeepsIInv ==
  ASSUME IInv, NEW frame \in Frames, NEW stale \in BOOLEAN, HPoll(frame, stale)
  PROVE  IInv'
<1>1. /\ mode \in States /\ UNCHANGED <<mode, resume, sid, kwh>>
      /\ prevState' = mode
      /\ LatchStep \/ EndStep \/ CaptureStep \/ KeepStep
  BY PollShape DEF IInv
<1>2. HTypeOK'
  BY PollType DEF IInv
<1>3. /\ HTypeOK /\ LiveOK /\ ReportedOnce /\ ReportedIsOver /\ NothingLost
      /\ sid \in Nat /\ kwh \in Nat
      /\ [sid |-> sid, amount |-> kwh] # None
      /\ witnessed \subseteq 1..sid
      /\ liveEnergy # None => liveEnergy.amount \in Nat
  BY FigureFacts DEF IInv, HTypeOK
<1>4. mode \in Active => sid \in 1..sid /\ sid \notin Reported
  BY <1>3 DEF LiveOK, ReportedIsOver
<1>5. PublishedPromptly'
  <2>1. frame.state = mode /\ Process(frame, stale)
    BY FrameFacts DEF HPoll, Poll
  <2>2. CASE mode \in Active
    BY <2>2, <1>1 DEF PublishedPromptly
  <2>3. CASE mode \notin Active
    <3>1. cut' = (cut \/ stale)
      BY <2>1, <2>3 DEF HPoll
    <3>2. liveEnergy' = IF Ends(frame, stale) THEN None ELSE liveEnergy
      BY <2>1, <2>3 DEF Process, Capture
    <3>3. ~stale /\ prevState \in Active => Ends(frame, stale)
      <4>1. prevState \in Active => prevState # None
        BY SessionAssumption DEF Active, States
      <4> QED
        BY <4>1, <2>1, <2>3 DEF Ends, Baseline, TransitionEnds
    <3> QED
      BY <3>1, <3>2, <3>3, <1>1 DEF PublishedPromptly, IInv
  <2> QED
    BY <2>2, <2>3
<1>6. CASE LatchStep
  <2>1. /\ mode \in Active /\ kwh = 0 /\ liveEnergy # None /\ liveEnergy.amount > 0
        /\ reports' = Append(reports, Report)
        /\ liveEnergy' = [sid |-> sid, amount |-> kwh]
        /\ witnessed' = witnessed /\ excused' = excused
    BY <1>6 DEF LatchStep
  <2>2. liveEnergy.sid # sid
    BY <2>1, <1>3 DEF LiveOK
  <2>3. ReportedOnce' /\ ReportedIsOver' /\ Reported' = Reported \cup {liveEnergy.sid}
    BY <2>1, <2>2, <1>1, <1>3, OneMoreReport
  <2>4. sid \notin Reported' /\ sid \notin witnessed
    BY <2>1, <2>2, <2>3, <1>3, <1>4 DEF LiveOK
  <2>5. LiveOK'
    <3>1. \A i \in 1..Len(reports') :
            reports'[i].energy # None => reports'[i].energy.sid # sid
      BY <2>4, <1>1, <1>4, <2>1 DEF Reported
    <3> QED
      BY <3>1, <2>1, <2>4, <1>1, <1>3, <1>4 DEF LiveOK
  <2>6. NothingLost'
    BY <2>1, <2>3, <1>3 DEF NothingLost
  <2> QED
    BY <1>2, <1>5, <2>3, <2>5, <2>6 DEF IInv
<1>7. CASE EndStep
  <2>1. /\ mode \notin Active
        /\ reports' = Append(reports, Report)
        /\ liveEnergy' = None
        /\ witnessed' = witnessed /\ excused' = excused
    BY <1>7 DEF EndStep
  <2>2. ReportedOnce' /\ ReportedIsOver'
        /\ Reported' = Reported \cup (IF liveEnergy # None THEN {liveEnergy.sid} ELSE {})
    BY <2>1, <1>1, <1>3, OneMoreReport
  <2>3. LiveOK'
    BY <2>1, <1>1, <1>3 DEF LiveOK
  <2>4. NothingLost'
    BY <2>1, <2>2, <1>3 DEF NothingLost
  <2> QED
    BY <1>2, <1>5, <2>2, <2>3, <2>4 DEF IInv
<1>8. CASE CaptureStep
  <2>1. /\ mode \in Active /\ reports' = reports
        /\ liveEnergy' = [sid |-> sid, amount |-> kwh]
    BY <1>8 DEF CaptureStep
  <2>2. ReportedOnce' /\ ReportedIsOver' /\ Reported' = Reported
    BY <2>1, <1>1, <1>3 DEF ReportedOnce, ReportedIsOver, Reported
  <2>3. \A i \in 1..Len(reports') :
          reports'[i].energy # None => reports'[i].energy.sid # sid
    BY <2>1, <1>4 DEF Reported
  <2>4. CASE kwh > 0 /\ witnessed' = witnessed \cup {sid}
             /\ excused' = excused \cup {s \in witnessed \ Reported : s < sid}
    <3>1. LiveOK'
      BY <2>1, <2>3, <2>4, <1>1, <1>3, <1>4 DEF LiveOK
    <3>2. NothingLost'
      <4> SUFFICES ASSUME NEW s \in witnessed', s \notin Reported' \cup excused'
                   PROVE  liveEnergy' # None /\ liveEnergy'.sid = s
        BY DEF NothingLost
      <4>1. CASE s = sid
        BY <4>1, <2>1, <1>3
      <4>2. CASE s # sid
        <5>1. s \in witnessed /\ s \in 1..sid /\ s < sid
          BY <4>2, <2>4, <1>3
        <5> QED
          BY <5>1, <2>2, <2>4
      <4> QED
        BY <4>1, <4>2
    <3> QED
      BY <1>2, <1>5, <2>2, <3>1, <3>2 DEF IInv
  <2>5. CASE kwh = 0 /\ (liveEnergy = None \/ ~(liveEnergy.amount > 0))
             /\ witnessed' = witnessed /\ excused' = excused
    <3>1. sid \notin witnessed
      BY <2>5, <1>3 DEF LiveOK
    <3>2. LiveOK'
      BY <2>1, <2>3, <2>5, <3>1, <1>1, <1>3, <1>4 DEF LiveOK
    <3>3. NothingLost'
      BY <2>2, <2>5, <1>3 DEF NothingLost, LiveOK
    <3> QED
      BY <1>2, <1>5, <2>2, <3>2, <3>3 DEF IInv
  <2> QED
    BY <1>8, <2>4, <2>5 DEF CaptureStep
<1>9. CASE KeepStep
  <2>1. /\ reports' = reports /\ liveEnergy' = liveEnergy
        /\ witnessed' = witnessed /\ excused' = excused
    BY <1>9 DEF KeepStep
  <2>2. ReportedOnce' /\ ReportedIsOver' /\ LiveOK' /\ NothingLost'
    BY <2>1, <1>1, <1>3 DEF ReportedOnce, ReportedIsOver, Reported, LiveOK, NothingLost
  <2> QED
    BY <1>2, <1>5, <2>2 DEF IInv
<1> QED
  BY <1>1, <1>6, <1>7, <1>8, <1>9

-----------------------------------------------------------------------------
\* The station moves on: what is reported and witnessed stays, and a new
\* session has a number of its own.
LEMMA StationKeepsIInv ==
  ASSUME IInv, HStation
  PROVE  IInv'
<1>1. /\ UNCHANGED <<prevState, liveEnergy, liveTime, lastSession, fired>>
      /\ UNCHANGED <<reports, witnessed, excused, whole, cut, over>>
  BY DEF HStation, Station, trackerVars, historyVars
<1>2. sid \in Nat /\ kwh \in Nat /\ resume \in BOOLEAN
  BY DEF IInv, HTypeOK, TypeOK
<1>3. \/ /\ NewSession
         /\ mode \notin Active
      \/ /\ sid' = sid /\ kwh' \in {kwh, kwh + 1} /\ resume' \in BOOLEAN
         /\ mode' \in States \cup {"off"}
         /\ mode' \in Active => mode \in Active
         /\ mode' = "off" /\ resume' => mode \in Active
  <2>1. CASE StartSession
    BY <2>1 DEF StartSession, Active
  <2>2. CASE Deliver
    BY <2>2, <1>2 DEF Deliver, States, Active
  <2>3. CASE StopSession
    BY <2>3, <1>2 DEF StopSession, SwitchMode, States, Active
  <2>4. CASE PowerCut
    <3>1. sid' = sid /\ kwh' = kwh /\ mode' = "off"
      BY <2>4 DEF PowerCut
    <3>2. resume' \in BOOLEAN /\ (resume' => mode \in Active)
      BY <2>4 DEF PowerCut
    <3>3. mode' \in States \cup {"off"} /\ mode' \notin Active
      BY <3>1 DEF Active
    <3>4. mode' = "off" /\ resume' => mode \in Active
      BY <3>2
    <3> QED
      BY <3>1, <3>2, <3>3, <3>4
  <2>5. CASE PowerUp
    BY <2>5, <1>2 DEF PowerUp, States, Active
  <2>6. CASE SwitchMode("charging", "paused") \/ SwitchMode("paused", "charging")
    BY <2>6, <1>2 DEF SwitchMode, States, Active
  <2> QED
    BY <2>1, <2>2, <2>3, <2>4, <2>5, <2>6 DEF HStation, Station
<1>4. CASE NewSession /\ mode \notin Active
  <2>1. sid' = sid + 1 /\ kwh' = 0 /\ mode' = "charging" /\ resume' = FALSE
    BY <1>4 DEF NewSession
  <2>2. HTypeOK'
    <3>1. TypeOK'
      <4>1. mode' \in States
        BY <2>1 DEF States, Active
      <4>2. sid' \in Nat /\ kwh' \in Nat
        BY <2>1, <1>2
      <4>3. resume' \in BOOLEAN
        BY <2>1
      <4>4. /\ prevState' \in States \cup {None}
            /\ liveEnergy' \in Figures \cup {None} /\ liveTime' \in Nat \cup {None}
            /\ lastSession' \in Summaries \cup {None}
            /\ fired' \in Seq({"charging_started", "session_ended"})
        BY <1>1 DEF IInv, HTypeOK, TypeOK
      <4> QED
        BY <4>1, <4>2, <4>3, <4>4 DEF TypeOK
    <3>2. 1..sid \subseteq 1..sid'
      BY <2>1, <1>2
    <3> QED
      BY <3>1, <3>2, <1>1 DEF IInv, HTypeOK
  <2>3. \A s \in 1..sid : s \in 1..(sid + 1) /\ s # sid + 1
    BY <1>2
  <2>4. LiveOK'
    BY <2>1, <2>3, <1>1, <1>2 DEF IInv, LiveOK, HTypeOK
  <2>5. ReportedOnce' /\ PublishedPromptly'
    BY <1>1 DEF IInv, ReportedOnce, PublishedPromptly
  <2>6. Reported' = Reported /\ sid' \notin Reported'
    BY <2>1, <2>3, <1>1, <1>2 DEF IInv, ReportedIsOver, Reported
  <2>7. ReportedIsOver'
    BY <2>1, <2>3, <2>6, <1>1 DEF IInv, ReportedIsOver
  <2>8. NothingLost'
    BY <2>6, <1>1 DEF IInv, NothingLost
  <2> QED
    BY <2>2, <2>4, <2>5, <2>7, <2>8 DEF IInv
<1>5. CASE /\ sid' = sid /\ kwh' \in {kwh, kwh + 1} /\ resume' \in BOOLEAN
           /\ mode' \in States \cup {"off"}
           /\ mode' \in Active => mode \in Active
           /\ mode' = "off" /\ resume' => mode \in Active
              \/ (mode = "off" /\ resume)
  <2>1. HTypeOK'
    BY <1>5, <1>1, <1>2 DEF IInv, HTypeOK, TypeOK
  <2>2. LiveOK'
    <3>1. liveEnergy # None => liveEnergy.amount \in Nat
      BY FigureFacts DEF IInv
    <3> QED
      BY <3>1, <1>5, <1>1, <1>2 DEF IInv, LiveOK
  <2>3. ReportedOnce' /\ PublishedPromptly' /\ ReportedIsOver' /\ NothingLost'
    BY <1>5, <1>1 DEF IInv, ReportedOnce, PublishedPromptly, ReportedIsOver, Reported, NothingLost
  <2> QED
    BY <2>1, <2>2, <2>3 DEF IInv
<1> QED
  BY <1>3, <1>4, <1>5

\* A restart forgets the figures and reports nothing.
LEMMA RestartKeepsIInv ==
  ASSUME IInv, HRestart
  PROVE  IInv'
<1>1. /\ prevState' = None /\ liveEnergy' = None /\ liveTime' = None
      /\ lastSession' = None /\ fired' = <<>>
      /\ UNCHANGED <<mode, resume, sid, kwh, reports, witnessed>>
      /\ excused' = excused \cup (witnessed \ Reported)
      /\ whole' = TRUE /\ cut' = FALSE /\ over' = FALSE
  BY DEF HRestart, Restart, stationVars
<1>2. HTypeOK'
  <2>1. TypeOK'
    BY <1>1 DEF IInv, HTypeOK, TypeOK
  <2> QED
    BY <2>1, <1>1 DEF IInv, HTypeOK
<1>3. LiveOK' /\ ReportedOnce' /\ ReportedIsOver' /\ PublishedPromptly'
  BY <1>1 DEF IInv, LiveOK, ReportedOnce, ReportedIsOver, Reported, PublishedPromptly
<1>4. Reported' = Reported
  BY <1>1 DEF Reported
<1>5. NothingLost'
  BY <1>1, <1>4 DEF NothingLost
<1> QED
  BY <1>2, <1>3, <1>5 DEF IInv

\* The inductive invariant of the session reports.
THEOREM Invariance == HSpec => []IInv
<1>1. HInit => IInv
  <2> SUFFICES ASSUME HInit
               PROVE  IInv
    OBVIOUS
  <2>1. TypeOK
    <3>1. fired \in Seq({"charging_started", "session_ended"})
      BY DEF HInit, Init, TrackerInit
    <3> QED
      BY <3>1 DEF HInit, Init, StationInit, TrackerInit, TypeOK, States
  <2>2. HTypeOK
    <3>1. reports \in Seq(ReportRecords)
      BY DEF HInit
    <3> QED
      BY <2>1, <3>1 DEF HInit, HTypeOK
  <2>3. LiveOK /\ NothingLost /\ PublishedPromptly
    BY DEF HInit, Init, StationInit, TrackerInit, LiveOK, Active, NothingLost,
           PublishedPromptly
  <2>4. 1..Len(reports) = {} /\ sid \notin Reported
    BY DEF HInit, Init, StationInit, Reported
  <2>5. ReportedOnce /\ ReportedIsOver
    BY <2>4 DEF ReportedOnce, ReportedIsOver
  <2> QED
    BY <2>2, <2>3, <2>5 DEF IInv
<1>2. IInv /\ [HNext]_hvars => IInv'
  <2> SUFFICES ASSUME IInv, [HNext]_hvars
               PROVE  IInv'
    OBVIOUS
  <2>1. CASE HStation
    BY <2>1, StationKeepsIInv
  <2>2. ASSUME NEW frame \in Frames, NEW stale \in BOOLEAN, HPoll(frame, stale)
        PROVE  IInv'
    BY <2>2, PollKeepsIInv
  <2>3. CASE HRestart
    BY <2>3, RestartKeepsIInv
  <2>4. CASE UNCHANGED hvars
    BY <2>4 DEF hvars, IInv, HTypeOK, TypeOK, LiveOK, ReportedOnce, ReportedIsOver,
                Reported, NothingLost, PublishedPromptly
  <2> QED
    BY <2>1, <2>2, <2>3, <2>4 DEF HNext
<1> QED
  BY <1>1, <1>2, PTL DEF HSpec

\* However many sessions, polls, power cuts and restarts: no session is
\* reported twice.
THEOREM SessionsReportedOnce == HSpec => []ReportedOnce
BY Invariance, PTL DEF IInv

\* session_ended is never fired for the session in progress.
THEOREM ReportedSessionsAreOver == HSpec => []ReportedIsOver
BY Invariance, PTL DEF IInv

\* A session seen to deliver energy is reported or still to be, except where no
\* poll could have known.
THEOREM NoSessionIsLost == HSpec => []NothingLost
BY Invariance, PTL DEF IInv

\* What the histories of the session reports are, for every number of sessions.
THEOREM HistoryTypes == HSpec => []HTypeOK
BY Invariance, PTL DEF IInv

\* Figures are pending after a session only across a long gap.
THEOREM FiguresPublishedPromptly == HSpec => []PublishedPromptly
BY Invariance, PTL DEF IInv

-----------------------------------------------------------------------------
\* The two figures held are of one session as long as no frame lacked a field.
LivePair ==
  whole /\ liveEnergy # None /\ liveTime # None => liveEnergy.sid = liveTime

PairInv == FiguresOfOneSession /\ LivePair

\* A poll captures both figures of one session, or lets the pair go.
LEMMA PollKeepsPairInv ==
  ASSUME HTypeOK, PairInv, NEW frame \in Frames, NEW stale \in BOOLEAN,
         HPoll(frame, stale)
  PROVE  PairInv'
<1>1. Process(frame, stale) /\ sid' = sid
  BY DEF HPoll, Poll, stationVars
<1>2. /\ frame.energy = None \/ frame.energy = [sid |-> sid, amount |-> kwh]
      /\ frame.time = None \/ frame.time = sid
  BY FrameFacts
<1>3. whole' = ((whole \/ EndsSession(frame, stale))
                /\ (frame.state \in Active => frame.energy # None /\ frame.time # None))
  BY DEF HPoll
<1>4. LivePair'
  <2> SUFFICES ASSUME whole', liveEnergy' # None, liveTime' # None
               PROVE  liveEnergy'.sid = liveTime'
    BY DEF LivePair
  <2>1. ~Ends(frame, stale)
        /\ liveEnergy' = Capture(frame, frame.energy, liveEnergy)
        /\ liveTime' = Capture(frame, frame.time, liveTime)
    BY <1>1 DEF Process
  <2>2. CASE frame.state \in Active
    <3>1. frame.energy # None /\ frame.time # None
      BY <2>2, <1>3
    <3>2. liveEnergy' = frame.energy /\ liveTime' = frame.time
      BY <3>1, <2>1, <2>2 DEF Capture
    <3>3. frame.energy.sid = sid /\ frame.time = sid
      BY <3>1, <1>2
    <3> QED
      BY <3>2, <3>3
  <2>3. CASE frame.state \notin Active
    <3>1. whole /\ liveEnergy' = liveEnergy /\ liveTime' = liveTime
      BY <2>1, <2>3, <1>3 DEF Capture, EndsSession, Latches
    <3> QED
      BY <3>1 DEF PairInv, LivePair
  <2> QED
    BY <2>2, <2>3
<1>5. FiguresOfOneSession'
  <2>1. CASE EndsSession(frame, stale)
    <3>1. lastSession'.energy = liveEnergy /\ lastSession'.time = liveTime
      BY <2>1, <1>1 DEF Process, EndsSession
    <3>2. reports' = Append(reports, Report)
      BY <2>1, <3>1 DEF HPoll, Report
    <3>3. reports \in Seq(ReportRecords) /\ Report \in ReportRecords
      BY ReportType DEF HTypeOK
    <3>4. /\ \A i \in 1..Len(reports) : reports'[i] = reports[i]
          /\ reports'[Len(reports) + 1] = Report
          /\ 1..Len(reports') = 1..Len(reports) \cup {Len(reports) + 1}
      BY <3>2, <3>3
    <3>5. Report.energy = liveEnergy /\ Report.time = liveTime /\ Report.whole = whole
      BY DEF Report
    <3> QED
      BY <3>4, <3>5 DEF PairInv, FiguresOfOneSession, LivePair
  <2>2. CASE ~EndsSession(frame, stale)
    <3>1. reports' = reports
      BY <2>2 DEF HPoll
    <3> QED
      BY <3>1 DEF PairInv, FiguresOfOneSession
  <2> QED
    BY <2>1, <2>2
<1> QED
  BY <1>4, <1>5 DEF PairInv

\* However many sessions, latches and missing fields: energy and duration of a
\* report made from whole frames are those of one session.
THEOREM ReportsAreOfOneSession == HSpec => []FiguresOfOneSession
<1>1. HInit => PairInv
  BY DEF HInit, Init, TrackerInit, PairInv, FiguresOfOneSession, LivePair
<1>2. HTypeOK /\ PairInv /\ [HNext]_hvars => PairInv'
  <2> SUFFICES ASSUME HTypeOK, PairInv, [HNext]_hvars
               PROVE  PairInv'
    OBVIOUS
  <2>1. CASE HStation
    BY <2>1 DEF HStation, Station, trackerVars, historyVars, PairInv,
                FiguresOfOneSession, LivePair
  <2>2. ASSUME NEW frame \in Frames, NEW stale \in BOOLEAN, HPoll(frame, stale)
        PROVE  PairInv'
    BY <2>2, PollKeepsPairInv
  <2>3. CASE HRestart
    BY <2>3 DEF HRestart, Restart, PairInv, FiguresOfOneSession, LivePair
  <2>4. CASE UNCHANGED hvars
    BY <2>4 DEF hvars, PairInv, FiguresOfOneSession, LivePair
  <2> QED
    BY <2>1, <2>2, <2>3, <2>4 DEF HNext
<1> QED
  BY <1>1, <1>2, HistoryTypes, PTL DEF HSpec, PairInv

\* A frame announces at most one end and one start, the end first: a latch is
\* of an active frame, which ends nothing, and silences the transition.
THEOREM EventsArePaired == HSpec => []EventsPaired
<1>1. HInit => EventsPaired
  BY DEF HInit, Init, TrackerInit, EventsPaired
<1>2. EventsPaired /\ [HNext]_hvars => EventsPaired'
  <2> SUFFICES ASSUME EventsPaired, [HNext]_hvars
               PROVE  EventsPaired'
    OBVIOUS
  <2>1. CASE HStation
    BY <2>1 DEF HStation, Station, trackerVars, EventsPaired
  <2>2. ASSUME NEW frame \in Frames, NEW stale \in BOOLEAN, HPoll(frame, stale)
        PROVE  EventsPaired'
    <3>1. fired' = EventsOf(frame, stale)
      BY <2>2 DEF HPoll, Poll, Process
    <3>2. ~(Latches(frame) /\ Ends(frame, stale))
      BY DEF Latches, Ends, TransitionEnds
    <3>3. ~(Starts(frame, stale) /\ Ends(frame, stale))
      BY DEF Starts, Ends, TransitionStarts, TransitionEnds, Active
    <3>4. EventsOf(frame, stale) \in
            {<<>>, <<"charging_started">>, <<"session_ended">>,
             <<"session_ended", "charging_started">>}
      <4>1. CASE Latches(frame)
        <5>1. EventsOf(frame, stale) = <<"session_ended", "charging_started">> \o <<>> \o <<>>
          BY <4>1, <3>2, Zenon DEF EventsOf
        <5> QED
          BY <5>1
      <4>2. CASE ~Latches(frame) /\ Starts(frame, stale)
        <5>1. EventsOf(frame, stale) = <<>> \o <<"charging_started">> \o <<>>
          BY <4>2, <3>3, Zenon DEF EventsOf
        <5> QED
          BY <5>1
      <4>3. CASE ~Latches(frame) /\ ~Starts(frame, stale) /\ Ends(frame, stale)
        <5>1. EventsOf(frame, stale) = <<>> \o <<>> \o <<"session_ended">>
          BY <4>3, Zenon DEF EventsOf
        <5> QED
          BY <5>1
      <4>4. CASE ~Latches(frame) /\ ~Starts(frame, stale) /\ ~Ends(frame, stale)
        <5>1. EventsOf(frame, stale) = <<>> \o <<>> \o <<>>
          BY <4>4, Zenon DEF EventsOf
        <5> QED
          BY <5>1
      <4> QED
        BY <4>1, <4>2, <4>3, <4>4
    <3> QED
      BY <3>1, <3>4 DEF EventsPaired
  <2>3. CASE HRestart
    BY <2>3 DEF HRestart, Restart, EventsPaired
  <2>4. CASE UNCHANGED hvars
    BY <2>4 DEF hvars, EventsPaired
  <2> QED
    BY <2>1, <2>2, <2>3, <2>4 DEF HNext
<1> QED
  BY <1>1, <1>2, PTL DEF HSpec

-----------------------------------------------------------------------------
\* From here on: the two sensors that show the latest report.

\* The step of the session reports under a step of the sensors.
LEMMA SensorStepIsReportStep ==
  ASSUME [LNext]_lvars
  PROVE  [HNext]_hvars
BY DEF LNext, LPoll, LDump, LRestart, HNext, lvars, hvars, vars, historyVars

\* The sensors only look on: their runs are runs of the session reports, so every
\* theorem above holds of them as well.
THEOREM SensorsKeepReports == LSpec => HSpec
<1>1. LInit => HInit
  BY DEF LInit
<1>2. [LNext]_lvars => [HNext]_hvars
  BY SensorStepIsReportStep
<1> QED
  BY <1>1, <1>2, PTL DEF LSpec, HSpec

\* As long as no frame lacked a field, energy and duration are held together, and
\* they are held whenever the state last seen was one of a session.
LiveTogether ==
  whole => /\ liveEnergy = None <=> liveTime = None
           /\ prevState \in Active => liveEnergy # None

\* So a report made from whole frames has both figures.
ReportsFull ==
  \A i \in 1..Len(reports) :
    reports[i].whole => reports[i].energy # None /\ reports[i].time # None

\* What the coordinator keeps of the latest session is the latest report, and no
\* crash has come since.
LatestKept ==
  lastSession # None =>
    /\ reports # <<>> /\ ~lost
    /\ lastSession.energy = reports[Len(reports)].energy
    /\ lastSession.time = reports[Len(reports)].time

Held(snapshot, i) ==
  snapshot.energy = reports[i].energy /\ snapshot.time = reports[i].time

OfSomeReport(snapshot) ==
  snapshot = Nowhere \/ \E i \in 1..Len(reports) : Held(snapshot, i)

AllWhole == \A i \in 1..Len(reports) : reports[i].whole

\* What is stored, and what is shown, is of one report.
OneReport ==
  AllWhole =>
    /\ OfSomeReport(stored) /\ OfSomeReport(shown)
    /\ ~lost => IF reports = <<>> THEN shown = Nowhere ELSE Held(shown, Len(reports))

SnapshotInv ==
  LiveTogether /\ ReportsFull /\ LatestKept /\ OneReport /\ lost \in BOOLEAN

\* A frame and the figures held.
LEMMA PollKeepsTogether ==
  ASSUME HTypeOK, LiveTogether, NEW frame \in Frames, NEW stale \in BOOLEAN,
         HPoll(frame, stale)
  PROVE  /\ LiveTogether'
         /\ EndsSession(frame, stale) /\ whole => liveEnergy # None /\ liveTime # None
<1>1. Process(frame, stale)
  BY DEF HPoll, Poll
<1>2. whole' = ((whole \/ EndsSession(frame, stale))
                /\ (frame.state \in Active => frame.energy # None /\ frame.time # None))
  BY DEF HPoll
<1>3. /\ liveEnergy' = IF Ends(frame, stale) THEN None
                       ELSE Capture(frame, frame.energy, liveEnergy)
      /\ liveTime' = IF Ends(frame, stale) THEN None
                     ELSE Capture(frame, frame.time, liveTime)
      /\ prevState' = frame.state
  BY <1>1 DEF Process
<1>4. LiveTogether'
  <2> SUFFICES ASSUME whole'
               PROVE  /\ liveEnergy' = None <=> liveTime' = None
                      /\ prevState' \in Active => liveEnergy' # None
    BY DEF LiveTogether
  <2>1. CASE frame.state \in Active
    <3>1. ~Ends(frame, stale) /\ frame.energy # None /\ frame.time # None
      BY <1>2, <2>1 DEF Ends, TransitionEnds
    <3>2. liveEnergy' = frame.energy /\ liveTime' = frame.time
      BY <1>3, <2>1, <3>1 DEF Capture
    <3> QED
      BY <3>1, <3>2
  <2>2. CASE frame.state \notin Active /\ Ends(frame, stale)
    BY <1>3, <2>2
  <2>3. CASE frame.state \notin Active /\ ~Ends(frame, stale)
    <3>1. whole /\ liveEnergy' = liveEnergy /\ liveTime' = liveTime
      BY <1>2, <1>3, <2>3 DEF EndsSession, Latches, Capture
    <3> QED
      BY <1>3, <2>3, <3>1 DEF LiveTogether
  <2> QED
    BY <2>1, <2>2, <2>3
<1>5. EndsSession(frame, stale) => liveEnergy # None \/ prevState \in Active
  BY DEF EndsSession, Latches, Ends, Baseline, TransitionEnds
<1> QED
  BY <1>4, <1>5 DEF LiveTogether

\* A poll that reports a session puts it on both sensors; any other leaves them.
LEMMA PollKeepsSnapshot ==
  ASSUME HTypeOK, SnapshotInv, NEW frame \in Frames, NEW stale \in BOOLEAN,
         LPoll(frame, stale)
  PROVE  SnapshotInv'
<1>1. /\ HPoll(frame, stale) /\ Process(frame, stale)
      /\ shown' = Updated /\ lost' = (lost /\ reports' = reports) /\ stored' = stored
  BY DEF LPoll, HPoll, Poll
<1>2. LiveTogether'
      /\ (EndsSession(frame, stale) /\ whole => liveEnergy # None /\ liveTime # None)
  BY <1>1, PollKeepsTogether DEF SnapshotInv
<1>3. lost' \in BOOLEAN
  BY <1>1 DEF SnapshotInv
<1>4. CASE EndsSession(frame, stale)
  <2>1. /\ lastSession' = [energy |-> liveEnergy, time |-> liveTime, state |-> frame.state]
        /\ reports' = Append(reports, Report)
    BY <1>1, <1>4 DEF Process, EndsSession, HPoll, Report
  <2>2. lastSession' \in Summaries
    BY <2>1, FrameFacts, PollShape, <1>1 DEF Summaries, HTypeOK, TypeOK
  <2>3. lastSession' # None
    BY <2>2, SessionAssumption
  <2>4. reports \in Seq(ReportRecords) /\ Report \in ReportRecords
    BY ReportType DEF HTypeOK
  <2>5. /\ Len(reports) \in Nat /\ Len(reports') = Len(reports) + 1
        /\ \A i \in 1..Len(reports) : reports'[i] = reports[i]
        /\ reports'[Len(reports) + 1] = Report
        /\ 1..Len(reports') = 1..Len(reports) \cup {Len(reports) + 1}
        /\ reports' # <<>> /\ reports' # reports
    BY <2>1, <2>4
  <2>6. Report.energy = liveEnergy /\ Report.time = liveTime /\ Report.whole = whole
    BY DEF Report
  <2>7. ReportsFull'
    BY <1>2, <1>4, <2>5, <2>6 DEF SnapshotInv, ReportsFull
  <2>8. ~lost'
    BY <1>1, <2>5
  <2>9. LatestKept'
    BY <2>1, <2>5, <2>6, <2>8 DEF LatestKept
  <2>10. OneReport'
    <3> SUFFICES ASSUME AllWhole'
                 PROVE  /\ OfSomeReport(stored)' /\ OfSomeReport(shown)'
                        /\ Held(shown, Len(reports))' /\ reports' # <<>>
      BY DEF OneReport
    <3>1. AllWhole /\ whole
      BY <2>5, <2>6 DEF AllWhole
    <3>2. liveEnergy # None /\ liveTime # None
      BY <1>2, <1>4, <3>1
    <3>3. shown' = [energy |-> liveEnergy, time |-> liveTime]
      BY <1>1, <2>1, <2>3, <3>2 DEF Updated
    <3>4. Held(shown, Len(reports))'
      BY <2>5, <2>6, <3>3 DEF Held
    <3>5. OfSomeReport(stored)
      BY <3>1 DEF SnapshotInv, OneReport
    <3>6. OfSomeReport(stored)'
      BY <1>1, <2>5, <3>5 DEF OfSomeReport, Held
    <3>7. OfSomeReport(shown)'
      BY <2>5, <3>4 DEF OfSomeReport
    <3> QED
      BY <2>5, <3>4, <3>6, <3>7
  <2> QED
    BY <1>2, <1>3, <2>7, <2>9, <2>10 DEF SnapshotInv
<1>5. CASE ~EndsSession(frame, stale)
  <2>1. lastSession' = lastSession /\ reports' = reports /\ lost' = lost
    BY <1>1, <1>5 DEF Process, EndsSession, HPoll, SnapshotInv
  <2>2. ReportsFull' /\ LatestKept'
    BY <2>1 DEF SnapshotInv, ReportsFull, LatestKept
  <2>3. CASE lastSession = None
    <3>1. shown' = shown
      BY <1>1, <2>1, <2>3 DEF Updated
    <3> QED
      BY <1>1, <1>2, <1>3, <2>1, <2>2, <3>1
      DEF SnapshotInv, OneReport, OfSomeReport, Held, AllWhole
  <2>4. CASE lastSession # None
    <3>1. /\ reports # <<>> /\ ~lost
          /\ lastSession.energy = reports[Len(reports)].energy
          /\ lastSession.time = reports[Len(reports)].time
      BY <2>4 DEF SnapshotInv, LatestKept
    <3>2. Len(reports) \in 1..Len(reports)
      BY <3>1 DEF HTypeOK
    <3>3. ASSUME AllWhole PROVE shown' = [energy |-> reports[Len(reports)].energy,
                                          time |-> reports[Len(reports)].time]
      <4>1. /\ reports[Len(reports)].energy # None
            /\ reports[Len(reports)].time # None
        BY <3>2, <3>3 DEF SnapshotInv, ReportsFull, AllWhole
      <4> QED
        BY <1>1, <2>1, <2>4, <3>1, <4>1 DEF Updated
    <3>4. OneReport'
      BY <1>1, <2>1, <3>1, <3>2, <3>3
      DEF SnapshotInv, OneReport, OfSomeReport, Held, AllWhole
    <3> QED
      BY <1>2, <1>3, <2>2, <3>4 DEF SnapshotInv
  <2> QED
    BY <2>3, <2>4
<1> QED
  BY <1>4, <1>5

\* As long as frames are whole, the two sensors show the figures of one report:
\* the latest, or after a crash an earlier one, for any number of sessions, dumps,
\* crashes and restarts.
THEOREM SnapshotIsOneReport == LSpec => []SnapshotIsReport
<1>1. LInit => SnapshotInv
  <2> SUFFICES ASSUME LInit PROVE SnapshotInv
    OBVIOUS
  <2>1. reports = <<>> /\ Len(reports) = 0 /\ 1..Len(reports) = {}
    BY DEF LInit, HInit
  <2>2. LiveTogether /\ LatestKept
    BY SessionAssumption
    DEF LInit, HInit, Init, TrackerInit, LiveTogether, LatestKept, Active, States
  <2> QED
    BY <2>1, <2>2 DEF LInit, SnapshotInv, ReportsFull, OneReport, OfSomeReport
<1>2. HTypeOK /\ SnapshotInv /\ [LNext]_lvars => SnapshotInv'
  <2> SUFFICES ASSUME HTypeOK, SnapshotInv, [LNext]_lvars
               PROVE  SnapshotInv'
    OBVIOUS
  <2> USE DEF SnapshotInv, LiveTogether, ReportsFull, LatestKept, OneReport,
              OfSomeReport, Held, AllWhole
  <2>1. CASE HStation /\ UNCHANGED snapshotVars
    BY <2>1 DEF HStation, Station, trackerVars, historyVars, snapshotVars
  <2>2. ASSUME NEW frame \in Frames, NEW stale \in BOOLEAN, LPoll(frame, stale)
        PROVE  SnapshotInv'
    BY <2>2, PollKeepsSnapshot
  <2>3. CASE LDump
    BY <2>3 DEF LDump, vars, historyVars
  <2>4. CASE LRestart
    <3>1. /\ HRestart /\ stored' \in {stored, shown} /\ shown' = stored'
          /\ lost' = (lost \/ stored' # shown)
      BY <2>4 DEF LRestart, Restored
    <3>2. /\ lastSession' = None /\ liveEnergy' = None /\ liveTime' = None
          /\ prevState' = None /\ reports' = reports
      BY <3>1 DEF HRestart, Restart
    <3>3. None \notin Active
      BY SessionAssumption DEF States
    <3>4. ~lost' => ~lost /\ shown' = shown
      BY <3>1
    <3> QED
      BY <3>1, <3>2, <3>3, <3>4
  <2>5. CASE UNCHANGED lvars
    BY <2>5 DEF lvars
  <2> QED
    BY <2>1, <2>2, <2>3, <2>4, <2>5 DEF LNext
<1>3. SnapshotInv => SnapshotIsReport
  BY DEF SnapshotInv, OneReport, OfSomeReport, Held, AllWhole, SnapshotIsReport
<1> QED
  BY <1>1, <1>2, <1>3, SensorsKeepReports, HistoryTypes, PTL DEF LSpec
=============================================================================
