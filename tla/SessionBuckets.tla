--------------------------- MODULE SessionBuckets ---------------------------
(* SessionEnergySensor: one statistics bucket per charging session.  The    *)
(* recorder books a value under the last_reset published with it; the       *)
(* sensor moves last_reset when it finds a session boundary, by a drop of   *)
(* the session counter or by the identity between the session and the       *)
(* lifetime counter, against an anchor that survives restarts.              *)
EXTENDS CoordinatorView, Integers, Sequences

CONSTANTS Moved,        \* _CHARGE_MOVED_KWH
          MaxTotal,     \* bound: the lifetime counter
          MaxSessions,  \* bound: sessions
          MaxStarts     \* bound: starts of Home Assistant

ASSUME BucketsAssumption ==
  Moved \in Nat /\ MaxTotal \in Nat /\ MaxSessions \in Nat /\ MaxStarts \in Nat /\ None \notin Nat

VARIABLES
  energy, total,  \* station: sessionEnergy and totalEnergy
  session,        \* station: number of the session
  booting,        \* station: the lifetime counter is not read back from flash yet
  up,             \* the entity exists
  frame,          \* coordinator.data; the session in it is history
  prev,           \* _prev_energy
  anchor,         \* _anchor_energy and _anchor_total, set and cleared together
  lastReset,      \* _attr_last_reset: number of the reset whose time it is
  stored,         \* what is on disk for the entity
  saving,         \* a payload captured and not written yet
  starts,         \* history: starts so far
  opened,         \* history: session of the frame each reset fired on
  seen,           \* recorder: latest value booked, and under which last_reset
  surplus,        \* recorder: its sum, less what the station delivered since
  late,           \* history: a value was published under another session's bucket
  torn,           \* history: a crash came between a reset and the end of its save
  handled,        \* history: session of the latest frame handled
  faint,          \* history: sessions whose beginning leaves too little to see
  doubt,          \* history: nothing to compare the next frame with
  missed          \* history: the latest boundary handled may have gone unseen

meter      == <<energy, total, session, booting>>
measured   == <<prev, anchor, lastReset>>
recorder   == <<seen, surplus, late>>
witness    == <<handled, faint, doubt, missed>>
bucketVars == <<meter, up, lastOk, frame, measured, stored, saving, starts, opened,
                recorder, torn, witness>>

Pairs    == [energy : Nat, total : Nat]
Payloads == [reset : Nat \cup {None}, anchor : Pairs \cup {None}]
Readings == [energy : Nat \cup {None}, total : Nat \cup {None}, session : Nat]
Bookings == [reset : Nat \cup {None}, value : Nat]

ASSUME BucketsNoneAssumption == None \notin Pairs \cup Readings \cup Bookings

BucketsTypeOK ==
  /\ energy \in Nat /\ total \in Nat /\ session \in Nat /\ booting \in BOOLEAN
  /\ up \in BOOLEAN
  /\ frame \in Readings \cup {None}
  /\ prev \in Nat \cup {None}
  /\ anchor \in Pairs \cup {None}
  /\ opened \in Seq(Nat)
  /\ lastReset \in 1..Len(opened) \cup {None}
  /\ stored \in Payloads /\ saving \in Payloads \cup {None}
  /\ starts \in Nat
  /\ seen \in Bookings \cup {None}
  /\ surplus \in Int
  /\ {late, torn, doubt, missed} \subseteq BOOLEAN /\ faint \subseteq Nat
  /\ handled \in Nat

\* Home Assistant has never run with this entity.
BucketsNew ==
  /\ energy = 0 /\ total = 1 /\ session = 1 /\ booting = FALSE
  /\ up = FALSE /\ frame = None
  /\ prev = None /\ anchor = None /\ lastReset = None
  /\ stored = [reset |-> None, anchor |-> None] /\ saving = None
  /\ starts = 0 /\ opened = <<>>
  /\ seen = None /\ surplus = 0 /\ late = FALSE /\ torn = FALSE
  /\ handled = 1 /\ faint = {} /\ doubt = TRUE /\ missed = FALSE

BucketsInit == BucketsNew /\ lastOk = FALSE

-----------------------------------------------------------------------------
(* The station.  A session ends by the cable, or by a power cut, which rolls *)
(* the lifetime counter back by what was not flushed: on V1 the whole        *)
(* session.  Until the counter is read back, frames show it as zero.         *)

ChargeUnit ==
  /\ total < MaxTotal
  /\ energy' = energy + 1 /\ total' = total + 1
  /\ surplus' = IF seen = None THEN surplus ELSE surplus - 1
  /\ UNCHANGED <<session, booting, up, lastOk, frame, measured, stored, saving, starts, opened,
                 seen, late, torn, witness>>

\* A session that delivered no more than the threshold hides in the noise.
SessionEnds ==
  /\ session < MaxSessions /\ energy > 0
  /\ session' = session + 1 /\ energy' = 0
  /\ faint' = IF energy <= Moved THEN faint \cup {session + 1} ELSE faint
  /\ UNCHANGED <<total, booting, up, lastOk, frame, measured, stored, saving, starts, opened,
                 recorder, torn, handled, doubt, missed>>

PowerCut ==
  /\ session < MaxSessions /\ energy > 0
  /\ \E lost \in 0..energy :
       /\ total' = total - lost
       /\ faint' = IF energy - lost <= Moved THEN faint \cup {session + 1} ELSE faint
  /\ session' = session + 1 /\ energy' = 0 /\ booting' = TRUE
  /\ UNCHANGED <<up, lastOk, frame, measured, stored, saving, starts, opened,
                 recorder, torn, handled, doubt, missed>>

\* A frame the station answers with, as the counter guard leaves it: either
\* field may lack.  The first real lifetime reading ends the boot.
Answers(f) ==
  /\ f.energy \in {energy, None} /\ f.session = session
  /\ \/ f.total = None /\ UNCHANGED booting
     \/ f.total = 0 /\ booting /\ UNCHANGED booting
     \/ f.total = total /\ booting' = FALSE
  /\ UNCHANGED <<energy, total, session>>

PolledFrames == [energy : {energy, None}, total : {0, total, None}, session : {session}]

-----------------------------------------------------------------------------
\* A frame carries the counters only with both, and the lifetime one not zero.
Carries(f) == f.energy # None /\ f.total \notin {None, 0}

PairOf(f) == [energy |-> f.energy, total |-> f.total]

\* The session counter was seen to fall.
Fell(f) == prev # None /\ f.energy # None /\ f.energy < prev

\* Across a boundary the two counters disagree by what the session delivered.
Disagree(f) ==
  /\ Carries(f) /\ anchor # None
  /\ (f.total - anchor.total) - (f.energy - anchor.energy) > Moved

\* What restore_state captures when it asks the entity.
Payload == [reset |-> lastReset, anchor |-> anchor]

\* Plausible bug: the save is scheduled before the anchor moves.
BoundaryFoundSavedFirst(f) ==
  /\ Fell(f) \/ Disagree(f)
  /\ opened' = Append(opened, f.session)
  /\ lastReset' = Len(opened')
  /\ anchor' = IF Carries(f) THEN PairOf(f) ELSE None
  /\ saving' = [reset |-> lastReset', anchor |-> anchor]

\* A boundary: a new last_reset and a new anchor, saved at once and last, so
\* that the captured payload has both; the write itself finishes later.
BoundaryFound(f) ==
  /\ Fell(f) \/ Disagree(f)
  /\ opened' = Append(opened, f.session)
  /\ lastReset' = Len(opened')
  /\ anchor' = IF Carries(f) THEN PairOf(f) ELSE None
  /\ saving' = Payload'

NoBoundary(f) ==
  /\ ~Fell(f) /\ ~Disagree(f)
  /\ anchor' = IF ~Carries(f) THEN None ELSE IF anchor = None THEN PairOf(f) ELSE anchor
  /\ UNCHANGED <<lastReset, opened, saving>>

\* _handle_coordinator_update, up to what it publishes.
Handle(f) ==
  /\ BoundaryFound(f) \/ NoBoundary(f)
  /\ prev' = f.energy
  /\ handled' = f.session
  /\ doubt' = ~Carries(f)
  /\ missed' = IF f.session = handled THEN missed
               ELSE doubt \/ ~Carries(f) \/ faint \cap (handled + 1)..f.session # {}
  /\ UNCHANGED faint

-----------------------------------------------------------------------------
\* The session whose bucket a last_reset opened.
BucketOf(r) == IF r = None THEN 1 ELSE opened'[r]

\* The recorder books f under r: within a bucket it adds the difference, and a
\* new last_reset starts a bucket at zero.  The first value ever adds nothing.
Publish(f, r) ==
  IF f.energy = None THEN UNCHANGED recorder
  ELSE LET known  == IF seen = None THEN None ELSE seen.reset
           opens  == r # None /\ r # known
           booked == IF seen = None THEN 0
                     ELSE IF opens THEN f.energy ELSE f.energy - seen.value
       IN /\ seen' = [reset |-> IF r = None THEN known ELSE r, value |-> f.energy]
          /\ surplus' = surplus + booked
          /\ late' = (late \/ BucketOf(r) # f.session)

BucketsPolled ==
  /\ up
  /\ \E f \in PolledFrames :
       /\ Answers(f)
       /\ frame' = f
       /\ Handle(f)
       /\ Publish(f, lastReset')
  /\ lastOk' = TRUE
  /\ UNCHANGED <<up, stored, starts, torn>>

\* The first failure hands the previous frame to the entity once more, which is
\* unavailable by then and publishes nothing.
BucketsPollFails ==
  /\ up /\ lastOk
  /\ lastOk' = FALSE
  /\ Handle(frame)
  /\ UNCHANGED <<meter, up, frame, stored, starts, recorder, torn>>

\* The periodic dump, when it has something new; it overtakes a save that has not
\* been written.
Dump ==
  /\ up /\ Payload # (IF saving = None THEN stored ELSE saving)
  /\ saving' = Payload
  /\ UNCHANGED <<meter, up, lastOk, frame, measured, stored, starts, opened, recorder, torn, witness>>

SaveDone ==
  /\ saving # None
  /\ stored' = saving /\ saving' = None
  /\ UNCHANGED <<meter, up, lastOk, frame, measured, starts, opened, recorder, torn, witness>>

\* Home Assistant stops, or the entry is unloaded: everything is stored.
Stop ==
  /\ up /\ up' = FALSE
  /\ stored' = Payload /\ saving' = None
  /\ UNCHANGED <<meter, lastOk, frame, measured, starts, opened, recorder, torn, witness>>

\* What was not written is lost.
Crash ==
  /\ up /\ up' = FALSE
  /\ torn' = (torn \/ (lastReset # stored.reset))
  /\ saving' = None
  /\ missed' = TRUE /\ doubt' = TRUE
  /\ UNCHANGED <<meter, lastOk, frame, measured, stored, starts, opened, recorder,
                 handled, faint>>

\* Plausible bug: the anchor does not survive a restart.
RestoredWithoutAnchor ==
  lastReset' = stored.reset /\ anchor' = None /\ prev' = None

Restored ==
  lastReset' = stored.reset /\ anchor' = stored.anchor /\ prev' = None

\* Setup polls, then adds the entity: it restores, and publishes the frame of
\* setup without having been notified of it.
BucketsStart ==
  /\ ~up /\ up' = TRUE
  /\ starts < MaxStarts /\ starts' = starts + 1
  /\ Restored
  /\ UNCHANGED <<stored, saving, opened, torn, witness>>
  /\ \/ \E f \in PolledFrames :
          /\ Answers(f) /\ frame' = f /\ lastOk' = TRUE
          /\ Publish(f, lastReset')
     \/ /\ frame' = None /\ lastOk' = FALSE
        /\ UNCHANGED <<meter, recorder>>

BucketsNext ==
  \/ ChargeUnit \/ SessionEnds \/ PowerCut
  \/ BucketsPolled \/ BucketsPollFails \/ Dump \/ SaveDone
  \/ Stop \/ Crash \/ BucketsStart

BucketsSpec == BucketsInit /\ [][BucketsNext]_bucketVars

-----------------------------------------------------------------------------
\* No session is booked twice: as long as every value went into the bucket of
\* its own session and no crash cut a reset off from its save, the sum of the
\* recorder never exceeds what the station delivered -- through drops, blind
\* boundaries, boots, periodic dumps and crashes at any other moment.
NotBookedTwice == ~late /\ ~torn => surplus <= 0

\* A boundary nobody watched is found by the first frame handled after it: when
\* the frames on both sides carry the counters, nothing was lost to a crash and
\* the finished session moved more than the threshold, the bucket is that of
\* the session of the frame -- however far the new session has got, and
\* whether Home Assistant ran in between or not.
BoundaryNoticed == ~missed => handled = (IF lastReset = None THEN 1 ELSE opened[lastReset])

\* "A session that restarted while Home Assistant was offline still starts a new
\* statistics bucket": the sum never exceeds what was delivered, with no crash
\* at all.
SumIsDelivered == ~torn => surplus <= 0
=============================================================================
