-------------------------------- MODULE Parts --------------------------------
(* The parts of the integration that keep a state of their own and meet     *)
(* nowhere but in the frame of the coordinator and the storage of Home      *)
(* Assistant: the safety sensor, the switch, the session energy sensor, the *)
(* conversion of frames, and the config entries.  One of them moves in a    *)
(* behaviour and the others stay as they are, so that the states of a run   *)
(* add up and do not multiply.                                              *)
EXTENDS GroundSensor, ChargingSwitch, SessionBuckets, Frames, ConfigFlows

VARIABLE subject   \* the part that moves

partsVars == <<subject, lastOk, data, count, on, ctrlOn, log,
               enabled, cached, lagging, writing, optimistic, polls, reading,
               writes, touches, wanted,
               energy, total, session, booting, up, frame, prev, anchor, lastReset,
               stored, saving, starts, opened, seen, surplus, late, torn,
               handled, faint, doubt, missed,
               model, raw, clock, heard, kept, shown, usual,
               entries, testing, life, after, due, runtime, services, submits, raced>>

-----------------------------------------------------------------------------
\* What each part has besides lastOk.
groundOwn == <<data, count, on, ctrlOn, log>>
switchOwn == <<enabled, cached, lagging, writing, optimistic, polls, reading,
               writes, touches, wanted>>
bucketOwn == <<energy, total, session, booting, up, frame, prev, anchor, lastReset,
               stored, saving, starts, opened, seen, surplus, late, torn,
               handled, faint, doubt, missed>>
frameOwn  == <<model, raw, clock, heard, kept, shown, usual>>

PartsTypeOK ==
  /\ subject \in {"ground", "switch", "buckets", "frames", "flows"}
  /\ GroundTypeOK /\ SwitchTypeOK /\ BucketsTypeOK /\ FramesTypeOK /\ FlowsTypeOK

\* A part that stands still does so in one of its initial states.
PartsInit ==
  /\ subject \in {"ground", "switch", "buckets", "frames", "flows"}
  /\ GroundNew /\ SwitchNew /\ BucketsNew /\ FramesNew /\ FlowsInit
  /\ subject # "switch" => enabled = FALSE /\ reading = None
  /\ subject # "frames" => model = "v1"
  /\ lastOk = IF subject = "switch" THEN reading # None ELSE subject # "buckets"

GroundMoves ==
  /\ subject = "ground" /\ GroundNext
  /\ UNCHANGED <<subject, switchOwn, bucketOwn, frameOwn, flowVars>>

SwitchMoves ==
  /\ subject = "switch" /\ SwitchNext
  /\ UNCHANGED <<subject, groundOwn, bucketOwn, frameOwn, flowVars>>

BucketsMove ==
  /\ subject = "buckets" /\ BucketsNext
  /\ UNCHANGED <<subject, groundOwn, switchOwn, frameOwn, flowVars>>

FramesMove ==
  /\ subject = "frames" /\ FramesNext
  /\ UNCHANGED <<subject, groundOwn, switchOwn, bucketOwn, flowVars>>

FlowsMove ==
  /\ subject = "flows" /\ FlowsNext
  /\ UNCHANGED <<subject, lastOk, groundOwn, switchOwn, bucketOwn, frameOwn>>

PartsNext == GroundMoves \/ SwitchMoves \/ BucketsMove \/ FramesMove \/ FlowsMove

\* The fairness of the switch, where it moves.
PartsFairness ==
  /\ WF_switchVars(subject = "switch" /\ (WriteReturns \/ WriteFails))
  /\ SF_switchVars(subject = "switch" /\ PollAnswered /\ reading' # Absent)

PartsSpec == PartsInit /\ [][PartsNext]_partsVars /\ PartsFairness
=============================================================================
