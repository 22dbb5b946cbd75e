--------------------------- MODULE ChargingSwitch ---------------------------
(* ChargerSwitch: the toggle shows what the user asked for until a poll     *)
(* agrees, because the station goes on serving the old value for a few      *)
(* responses after a write; and for three polls at most, because a write    *)
(* the station ignored must lose to reality.                                *)
(*                                                                          *)
(* Only V2 has the switch, so a poll is not suspended between its response  *)
(* and the notification; the lock of BaseCharger keeps polls and writes     *)
(* apart.                                                                   *)
EXTENDS CoordinatorView, Integers

CONSTANTS Lag,        \* responses that still serve the old value after a write
          MaxWrites,  \* bound: writes
          MaxTouches  \* bound: changes made at the station itself

ASSUME SwitchAssumption ==
  /\ {None, Absent} \cap BOOLEAN = {} /\ None # Absent
  /\ Lag \in Nat /\ MaxWrites \in Nat /\ MaxTouches \in Nat

VARIABLES
  enabled,     \* station: charging is enabled
  cached,      \* station: the value it serves while lagging
  lagging,     \* station: responses left that serve it
  writing,     \* the value a write in flight carries; it holds the request lock
  optimistic,  \* _optimistic
  polls,       \* _optimistic_polls
  reading,     \* evseEnabled in coordinator.data; None: no data yet
  writes,      \* history: writes so far
  touches,     \* history: changes made at the station
  wanted       \* history: what the latest write asked for, as long as the
               \*          station did it, nobody interfered and no poll failed

contactor  == <<enabled, cached, lagging>>
held       == <<optimistic, polls>>
switchVars == <<enabled, cached, lagging, writing, optimistic, polls, reading, lastOk,
                writes, touches, wanted>>

OptimisticMaxPolls == 3

SwitchTypeOK ==
  /\ enabled \in BOOLEAN /\ cached \in BOOLEAN /\ lagging \in 0..Lag
  /\ writing \in BOOLEAN \cup {None}
  /\ optimistic \in BOOLEAN \cup {None}
  /\ polls \in 0..OptimisticMaxPolls
  /\ optimistic # None => polls < OptimisticMaxPolls
  /\ reading \in BOOLEAN \cup {None, Absent}
  /\ lastOk \in BOOLEAN
  /\ writes \in 0..MaxWrites /\ touches \in 0..MaxTouches
  /\ wanted \in BOOLEAN \cup {None}

\* Setup has polled once, in vain or not.
SwitchNew ==
  /\ enabled \in BOOLEAN /\ cached = enabled /\ lagging = 0
  /\ writing = None
  /\ optimistic = None /\ polls = 0
  /\ reading \in {None, enabled}
  /\ writes = 0 /\ touches = 0 /\ wanted = None

SwitchInit == SwitchNew /\ lastOk = (reading # None)

\* is_on
IsOn == IF optimistic # None THEN optimistic
        ELSE IF reading = None THEN FALSE
        ELSE IF reading = Absent THEN None
        ELSE reading

-----------------------------------------------------------------------------
\* The lock of BaseCharger: one exchange with the station at a time.
LockFree == writing = None

\* Somebody presses the button on the station, or a limit ends the session.
Touch ==
  /\ touches < MaxTouches /\ touches' = touches + 1
  /\ enabled' = ~enabled
  /\ wanted' = None
  /\ UNCHANGED <<cached, lagging, writing, optimistic, polls, reading, lastOk, writes>>

\* async_turn_on / async_turn_off up to the await: the station gets the write,
\* and may ignore it.
Write(b) ==
  /\ LockFree
  /\ writes < MaxWrites /\ writes' = writes + 1
  /\ writing' = b
  /\ enabled' \in {enabled, b}
  /\ cached' \in {enabled, cached}
  /\ lagging' = Lag
  /\ wanted' = IF enabled' = b THEN b ELSE None
  /\ UNCHANGED <<optimistic, polls, reading, lastOk, touches>>

\* Plausible bug: a second write inherits the polls of the first.
WriteReturnsCounting ==
  /\ writing # None
  /\ writing' = None
  /\ optimistic' = writing
  /\ UNCHANGED <<contactor, polls, reading, lastOk, writes, touches, wanted>>

\* ... and from it on: _set_optimistic.
WriteReturns ==
  /\ writing # None
  /\ writing' = None
  /\ optimistic' = writing /\ polls' = 0
  /\ UNCHANGED <<contactor, reading, lastOk, writes, touches, wanted>>

\* The station did not answer the write, done or not: the action raises.
WriteFails ==
  /\ writing # None
  /\ writing' = None
  /\ wanted' = None
  /\ UNCHANGED <<contactor, held, reading, lastOk, writes, touches>>

\* _handle_coordinator_update with r in coordinator.data.
Polled(r) == IF r \in BOOLEAN THEN r ELSE None

\* Plausible bug: only agreement ends the hold.
NotifiedUncounted(r) ==
  /\ UNCHANGED polls
  /\ optimistic' = IF Polled(r) = optimistic THEN None ELSE optimistic

Notified(r) ==
  IF optimistic = None THEN UNCHANGED held
  ELSE /\ polls' = polls + 1
       /\ optimistic' = IF Polled(r) = optimistic \/ polls + 1 >= OptimisticMaxPolls
                        THEN None ELSE optimistic

\* A poll is answered; every success notifies.
PollAnswered ==
  /\ LockFree
  /\ reading' \in {Absent, IF lagging > 0 THEN cached ELSE enabled}
  /\ lagging' = IF lagging > 0 THEN lagging - 1 ELSE 0
  /\ lastOk' = TRUE
  /\ Notified(reading')
  /\ wanted' = IF reading' = Absent THEN None ELSE wanted
  /\ UNCHANGED <<enabled, cached, writing, writes, touches>>

\* A poll fails; the first failure notifies, with the old data.
PollFails ==
  /\ LockFree
  /\ lastOk' = FALSE
  /\ IF lastOk THEN Notified(reading) ELSE UNCHANGED held
  /\ wanted' = None
  /\ UNCHANGED <<contactor, writing, reading, writes, touches>>

SwitchNext ==
  \/ Touch \/ (\E b \in BOOLEAN : Write(b)) \/ WriteReturns \/ WriteFails
  \/ PollAnswered \/ PollFails

\* A request ends one way or the other, its timeout sees to that; the core
\* keeps polling, and a station that is asked again and again answers with the
\* field in the frame again and again.
SwitchFairness ==
  /\ WF_switchVars(WriteReturns \/ WriteFails)
  /\ SF_switchVars(PollAnswered /\ reading' # Absent)

SwitchSpec == SwitchInit /\ [][SwitchNext]_switchVars /\ SwitchFairness

-----------------------------------------------------------------------------
\* The toggle does not spring back: once a write has returned and the station
\* did it, is_on shows what was asked for, through every response that still
\* serves the old value and across the poll that ends the hold -- a second
\* write while the first is still being held included.  Failed polls and frames
\* without the field count as polls and void the promise.
NoSpringBack == wanted # None /\ writing = None => IsOn = wanted

\* Reality wins: whatever writes were ignored, lost or overtaken by the button
\* on the station, the toggle ends up showing what the station does, or nothing
\* while a frame lacks the field; it never settles on the opposite.
RealityWins == <>[](IsOn \in {enabled, None})
=============================================================================
