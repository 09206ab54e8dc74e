---------------------------- MODULE BreakManager ----------------------------
(***************************************************************************)
(* The break reminder state machine of js/misc/breakManager.js (class      *)
(* BreakManager), with the two services it is driven by: the idle monitor  *)
(* (an idle watch that fires after MIN_BREAK_LENGTH_SECONDS without input, *)
(* a one-shot watch that fires at the next input) and GLib's timers.       *)
(*                                                                         *)
(* Time is counted in ticks, TicksPerSec to the second: the code reads a   *)
(* clock with fractions of a second and arms timers in whole seconds, so   *)
(* the rounding of _scheduleUpdateState is visible.  Timers run on the     *)
(* monotonic clock and `now' is the wall clock: ClockStep moves only the   *)
(* latter (a suspend, or the user setting the clock).                      *)
(***************************************************************************)
EXTENDS Integers, FiniteSets

CONSTANTS
  TypeSettings,    \* for every break type, the values its settings may take
  MinBreakLength,  \* MIN_BREAK_LENGTH_SECONDS, in ticks
  TicksPerSec,     \* resolution of the clock
  StartTime,       \* wall clock time when the manager is constructed
  MaxTime,         \* bound on the wall clock
  ClockSteps,      \* sizes of the steps the wall clock may make
  MaxClockSteps,   \* bound on the number of such steps
  NoType           \* JavaScript's null, for break types

\* SUPPORTED_BREAK_TYPES
BreakTypes == {"eyesight", "movement"}

\* The iteration order of SUPPORTED_BREAK_TYPES.
FirstSupported == "eyesight"

\* The settings of a break type that the state machine reads.
Settings == [duration : Nat \ {0}, interval : Nat \ {0}, delay : Nat]

ASSUME SettingsAssumption ==
  \A b \in BreakTypes :
    TypeSettings[b] \subseteq Settings

ASSUME TimeAssumption ==
  /\ TicksPerSec \in Nat \ {0}
  /\ MinBreakLength \in Nat
  /\ StartTime \in Nat /\ StartTime > MinBreakLength
  /\ MaxTime \in Nat
  /\ ClockSteps \subseteq Int
  /\ MaxClockSteps \in Nat

ASSUME NoTypeAssumption == NoType \notin BreakTypes

VARIABLES
  now,         \* wall clock, in ticks
  conf,        \* GSettings: duration, interval and delay of every type
  enabled,     \* keys of the maps _breakTypeSettings and _breakLastEnd
  first,       \* when both types are enabled, the one inserted first
  lastEnd,     \* _breakLastEnd, 0 for a type that is not enabled
  state,       \* _state
  curType,     \* _currentBreakType
  curStart,    \* _currentBreakStartTime
  idleState,   \* _idleState
  idleStart,   \* _idleStartTime
  idleWatch,   \* _idleWatchId !== 0
  activeWatch, \* _activeWatchId !== 0
  timer,       \* ticks until the timer _timerId fires, NoTimer if it is 0
  skew,        \* how far the wall clock was stepped since the timer was armed
  steps,       \* number of clock steps so far
  sinceInput,  \* idle monitor: ticks since the last input
  idleFired,   \* idle monitor: the idle watch fired in this idle period
  signals      \* signals the last step emitted

mapVars == <<enabled, first>>
machineVars == <<lastEnd, state, curType, curStart, idleState, idleStart>>
watchVars == <<idleWatch, activeWatch>>
timerVars == <<timer, skew>>
monitorVars == <<sinceInput, idleFired>>
clockVars == <<now, steps>>

vars == <<conf, mapVars, machineVars, watchVars, timerVars, monitorVars,
          clockVars, signals>>

NoTimer == -1

\* An entry of selected-breaks that names no supported type.
OtherType == "other"

\* Values of selected-breaks.  An entry that names no supported type matters only
\* in a list that would be empty without it.
Selections == (SUBSET BreakTypes) \cup {{OtherType}}

BreakStates == {"DISABLED", "ACTIVE", "IDLE", "IN_BREAK", "BREAK_DUE"}

IdleStates == {"ACTIVE", "IDLE"}

\* The signals other than property notifications, whose listeners read the
\* properties again.
SignalNames == {"break-due", "break-finished", "take-break"}

-----------------------------------------------------------------------------
(* getNextBreakDue: which break is due, or will be next, and when.         *)

\* breakTypeWouldBeDueAt
WouldBeDueAt(cf, le, b) == le[b] + cf[b].interval

DueTypes(en, cf, le, from) == {b \in en : WouldBeDueAt(cf, le, b) <= from}

\* The last of S in the insertion order of the map, f being the first key.
LastIn(S, f) == CHOOSE b \in S : \A c \in S \ {b} : c = f

\* The due type the loop keeps: longest duration, the earlier key on a tie.
Longest(S, cf, f) ==
  CHOOSE b \in S : \A c \in S \ {b} :
    IF b = f THEN cf[b].duration >= cf[c].duration
             ELSE cf[b].duration > cf[c].duration

\* The type the loop keeps when none is due: due soonest, earlier key on a tie.
Soonest(S, cf, le, f) ==
  CHOOSE b \in S : \A c \in S \ {b} :
    IF b = f THEN WouldBeDueAt(cf, le, b) <= WouldBeDueAt(cf, le, c)
             ELSE WouldBeDueAt(cf, le, b) < WouldBeDueAt(cf, le, c)

\* The time returned is that of the last due type in the order of the map,
\* whichever type is returned: every due type overwrites nextDueTime.
NextBreakDue(en, f, cf, le, from) ==
  LET due == DueTypes(en, cf, le, from)
  IN  IF en = {} THEN [type |-> NoType, time |-> 0]
      ELSE IF due # {}
      THEN [type |-> Longest(due, cf, f),
            time |-> WouldBeDueAt(cf, le, LastIn(due, f))]
      ELSE LET b == Soonest(en, cf, le, f)
           IN  [type |-> b, time |-> WouldBeDueAt(cf, le, b)]

\* The body of the loop of getNextBreakDue over one key of the map, acc being
\* maxDuration, maxDurationType and nextDueTime.
LoopBody(cf, le, from, acc, b) ==
  LET at == WouldBeDueAt(cf, le, b)
      longer == acc.duration = 0 \/ cf[b].duration > acc.duration
  IN  IF at <= from
      THEN [duration |-> IF longer THEN cf[b].duration ELSE acc.duration,
            type     |-> IF longer THEN b ELSE acc.type,
            time     |-> at]
      ELSE IF acc.time = 0 \/ acc.time > at
      THEN [duration |-> acc.duration, type |-> b, time |-> at]
      ELSE acc

\* The loop itself, over the keys in the order they were inserted in.
Loop(en, f, cf, le, from) ==
  LET Body(acc, b) == IF b \in en THEN LoopBody(cf, le, from, acc, b) ELSE acc
      second == CHOOSE b \in BreakTypes : b # f
  IN  Body(Body([duration |-> 0, type |-> NoType, time |-> 0], f), second)

-----------------------------------------------------------------------------
(* _scheduleUpdateState and the two branches of _updateState.  Parameters  *)
(* are the fields as the caller left them; tm is the timer it left.        *)

\* Mutant: rounds down, so the timer fires early and is armed again for 0 s.
FloorToSecs(t) == (t \div TicksPerSec) * TicksPerSec

\* Math.ceil, to whole seconds
CeilToSecs(t) == ((t + TicksPerSec - 1) \div TicksPerSec) * TicksPerSec

ScheduleUpdateState(timeout) ==
  /\ timer' = CeilToSecs(timeout)
  /\ skew' = 0

KeepTimer(tm) ==
  /\ timer' = tm
  /\ skew' = IF tm = NoTimer THEN 0 ELSE skew

\* Mutant: arms the timer for a break that is due already.
ScheduleAnyBreak(next, isDue, tm) ==
  \/ next.time # 0 /\ ScheduleUpdateState(next.time - now)
  \/ next.time = 0 /\ KeepTimer(tm)

\* Both branches arm the timer for a break that is not due yet.
ScheduleNextBreak(next, isDue, tm) ==
  LET upcoming == ~isDue /\ next.time # 0
  IN  \/ upcoming /\ ScheduleUpdateState(next.time - now)
      \/ ~upcoming /\ KeepTimer(tm)

UpdateStateIdle(en, f, cf, le, iStart, st, tm) ==
  LET next == NextBreakDue(en, f, cf, le, now)
      isDue == next.type # NoType /\ next.time <= now
      endTime == next.time + cf[next.type].duration
      inBreak == isDue /\ endTime > now
      newState == IF inBreak THEN "IN_BREAK" ELSE "IDLE"
  IN  /\ \/ inBreak /\ ScheduleUpdateState(endTime - now)
         \/ ~inBreak /\ ScheduleNextBreak(next, isDue, tm)
      /\ state' = newState
      /\ IF st # newState
         THEN /\ curType' = next.type
              /\ curStart' = IF inBreak THEN next.time ELSE 0
         ELSE UNCHANGED <<curType, curStart>>
      /\ signals' = IF isDue /\ ~inBreak /\ st = "IN_BREAK"
                    THEN {"break-finished"} ELSE {}
      /\ lastEnd' = le
      /\ idleState' = "IDLE"
      /\ idleStart' = iStart

\* Mutant: adds to the idle time the wait that idleStart accounts for already.
BreaksTakenEarly(en, cf, le, iStart) ==
  [b \in BreakTypes |->
     IF b \in en /\ iStart > 0 /\ now - iStart + MinBreakLength >= cf[b].duration
     THEN now ELSE le[b]]

\* The break types whose duration the idle time covers count as taken.
BreaksTaken(en, cf, le, iStart) ==
  [b \in BreakTypes |->
     IF b \in en /\ iStart > 0 /\ now - iStart >= cf[b].duration
     THEN now ELSE le[b]]

UpdateStateActive(en, f, cf, le, iStart, st, tm) ==
  LET taken == BreaksTaken(en, cf, le, iStart)
      next == NextBreakDue(en, f, cf, taken, now)
      isDue == next.type # NoType /\ next.time <= now
      announce == isDue /\ st = "ACTIVE"
      relax == ~isDue /\ st # "ACTIVE"
  IN  /\ ScheduleNextBreak(next, isDue, tm)
      /\ state' = IF announce THEN "BREAK_DUE" ELSE IF relax THEN "ACTIVE" ELSE st
      /\ curType' = IF announce THEN next.type ELSE IF relax THEN NoType ELSE curType
      /\ curStart' = IF announce THEN next.time ELSE IF relax THEN 0 ELSE curStart
      /\ signals' = IF announce THEN {"break-due"} ELSE {}
      /\ lastEnd' = taken
      /\ idleState' = "ACTIVE"
      /\ idleStart' = 0

UpdateState(en, f, cf, le, iState, iStart, st, tm) ==
  \/ iState = "IDLE" /\ UpdateStateIdle(en, f, cf, le, iStart, st, tm)
  \/ iState = "ACTIVE" /\ UpdateStateActive(en, f, cf, le, iStart, st, tm)

-----------------------------------------------------------------------------
(* The operations and callbacks.                                           *)

Init ==
  /\ now = StartTime /\ steps = 0
  /\ conf \in [BreakTypes -> UNION {TypeSettings[b] : b \in BreakTypes}]
  /\ \A b \in BreakTypes : conf[b] \in TypeSettings[b]
  /\ enabled = {} /\ first = FirstSupported
  /\ lastEnd = [b \in BreakTypes |-> 0]
  /\ state = "DISABLED" /\ curType = NoType /\ curStart = 0
  /\ idleState = "ACTIVE" /\ idleStart = 0
  /\ idleWatch = FALSE /\ activeWatch = FALSE
  /\ timer = NoTimer /\ skew = 0
  /\ sinceInput = 0 /\ idleFired = FALSE
  /\ signals = {}

StopStateMachine ==
  /\ idleWatch' = FALSE /\ activeWatch' = FALSE
  /\ timer' = NoTimer /\ skew' = 0
  /\ enabled' = {} /\ first' = FirstSupported
  /\ lastEnd' = [b \in BreakTypes |-> 0]
  /\ state' = "DISABLED" /\ curType' = NoType /\ curStart' = 0
  /\ idleState' = "ACTIVE" /\ idleStart' = 0
  /\ signals' = {}
  /\ UNCHANGED idleFired

\* The first key of the maps once the types of S are the enabled ones: types
\* that stay keep their place, new ones are added in the supported order.
FirstKey(S) ==
  LET kept == enabled \cap S
  IN  IF kept = BreakTypes THEN first
      ELSE IF kept = {} THEN FirstSupported
      ELSE CHOOSE b \in kept : TRUE

\* A type that becomes enabled counts as if its break had just ended.
LastEndFor(S) ==
  [b \in BreakTypes |->
     IF b \notin S THEN 0 ELSE IF b \in enabled THEN lastEnd[b] ELSE now]

\* _startStateMachine; the idle monitor knows nothing of the new watch yet.
\* _updateState runs on the fields just reset, so st is ACTIVE.
StartStateMachine(en, f, le) ==
  /\ idleWatch' = TRUE /\ idleFired' = FALSE
  /\ UNCHANGED activeWatch
  /\ UpdateState(en, f, conf, le, "ACTIVE", 0, "ACTIVE", timer)

\* _updateSettings, the handler of the `changed' signal of selected-breaks
SetSelected(S) ==
  /\ UNCHANGED <<conf, sinceInput, clockVars>>
  /\ \/ S = {} /\ StopStateMachine
     \/ /\ S # {}
        /\ enabled' = S \cap BreakTypes
        /\ first' = FirstKey(S)
        /\ \/ /\ state = "DISABLED"
              /\ StartStateMachine(enabled', first', LastEndFor(S))
           \/ /\ state # "DISABLED"
              /\ UpdateState(enabled', first', conf, LastEndFor(S), idleState,
                             idleStart, state, timer)
              /\ UNCHANGED <<watchVars, idleFired>>

\* The settings of a type change: the handler is connected for enabled types.
SetTypeSettings(b, r) ==
  /\ r # conf[b]
  /\ conf' = [conf EXCEPT ![b] = r]
  /\ \/ /\ b \in enabled
        /\ UpdateState(enabled, first, conf', lastEnd, idleState, idleStart,
                       state, timer)
     \/ /\ b \notin enabled
        /\ signals' = {}
        /\ UNCHANGED <<machineVars, timerVars>>
  /\ UNCHANGED <<mapVars, watchVars, monitorVars, clockVars>>

\* The idle watch has a callback to run.
IdleWatchReady == idleWatch /\ ~idleFired /\ sinceInput >= MinBreakLength

\* Mutant: goes back further than the idle watch waited.
OnIdleWatchEarly ==
  /\ IdleWatchReady
  /\ idleFired' = TRUE
  /\ activeWatch' = TRUE
  /\ UpdateState(enabled, first, conf, lastEnd, "IDLE", now - MinBreakLength - 1,
                 state, timer)
  /\ UNCHANGED <<conf, mapVars, idleWatch, sinceInput, clockVars>>

OnIdleWatch ==
  /\ IdleWatchReady
  /\ idleFired' = TRUE
  /\ activeWatch' = TRUE
  /\ UpdateState(enabled, first, conf, lastEnd, "IDLE", now - MinBreakLength,
                 state, timer)
  /\ UNCHANGED <<conf, mapVars, idleWatch, sinceInput, clockVars>>

\* Mutant: the identifier of the one-shot watch is not reset.
OnUserActiveWatchKept ==
  /\ UNCHANGED activeWatch
  /\ UpdateState(enabled, first, conf, lastEnd, "ACTIVE", idleStart, state,
                 timer)

\* The body of _onUserActiveWatch.
OnUserActiveWatch ==
  /\ activeWatch' = FALSE
  /\ UpdateState(enabled, first, conf, lastEnd, "ACTIVE", idleStart, state,
                 timer)

\* The user touches an input device; the active watch fires if it is armed.
UserActivity ==
  /\ sinceInput' = 0 /\ idleFired' = FALSE
  /\ \/ activeWatch /\ OnUserActiveWatch
     \/ /\ ~activeWatch
        /\ signals' = {}
        /\ UNCHANGED <<machineVars, timerVars, activeWatch>>
  /\ UNCHANGED <<conf, mapVars, idleWatch, clockVars>>

TimerFires ==
  /\ timer = 0
  /\ UpdateState(enabled, first, conf, lastEnd, idleState, idleStart, state,
                 NoTimer)
  /\ UNCHANGED <<conf, mapVars, watchVars, monitorVars, clockVars>>

\* delayBreak, skipBreak: the due types get a new end time, then _updateState.
PostponeDue(NewEnd(_)) ==
  /\ state # "DISABLED"
  /\ LET le == [b \in BreakTypes |->
                  IF b \in DueTypes(enabled, conf, lastEnd, now)
                  THEN NewEnd(b) ELSE lastEnd[b]]
     IN  UpdateState(enabled, first, conf, le, idleState, idleStart, state,
                     timer)
  /\ UNCHANGED <<conf, mapVars, watchVars, monitorVars, clockVars>>

DelayBreak == PostponeDue(LAMBDA b : lastEnd[b] + conf[b].delay)

SkipBreak == PostponeDue(LAMBDA b : now)

TakeBreak ==
  /\ signals' = {"take-break"}
  /\ UNCHANGED <<conf, mapVars, machineVars, watchVars, timerVars,
                 monitorVars, clockVars>>

\* A tick passes on both clocks.  The main loop dispatches a timer or a watch
\* that is ready before time moves on.
Tick ==
  /\ now < MaxTime
  /\ timer # 0 /\ ~IdleWatchReady
  /\ now' = now + 1
  /\ timer' = IF timer = NoTimer THEN NoTimer ELSE timer - 1
  /\ sinceInput' = sinceInput + 1
  /\ signals' = {}
  /\ UNCHANGED <<conf, mapVars, machineVars, watchVars, skew, steps, idleFired>>

\* The wall clock is set, or the machine slept: no timer runs meanwhile.
ClockStep(d) ==
  /\ steps < MaxClockSteps
  /\ now + d > MinBreakLength /\ now + d <= MaxTime
  /\ now' = now + d /\ steps' = steps + 1
  /\ skew' = IF timer = NoTimer THEN 0 ELSE skew + d
  /\ signals' = {}
  /\ UNCHANGED <<conf, mapVars, machineVars, watchVars, timer, monitorVars>>

Next ==
  \/ \E S \in Selections : SetSelected(S)
  \/ \E b \in BreakTypes : \E r \in TypeSettings[b] : SetTypeSettings(b, r)
  \/ OnIdleWatch
  \/ UserActivity
  \/ TimerFires
  \/ DelayBreak
  \/ SkipBreak
  \/ TakeBreak
  \/ Tick
  \/ \E d \in ClockSteps : ClockStep(d)

Spec == Init /\ [][Next]_vars

-----------------------------------------------------------------------------
(* Properties.                                                             *)

\* Every variable stays in its type; a type that is not enabled has no end time.
TypeOK ==
  /\ now \in Nat /\ now > MinBreakLength /\ steps \in Nat
  /\ conf \in [BreakTypes -> Settings]
  /\ enabled \in SUBSET BreakTypes /\ first \in BreakTypes
  /\ lastEnd \in [BreakTypes -> Nat]
  /\ state \in BreakStates
  /\ curType \in BreakTypes \cup {NoType} /\ curStart \in Nat
  /\ idleState \in IdleStates /\ idleStart \in Nat
  /\ idleWatch \in BOOLEAN /\ activeWatch \in BOOLEAN
  /\ timer \in Nat \cup {NoTimer} /\ skew \in Int
  /\ sinceInput \in Nat /\ idleFired \in BOOLEAN
  /\ signals \in SUBSET SignalNames

\* The watches of the idle monitor follow the state: the idle watch is
\* installed exactly while reminders are enabled, and while the manager
\* believes the user idle the one-shot active watch is armed, so that it learns
\* of the next input.  When disabled nothing is left behind to call it, which
\* is what the assertions of _onIdleWatch and _onUserActiveWatch state.
WatchesFollowState ==
  /\ idleWatch <=> state # "DISABLED"
  /\ activeWatch <=> idleState = "IDLE"
  /\ state = "DISABLED" => ~activeWatch /\ timer = NoTimer /\ enabled = {}

\* The time the timer measures from: steps of the wall clock since the timer
\* was armed are not seen by it.
SteadyNow == now - skew

\* While the state machine is in ACTIVE some timer fires no earlier than the
\* first enabled break is due, and less than a second after it (the rounding of
\* _scheduleUpdateState): no break is ever missed, and the timer never spins.
\* While the user takes a break a timer is armed that will end it.
NextTransitionScheduled ==
  /\ \A b \in enabled : state = "ACTIVE" =>
       /\ timer # NoTimer
       /\ timer < WouldBeDueAt(conf, lastEnd, b) - SteadyNow + TicksPerSec
  /\ state = "ACTIVE" /\ enabled # {} =>
       \E b \in enabled : timer >= WouldBeDueAt(conf, lastEnd, b) - SteadyNow
  /\ state = "IN_BREAK" /\ idleState = "IDLE" => timer # NoTimer

\* The idle time _onIdleWatch records is time the user really was idle (as long
\* as nobody steps the wall clock).
IdleTimeIsReal ==
  idleState = "IDLE" /\ steps = 0 =>
    /\ idleStart > 0
    /\ now - idleStart <= sinceInput

\* When the user comes back, a break type counts as taken only if there was no
\* input for the whole duration of that break.
BreaksAreEarned ==
  [][idleState = "IDLE" /\ idleState' = "ACTIVE" /\ state' # "DISABLED" /\ steps = 0 =>
       \A b \in enabled : lastEnd'[b] # lastEnd[b] => sinceInput >= conf[b].duration]_vars

\* The doc of getNextBreakDue: when the type it returns is not null, the time it
\* returns is the time that break is due, or was.  (It is not when two breaks
\* are due: the type is the longer one, the time that of the last key.)
DueTimeIsOfTheType ==
  LET next == NextBreakDue(enabled, first, conf, lastEnd, now)
  IN  next.type # NoType => next.time = WouldBeDueAt(conf, lastEnd, next.type)
=============================================================================
