----------------------------- MODULE TimeLimits -----------------------------
(***************************************************************************)
(* The screen time limits of js/misc/timeLimitsManager.js (class           *)
(* TimeLimitsManager): the history of the times at which the user became   *)
(* active or inactive, the file it is kept in, and the state machine that  *)
(* tells when the daily limit is reached.  Around it: logind (activity of  *)
(* the user, sleep), the wall clock and the monotonic clock, GLib's timer  *)
(* and time-change source, and shutdowns and crashes of the shell.         *)
(*                                                                         *)
(* _startStateMachine is asynchronous: `starts' holds, for every call that *)
(* has not ended, what it awaits.  A transition is recorded with the state *)
(* entered; the state left is always the other one.                        *)
(***************************************************************************)
EXTENDS Integers, FiniteSets, Sequences, SequencesExt

CONSTANTS
  DayLength,    \* seconds in a day, which starts at a multiple of it
  Threshold,    \* HISTORY_THRESHOLD_SECONDS
  Limits,       \* values of daily-limit-seconds
  StartSettings, \* settings before the shell starts first
  StartTime,    \* wall clock time at which the shell starts first
  MaxTime,      \* bound on the wall clock
  ClockSteps,   \* sizes of the steps the wall clock may make
  MaxSteps,     \* bound on their number
  MaxChanges,   \* bound on changes of settings, activity and power
  MaxStarts,    \* bound on the calls of _startStateMachine under way at once
  Faults        \* which asynchronous calls may fail

Settings == [history : BOOLEAN, limitOn : BOOLEAN, limit : Limits]

ASSUME TimeLimitsAssumption ==
  /\ DayLength \in Nat \ {0} /\ Threshold \in Nat /\ Threshold >= DayLength
  /\ Limits \subseteq Nat \ {0}
  /\ StartTime \in Nat /\ StartTime >= DayLength /\ MaxTime \in Nat
  /\ ClockSteps \subseteq Int \ {0}
  /\ MaxSteps \in Nat /\ MaxChanges \in Nat /\ MaxStarts \in Nat \ {0}
  /\ Faults \subseteq {"load", "listen", "inhibit", "proxy", "write"}
  /\ StartSettings \subseteq Settings

VARIABLES
  now,          \* wall clock, in seconds
  offset,       \* wall clock minus monotonic clock
  conf,         \* GSettings: history-enabled, daily-limit-enabled and -seconds
  login,        \* logind: active and not idle, preparing for sleep
  life,         \* the shell runs, or not
  machine,      \* _state, _lastStateChangeTimeSecs, time left of _timerId
  userState,    \* _userState
  transitions,  \* _stateTransitions
  clockOffset,  \* _clockOffsetSecs
  ignoreOffset, \* _ignoreClockOffsetChanges
  notified,     \* a time-change source is ready to be dispatched
  links,        \* sources, proxies, handlers and inhibitor held
  starts,       \* what every pending _startStateMachine awaits
  file,         \* transitions in session-active-history.json, <<>> if absent
  changes, steps, \* counters for the bounds
  activeSecs,   \* history variable: seconds in which activity was to be counted
  stepped,      \* history variable: clock steps not yet adjusted for
  losses        \* history variable: the ways in which history was lost

clockVars == <<now, offset, steps>>
envVars == <<conf, login, life, changes>>
recordVars == <<userState, transitions, file>>
offsetVars == <<clockOffset, ignoreOffset, notified>>
vars == <<clockVars, envVars, machine, recordVars, offsetVars, links, starts,
          activeSecs, stepped, losses>>

NoTimer == -1

Off == [state |-> "DISABLED", lastChange |-> 0, timer |-> NoTimer]

\* source: _timeChangeId; leaked: a source whose id was overwritten; manager:
\* _loginManager; sleep, user: handlers of prepare-for-sleep and of the user
\* proxy; inhibitor: _inhibitor.
NoLinks == [source |-> FALSE, leaked |-> FALSE, manager |-> FALSE,
            sleep |-> FALSE, user |-> FALSE, inhibitor |-> FALSE]

Entry(new, time) == [new |-> new, time |-> time]

-----------------------------------------------------------------------------
(* Active time and the time the limit was reached.                         *)

StartOfToday(t) == (t \div DayLength) * DayLength
StartOfTomorrow(t) == StartOfToday(t) + DayLength

NonNegative(n) == IF n > 0 THEN n ELSE 0

\* The indices of the transitions from the first one of the day on.
Today(tr, from) ==
  {i \in DOMAIN tr : \E j \in DOMAIN tr : j <= i /\ tr[j].time >= from}

\* activeStartTimeSecs as the loop over the transitions of the day gets to i.
Since(tr, from, i) ==
  LET begun == {j \in Today(tr, from) : j < i /\ tr[j].new = "ACTIVE"}
  IN  IF begun = {} THEN from ELSE tr[Max(begun)].time

\* activeTimeTodaySecs after the k-th transition: the seconds of the periods that
\* ended by then.
Spent(tr, from, k) ==
  UNION {{i} \X (Since(tr, from, i) .. tr[i].time - 1) :
           i \in {j \in Today(tr, from) : j <= k /\ tr[j].new = "INACTIVE"}}
Total(tr, from, k) == Cardinality(Spent(tr, from, k))

\* _calculateActiveTimeTodaySecs
ActiveTime(tr, t) ==
  LET from == StartOfToday(t)
      n == Len(tr)
  IN  Total(tr, from, n) + IF tr # <<>> /\ tr[n].new = "ACTIVE"
                           THEN NonNegative(t - Since(tr, from, n + 1)) ELSE 0

\* Mutant: the time of the transition that shows the limit was passed.
ReachedAtEnd(tr, t, limit) ==
  LET from == StartOfToday(t)
      hits == {k \in Today(tr, from) : Total(tr, from, k) >= limit}
  IN  IF hits # {} THEN tr[Min(hits)].time
      ELSE t - (ActiveTime(tr, t) - limit)

\* _calculateDailyLimitReachedAtSecs
ReachedAt(tr, t, limit) ==
  LET from == StartOfToday(t)
      hits == {k \in Today(tr, from) : Total(tr, from, k) >= limit}
  IN  IF hits # {}
      THEN tr[Min(hits)].time - (Total(tr, from, Min(hits)) - limit)
      ELSE IF ActiveTime(tr, t) >= limit THEN t - (ActiveTime(tr, t) - limit)
      ELSE 0

-----------------------------------------------------------------------------
(* What is kept of the history, in memory and in the file.                 *)

\* The elements of s at the indices in I, in order: the k-th is the one with k
\* of I up to it.
Rank(I, i) == Cardinality({j \in I : j <= i})
Pick(s, I) == [k \in 1..Cardinality(I) |-> s[CHOOSE i \in I : Rank(I, i) = k]]

\* Mutant: entries in the future are kept.
KeptAtAny(tr, t) ==
  {i \in DOMAIN tr : tr[i].time >= t - Threshold \/ i = Len(tr)}

\* _filterOldTransition
KeptAt(tr, t) ==
  {i \in DOMAIN tr : /\ tr[i].time <= t
                     /\ tr[i].time >= t - Threshold \/ i = Len(tr)}

\* The first of two transitions at the same time that cancel each other out.
Cancelling(tr) ==
  {i \in DOMAIN tr : /\ i < Len(tr)
                     /\ tr[i].time = tr[i + 1].time
                     /\ tr[i].new # tr[i + 1].new}

DropPairs(tr) == Pick(tr, DOMAIN tr \ Cancelling(tr))

\* The trimming that _storeTransitions does before it writes the file.
Trim(tr, t) == DropPairs(Pick(tr, KeptAt(tr, t)))

\* The indices _loadTransitions gets through before it finds a malformed entry,
\* one older than the last entry it took.
WellFormed(tr, t) ==
  {i \in DOMAIN tr : \A k \in 1..i : \A j \in KeptAt(tr, t) :
                       j < k => tr[j].time <= tr[k].time}

Loaded(tr, t) == Pick(tr, WellFormed(tr, t) \cap KeptAt(tr, t))

\* The last entry was taken, and with it the state was calculated again.
LoadRecalculates(tr, t) ==
  tr # <<>> /\ Len(tr) \in WellFormed(tr, t) \cap KeptAt(tr, t)

-----------------------------------------------------------------------------
(* _updateState, _scheduleUpdateState and _addTransition.                  *)

\* Mutant: only a new day lifts the limit, not a change of the settings.
NewStateNextDay(m, us, reached) ==
  IF reached THEN "LIMIT_REACHED"
  ELSE IF StartOfToday(now) > m.lastChange THEN "ACTIVE" ELSE m.state

NewState(m, us, reached) ==
  IF reached THEN "LIMIT_REACHED"
  ELSE IF us = "ACTIVE" \/ StartOfToday(now) > m.lastChange THEN "ACTIVE"
  ELSE m.state

\* The timer armed: for the next day or for the limit, `left' being the time
\* left until it is reached; or the one there was.
NewTimer(m, us, reached, limitOn, left) ==
  IF reached THEN StartOfTomorrow(now) - now
  ELSE IF us = "ACTIVE" /\ limitOn THEN left
  ELSE m.timer

Updated(cf, m, tr, us) ==
  LET left == cf.limit - ActiveTime(tr, now)
      reached == cf.limitOn /\ left <= 0
      newState == NewState(m, us, reached)
  IN  [state |-> newState,
       lastChange |-> IF newState # m.state THEN now ELSE m.lastChange,
       timer |-> NewTimer(m, us, reached, cf.limitOn, left)]

\* Mutant: a transition leaves the timer and the state as they are.
RecalculatedNever(m, tr, us) == m

\* The recalculation at the end of _addTransition.
Recalculated(m, tr, us) ==
  IF m.state = "DISABLED" THEN m ELSE Updated(conf, m, tr, us)

Calculate(lg) == IF lg.active /\ ~lg.sleeping THEN "ACTIVE" ELSE "INACTIVE"

LoseIf(condition, what) == IF condition THEN {what} ELSE {}

\* What storing tr loses: a pair, of which only one half is dropped.
StoreLoses(tr) ==
  LoseIf(Cancelling(Pick(tr, KeptAt(tr, now))) # {}, "pair")

\* The outcomes of an asynchronous call.
Outcomes(call) == IF call \in Faults THEN BOOLEAN ELSE {TRUE}

\* replace_contents or delete succeeds or fails.
Write(tr) == file' = tr \/ ("write" \in Faults /\ file' = file)

\* _updateUserState(true), called when logind's state is lg; `lost' is what its
\* caller loses.
UpdateUserState(lg, lost) ==
  LET new == Calculate(lg)
      tr == Append(transitions, Entry(new, now))
  IN  IF /\ links.user
         /\ lg.active => links.manager      \* else a TypeError, caught
         /\ new # userState
      THEN /\ userState' = new
           /\ machine' = Recalculated(machine, tr, new)
           /\ transitions' = Trim(tr, now)
           /\ Write(Trim(tr, now))
           /\ losses' = losses \cup lost \cup StoreLoses(tr)
                               \cup LoseIf(stepped # 0, "clock")
      ELSE /\ losses' = losses \cup lost
           /\ UNCHANGED <<userState, machine, transitions, file>>

-----------------------------------------------------------------------------
(* Starting and stopping the state machine.                                *)

\* _startStateMachine up to its first await
Start ==
  /\ Len(starts) < MaxStarts
  /\ userState' = "ACTIVE"
  /\ transitions' = <<>>
  /\ machine' = [machine EXCEPT !.state = "ACTIVE"]
  /\ starts' = Append(starts, "load")
  /\ losses' = losses \cup LoseIf(starts # <<>>, "restart")
  /\ UNCHANGED <<file, offsetVars, links, activeSecs, stepped>>

\* _stopStateMachine; what it leaves of the starts under way goes on.
Stop(history) ==
  LET tr == IF userState = "INACTIVE" THEN transitions
            ELSE Append(transitions, Entry("INACTIVE", now))
  IN  /\ machine' = Off
      /\ clockOffset' = 0
      /\ notified' = (notified /\ links.leaked)
      /\ links' = [NoLinks EXCEPT !.leaked = links.leaked]
      /\ stepped' = 0
      /\ IF history
         THEN /\ transitions' = Trim(tr, now)
              /\ userState' = "INACTIVE"
              /\ Write(Trim(tr, now))
              /\ losses' = losses \cup StoreLoses(tr)
                             \cup LoseIf(stepped # 0, "clock")
                             \cup LoseIf(file' # Trim(tr, now), "store")
                             \cup LoseIf(starts # <<>>, "restart")
              /\ UNCHANGED activeSecs
         ELSE /\ Write(<<>>)
              /\ losses' = IF starts = <<>> /\ ~links.leaked /\ file' = <<>>
                           THEN {}
                           ELSE losses \cup {"restart"}
                                  \cup LoseIf(stepped # 0, "clock")
              /\ activeSecs' = {}
              /\ UNCHANGED <<transitions, userState>>

\* _updateSettings
UpdateSettings(cf) ==
  \/ /\ ~cf.history /\ machine.state # "DISABLED"
     /\ Stop(FALSE)
     /\ UNCHANGED <<starts, ignoreOffset>>
  \/ /\ ~cf.history /\ machine.state = "DISABLED"
     /\ UNCHANGED <<machine, recordVars, offsetVars, links, starts,
                    activeSecs, stepped, losses>>
  \/ /\ cf.history /\ machine.state = "DISABLED"
     /\ Start
  \/ /\ cf.history /\ machine.state # "DISABLED"
     /\ machine' = Updated(cf, machine, transitions, userState)
     /\ losses' = losses \cup LoseIf(stepped # 0, "timer")
     /\ UNCHANGED <<recordVars, offsetVars, links, starts, activeSecs,
                    stepped>>

SettingsChange(cf) ==
  /\ life = "up" /\ changes < MaxChanges
  /\ conf' = cf /\ changes' = changes + 1
  /\ UpdateSettings(cf)
  /\ UNCHANGED <<clockVars, login, life>>

\* The i-th start goes on awaiting `what', or has ended.
Await(i, what) == starts' = [starts EXCEPT ![i] = what]
Ended(i) == starts' = RemoveAt(starts, i)

\* The load has ended: up to the await of _ensureInhibitor or, when there is an
\* inhibitor already, of the proxy.
LoadDone(i) ==
  \E ok \in Outcomes("load"), listening \in Outcomes("listen") :
    LET loaded == IF ok THEN Loaded(file, now) ELSE <<>>
        tr == transitions \o loaded
        us == IF loaded = <<>> THEN userState ELSE Last(loaded).new
        m == IF ok /\ LoadRecalculates(file, now)
             THEN Recalculated(machine, tr, us) ELSE machine
        fake == Append(tr, Entry("ACTIVE", now))
        begins == tr = <<>> \/ us # "ACTIVE"
    IN  /\ starts[i] = "load"
        /\ userState' = "ACTIVE"
        /\ transitions' = IF begins THEN fake ELSE tr
        /\ machine' = IF begins THEN Recalculated(m, fake, "ACTIVE") ELSE m
        /\ clockOffset' = offset
        /\ links' = [links EXCEPT !.source = listening,
                                  !.leaked = @ \/ links.source,
                                  !.manager = TRUE,
                                  !.sleep = @ \/ links.inhibitor]
        /\ Await(i, IF links.inhibitor THEN "proxy" ELSE "inhibit")
        /\ stepped' = 0
        /\ losses' = losses \cup LoseIf(~ok /\ file # <<>>, "load")
                            \cup LoseIf(stepped # 0, "clock")
        /\ UNCHANGED <<clockVars, envVars, file, ignoreOffset, notified,
                       activeSecs>>

\* The inhibitor was taken, or not.  Without a manager, after a stop, connecting
\* to it throws and the start ends.
InhibitDone(i) ==
  /\ starts[i] = "inhibit"
  /\ \E ok \in Outcomes("inhibit") :
       links' = [links EXCEPT !.inhibitor = @ \/ ok, !.sleep = links.manager]
  /\ IF links.manager THEN Await(i, "proxy") ELSE Ended(i)
  /\ UNCHANGED <<clockVars, envVars, machine, recordVars, offsetVars,
                 activeSecs, stepped, losses>>

\* The proxy of the user is there, or null: the rest of the start.
ProxyDone(i) ==
  LET new == Calculate(login)
      tr == IF new = userState THEN transitions
            ELSE Append(transitions, Entry(new, now))
      m == IF new = userState THEN machine
           ELSE Recalculated(machine, tr, new)
  IN  /\ starts[i] = "proxy"
      /\ Ended(i)
      /\ \/ /\ "proxy" \in Faults
            /\ losses' = losses \cup {"start"}
            /\ UNCHANGED <<links, userState, transitions, machine>>
         \/ /\ login.active /\ ~links.manager
            /\ links' = [links EXCEPT !.user = TRUE]
            /\ losses' = losses \cup {"start"}
            /\ UNCHANGED <<userState, transitions, machine>>
         \/ /\ login.active => links.manager
            /\ links' = [links EXCEPT !.user = TRUE]
            /\ userState' = new
            /\ transitions' = tr
            /\ machine' = Updated(conf, m, tr, new)
            /\ losses' = losses
                 \cup LoseIf(stepped # 0,
                              IF tr = transitions THEN "timer" ELSE "clock")
      /\ UNCHANGED <<clockVars, envVars, file, offsetVars, activeSecs, stepped>>

-----------------------------------------------------------------------------
(* Events from logind, the timer and the clocks.                           *)

\* g-properties-changed
LoginChange ==
  LET lg == [login EXCEPT !.active = ~@]
  IN  /\ life = "up" /\ changes < MaxChanges
      /\ login' = lg /\ changes' = changes + 1
      /\ UpdateUserState(lg, {})
      /\ UNCHANGED <<clockVars, conf, life, offsetVars, links, starts,
                     activeSecs, stepped>>

\* prepare-for-sleep, with its handler if that is connected
PrepareForSleep ==
  LET lg == [login EXCEPT !.sleeping = TRUE]
  IN  /\ life = "up" /\ ~login.sleeping /\ changes < MaxChanges
      /\ login' = lg /\ changes' = changes + 1
      /\ IF links.sleep
         THEN /\ UpdateUserState(lg, {})
              /\ ignoreOffset' = TRUE
              /\ links' = [links EXCEPT !.inhibitor = FALSE]
         ELSE UNCHANGED <<machine, recordVars, ignoreOffset, links, losses>>
      /\ UNCHANGED <<clockVars, conf, life, clockOffset, notified, starts,
                     activeSecs, stepped>>

WakeUp ==
  LET lg == [login EXCEPT !.sleeping = FALSE]
  IN  /\ life = "up" /\ login.sleeping
      /\ login' = lg
      /\ IF links.sleep
         THEN /\ UpdateUserState(lg, LoseIf(stepped # 0, "clock"))
              /\ clockOffset' = offset
              /\ ignoreOffset' = FALSE
              /\ \E ok \in Outcomes("inhibit") :
                   links' = [links EXCEPT !.inhibitor = @ \/ ok]
              /\ stepped' = 0
         ELSE UNCHANGED <<machine, recordVars, clockOffset, ignoreOffset,
                          links, stepped, losses>>
      /\ UNCHANGED <<clockVars, conf, life, changes, notified, starts,
                     activeSecs>>

\* The callback of _scheduleUpdateState
TimerFires ==
  /\ machine.timer = 0
  /\ machine' = Updated(conf, [machine EXCEPT !.timer = NoTimer],
                        transitions, userState)
  /\ losses' = losses \cup LoseIf(stepped # 0, "timer")
  /\ UNCHANGED <<clockVars, envVars, recordVars, offsetVars, links, starts,
                 activeSecs, stepped>>

\* Mutant: the clock offset is taken over, the times are not adjusted.
AdjustNothing(tr, d) == tr

\* The loop of _adjustAllTimes
AdjustAllTimes(tr, d) == [i \in DOMAIN tr |-> [tr[i] EXCEPT !.time = @ + d]]

\* The callback of timeChangeNotify
ClockChanged ==
  LET d == offset - clockOffset
      tr == AdjustAllTimes(transitions, d)
      m == [machine EXCEPT !.lastChange = IF @ = 0 THEN 0 ELSE @ + d]
  IN  /\ notified /\ (links.source \/ links.leaked)
      /\ notified' = FALSE
      /\ IF ignoreOffset \/ d = 0
         THEN UNCHANGED <<machine, transitions, file, clockOffset, stepped,
                          losses>>
         ELSE /\ clockOffset' = offset
              /\ transitions' = Trim(tr, now)
              /\ Write(Trim(tr, now))
              /\ machine' = Updated(conf, m, Trim(tr, now), userState)
              /\ stepped' = 0
              /\ losses' = losses \cup StoreLoses(tr)
                                  \cup LoseIf(d # stepped, "clock")
      /\ UNCHANGED <<clockVars, envVars, userState, ignoreOffset, links,
                     starts, activeSecs>>

-----------------------------------------------------------------------------
(* The environment: time, the power, the end of the shell.                 *)

\* Activity is to be counted: the user is active or, while the start is under
\* way, taken to be.
Counted ==
  /\ life = "up" /\ machine.state # "DISABLED"
  /\ IF starts = <<>> THEN Calculate(login) = "ACTIVE" ELSE starts # <<"load">>

\* A second passes.  Due timers and a changed clock are dispatched before.
Tick ==
  /\ now < MaxTime /\ machine.timer # 0 /\ ~notified
  /\ now' = now + 1
  /\ machine' = [machine EXCEPT !.timer = IF @ = NoTimer THEN @ ELSE @ - 1]
  /\ activeSecs' = IF Counted THEN activeSecs \cup {now} ELSE activeSecs
  /\ UNCHANGED <<offset, steps, envVars, recordVars, offsetVars, links, starts,
                 stepped, losses>>

\* A second passes asleep: the monotonic clock and the timers stand still.
SleepTick ==
  /\ now < MaxTime /\ life = "up" /\ login.sleeping /\ ~links.inhibitor
  /\ now' = now + 1 /\ offset' = offset + 1
  /\ notified' = (links.source \/ links.leaked)
  /\ losses' = losses \cup LoseIf(~links.user \/ ~links.sleep, "start")
  /\ UNCHANGED <<steps, envVars, machine, recordVars, clockOffset,
                 ignoreOffset, links, starts, activeSecs, stepped>>

\* The wall clock is set.
ClockStep(d) ==
  /\ steps < MaxSteps /\ now + d \in StartTime..MaxTime
  /\ steps' = steps + 1
  /\ now' = now + d /\ offset' = offset + d
  /\ notified' = (links.source \/ links.leaked)
  /\ activeSecs' = {s + d : s \in activeSecs}
  /\ stepped' = IF links.source THEN stepped + d ELSE 0
  /\ losses' = losses
       \cup LoseIf(~links.source /\ (file # <<>> \/ transitions # <<>>), "clock")
  /\ UNCHANGED <<envVars, machine, recordVars, clockOffset, ignoreOffset,
                 links, starts>>

\* The handler of the shell's shutdown signal, which waits for Stop to end.
Shutdown ==
  /\ life = "up" /\ changes < MaxChanges
  /\ life' = "exiting" /\ changes' = changes + 1
  /\ Stop(conf.history)
  /\ UNCHANGED <<clockVars, conf, login, starts, ignoreOffset>>

\* The end of the process.
Exit ==
  /\ life' = "down"
  /\ machine' = Off /\ userState' = "INACTIVE" /\ transitions' = <<>>
  /\ clockOffset' = 0 /\ ignoreOffset' = FALSE /\ notified' = FALSE
  /\ links' = NoLinks /\ starts' = <<>> /\ stepped' = 0
  /\ UNCHANGED <<clockVars, conf, login, file, activeSecs>>

ExitAfterShutdown ==
  /\ life = "exiting"
  /\ Exit
  /\ UNCHANGED <<changes, losses>>

\* Nothing is lost only if the file says all, and says that the user is inactive.
Crash ==
  /\ life = "up" /\ changes < MaxChanges
  /\ changes' = changes + 1
  /\ Exit
  /\ losses' = losses \cup LoseIf(
       ~ \/ machine.state = "DISABLED"
         \/ starts = <<"load">>
         \/ transitions = file /\ userState = "INACTIVE" /\ stepped = 0, "crash")

\* The constructor
Boot ==
  /\ life = "down"
  /\ life' = "up"
  /\ \E a \in BOOLEAN : login' = [active |-> a, sleeping |-> FALSE]
  /\ UpdateSettings(conf)
  /\ UNCHANGED <<clockVars, conf, changes>>

-----------------------------------------------------------------------------

\* One key of the settings is written.
Changed(cf) ==
  {[cf EXCEPT !.history = ~@], [cf EXCEPT !.limitOn = ~@]}
    \cup {[cf EXCEPT !.limit = l] : l \in Limits}

\* The shell was never started before: no file.
Init ==
  /\ now = StartTime /\ offset = StartTime /\ steps = 0 /\ changes = 0
  /\ conf \in StartSettings
  /\ login = [active |-> TRUE, sleeping |-> FALSE]
  /\ life = "down"
  /\ machine = Off /\ userState = "INACTIVE" /\ transitions = <<>>
  /\ clockOffset = 0 /\ ignoreOffset = FALSE /\ notified = FALSE
  /\ links = NoLinks /\ starts = <<>> /\ file = <<>>
  /\ activeSecs = {} /\ stepped = 0 /\ losses = {}

Next ==
  \/ \E cf \in Changed(conf) \ {conf} : SettingsChange(cf)
  \/ \E i \in DOMAIN starts : LoadDone(i)
  \/ \E i \in DOMAIN starts : InhibitDone(i)
  \/ \E i \in DOMAIN starts : ProxyDone(i)
  \/ LoginChange
  \/ PrepareForSleep
  \/ WakeUp
  \/ TimerFires
  \/ ClockChanged
  \/ Tick
  \/ SleepTick
  \/ \E d \in ClockSteps : ClockStep(d)
  \/ Shutdown
  \/ ExitAfterShutdown
  \/ Crash
  \/ Boot

Spec == Init /\ [][Next]_vars

-----------------------------------------------------------------------------

Entries == [new : {"ACTIVE", "INACTIVE"}, time : Nat]

\* Times are never negative and a timer is never armed for a time in the past:
\* _scheduleUpdateState would be called with a negative timeout.
TypeOK ==
  /\ now \in Nat /\ offset \in Nat /\ clockOffset \in Nat
  /\ conf \in Settings
  /\ login \in [active : BOOLEAN, sleeping : BOOLEAN]
  /\ life \in {"up", "exiting", "down"}
  /\ machine \in [state : {"DISABLED", "ACTIVE", "LIMIT_REACHED"},
                  lastChange : Nat, timer : Nat \cup {NoTimer}]
  /\ userState \in {"ACTIVE", "INACTIVE"}
  /\ transitions \in Seq(Entries) /\ file \in Seq(Entries)
  /\ ignoreOffset \in BOOLEAN /\ notified \in BOOLEAN
  /\ links \in [DOMAIN NoLinks -> BOOLEAN]
  /\ starts \in Seq({"load", "inhibit", "proxy"}) /\ Len(starts) <= MaxStarts
  /\ changes \in 0..MaxChanges /\ steps \in 0..MaxSteps
  /\ activeSecs \subseteq Nat /\ stepped \in Int
  /\ losses \subseteq {"pair", "clock", "crash", "load", "restart", "start",
                       "store", "timer"}

\* The machine runs and every clock step has been adjusted for.
Running ==
  life = "up" /\ starts = <<>> /\ machine.state # "DISABLED" /\ stepped = 0

\* The seconds of today in which the user really was active.
ActiveToday == {s \in activeSecs : StartOfToday(now) <= s /\ s < now}

\* Through restarts of the shell, sleep, clock steps and the turn of the day, the
\* active time calculated from the transitions (_calculateActiveTimeTodaySecs) is
\* the time the user was active today, as long as nothing was lost.
ActiveTimeIsReal ==
  Running /\ losses \subseteq {"timer"} =>
    ActiveTime(transitions, now) = Cardinality(ActiveToday)

\* While the user is active, the state is LIMIT_REACHED exactly when the limit is
\* used up; a user who is inactive is not let off before the day is over.  The
\* timers of _updateState are the only thing that makes it so as time passes.
LimitIsEnforced ==
  LET usedUp == conf.limitOn /\ Cardinality(ActiveToday) >= conf.limit
  IN  Running /\ losses = {} /\ machine.timer # 0 =>
        /\ usedUp => machine.state = "LIMIT_REACHED"
        /\ userState = "ACTIVE" /\ machine.state = "LIMIT_REACHED" => usedUp

\* The time dailyLimitTime gives once the limit is reached is the end of the
\* second in which the user's active time came up to the limit.
ReachedAtIsReal ==
  LET t == ReachedAt(transitions, now, conf.limit)
  IN  Running /\ losses \subseteq {"timer"} /\ Cardinality(ActiveToday) >= conf.limit =>
        /\ t - 1 \in ActiveToday
        /\ Cardinality({s \in ActiveToday : s < t}) = conf.limit

\* The times in the file never decrease, so that _loadTransitions accepts all of
\* it, unless the clock was set while nothing watched it or starts overlapped.
StoredIsLoadable ==
  losses \cap {"clock", "restart"} = {} =>
    \A i, j \in DOMAIN file : i < j => file[i].time <= file[j].time

\* While the user is active and the limit not reached, a timer is armed for no
\* later than the time the limit is reached according to the transitions, also
\* when these are incomplete because of a crash, a file that could not be read or
\* written, or starts that overlapped.
LimitTimerArmed ==
  Running /\ losses \subseteq {"crash", "load", "store", "restart"}
          /\ conf.limitOn /\ userState = "ACTIVE" /\ machine.state = "ACTIVE" =>
    machine.timer \in 0..(conf.limit - ActiveTime(transitions, now))

\* The machine runs only if the history is enabled.
RecordsOnlyWhenEnabled == machine.state # "DISABLED" => conf.history
=============================================================================
