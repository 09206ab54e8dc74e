------------------------------ MODULE AppUsage ------------------------------
(***************************************************************************)
(* ShellAppUsage (src/shell-app-usage.c): how long each application has    *)
(* had the focus, kept as a score in application_state.  Around it: the    *)
(* tracker's focus application, gnome-session's idle status, the privacy   *)
(* setting and the wall clock.  Scores are counted in units of 1 / Unit,   *)
(* which the halvings of the instance do not exceed.                       *)
(***************************************************************************)
EXTENDS Integers, FiniteSets

CONSTANTS
  UsageApps,   \* applications with a .desktop file
  Nobody,      \* no application
  FocusMin,    \* FOCUS_TIME_MIN_SECONDS
  IdleTransition, \* IDLE_TIME_TRANSITION_SECONDS
  ScoreMax,    \* SCORE_MAX
  Week,        \* seconds after which a rarely used application is forgotten
  MaxClock,    \* bound on the clock
  MaxEvents    \* bound on idle, setting, application and restart events

ASSUME AppUsageAssumption ==
  /\ Nobody \notin UsageApps
  /\ FocusMin \in Nat \ {0} /\ IdleTransition \in Nat /\ ScoreMax \in Nat \ {0}
  /\ Week \in Nat /\ MaxClock \in Nat /\ MaxEvents \in Nat

Unit == 32
ScoreMin == (ScoreMax * Unit) \div 8
NoUsage == [score |-> -1, lastSeen |-> 0]
NewUsage == [score |-> 0, lastSeen |-> 0]

VARIABLES
  clock,        \* the wall clock, in seconds
  focusedApp,   \* the tracker's focus application
  installed,    \* applications that have a .desktop file now
  usages,       \* app_usages, NoUsage where there is no entry
  watched, watchStart, currentlyIdle, enableMonitoring, saveQueued, \* ShellAppUsage
  usageFile,    \* application_state on disk
  rememberUsage, \* the privacy setting
  longest,      \* history: the most that was ever counted for one stretch of focus
  events        \* counter for the bound

usageVars == <<clock, focusedApp, installed, usages, watched, watchStart, currentlyIdle,
               enableMonitoring, saveQueued, usageFile, rememberUsage, longest, events>>

-----------------------------------------------------------------------------

\* get_usage_for_app: the entry, made if there is none.
UsageFor(u, a) == IF u[a] = NoUsage THEN NewUsage ELSE u[a]

\* normalize_usage
NormalizeUsage(u) ==
  [a \in UsageApps |-> IF u[a] = NoUsage THEN NoUsage ELSE [u[a] EXCEPT !.score = @ \div 2]]

\* increment_usage_for_app_at_time; time never precedes watchStart here.
UsageCount(time) == (time - watchStart) \div FocusMin
Increment(a, time) ==
  LET n == UsageCount(time)
      seen == [usages EXCEPT ![a] = [score |-> UsageFor(usages, a).score + n * Unit,
                                     lastSeen |-> time]]
  IN  IF n > 0 /\ seen[a].score > ScoreMax * Unit THEN NormalizeUsage(seen) ELSE seen

\* The watched application, if any, is credited up to time.
Credit(time) ==
  IF watched = Nobody THEN UNCHANGED <<usages, saveQueued, longest>>
  ELSE /\ usages' = Increment(watched, time)
       /\ saveQueued' = (saveQueued \/ UsageCount(time) > 0)
       /\ longest' = IF UsageCount(time) > longest THEN UsageCount(time) ELSE longest

\* on_focus_app_changed, which update_enable_monitoring calls as well.
WatchFocus(app) == Credit(clock) /\ watched' = app /\ watchStart' = clock

FocusAppChanged(a) ==
  /\ a # focusedApp
  /\ focusedApp' = a
  /\ WatchFocus(a)
  /\ UNCHANGED <<clock, installed, currentlyIdle, enableMonitoring, usageFile, rememberUsage, events>>

\* on_app_state_changed: an entry for the application, seen now if it runs.
AppStateChanged(a, running) ==
  /\ events < MaxEvents /\ events' = events + 1
  /\ a \in installed
  /\ usages' = [usages EXCEPT ![a] = IF running
                                     THEN [UsageFor(usages, a) EXCEPT !.lastSeen = clock]
                                     ELSE UsageFor(usages, a)]
  /\ UNCHANGED <<clock, focusedApp, installed, watched, watchStart, currentlyIdle,
                 enableMonitoring, saveQueued, usageFile, rememberUsage, longest>>

\* on_session_status_changed: going idle counts a base time for the watched
\* application, coming back starts the count again.
SessionStatusChanged ==
  /\ events < MaxEvents /\ events' = events + 1
  /\ currentlyIdle' = ~currentlyIdle
  /\ IF ~currentlyIdle
     THEN Credit(watchStart + IdleTransition) /\ UNCHANGED watchStart
     ELSE watchStart' = clock /\ UNCHANGED <<usages, saveQueued, longest>>
  /\ UNCHANGED <<clock, focusedApp, installed, watched, enableMonitoring, usageFile, rememberUsage>>

\* on_enable_monitoring_key_changed, update_enable_monitoring
MonitoringKeyChanged ==
  /\ events < MaxEvents /\ events' = events + 1
  /\ rememberUsage' = ~rememberUsage /\ enableMonitoring' = rememberUsage'
  /\ IF rememberUsage' THEN WatchFocus(focusedApp)
     ELSE watched' = Nobody /\ saveQueued' = FALSE /\ UNCHANGED <<usages, watchStart, longest>>
  /\ UNCHANGED <<clock, focusedApp, installed, currentlyIdle, usageFile>>

\* idle_save_application_usage, with what is still installed; the write may
\* fail and is not tried again.
SaveUsage(ok) ==
  /\ saveQueued
  /\ saveQueued' = FALSE
  /\ usageFile' = IF ok THEN [a \in UsageApps |-> IF a \in installed THEN usages[a] ELSE NoUsage]
                  ELSE usageFile
  /\ UNCHANGED <<clock, focusedApp, installed, usages, watched, watchStart, currentlyIdle,
                 enableMonitoring, rememberUsage, longest, events>>

\* idle_clean_usage
CleanUsage(u) ==
  [a \in UsageApps |-> IF u[a] # NoUsage /\ u[a].score < ScoreMin /\ u[a].lastSeen < clock - Week
                       THEN NoUsage ELSE u[a]]

\* The shell ends, crashing or not (finalize drops the queued save), and
\* starts again: shell_app_usage_init, restore_from_file.
UsageRestart ==
  /\ events < MaxEvents /\ events' = events + 1
  /\ usages' = CleanUsage(usageFile)
  /\ currentlyIdle' = FALSE /\ saveQueued' = FALSE /\ focusedApp' = Nobody
  /\ enableMonitoring' = rememberUsage
  /\ watched' = Nobody /\ watchStart' = IF rememberUsage THEN clock ELSE 0
  /\ UNCHANGED <<clock, installed, usageFile, rememberUsage, longest>>

ClockTick(n) ==
  /\ clock + n <= MaxClock
  /\ clock' = clock + n
  /\ UNCHANGED <<focusedApp, installed, usages, watched, watchStart, currentlyIdle,
                 enableMonitoring, saveQueued, usageFile, rememberUsage, longest, events>>

Uninstall(a) ==
  /\ events < MaxEvents /\ events' = events + 1
  /\ a \in installed /\ a # focusedApp
  /\ installed' = installed \ {a}
  /\ UNCHANGED <<clock, focusedApp, usages, watched, watchStart, currentlyIdle,
                 enableMonitoring, saveQueued, usageFile, rememberUsage, longest>>

UsageInit ==
  /\ clock = 0 /\ events = 0 /\ longest = 0 /\ focusedApp = Nobody /\ installed = UsageApps
  /\ usages = [a \in UsageApps |-> NoUsage] /\ usageFile = usages
  /\ watched = Nobody /\ watchStart = 0 /\ currentlyIdle = FALSE /\ saveQueued = FALSE
  /\ rememberUsage \in BOOLEAN /\ enableMonitoring = rememberUsage

UsageNext ==
  \/ \E a \in UsageApps \cup {Nobody} : FocusAppChanged(a)
  \/ \E a \in UsageApps, running \in BOOLEAN : AppStateChanged(a, running)
  \/ SessionStatusChanged
  \/ MonitoringKeyChanged
  \/ \E ok \in BOOLEAN : SaveUsage(ok)
  \/ UsageRestart
  \/ \E n \in {FocusMin, Week} : ClockTick(n)
  \/ \E a \in UsageApps : Uninstall(a)

UsageSpec == UsageInit /\ [][UsageNext]_usageVars

-----------------------------------------------------------------------------

\* A score stays within SCORE_MAX ("Limit the score to a certain level so that
\* most used apps can change") but for one thing: one stretch of focus is counted in
\* one go and the scores are halved once, so a long stretch may leave more, though
\* never more than the longest stretch so far is worth.  In memory and in the file
\* that is restored, after any mix of focus changes, idle times, restarts and settings.
ScoreBound == Unit * (IF longest > ScoreMax THEN longest ELSE ScoreMax)
ScoresAreBounded ==
  \A a \in UsageApps : usages[a].score <= ScoreBound /\ usageFile[a].score <= ScoreBound

\* The application whose time is counted is the one with the focus, and
\* nothing is counted for a time before the shell started or the session
\* came back from idle.
WatchedHasFocus == watched # Nobody => watched = focusedApp

=============================================================================
