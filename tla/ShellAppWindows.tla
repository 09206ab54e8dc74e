--------------------------- MODULE ShellAppWindows ---------------------------
(***************************************************************************)
(* One ShellApp with a .desktop file (src/shell-app.c): the order of its   *)
(* windows, the workspace it starts on, the bus name and the asynchronous  *)
(* request for the proxy that tells whether it is busy, and what           *)
(* activating, quitting and opening a new window do.  Which windows it     *)
(* gets is the tracker's business (Applications).                          *)
(***************************************************************************)
EXTENDS Integers, Sequences, FiniteSets, SequencesExt

CONSTANTS
  AppWindows,   \* windows the tracker may give to the application
  AppAttr,      \* per window: bus name or NoBus, GApplication id, object path,
                \* skip-taskbar, on all workspaces, parent or NoWin, may be closed
  NoBus, NoWin,
  AppFile,      \* the .desktop file: newWindow action, singleWindow key; the
                \* actions the application exports on the bus
  Spaces,       \* workspaces, 1..n
  MaxTime,      \* bound on user times
  MaxRequests   \* bound on the proxy requests

ASSUME ShellAppWindowsAssumption ==
  /\ NoWin \notin AppWindows
  /\ \A w \in AppWindows : AppAttr[w].parent \in AppWindows \cup {NoWin}
  /\ AppFile.singleWindow \in {"unset", "yes", "no"}
  /\ MaxTime \in Nat /\ MaxRequests \in Nat /\ Spaces \subseteq Nat \ {0}

VARIABLES
  appState,     \* ShellApp.state
  startedOn,    \* started_on_workspace, 0 for -1
  running,      \* the running state exists
  wins, sortStale, interestingWins, busName, muxApp, \* its fields
  proxy, request, \* application_proxy, the request its cancellable is for
  requests,     \* requests for a proxy: pending ones with their bus name
  win,          \* what mutter knows of a window: workspace, minimized, userTime
  activeSpace, lastTime, \* the active workspace, the last user time
  asked         \* what the last step asked of mutter or of the application

swVars == <<appState, startedOn, running, wins, sortStale, interestingWins, busName, muxApp,
            proxy, request, requests, win, activeSpace, lastTime, asked>>
swEnv == <<win, activeSpace, lastTime>>
swRun == <<wins, sortStale, interestingWins, busName, muxApp, proxy, request, requests>>

NoProxy == 0
Ask(what, target) == asked' = [what |-> what, target |-> target]
NothingAsked == [what |-> "nothing", target |-> <<>>]

-----------------------------------------------------------------------------
(* Order.                                                                  *)

\* meta_window_showing_on_its_workspace
Showing(w) == ~win[w].minimized

\* shell_app_compare_windows, as "a before b"
Before(a, b) ==
  LET wsA == win[a].space = activeSpace  wsB == win[b].space = activeSpace
  IN  IF wsA # wsB THEN wsA
      ELSE IF Showing(a) # Showing(b) THEN Showing(a)
      ELSE win[a].userTime > win[b].userTime

SortedWins == SortSeq(wins, Before)

\* shell_app_get_windows sorts on demand; all windows here are ordinary ones.
GetWindows == IF sortStale THEN SortedWins ELSE wins

-----------------------------------------------------------------------------
(* The running state.                                                      *)

\* shell_app_sync_running_state, shell_app_state_transition
SyncedState(n) == IF appState = "starting" THEN "starting"
                  ELSE IF n = 0 THEN "stopped" ELSE "running"

\* shell_app_update_app_actions: the bus name of a window that has one and an
\* application object, whenever it differs from the last.
UpdatedBus(w) == IF AppAttr[w].bus # NoBus /\ AppAttr[w].object THEN AppAttr[w].bus ELSE busName

\* shell_app_ensure_busy_watch for the head of the list.
WatchBusy(head, bus) ==
  IF proxy = NoProxy /\ request = 0 /\ bus # NoBus /\ AppAttr[head].object
  THEN /\ requests' = Append(requests, [bus |-> bus, pending |-> TRUE, cancelled |-> FALSE])
       /\ request' = Len(requests) + 1
  ELSE UNCHANGED <<requests, request>>

\* _shell_app_add_window, the running state made on demand
AddWindow(w) ==
  /\ w \notin ToSet(wins) /\ Len(requests) < MaxRequests
  /\ running' = TRUE /\ sortStale' = TRUE
  /\ wins' = <<w>> \o wins
  /\ busName' = UpdatedBus(w) /\ muxApp' = UpdatedBus(w)
  /\ WatchBusy(w, busName')
  /\ interestingWins' = interestingWins + (IF AppAttr[w].skip THEN 0 ELSE 1)
  /\ appState' = SyncedState(interestingWins')
  /\ win' = IF startedOn # 0 /\ ~AppAttr[w].sticky THEN [win EXCEPT ![w].space = startedOn] ELSE win
  /\ startedOn' = 0
  /\ UNCHANGED <<proxy, activeSpace, lastTime>> /\ asked' = NothingAsked

\* _shell_app_remove_window; the last window takes the running state with it
\* (unref_running_state), and the request under way is cancelled.
RemoveWindow(w) ==
  /\ w \in ToSet(wins)
  /\ wins' = SelectSeq(wins, LAMBDA v : v # w)
  /\ interestingWins' = interestingWins - (IF AppAttr[w].skip THEN 0 ELSE 1)
  /\ appState' = SyncedState(interestingWins')
  /\ IF wins' # <<>> THEN UNCHANGED <<running, sortStale, busName, muxApp, proxy, request, requests>>
     ELSE /\ running' = FALSE /\ sortStale' = FALSE /\ busName' = NoBus /\ muxApp' = NoBus
          /\ proxy' = NoProxy /\ request' = 0
          /\ requests' = IF request = 0 THEN requests
                         ELSE [requests EXCEPT ![request].cancelled = TRUE]
  /\ UNCHANGED <<startedOn, swEnv>> /\ asked' = NothingAsked

\* get_application_proxy: the answer, an error once the request is cancelled;
\* only an error of another kind or a proxy clears the cancellable.
ProxyReady(r, ok) ==
  /\ r \in DOMAIN requests /\ requests[r].pending
  /\ requests' = [requests EXCEPT ![r].pending = FALSE]
  /\ proxy' = IF ok /\ ~requests[r].cancelled THEN r ELSE proxy
  /\ request' = IF running /\ ~requests[r].cancelled THEN 0 ELSE request
  /\ UNCHANGED <<appState, startedOn, running, wins, sortStale, interestingWins, busName, muxApp,
                 swEnv>> /\ asked' = NothingAsked

\* update_focus_app of the tracker, for a window that is seen in the taskbar: the
\* application takes the bus name of the window that gets the focus.
FocusWindow(w) ==
  /\ w \in ToSet(wins) /\ ~AppAttr[w].skip
  /\ busName' = UpdatedBus(w) /\ muxApp' = UpdatedBus(w)
  /\ UNCHANGED <<appState, startedOn, running, wins, sortStale, interestingWins, proxy, request,
                 requests, swEnv>> /\ asked' = NothingAsked

\* shell_app_on_user_time_changed, for a window of the list.
UserTimeChanged(w) ==
  /\ lastTime < MaxTime
  /\ lastTime' = lastTime + 1
  /\ win' = [win EXCEPT ![w].userTime = lastTime']
  /\ sortStale' = (sortStale \/ (w \in ToSet(wins) /\ w # Head(wins)))
  /\ UNCHANGED <<appState, startedOn, running, wins, interestingWins, busName, muxApp, proxy,
                 request, requests, activeSpace>> /\ asked' = NothingAsked

\* shell_app_on_ws_switch, connected while there is a running state.
WorkspaceSwitched(s) ==
  /\ s # activeSpace
  /\ activeSpace' = s
  /\ sortStale' = (sortStale \/ running)
  /\ UNCHANGED <<appState, startedOn, running, wins, interestingWins, busName, muxApp, proxy,
                 request, requests, win, lastTime>> /\ asked' = NothingAsked

\* The user minimizes or moves a window; the application is not told.
Minimize(w) ==
  /\ win' = [win EXCEPT ![w].minimized = ~@]
  /\ UNCHANGED <<appState, startedOn, running, swRun, activeSpace, lastTime>> /\ asked' = NothingAsked
MoveWindow(w, s) ==
  /\ s # win[w].space /\ ~AppAttr[w].sticky
  /\ win' = [win EXCEPT ![w].space = s]
  /\ UNCHANGED <<appState, startedOn, running, swRun, activeSpace, lastTime>> /\ asked' = NothingAsked

\* _shell_app_handle_startup_sequence
StartupSequence(s) ==
  /\ appState' = IF appState = "stopped" THEN "starting" ELSE appState
  /\ startedOn' = s
  /\ UNCHANGED <<running, swRun, swEnv>> /\ asked' = NothingAsked
StartupCompleted ==
  /\ appState' = IF running /\ wins # <<>> THEN "running" ELSE "stopped"
  /\ UNCHANGED <<startedOn, running, swRun, swEnv>> /\ asked' = NothingAsked

-----------------------------------------------------------------------------
(* What the user asks for.                                                 *)

\* find_most_recent_transient_on_same_workspace
Transients(w) == {t \in AppWindows : AppAttr[t].parent = w /\ win[t].space = win[w].space}

\* shell_app_activate_window: the window given, or the first one; one of its
\* dialogs if that was used later.  An old event only demands attention.
ActivateWindow(w, old) ==
  LET list == GetWindows
      target == IF w = NoWin THEN list[1] ELSE w
      later == {t \in Transients(target) : win[t].userTime > win[target].userTime}
  IN  /\ appState = "running" /\ list # <<>>
      /\ wins' = list /\ sortStale' = FALSE
      /\ IF target \notin ToSet(list) THEN asked' = NothingAsked
         ELSE IF old THEN Ask("demand attention", <<target>>)
         ELSE \E t \in (IF later = {} THEN {target} ELSE later) :
                Ask(IF win[target].space = activeSpace THEN "activate" ELSE "activate workspace", <<t>>)
      /\ UNCHANGED <<appState, startedOn, running, interestingWins, busName, muxApp, proxy, request,
                     requests, swEnv>>

\* shell_app_activate_full: a stopped application is launched (shell_app_launch,
\* whose failure is reported), a starting one left alone.
Activate ==
  /\ appState = "stopped"
  /\ \E ok \in BOOLEAN : Ask(IF ok THEN "launch" ELSE "report failure", <<>>)
  /\ UNCHANGED <<appState, startedOn, running, swRun, swEnv>>

\* Actions the muxer offers once it has the application's group.
HasAction(a) == running /\ muxApp # NoBus /\ a \in AppFile.exports

\* shell_app_open_new_window: the file's action, the application's own action,
\* or another launch.
OpenNewWindow ==
  /\ Ask(CASE AppFile.newWindow -> "launch action"
           [] ~AppFile.newWindow /\ HasAction("new-window") -> "new-window"
           [] OTHER -> "launch", <<>>)
  /\ UNCHANGED <<appState, startedOn, running, swRun, swEnv>>

\* shell_app_request_quit: the application's quit action, or every window that
\* can be closed.
RequestQuit ==
  /\ appState = "running"
  /\ IF HasAction("quit") THEN Ask("quit", <<>>)
     ELSE Ask("close", SelectSeq(wins, LAMBDA w : AppAttr[w].closable))
  /\ UNCHANGED <<appState, startedOn, running, swRun, swEnv>>

SWInit ==
  /\ appState = "stopped" /\ startedOn = 0 /\ running = FALSE
  /\ wins = <<>> /\ sortStale = FALSE /\ interestingWins = 0 /\ busName = NoBus /\ muxApp = NoBus
  /\ proxy = NoProxy /\ request = 0 /\ requests = <<>>
  /\ win = [w \in AppWindows |-> [space |-> 1, minimized |-> FALSE, userTime |-> 0]]
  /\ activeSpace = 1 /\ lastTime = 0 /\ asked = NothingAsked

SWNext ==
  \/ \E w \in AppWindows : AddWindow(w)
  \/ \E w \in AppWindows : RemoveWindow(w)
  \/ \E r \in 1..MaxRequests, ok \in BOOLEAN : ProxyReady(r, ok)
  \/ \E w \in AppWindows : FocusWindow(w)
  \/ \E w \in AppWindows : UserTimeChanged(w)
  \/ \E s \in Spaces : WorkspaceSwitched(s)
  \/ \E w \in AppWindows : Minimize(w)
  \/ \E w \in AppWindows, s \in Spaces : MoveWindow(w, s)
  \/ \E s \in Spaces \cup {0} : StartupSequence(s)
  \/ StartupCompleted
  \/ \E w \in AppWindows \cup {NoWin}, old \in BOOLEAN : ActivateWindow(w, old)
  \/ Activate
  \/ OpenNewWindow
  \/ RequestQuit

SWSpec == SWInit /\ [][SWNext]_swVars

-----------------------------------------------------------------------------

\* The busy state comes from a proxy this run of the application asked for:
\* an answer that arrives after the last window has gone, or after another
\* first window has come, is dropped (running_state is used unchecked when
\* there is a proxy), at most one request is not cancelled, and it is the one
\* the running state can cancel.
BusyWatchIsOurs ==
  /\ proxy # NoProxy \/ request # 0 => running
  /\ proxy # NoProxy => ~requests[proxy].cancelled /\ request = 0
  /\ \A r \in DOMAIN requests : requests[r].pending /\ ~requests[r].cancelled => r = request

=============================================================================
