---------------------------- MODULE Applications ----------------------------
(***************************************************************************)
(* Which application a window belongs to and which applications run:       *)
(* ShellWindowTracker (src/shell-window-tracker.c), ShellAppSystem         *)
(* (src/shell-app-system.c) and the state machine of ShellApp              *)
(* (src/shell-app.c).  Around them: mutter's windows and startup           *)
(* sequences, and the .desktop files as ShellAppCache (AppCache) has them. *)
(*                                                                         *)
(* The shell's own state is one record, sh, so that a handler that calls   *)
(* through several objects is a composition of operators sh -> sh.  A      *)
(* ShellApp lives while a table refers to it; the order of an              *)
(* application's windows is the business of ShellAppWindows.               *)
(***************************************************************************)
EXTENDS Integers, Sequences, FiniteSets, SequencesExt

CONSTANTS
  Windows,      \* mutter's windows
  Ids,          \* ids of .desktop files
  Classes,      \* WM_CLASS strings
  SeqIds,       \* startup sequences
  NoWindow, NoId, NoClass, NoSeq,
  Attr,         \* what a window says of itself, for every window
  WmClass,      \* WM_CLASS values a window may take
  DesktopNames, \* the .desktop ids derived from a WM_CLASS, in order of trial
  Prefix,       \* the sandbox a .desktop id belongs to, for every id
  SeqApp,       \* the application id of a startup sequence
  Files,        \* versions a .desktop file may take, Absent among them or not
  NumApps,      \* bound on the ShellApp objects alive at once
  MaxEdits      \* bound on the changes of files and window properties

WmClassValue == [instance : Classes \cup {NoClass}, class : Classes \cup {NoClass}]
File == [wmclass : Classes \cup {NoClass}, exact : BOOLEAN, show : BOOLEAN, ver : Nat]
Absent == [ver |-> 0]

ASSUME ApplicationsAssumption ==
  /\ NoWindow \notin Windows /\ NoId \notin Ids /\ NoClass \notin Classes /\ NoSeq \notin SeqIds
  /\ Attr \in [Windows -> [type : {"normal", "dialog"}, transient : Windows \cup {NoWindow},
                           remote : BOOLEAN, sandbox : Ids \cup {NoId}, gapp : Ids \cup {NoId},
                           pid : Nat, startup : SeqIds \cup {NoSeq}, group : Nat, skip : BOOLEAN]]
  /\ WmClass \in [Windows -> SUBSET WmClassValue]
  /\ \A w \in Windows : WmClass[w] # {}
  /\ DesktopNames \in [Classes -> Seq(Ids)]
  /\ Prefix \in [Ids -> Ids \cup {NoId}]
  /\ SeqApp \in [SeqIds -> Ids]
  /\ Files \in [Ids -> SUBSET (File \cup {Absent})]
  /\ NumApps \in Nat \ {0} /\ MaxEdits \in Nat

\* A ShellApp object is named by what it was made for, the .desktop file as
\* read or the window that backs it, and a number that tells several apart.
AppObj == [id : Ids \cup {NoId}, ver : Nat, win : Windows \cup {NoWindow}, n : Nat]
NoApp == [id |-> NoId, ver |-> 0, win |-> NoWindow, n |-> 0]

VARIABLES
  sh,       \* the shell's objects and the window properties they read
  disk,     \* the .desktop files, which ShellAppCache follows with a delay
  managed,  \* windows mutter manages
  focusWin, \* the focus window
  seqs,     \* startup sequences under way
  aborted,  \* an assertion of the shell failed
  edits \* counter for the bound

envVars == <<disk, managed, focusWin, seqs, edits>>
vars == <<sh, aborted, envVars>>

\* The fields of sh: ShellApp objects; ShellAppSystem's id_to_app,
\* running_apps, aggregate_timers and startup_wm_class_to_id; the tracker's
\* window_to_app and focus_app; ShellAppCache's app_infos; and the
\* windows' skip-taskbar and wm-class, as the handlers read them.
AppRec == [state : {"stopped", "starting", "running"}, windows : SUBSET Windows,
           interesting : Int]

-----------------------------------------------------------------------------
(* ShellAppSystem: the table of applications and the running ones.         *)

\* Startup class table of ShellAppSystem: the first file that names the
\* class, unless a later one matches it exactly or the table's one is hidden.
ScanStartupWmClass(infos, order) ==
  LET Better(t, id) ==
        LET old == t[infos[id].wmclass]
        IN  old = NoId \/ infos[id].exact \/ (infos[id].show /\ ~infos[old].show)
      Add(t, id) == IF infos[id] # Absent /\ infos[id].wmclass # NoClass
                    THEN IF Better(t, id) THEN [t EXCEPT ![infos[id].wmclass] = id] ELSE t
                    ELSE t
  IN  FoldLeft(Add, [c \in Classes |-> NoId], order)

\* g_app_info_get_all() lists the files in an order of its own.
IdOrder == CHOOSE s \in [1..Cardinality(Ids) -> Ids] : \A id \in Ids : \E i \in DOMAIN s : s[i] = id

\* shell_app_init, _shell_app_new: a stopped application under a new name.
Stopped == [state |-> "stopped", windows |-> {}, interesting |-> 0]
FreshApp(s, id, ver, win) ==
  LET Named(n) == [id |-> id, ver |-> ver, win |-> win, n |-> n]
      n0 == CHOOSE n \in 1..NumApps : Named(n) \notin DOMAIN s.app
                                      /\ \A m \in 1..(n - 1) : Named(m) \in DOMAIN s.app
  IN  Named(n0)
WithApp(s, a) == [s EXCEPT !.app = (a :> Stopped) @@ @]

\* shell_app_system_lookup_app: the application of an id, created on demand.
LookupApp(s, id) ==
  IF s.idToApp[id] # NoApp THEN [s |-> s, app |-> s.idToApp[id]]
  ELSE IF s.infos[id] = Absent THEN [s |-> s, app |-> NoApp]
  ELSE LET a == FreshApp(s, id, s.infos[id].ver, NoWindow)
       IN  [s |-> [WithApp(s, a) EXCEPT !.idToApp[id] = a], app |-> a]

\* shell_app_system_lookup_heuristic_basename and _desktop_wmclass: the first
\* .desktop name derived from the class that is installed.
LookupDesktopWmClass(s, c) ==
  IF c = NoClass THEN [s |-> s, app |-> NoApp]
  ELSE FoldLeft(LAMBDA r, id : IF r.app # NoApp THEN r ELSE LookupApp(r.s, id),
                [s |-> s, app |-> NoApp], DesktopNames[c])

LookupStartupWmClass(s, c) ==
  IF c = NoClass \/ s.wmClassToId[c] = NoId THEN [s |-> s, app |-> NoApp]
  ELSE LookupApp(s, s.wmClassToId[c])

\* _shell_app_system_notify_app_state_changed
NotifyStateChanged(s, a) ==
  CASE s.app[a].state = "running" ->
         [s EXCEPT !.running = @ \cup {a}, !.timers = @ \cup ({a.id} \ {NoId})]
    [] s.app[a].state = "stopped" ->
         [s EXCEPT !.running = @ \ {a}, !.timers = IF a \in s.running THEN @ \ {a.id} ELSE @]
    [] OTHER -> s

-----------------------------------------------------------------------------
(* ShellApp: the state machine.                                            *)

\* shell_app_state_transition; a running application never starts again.
StateTransition(s, a, state) ==
  IF s.app[a].state = state \/ (s.app[a].state = "running" /\ state = "starting") THEN s
  ELSE NotifyStateChanged([s EXCEPT !.app[a].state = state], a)

SyncRunningState(s, a) ==
  IF s.app[a].state = "starting" THEN s
  ELSE StateTransition(s, a, IF s.app[a].interesting = 0 THEN "stopped" ELSE "running")

AppAddWindow(s, a, w) ==
  IF w \in s.app[a].windows THEN s
  ELSE SyncRunningState([s EXCEPT !.app[a].windows = @ \cup {w},
                                  !.app[a].interesting = IF s.skip[w] THEN @ ELSE @ + 1], a)

\* Mutant: a window that skips the taskbar is counted out as well.
AppRemoveShownWindow(s, a, w) ==
  IF w \notin s.app[a].windows THEN s
  ELSE SyncRunningState([s EXCEPT !.app[a].windows = @ \ {w}, !.app[a].interesting = @ - 1], a)
AppRemoveWindow(s, a, w) ==
  IF w \notin s.app[a].windows THEN s
  ELSE SyncRunningState([s EXCEPT !.app[a].windows = @ \ {w},
                                  !.app[a].interesting = IF s.skip[w] THEN @ ELSE @ - 1], a)

\* shell_app_on_skip_taskbar_changed, run for every application that holds
\* the window; s.skip is the new value.
OnSkipTaskbarChanged(s, w) ==
  LET Changed(a, t) ==
        SyncRunningState([t EXCEPT !.app[a].interesting = IF s.skip[w] THEN @ - 1 ELSE @ + 1], a)
  IN  FoldSet(Changed, s, {a \in DOMAIN s.app : w \in s.app[a].windows})

\* _shell_app_handle_startup_sequence
HandleStartupSequence(s, a, starting) ==
  IF starting
  THEN IF s.app[a].state = "stopped" THEN StateTransition(s, a, "starting") ELSE s
  ELSE StateTransition(s, a, IF s.app[a].windows # {} THEN "running" ELSE "stopped")

\* _shell_app_new_for_window: an application backed by one window.
NewForWindow(s, w) ==
  LET a == FreshApp(s, NoId, 0, w)
  IN  [s |-> AppAddWindow(WithApp(s, a), a, w), app |-> a]

-----------------------------------------------------------------------------
(* ShellWindowTracker.                                                     *)

\* meta_window_get_transient_for: the parent, while it is managed.
Parent(w) == IF Attr[w].transient \in managed THEN Attr[w].transient ELSE NoWindow

\* The window get_app_for_window ends its recursion with.
Root[w \in Windows] == IF Parent(w) = NoWindow THEN w ELSE Root[Parent(w)]

\* check_app_id_prefix: an application found by WM_CLASS must belong to the
\* window's sandbox, if there is one; it has been created all the same.
InSandbox(r, w) ==
  IF r.app = NoApp \/ Attr[w].sandbox = NoId \/ Prefix[r.app.id] = Attr[w].sandbox THEN r
  ELSE [r EXCEPT !.app = NoApp]

\* get_app_from_window_wmclass: the lookups by WM_CLASS, in order.
WmClassLookups == <<"startup instance", "startup class", "desktop instance", "desktop class">>
AppFromWmClass(s, w, m) ==
  InSandbox(CASE m = "startup instance" -> LookupStartupWmClass(s, s.wmclass[w].instance)
              [] m = "startup class"    -> LookupStartupWmClass(s, s.wmclass[w].class)
              [] m = "desktop instance" -> LookupDesktopWmClass(s, s.wmclass[w].instance)
              [] m = "desktop class"    -> LookupDesktopWmClass(s, s.wmclass[w].class), w)

\* get_app_from_sandboxed_app_id, get_app_from_gapplication_id
AppFromId(s, id) == IF id = NoId THEN [s |-> s, app |-> NoApp] ELSE LookupApp(s, id)

\* shell_window_tracker_get_app_from_pid: the first running application with
\* a window of that process; the one that holds `first' is the first by the
\* user's times.
AppFromPid(s, w, first) ==
  LET p == Attr[w].pid
      Has(a) == \E v \in s.app[a].windows : Attr[v].pid = p
      found == {a \in s.running : Has(a)}
      preferred == {a \in found : first \in s.app[a].windows}
  IN  IF p = 0 \/ found = {} THEN NoApp
      ELSE CHOOSE a \in found : preferred # {} => a \in preferred

\* The startup sequence whose id the window carries.
AppFromStartupId(s, w) ==
  IF Attr[w].startup \in seqs THEN LookupApp(s, SeqApp[Attr[w].startup]) ELSE [s |-> s, app |-> NoApp]

\* get_app_from_window_group: a normal window of the same group.
AppFromGroup(s, w) ==
  LET peers == {v \in managed : Attr[v].group = Attr[w].group /\ Attr[v].type = "normal"
                                 /\ s.windowToApp[v] # NoApp}
  IN  IF Attr[w].group = 0 \/ peers = {} THEN NoApp ELSE s.windowToApp[CHOOSE v \in peers : TRUE]

\* get_app_for_window: what is known of the window or of its last parent,
\* then one lookup after the other until one finds an application.
Lookups == WmClassLookups \o <<"sandbox", "gapplication", "pid", "startup id", "group", "window">>
LookupBy(s, w, first, m) ==
  CASE m = "sandbox"      -> AppFromId(s, Attr[w].sandbox)
    [] m = "gapplication" -> AppFromId(s, Attr[w].gapp)
    [] m = "pid"          -> [s |-> s, app |-> AppFromPid(s, w, first)]
    [] m = "startup id"   -> AppFromStartupId(s, w)
    [] m = "group"        -> [s |-> s, app |-> AppFromGroup(s, w)]
    [] m = "window"       -> NewForWindow(s, w)
    [] OTHER              -> AppFromWmClass(s, w, m)
AppForWindow(s, w, first) ==
  IF s.windowToApp[w] # NoApp /\ (Attr[w].type = "normal" \/ Attr[w].remote)
  THEN [s |-> s, app |-> s.windowToApp[w]]
  ELSE FoldLeft(LAMBDA r, m : IF r.app # NoApp THEN r ELSE LookupBy(r.s, w, first, m),
                [s |-> s, app |-> NoApp], IF Attr[w].remote THEN <<"window">> ELSE Lookups)

TrackWindow(s, w, first) ==
  LET Add(r) == AppAddWindow([r.s EXCEPT !.windowToApp[w] = r.app], r.app, w)
  IN  Add(AppForWindow(s, Root[w], first))

DisassociateWindow(s, w) ==
  LET a == s.windowToApp[w]
  IN  IF a = NoApp THEN s ELSE AppRemoveWindow([s EXCEPT !.windowToApp[w] = NoApp], a, w)

\* The window update_focus_app takes for the focus window: the first of it
\* and its parents that shows in the taskbar.
FocusRoot(s, f) ==
  LET up[w \in Windows] == IF ~s.skip[w] THEN w
                           ELSE IF Parent(w) = NoWindow THEN NoWindow ELSE up[Parent(w)]
  IN  IF f = NoWindow THEN NoWindow ELSE up[f]

UpdateFocusApp(s, f) ==
  LET w == FocusRoot(s, f)
  IN  [s EXCEPT !.focusApp = IF w = NoWindow THEN NoApp ELSE s.windowToApp[w]]

\* tracked_window_changed: a remove and an add, then the focus again.
TrackedWindowChanged(s, w, first) ==
  UpdateFocusApp(TrackWindow(DisassociateWindow(s, w), w, first), focusWin)

-----------------------------------------------------------------------------
(* Lifetime of the objects, and changes of what is installed.              *)

Referenced(s, a) ==
  \/ a \in s.running \/ a = s.focusApp
  \/ \E id \in Ids : s.idToApp[id] = a
  \/ \E w \in Windows : s.windowToApp[w] = a

Garbage(s) == {a \in DOMAIN s.app : ~Referenced(s, a)}

\* shell_app_dispose asserts that the application was stopped; it takes its
\* windows away first.
DisposeFails(s) == \E a \in Garbage(s) : s.app[a].state = "starting"

\* What a handler leaves behind once its references are dropped.
Settle(s) ==
  /\ sh' = [s EXCEPT !.app = [a \in DOMAIN s.app \ Garbage(s) |-> s.app[a]]]
  /\ aborted' = DisposeFails(s)

\* app_is_stale: a window backed application never is.
AppIsStale(s, a) == a.id # NoId /\ s.infos[a.id].ver # a.ver

\* collect_stale_windows: those of running applications without a file, which
\* the window backed ones are as well.
StaleWindows(s) ==
  UNION {s.app[a].windows : a \in {b \in s.running : b.id = NoId \/ s.infos[b.id] = Absent}}

\* installed_changed: rescan, forget stale applications, track the windows of
\* those without a file anew.
InstalledChanged(s, first) ==
  LET Scan(t) == [t EXCEPT !.wmClassToId = ScanStartupWmClass(t.infos, IdOrder),
                           !.idToApp = [id \in Ids |-> IF AppIsStale(t, t.idToApp[id]) THEN NoApp
                                                       ELSE t.idToApp[id]]]
      Retrack(w, t) == IF t.windowToApp[w] = NoApp THEN t ELSE TrackedWindowChanged(t, w, first)
  IN  FoldSet(Retrack, Scan(s), StaleWindows(s))

-----------------------------------------------------------------------------
(* The handlers.                                                           *)

\* shell_app_system_init, shell_window_tracker_init: the tables are empty,
\* the files are read and the windows there are tracked one after the other.
FreshShell(skips, classes, first) ==
  LET empty == [app |-> [a \in {} |-> Stopped], idToApp |-> [id \in Ids |-> NoApp],
                running |-> {}, timers |-> {}, wmClassToId |-> [c \in Classes |-> NoId],
                windowToApp |-> [w \in Windows |-> NoApp], focusApp |-> NoApp,
                infos |-> disk, skip |-> skips,
                wmclass |-> classes]
      Load(w, t) == TrackWindow(t, w, first)
  IN  FoldSet(Load, [empty EXCEPT !.wmClassToId = ScanStartupWmClass(disk, IdOrder)], managed)

Init ==
  /\ disk \in [Ids -> UNION {Files[id] : id \in Ids}]
  /\ \A id \in Ids : disk[id] \in Files[id]
  /\ managed = {} /\ focusWin = NoWindow /\ seqs = {}
  /\ sh = FreshShell([w \in Windows |-> Attr[w].skip], [w \in Windows |-> CHOOSE c \in WmClass[w] : TRUE], NoWindow) /\ aborted = FALSE /\ edits = 0

\* Room for the objects one handler may create, within the bound.
Room == Cardinality(DOMAIN sh.app) <= NumApps - 2
Alive == ~aborted /\ Room

WindowCreated(w, first) ==
  /\ Alive /\ w \notin managed
  /\ managed' = managed \cup {w}
  /\ Settle(TrackWindow(sh, w, first))
  /\ UNCHANGED <<disk, focusWin, seqs, edits>>

\* on_window_unmanaged; mutter has moved the focus before.
WindowUnmanaged(w) ==
  /\ Alive /\ w \in managed /\ w # focusWin
  /\ managed' = managed \ {w}
  /\ Settle(DisassociateWindow(sh, w))
  /\ UNCHANGED <<disk, focusWin, seqs, edits>>

WmClassChanged(w, c, first) ==
  /\ Alive /\ w \in managed /\ c # sh.wmclass[w] /\ edits < MaxEdits
  /\ Settle(TrackedWindowChanged([sh EXCEPT !.wmclass[w] = c], w, first))
  /\ edits' = edits + 1
  /\ UNCHANGED <<disk, managed, focusWin, seqs>>

SkipTaskbarChanged(w) ==
  /\ Alive /\ w \in managed /\ edits < MaxEdits
  /\ Settle(OnSkipTaskbarChanged([sh EXCEPT !.skip[w] = ~@], w))
  /\ edits' = edits + 1
  /\ UNCHANGED <<disk, managed, focusWin, seqs>>

FocusChanged(f) ==
  /\ Alive /\ f # focusWin /\ f \in managed \cup {NoWindow}
  /\ focusWin' = f
  /\ Settle(UpdateFocusApp(sh, f))
  /\ UNCHANGED <<disk, managed, seqs, edits>>

\* on_startup_sequence_changed
SequenceStarted(q) ==
  /\ Alive /\ q \notin seqs
  /\ seqs' = seqs \cup {q}
  /\ LET r == LookupApp(sh, SeqApp[q])
     IN  Settle(IF r.app = NoApp THEN r.s ELSE HandleStartupSequence(r.s, r.app, TRUE))
  /\ UNCHANGED <<disk, managed, focusWin, edits>>

\* mutter completes the sequence when the application says so or time is up.
SequenceCompleted(q) ==
  /\ Alive /\ q \in seqs
  /\ seqs' = seqs \ {q}
  /\ LET r == LookupApp(sh, SeqApp[q])
     IN  Settle(IF r.app = NoApp THEN r.s ELSE HandleStartupSequence(r.s, r.app, FALSE))
  /\ UNCHANGED <<disk, managed, focusWin, edits>>

\* A file is installed, changed or removed.
FileChanged(id, f) ==
  /\ ~aborted /\ f # disk[id] /\ edits < MaxEdits
  /\ disk' = [disk EXCEPT ![id] = f] /\ edits' = edits + 1
  /\ UNCHANGED <<sh, aborted, managed, focusWin, seqs>>

\* ShellAppCache::changed, when an update of the cache is applied (AppCache).
CacheChanged(first) ==
  /\ Alive /\ sh.infos # disk
  /\ Settle(InstalledChanged([sh EXCEPT !.infos = disk], first))
  /\ UNCHANGED envVars

\* on_shutdown takes every window away; the session then starts the shell
\* again, as it does after an abort.  Windows outlive both under X11.
Respawn ==
  /\ LET Leave(w, t) == DisassociateWindow(t, w)
         left == FoldSet(Leave, sh, {w \in Windows : sh.windowToApp[w] # NoApp})
     IN  aborted \/ \A w \in Windows : left.windowToApp[w] = NoApp
  /\ aborted' = FALSE
  /\ sh' = FreshShell(sh.skip, sh.wmclass, NoWindow)
  /\ focusWin' = NoWindow /\ seqs' = {}
  /\ UNCHANGED <<disk, managed, edits>>

Next ==
  \/ \E w \in Windows, v \in Windows : WindowCreated(w, v)
  \/ \E w \in Windows : WindowUnmanaged(w)
  \/ \E w \in Windows, v \in Windows : \E c \in WmClass[w] : WmClassChanged(w, c, v)
  \/ \E w \in Windows : SkipTaskbarChanged(w)
  \/ \E f \in Windows \cup {NoWindow} : FocusChanged(f)
  \/ \E q \in SeqIds : SequenceStarted(q)
  \/ \E q \in SeqIds : SequenceCompleted(q)
  \/ \E id \in Ids : \E f \in Files[id] : FileChanged(id, f)
  \/ \E v \in Windows : CacheChanged(v)
  \/ Respawn

Spec == Init /\ [][Next]_vars

-----------------------------------------------------------------------------
(* Properties.                                                             *)

Live(a) == a \in DOMAIN sh.app

TypeOK ==
  /\ \A a \in DOMAIN sh.app : a \in AppObj /\ sh.app[a] \in AppRec
  /\ sh.idToApp \in [Ids -> AppObj] /\ sh.windowToApp \in [Windows -> AppObj]
  /\ sh.running \subseteq AppObj /\ sh.timers \subseteq Ids /\ sh.focusApp \in AppObj
  /\ sh.wmClassToId \in [Classes -> Ids \cup {NoId}]
  /\ sh.infos \in [Ids -> File \cup {Absent}] /\ sh.skip \in [Windows -> BOOLEAN]
  /\ sh.wmclass \in [Windows -> WmClassValue]
  /\ disk \in [Ids -> File \cup {Absent}]
  /\ managed \subseteq Windows /\ focusWin \in managed \cup {NoWindow}
  /\ seqs \subseteq SeqIds /\ aborted \in BOOLEAN /\ edits \in 0..MaxEdits

\* interesting_windows, the unsigned counter of shell-app.c, is the number of
\* the application's windows that show in the taskbar, whatever happened to
\* skip-taskbar and in which order windows came and went.
InterestingIsExact ==
  \A a \in DOMAIN sh.app :
    sh.app[a].interesting = Cardinality({w \in sh.app[a].windows : ~sh.skip[w]})

\* A stopped application shows no window in the taskbar, a running one has a
\* running state (shell_app_compare and shell_app_request_quit use it
\* unchecked), and running_apps holds exactly the running ones.
StateFollowsWindows ==
  \A a \in DOMAIN sh.app :
    /\ sh.app[a].state = "stopped" => sh.app[a].interesting = 0
    /\ sh.app[a].state = "running" => sh.app[a].windows # {}
    /\ a \in sh.running <=> sh.app[a].state = "running"

\* An application the tracker knows a window for has a running state holding
\* that window: update_focus_app and _shell_app_remove_window rely on it.
TrackedWindowsAreHeld ==
  \A w \in Windows : sh.windowToApp[w] # NoApp =>
    /\ w \in managed
    /\ Live(sh.windowToApp[w]) /\ w \in sh.app[sh.windowToApp[w]].windows

\* A normal window is held by no other application than the tracker's, so
\* that every window an application lists is its own.  The exception is the
\* application made for the window when a dialog of it was tracked first.
NormalWindowsAreHeldOnce ==
  \A a \in DOMAIN sh.app :
    \A w \in sh.app[a].windows :
      Attr[w].type = "normal" => sh.windowToApp[w] = a \/ a.win = w

\* id_to_app never offers an application for a file that has changed.
LookupsAreCurrent ==
  \A id \in Ids : sh.idToApp[id] # NoApp =>
    /\ Live(sh.idToApp[id]) /\ sh.idToApp[id].id = id
    /\ sh.infos[id].ver = sh.idToApp[id].ver

\* A usage timer runs for an application that runs.
TimersHaveRunner ==
  \A id \in sh.timers : \E a \in sh.running : a.id = id

=============================================================================
