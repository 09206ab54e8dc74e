# Verification of gnome-shell's core state machines

TLA+ models of parts of gnome-shell (the Endless OS fork of GNOME's shell), TLC
configurations that check them on small instances, and TLAPS proofs of the
properties that matter most. Paths below are relative to the repository.

## 1. The system

gnome-shell is a Wayland/X11 compositor and desktop. C code under `src/` wraps
mutter and holds the St toolkit with its CSS engine, the bookkeeping of applications
and windows, the agents that ask for passwords and some services of their own
processes; JavaScript under `js/` holds the logic of the desktop. All of it runs on
one thread, driven by the GLib main loop, except for worker threads that read files.
What makes it hard is therefore less parallelism than

* asynchronous functions: every `await` and every GIO callback lets other handlers
  run, and most promises are awaited by nobody (`f().catch(...)`);
* worker threads whose answers come late, out of order or after cancellation;
* caches of caches (styles, paint states, icons, textures) that have to be thrown
  away when something far below them changes;
* two clocks (wall and monotonic), timers in whole seconds on one of them, and
  signals that come from other processes, which also crash;
* actors, windows, extensions and proxies that vanish while records refer to them;
* parsers that are to recover from any error in their input.

### Inventory

| component | state | operations | interacts with | hard behaviour | what makes it correct |
|---|---|---|---|---|---|
| Break reminders (`js/misc/breakManager.js`) | break state, idle state, last end of every break, watches, timer | settings, watches, timer, delay/skip/take | idle monitor, GSettings | types due at once, fractions of seconds, clock steps | breaks that fall due are announced; only real idle time counts |
| Screen time limits (`js/misc/timeLimitsManager.js`) | transitions, file, limit state, timer, clock offset | asynchronous start, stop, user state, sleep, load, store | logind, GSettings, files | stop during start, sleep, crash, I/O errors | recorded time is real, the limit is enforced, the file stays readable |
| Extension manager (`js/ui/extensionSystem.js`) | extension states, order, enabled list | enable, init, disable with rebasing, changes of settings and session | session mode, extensions' code | handlers that overlap at every await; code that throws | settings are applied, extensions stay stacked, one handler at a time moves an extension |
| Modal stack (`js/ui/main.js`) | stack of grabs with saved focus and mode | pushModal, popModal, destroy | stage, all dialogs and menus | pops out of order, destroyed actors | focus, mode and counts return to what they were |
| CSS engine (`src/st/croco/`) | input position, one token of look-ahead, the statement being built | tokens, productions with recovery, document handlers | themes | errors anywhere; tokens put back | nothing is lost or read twice; one rule's error costs no other rule |
| Themes and theme nodes (`st-theme.c`, `st-theme-node.c`) | sheets per origin and file, cached answers per node | load, unload, match, read values | CSS engine, widgets | load/unload in any order; questions in any order | CSS's cascade; answers that fit together |
| Widgets (`st-widget.c`, `st-button.c`, `st-focus-manager.c`, `st-scroll-*.c`, `st-adjustment.c`, `st-viewport.c`) | theme node, pseudo classes, transitions, grabs, positions | map, reparent, style, events, navigation, scrolling | stage, theme context | changes while unmapped or in a transition; several devices at once | what is shown follows tree, style and input |
| Painting (`st-theme-node-drawing.c`) | paint states, shared textures | paint, copy, invalidate | texture cache | states shared between sizes and widgets | a settled paint is as fresh as a first one; rectangles tile the box |
| Icons and textures (`st-icon-theme.c`, `st-icon-cache.c`, `st-texture-cache.c`, `st-icon.c`) | directories, index files, infos, loads, textures | lookup, load, reload, tell | file system, threads | changes during loads and before the idle that tells of them | whoever keeps something stale is about to be told; who waits is served |
| Applications (`shell-app.c`, `shell-app-system.c`, `shell-window-tracker.c`, `shell-app-usage.c`, `shell-app-cache.c`) | window tables, app states, counters, scores, cache of files | windows come, change, go; launch, reload, focus | mutter, D-Bus, file monitors, threads | windows that change sides, late answers, overtaken reads | tables agree; running exactly while there are windows; the cache never goes back and catches up |
| Action muxer (`gtkactionmuxer.c`) | groups, parents, observers | insert, remove, observe | menus | shadowed names, replaced parents | observers know what a query would answer |
| Password agents (`shell-polkit-*.c`, `shell-network-agent.c`, `shell-keyring-prompt.c` and their components in `js/ui/components/`) | queue, pending requests, prompt | request, cancel, answer | polkit, NetworkManager, keyring | cancellation racing completion, replaced requests | everybody is answered once |
| Screenshots (`shell-screenshot.c`, `js/ui/screenshot.js`) | calls, shooters, dialog | grab, write, flash, reply | D-Bus callers, stage, threads | failures at any step, callers that vanish | callers are freed, pixels are kept |
| Calendar (`src/calendar-server/`, `js/ui/calendar.js`) | sources, views, range, events | connect, view, notify | Evolution data server, D-Bus | crashes of server and backend, reordered answers | no event of the range is missed |
| Camera monitor, hotplug sniffer, saved state and leisure (`shell-camera-monitor.c`, `src/hotplug-sniffer/`, `shell-global.c`) | running nodes, delayed report; walks and quit timer; saves, idle | node events; sniff calls; saves | PipeWire; GIO; threads | broken connections; watchdogs; overtaken saves | see section 3 |
| Message tray, screen shield, login, overview and search, popup grabs, pay-as-you-go, session dialogs | | | | | not modelled, see section 7 |
| Panels, dash, app grid, accessibility, keyboard, performance log, embedding of X clients | presentation and glue | | | | not modelled, see section 7 |

`PROJECT.json` lists every component with its status, the hazards at their lines
and, under `map`, the source lines each definition stands for.

## 2. Plan

Done: the four JavaScript state machines; the CSS engine, themes and theme nodes;
widgets, painting, icons and textures; the services around the shell, with one
refinement (`AppCache` implements `AppMirror`); proofs about the four state machines,
buttons, painting, scrolling and thirteen of the services (section 5).

To come, in this order:

1. `MessageTray`: the queue with its limits and the HIDDEN / SHOWING / SHOWN /
   HIDING machine; `GrabHelper` as a client of `ModalStack`;
2. loading, reloading and version validation of extensions;
3. the dispatchers that present break reminders and time limits.

Each component module declares its own `CONSTANTS` and `VARIABLES` and ends in a
specification of its own, so that a proof module can extend it alone.

## 3. The modules

Records that hold several fields of one C object carry the fields' names; a history
variable says so in its comment. An action is a whole handler, with everything it
calls. What comes from libraries (GIO, PipeWire, polkit, libecal, mutter, Cogl) is
external: it does what the code expects of it, or fails where the code handles it.

### BreakManager

`breakManager.js`, class `BreakManager`, complete. Variables are the fields of the
object (`state` is `_state`, `curType` is `_currentBreakType`, `lastEnd` is
`_breakLastEnd`, ...), the GSettings values, and the idle monitor and the timer as
the code uses them. Time is counted in ticks, `TicksPerSec` to a second, because
the code reads a clock with fractions and arms timers in whole seconds. `skew`
says how far the wall clock was stepped since the timer was armed. The order in
which JavaScript iterates over the map of enabled types shows in
`getNextBreakDue`; with two types it is given by `first`.

Actions: `SetSelected` and `SetTypeSettings` (GSettings handlers), `OnIdleWatch`,
`UserActivity` (with `_onUserActiveWatch`), `TimerFires`, `DelayBreak`,
`SkipBreak`, `TakeBreak`, and the environment `Tick` and `ClockStep`. Every one
that calls `_updateState` contains it (`UpdateState`). `NextBreakDue` is a closed form of
the loop of `getNextBreakDue`; the loop is there too (`Loop`), and a lemma shows that
they compute the same (`LoopComputesNextBreakDue`). What the function returns when both
types are due is not what its comment says: see `DueTimeIsOfTheType` in section 6.

### ModalStack

`pushModal`, `popModal` and the `destroy` handlers of `main.js`. A grab stands for
its index in `modalActorFocusStack`; an actor may be modal several times. When one is
destroyed, the `destroy` handler of each of its grabs pops its own record, in the order
they were pushed in: `Destroy`, a `DestroyPops` per grab and `DestroyEnds`, between
which nothing else happens (`dying`). `IncorrectPop` is the error path of `popModal` for
a grab that is not on the stack, whichever it is. `own` and `cover` in a record and
`baseCover` are history, as are `shallow` (nothing was popped from two or more below the
top) and `mistaken` (the error path was taken). `ModalInit` is the state after start-up
has set the action mode to NORMAL (`main.js:370`).

### ExtensionManager

Importing, enabling and disabling once extensions are loaded: every extension starts
INITIALIZED, and its first enabling imports it. A handler is a task with a stack
of frames, one per asynchronous function it is in; `thread` is the task that holds
the JavaScript thread, and is given up at every `await`. `setting` says of every
extension whether it is in `enabled-extensions`, in `disabled-extensions` or in neither,
and `ModeExtensions` is the list of the session mode; `GetEnabledExtensions` derives the
list of enabled extensions from both, at every change of the settings and of the mode as
in the code, and an extension that is in both lists is there twice. `wanted` is what it
returned last. `SettingsChange` also covers `enableExtension` and `disableExtension`,
which write two of the keys one after the other. The code of extensions may throw in `enable()`, in `disable()` and while it
is imported (`Faulty`). `on` counts the calls of `enable()` less those of
`disable()` and is history.

### TimeLimits

`timeLimitsManager.js`, class `TimeLimitsManager`, with its environment. `machine`
holds `_state`, `_lastStateChangeTimeSecs` and the time left of the timer,
`transitions` is `_stateTransitions`, `file` the contents of
`session-active-history.json`. A transition keeps only the state entered, since the
one left is always the other one (`_addTransition` is never called otherwise, and
loading refuses such entries). `starts` lists what every pending
`_startStateMachine` awaits: the history ("load"), the inhibitor, the proxy of the
user; `LoadDone`, `InhibitDone` and `ProxyDone` are the code between the awaits. A
stop does not touch `starts`, as in the code.

`offset` is the wall clock minus the monotonic clock: `SleepTick` and `ClockStep`
change it, `ClockChanged` is the callback of the time-change source and
`clockOffset` what it compares with. Days have `DayLength` seconds; the code's days
start at 03:00 local time, and changes of daylight saving are not modelled.

Simplifications: reading, writing and deleting the file each happen in one step
(they succeed or fail, see `Faults`), so two stores never complete out of order,
and `_onPrepareForSleep` is one step although it awaits the store, and on waking up
the inhibitor, in the middle. Property notifications are left out.

`activeSecs`, `stepped` and `losses` are history variables. `activeSecs` is the set
of seconds in which activity was to be counted (while a start is under way and the
history loaded, the user is taken to be active, as the comment at line 206 says);
it is moved when the clock is set. `losses` records the ways in which the history
has become inexact so far: `clock` (the clock was set while nothing watched it, or
a transition was recorded between the step and the callback), `crash` (activity
that is not in the file), `load` and `store` (the file could not be read or
written), `restart` (a start was under way when another began or the machine
stopped), `start` (the user's state could not be watched), `pair` (two transitions
in the same second) and `timer` (the state and its timer were calculated by times not
adjusted for a step yet). The active time is a number of pairs of a transition that
ends a period and a second of that period (`Spent`), not a loop that adds up, so that
it can be reasoned about.

### Styles: CssTokenizer, CssParser, CssOm, StTheme, StThemeNode

* `CssTokenizer` is `cr-tknzr.c` on `cr-input.c`. A reading function maps a text and
  an index to the index behind what it read. The state machine on top is
  `cr_tknzr_get_next_token()` and `cr_tknzr_unget_token()` with `token_cache`, driven
  by a caller that reads and puts back in any order. `cr_tknzr_read_byte()` neither goes
  back to before a token that was put back nor forgets it; its one caller peeks at the
  byte first, which does, and callers are held to that (`peeked`).
* `CssParser` is `cr-parser.c`: one operator per production, from tokens to a status,
  an index, a value and the events for the document handler, with the recovery
  through the core grammar. It has no state of its own.
* `CssOm` is `cr-om-parser.c` with the statements, declarations, terms and selectors
  it builds (`cr-statement.c`, `cr-declaration.c`, ...). The events of a parse are
  handled one action each, because a handler meets whatever the earlier ones left in
  the context. `BrokenOff` says that a media rule was left open by `error()`, which is
  when the guard of `start_media()` refuses (section 6). The single-piece parsers it needs
  are constant operators, bound in `MCWidgets.cfg` to the productions of `CssParser`.
* `StTheme` is `st-theme.c`: sheets by file, by origin and custom, imports loaded when
  they are met, matching of selectors and the order of declarations.
* `StThemeNode` is `st-theme-node.c`: what a list of declarations
  means (lengths in thousandths of a pixel), and a node that caches answers at the
  first question.

### Widgets: StWidget, StFocus, StButton, Scrolling, StPaint

* `StWidget`: `st-widget.c`, `st-theme-context.c` and `st-theme-node-transition.c`.
  One C call restyles a whole subtree before it returns, so helpers take and return
  the whole state `st`; actions are mapping, reparenting, attributes, crossings,
  theme changes and transition frames.
* `StFocus`: `st_widget_navigate_focus()` and the focus groups.
* `StButton`: presses by mouse buttons, touches and keys, in any order.
* `Scrolling`: a view with its adjustments, bars, drags, paging timer and viewport.
* `StPaint`: the ring of two paint states, the state cached in the node and the
  copies between them; textures are what they were made of and for. Then the
  rectangles of borders, corners, background, border image, outline and shadow, as
  sets of pixels.

### Icons: IconLookup, StIconTheme, StTextureCache, StIcon

* `IconLookup`: choosing a file among directories of every type, with the index files
  of `st-icon-cache.c` beside plain directories.
* `StIconTheme`: when the themes are read again, what is remembered, and the idle
  that emits "changed"; handlers look icons up while the emission runs. Then the
  infos: references, the LRU list and loads in threads on copies.
* `StTextureCache`: keyed textures, outstanding requests, file monitors.
* `StIcon`: the texture shown and the one waited for.

### Services

* `Applications` (window tracker, application system, state of an application),
  `ShellAppWindows` (one application's windows and busy state; `FocusWindow` is what
  `update_focus_app()` does to it), `AppUsage` (`longest`, the most that was ever counted
  for one stretch of focus, is history), and
  `AppCache` with its abstract specification `AppMirror`: a copy of what is installed
  that may lag behind but never goes back. `AppCache` instantiates it with the
  history of what was on disk; `CacheImplementsMirror` is checked as a property.
* `ActionMuxer`: an inner and an outer muxer, groups and observers. The list of
  watchers of a name holds an observer once per registration; its order decides only
  who is told first, so the model keeps how often each observer is in it
  (`MaxWatchers`, two, bounds that in the runs).
* `PolkitAgent`, `NetworkAgent`, `KeyringPrompt`: agent and dialog together. The idle
  of the polkit agent that handles a freed request ends the program in the model.
* `Screenshots` (the D-Bus service and `ShellScreenshot`; closing the stream may fail
  after a picture was written, which is answered with "no"), `ScreenshotUI` (the
  dialog, and the conversion of pixels, with C's integer division).
* `CalendarServer`: the server with its threads and the reader in the shell, whose proxy
  is initialised by a call of its own: until its answer is received the reader waits and
  hears nothing. D-Bus keeps the order of each direction; server and backends crash and come back.
* `CameraMonitor`: nodes of PipeWire, the delayed end of the report, reconnecting.
* `HotplugSniffer`: calls, walks through directories in batches, the watchdog and the
  timer that ends the idle process. The file system enumerates in any order and a batch
  may be short, so batches and the directories ahead are sets, and the next one is any.
* `GlobalState`: saves in threads that a newer save cancels; leisure functions. What
  the loop of `run_leisure_functions()` does with a closure it has freed is a choice
  between nothing and calling it again.

### Composition

`MCSession` (break reminders and modal stack), `MCWidgets` and `MCServices` each extend
several component modules; `MCStyles` holds the parts and constants of the CSS engine
and themes, and `MCWidgets` extends it. Within a run the components share no variable, so a behaviour is one of one part,
chosen by `part` (`machine` in `MCSession`) in the initial state: interleaving them would multiply states and
show nothing more. Components that do interact are one module, or are composed
inside one: parser events and handlers in `CssOm`, agent and dialog in the three
agents, server and reader in `CalendarServer`, C and JavaScript in `Screenshots` and
`ScreenshotUI`, four source files in `Scrolling`.

## 4. The runs

| run | instance | checks |
|---|---|---|
| `session` | two break types, one of them with two settings; 2 ticks per second; 4 ticks; one clock step of -2 or +3 ticks. Two actors and the stage, two modes, three modals deep; symmetry of the actors | `TypeOK`, `WatchesFollowState`, `NextTransitionScheduled`, `IdleTimeIsReal`, `BreaksAreEarned`; `ModalTypeOK`, `CountsAgree`, `ModesNest`, `FocusNests`, `NoDestroyedFocus` |
| `extensions` | three extensions, one of which may throw, one that also runs in the lock screen; one handler at a time; 4 changes | `SettledMatchesSettings`, `Stacked` |
| `extensions_overlap` | two extensions, imports included, two handlers at once, 3 changes | `LockIsKept` |
| `time_limits` | days of 3 s, 5 s in all, limits of 1 and 2 s, 3 changes (settings, activity, sleep, shutdown, crash), one clock step of -1 or +2 s; followed until something is lost | `ActiveTimeIsReal`, `LimitIsEnforced`, `ReachedAtIsReal` |
| `time_limits_faults` | 2 s, 3 changes, two starts under way at once, every asynchronous call may fail, one clock step; followed until history is lost in two ways | `StoredIsLoadable`, `LimitTimerArmed` |
| `widgets` | texts of up to three fragments; sheets of up to three pieces, whole and broken; three origins, an import, two sheets to load and a bad one; two nodes with up to two declarations each of a group. Two widgets and the stage, 4 operations; a focus group of five; two touches and two mouse buttons; two painters of four nodes; borders of one width and two radii; two views and three contents; two themes of up to two files; icons, infos and textures with 3 or 4 changes | `TokensAreKept`, `SheetsAreKept`, `CascadeIsSound`, `AnswersAgree`; `WidgetsAreStyled`, `FocusMovesAsAsked`, `ActiveIsPressed`, `SettledPaintIsFresh`, `FramesAreSound`, `ViewShowsContent`, `LookupFindsTheIcon`, `IconsAreCurrent` |
| `services` | two windows, two `.desktop` files and a start-up sequence; two reads at once; three authentications; two secrets; three prompts; two screenshot calls; one calendar with 4 changes; two cameras; two sniffs; three saves | `ApplicationsAgree`, `WatchersAgree`, `AskersAreAnswered`, `ScreenshotsCleanUp`, `PixelsAreKept`, `NoEventIsMissed`, `CacheImplementsMirror`, `CacheSettles` |
| `session_due`, `extensions_toggle`, `time_limits_stop`, `widgets_media`, `screenshots_success` | as above, smaller or one part of it | findings, see section 6 |

What the properties of the two large runs say:

* `TokensAreKept`: whatever a caller puts back, it gets the tokens it would have got
  without, and every character belongs to a token or was skipped as one.
  `SheetsAreKept`: no handler meets a context it refuses, but for an `@media` after a
  broken one (`HandlersAccept`, section 6), every ruleset that was read
  is in the sheet, and what is printed reads back as the same.
  `CascadeIsSound`: sheets in use have their files, selectors match as CSS says, and
  the declaration handed over last is the one that wins. `AnswersAgree`: paddings,
  colours, sizes and boxes that a node answers fit together in any order of asking.
* `WidgetsAreStyled`: a mapped widget has the style of its place, a transition ends at
  it, and hover is true. `FocusMovesAsAsked`: Tab goes round without leaving out or
  repeating; arrows go where they point. `ActiveIsPressed`: the button looks pressed
  exactly while something presses it. `SettledPaintIsFresh`, `FramesAreSound`,
  `ViewShowsContent` (content covers the view, handles stand where the value says),
  `LookupFindsTheIcon` (with an index file as without), `IconsAreCurrent` (who holds
  something stale is about to be told, who waits is served, and an icon shows what was
  last asked of it).
* `ApplicationsAgree`: tables, counters and states agree with the windows there are, and
  a score is worth no more than the limit or, if that is more, the longest stretch of
  focus so far; in the run such stretches exceed the limit (`ScoreMax = 1`).
  `WatchersAgree`: observers hold what a query would answer; cameras are reported.
  `AskersAreAnswered`: one dialog at a time, one answer each; media, saved state and
  leisure functions are seen to. `ScreenshotsCleanUp`, `PixelsAreKept` (premultiplied
  again, a pixel is what it was), `NoEventIsMissed` (after all is delivered the reader
  has every event of the range, whatever crashed), `CacheImplementsMirror` and
  `CacheSettles`.

Why the bounds are enough for the cases that matter: two break types are all the
code supports, and half seconds are enough to see the rounding. Three modals are
the least for a pop from the middle and from two below the top. Three extensions
give a rebasing of two above one, two handlers every pairwise overlap. Five seconds
with days of three contain a turn of the day with activity before and after it.
Two pieces of a sheet give every error next to every neighbour, and a third one
what an error leaves behind. Two widgets give a parent and a child, two readers an
overtaken read, two requests of one connection a replacement, three saves one that
removes the cancellable of the next. Every bound is a constant named `Max...` or a
set in the `.cfg`.

Deadlock is checked in `session`, for `BreakManager` and `ModalStack`. Elsewhere the bounds end a
behaviour: with all changes used up and nothing under way there is nothing to do.

Fairness is stated once, as weak fairness, in `AppCache` (`CacheFairness`): of a
monitor's report, the timeout, the worker's steps and the delivery of its answer. GLib reports changes, dispatches timeouts and idles
and runs the tasks of its thread pool. Changes of the files are not fair, and bounded, which is what "once the files
stop changing" means.

The time limits runs follow a behaviour only until history is lost in more ways
than `MaxLosses` (a state constraint): beyond that the properties claim nothing.

## 5. What is proved

Seven modules hold proofs, each about the specifications of the modules it extends, for
every value of the constants that meets their named assumptions. In each, a lemma per
operator says what it returns or preserves, a lemma or step per action shows that it
keeps the inductive invariant, and the theorems follow. TLC checked every invariant
on the instances of section 4 before it was proved.

### BreakManagerProofs

`IInv` is `TypeOK /\ WatchesFollowState /\ NextTransitionScheduled /\ IdleTimeIsReal`
(`BreakManagerInvariant`). None of its parts is inductive alone: that a timer is armed
for a time that is not negative needs the types, that a callback runs only while
reminders are enabled needs the watches, and `_updateState` leaves a timer alone in
branches where only `NextTransitionScheduled` says that it was right. From it follow
`BreakManagerTypeOK`, `WatchesFollowStateAlways`, `BreaksAreNeverMissed`,
`IdleTimeIsAlwaysReal` and the action property `OnlyEarnedBreaksCount`. The argument
goes through what `NextBreakDue` returns (`NextBreakDueFacts`), what rounding does
(`CeilBounds`) and what each branch of `_updateState` leaves (`UpdateFacts`). A lemma
apart, which none of the steps needs, says for one and for two enabled types that this
closed form is what the code's loop computes (`LoopComputesNextBreakDue`). Assumed:
durations and intervals are positive, the clock is past `MinBreakLength` at the start.

### ModalStackProofs

`IInv` is `ModalTypeOK /\ CountsAgree /\ ModesNest`, with `ModalStackInvariant`,
`ModalStackTypeOK`, `CountsAlwaysAgree` and `ModesAlwaysNest`. On top of it
`FInv` (`FocusInvariant`) is that the focus is on no destroyed actor,
`NoDestroyedFocus` (`NoDestroyedFocusEver`) and `FocusNests` (`FocusAlwaysNests`). An
incorrect pop breaks none of it: it may cost a modal its action mode, which becomes
NORMAL, but gives it no other modal's (`Above`), and the focus it clears is what the next
push saves. What makes it work is a count: an actor has as
many destroy handlers as there are records that saved it. `popModal` takes a record
out, moves the saved focus of those above it down by one and disconnects the handler
of one of them; the lemmas show that the count comes out right, for the topmost
record and for one in the middle. Assumed: the stage is no actor.

### ExtensionManagerProofs

`TransitionsAreExclusive` proves `LockIsKept` for any extensions, faults and number of
overlapping handlers, imports included. `Lock` says of an extension that one handler at
most is in the middle of enabling or disabling it, and that its state says so. The
theorem says that no step loses the lock but one: the end of an import after another
handler that imported the same extension has gone on (`Overtaken`). There the code does
lose it: `_callExtensionInit` sets the state to INACTIVE again after its await. `Shape`
says that the frames of a stack have the fields their next step reads and only the
innermost can be in a transition; it is invariant whatever the locks do, and reads the
lock off the innermost frames (`LockOf`, `LockIsLockOf`). `LockStep` is the lemma for a
step that moves one extension, `QuietStep` for one that moves none.

The second half of the module is about one handler at a time (`Alone`), with any
extensions, modes and faults: `ExtensionsAreStacked` proves `Stacked` and
`SettledAlwaysMatches` proves `SettledMatchesSettings`. With two handlers the second is
false, which is what `extensions_toggle` shows. The inductive invariant `SoloInv`
(`SoloIsKept`) reads from the frames of the handler how far it is:

* its frames are nested by rank, and all but the innermost wait for a call (`Nested`);
* an extension that is due, wanted by the settings and allowed in the mode, runs, has
  failed, or some frame will still enable it (`WillEnable`); one that runs and is not
  due will still be disabled (`WillDisable`). When no frame is left, neither is anything
  to be done: that is `SettledMatchesSettings`;
* what is left to be rebased is an end of the order after the extension that is being
  disabled (`IsEndOf`), and an extension of the order is stopped exactly if it is that
  extension or in this end (`Down`). An end has, with each extension, all that were
  enabled later, which is `Stacked`;
* every state says what its calls of `enable()` and `disable()` add up to, and the
  extensions in the order are those that run or failed after running (`StateIsRight`).

`SoloMovesOne` is the lemma most steps go through: a step that moves one extension owes
a proof for that one only. `DisableCall`, which stops many at once, is done by itself.
`Filter` is written with the ranks of places instead of `SelectSeq`, of which
the provers know nothing; `FilterFacts` says what it returns, for sequences of any length.

### TimeLimitsProofs

`StoreInv` (`HistoryStaysInOrder`) gives `StoredHistoryLoads`: what is in the file can
be read back in full. As long as no clock step went unwatched and no starts overlapped,
the file is sorted and so are the transitions in memory, which are moreover not after
the present, taken as it would be without the clock steps they have not been adjusted
for. That bound is what makes appending safe; that a stopped machine has nothing
connected, and that a start which loads has nothing recorded, are what makes it
inductive across stops, crashes and failed I/O. That proof compares times and never
adds them up; `Pick`, the elements of a sequence that pass a test, is defined by their
rank and not by recursion, so that its order can be reasoned about.

`TimerInv` (`TimerStaysSet`), inductive with `StoreInv`, gives `LimitTimerIsAlwaysArmed`.
Where no clock step was missed and every start took, it says: the timer is due no later
than the limit by the transitions, both as of the clock that has been adjusted for
(`TimerSet`); no transition is ahead of that clock (`NothingAhead`); a manager that has
started hears of the user and of sleep, or a start that will see to it is under way
(`LinksFollow`); and a user taken to be active is (`UserFollows`). The last two are
needed because a second in which the timer stands still, asleep, must not add active
time. Three facts about the active time carry it: it grows by a second in a second at
most, also across the turn of the day (`ActiveTimeGrowsSlowly`); trimming the history
adds nothing to it (`TrimAddsNothing`), since an entry is only dropped if it is of
before the day or a later one is kept; and a history adjusted for a step gets its timer
calculated anew.

`ExactInv` (`HistoryStaysExact`), inductive with `StoreInv`, gives
`ActiveTimeIsAlwaysReal`: as long as nothing was lost, the active time that is
calculated is the time the user was active today. A history says of a second that the
user was active in it if the next transition after it leaves activity (`ActiveAt`), and
`Says` compares this with `activeSecs` for every second of the last `Threshold`, as of
the clock that has been adjusted for. The invariant has it of the transitions in memory
while the machine records (`RecordExact`), and of the file while it does not
(`FileExact`), in which case the last entry says "inactive"; `StartExact` says what is
connected and what the user is taken to be between the one and the other. Each
operation on a history is a lemma about the seconds it says: recording
(`AppendKeepsSeconds`), trimming (`TrimKeepsSeconds`), loading (`LoadedKeepsSeconds`),
adjusting to a clock step (`AdjustsOn`), and a second that passes (`SecondPasses`). The
calculation itself is tied to the seconds once: `ActiveTimeCounts` shows that the
periods of the day, each cut at its beginning and end, are a bijection with the seconds
said to be active. `ReachedAtIsAlwaysReal` counts the same seconds up to a time
(`TotalIsBefore`, `CountingBack`): going back from the end of the period in which the
limit was passed by what is too much arrives at the second that used it up.

`LimitInv` (`LimitStaysEnforced`), inductive with the three others, gives
`LimitIsAlwaysEnforced`: the limit is enforced exactly when the real activity of the day
has used it up. For an active user whose limit is not reached yet this is `TimerInv`. For
one who is inactive nothing is armed, and it holds because no active time is added; for
one who is active and over the limit it holds because the timer armed then is due no
later than the next day, before which nothing is taken away (`NextSecond`). So the
invariant tells these cases apart (`Limited`) and needs the state of the user to be the
last of the history, which is part of `ExactInv`. The property leaves out the moment at
which the timer is due and has not been dispatched, and so does the theorem.

Assumed: `TimeLimitsAssumption` (positive days and limits, a history that is kept for a
day at least, the start is a day after zero).

### WidgetsProofs

* `ButtonLooksPressed` (`ActiveIsPressed`): the invariant is the property together
  with the device that presses, which is none unless something does.
* `PaintsAreFresh` (`SettledPaintIsFresh`): `PaintInv` says that every valid paint
  state, in the ring of a widget and cached in a node, holds what its node would be
  drawn with at its size and scale, unless the code is known to keep something stale
  (section 6), and that a node which knows the least size of its shadow knows it right.
  The cached state is copied into the ring of other widgets and back, so neither
  half is inductive without the other.

* `ViewsAlwaysShowContent` (`ViewShowsContent`): `ScrollInv` says that the value of an
  adjustment is between its bounds and each handle is the one drawn from its
  adjustment (`BarsInv`), and that a bar hidden after an allocation was not needed.
  `ClampPageTyped`, `SetValueInBounds` and `LaidOutShows` are what scrolling, setting
  and laying out do to it; `HiddenFits` goes through the policies as
  `st_scroll_view_allocate()` does. Of products and quotients (the step, the place of
  a handle, a drag) the proof needs that they are integers and no more: whatever
  they come to is clamped.

Assumed: button 1 is one of the mouse buttons; sizes and scales are naturals; a
scrolled view is no smaller than a bar is thick, and contents have sizes
(`ScrollAssumption`).

### ServicesProofs

* `CacheIsAMirror`: `CacheSpec` implements `AppMirror`. Of several reads only the
  newest is not cancelled, and it read its files after the cache got what it has
  (`OnlyNewestCounts`); the initial state maps to one of the mirror, an applied read to
  a step of it, everything else to a stutter or to a change of what is installed.
* `ScreenshotsLeaveNothing` (`ScreenshotsCleanUp`): unredirection is inhibited once
  per call that waits for a frame, counted as the cardinality of these calls, and a
  shooter belongs to a call under way.
* `RunningCamerasAreReported`, `LastSaveHasTheFile`, `PromptsAreAnswered`,
  `NetworkIsAnsweredOnce`. A save that is not the last is over, or queued and cancelled;
  a prompt is kept, handed over or answered, and one of these only; a request of
  NetworkManager is in the agent's table and not answered, or out of it and answered
  once. Assumed: the bounds on calls are naturals.
* `RequestsAlwaysTakeTurns`: `PolkitInv` adds that a request is in the queue once and
  exactly while it is scheduled, and that an idle is never for a request that was not
  made. `RemovedFromList` is what `g_list_remove()` leaves of a list of any length.
  Assumed: the null request is not one of the requests (`PolkitAssumption`).
* `GoneDialogAlwaysOwesNothing`: the property with the types of the dialog is inductive
  once "gone" is read as neither shown nor on its way (`Owing`, `GrabsBalance`).
  `TellCallerFacts`, `FinishClosingFacts`, `CloseFacts`, `RaiseFacts` and `OpenFacts`
  follow the calls of the dialog into each other.
* `ObserversAlwaysAgree`: `MuxerInv` is the property with its types, and the proof goes
  through each change of what a query would answer and who is told of it. Like the
  property, it is about muxers of which none hides a prefix of its parent (`Apart`): a
  name then has its prefix in one muxer, which alone decides what it is (`HomeIsOne`).
  Assumed: the missing group is not one of the groups (`MuxerAssumption`).
* `MediaAreAlwaysSniffed`: for each type of file, what was counted and what lies ahead
  (the rest of the directory that is read, and all directories below the ones waiting)
  add up to what the whole tree has (`WalkCounts`). For this the directories ahead must
  not lie in each other (`Unnested`), which is kept because directories make a tree
  (`SnifferAssumption`: finite, a directory has one parent and is not below itself; the
  code does not follow links). `DirsBelow` is the least set that is closed under
  entries, so that its facts (`BelowFacts`, `BelowIsChildren`, `NotBelowChildren`) are
  proved without induction; `LoadKeepsCount` and `BatchKeepsCount` are the two ways in
  which files move from one side of the sum to the other.

* `PixelsAreAlwaysKept` (`PixelsAreKept`): one step, from what a surface is: colours
  no larger than their alpha, which is a byte. The quotient of the way there, by the
  alpha, and of the way back, by 255, are told by their bounds (`QuotientBy255`).

### MCServicesProofs

`NoEventIsEverMissed` (`NoEventIsMissed`) from `CalInv`, which is `CalSound /\ Quiet`
(`CalendarInvariant`), for any
calendars, events, times and ranges. In the middle of things no state says that the
shell holds an event: the signal may be on its way, with others before and after it.
So the invariant is about what is still to come. `Known` says that, unless a request
is on its way that makes the views anew, every event a view has reported is one the
shell will have when it has received everything (`Reaches`: the last message that
affects the event brings it, or none does and the shell has it). `SoundServer` says
that no calendar has two views and that all have the range last asked for: with two
views of a calendar, removing one would tell the shell to forget what the other had
reported. A view that is made anew has reported nothing, so whatever was forgotten
comes again (`Kept`, `UpdatedIsSound`). `Quiet` says of a reader that does not listen
yet, its proxy not being initialised, that it has asked for nothing: so no view exists
whose report it could miss. Assumed: calendars are finitely many, times
and ranges are pairs of integers (`CalendarAssumption`).

The module extends `MCServices`, the services side by side. A step of `PartsSpec` is one
of one service and leaves the variables of all others (`PartsMove`), so a behaviour of
`PartsSpec` is one of each service's own specification (`PartsAreParts`). With that the
theorems of `ServicesProofs` give the two properties of the run `services` which span
several of them: `WatchersAlwaysAgree` (`WatchersAgree`) and `AskersAreAlwaysAnswered`
(`AskersAreAnswered`), for every value of the components' constants.

Of `ApplicationsAgree` the parts of two modules are proved, each for the module's own
specification:

* `BusyWatchIsAlwaysOurs` (`BusyWatchIsOurs`): `BusyInv` adds that the request the running
  state can cancel is one that is still answered and was not cancelled. Then an answer
  that is not cancelled is the answer to it, and belongs to this run of the application.
* `WatchedAlwaysHasFocus` (`WatchedHasFocus`), which is inductive as it stands.
* `ScoresStayBounded` (`ScoresAreBounded`), for any limit, clock and stretch of focus. A
  stretch is counted in one go and the scores are halved once, so a long one may leave
  more than the limit; the bound is the limit or what the longest stretch so far is
  worth, whichever is more (`longest`). The bound grows before the score does
  (`BoundGrows`, `CreditIsBounded`), so a score is at most twice the bound when it is
  halved (`IncrementIsBounded`).

### Only model-checked

* Liveness under fairness: `CacheSettles`.
* What is about recursion or folds, and would need induction over data: the tokenizer,
  parsers and printed sheets (`TokensAreKept`, `SheetsAreKept`), the cascade, values,
  focus chains, icon lookups and styles (`CascadeIsSound`, `AnswersAgree`,
  `FocusMovesAsAsked`, `LookupFindsTheIcon`, `IconsAreCurrent`, `WidgetsAreStyled`:
  their modules have recursive operators).
* The geometry of painted frames (`FramesAreSound`): products and divisions that the
  arithmetic of the prover does not reach.
* What `ApplicationsAgree` says of `Applications`: its handlers are folds over lookups and
  sets of windows, so that each step would need induction over a fold. The parts of
  `ShellAppWindows` and `AppUsage` are proved (see `MCServicesProofs`).

## 6. Findings

Each is a run in which TLC finds a behaviour of the code that contradicts a comment
or an assertion of the repository; `PROJECT.json` quotes the lines.

* `session_due`: with two breaks due at once, the one announced is the longer, but the
  due time returned with it is that of the last in the map (`breakManager.js:429`); the
  comment at 400-404 says that it is the time when "that break" was due.
* `widgets_media`: a broken `@media` block leaves `cur_media_stmt` set
  (`cr-om-parser.c:753`), so the assertion at the start of the next `@media` fails
  (435-438) and the rules of the one go into the other.
* `extensions_toggle`: an extension switched off while the handler that switches it
  on still awaits stays on.
* `time_limits_stop`: switching the history off while a start awaits does not stop
  it; it ends with the machine running and recording.
* `screenshots_success`: a screenshot whose picture could not be grabbed or written
  is answered with success.

### Behaviour the models take as it is

Met while translating. No run is about these; where one touches a property, the
property says what the code does and its comment says so.

* Breaks: a user who comes back in the middle of a break stays in IN_BREAK.
* Modals: popping a grab from two or more below the top shifts the saved focus of all
  records above it. Extensions: an import that another handler's has overtaken resets
  the state of an extension that is being enabled (`extensionSystem.js:436`), and with
  overlapping handlers the index into the order is used when it may be stale (236).
  Time limits: of two transitions in the same second that cancel
  each other out, only the first is dropped; a timer armed between two clock steps
  that cancel each other out is not corrected, since `_adjustAllTimes` is skipped.
* CSS: a comment right after `}` swallows the next ruleset (`cr-parser.c:2538`); `a .b` is
  read as `a.b` (`cr-parser.c:1722`); CDO or CDC after an `@import` gives up the sheet
  (`cr-parser.c:2493`); one unreadable inline declaration drops them all
  (`cr-declaration.c:242`); `cr_tknzr_read_byte()` does not go back to before a token
  that was put back (`cr-tknzr.c:1723`), and is right only after a peek.
* Themes: imported sheets get the origin of the user agent; `>` after a blank is not
  matched (`st-theme.c:797`); a file loaded twice and unloaded once is gone. Nodes:
  `text-shadow: none` falls back to the parent (`st-theme-node.c:3975`); a later
  unreadable `font-family` erases an earlier one (`st-theme-node.c:2988`); the adjusted
  width uses the wrong argument in `st_widget_get_preferred_width` (`st-widget.c:340`).
* Painting: updating resources loses the shadow (`st-theme-node-drawing.c:1757`); a
  changed file does not invalidate `cached_state` (`:1706`).
* Icons: a `-symbolic-rtl` name is cut by nine characters (`st-icon-theme.c:1472`); an
  index lists symbolic PNGs under a longer name, so `has_icon` misses them; a file is
  read before its monitor starts (`st-texture-cache.c:1217`); an icon that was not
  found is not looked for again when the theme changes, and a load that fails leaves
  `pending_texture` set (`st-icon.c`).
* Scrolling: the test for the horizontal bar compares a width with a height when the
  vertical policy is not automatic (`st-scroll-view.c:572`, against the comment at
  526-531). In that combination `ViewShowsContent` does not ask that a hidden bar is
  not needed (`HiddenBarsAreNotNeeded`).
* Cameras: a node that goes while it runs leaves the report standing
  (`shell-camera-monitor.c:221`), and a first connection that fails is not tried again.
  The model marks the former as `stuck`.
* Sniffer: the watchdog turns a partial result into an error, and overlapping calls
  overwrite `autoquit_id`, so that the process may quit during a call.
* Global: `run_leisure_functions` takes `closures->data` in every round
  (`shell-global.c:1512`), so of several waiting functions only the first is run, and
  used after it is freed; the callback of an older save removes the cancellable of a
  newer one (`:1758`).
* Agents: the idle of a cancelled polkit request may run after the request was freed
  (`shell-polkit-authentication-agent.c:296`). A request whose dialog failed to open, or
  waits for an unlocked session, stays the current one and those behind it wait
  (`RequestsTakeTurns` asks that one is current, not that its dialog is shown).
* Usage: a score above SCORE_MAX is halved once (`shell-app-usage.c:183`), so an
  application that keeps the focus for more than 50 hours at a stretch ends above it;
  `ScoresAreBounded` allows for that.
* Screenshots: a flash of a window that fails leaves the call unanswered
  (`screenshot.js:2644`), and so does an interactive call during a screencast
  (`:1565`).

## 7. Not modelled

* Message tray, popup grabs, login, overview and search, session dialogs: state
  machines of their own, on the plan or candidates for it.
* Screen shield, unlock dialog and pay-as-you-go: what they promise concerns somebody
  at the keyboard and rests mostly on GDM, logind and a D-Bus service.
* Loading and version validation of extensions, on the plan:
  `_onVersionValidationChanged` does not await `_disableAllExtensions()`, and what
  comes of it is decided by the order of microtasks, which `ExtensionManager`, where
  any waiting task may go on next, does not keep. The dispatchers that present breaks
  and time limits: on the plan.
* Of the C code: printing and debugging functions, accessibility objects, getters,
  properties and boilerplate of GObject; drawing with cairo and Cogl; entries, labels,
  drawing areas and the generic containers of St; recording with GStreamer; the X tray
  and embedding; text selection (Pango). They are presentation or calls into
  libraries.
* Layout, animation, magnifier, on-screen keyboard, panels, dash, app grid,
  performance log and Looking Glass: presentation and instrumentation.

## 8. Running

    tlc -workers 2 -config MCSession.cfg MCSession
    tlc -workers 2 -config MCServices.cfg MCServices
    tlapm ServicesProofs.tla
    tlapm MCServicesProofs.tla

The two large runs take two to three minutes each, a proof from nothing up to ten. The operators named "Mutant" in
comments are faulty versions of the definition that follows them; replacing the
definition by one of them must make TLC report the property that `PROJECT.json`
names.
