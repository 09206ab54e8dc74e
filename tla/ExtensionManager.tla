-------------------------- MODULE ExtensionManager --------------------------
(***************************************************************************)
(* Enabling and disabling of extensions, from js/ui/extensionSystem.js     *)
(* (class ExtensionManager), once the extensions have been loaded.         *)
(*                                                                         *)
(* Every change of the settings or of the session mode starts an           *)
(* asynchronous handler and nobody waits for it, so several may be under   *)
(* way.  A handler is a task with a stack of frames, innermost first.  It  *)
(* runs alone until it awaits; `thread' is the task that holds the         *)
(* JavaScript thread, and while it is NoTask any task may go on.  Awaiting *)
(* a call always yields, even when the callee has nothing to wait for.     *)
(***************************************************************************)
EXTENDS Integers, Sequences, FiniteSets, SequencesExt

CONSTANTS
  Priority,      \* the extensions, in the order _getEnabledExtensions sorts them
  ModesOf,       \* session modes each extension supports
  Modes,         \* session modes
  ModeExtensions,\* Main.sessionMode.enabledExtensions of every mode
  Faulty,        \* extensions whose code may throw
  Tasks,         \* slots for handlers that are under way
  MaxChanges,    \* bound on the changes of settings and mode
  NoTask

Uuids == ToSet(Priority)

ASSUME ExtensionsAssumption ==
  /\ Priority \in Seq(Uuids)
  /\ ModesOf \in [Uuids -> SUBSET Modes]
  /\ ModeExtensions \in [Modes -> SUBSET Uuids]
  /\ Faulty \subseteq Uuids
  /\ NoTask \notin Tasks

VARIABLES
  setting,     \* what the settings say of every extension
  wanted,      \* what _getEnabledExtensions returned last, as a set
  mode,        \* Main.sessionMode.currentMode
  extState,    \* extension.state
  on,          \* history: calls of stateObj.enable() less calls of stateObj.disable()
  enabledExtensions, \* _enabledExtensions
  extensionOrder,    \* _extensionOrder
  stack,       \* frames of every task
  thread,      \* task that holds the JavaScript thread
  changes      \* number of changes so far

inputVars == <<setting, wanted, mode, changes>>
managerVars == <<extState, on, enabledExtensions, extensionOrder>>
vars == <<inputVars, managerVars, stack, thread>>

States == {"INITIALIZED", "INACTIVE", "ACTIVATING", "ACTIVE", "DEACTIVATING", "ERROR"}

\* In enabled-extensions, in disabled-extensions (whatever the other says), or in
\* neither; with disable-user-extensions the first is as good as neither.
Settings == {"enabled", "disabled", "unset"}

\* _extensionSupportsSessionMode
Supports(u, m) == m \in ModesOf[u]

-----------------------------------------------------------------------------
(* Tasks.                                                                  *)

CanRun(t) == stack[t] # <<>> /\ thread \in {t, NoTask}

\* The innermost frame of t is at pc in fn.
At(t, fn, pc) == CanRun(t) /\ Head(stack[t]).fn = fn /\ Head(stack[t]).pc = pc

Top(t) == Head(stack[t])

Become(t, frame) == stack' = [stack EXCEPT ![t] = <<frame>> \o Tail(@)]

\* Go on without yielding.
Continue(t, frame) == Become(t, frame) /\ thread' = t

\* Wait for a promise.
Await(t, frame) == Become(t, frame) /\ thread' = NoTask

\* Call an asynchronous function: it starts at once.
Call(t, frame, callee) ==
  stack' = [stack EXCEPT ![t] = <<callee, frame>> \o Tail(@)] /\ thread' = t

\* The function ends; its caller, which awaits it, goes on later.
Return(t) == stack' = [stack EXCEPT ![t] = Tail(@)] /\ thread' = NoTask

Frame(fn, pc, u) == [fn |-> fn, pc |-> pc, uuid |-> u]

ListFrame(fn, pc, todo, new) == [fn |-> fn, pc |-> pc, todo |-> todo, new |-> new]

SetState(u, s) == extState' = [extState EXCEPT ![u] = s]

-----------------------------------------------------------------------------
(* _callExtensionInit and _callExtensionEnable                             *)

\* Nothing to do in this session mode.
EnableUnsupported(t) ==
  /\ At(t, "enable", "start") /\ ~Supports(Top(t).uuid, mode)
  /\ Return(t)
  /\ UNCHANGED <<inputVars, managerVars>>

\* _callExtensionInit starts the import of the extension's module, or finds that
\* extension.js is missing.
EnableInit(t) ==
  LET u == Top(t).uuid
      check == Frame("enable", "check", u)
  IN  /\ At(t, "enable", "start") /\ Supports(u, mode)
      /\ extState[u] = "INITIALIZED"
      /\ \/ /\ stack' = [stack EXCEPT ![t] = <<Frame("init", "import", u), check>> \o Tail(@)]
            /\ UNCHANGED extState
         \/ u \in Faulty /\ SetState(u, "ERROR") /\ Become(t, check)
      /\ thread' = NoTask
      /\ UNCHANGED <<inputVars, on, enabledExtensions, extensionOrder>>

\* The module is there: the manager gets a new, disabled stateObj.
InitDone(t) ==
  LET u == Top(t).uuid
  IN  /\ At(t, "init", "import")
      /\ \/ SetState(u, "INACTIVE") /\ on' = [on EXCEPT ![u] = 0]
         \/ u \in Faulty /\ SetState(u, "ERROR") /\ UNCHANGED on
      /\ Return(t)
      /\ UNCHANGED <<inputVars, enabledExtensions, extensionOrder>>

\* _callExtensionEnable got past the initialisation.
AtCheck(t) ==
  \/ At(t, "enable", "check")
  \/ /\ At(t, "enable", "start") /\ Supports(Top(t).uuid, mode)
     /\ extState[Top(t).uuid] # "INITIALIZED"

\* Some other task got here first, or the initialisation failed.
EnableNotInactive(t) ==
  /\ AtCheck(t) /\ extState[Top(t).uuid] # "INACTIVE"
  /\ Return(t)
  /\ UNCHANGED <<inputVars, managerVars>>

\* Mutant: enables whatever the state is.
EnableCallAlways(t) ==
  LET u == Top(t).uuid
  IN  /\ AtCheck(t)
      /\ SetState(u, "ACTIVATING") /\ on' = [on EXCEPT ![u] = @ + 1]
      /\ Await(t, Frame("enable", "enabling", u))
      /\ UNCHANGED <<inputVars, enabledExtensions, extensionOrder>>

\* The stylesheet is loaded, then stateObj.enable() is called.
EnableCall(t) ==
  LET u == Top(t).uuid
  IN  /\ AtCheck(t) /\ extState[u] = "INACTIVE"
      /\ \/ /\ SetState(u, "ACTIVATING") /\ on' = [on EXCEPT ![u] = @ + 1]
            /\ Await(t, Frame("enable", "enabling", u))
         \/ u \in Faulty /\ SetState(u, "ERROR") /\ UNCHANGED on /\ Return(t)
      /\ UNCHANGED <<inputVars, enabledExtensions, extensionOrder>>

EnableDone(t) ==
  LET u == Top(t).uuid
  IN  /\ At(t, "enable", "enabling")
      /\ \/ /\ SetState(u, "ACTIVE")
            /\ extensionOrder' = Append(extensionOrder, u)
         \/ /\ u \in Faulty /\ SetState(u, "ERROR")
            /\ UNCHANGED extensionOrder
      /\ Return(t)
      /\ UNCHANGED <<inputVars, on, enabledExtensions>>

-----------------------------------------------------------------------------
(* _callExtensionDisable                                                   *)

\* Array.indexOf, with 0 for "not there" where JavaScript has -1.
IndexOf(s, u) ==
  IF \E i \in 1 .. Len(s) : s[i] = u
  THEN CHOOSE i \in 1 .. Len(s) : s[i] = u /\ \A j \in 1 .. (i - 1) : s[j] # u
  ELSE 0

\* Array.splice(i, 1): -1 stands for the last element, past the end is a no-op.
Splice(s, i) ==
  LET k == IF i = 0 THEN Len(s) ELSE i
  IN  IF k \in 1 .. Len(s) THEN RemoveAt(s, k) ELSE s

DisableNotActive(t) ==
  /\ At(t, "disable", "start") /\ extState[Top(t).uuid] # "ACTIVE"
  /\ Return(t)
  /\ UNCHANGED <<inputVars, managerVars>>

\* The extensions enabled later are disabled first; F are those that throw.
DisableCall(t) ==
  LET u == Top(t).uuid
      idx == IndexOf(extensionOrder, u)
      order == SubSeq(extensionOrder, idx + 1, Len(extensionOrder))
      stopped == Append(order, u)
      Calls(v) == Cardinality({i \in DOMAIN stopped : stopped[i] = v})
  IN  /\ At(t, "disable", "start") /\ extState[u] = "ACTIVE"
      /\ \E F \in SUBSET (Faulty \cap ToSet(stopped)) :
           extState' = [v \in Uuids |-> IF v \in F THEN "ERROR"
                                        ELSE IF v = u THEN "DEACTIVATING"
                                        ELSE extState[v]]
      /\ on' = [v \in Uuids |-> on[v] - Calls(v)]
      /\ Continue(t, [fn |-> "disable", pc |-> "rebase", uuid |-> u,
                      idx |-> idx, todo |-> order])
      /\ UNCHANGED <<inputVars, enabledExtensions, extensionOrder>>

\* Mutant: the extension enabled last is enabled again first.
RebaseCallLast(t) ==
  /\ At(t, "disable", "rebase") /\ Top(t).todo # <<>>
  /\ on' = [on EXCEPT ![Last(Top(t).todo)] = @ + 1]
  /\ Await(t, [Top(t) EXCEPT !.pc = "rebased"])
  /\ UNCHANGED <<inputVars, extState, enabledExtensions, extensionOrder>>

\* "Rebase": the others are enabled again, one after the other.
RebaseCall(t) ==
  /\ At(t, "disable", "rebase") /\ Top(t).todo # <<>>
  /\ on' = [on EXCEPT ![Head(Top(t).todo)] = @ + 1]
  /\ Await(t, [Top(t) EXCEPT !.pc = "rebased"])
  /\ UNCHANGED <<inputVars, extState, enabledExtensions, extensionOrder>>

RebaseDone(t) ==
  LET v == Head(Top(t).todo)
  IN  /\ At(t, "disable", "rebased")
      /\ \/ UNCHANGED extState
         \/ v \in Faulty /\ SetState(v, "ERROR")
      /\ Continue(t, [Top(t) EXCEPT !.pc = "rebase", !.todo = Tail(@)])
      /\ UNCHANGED <<inputVars, on, enabledExtensions, extensionOrder>>

DisableDone(t) ==
  LET u == Top(t).uuid
  IN  /\ At(t, "disable", "rebase") /\ Top(t).todo = <<>>
      /\ extensionOrder' = Splice(extensionOrder, Top(t).idx)
      /\ IF extState[u] = "ERROR" THEN UNCHANGED extState ELSE SetState(u, "INACTIVE")
      /\ Return(t)
      /\ UNCHANGED <<inputVars, on, enabledExtensions>>

-----------------------------------------------------------------------------
(* _onEnabledExtensionsChanged, _enableAllExtensions, _sessionUpdated      *)

\* The elements of s at the places in P, in order: the k-th comes from the place
\* with k such places up to it.
PlacesUpTo(P, i) == Cardinality({j \in P : j <= i})
Pick(s, P) ==
  [k \in 1 .. Cardinality(P) |-> s[CHOOSE i \in P : PlacesUpTo(P, i) = k]]

\* Array.filter: SelectSeq says the same, with recursion.
Filter(s, S) == Pick(s, {i \in DOMAIN s : s[i] \in S})

\* Every extension twice in a row: its place in the list of the mode and its place
\* in that of the user, once both are concatenated and sorted.
Candidates == [k \in 1 .. (2 * Len(Priority)) |-> Priority[(k + 1) \div 2]]

\* The k-th candidate is on its list, and not in disabled-extensions, which takes
\* precedence.
IsListed(k, sets, m) ==
  LET u == Candidates[k]
  IN  /\ sets[u] # "disabled"
      /\ IF k % 2 = 1 THEN u \in ModeExtensions[m] ELSE sets[u] = "enabled"

\* _getEnabledExtensions; an extension in both lists is there twice
GetEnabledExtensions(sets, m) ==
  Pick(Candidates, {k \in DOMAIN Candidates : IsListed(k, sets, m)})

\* The handler has read the new list and knows what to enable.
ChangedFrame(new, m) ==
  ListFrame("changed", "enable",
    Filter(new, {u \in Uuids : u \notin ToSet(enabledExtensions) /\ Supports(u, m)}),
    new)

\* changed::enabled-extensions and the like: _onEnabledExtensionsChanged starts
SettingsChange(t, sets) ==
  /\ thread = NoTask /\ stack[t] = <<>>
  /\ changes < MaxChanges /\ changes' = changes + 1
  /\ setting' = sets
  /\ wanted' = ToSet(GetEnabledExtensions(sets, mode))
  /\ stack' = [stack EXCEPT ![t] = <<ChangedFrame(GetEnabledExtensions(sets, mode), mode)>>]
  /\ thread' = t
  /\ UNCHANGED <<mode, managerVars>>

\* Main.sessionMode::updated: _sessionUpdated starts
SessionChange(t, m) ==
  /\ thread = NoTask /\ stack[t] = <<>>
  /\ changes < MaxChanges /\ changes' = changes + 1
  /\ m # mode /\ mode' = m
  /\ wanted' = ToSet(GetEnabledExtensions(setting, m))
  /\ stack' = [stack EXCEPT ![t] =
                 <<ChangedFrame(GetEnabledExtensions(setting, m), m),
                   ListFrame("enableAll", "start", <<>>, <<>>)>>]
  /\ thread' = t
  /\ UNCHANGED <<setting, managerVars>>

\* Calls the function fn for the next extension of the frame's list.
CallNext(t, fn) ==
  /\ Top(t).todo # <<>>
  /\ Call(t, [Top(t) EXCEPT !.todo = Tail(@)], Frame(fn, "start", Head(Top(t).todo)))
  /\ UNCHANGED <<inputVars, managerVars>>

ChangedEnableNext(t) == At(t, "changed", "enable") /\ CallNext(t, "enable")

\* Mutant: extensions that do not support the session mode stay enabled.
ToDisableBySetting(new) ==
  Filter(extensionOrder, {u \in Uuids : u \notin ToSet(new)})

\* extensionsToDisable, before the reversal
ToDisable(new) ==
  Filter(extensionOrder, {u \in Uuids : u \notin ToSet(new) \/ ~Supports(u, mode)})

\* All were enabled: the others are disabled, the last enabled one first.
ChangedEnabled(t) ==
  /\ At(t, "changed", "enable") /\ Top(t).todo = <<>>
  /\ Continue(t, [Top(t) EXCEPT !.pc = "disable", !.todo = Reverse(ToDisable(Top(t).new))])
  /\ UNCHANGED <<inputVars, managerVars>>

ChangedDisableNext(t) == At(t, "changed", "disable") /\ CallNext(t, "disable")

ChangedDone(t) ==
  /\ At(t, "changed", "disable") /\ Top(t).todo = <<>>
  /\ enabledExtensions' = Top(t).new
  /\ Return(t)
  /\ UNCHANGED <<inputVars, extState, on, extensionOrder>>

EnableAllStart(t) ==
  /\ At(t, "enableAll", "start")
  /\ Continue(t, ListFrame("enableAll", "enable", enabledExtensions, <<>>))
  /\ UNCHANGED <<inputVars, managerVars>>

EnableAllNext(t) == At(t, "enableAll", "enable") /\ CallNext(t, "enable")

EnableAllDone(t) ==
  /\ At(t, "enableAll", "enable") /\ Top(t).todo = <<>>
  /\ Return(t)
  /\ UNCHANGED <<inputVars, managerVars>>

-----------------------------------------------------------------------------
\* The extensions were loaded and the user has disabled them all.
Init ==
  /\ setting = [u \in Uuids |-> "disabled"] /\ wanted = {}
  /\ mode \in Modes /\ changes = 0
  /\ extState = [u \in Uuids |-> "INITIALIZED"]
  /\ on = [u \in Uuids |-> 0]
  /\ enabledExtensions = <<>> /\ extensionOrder = <<>>
  /\ stack = [t \in Tasks |-> <<>>] /\ thread = NoTask

\* A task goes on.
Step(t) ==
  \/ EnableUnsupported(t) \/ EnableInit(t) \/ InitDone(t)
  \/ EnableNotInactive(t) \/ EnableCall(t) \/ EnableDone(t)
  \/ DisableNotActive(t) \/ DisableCall(t)
  \/ RebaseCall(t) \/ RebaseDone(t) \/ DisableDone(t)
  \/ ChangedEnableNext(t) \/ ChangedEnabled(t) \/ ChangedDisableNext(t) \/ ChangedDone(t)
  \/ EnableAllStart(t) \/ EnableAllNext(t) \/ EnableAllDone(t)

Next ==
  \/ \E t \in Tasks : Step(t)
  \/ \E t \in Tasks, sets \in [Uuids -> Settings] : SettingsChange(t, sets)
  \/ \E t \in Tasks, m \in Modes : SessionChange(t, m)

Spec == Init /\ [][Next]_vars

-----------------------------------------------------------------------------
(* Properties.                                                             *)

\* Every variable stays in its type.
TypeOK ==
  /\ setting \in [Uuids -> Settings] /\ wanted \in SUBSET Uuids /\ mode \in Modes /\ changes \in 0 .. MaxChanges
  /\ extState \in [Uuids -> States]
  /\ on \in [Uuids -> Int]
  /\ ToSet(enabledExtensions) \subseteq Uuids
  /\ ToSet(extensionOrder) \subseteq Uuids
  /\ DOMAIN stack = Tasks
  /\ thread \in Tasks \cup {NoTask}

\* No handler is under way.
Settled == \A t \in Tasks : stack[t] = <<>>

\* Once the handlers are done, and unless its code threw, an extension runs
\* exactly if the settings want it and the session mode allows it; the order
\* lists the running ones, each once; every enable() was matched or is in force.
SettledMatchesSettings ==
  Settled =>
    /\ \A u \in Uuids : extState[u] # "ERROR" =>
         /\ extState[u] = "ACTIVE" <=> u \in wanted /\ Supports(u, mode)
         /\ extState[u] \in {"INITIALIZED", "INACTIVE", "ACTIVE"}
         /\ on[u] = IF extState[u] = "ACTIVE" THEN 1 ELSE 0
         /\ extState[u] = "ACTIVE" <=> u \in ToSet(extensionOrder)
    /\ IsInjective(extensionOrder)

\* Extensions are stacked: while one of the order runs, every one enabled before
\* it runs too, unless that one is being disabled or failed.  This is what the
\* rebasing of _callExtensionDisable is for.
Stacked ==
  \A i, j \in 1 .. Len(extensionOrder) :
    i < j /\ on[extensionOrder[j]] = 1 =>
      \/ on[extensionOrder[i]] = 1
      \/ extState[extensionOrder[i]] \in {"DEACTIVATING", "ERROR"}

\* The frames that are in the middle of enabling or disabling u.
InTransition(u) ==
  {t \in Tasks : \E i \in 1 .. Len(stack[t]) :
     /\ stack[t][i].fn \in {"enable", "disable"}
     /\ stack[t][i].pc \in {"enabling", "rebase", "rebased"}
     /\ stack[t][i].uuid = u}

\* One task at most is enabling or disabling u, and unless its code threw the
\* state says so: the state is the lock.
Lock(u) ==
  /\ \A s, t \in InTransition(u) : s = t
  /\ extState[u] \in {"ACTIVATING", "DEACTIVATING"} => InTransition(u) # {}
  /\ InTransition(u) # {} => extState[u] \in {"ACTIVATING", "DEACTIVATING", "ERROR"}

\* An import of u ends after that of another handler, which has gone on with u.
Overtaken(u) ==
  \E t \in Tasks : InitDone(t) /\ Top(t).uuid = u /\ extState[u] # "INITIALIZED"

\* However handlers overlap, the lock of an extension is lost in one way only: the
\* import is not under it, and of two handlers that import the same extension the
\* second resets the state the first went on from.
LockIsKept == [][\A u \in Uuids : Lock(u) /\ ~Lock(u)' => Overtaken(u)]_vars

-----------------------------------------------------------------------------
(* What comments of the file say and the code does not do.                 *)

\* _onEnabledExtensionsChanged: "Find and disable all the newly disabled
\* extensions: UUIDs found in the old setting, but not in the new one."
DisabledAreInactive ==
  Settled => \A u \in Uuids : extState[u] = "ACTIVE" => u \in wanted

=============================================================================
