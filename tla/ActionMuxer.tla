---------------------------- MODULE ActionMuxer ----------------------------
(* src/gtkactionmuxer.c with gtkactionobserver.c and gtkactionobservable.c: *)
(* a muxer shows the actions of several groups under prefixed names, those  *)
(* of its parent muxer too, and tells the observers of a name what happens  *)
(* to it.  Muxer "inner" may have "outer" as its parent.  An action of a    *)
(* group is absent or has a value (whether it is enabled, and its state).   *)
(* An emission calls its handlers before it returns, so that an operation   *)
(* with everything it tells is one step.                                    *)
EXTENDS Naturals

CONSTANTS
  MuxerPrefixes,   \* MuxerPrefixes[m]: the prefixes that muxer m is given
  GroupNames,      \* the action groups
  ActionNames,     \* their actions
  Observers,
  MaxWatchers,     \* how often an observer registers for one name
  MaxMuxerOps

MuxerNames == {"inner", "outer"}
Names == (UNION {MuxerPrefixes[m] : m \in MuxerNames}) \X ActionNames
NoAction == <<>>
Values == BOOLEAN \X BOOLEAN
NoGroup == "none"
NoWatchers == [n \in Names |-> [o \in Observers |-> 0]]

ASSUME MuxerAssumption == NoGroup \notin GroupNames

VARIABLES
  content,     \* content[g][a]
  muxer,       \* muxer[m]: its groups, and how often each observer watches each name
  parented,    \* the inner muxer has its parent
  told,        \* told[o][m][n]: what observer o last heard of name n from muxer m
  muxerOps

muxerVars == <<content, muxer, parented, told, muxerOps>>

HasParent(m, has) == m = "inner" /\ has

---------------------------------------------------------------------------
\* gtk_action_muxer_find_group(), gtk_action_muxer_query_action(): the group
\* with the prefix, else the parent.
QueryIn(mux, c, m, n) == IF n[1] \in MuxerPrefixes[m] /\ mux[m].groups[n[1]] # NoGroup
                         THEN <<c[mux[m].groups[n[1]]][n[2]]>> ELSE <<>>
QueryAction(mux, c, has, m, n) ==
  LET here == QueryIn(mux, c, m, n)
  IN IF here # <<>> THEN here[1]
     ELSE IF HasParent(m, has) /\ QueryIn(mux, c, "outer", n) # <<>>
          THEN QueryIn(mux, c, "outer", n)[1] ELSE NoAction
\* gtk_action_muxer_list_actions(): the names of its groups and of its parents.
ListActions(mux, c, m) ==
  {n \in MuxerPrefixes[m] \X ActionNames : mux[m].groups[n[1]] # NoGroup /\ c[mux[m].groups[n[1]]][n[2]] # NoAction}

\* gtk_action_muxer_action_added(), ..._removed(), ..._enabled_changed(),
\* ..._state_changed() for the names of a set: the watchers of each name are
\* told the value, then the muxer emits the signal, and the child that
\* is connected to it does the same.
Reached(has, m, from) == m = from \/ (from = "outer" /\ HasParent(m, has))
Watches(mux, m, n, o) == mux[m].watchers[n][o] > 0
Tell(t, mux, has, from, names, value) ==
  [o \in Observers |-> [m \in MuxerNames |-> [n \in Names |->
     IF n \in names /\ Reached(has, m, from) /\ Watches(mux, m, n, o) THEN value[n] ELSE t[o][m][n]]]]
TellRemoved(t, mux, has, from, names) == Tell(t, mux, has, from, names, [n \in names |-> NoAction])
TellAdded(t, mux, c, has, from, names) ==
  Tell(t, mux, has, from, names, [n \in names |-> QueryAction(mux, c, has, from, n)])

\* The names of muxer m that are actions of group g.
NamesOf(mux, m, g) == {n \in MuxerPrefixes[m] \X ActionNames : mux[m].groups[n[1]] = g}
MuxerOp == muxerOps < MaxMuxerOps /\ muxerOps' = muxerOps + 1

---------------------------------------------------------------------------
\* A group's own changes reach the muxers that hold it, in their four handlers.
GroupChanges(g, a, v) ==
  /\ MuxerOp /\ content[g][a] # v
  /\ content' = [content EXCEPT ![g][a] = v]
  /\ LET named(m) == {n \in NamesOf(muxer, m, g) : n[2] = a}
         value(m) == [n \in named(m) |-> v]
     IN told' = Tell(Tell(told, muxer, parented, "outer", named("outer"), value("outer")),
                     muxer, parented, "inner", named("inner"), value("inner"))
  /\ UNCHANGED <<muxer, parented>>

\* gtk_action_muxer_remove(): the group is taken out before its actions are
\* told of as removed.
Without(mux, m, p) == [mux EXCEPT ![m].groups[p] = NoGroup]
ToldOfRemoval(m, p) ==
  TellRemoved(told, Without(muxer, m, p), parented, m, {n \in ListActions(muxer, content, m) : n[1] = p})
RemovePrefix(m, p) ==
  /\ MuxerOp /\ p \in MuxerPrefixes[m] /\ muxer[m].groups[p] # NoGroup
  /\ muxer' = Without(muxer, m, p)
  /\ told' = ToldOfRemoval(m, p)
  /\ UNCHANGED <<content, parented>>

\* gtk_action_muxer_insert(): what has the prefix already is removed, then the
\* new actions are told of; the handlers of the group are connected last.
With(mux, m, p, g) == [mux EXCEPT ![m].groups[p] = g]
\* Mutant: the group of that prefix is replaced without being removed.
ToldOfInsertAlone(m, p, g) ==
  LET now == With(muxer, m, p, g)
  IN TellAdded(told, now, content, parented, m, {n \in ListActions(now, content, m) : n[1] = p})
ToldOfInsert(m, p, g) ==
  LET now == With(muxer, m, p, g)
  IN TellAdded(ToldOfRemoval(m, p), now, content, parented, m, {n \in ListActions(now, content, m) : n[1] = p})
InsertGroup(m, p, g) ==
  /\ MuxerOp /\ p \in MuxerPrefixes[m]
  /\ muxer' = With(muxer, m, p, g)
  /\ told' = ToldOfInsert(m, p, g)
  /\ UNCHANGED <<content, parented>>

\* gtk_action_muxer_set_parent(): the actions of the old parent are removed,
\* those of the new one added, for the watchers of the inner muxer only.
SetParent(has) ==
  /\ MuxerOp /\ parented # has /\ parented' = has
  /\ LET names == ListActions(muxer, content, "outer")
     IN told' = IF has THEN TellAdded(told, muxer, content, TRUE, "inner", names)
                ELSE TellRemoved(told, muxer, TRUE, "inner", names)
  /\ UNCHANGED <<content, muxer>>

\* gtk_action_muxer_register_observer(): the observer asks for the value itself,
\* as the muxer does not tell it.
RegisterObserver(m, n, o) ==
  /\ MuxerOp /\ muxer[m].watchers[n][o] < MaxWatchers
  /\ muxer' = [muxer EXCEPT ![m].watchers[n][o] = @ + 1]
  /\ told' = [told EXCEPT ![o][m][n] = QueryAction(muxer, content, parented, m, n)]
  /\ UNCHANGED <<content, parented>>
\* gtk_action_muxer_unregister_observer(): one registration of the observer.
UnregisterObserver(m, n, o) ==
  /\ MuxerOp /\ Watches(muxer, m, n, o)
  /\ muxer' = [muxer EXCEPT ![m].watchers[n][o] = @ - 1]
  /\ UNCHANGED <<content, parented, told>>
\* gtk_action_muxer_weak_notify(): every registration of an observer that dies.
ObserverDies(o) ==
  /\ MuxerOp /\ \E m \in MuxerNames, n \in Names : Watches(muxer, m, n, o)
  /\ muxer' = [m \in MuxerNames |-> [muxer[m] EXCEPT !.watchers =
                 [n \in Names |-> [@[n] EXCEPT ![o] = 0]]]]
  /\ UNCHANGED <<content, parented, told>>

\* gtk_action_muxer_dispose(): the inner muxer lets go of its parent and of
\* every observer; nobody is told.
Dispose ==
  /\ MuxerOp /\ parented' = FALSE
  /\ muxer' = [muxer EXCEPT !["inner"].watchers = NoWatchers]
  /\ UNCHANGED <<content, told>>

\* gtk_action_muxer_activate_action(), gtk_action_muxer_change_action_state():
\* the request goes to the group that the name is found in, whose new value
\* comes back as a change of the group.
ChangeActionState(m, n, enabled, state) ==
  LET group == IF n[1] \in MuxerPrefixes[m] THEN muxer[m].groups[n[1]] ELSE NoGroup
      up == IF HasParent(m, parented) /\ n[1] \in MuxerPrefixes["outer"] THEN muxer["outer"].groups[n[1]] ELSE NoGroup
      g == IF group # NoGroup THEN group ELSE up
  IN /\ g # NoGroup /\ content[g][n[2]] # NoAction
     /\ GroupChanges(g, n[2], <<enabled, state>>)

MuxerInit ==
  /\ content = [g \in GroupNames |-> [a \in ActionNames |-> NoAction]]
  /\ muxer = [m \in MuxerNames |-> [groups |-> [p \in MuxerPrefixes[m] |-> NoGroup], watchers |-> NoWatchers]]
  /\ parented = FALSE
  /\ told = [o \in Observers |-> [m \in MuxerNames |-> [n \in Names |-> NoAction]]]
  /\ muxerOps = 0
MuxerNext ==
  \/ \E g \in GroupNames, a \in ActionNames, v \in Values \cup {NoAction} : GroupChanges(g, a, v)
  \/ \E m \in MuxerNames : \E p \in UNION {MuxerPrefixes[k] : k \in MuxerNames} :
       RemovePrefix(m, p) \/ \E g \in GroupNames : InsertGroup(m, p, g)
  \/ \E has \in BOOLEAN : SetParent(has)
  \/ \E m \in MuxerNames, n \in Names, o \in Observers : RegisterObserver(m, n, o) \/ UnregisterObserver(m, n, o)
  \/ \E o \in Observers : ObserverDies(o)
  \/ Dispose
  \/ \E m \in MuxerNames, n \in Names, e \in BOOLEAN, s \in BOOLEAN : ChangeActionState(m, n, e, s)
MuxerSpec == MuxerInit /\ [][MuxerNext]_muxerVars

---------------------------------------------------------------------------
(* Properties *)

\* Where no prefix of the inner muxer hides one of its parent, every observer
\* holds of the name it watches what asking the muxer for it would answer: no
\* insertion, removal, change of a group or of the parent goes untold
\* (gtk_action_muxer_action_added() and its three companions).
ObserversAgree ==
  (MuxerPrefixes["inner"] \cap MuxerPrefixes["outer"] = {}) =>
  \A m \in MuxerNames, n \in Names, o \in Observers :
    Watches(muxer, m, n, o) => told[o][m][n] = QueryAction(muxer, content, parented, m, n)
=============================================================================
