---------------------------- MODULE CalendarServer --------------------------
(***************************************************************************)
(* The calendar server (calendar-server/gnome-shell-calendar-server.c and  *)
(* calendar-sources.c) and its reader in the shell, the DBusEventSource of *)
(* js/ui/calendar.js.  Threads connect to the calendars of the registry,   *)
(* views of them report events, and both sides talk over D-Bus, which      *)
(* keeps the order of each direction.  Calendars come and go, backends and *)
(* the server crash.  A recurring event is one of its instances.           *)
(***************************************************************************)
EXTENDS Integers, Sequences, FiniteSets, SequencesExt

CONSTANTS
  CalSources,    \* calendars the registry may hold
  Events,        \* the names of events within a calendar
  EventTimes,    \* pairs of start and end, in units of several seconds
  Ranges,        \* pairs of since and until the shell may ask for
  MaxCalOps      \* bound on what happens to the calendars, the server and the shell

ASSUME CalendarAssumption ==
  /\ IsFiniteSet(CalSources)
  /\ EventTimes \subseteq Int \X Int
  /\ Ranges \subseteq Int \X Int

VARIABLES
  registry,    \* the selected calendars of the registry
  diary,       \* the events of each calendar: a pair of times, or NoTime
  clients,     \* the calendars in the table of clients
  threads,     \* the connecting threads: [source, phase]
  server,      \* [up, range, views, told]: the App
  toServer, toShell,   \* messages on their way
  reader,      \* [waits, listens, ready, cur, last, events]: the DBusEventSource,
               \* whether its proxy is still being made and whether it has handlers
  calOps
calVars == <<registry, diary, clients, threads, server, toServer, toShell, reader, calOps>>

NoTime == <<>>
NoRange == <<0, 0>>
NoEvents == [x \in CalSources \X Events |-> NoTime]

---------------------------------------------------------------------------
(* The server                                                              *)

\* what occur-in-time-range? finds, and what app_notify_events_added() lets
\* through (a unit is more than the second that is taken from the end)
Overlaps(time, range) == time[1] < range[2] /\ (time[2] > range[1] \/ time[1] = range[1])
PassesFilter(time, range) ==
  \/ time[1] >= range[1] /\ time[1] < range[2]
  \/ time[1] <= range[1] /\ time[2] > range[1]

\* what a view should have reported of an event
Wanted(s, e, range) ==
  IF diary[s][e] # NoTime /\ Overlaps(diary[s][e], range) THEN diary[s][e] ELSE NoTime

\* app_start_view(), of a calendar that answers or not
NewView(s, range) == [source |-> s, range |-> range, dead |-> FALSE, reported |-> [e \in Events |-> NoTime]]
CanStart(range) == range[1] > 0 /\ range[1] < range[2]

\* app_notify_has_calendars() after a change of the views
NotifyHas(srv) == [srv EXCEPT !.told = srv.views # <<>>]
HasView(srv, s) == \E i \in DOMAIN srv.views : srv.views[i].source = s

\* on_client_appeared_cb()
ClientAppeared(srv, s, answers) ==
  IF HasView(srv, s) \/ ~CanStart(srv.range) \/ ~answers THEN srv
  ELSE LET more == [srv EXCEPT !.views = <<NewView(s, srv.range)>> \o @]
       IN IF Len(more.views) = 1 THEN NotifyHas(more) ELSE more

\* on_client_disappeared_cb(), of a calendar that has a view: the first found goes
ClientDisappeared(srv, s) ==
  LET found == CHOOSE i \in DOMAIN srv.views :
        srv.views[i].source = s /\ \A j \in 1 .. i - 1 : srv.views[j].source # s
      less == [srv EXCEPT !.views = RemoveAt(@, found)]
  IN IF less.views = <<>> THEN NotifyHas(less) ELSE less

\* app_update_views(), of the clients that answer
UpdateViews(srv, answering) ==
  LET views == IF CanStart(srv.range)
               THEN [i \in 1 .. Cardinality(answering) |-> NewView(SetToSeq(answering)[i], srv.range)]
               ELSE <<>>
      fresh == [srv EXCEPT !.views = views]
  IN IF (views # <<>>) # (srv.views # <<>>) THEN NotifyHas(fresh) ELSE fresh

\* Mutant: a forced reload of the same range does nothing.
ReloadsOnChange(srv, range, force) == srv.range # range
\* handle_method_call(): the views are made anew
Reloads(srv, range, force) == srv.range # range \/ force

FreshServer(up) == [up |-> up, range |-> NoRange, views |-> <<>>, told |-> FALSE]
Connect(s) == [source |-> s, phase |-> "started"]

---------------------------------------------------------------------------
(* The reader in the shell                                                 *)

ResetCache(r) == [r EXCEPT !.events = NoEvents, !.last = NoRange]
Asks(r) == r.ready /\ r.cur # NoRange
\* _loadEvents (true)
LoadEvents(r) == IF Asks(r) THEN [r EXCEPT !.events = NoEvents] ELSE r
SetTimeRangeCall(r) == IF Asks(r) THEN <<r.cur>> ELSE <<>>
OnNameAppeared(r) == LoadEvents([ResetCache(r) EXCEPT !.ready = TRUE])
Heard(r, m) ==
  CASE m.kind = "added" -> [r EXCEPT !.events[<<m.source, m.event>>] = m.time]
    [] m.kind = "removed" -> [r EXCEPT !.events[<<m.source, m.event>>] = NoTime]
    [] m.kind = "disappeared" -> [r EXCEPT !.events = [x \in DOMAIN @ |-> IF x[1] = m.source THEN NoTime ELSE @[x]]]
    [] m.kind = "vanished" -> ResetCache(r)
    [] m.kind = "appeared" -> OnNameAppeared(r)

\* _initProxy() goes on: handlers are connected unless it failed, and a proxy
\* that is there reads what it can.  Until then nobody hears the signals.
ProxyAnswers == {"loaded", "timedOut", "failed"}
Initialized(r, kind) ==
  CASE kind = "loaded" -> OnNameAppeared([r EXCEPT !.listens = TRUE])
    [] kind = "timedOut" -> [r EXCEPT !.listens = TRUE]
    [] kind = "failed" -> r
Received(r, m) ==
  IF m.kind \in ProxyAnswers THEN Initialized(r, m.kind) ELSE IF r.listens THEN Heard(r, m) ELSE r

---------------------------------------------------------------------------
Told(kind, s, e, time) == [kind |-> kind, source |-> s, event |-> e, time |-> time]
About(kind) == Told(kind, "none", "none", NoTime)
CalOp == calOps < MaxCalOps /\ calOps' = calOps + 1

\* the registry's watcher: a thread connects to a calendar that appears
SourceAppeared(s) ==
  /\ CalOp /\ s \notin registry /\ registry' = registry \cup {s}
  /\ threads' = IF server.up THEN Append(threads, Connect(s)) ELSE threads
  /\ UNCHANGED <<diary, clients, server, toServer, toShell, reader>>
SourceDisappeared(s) ==
  /\ CalOp /\ s \in registry /\ registry' = registry \ {s}
  /\ clients' = clients \ {s}
  /\ IF s \in clients /\ HasView(server, s)
     THEN /\ server' = ClientDisappeared(server, s)
          /\ toShell' = Append(toShell, Told("disappeared", s, "none", NoTime))
     ELSE UNCHANGED <<server, toShell>>
  /\ UNCHANGED <<diary, threads, toServer, reader>>
\* backend_died_cb(): the client goes, its view stays and reports no more
BackendDied(s) ==
  /\ CalOp /\ s \in clients /\ clients' = clients \ {s}
  /\ server' = [server EXCEPT !.views = [i \in DOMAIN @ |->
       IF @[i].source = s THEN [@[i] EXCEPT !.dead = TRUE] ELSE @[i]]]
  /\ UNCHANGED <<registry, diary, threads, toServer, toShell, reader>>

\* calendar_sources_connect_client_sync(), in a thread: the first look into
\* the table, the connection, the second look
ThreadLookup(n) ==
  /\ n \in DOMAIN threads /\ threads[n].phase = "started"
  /\ threads' = [threads EXCEPT ![n].phase = IF threads[n].source \in clients THEN "returned" ELSE "connecting"]
  /\ UNCHANGED <<registry, diary, clients, server, toServer, toShell, reader, calOps>>
ThreadConnected(n, connects) ==
  /\ n \in DOMAIN threads /\ threads[n].phase = "connecting"
  /\ threads' = IF connects THEN [threads EXCEPT ![n].phase = "returned"] ELSE RemoveAt(threads, n)
  /\ clients' = IF connects THEN clients \cup {threads[n].source} ELSE clients
  /\ UNCHANGED <<registry, diary, server, toServer, toShell, reader, calOps>>
\* calendar_sources_client_connected_cb(), on the main loop
ClientConnected(n, answers) ==
  /\ n \in DOMAIN threads /\ threads[n].phase = "returned"
  /\ threads' = RemoveAt(threads, n)
  /\ server' = ClientAppeared(server, threads[n].source, answers)
  /\ UNCHANGED <<registry, diary, clients, toServer, toShell, reader, calOps>>

SetTimeRange(answering) ==
  /\ server.up /\ toServer # <<>> /\ answering \subseteq clients
  /\ toServer' = Tail(toServer)
  /\ LET ranged == [server EXCEPT !.range = Head(toServer)]
     IN server' = IF Reloads(server, Head(toServer), TRUE) THEN UpdateViews(ranged, answering) ELSE ranged
  /\ UNCHANGED <<registry, diary, clients, threads, toShell, reader, calOps>>

\* a view reports an event that was added, modified or removed
ViewReports(i, e) ==
  /\ i \in DOMAIN server.views /\ ~server.views[i].dead
  /\ LET v == server.views[i]
         now == Wanted(v.source, e, v.range)
     IN /\ now # v.reported[e]
        /\ server' = [server EXCEPT !.views[i].reported[e] = now]
        /\ toShell' =
             IF now = NoTime THEN Append(toShell, Told("removed", v.source, e, NoTime))
             ELSE IF PassesFilter(now, server.range) THEN Append(toShell, Told("added", v.source, e, now))
             ELSE toShell
  /\ UNCHANGED <<registry, diary, clients, threads, toServer, reader, calOps>>

EventChanges(s, e, time) ==
  /\ CalOp /\ diary[s][e] # time /\ diary' = [diary EXCEPT ![s][e] = time]
  /\ UNCHANGED <<registry, clients, threads, server, toServer, toShell, reader>>

\* the process ends; D-Bus drops its calls and tells the shell
ServerCrashes ==
  /\ CalOp /\ server.up /\ server' = FreshServer(FALSE)
  /\ clients' = {} /\ threads' = <<>> /\ toServer' = <<>>
  /\ toShell' = Append(toShell, About("vanished"))
  /\ UNCHANGED <<registry, diary, reader>>
\* app_new() and the reclaim of the registry
ServerStarts ==
  /\ ~server.up /\ server' = FreshServer(TRUE)
  /\ threads' = [i \in 1 .. Cardinality(registry) |-> Connect(SetToSeq(registry)[i])]
  /\ toShell' = Append(toShell, About("appeared"))
  /\ UNCHANGED <<registry, diary, clients, toServer, reader, calOps>>

\* D-Bus answers the making of the proxy; it times out only for a server that did
\* not start
ProxyAnswered(kind) ==
  /\ reader.waits /\ reader' = [reader EXCEPT !.waits = FALSE]
  /\ kind = "timedOut" => ~server.up
  /\ toShell' = Append(toShell, About(kind))
  /\ UNCHANGED <<registry, diary, clients, threads, server, toServer, calOps>>
Receive ==
  /\ toShell # <<>> /\ toShell' = Tail(toShell)
  /\ reader' = Received(reader, Head(toShell))
  /\ toServer' = toServer \o (IF Head(toShell).kind \in {"appeared", "loaded"} /\ reader'.listens
                             THEN SetTimeRangeCall(reader') ELSE <<>>)
  /\ UNCHANGED <<registry, diary, clients, threads, server, calOps>>
RequestRange(range) ==
  /\ CalOp /\ range # reader.last
  /\ reader' = LoadEvents([reader EXCEPT !.last = range, !.cur = range])
  /\ toServer' = toServer \o SetTimeRangeCall(reader')
  /\ UNCHANGED <<registry, diary, clients, threads, server, toShell>>

---------------------------------------------------------------------------
CalInit ==
  /\ registry = CalSources
  /\ diary = [s \in CalSources |-> [e \in Events |-> NoTime]]
  /\ clients = {} /\ threads = <<>> /\ server = FreshServer(FALSE)
  /\ toServer = <<>> /\ toShell = <<>> /\ calOps = 0
  /\ reader = [waits |-> TRUE, listens |-> FALSE, ready |-> FALSE, cur |-> NoRange, last |-> NoRange, events |-> NoEvents]
CalNext ==
  \/ \E s \in CalSources : SourceAppeared(s)
  \/ \E s \in CalSources : SourceDisappeared(s)
  \/ \E s \in CalSources : BackendDied(s)
  \/ \E n \in 1 .. Cardinality(CalSources) + MaxCalOps : ThreadLookup(n)
  \/ \E n \in 1 .. Cardinality(CalSources) + MaxCalOps, connects \in BOOLEAN : ThreadConnected(n, connects)
  \/ \E n \in 1 .. Cardinality(CalSources) + MaxCalOps, answers \in BOOLEAN : ClientConnected(n, answers)
  \/ \E answering \in SUBSET CalSources : SetTimeRange(answering)
  \/ \E i \in 1 .. Cardinality(CalSources), e \in Events : ViewReports(i, e)
  \/ \E s \in CalSources, e \in Events, time \in EventTimes \cup {NoTime} : EventChanges(s, e, time)
  \/ ServerCrashes
  \/ ServerStarts
  \/ \E kind \in ProxyAnswers : ProxyAnswered(kind)
  \/ Receive
  \/ \E range \in Ranges : RequestRange(range)
CalSpec == CalInit /\ [][CalNext]_calVars

---------------------------------------------------------------------------
Delivered ==
  /\ toServer = <<>> /\ toShell = <<>>
  /\ \A i \in DOMAIN server.views, e \in Events :
       server.views[i].dead
         \/ server.views[i].reported[e] = Wanted(server.views[i].source, e, server.views[i].range)

(* However calendars, crashes, ranges and messages cross: a calendar has   *)
(* one view at most, of the range asked for last, the shell was told       *)
(* whether there are any, and once everything is delivered the shell has   *)
(* every event of a calendar that is viewed, at its present time           *)
(* (on_client_appeared_cb(), app_update_views() and _loadEvents()).        *)
NoEventIsMissed ==
  /\ \A i, j \in DOMAIN server.views : server.views[i].source = server.views[j].source => i = j
  /\ \A i \in DOMAIN server.views : server.views[i].range = server.range
  /\ server.told <=> server.views # <<>>
  /\ Delivered =>
       \A i \in DOMAIN server.views, e \in Events :
         LET v == server.views[i]
         IN v.dead \/ Wanted(v.source, e, v.range) \in {NoTime, reader.events[<<v.source, e>>]}

=============================================================================
