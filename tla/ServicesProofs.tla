--------------------------- MODULE ServicesProofs ---------------------------
(***************************************************************************)
(* Theorems about services of the shell, for any number of changes, reads, *)
(* cameras, surfaces, callers and calls, and for any tree of directories:  *)
(* the application cache implements the copy AppMirror promises, a running *)
(* camera is reported, screenshots leave nothing behind and keep their     *)
(* pixels, the last save has the file, the prompts of the keyring and the  *)
(* requests of NetworkManager are answered once and those of polkit in     *)
(* turn, the sniffer's answer is that of the whole medium, a closed dialog *)
(* owes nobody an answer, and observers of actions see what there is.      *)
(***************************************************************************)
EXTENDS AppCache, CameraMonitor, Screenshots, ScreenshotUI, GlobalState, KeyringPrompt, NetworkAgent, PolkitAgent, ActionMuxer,
        HotplugSniffer, SequenceTheorems, FunctionTheorems, FiniteSetTheorems, TLAPS

---------------------------------------------------------------------------
(* The application cache implements AppMirror.  What keeps an older set    *)
(* from following a newer one is that only the newest read is not          *)
(* cancelled, and that it read its files after the cache got what it has.  *)

\* What a read may have found; FoldLeft is not looked into.
FolderValues == {<<>>} \cup {LoadFolders(d) : d \in [1..FolderDirs -> [FolderNames -> Int]]}
CacheTasks ==
  [stage : {"queued", "apps", "read", "done"}, infos : Nat, folders : FolderValues, cancelled : BOOLEAN]

CacheTyped ==
  /\ desktops \in Nat /\ appInfos \in Nat /\ changes \in Nat
  /\ folderDirs \in [1..FolderDirs -> [FolderNames -> Int]]
  /\ tasks \in Seq(CacheTasks)

OnlyNewestCounts ==
  /\ appInfos <= desktops
  /\ \A i \in DOMAIN tasks :
       /\ tasks[i].infos <= desktops
       /\ i # Len(tasks) => tasks[i].cancelled
       /\ ~tasks[i].cancelled /\ tasks[i].stage \in {"apps", "read"} => appInfos <= tasks[i].infos

CacheInv == CacheTyped /\ OnlyNewestCounts

\* What a change of one read's record leaves of the others.
LEMMA TaskChanged ==
  ASSUME NEW i \in DOMAIN tasks, NEW t \in CacheTasks, CacheTyped, tasks' = [tasks EXCEPT ![i] = t]
  PROVE  /\ tasks' \in Seq(CacheTasks) /\ DOMAIN tasks' = DOMAIN tasks /\ Len(tasks') = Len(tasks)
         /\ tasks'[i] = t
         /\ \A j \in DOMAIN tasks : j # i => tasks'[j] = tasks[j]
<1>1. tasks \in Seq(CacheTasks)
  BY DEF CacheTyped
<1> QED BY <1>1

\* Every step of the cache keeps its invariant.
LEMMA CacheStep ==
  ASSUME CacheInv, [CacheNext]_cacheVars
  PROVE  CacheInv' /\ [Mirror!MirrorNext]_<<desktops, appInfos>>
<1> USE DEF Mirror!MirrorNext, Mirror!Install, Mirror!Publish
<1>0. /\ desktops \in Nat /\ appInfos \in Nat /\ changes \in Nat
      /\ folderDirs \in [1..FolderDirs -> [FolderNames -> Int]]
      /\ tasks \in Seq(CacheTasks) /\ appInfos <= desktops
  BY DEF CacheInv, CacheTyped, OnlyNewestCounts
<1>T. \A i \in DOMAIN tasks : tasks[i] \in CacheTasks
  BY <1>0
<1>I. \A i \in DOMAIN tasks :
        /\ tasks[i].infos <= desktops
        /\ i # Len(tasks) => tasks[i].cancelled
        /\ ~tasks[i].cancelled /\ tasks[i].stage \in {"apps", "read"} => appInfos <= tasks[i].infos
  BY DEF CacheInv, OnlyNewestCounts
<1>1. CASE InstallApp
  <2>1. /\ desktops' = desktops + 1 /\ changes' = changes + 1 /\ UNCHANGED <<appInfos, tasks, folderDirs>>
    BY <1>1 DEF InstallApp
  <2>2. CacheTyped'
    BY <1>0, <2>1 DEF CacheTyped
  <2>3. \A i \in DOMAIN tasks : tasks[i].infos \in Nat
    BY <1>T DEF CacheTasks
  <2>4. OnlyNewestCounts'
    BY <1>0, <1>I, <2>1, <2>3 DEF OnlyNewestCounts
  <2> QED BY <2>1, <2>2, <2>4 DEF CacheInv
<1>2. ASSUME NEW d \in 1..FolderDirs, NEW n \in FolderNames, NEW named \in BOOLEAN, ChangeFolder(d, n, named)
      PROVE  CacheInv' /\ UNCHANGED <<desktops, appInfos>>
  <2>1. /\ changes' = changes + 1 /\ UNCHANGED <<desktops, appInfos, tasks>>
        /\ folderDirs' = [folderDirs EXCEPT ![d][n] = IF named THEN changes' ELSE NoEntry]
    BY <1>2 DEF ChangeFolder
  <2>2. folderDirs' \in [1..FolderDirs -> [FolderNames -> Int]]
    BY <1>0, <2>1 DEF NoEntry
  <2>3. CacheTyped'
    BY <1>0, <2>1, <2>2 DEF CacheTyped
  <2>4. OnlyNewestCounts'
    BY <1>0, <1>I, <2>1 DEF OnlyNewestCounts
  <2> QED BY <2>1, <2>3, <2>4 DEF CacheInv
<1>3. CASE QueueUpdate \/ UNCHANGED cacheVars
  <2>1. UNCHANGED <<desktops, appInfos, changes, folderDirs, tasks>>
    BY <1>3 DEF QueueUpdate, cacheVars
  <2> QED BY <2>1 DEF CacheInv, CacheTyped, OnlyNewestCounts
<1>4. CASE DoUpdate
  <2> DEFINE old == [i \in DOMAIN tasks |-> [tasks[i] EXCEPT !.cancelled = TRUE]]
  <2>1. /\ UNCHANGED <<desktops, appInfos, changes, folderDirs>> /\ tasks' = Append(old, NewTask)
    BY <1>4 DEF DoUpdate
  <2>2. NewTask \in CacheTasks /\ NewTask.infos = 0 /\ NewTask.stage = "queued"
    BY DEF NewTask, CacheTasks, FolderValues
  <2>3. \A i \in DOMAIN tasks : /\ old[i] \in CacheTasks /\ old[i].cancelled = TRUE
                                /\ old[i].infos = tasks[i].infos
    BY <1>T DEF CacheTasks
  <2>4. old \in Seq(CacheTasks) /\ Len(old) = Len(tasks) /\ DOMAIN old = DOMAIN tasks
    BY <1>0, <2>3
  <2> HIDE DEF old
  <2>5. /\ tasks' \in Seq(CacheTasks) /\ Len(tasks') = Len(tasks) + 1 /\ Len(tasks) \in Nat
        /\ DOMAIN tasks = 1..Len(tasks) /\ DOMAIN tasks' = 1..(Len(tasks) + 1)
    BY <1>0, <2>1, <2>2, <2>4
  <2>6. /\ \A i \in 1..Len(tasks) : tasks'[i] = old[i]
        /\ tasks'[Len(tasks) + 1] = NewTask
    BY <1>0, <2>1, <2>2, <2>4
  <2>7. CacheTyped'
    BY <1>0, <2>1, <2>5 DEF CacheTyped
  <2>8. ASSUME NEW i \in DOMAIN tasks'
        PROVE  /\ tasks'[i].infos <= desktops
               /\ i # Len(tasks') => tasks'[i].cancelled
               /\ ~tasks'[i].cancelled /\ tasks'[i].stage \in {"apps", "read"} => appInfos <= tasks'[i].infos
    <3>1. CASE i = Len(tasks) + 1
      BY <1>0, <2>2, <2>5, <2>6, <3>1
    <3>2. CASE i \in DOMAIN tasks
      BY <1>I, <2>3, <2>5, <2>6, <3>2
    <3> QED BY <2>5, <3>1, <3>2
  <2>9. OnlyNewestCounts'
    BY <1>0, <2>1, <2>8 DEF OnlyNewestCounts
  <2> QED BY <2>1, <2>7, <2>9 DEF CacheInv
<1>5. ASSUME NEW i, ReadApps(i)
      PROVE  CacheInv' /\ UNCHANGED <<desktops, appInfos>>
  <2> DEFINE t == [[tasks[i] EXCEPT !.stage = "apps"] EXCEPT !.infos = desktops]
  <2>1. i \in DOMAIN tasks /\ UNCHANGED <<desktops, appInfos, changes, folderDirs>>
    BY <1>5 DEF ReadApps
  <2>2. /\ t \in CacheTasks /\ t.infos = desktops /\ t.cancelled = tasks[i].cancelled
    BY <1>0, <1>T, <2>1 DEF CacheTasks
  <2>3. tasks' = [tasks EXCEPT ![i] = t]
    BY <1>0, <1>5, <2>1 DEF ReadApps
  <2> HIDE DEF t
  <2>4. /\ tasks' \in Seq(CacheTasks) /\ DOMAIN tasks' = DOMAIN tasks /\ Len(tasks') = Len(tasks)
        /\ tasks'[i] = t
        /\ \A j \in DOMAIN tasks : j # i => tasks'[j] = tasks[j]
    BY <2>1, <2>2, <2>3, TaskChanged DEF CacheInv
  <2>5. CacheTyped'
    BY <1>0, <2>1, <2>4 DEF CacheTyped
  <2>6. OnlyNewestCounts'
    BY <1>0, <1>I, <2>1, <2>2, <2>4 DEF OnlyNewestCounts
  <2> QED BY <2>1, <2>5, <2>6 DEF CacheInv
<1>6. ASSUME NEW i, ReadFolders(i)
      PROVE  CacheInv' /\ UNCHANGED <<desktops, appInfos>>
  <2> DEFINE t == [[tasks[i] EXCEPT !.stage = "read"] EXCEPT !.folders = LoadFolders(folderDirs)]
  <2>1. i \in DOMAIN tasks /\ tasks[i].stage = "apps" /\ UNCHANGED <<desktops, appInfos, changes, folderDirs>>
    BY <1>6 DEF ReadFolders
  <2>2. LoadFolders(folderDirs) \in FolderValues
    BY <1>0 DEF FolderValues
  <2>3. /\ t \in CacheTasks /\ t.infos = tasks[i].infos /\ t.cancelled = tasks[i].cancelled
    BY <1>T, <2>1, <2>2 DEF CacheTasks
  <2>4. tasks' = [tasks EXCEPT ![i] = t]
    BY <1>0, <1>6, <2>1 DEF ReadFolders
  <2> HIDE DEF t
  <2>5. /\ tasks' \in Seq(CacheTasks) /\ DOMAIN tasks' = DOMAIN tasks /\ Len(tasks') = Len(tasks)
        /\ tasks'[i] = t
        /\ \A j \in DOMAIN tasks : j # i => tasks'[j] = tasks[j]
    BY <2>1, <2>3, <2>4, TaskChanged DEF CacheInv
  <2>6. CacheTyped'
    BY <1>0, <2>1, <2>5 DEF CacheTyped
  <2>7. OnlyNewestCounts'
    BY <1>0, <1>I, <2>1, <2>3, <2>5 DEF OnlyNewestCounts
  <2> QED BY <2>1, <2>6, <2>7 DEF CacheInv
<1>7. ASSUME NEW i, ApplyUpdate(i)
      PROVE  CacheInv' /\ desktops' = desktops /\ appInfos' \in appInfos..desktops
  <2> DEFINE t == [tasks[i] EXCEPT !.stage = "done"]
  <2>1. i \in DOMAIN tasks /\ tasks[i].stage = "read" /\ UNCHANGED <<desktops, changes, folderDirs>>
    BY <1>7 DEF ApplyUpdate
  <2>2. /\ t \in CacheTasks /\ t.infos = tasks[i].infos /\ t.cancelled = tasks[i].cancelled /\ t.stage = "done"
    BY <1>T, <2>1 DEF CacheTasks
  <2>3. tasks' = [tasks EXCEPT ![i] = t]
    BY <1>0, <1>7, <2>1 DEF ApplyUpdate
  <2> HIDE DEF t
  <2>4. /\ tasks' \in Seq(CacheTasks) /\ DOMAIN tasks' = DOMAIN tasks /\ Len(tasks') = Len(tasks)
        /\ tasks'[i] = t
        /\ \A j \in DOMAIN tasks : j # i => tasks'[j] = tasks[j]
    BY <2>1, <2>2, <2>3, TaskChanged DEF CacheInv
  <2>5. tasks[i].infos \in Nat
    BY <1>T, <2>1 DEF CacheTasks
  <2>6. CASE tasks[i].cancelled
    <3>1. appInfos' = appInfos
      BY <1>7, <2>6 DEF ApplyUpdate
    <3>2. CacheTyped' /\ OnlyNewestCounts'
      BY <1>0, <1>I, <2>1, <2>2, <2>4, <3>1 DEF CacheTyped, OnlyNewestCounts
    <3> QED BY <1>0, <2>1, <3>1, <3>2 DEF CacheInv
  <2>7. CASE ~tasks[i].cancelled
    <3>1. appInfos' = tasks[i].infos /\ i = Len(tasks)
      BY <1>7, <1>I, <2>1, <2>7 DEF ApplyUpdate
    <3>2. appInfos <= tasks[i].infos /\ tasks[i].infos <= desktops
      BY <1>I, <2>1, <2>7
    <3>3. CacheTyped'
      BY <1>0, <2>1, <2>4, <2>5, <3>1 DEF CacheTyped
    <3>4. \A j \in DOMAIN tasks : j # i => tasks[j].cancelled
      BY <1>I, <3>1
    <3>5. OnlyNewestCounts'
      BY <1>I, <2>1, <2>2, <2>4, <3>1, <3>2, <3>4 DEF OnlyNewestCounts
    <3> QED BY <1>0, <2>1, <2>5, <3>1, <3>2, <3>3, <3>5 DEF CacheInv
  <2> QED BY <2>6, <2>7
<1> QED BY <1>1, <1>2, <1>3, <1>4, <1>5, <1>6, <1>7 DEF CacheNext, DoUpdate, QueueUpdate, cacheVars

\* The cache is a copy of what is installed that lags behind and never goes
\* back, for any number of changes and of overlapping reads
\* (shell_app_cache_do_update(), apply_update_cb()).
THEOREM CacheIsAMirror == CacheSpec => CacheImplementsMirror
<1>1. CacheInit => CacheInv /\ Mirror!MirrorInit
  <2> SUFFICES ASSUME CacheInit PROVE CacheInv /\ Mirror!MirrorInit
    OBVIOUS
  <2>1. desktops = 0 /\ appInfos = 0 /\ changes = 0 /\ tasks = <<>>
    BY DEF CacheInit
  <2>2. folderDirs \in [1..FolderDirs -> [FolderNames -> Int]]
    BY DEF CacheInit, NoEntry, Unnamed
  <2> QED BY <2>1, <2>2 DEF CacheInv, CacheTyped, OnlyNewestCounts, Mirror!MirrorInit
<1>2. CacheInv /\ [CacheNext]_cacheVars => CacheInv' /\ [Mirror!MirrorNext]_<<desktops, appInfos>>
  BY CacheStep
<1> QED BY <1>1, <1>2, PTL DEF CacheSpec, CacheImplementsMirror, Mirror!MirrorSpec

---------------------------------------------------------------------------
(* The camera monitor.  Beyond CamerasAreReported: only known nodes run,   *)
(* none is known without a connection, and a report stands for nothing     *)
(* only while no timeout was ever started for it.                          *)

Cameras ==
  [nodes : SUBSET CameraNodes, running : SUBSET CameraNodes, inUse : BOOLEAN, disable : {"none", "armed", "fired"},
   reconnect : BOOLEAN, connected : BOOLEAN, stuck : BOOLEAN]
CameraKept(c) ==
  /\ c.running \subseteq c.nodes
  /\ ~c.connected => c.nodes = {} /\ ~c.inUse
  /\ c.stuck => c.disable = "none"
  /\ c.running # {} => c.inUse /\ c.disable = "none"
  /\ c.inUse => c.running # {} \/ c.disable = "armed" \/ c.stuck
  /\ c.disable = "armed" => c.inUse
  /\ c.reconnect => ~c.connected
CameraInv == camera \in Cameras /\ CameraKept(camera)

\* Every step of the camera monitor keeps its invariant.
LEMMA CameraStep ==
  ASSUME CameraInv, [CameraNext]_cameraVars
  PROVE  CameraInv'
<1>0. camera \in Cameras /\ CameraKept(camera)
  BY DEF CameraInv
<1> DEFINE d == camera'
<1> SUFFICES d \in Cameras /\ CameraKept(d)
  BY DEF CameraInv, Cameras, CameraKept
<1>1. ASSUME NEW n \in CameraNodes, NodeAppears(n)
      PROVE  d \in Cameras /\ CameraKept(d)
  <2>1. camera.connected /\ d = [camera EXCEPT !.nodes = @ \cup {n}]
    BY <1>1 DEF NodeAppears, PipeWireTells
  <2>2. d \in Cameras
    BY <1>0, <2>1 DEF Cameras
  <2>3. CameraKept(d)
    BY <1>0, <2>1 DEF Cameras, CameraKept
  <2> QED BY <2>2, <2>3
<1>2. ASSUME NEW n \in CameraNodes, NodeRemoved(n)
      PROVE  d \in Cameras /\ CameraKept(d)
  <2> DEFINE st == camera.stuck \/ (camera.running = {n} /\ camera.disable = "none")
  <2>1. d = [camera EXCEPT !.nodes = @ \ {n}, !.running = @ \ {n}, !.stuck = st]
    BY <1>2 DEF NodeRemoved, PipeWireTells
  <2>2. st \in BOOLEAN
    OBVIOUS
  <2>3. d \in Cameras
    BY <1>0, <2>1, <2>2 DEF Cameras
  <2>4. /\ d.nodes = camera.nodes \ {n} /\ d.running = camera.running \ {n}
        /\ d.inUse = camera.inUse /\ d.disable = camera.disable
        /\ d.reconnect = camera.reconnect /\ d.connected = camera.connected
    BY <1>0, <2>1 DEF Cameras
  <2>5. d.stuck = st
    BY <1>0, <2>1 DEF Cameras
  <2> HIDE DEF d
  <2>6. CameraKept(d)
    BY <1>0, <2>4, <2>5 DEF CameraKept
  <2> QED BY <2>3, <2>6
<1>3. ASSUME NEW n \in CameraNodes, NEW runs \in BOOLEAN, NodeEventInfo(n, runs)
      PROVE  d \in Cameras /\ CameraKept(d)
  <2> DEFINE r == IF runs THEN camera.running \cup {n} ELSE camera.running \ {n}
             c == [camera EXCEPT !.running = r]
             dis == CASE c.running # {} -> "none"
                      [] c.running = {} /\ c.inUse /\ c.disable = "none" -> "armed"
                      [] OTHER -> c.disable
             use == c.inUse \/ c.running # {}
  <2>1. /\ n \in camera.nodes
        /\ d = [c EXCEPT !.inUse = use, !.stuck = FALSE, !.disable = dis]
    BY <1>3 DEF NodeEventInfo, PipeWireTells, CameraUpdateState
  <2>2. r \in SUBSET CameraNodes
    BY <1>0 DEF Cameras
  <2>3. r \subseteq camera.nodes
    BY <1>0, <2>1 DEF CameraKept
  <2> HIDE DEF r
  <2>4. /\ c \in Cameras /\ c.running = r /\ c.nodes = camera.nodes /\ c.inUse = camera.inUse
        /\ c.disable = camera.disable /\ c.reconnect = camera.reconnect /\ c.connected = camera.connected
    BY <1>0, <2>2 DEF Cameras
  <2> HIDE DEF c
  <2>5. use \in BOOLEAN /\ dis \in {"none", "armed", "fired"}
    BY <2>4 DEF Cameras
  <2>6. /\ dis = "none" <=> r # {} \/ (~c.inUse /\ c.disable = "none")
        /\ dis = "armed" <=> r = {} /\ (c.disable = "armed" \/ (c.inUse /\ c.disable = "none"))
    BY <2>4
  <2>7. use <=> c.inUse \/ r # {}
    BY <2>4
  <2> HIDE DEF use, dis
  <2>8. d \in Cameras /\ d.inUse = use /\ d.stuck = FALSE /\ d.disable = dis /\ d.running = r /\ d.nodes = c.nodes
        /\ d.reconnect = c.reconnect /\ d.connected = c.connected
    BY <2>1, <2>4, <2>5 DEF Cameras
  <2> HIDE DEF d
  <2>9. CameraKept(d)
    <3>1. camera.connected
      BY <1>0, <2>1 DEF CameraKept
    <3>2. camera.inUse => camera.running # {} \/ camera.disable = "armed" \/ camera.disable = "none"
      BY <1>0 DEF CameraKept
    <3>3. camera.running # {} => camera.disable = "none"
      BY <1>0 DEF CameraKept
    <3>4. camera.disable = "armed" => camera.inUse
      BY <1>0 DEF CameraKept
    <3>5. ~camera.reconnect
      BY <1>0, <3>1 DEF CameraKept
    <3>6. d.connected /\ ~d.reconnect /\ ~d.stuck /\ (d.inUse <=> camera.inUse \/ r # {})
      BY Zenon, <2>4, <2>7, <2>8, <3>1, <3>5
    <3>7. /\ d.disable = "none" <=> r # {} \/ (~camera.inUse /\ camera.disable = "none")
          /\ d.disable = "armed" <=> r = {} /\ (camera.disable = "armed" \/ (camera.inUse /\ camera.disable = "none"))
      BY Zenon, <2>4, <2>6, <2>8
    <3>8. d.running \subseteq d.nodes /\ d.running = r
      BY <2>3, <2>4, <2>8
    <3> QED BY Zenon, <3>2, <3>3, <3>4, <3>6, <3>7, <3>8 DEF CameraKept
  <2> QED BY <2>8, <2>9
<1>4. CASE OnCoreError
  <2>1. d = [DisconnectCore(camera) EXCEPT !.inUse = FALSE, !.reconnect = TRUE]
    BY <1>4 DEF OnCoreError, PipeWireTells
  <2>2. /\ d \in Cameras /\ d.running = {} /\ d.nodes = {} /\ d.inUse = FALSE /\ d.disable = "none"
        /\ d.stuck = FALSE /\ d.connected = FALSE
    BY <1>0, <2>1 DEF DisconnectCore, Cameras
  <2> QED BY <2>2 DEF CameraKept
<1>5. CASE DelayedDisableState
  <2>1. /\ camera.disable = "armed" /\ d = [camera EXCEPT !.inUse = FALSE, !.disable = "fired"]
    BY <1>5 DEF DelayedDisableState
  <2>2. /\ d \in Cameras /\ d.running = camera.running /\ d.nodes = camera.nodes /\ d.inUse = FALSE
        /\ d.disable = "fired" /\ d.stuck = camera.stuck /\ d.connected = camera.connected
        /\ d.reconnect = camera.reconnect
    BY <1>0, <2>1 DEF Cameras
  <2> HIDE DEF d
  <2> QED BY <1>0, <2>1, <2>2 DEF CameraKept
<1>6. ASSUME NEW connects \in BOOLEAN, IdleReconnect(connects)
      PROVE  d \in Cameras /\ CameraKept(d)
  <2>1. camera.reconnect /\ d = [camera EXCEPT !.connected = connects, !.reconnect = ~connects]
    BY <1>6 DEF IdleReconnect
  <2>2. /\ d \in Cameras /\ d.running = camera.running /\ d.nodes = camera.nodes /\ d.inUse = camera.inUse
        /\ d.disable = camera.disable /\ d.stuck = camera.stuck
    BY <1>0, <2>1 DEF Cameras
  <2>3. d.connected = connects /\ d.reconnect = ~connects
    BY <1>0, <2>1 DEF Cameras
  <2> HIDE DEF d
  <2>4. CameraKept(d)
    BY <1>0, <2>1, <2>2, <2>3 DEF CameraKept
  <2> QED BY <2>2, <2>4
<1>7. CASE UNCHANGED cameraVars
  BY <1>0, <1>7 DEF cameraVars
<1> QED BY <1>1, <1>2, <1>3, <1>4, <1>5, <1>6, <1>7 DEF CameraNext

\* With any cameras and any number of events, a running camera is reported
\* and a report that stands has a reason (shell_camera_monitor_update_state(),
\* delayed_disable_state(), on_core_error()).
THEOREM RunningCamerasAreReported == CameraSpec => []CamerasAreReported
<1>1. CameraInit => CameraInv
  <2> SUFFICES ASSUME NEW connects \in BOOLEAN,
                      camera = [nodes |-> {}, running |-> {}, inUse |-> FALSE, disable |-> "none",
                                reconnect |-> FALSE, connected |-> connects, stuck |-> FALSE]
               PROVE  CameraInv
    BY DEF CameraInit
  <2> QED BY DEF CameraInv, Cameras, CameraKept
<1>2. CameraInv /\ [CameraNext]_cameraVars => CameraInv'
  BY CameraStep
<1>3. CameraInv => CamerasAreReported
  BY DEF CameraInv, CameraKept, CamerasAreReported
<1> QED BY <1>1, <1>2, <1>3, PTL DEF CameraSpec

---------------------------------------------------------------------------
(* Screenshots.  The object of a caller must belong to a call of that very *)
(* caller that is past its check: else the end of one call could leave the *)
(* object of another, or an object could be taken for a call that is then  *)
(* denied.  Everything is said of a state s of the service's operators.    *)

Answers == {"success", "color", "failure", "error", "busy", "denied"}
Phases == {"checking", "painting", "picking", "writing", "written", "done"}
Calls == [caller : Callers, kind : Kinds, flash : {"wanted", "running", "none"}, phase : Phases,
          wrote : BOOLEAN, answers : Seq(Answers)]
States == [calls : Seq(Calls), shooter : [Callers -> Nat], unredirect : Int, threw : BOOLEAN]

PaintingCalls(cs) == {n \in DOMAIN cs : cs[n].phase = "painting"}
Balanced(s) == s.unredirect = Cardinality(PaintingCalls(s.calls))
\* the objects, but that the one of call n may be early or late
OwnedBut(s, n) ==
  \A c \in Callers : s.shooter[c] # NoShooter =>
    /\ s.shooter[c] \in DOMAIN s.calls /\ s.calls[s.shooter[c]].caller = c
    /\ s.shooter[c] = n \/ s.calls[s.shooter[c]].phase \notin {"checking", "done"}
Nearly(s, n) == s \in States /\ n \in DOMAIN s.calls /\ OwnedBut(s, n) /\ Balanced(s)
Clean(s) == s \in States /\ OwnedBut(s, NoShooter) /\ Balanced(s)
CleanUnlessThrown(s) == s.threw # TRUE => Clean(s)

\* The calls that wait for a frame can be counted.
LEMMA PaintingFinite ==
  ASSUME NEW cs \in Seq(Calls)
  PROVE  IsFiniteSet(PaintingCalls(cs)) /\ Cardinality(PaintingCalls(cs)) \in Nat
<1>1. DOMAIN cs = 1..Len(cs) /\ Len(cs) \in Nat
  OBVIOUS
<1>2. IsFiniteSet(1..Len(cs))
  BY <1>1, FS_Interval
<1>3. PaintingCalls(cs) \subseteq 1..Len(cs)
  BY <1>1 DEF PaintingCalls
<1>4. IsFiniteSet(PaintingCalls(cs))
  BY <1>2, <1>3, FS_Subset
<1> QED BY <1>4, FS_CardinalityType

\* How the number of calls that wait for a paint follows one call.
LEMMA PaintingFollows ==
  ASSUME NEW cs \in Seq(Calls), NEW n \in DOMAIN cs, NEW one \in Calls
  PROVE  LET ds == [cs EXCEPT ![n] = one]
         IN /\ ds \in Seq(Calls) /\ DOMAIN ds = DOMAIN cs /\ Len(ds) = Len(cs) /\ ds[n] = one
            /\ \A m \in DOMAIN cs : m # n => ds[m] = cs[m]
            /\ Cardinality(PaintingCalls(ds)) =
                 Cardinality(PaintingCalls(cs)) + (IF one.phase = "painting" THEN 1 ELSE 0)
                                                - (IF cs[n].phase = "painting" THEN 1 ELSE 0)
<1> DEFINE ds == [cs EXCEPT ![n] = one]
           P == PaintingCalls(cs)
           Q == PaintingCalls(ds)
<1>1. /\ ds \in Seq(Calls) /\ DOMAIN ds = DOMAIN cs /\ Len(ds) = Len(cs) /\ ds[n] = one
      /\ \A m \in DOMAIN cs : m # n => ds[m] = cs[m]
  OBVIOUS
<1> HIDE DEF ds
<1>2. IsFiniteSet(P) /\ Cardinality(P) \in Nat
  BY PaintingFinite
<1>3. IsFiniteSet(Q) /\ Cardinality(Q) \in Nat
  BY <1>1, PaintingFinite
<1>4. /\ n \in P <=> cs[n].phase = "painting"
      /\ n \in Q <=> one.phase = "painting"
      /\ \A m : m # n => (m \in P <=> m \in Q)
  BY <1>1 DEF PaintingCalls
<1> HIDE DEF P, Q
<1>5. CASE n \in P /\ n \notin Q
  <2>1. Q = P \ {n}
    BY <1>4, <1>5
  <2>2. Cardinality(P \ {n}) = Cardinality(P) - 1
    BY <1>2, <1>5, FS_RemoveElement
  <2>3. Cardinality(Q) = Cardinality(P) - 1
    BY <2>1, <2>2
  <2> QED BY <1>1, <1>2, <1>4, <1>5, <2>3 DEF ds, P, Q
<1>6. CASE n \notin P /\ n \in Q
  <2>1. Q = P \cup {n}
    BY <1>4, <1>6
  <2>2. Cardinality(P \cup {n}) = Cardinality(P) + 1
    BY <1>2, <1>6, FS_AddElement
  <2>3. Cardinality(Q) = Cardinality(P) + 1
    BY <2>1, <2>2
  <2> QED BY <1>1, <1>2, <1>4, <1>6, <2>3 DEF ds, P, Q
<1>7. CASE n \in P <=> n \in Q
  <2>0. \A m : m \in P <=> m \in Q
    BY <1>4, <1>7
  <2>1. Q = P
    BY <2>0
  <2> QED BY <1>1, <1>2, <1>4, <1>7, <2>1 DEF ds, P, Q
<1> QED BY <1>5, <1>6, <1>7

\* A call that goes on, with its object or without.
LEMMA CallGoesOn ==
  ASSUME NEW s, NEW n, Nearly(s, n), NEW t \in States, NEW one \in Calls,
         t.calls = [s.calls EXCEPT ![n] = one], t.shooter = s.shooter,
         one.caller = s.calls[n].caller,
         one.phase \notin {"checking", "done"},
         t.unredirect = s.unredirect + (IF one.phase = "painting" THEN 1 ELSE 0)
                                     - (IF s.calls[n].phase = "painting" THEN 1 ELSE 0)
  PROVE  Clean(t)
<1>1. s \in States /\ n \in DOMAIN s.calls /\ OwnedBut(s, n) /\ Balanced(s)
  BY DEF Nearly
<1>2. s.calls \in Seq(Calls) /\ s.shooter \in [Callers -> Nat]
  BY <1>1 DEF States
<1>3. /\ DOMAIN t.calls = DOMAIN s.calls /\ t.calls[n] = one
      /\ \A m \in DOMAIN s.calls : m # n => t.calls[m] = s.calls[m]
      /\ Cardinality(PaintingCalls(t.calls)) =
           Cardinality(PaintingCalls(s.calls)) + (IF one.phase = "painting" THEN 1 ELSE 0)
                                             - (IF s.calls[n].phase = "painting" THEN 1 ELSE 0)
  BY <1>1, <1>2, PaintingFollows
<1>4. Balanced(t)
  BY <1>1, <1>3 DEF Balanced
<1>5. OwnedBut(t, NoShooter)
  BY <1>1, <1>2, <1>3 DEF OwnedBut
<1> QED BY <1>4, <1>5 DEF Clean

\* A call that ends, and whose caller's object goes, or which had none.
LEMMA CallEnds ==
  ASSUME NEW s, NEW n, Nearly(s, n), NEW t \in States, NEW one \in Calls,
         t.calls = [s.calls EXCEPT ![n] = one], t.unredirect = s.unredirect,
         one.caller = s.calls[n].caller, one.phase = "done", s.calls[n].phase # "painting",
         \A c \in Callers : c # one.caller => t.shooter[c] = s.shooter[c],
         t.shooter[one.caller] = NoShooter \/ (t.shooter = s.shooter /\ s.shooter[one.caller] # n)
  PROVE  Clean(t)
<1>1. s \in States /\ n \in DOMAIN s.calls /\ OwnedBut(s, n) /\ Balanced(s)
  BY DEF Nearly
<1>2. s.calls \in Seq(Calls) /\ s.shooter \in [Callers -> Nat] /\ s.unredirect \in Int
  BY <1>1 DEF States
<1>3. /\ DOMAIN t.calls = DOMAIN s.calls /\ t.calls[n] = one
      /\ \A m \in DOMAIN s.calls : m # n => t.calls[m] = s.calls[m]
      /\ Cardinality(PaintingCalls(t.calls)) =
           Cardinality(PaintingCalls(s.calls)) + (IF one.phase = "painting" THEN 1 ELSE 0)
                                             - (IF s.calls[n].phase = "painting" THEN 1 ELSE 0)
  BY <1>1, <1>2, PaintingFollows
<1>4. Balanced(t)
  BY <1>1, <1>2, <1>3 DEF Balanced
<1>5. ASSUME NEW c \in Callers, t.shooter[c] # NoShooter
      PROVE  /\ t.shooter[c] \in DOMAIN t.calls /\ t.calls[t.shooter[c]].caller = c
             /\ t.calls[t.shooter[c]].phase \notin {"checking", "done"}
  <2>1. t.shooter[c] = s.shooter[c]
    BY <1>5
  <2>2. s.shooter[c] # n
    BY <1>1, <1>5, <2>1 DEF OwnedBut
  <2> QED BY <1>1, <1>3, <1>5, <2>1, <2>2 DEF OwnedBut
<1>6. OwnedBut(t, NoShooter)
  BY <1>5 DEF OwnedBut
<1> QED BY <1>4, <1>6 DEF Clean

\* A call that is under way, and one that has just got its caller's object.
LEMMA CleanIsNearly ==
  ASSUME NEW s, Clean(s), NEW n \in DOMAIN s.calls
  PROVE  /\ Nearly(s, n)
         /\ Nearly([s EXCEPT !.shooter[s.calls[n].caller] = n], n)
<1>1. s \in States /\ OwnedBut(s, NoShooter) /\ Balanced(s)
  BY DEF Clean
<1>2. s.calls \in Seq(Calls) /\ s.shooter \in [Callers -> Nat]
  BY <1>1 DEF States
<1>3. s.calls[n] \in Calls /\ n \in Nat \ {0}
  BY <1>2
<1>4. s.calls[n].caller \in Callers
  BY <1>3 DEF Calls
<1>5. Nearly(s, n)
  BY <1>1 DEF Nearly, OwnedBut, NoShooter
<1> DEFINE t == [s EXCEPT !.shooter[s.calls[n].caller] = n]
<1>6. /\ t \in States /\ t.calls = s.calls /\ t.unredirect = s.unredirect
      /\ t.shooter = [s.shooter EXCEPT ![s.calls[n].caller] = n]
  BY <1>1, <1>2, <1>3, <1>4 DEF States
<1> HIDE DEF t
<1>7. Balanced(t)
  BY <1>1, <1>6 DEF Balanced
<1>8. OwnedBut(t, n)
  BY <1>1, <1>2, <1>3, <1>4, <1>6 DEF OwnedBut, NoShooter
<1>9. Nearly(t, n)
  BY <1>6, <1>7, <1>8 DEF Nearly
<1> QED BY <1>5, <1>9 DEF t

\* t is s but for call n, which keeps its caller and is in phase p.
Moved(s, t, n, p) ==
  /\ t \in States /\ t.shooter = s.shooter /\ t.calls[n] \in Calls
  /\ t.calls = [s.calls EXCEPT ![n] = t.calls[n]]
  /\ t.calls[n].caller = s.calls[n].caller /\ t.calls[n].phase = p

\* A new phase is all that changes.
LEMMA PhaseMoves ==
  ASSUME NEW s \in States, NEW n \in DOMAIN s.calls, NEW p \in Phases
  PROVE  LET t == [s EXCEPT !.calls[n].phase = p]
         IN Moved(s, t, n, p) /\ t.unredirect = s.unredirect /\ t.threw = s.threw
<1> DEFINE t == [s EXCEPT !.calls[n].phase = p]
           one == [s.calls[n] EXCEPT !.phase = p]
<1>1. s.calls \in Seq(Calls)
  BY DEF States
<1>2. s.calls[n] \in Calls
  BY <1>1
<1>3. one \in Calls /\ one.caller = s.calls[n].caller /\ one.phase = p
  BY <1>2 DEF Calls
<1>4. t = [s EXCEPT !.calls = [s.calls EXCEPT ![n] = one]]
  BY <1>1 DEF States
<1> HIDE DEF one
<1>5. [s.calls EXCEPT ![n] = one] \in Seq(Calls) /\ [s.calls EXCEPT ![n] = one][n] = one
  BY <1>1, <1>3
<1> DEFINE cs == [s.calls EXCEPT ![n] = one]
<1> HIDE DEF t
<1>6. t = [s EXCEPT !.calls = cs] /\ cs \in Seq(Calls) /\ cs[n] = one /\ cs = [s.calls EXCEPT ![n] = one]
  BY <1>4, <1>5
<1> HIDE DEF cs
<1>7. /\ t \in States /\ t.calls = cs /\ t.shooter = s.shooter
      /\ t.unredirect = s.unredirect /\ t.threw = s.threw
  BY <1>6 DEF States
<1> QED BY <1>3, <1>6, <1>7 DEF Moved, t

\* A flash that starts moves the call to no other phase.
LEMMA ShotTakenMoves ==
  ASSUME NEW s \in States, NEW n \in DOMAIN s.calls
  PROVE  LET t == ShotTaken(s, n)
         IN Moved(s, t, n, s.calls[n].phase) /\ t.unredirect = s.unredirect /\ t.threw = s.threw
<1> DEFINE t == ShotTaken(s, n)
           f == IF s.calls[n].flash = "wanted" THEN "running" ELSE s.calls[n].flash
           one == [s.calls[n] EXCEPT !.flash = f]
<1>1. s.calls \in Seq(Calls)
  BY DEF States
<1>2. s.calls[n] \in Calls
  BY <1>1
<1>3. one \in Calls /\ one.caller = s.calls[n].caller /\ one.phase = s.calls[n].phase
  BY <1>2 DEF Calls
<1>4. t = [s EXCEPT !.calls = [s.calls EXCEPT ![n] = one]]
  BY <1>1 DEF States, ShotTaken
<1> HIDE DEF one
<1>5. [s.calls EXCEPT ![n] = one] \in Seq(Calls) /\ [s.calls EXCEPT ![n] = one][n] = one
  BY <1>1, <1>3
<1> DEFINE cs == [s.calls EXCEPT ![n] = one]
<1> HIDE DEF t
<1>6. t = [s EXCEPT !.calls = cs] /\ cs \in Seq(Calls) /\ cs[n] = one /\ cs = [s.calls EXCEPT ![n] = one]
  BY <1>4, <1>5
<1> HIDE DEF cs
<1>7. /\ t \in States /\ t.calls = cs /\ t.shooter = s.shooter
      /\ t.unredirect = s.unredirect /\ t.threw = s.threw
  BY <1>6 DEF States
<1> QED BY <1>3, <1>6, <1>7 DEF Moved, t

\* Two moves of one call are one move.
LEMMA MovesCompose ==
  ASSUME NEW s \in States, NEW n \in DOMAIN s.calls, NEW t, NEW u, NEW p, NEW q,
         Moved(s, t, n, p), Moved(t, u, n, q)
  PROVE  Moved(s, u, n, q)
<1>1. s.calls \in Seq(Calls)
  BY DEF States
<1>2. t.calls = [s.calls EXCEPT ![n] = t.calls[n]] /\ u.calls = [t.calls EXCEPT ![n] = u.calls[n]]
  BY DEF Moved
<1>3. u.calls = [s.calls EXCEPT ![n] = u.calls[n]]
  BY <1>1, <1>2
<1> QED BY <1>3 DEF Moved

\* do_grab_screenshot() and grab_screenshot(): the image is being written, or
\* there was none.
LEMMA GrabMoves ==
  ASSUME NEW s \in States, NEW n \in DOMAIN s.calls, NEW paints \in BOOLEAN,
         GrabScreenshot(s, n, paints).threw # TRUE
  PROVE  LET t == GrabScreenshot(s, n, paints)
         IN Moved(s, t, n, "writing") /\ t.unredirect = s.unredirect
<1> DEFINE g == DoGrab(s, n, paints)
<1>1. CASE ~paints
  <2>1. g = [s EXCEPT !.threw = TRUE]
    BY <1>1 DEF DoGrab
  <2>2. g \in States /\ g.threw = TRUE /\ g.calls = s.calls
    BY <2>1 DEF States
  <2> HIDE DEF g
  <2>3. ShotTaken(g, n).threw = TRUE
    BY <2>2, ShotTakenMoves
  <2> QED BY <2>3 DEF GrabScreenshot, g
<1>2. CASE paints
  <2>1. g = [s EXCEPT !.calls[n].phase = "writing"]
    BY <1>2 DEF DoGrab
  <2>2. "writing" \in Phases
    BY DEF Phases
  <2> HIDE DEF g
  <2>3. Moved(s, g, n, "writing") /\ g.unredirect = s.unredirect
    BY <2>1, <2>2, PhaseMoves
  <2>4. g \in States /\ n \in DOMAIN g.calls /\ g.calls[n].phase = "writing"
    <3>1. DOMAIN g.calls = DOMAIN [s.calls EXCEPT ![n] = g.calls[n]]
      BY <2>3 DEF Moved
    <3>2. s.calls \in Seq(Calls)
      BY DEF States
    <3> QED BY <2>3, <3>1, <3>2 DEF Moved
  <2>5. Moved(g, ShotTaken(g, n), n, "writing") /\ ShotTaken(g, n).unredirect = g.unredirect
    BY <2>4, ShotTakenMoves
  <2>6. Moved(s, ShotTaken(g, n), n, "writing")
    BY <2>3, <2>5, MovesCompose
  <2> QED BY <2>3, <2>5, <2>6 DEF GrabScreenshot, g
<1> QED BY <1>1, <1>2

\* _removeShooterForSender() after a reply, and a reply alone.
LEMMA ReplyEnds ==
  ASSUME NEW s, NEW n, Nearly(s, n), NEW answer \in Answers, s.calls[n].phase # "painting"
  PROVE  /\ s.shooter[s.calls[n].caller] # n => Clean(Reply(s, n, answer))
         /\ Clean(ReplyAndRemove(s, n, answer))
<1> DEFINE one == [[s.calls[n] EXCEPT !.answers = Append(@, answer)] EXCEPT !.phase = "done"]
           cs == [s.calls EXCEPT ![n] = one]
           t == Reply(s, n, answer)
           u == ReplyAndRemove(s, n, answer)
<1>1. s \in States /\ n \in DOMAIN s.calls
  BY DEF Nearly
<1>2. s.calls \in Seq(Calls) /\ s.shooter \in [Callers -> Nat]
  BY <1>1 DEF States
<1>3. s.calls[n] \in Calls
  BY <1>1, <1>2
<1>4. one \in Calls /\ one.caller = s.calls[n].caller /\ one.phase = "done" /\ one.caller \in Callers
  <2> DEFINE a == Append(s.calls[n].answers, answer)
  <2>1. a \in Seq(Answers)
    BY <1>3 DEF Calls
  <2>2. one = [s.calls[n] EXCEPT !.answers = a, !.phase = "done"]
    BY <1>3 DEF Calls
  <2> HIDE DEF a, one
  <2> QED BY <1>3, <2>1, <2>2 DEF Calls, Phases
<1>5. t = [s EXCEPT !.calls = cs]
  BY <1>1, <1>2 DEF Reply, States
<1> HIDE DEF one, t
<1>6. cs \in Seq(Calls) /\ cs[n] = one
  BY <1>1, <1>2, <1>4
<1>6a. cs = [s.calls EXCEPT ![n] = one]
  OBVIOUS
<1> HIDE DEF cs
<1>7. t \in States /\ t.calls = cs /\ t.shooter = s.shooter /\ t.unredirect = s.unredirect
  BY <1>1, <1>5, <1>6 DEF States
<1>8. s.shooter[s.calls[n].caller] # n => Clean(t)
  <2> SUFFICES ASSUME s.shooter[s.calls[n].caller] # n PROVE Clean(t)
    OBVIOUS
  <2>1. t.calls = [s.calls EXCEPT ![n] = one]
    BY <1>6a, <1>7
  <2> QED BY <1>4, <1>7, <2>1, CallEnds
<1>9. u = [t EXCEPT !.shooter[one.caller] = NoShooter]
  BY <1>4, <1>6, <1>7 DEF ReplyAndRemove, RemoveShooterForSender, t
<1> HIDE DEF u
<1>10. /\ u \in States /\ u.calls = cs /\ u.unredirect = s.unredirect
       /\ u.shooter = [s.shooter EXCEPT ![one.caller] = NoShooter]
  BY <1>2, <1>4, <1>7, <1>9 DEF States, NoShooter
<1>11. /\ \A c \in Callers : c # one.caller => u.shooter[c] = s.shooter[c]
       /\ u.shooter[one.caller] = NoShooter
              \/ (u.shooter = s.shooter /\ s.shooter[one.caller] # n)
       /\ u.calls = [s.calls EXCEPT ![n] = one]
  BY <1>2, <1>4, <1>6a, <1>10
<1>12. Clean(u)
  <2>1. u \in States /\ u.unredirect = s.unredirect
    BY <1>10
  <2> QED BY ONLY Nearly(s, n), s.calls[n].phase # "painting", <1>4, <1>11, <2>1, CallEnds
<1> QED BY <1>8, <1>12 DEF t, u

\* A call that goes on, and is counted if it waits for a frame, leaves things clean.
LEMMA NearlyMoves ==
  ASSUME NEW s, NEW n, Nearly(s, n), NEW t, NEW p \in Phases \ {"checking", "done"}, Moved(s, t, n, p),
         t.unredirect = s.unredirect + (IF p = "painting" THEN 1 ELSE 0)
                                     - (IF s.calls[n].phase = "painting" THEN 1 ELSE 0)
  PROVE  Clean(t)
<1> DEFINE one == t.calls[n]
<1>1. /\ t \in States /\ t.shooter = s.shooter /\ one \in Calls
      /\ t.calls = [s.calls EXCEPT ![n] = one]
      /\ one.caller = s.calls[n].caller /\ one.phase = p
  BY DEF Moved
<1> HIDE DEF one
<1> QED BY <1>1, CallGoesOn

\* _createScreenshot() once its caller may go on.
LEMMA CreateIsClean ==
  ASSUME NEW s, Clean(s), NEW n \in DOMAIN s.calls, s.calls[n].phase = "checking", NEW o \in Outcomes
  PROVE  CleanUnlessThrown(CreateScreenshot(s, n, o))
<1> DEFINE w == [s EXCEPT !.shooter[s.calls[n].caller] = n]
<1>1. s \in States
  BY DEF Clean
<1>2. Nearly(w, n)
  BY CleanIsNearly
<1>3. w.calls = s.calls /\ w.unredirect = s.unredirect
  BY <1>1 DEF States
<1>4. CreateScreenshot(s, n, o) = Proceed(w, n, o)
  BY DEF CreateScreenshot
<1> HIDE DEF w
<1>5. w \in States /\ n \in DOMAIN w.calls /\ w.calls[n].phase = "checking" /\ w.unredirect \in Int
  BY <1>2, <1>3 DEF Nearly, States
<1>6. Clean(ReplyAndRemove(w, n, "error")) /\ Clean(ReplyAndRemove(w, n, "failure"))
  <2>1. \A a \in Answers : Clean(ReplyAndRemove(w, n, a))
    BY <1>2, <1>5, ReplyEnds
  <2>2. "error" \in Answers /\ "failure" \in Answers
    BY DEF Answers
  <2> QED BY Zenon, <2>1, <2>2
<1>7. \A p \in {"picking", "writing", "written"} :
        LET t == [w EXCEPT !.calls[n].phase = p]
        IN Clean(t) /\ Moved(w, t, n, p) /\ t.unredirect = w.unredirect
  <2> TAKE p \in {"picking", "writing", "written"}
  <2> DEFINE t == [w EXCEPT !.calls[n].phase = p]
  <2>1. p \in Phases \ {"checking", "done"} /\ p # "painting"
    BY DEF Phases
  <2>2. Moved(w, t, n, p) /\ t.unredirect = w.unredirect
    BY <1>5, <2>1, PhaseMoves
  <2> HIDE DEF t
  <2>3. t.unredirect = w.unredirect + (IF p = "painting" THEN 1 ELSE 0)
                                    - (IF w.calls[n].phase = "painting" THEN 1 ELSE 0)
    BY <1>5, <2>1, <2>2
  <2>4. Clean(t)
    BY <1>2, <2>1, <2>2, <2>3, NearlyMoves
  <2> QED BY <2>2, <2>4 DEF t
<1>8. Clean(ShotTaken([w EXCEPT !.calls[n].phase = "writing"], n))
  <2> DEFINE t == [w EXCEPT !.calls[n].phase = "writing"]
             u == ShotTaken(t, n)
  <2>1. Moved(w, t, n, "writing") /\ t.unredirect = w.unredirect
    BY <1>7
  <2> HIDE DEF t
  <2>2. t \in States /\ n \in DOMAIN t.calls /\ t.calls[n].phase = "writing"
    <3>1. DOMAIN t.calls = DOMAIN [w.calls EXCEPT ![n] = t.calls[n]]
      BY <2>1 DEF Moved
    <3> QED BY <1>5, <2>1, <3>1 DEF Moved, States
  <2>3. Moved(t, u, n, "writing") /\ u.unredirect = t.unredirect
    BY <2>2, ShotTakenMoves
  <2>4. Moved(w, u, n, "writing")
    BY <1>5, <2>1, <2>3, MovesCompose
  <2> HIDE DEF u
  <2>5. u.unredirect = w.unredirect + (IF "writing" = "painting" THEN 1 ELSE 0)
                                    - (IF w.calls[n].phase = "painting" THEN 1 ELSE 0)
    BY <1>5, <2>1, <2>3
  <2>6. "writing" \in Phases \ {"checking", "done"}
    BY DEF Phases
  <2> QED BY <1>2, <2>4, <2>5, <2>6, NearlyMoves DEF t, u
<1>9. \A paints \in BOOLEAN : CleanUnlessThrown(ShootStage(w, n, paints))
  <2> SUFFICES ASSUME NEW paints \in BOOLEAN, ShootStage(w, n, paints).threw # TRUE
               PROVE  Clean(ShootStage(w, n, paints))
    BY DEF CleanUnlessThrown
  <2>1. CASE Wayland
    <3> DEFINE t == GrabScreenshot(w, n, paints)
    <3>1. ShootStage(w, n, paints) = t
      BY <2>1 DEF ShootStage
    <3>2. Moved(w, t, n, "writing") /\ t.unredirect = w.unredirect
      BY <1>5, <3>1, GrabMoves
    <3> HIDE DEF t
    <3>3. t.unredirect = w.unredirect + (IF "writing" = "painting" THEN 1 ELSE 0)
                                      - (IF w.calls[n].phase = "painting" THEN 1 ELSE 0)
      BY <1>5, <3>2
    <3>4. "writing" \in Phases \ {"checking", "done"}
      BY DEF Phases
    <3> QED BY <1>2, <3>1, <3>2, <3>3, <3>4, NearlyMoves
  <2>2. CASE ~Wayland
    <3> DEFINE v == [w EXCEPT !.calls[n].phase = "painting"]
               t == [v EXCEPT !.unredirect = @ + 1]
    <3>1. ShootStage(w, n, paints) = t
      BY <2>2 DEF ShootStage
    <3>2. "painting" \in Phases \ {"checking", "done"}
      BY DEF Phases
    <3>3. Moved(w, v, n, "painting") /\ v.unredirect = w.unredirect
      BY <1>5, <3>2, PhaseMoves
    <3> HIDE DEF v
    <3>4. v \in States
      BY <3>3 DEF Moved
    <3>5. /\ t \in States /\ t.calls = v.calls /\ t.shooter = v.shooter
          /\ t.unredirect = w.unredirect + 1
      BY <3>3, <3>4 DEF States
    <3> HIDE DEF t
    <3>6. Moved(w, t, n, "painting")
      BY <3>3, <3>5 DEF Moved
    <3>7. t.unredirect = w.unredirect + (IF "painting" = "painting" THEN 1 ELSE 0)
                                      - (IF w.calls[n].phase = "painting" THEN 1 ELSE 0)
      BY <1>5, <3>5
    <3> QED BY <1>2, <3>1, <3>2, <3>6, <3>7, NearlyMoves
  <2> QED BY <2>1, <2>2
<1>10. CASE w.calls[n].kind = "pick"
  <2>1. Proceed(w, n, o) = [w EXCEPT !.calls[n].phase = "picking"]
    BY <1>10 DEF Proceed, Picture
  <2> QED BY <1>4, <1>7, <2>1 DEF CleanUnlessThrown
<1>11. CASE w.calls[n].kind # "pick" /\ ~o.stream
  <2>1. Proceed(w, n, o) = ReplyAndRemove(w, n, "error")
    BY <1>11 DEF Proceed, Picture, StreamFails
  <2> QED BY <1>4, <1>6, <2>1 DEF CleanUnlessThrown
<1>12. CASE w.calls[n].kind # "pick" /\ o.stream /\ w.calls[n].kind = "window"
  <2>1. Proceed(w, n, o) = ShootWindow(w, n, o.focus, o.grabs)
    BY <1>12 DEF Proceed, Picture
  <2>2. Proceed(w, n, o) \in {ReplyAndRemove(w, n, "failure"), [w EXCEPT !.calls[n].phase = "written"],
                              ShotTaken([w EXCEPT !.calls[n].phase = "writing"], n)}
    BY <2>1 DEF ShootWindow, GrabWindow
  <2> QED BY <1>4, <1>6, <1>7, <1>8, <2>2 DEF CleanUnlessThrown
<1>13. CASE w.calls[n].kind # "pick" /\ o.stream /\ w.calls[n].kind # "window"
  <2>1. Proceed(w, n, o) = ShootStage(w, n, o.grabs)
    BY <1>13 DEF Proceed, Picture
  <2>2. o.grabs \in BOOLEAN
    BY DEF Outcomes
  <2> QED BY <1>4, <1>9, <2>1, <2>2
<1> QED BY <1>10, <1>11, <1>12, <1>13

\* A call comes, and _createScreenshot() looks at it.
LEMMA CallComes ==
  ASSUME NEW s, Clean(s), NEW one \in Calls, one.phase \in {"checking", "done"}
  PROVE  LET t == [s EXCEPT !.calls = Append(@, one)]
             n == Len(s.calls) + 1
         IN Clean(t) /\ n \in DOMAIN t.calls /\ t.calls[n] = one /\ t.shooter = s.shooter
<1> DEFINE cs == Append(s.calls, one)
           t == [s EXCEPT !.calls = cs]
           n == Len(s.calls) + 1
<1>1. s \in States /\ OwnedBut(s, NoShooter) /\ Balanced(s)
  BY DEF Clean
<1>2. s.calls \in Seq(Calls)
  BY <1>1 DEF States
<1>3. /\ cs \in Seq(Calls) /\ DOMAIN cs = DOMAIN s.calls \cup {n} /\ cs[n] = one /\ n \notin DOMAIN s.calls
      /\ \A m \in DOMAIN s.calls : cs[m] = s.calls[m]
  BY <1>2
<1> HIDE DEF cs, n
<1>4. t \in States /\ t.calls = cs /\ t.shooter = s.shooter /\ t.unredirect = s.unredirect
  BY <1>1, <1>3 DEF States
<1> HIDE DEF t
<1>5. PaintingCalls(cs) = PaintingCalls(s.calls)
  BY <1>3 DEF PaintingCalls
<1>6. Balanced(t)
  BY <1>1, <1>4, <1>5 DEF Balanced
<1>7. OwnedBut(t, NoShooter)
  BY <1>1, <1>3, <1>4 DEF OwnedBut
<1> QED BY <1>3, <1>4, <1>6, <1>7 DEF Clean, cs, t, n

\* A call that is not let in had no object.
LEMMA DeniedIsClean ==
  ASSUME NEW s, Clean(s), NEW n \in DOMAIN s.calls, s.calls[n].phase = "checking"
  PROVE  Clean(Reply(s, n, "busy")) /\ Clean(Reply(s, n, "denied"))
<1>2. Nearly(s, n)
  BY CleanIsNearly
<1>3. s.calls \in Seq(Calls) /\ OwnedBut(s, NoShooter)
  BY DEF Clean, States
<1>4. s.calls[n].caller \in Callers /\ n # NoShooter
  <2>1. s.calls[n] \in Calls /\ n \in Nat \ {0}
    BY <1>3
  <2> QED BY <2>1 DEF Calls, NoShooter
<1>5. s.shooter[s.calls[n].caller] # n
  BY <1>3, <1>4 DEF OwnedBut
<1>6. \A a \in Answers : Clean(Reply(s, n, a))
  BY <1>2, <1>5, ReplyEnds
<1>7. "busy" \in Answers /\ "denied" \in Answers
  BY DEF Answers
<1> QED BY Zenon, <1>6, <1>7

\* Whatever the checks of a new call say, nothing is left behind.
LEMMA EnterIsClean ==
  ASSUME NEW s, Clean(s), NEW n \in DOMAIN s.calls, s.calls[n].phase = "checking", NEW o \in Outcomes,
         NEW lockedDown, NEW allowed
  PROVE  CleanUnlessThrown(Enter(s, n, lockedDown, allowed, o))
<1>1. CleanUnlessThrown(CreateScreenshot(s, n, o))
  BY CreateIsClean
<1>6. Clean(Reply(s, n, "busy")) /\ Clean(Reply(s, n, "denied"))
  BY DeniedIsClean
<1>7. Enter(s, n, lockedDown, allowed, o) \in
        {Reply(s, n, "busy"), Reply(s, n, "denied"), s, CreateScreenshot(s, n, o)}
  BY DEF Enter
<1> QED BY <1>1, <1>6, <1>7 DEF CleanUnlessThrown

\* What touches neither a phase nor a caller, or drops objects.
LEMMA ObjectsMayGo ==
  ASSUME NEW s, Clean(s), NEW t \in States, DOMAIN t.calls = DOMAIN s.calls, t.unredirect = s.unredirect,
         \A m \in DOMAIN s.calls : t.calls[m].phase = s.calls[m].phase /\ t.calls[m].caller = s.calls[m].caller,
         \A c \in Callers : t.shooter[c] \in {s.shooter[c], NoShooter}
  PROVE  Clean(t)
<1>1. OwnedBut(s, NoShooter) /\ Balanced(s)
  BY DEF Clean
<1>2. PaintingCalls(t.calls) = PaintingCalls(s.calls)
  BY DEF PaintingCalls
<1>3. Balanced(t)
  BY <1>1, <1>2 DEF Balanced
<1>4. OwnedBut(t, NoShooter)
  BY <1>1 DEF OwnedBut
<1> QED BY <1>3, <1>4 DEF Clean

ScreenshotInv == CleanUnlessThrown(State)

\* Every step of the service keeps its invariant.
LEMMA ScreenshotStep ==
  ASSUME ScreenshotInv, [ScreenshotNext]_screenshotVars
  PROVE  ScreenshotInv'
<1>0. /\ State.calls = calls /\ State.shooter = shooter /\ State.unredirect = unredirect /\ State.threw = threw
      /\ State' = [calls |-> calls', shooter |-> shooter', unredirect |-> unredirect', threw |-> threw']
  BY DEF State
<1>1. ASSUME ~threw
      PROVE  Clean(State) /\ State \in States
  <2>1. Clean(State)
    BY Zenon, <1>0, <1>1 DEF ScreenshotInv, CleanUnlessThrown
  <2> QED BY <2>1 DEF Clean
<1>2. ASSUME NEW t, CallBecomes(t), CleanUnlessThrown(t)
      PROVE  ScreenshotInv'
  <2>1. State'.threw = t.threw
    BY <1>0, <1>2 DEF CallBecomes
  <2>2. CASE t.threw = TRUE
    BY <2>1, <2>2 DEF ScreenshotInv, CleanUnlessThrown
  <2>3. CASE t.threw # TRUE
    <3>1. Clean(t)
      BY <1>2, <2>3 DEF CleanUnlessThrown
    <3>2. t \in States
      BY <3>1 DEF Clean
    <3>3. State' = t
      BY <1>0, <1>2, <3>2 DEF CallBecomes, States
    <3>4. Clean(State')
      BY <3>1, <3>3
    <3> QED BY Zenon, <3>4 DEF ScreenshotInv, CleanUnlessThrown, Clean, State, States, OwnedBut, Balanced, PaintingCalls
  <2> QED BY <2>2, <2>3
<1>3. ASSUME NEW c \in Callers, NEW kind \in Kinds, NEW flash \in BOOLEAN, NEW lockedDown \in BOOLEAN,
             NEW allowed \in BOOLEAN, NEW o \in Outcomes, MakeCall(c, kind, flash, lockedDown, allowed, o)
      PROVE  ScreenshotInv'
  <2> DEFINE one == NewCall(c, kind, flash)
             s == [State EXCEPT !.calls = Append(@, one)]
             n == Len(calls) + 1
  <2>1. ~threw /\ CallBecomes(Enter(s, n, lockedDown, allowed, o))
    BY <1>3 DEF MakeCall, Runs
  <2>2. one \in Calls /\ one.phase = "checking"
    BY DEF NewCall, Calls, Phases
  <2> HIDE DEF one
  <2>3. Clean(State)
    BY <1>1, <2>1
  <2>4. Clean(s) /\ n \in DOMAIN s.calls /\ s.calls[n] = one
    BY <1>0, <2>2, <2>3, CallComes
  <2> HIDE DEF s, n
  <2>5. CleanUnlessThrown(Enter(s, n, lockedDown, allowed, o))
    BY <2>2, <2>4, EnterIsClean
  <2> QED BY <1>2, <2>1, <2>5
<1>4. ASSUME NEW c \in Callers, BadArea(c)
      PROVE  ScreenshotInv'
  <2> DEFINE one == [NewCall(c, "area", FALSE) EXCEPT !.phase = "done", !.answers = <<"error">>]
             t == [State EXCEPT !.calls = Append(@, one)]
  <2>1. ~threw /\ calls' = Append(calls, one) /\ UNCHANGED <<shooter, unredirect, threw>>
    BY <1>4 DEF BadArea, Runs
  <2>2. one \in Calls /\ one.phase = "done"
    <3> DEFINE b == NewCall(c, "area", FALSE)
               a == <<"error">>
    <3>1. b \in Calls
      BY DEF NewCall, Calls, Phases, Kinds
    <3>2. a \in Seq(Answers)
      BY DEF Answers
    <3>3. one = [b EXCEPT !.phase = "done", !.answers = a]
      OBVIOUS
    <3> HIDE DEF a, b, one
    <3> QED BY <3>1, <3>2, <3>3 DEF Calls, Phases
  <2> HIDE DEF one
  <2>3. Clean(State) /\ State \in States
    BY <1>1, <2>1
  <2>4. Clean(t)
    BY <2>2, <2>3, CallComes
  <2>5. CallBecomes(t)
    BY <1>0, <2>1 DEF CallBecomes, State
  <2> HIDE DEF t
  <2> QED BY <1>2, <2>4, <2>5 DEF CleanUnlessThrown
<1>5. CASE CheckAndResolveInitialized \/ UNCHANGED screenshotVars
  <2>1. State' = State
    BY <1>5 DEF CheckAndResolveInitialized, screenshotVars, State
  <2> QED BY <2>1 DEF ScreenshotInv, CleanUnlessThrown, Clean, States, OwnedBut, Balanced, PaintingCalls
<1>6. ASSUME NEW n, NEW allowed \in BOOLEAN, NEW o \in Outcomes, CheckInvocation(n, allowed, o)
      PROVE  ScreenshotInv'
  <2>1. /\ ~threw /\ n \in DOMAIN calls /\ calls[n].phase = "checking"
        /\ CallBecomes(IF allowed THEN CreateScreenshot(State, n, o) ELSE Reply(State, n, "denied"))
    BY <1>6 DEF CheckInvocation, Waiting
  <2>2. Clean(State)
    BY <1>1, <2>1
  <2>3. CleanUnlessThrown(CreateScreenshot(State, n, o))
    BY <1>0, <2>1, <2>2, CreateIsClean
  <2>4. CASE allowed
    BY <1>2, <2>1, <2>3, <2>4
  <2>5. CASE ~allowed
    <3>1. /\ State.calls[n].phase = "checking" /\ n \in DOMAIN State.calls
      BY <1>0, <2>1
    <3>2. CleanUnlessThrown(Reply(State, n, "denied"))
      BY <2>2, <3>1, DeniedIsClean DEF CleanUnlessThrown
    <3> QED BY <1>2, <2>1, <2>5, <3>2
  <2> QED BY <2>4, <2>5
<1>7. ASSUME NEW n, NEW paints \in BOOLEAN, AfterPaint(n, paints)
      PROVE  ScreenshotInv'
  <2> DEFINE g == GrabScreenshot(State, n, paints)
             t == [g EXCEPT !.unredirect = @ - 1]
  <2>1. ~threw /\ n \in DOMAIN State.calls /\ State.calls[n].phase = "painting" /\ CallBecomes(t)
    BY <1>0, <1>7 DEF AfterPaint, AfterPaintOf, Runs
  <2>2. Clean(State) /\ State \in States
    BY <1>1, <2>1
  <2>3. Nearly(State, n)
    BY <2>1, <2>2, CleanIsNearly
  <2>4. t.threw = g.threw
    <3>1. "threw" \in DOMAIN g
      BY <2>1, <2>2 DEF GrabScreenshot, ShotTaken, DoGrab, States
    <3> QED BY <3>1
  <2>5. CASE t.threw # TRUE
    <3>1. Moved(State, g, n, "writing") /\ g.unredirect = State.unredirect
      BY <2>1, <2>2, <2>4, <2>5, GrabMoves
    <3>2. g \in States /\ State.unredirect \in Int
      BY <2>2, <3>1 DEF Moved, States
    <3> HIDE DEF g
    <3>3. /\ t \in States /\ t.calls = g.calls /\ t.shooter = g.shooter
          /\ t.unredirect = State.unredirect - 1
      BY <3>1, <3>2 DEF States
    <3> HIDE DEF t
    <3>4. Moved(State, t, n, "writing")
      BY <3>1, <3>3 DEF Moved
    <3>5. t.unredirect = State.unredirect + (IF "writing" = "painting" THEN 1 ELSE 0)
                                          - (IF State.calls[n].phase = "painting" THEN 1 ELSE 0)
      BY <2>1, <3>2, <3>3
    <3>6. "writing" \in Phases \ {"checking", "done"}
      BY DEF Phases
    <3>7. Clean(t)
      BY <2>3, <3>4, <3>5, <3>6, NearlyMoves
    <3> QED BY <1>2, <2>1, <3>7 DEF CleanUnlessThrown
  <2>6. CASE t.threw = TRUE
    <3> HIDE DEF t
    <3> QED BY <1>2, <2>1, <2>6 DEF CleanUnlessThrown
  <2> QED BY <2>5, <2>6
<1>8. ASSUME NEW n, NEW ok \in BOOLEAN, Written(n, ok)
      PROVE  ScreenshotInv'
  <2> DEFINE one == [calls[n] EXCEPT !.phase = "written", !.wrote = ok]
             t == [State EXCEPT !.calls = calls']
  <2>1. /\ ~threw /\ n \in DOMAIN calls /\ calls[n].phase = "writing"
        /\ calls' = [calls EXCEPT ![n].phase = "written", ![n].wrote = ok]
        /\ UNCHANGED <<shooter, unredirect, threw>>
    BY <1>8 DEF Written, Runs
  <2>2. Clean(State) /\ State \in States
    BY <1>1, <2>1
  <2>3. Nearly(State, n)
    BY <1>0, <2>1, <2>2, CleanIsNearly
  <2>4. calls \in Seq(Calls) /\ unredirect \in Int
    BY <1>0, <2>2 DEF States
  <2>5. calls[n] \in Calls
    BY <2>1, <2>4
  <2>6. one \in Calls /\ one.caller = calls[n].caller /\ one.phase = "written"
    BY <2>5 DEF Calls, Phases
  <2>7. calls' = [calls EXCEPT ![n] = one]
    BY <2>1, <2>4
  <2> HIDE DEF one
  <2>8. calls' \in Seq(Calls)
    <3>1. n \in DOMAIN calls
      BY <2>1
    <3> QED BY <2>4, <2>6, <2>7, <3>1
  <2>9. t \in States /\ t.calls = calls' /\ t.shooter = State.shooter /\ t.unredirect = State.unredirect
    BY <2>2, <2>8 DEF States
  <2>10. CallBecomes(t)
    BY <1>0, <2>1, <2>2 DEF CallBecomes, States
  <2> HIDE DEF t
  <2>11. /\ t.calls = [State.calls EXCEPT ![n] = one] /\ one.caller = State.calls[n].caller
         /\ one.phase \notin {"checking", "done"}
         /\ t.unredirect = State.unredirect + (IF one.phase = "painting" THEN 1 ELSE 0)
                                            - (IF State.calls[n].phase = "painting" THEN 1 ELSE 0)
    BY <1>0, <2>1, <2>4, <2>6, <2>7, <2>9
  <2>12. Clean(t)
    BY <2>3, <2>6, <2>9, <2>11, CallGoesOn
  <2> QED BY <1>2, <2>10, <2>12 DEF CleanUnlessThrown
<1>9. ASSUME NEW n, FlashFired(n)
      PROVE  ScreenshotInv'
  <2> DEFINE one == [calls[n] EXCEPT !.flash = "none"]
             t == [State EXCEPT !.calls = calls']
  <2>1. /\ ~threw /\ n \in DOMAIN calls /\ calls' = [calls EXCEPT ![n].flash = "none"]
        /\ UNCHANGED <<shooter, unredirect, threw>>
    BY <1>9 DEF FlashFired, Runs
  <2>2. Clean(State) /\ State \in States
    BY <1>1, <2>1
  <2>3. calls \in Seq(Calls)
    BY <1>0, <2>2 DEF States
  <2>4. calls[n] \in Calls
    BY <2>1, <2>3
  <2>5. one \in Calls /\ one.caller = calls[n].caller /\ one.phase = calls[n].phase
    BY <2>4 DEF Calls
  <2>6. calls' = [calls EXCEPT ![n] = one]
    BY <2>1, <2>3
  <2> HIDE DEF one
  <2>7. /\ calls' \in Seq(Calls) /\ DOMAIN calls' = DOMAIN calls
        /\ \A m \in DOMAIN calls : calls'[m].phase = calls[m].phase /\ calls'[m].caller = calls[m].caller
    BY <2>1, <2>3, <2>5, <2>6
  <2>8. t \in States /\ t.calls = calls' /\ t.shooter = State.shooter /\ t.unredirect = State.unredirect
    BY <2>2, <2>7 DEF States
  <2>9. CallBecomes(t)
    BY <1>0, <2>1, <2>2 DEF CallBecomes, States
  <2> HIDE DEF t
  <2>10. Clean(t)
    BY <1>0, <2>2, <2>7, <2>8, ObjectsMayGo
  <2> QED BY <1>2, <2>9, <2>10 DEF CleanUnlessThrown
<1>10. ASSUME NEW n, n \in DOMAIN calls, ~threw, calls[n].phase \in {"written", "picking"},
              NEW a \in Answers, CallBecomes(ReplyAndRemove(State, n, a))
       PROVE  ScreenshotInv'
  <2>1. Clean(State)
    BY <1>1, <1>10
  <2>2. Nearly(State, n) /\ State.calls[n].phase # "painting"
    BY <1>0, <1>10, <2>1, CleanIsNearly
  <2>3. Clean(ReplyAndRemove(State, n, a))
    BY <2>2, ReplyEnds
  <2> QED BY <1>2, <1>10, <2>3 DEF CleanUnlessThrown
<1>11. ASSUME NEW n, NEW closes \in BOOLEAN, OnScreenshotComplete(n, closes)
       PROVE  ScreenshotInv'
  <2> DEFINE a == IF closes THEN "success" ELSE "failure"
  <2>1. n \in DOMAIN calls /\ ~threw /\ calls[n].phase \in {"written", "picking"}
        /\ CallBecomes(ReplyAndRemove(State, n, a))
    BY <1>11 DEF OnScreenshotComplete, Runs
  <2>2. a \in Answers
    BY DEF Answers
  <2> HIDE DEF a
  <2> QED BY <1>10, <2>1, <2>2
<1>12. ASSUME NEW n, NEW picked \in BOOLEAN, PickDone(n, picked)
       PROVE  ScreenshotInv'
  <2> DEFINE a == IF picked THEN "color" ELSE "failure"
  <2>1. n \in DOMAIN calls /\ ~threw /\ calls[n].phase \in {"written", "picking"}
        /\ CallBecomes(ReplyAndRemove(State, n, a))
    BY <1>12 DEF PickDone, Runs
  <2>2. a \in Answers
    BY DEF Answers
  <2> HIDE DEF a
  <2> QED BY <1>10, <2>1, <2>2
<1>13. ASSUME NEW n, NEW paints \in BOOLEAN, PickColor(n, paints)
       PROVE  ScreenshotInv'
  <2> DEFINE t == [State EXCEPT !.threw = ~paints]
  <2>1. ~threw /\ CallBecomes(t)
    BY <1>13 DEF PickColor, Runs
  <2>2. Clean(State) /\ State \in States
    BY <1>1, <2>1
  <2>3. /\ t \in States /\ t.calls = State.calls /\ t.shooter = State.shooter
        /\ t.unredirect = State.unredirect
    BY <2>2 DEF States
  <2> HIDE DEF t
  <2>4. Clean(t)
    BY <2>2, <2>3, ObjectsMayGo
  <2> QED BY <1>2, <2>1, <2>4 DEF CleanUnlessThrown
<1>14. ASSUME NEW c \in Callers, OnNameVanished(c)
       PROVE  ScreenshotInv'
  <2> DEFINE t == [State EXCEPT !.shooter = shooter']
  <2>1. ~threw /\ shooter' = [shooter EXCEPT ![c] = NoShooter] /\ UNCHANGED <<calls, unredirect, threw>>
    BY <1>14 DEF OnNameVanished, Runs
  <2>2. Clean(State) /\ State \in States
    BY <1>1, <2>1
  <2>3. shooter \in [Callers -> Nat]
    BY <1>0, <2>2 DEF States
  <2>4. shooter' \in [Callers -> Nat] /\ \A d \in Callers : shooter'[d] \in {shooter[d], NoShooter}
    BY <2>1, <2>3 DEF NoShooter
  <2>5. /\ t \in States /\ t.calls = State.calls /\ t.shooter = shooter' /\ t.unredirect = State.unredirect
    BY <2>2, <2>4 DEF States
  <2>6. CallBecomes(t)
    BY <1>0, <2>1, <2>2 DEF CallBecomes, States
  <2> HIDE DEF t
  <2>7. Clean(t)
    BY <1>0, <2>2, <2>4, <2>5, ObjectsMayGo
  <2> QED BY <1>2, <2>6, <2>7 DEF CleanUnlessThrown
<1> QED
  BY <1>3, <1>4, <1>5, <1>6, <1>7, <1>8, <1>9, <1>11, <1>12, <1>13, <1>14 DEF ScreenshotNext

\* For any callers and calls, under Wayland or X11, a screenshot leaves
\* nothing behind (_removeShooterForSender(), on_after_paint()).
THEOREM ScreenshotsLeaveNothing == ScreenshotSpec => []ScreenshotsCleanUp
<1>1. ScreenshotInit => ScreenshotInv
  <2> SUFFICES ASSUME ScreenshotInit PROVE Clean(State)
    BY DEF ScreenshotInv, CleanUnlessThrown
  <2>1. /\ State.calls = <<>> /\ State.shooter = [c \in Callers |-> NoShooter] /\ State.unredirect = 0
        /\ State \in States
    <3>1. calls = <<>> /\ shooter = [c \in Callers |-> NoShooter] /\ unredirect = 0 /\ threw = FALSE
      BY DEF ScreenshotInit
    <3>2. calls \in Seq(Calls)
      BY <3>1
    <3>3. shooter \in [Callers -> Nat]
      BY <3>1 DEF NoShooter
    <3>4. unredirect \in Int
      BY <3>1
    <3>5. threw \in BOOLEAN
      BY Zenon, <3>1
    <3> QED BY <3>1, <3>2, <3>3, <3>4, <3>5 DEF State, States
  <2>2. PaintingCalls(State.calls) = {}
    BY <2>1 DEF PaintingCalls
  <2>3. Balanced(State)
    BY <2>1, <2>2, FS_EmptySet DEF Balanced
  <2>4. OwnedBut(State, NoShooter)
    BY <2>1 DEF OwnedBut
  <2> QED BY <2>1, <2>3, <2>4 DEF Clean
<1>2. ScreenshotInv /\ [ScreenshotNext]_screenshotVars => ScreenshotInv'
  BY ScreenshotStep
<1>3. ScreenshotInv => ScreenshotsCleanUp
  <2> SUFFICES ASSUME ScreenshotInv, ~threw
               PROVE  /\ \A c \in Callers : shooter[c] # NoShooter => calls[shooter[c]].phase # "done"
                      /\ unredirect = Cardinality({n \in DOMAIN calls : calls[n].phase = "painting"})
    BY DEF ScreenshotsCleanUp
  <2>1. /\ State.calls = calls /\ State.shooter = shooter /\ State.unredirect = unredirect /\ State.threw = threw
    BY DEF State
  <2>2. Clean(State)
    BY Zenon, <2>1 DEF ScreenshotInv, CleanUnlessThrown
  <2>3. OwnedBut(State, NoShooter) /\ Balanced(State)
    BY <2>2 DEF Clean
  <2> QED BY <2>1, <2>3 DEF OwnedBut, Balanced, PaintingCalls
<1> QED BY <1>1, <1>2, <1>3, PTL DEF ScreenshotSpec

---------------------------------------------------------------------------
(* Saved state and leisure.  As long as every save that a newer one found  *)
(* unfinished was stopped in time, no save but the last can still write;   *)
(* and the last, which nothing has cancelled, wrote its value or failed.   *)

SaveRecords == [value : Nat, cancelled : BOOLEAN, state : {"queued", "sure", "returned", "over"}, failed : BOOLEAN]
SavesTyped ==
  /\ stateSaves \in Seq(SaveRecords) /\ saveOp \in Nat /\ stateFile \in Nat
  /\ leisureClosures \in Seq(LeisureFunctions) /\ ran \in [LeisureFunctions -> Nat]
  /\ workCount \in Nat /\ bunched \subseteq LeisureFunctions

OlderSavesAreHarmless ==
  \A n \in DOMAIN stateSaves : n < Len(stateSaves) =>
    stateSaves[n].state \in {"returned", "over"} \/ (stateSaves[n].state = "queued" /\ stateSaves[n].cancelled)
LastSaveCounts ==
  stateSaves # <<>> =>
    LET last == stateSaves[Len(stateSaves)]
    IN /\ ~last.cancelled
       /\ last.state \in {"returned", "over"} => stateFile = last.value \/ last.failed

LeisureComes ==
  /\ leisureClosures # <<>> /\ workCount = 0 => leisureIdle
  /\ \A f \in LeisureFunctions : f \notin bunched => ran[f] <= 1
  /\ \A f \in LeisureFunctions : ran[f] > 0 => \A i \in DOMAIN leisureClosures : leisureClosures[i] # f

GlobalInv ==
  /\ SavesTyped /\ LeisureComes
  /\ unstopped = {} => OlderSavesAreHarmless /\ LastSaveCounts

\* A change of the progress of a save.
LEMMA SaveFacts ==
  ASSUME NEW ss \in Seq(SaveRecords)
  PROVE  /\ Len(ss) \in Nat /\ DOMAIN ss = 1 .. Len(ss)
         /\ \A n \in DOMAIN ss : /\ ss[n] \in SaveRecords /\ ss[n].cancelled \in BOOLEAN /\ ss[n].value \in Nat
                                 /\ ss[n].state \in {"queued", "sure", "returned", "over"}
<1>1. Len(ss) \in Nat /\ DOMAIN ss = 1 .. Len(ss) /\ \A n \in DOMAIN ss : ss[n] \in SaveRecords
  OBVIOUS
<1>2. \A s \in SaveRecords : /\ s.cancelled \in BOOLEAN /\ s.value \in Nat
                             /\ s.state \in {"queued", "sure", "returned", "over"}
  BY DEF SaveRecords
<1> QED BY <1>1, <1>2

\* The saves after the progress of the n-th.
LEMMA SaveGoesOn ==
  ASSUME SavesTyped, NEW n \in DOMAIN stateSaves, NEW one \in SaveRecords,
         stateSaves' = [stateSaves EXCEPT ![n] = one],
         one.cancelled = stateSaves[n].cancelled,
         OlderSavesAreHarmless, LastSaveCounts,
         n < Len(stateSaves) => one.state \in {"returned", "over"},
         n < Len(stateSaves) => stateFile' = stateFile,
         n = Len(stateSaves) /\ one.state \in {"returned", "over"} => stateFile' = one.value \/ one.failed
  PROVE  OlderSavesAreHarmless' /\ LastSaveCounts'
<1>1. /\ Len(stateSaves) \in Nat /\ DOMAIN stateSaves = 1 .. Len(stateSaves)
      /\ stateSaves \in Seq(SaveRecords)
  BY SaveFacts DEF SavesTyped
<1>2. /\ Len(stateSaves') = Len(stateSaves) /\ DOMAIN stateSaves' = DOMAIN stateSaves
      /\ stateSaves'[n] = one
      /\ \A m \in DOMAIN stateSaves : m # n => stateSaves'[m] = stateSaves[m]
  BY <1>1
<1>3. OlderSavesAreHarmless'
  BY <1>1, <1>2 DEF OlderSavesAreHarmless
<1>4. LastSaveCounts'
  <2>1. stateSaves # <<>> /\ Len(stateSaves) \in DOMAIN stateSaves
    BY <1>1
  <2> DEFINE last == stateSaves[Len(stateSaves)]
  <2>2. ~last.cancelled /\ (last.state \in {"returned", "over"} => stateFile = last.value \/ last.failed)
    BY <2>1 DEF LastSaveCounts
  <2>3. CASE n = Len(stateSaves)
    <3>1. stateSaves'[Len(stateSaves')] = one /\ ~one.cancelled
      BY <1>2, <2>2, <2>3
    <3> QED BY Zenon, <2>3, <3>1 DEF LastSaveCounts
  <2>4. CASE n # Len(stateSaves)
    <3>1. n < Len(stateSaves)
      BY <1>1, <2>4
    <3>2. stateSaves'[Len(stateSaves')] = last /\ stateFile' = stateFile
      BY <1>2, <2>1, <2>4, <3>1
    <3> HIDE DEF last
    <3> QED BY Zenon, <2>2, <3>2 DEF LastSaveCounts
  <2> QED BY <2>3, <2>4
<1> QED BY <1>3, <1>4

\* Every step of a save keeps its invariant.
LEMMA SaveStep ==
  ASSUME GlobalInv, SaveNext
  PROVE  GlobalInv'
<1>1. /\ SavesTyped /\ LeisureComes
      /\ workCount' = workCount /\ leisureIdle' = leisureIdle /\ leisureClosures' = leisureClosures
      /\ ran' = ran /\ bunched' = bunched
  BY DEF GlobalInv, SaveNext, SaveVariant, WorkerChecks, WorkerReplaces, SaveReturns, leisureVars
<1>2. LeisureComes'
  BY <1>1 DEF LeisureComes
<1>3. /\ Len(stateSaves) \in Nat /\ DOMAIN stateSaves = 1 .. Len(stateSaves) /\ stateSaves \in Seq(SaveRecords)
      /\ \A n \in DOMAIN stateSaves :
           /\ stateSaves[n] \in SaveRecords /\ stateSaves[n].cancelled \in BOOLEAN /\ stateSaves[n].value \in Nat
           /\ stateSaves[n].state \in {"queued", "sure", "returned", "over"}
  BY <1>1, SaveFacts DEF SavesTyped
<1>4. ASSUME NEW delete \in BOOLEAN, SaveVariant(delete) PROVE GlobalInv'
  <2> DEFINE n == Len(stateSaves) + 1
             stopped == [m \in DOMAIN stateSaves |->
                           IF m = saveOp THEN [stateSaves[m] EXCEPT !.cancelled = TRUE] ELSE stateSaves[m]]
             new == [value |-> IF delete THEN NoState ELSE n, cancelled |-> FALSE, state |-> "queued", failed |-> FALSE]
  <2>1. /\ stateSaves' = Append(stopped, new) /\ saveOp' = n /\ stateFile' = stateFile
        /\ unstopped' = unstopped \cup {m \in Unfinished : ~stopped[m].cancelled \/ stateSaves[m].state = "sure"}
    BY <1>4 DEF SaveVariant
  <2>2. \A e \in SaveRecords : /\ [e EXCEPT !.cancelled = TRUE] \in SaveRecords
                               /\ [e EXCEPT !.cancelled = TRUE].state = e.state
    BY DEF SaveRecords
  <2>3. /\ stopped \in Seq(SaveRecords) /\ Len(stopped) = Len(stateSaves) /\ DOMAIN stopped = DOMAIN stateSaves
        /\ \A m \in DOMAIN stateSaves : stopped[m] \in SaveRecords /\ stopped[m].state = stateSaves[m].state
    <3>1. \A m \in DOMAIN stateSaves : stopped[m] \in SaveRecords /\ stopped[m].state = stateSaves[m].state
      BY <1>3, <2>2
    <3>2. stopped \in [1 .. Len(stateSaves) -> SaveRecords]
      BY <1>3, <3>1
    <3> HIDE DEF stopped
    <3> QED BY <1>3, <3>1, <3>2
  <2>4. new \in SaveRecords /\ new.state = "queued" /\ ~new.cancelled
    BY <1>3 DEF SaveRecords, NoState
  <2> HIDE DEF stopped, new
  <2>5. /\ stateSaves' \in Seq(SaveRecords) /\ Len(stateSaves') = n /\ DOMAIN stateSaves' = 1 .. n
        /\ stateSaves'[n] = new /\ \A m \in DOMAIN stateSaves : stateSaves'[m] = stopped[m]
    BY <1>3, <2>1, <2>3, <2>4
  <2>6. SavesTyped'
    BY <1>1, <1>3, <2>1, <2>5 DEF SavesTyped
  <2>7. ASSUME unstopped' = {} PROVE OlderSavesAreHarmless' /\ LastSaveCounts'
    <3>1. \A m \in Unfinished : stopped[m].cancelled /\ stateSaves[m].state # "sure"
      BY <2>1, <2>7
    <3>2. ASSUME NEW m \in DOMAIN stateSaves
          PROVE  stopped[m].state \in {"returned", "over"} \/ (stopped[m].state = "queued" /\ stopped[m].cancelled)
      BY <1>3, <2>3, <3>1 DEF Unfinished
    <3>3. OlderSavesAreHarmless'
      BY <1>3, <2>5, <3>2 DEF OlderSavesAreHarmless
    <3>4. LastSaveCounts'
      BY <2>4, <2>5 DEF LastSaveCounts
    <3> QED BY <3>3, <3>4
  <2> QED BY <1>2, <2>6, <2>7 DEF GlobalInv
<1>5. ASSUME NEW n \in DOMAIN stateSaves, NEW one \in SaveRecords,
             stateSaves' = [stateSaves EXCEPT ![n] = one],
             one.cancelled = stateSaves[n].cancelled, saveOp' \in Nat, stateFile' \in Nat, unstopped' = unstopped,
             unstopped = {} /\ n < Len(stateSaves) => one.state \in {"returned", "over"} /\ stateFile' = stateFile,
             unstopped = {} /\ n = Len(stateSaves) /\ one.state \in {"returned", "over"} => stateFile' = one.value \/ one.failed
      PROVE  GlobalInv'
  <2>1. stateSaves' \in Seq(SaveRecords)
    BY <1>3, <1>5
  <2>2. SavesTyped'
    BY <1>1, <1>5, <2>1 DEF SavesTyped
  <2>3. unstopped = {} => OlderSavesAreHarmless' /\ LastSaveCounts'
    <3> SUFFICES ASSUME unstopped = {} PROVE OlderSavesAreHarmless' /\ LastSaveCounts'
      OBVIOUS
    <3>1. OlderSavesAreHarmless /\ LastSaveCounts
      BY DEF GlobalInv
    <3> QED BY <1>1, <1>5, <3>1, SaveGoesOn
  <2> QED BY <1>2, <1>5, <2>2, <2>3 DEF GlobalInv
<1>6. ASSUME NEW n, WorkerChecks(n) PROVE GlobalInv'
  <2> DEFINE to == IF stateSaves[n].cancelled THEN "returned" ELSE "sure"
             one == [stateSaves[n] EXCEPT !.state = to]
  <2>1. /\ n \in DOMAIN stateSaves /\ stateSaves[n].state = "queued"
        /\ stateSaves' = [stateSaves EXCEPT ![n] = one]
        /\ UNCHANGED <<saveOp, stateFile, unstopped>>
    BY <1>6 DEF WorkerChecks
  <2>2. to \in {"returned", "sure"} /\ (to = "sure" => ~stateSaves[n].cancelled)
    OBVIOUS
  <2> HIDE DEF to
  <2>3. /\ one \in SaveRecords /\ one.cancelled = stateSaves[n].cancelled /\ one.state = to
        /\ one.value = stateSaves[n].value /\ one.failed = stateSaves[n].failed
    BY <1>3, <2>1, <2>2 DEF SaveRecords
  <2> HIDE DEF one
  <2>4. unstopped = {} /\ n < Len(stateSaves) => to = "returned"
    BY Zenon, <2>1, <2>2 DEF GlobalInv, OlderSavesAreHarmless
  <2>5. unstopped = {} /\ n = Len(stateSaves) => to # "returned"
    BY <2>1, <2>2 DEF GlobalInv, LastSaveCounts, to
  <2>6. saveOp' \in Nat /\ stateFile' \in Nat
    BY <1>1, <2>1 DEF SavesTyped
  <2> QED BY <1>5, <2>1, <2>2, <2>3, <2>4, <2>5, <2>6
<1>7. ASSUME NEW n, NEW ok \in BOOLEAN, WorkerReplaces(n, ok) PROVE GlobalInv'
  <2> DEFINE one == [stateSaves[n] EXCEPT !.state = "returned", !.failed = ~ok]
  <2>1. /\ n \in DOMAIN stateSaves /\ stateSaves[n].state = "sure"
        /\ stateFile' = IF ok THEN stateSaves[n].value ELSE stateFile
        /\ UNCHANGED <<saveOp, unstopped>>
    BY <1>7 DEF WorkerReplaces
  <2>2. stateSaves' = [stateSaves EXCEPT ![n] = one]
    BY <1>3, <1>7, <2>1 DEF WorkerReplaces
  <2>3. /\ one \in SaveRecords /\ one.cancelled = stateSaves[n].cancelled /\ one.state = "returned"
        /\ one.value = stateSaves[n].value /\ one.failed = ~ok
    BY <1>3, <2>1 DEF SaveRecords
  <2> HIDE DEF one
  <2>4. ~(unstopped = {} /\ n < Len(stateSaves))
    BY <2>1 DEF GlobalInv, OlderSavesAreHarmless
  <2>5. saveOp' \in Nat /\ stateFile' \in Nat
    BY <1>1, <1>3, <2>1 DEF SavesTyped
  <2>6. stateFile' = one.value \/ one.failed
    BY Zenon, <2>1, <2>3
  <2> QED BY <1>5, <2>1, <2>2, <2>3, <2>4, <2>5, <2>6
<1>8. ASSUME NEW n, SaveReturns(n) PROVE GlobalInv'
  <2> DEFINE one == [stateSaves[n] EXCEPT !.state = "over"]
  <2>1. /\ n \in DOMAIN stateSaves /\ stateSaves[n].state = "returned"
        /\ stateSaves' = [stateSaves EXCEPT ![n] = one] /\ saveOp' = 0
        /\ UNCHANGED <<stateFile, unstopped>>
    BY <1>8 DEF SaveReturns
  <2>2. /\ one \in SaveRecords /\ one.cancelled = stateSaves[n].cancelled /\ one.state = "over"
        /\ one.value = stateSaves[n].value /\ one.failed = stateSaves[n].failed
    BY <1>3, <2>1 DEF SaveRecords
  <2> HIDE DEF one
  <2>3. saveOp' \in Nat /\ stateFile' \in Nat
    BY <1>1, <2>1 DEF SavesTyped
  <2>4. unstopped = {} /\ n = Len(stateSaves) => stateFile = one.value \/ one.failed
    <3> SUFFICES ASSUME unstopped = {}, n = Len(stateSaves) PROVE stateFile = one.value \/ one.failed
      OBVIOUS
    <3>1. stateSaves # <<>>
      BY <1>3, <2>1
    <3> QED BY Zenon, <2>1, <2>2, <3>1 DEF GlobalInv, LastSaveCounts
  <2> QED BY <1>5, <2>1, <2>2, <2>3, <2>4
<1> QED BY Zenon, <1>4, <1>6, <1>7, <1>8 DEF SaveNext

\* Leisure functions leave the saves alone.
LEMMA LeisureStep ==
  ASSUME GlobalInv, LeisureNext
  PROVE  GlobalInv'
<1>1. /\ stateSaves' = stateSaves /\ saveOp' = saveOp /\ stateFile' = stateFile /\ unstopped' = unstopped
  BY DEF LeisureNext, BeginWork, EndWork, RunAtLeisure, RunLeisureFunctions, saveVars
<1>2. unstopped' = {} => OlderSavesAreHarmless' /\ LastSaveCounts'
  BY <1>1 DEF GlobalInv, OlderSavesAreHarmless, LastSaveCounts
<1>3. SavesTyped /\ LeisureComes
  BY DEF GlobalInv
<1>4. /\ stateSaves' \in Seq(SaveRecords) /\ saveOp' \in Nat /\ stateFile' \in Nat
  BY <1>1, <1>3 DEF SavesTyped
<1>5. /\ leisureClosures \in Seq(LeisureFunctions) /\ ran \in [LeisureFunctions -> Nat]
      /\ workCount \in Nat /\ bunched \subseteq LeisureFunctions
      /\ Len(leisureClosures) \in Nat /\ DOMAIN leisureClosures = 1 .. Len(leisureClosures)
      /\ \A i \in DOMAIN leisureClosures : leisureClosures[i] \in LeisureFunctions
  BY <1>3 DEF SavesTyped
<1>6. ASSUME SavesTyped', LeisureComes' PROVE GlobalInv'
  BY <1>2, <1>6 DEF GlobalInv
<1>7. CASE BeginWork \/ EndWork
  <2>1. /\ workCount' \in Nat /\ UNCHANGED <<leisureClosures, ran, bunched>>
    BY <1>5, <1>7 DEF BeginWork, EndWork
  <2>2. SavesTyped'
    BY <1>4, <1>5, <2>1 DEF SavesTyped
  <2>3. leisureClosures # <<>> /\ workCount' = 0 => leisureIdle'
    <3>1. CASE BeginWork
      BY <1>3, <1>5, <3>1 DEF BeginWork, LeisureComes
    <3>2. CASE EndWork
      BY Zenon, <3>2 DEF EndWork
    <3> QED BY <1>7, <3>1, <3>2
  <2>4. LeisureComes'
    BY <1>3, <2>1, <2>3 DEF LeisureComes
  <2> QED BY <1>6, <2>2, <2>4
<1>8. ASSUME NEW f \in LeisureFunctions, RunAtLeisure(f) PROVE GlobalInv'
  <2>1. /\ ran[f] = 0 /\ leisureClosures' = Append(leisureClosures, f)
        /\ UNCHANGED <<workCount, ran, bunched>>
    BY <1>8 DEF RunAtLeisure
  <2>2. SavesTyped'
    BY <1>4, <1>5, <2>1 DEF SavesTyped
  <2>3. workCount' = 0 => leisureIdle'
    BY Zenon, <1>8 DEF RunAtLeisure
  <2>4. \A i \in DOMAIN leisureClosures' :
          leisureClosures'[i] = f \/ (i \in DOMAIN leisureClosures /\ leisureClosures'[i] = leisureClosures[i])
    BY <1>5, <2>1
  <2>5. \A g \in LeisureFunctions : ran'[g] > 0 => \A i \in DOMAIN leisureClosures' : leisureClosures'[i] # g
    BY <1>3, <2>1, <2>4 DEF LeisureComes
  <2>6. \A g \in LeisureFunctions : g \notin bunched' => ran'[g] <= 1
    BY <1>3, <2>1 DEF LeisureComes
  <2> QED BY <1>6, <2>2, <2>3, <2>5, <2>6 DEF LeisureComes
<1>9. ASSUME NEW again, RunLeisureFunctions(again) PROVE GlobalInv'
  <2> DEFINE n == Len(leisureClosures)
             runs == workCount = 0 /\ n > 0
             listed == {leisureClosures[i] : i \in 1 .. n}
  <2>1. /\ again \in 0 .. (IF n > 1 THEN n - 1 ELSE 0) /\ workCount' = workCount
        /\ ran' = IF runs THEN [ran EXCEPT ![Head(leisureClosures)] = @ + 1 + again] ELSE ran
        /\ bunched' = IF runs /\ n > 1 THEN bunched \cup listed ELSE bunched
        /\ leisureClosures' = IF runs THEN <<>> ELSE leisureClosures
    BY <1>9 DEF RunLeisureFunctions
  <2>2. CASE ~runs
    <3>1. workCount # 0 \/ leisureClosures = <<>>
      BY <1>5, <2>2
    <3>2. ran' = ran /\ bunched' = bunched /\ leisureClosures' = leisureClosures
      BY <2>1, <2>2
    <3>3. SavesTyped'
      BY <1>4, <1>5, <2>1, <3>2 DEF SavesTyped
    <3>4. LeisureComes'
      BY <1>3, <2>1, <3>1, <3>2 DEF LeisureComes
    <3> QED BY <1>6, <3>3, <3>4
  <2>3. CASE runs
    <3> DEFINE h == Head(leisureClosures)
    <3>1. 1 \in DOMAIN leisureClosures /\ h = leisureClosures[1] /\ h \in LeisureFunctions /\ h \in listed
      BY <1>5, <2>3
    <3>2. ran[h] = 0
      BY <1>3, <1>5, <3>1 DEF LeisureComes
    <3> HIDE DEF h, listed
    <3>3. leisureClosures' = <<>> /\ ran' = [ran EXCEPT ![h] = @ + 1 + again]
      BY <2>1, <2>3 DEF h
    <3>4. again \in Nat /\ (n > 1 \/ again = 0)
      BY <1>5, <2>1
    <3>5. listed \subseteq LeisureFunctions
      BY <1>5 DEF listed
    <3>6. bunched' = IF n > 1 THEN bunched \cup listed ELSE bunched
      BY <2>1, <2>3
    <3>7. ran' \in [LeisureFunctions -> Nat]
      BY <1>5, <3>1, <3>3, <3>4
    <3>8. SavesTyped'
      BY <1>4, <1>5, <2>1, <3>3, <3>5, <3>6, <3>7 DEF SavesTyped
    <3>9. ASSUME NEW f \in LeisureFunctions, f \notin bunched' PROVE ran'[f] <= 1
      <4>1. f \notin bunched
        BY <3>6, <3>9
      <4>2. CASE f = h
        BY <1>5, <3>1, <3>2, <3>3, <3>4, <3>6, <3>9, <4>2
      <4>3. CASE f # h
        BY <1>3, <1>5, <3>3, <4>1, <4>3 DEF LeisureComes
      <4> QED BY <4>2, <4>3
    <3>10. LeisureComes'
      BY <3>3, <3>9 DEF LeisureComes
    <3> QED BY <1>6, <3>8, <3>10
  <2> QED BY <2>2, <2>3
<1> QED BY Zenon, <1>7, <1>8, <1>9 DEF LeisureNext

\* However many saves are made and in whatever order their threads end, the last
\* one has the file, unless a save could not be stopped; and leisure comes.
THEOREM LastSaveHasTheFile == GlobalSpec => []StateAndLeisure
<1>1. GlobalInit => GlobalInv
  <2> SUFFICES ASSUME GlobalInit PROVE GlobalInv
    OBVIOUS
  <2>1. /\ stateSaves = <<>> /\ saveOp = 0 /\ stateFile = 0 /\ workCount = 0 /\ leisureClosures = <<>>
        /\ ran = [f \in LeisureFunctions |-> 0] /\ bunched = {}
    BY DEF GlobalInit, NoState
  <2>2. SavesTyped
    BY <2>1 DEF SavesTyped
  <2>3. LeisureComes
    BY <2>1 DEF LeisureComes
  <2>4. OlderSavesAreHarmless /\ LastSaveCounts
    BY <2>1 DEF OlderSavesAreHarmless, LastSaveCounts
  <2> QED BY <2>2, <2>3, <2>4 DEF GlobalInv
<1>2. GlobalInv /\ [GlobalNext]_globalVars => GlobalInv'
  <2> SUFFICES ASSUME GlobalInv, [GlobalNext]_globalVars PROVE GlobalInv'
    OBVIOUS
  <2>1. CASE SaveNext
    BY <2>1, SaveStep
  <2>2. CASE LeisureNext
    BY <2>2, LeisureStep
  <2>3. CASE UNCHANGED globalVars
    BY <2>3 DEF globalVars, GlobalInv, SavesTyped, LeisureComes, OlderSavesAreHarmless, LastSaveCounts
  <2> QED BY <2>1, <2>2, <2>3 DEF GlobalNext
<1>3. GlobalInv => StateAndLeisure
  <2> SUFFICES ASSUME GlobalInv PROVE StateAndLeisure
    OBVIOUS
  <2>1. ASSUME stateSaves # <<>>, \A n \in DOMAIN stateSaves : stateSaves[n].state = "over"
        PROVE  stateFile = stateSaves[Len(stateSaves)].value \/ stateSaves[Len(stateSaves)].failed \/ unstopped # {}
    <3>1. Len(stateSaves) \in DOMAIN stateSaves
      BY <2>1, SaveFacts DEF GlobalInv, SavesTyped
    <3>2. stateSaves[Len(stateSaves)].state = "over"
      BY <2>1, <3>1
    <3> QED BY Zenon, <2>1, <3>2 DEF GlobalInv, LastSaveCounts
  <2> QED BY <2>1 DEF GlobalInv, LeisureComes, StateAndLeisure
<1> QED BY <1>1, <1>2, <1>3, PTL DEF GlobalSpec

---------------------------------------------------------------------------
(* The prompts of the keyring.  A prompt is kept, handed over or answered, *)
(* and only one of these.                                                  *)

PromptTyped ==
  /\ DOMAIN prompt = {"mode", "task", "shown", "warning", "new", "strength"}
  /\ prompts \in 0 .. MaxPrompts /\ prompt.task \in 0 .. prompts
  /\ answers \in [1 .. MaxPrompts -> Seq({"cancel", "continue"})]
  /\ handing = NotHanding \/ handing \in (1 .. prompts) \X {"cancel", "continue"}
PromptIsKeptOnce ==
  /\ prompt.task = NoTask <=> prompt.mode = "none"
  /\ handing # NotHanding => handing[1] # prompt.task
  /\ \A n \in 1 .. prompts : n = prompt.task \/ (handing # NotHanding /\ handing[1] = n) => answers[n] = <<>>
  /\ \A n \in 1 .. prompts : n # prompt.task /\ ~(handing # NotHanding /\ handing[1] = n) => Len(answers[n]) = 1
  /\ \A n \in 1 .. MaxPrompts : n > prompts => answers[n] = <<>>
PromptInv == PromptTyped /\ PromptIsKeptOnce

\* Every step of the prompts keeps their invariant.
LEMMA PromptStep ==
  ASSUME PromptInv, PromptNext
  PROVE  PromptInv'
<1> USE DEF NoTask
<1>1. /\ MaxPrompts \in Nat /\ prompts \in Nat /\ prompts <= MaxPrompts /\ prompt.task \in Nat
      /\ prompt.task <= prompts
  BY PromptAssumption DEF PromptInv, PromptTyped
<1>2. ASSUME NEW mode \in Modes, NEW new \in BOOLEAN, NEW opens \in BOOLEAN, PromptAsync(mode, new, opens)
      PROVE  PromptInv'
  <2>0. /\ prompts < MaxPrompts /\ prompt.task = 0 /\ prompts' = prompts + 1 /\ handing' = handing
        /\ prompts' \in 1 .. MaxPrompts
    BY <1>1, <1>2 DEF PromptAsync
  <2>1. mode # "none"
    BY DEF Modes
  <2>2. /\ DOMAIN AskedFor(prompt, mode, new) = DOMAIN prompt
        /\ AskedFor(prompt, mode, new).task = prompts' /\ AskedFor(prompt, mode, new).mode = mode
    BY <2>0 DEF AskedFor, PromptInv, PromptTyped
  <2>3. handing # NotHanding => handing[1] \in 1 .. prompts
    BY <1>1 DEF PromptInv, PromptTyped
  <2>4. CASE opens
    <3>1. prompt' = AskedFor(prompt, mode, new) /\ answers' = answers
      BY <1>2, <2>4 DEF PromptAsync
    <3>2. DOMAIN prompt' = DOMAIN prompt /\ prompt'.task = prompts' /\ prompt'.mode # "none"
      BY <2>1, <2>2, <3>1
    <3>3. PromptTyped'
      BY <1>1, <2>0, <3>1, <3>2 DEF PromptInv, PromptTyped
    <3>4. PromptIsKeptOnce'
      BY <1>1, <2>0, <2>3, <3>1, <3>2 DEF PromptInv, PromptIsKeptOnce
    <3> QED BY <1>1, <3>3, <3>4 DEF PromptInv
  <2>5. CASE ~opens
    <3>1. prompt' = Taken(AskedFor(prompt, mode, new)) /\ answers' = AnswerPrompt(prompts + 1, "cancel")
      BY <1>2, <2>5 DEF PromptAsync
    <3>2. DOMAIN prompt' = DOMAIN prompt /\ prompt'.task = 0 /\ prompt'.mode = "none"
      BY <2>2, <3>1 DEF Taken, PromptInv, PromptTyped
    <3>3. /\ answers' \in [1 .. MaxPrompts -> Seq({"cancel", "continue"})]
          /\ Len(answers'[prompts']) = 1
          /\ \A n \in 1 .. MaxPrompts : n # prompts' => answers'[n] = answers[n]
      <4>1. answers[prompts'] = <<>> /\ answers \in [1 .. MaxPrompts -> Seq({"cancel", "continue"})]
        BY <1>1, <2>0 DEF PromptInv, PromptIsKeptOnce, PromptTyped
      <4>2. answers' = [answers EXCEPT ![prompts'] = Append(answers[prompts'], "cancel")]
        BY <2>0, <3>1 DEF AnswerPrompt
      <4> QED BY <2>0, <4>1, <4>2
    <3>4. PromptTyped'
      BY <1>1, <2>0, <3>2, <3>3 DEF PromptInv, PromptTyped
    <3>5. PromptIsKeptOnce'
      BY <1>1, <2>0, <2>3, <3>2, <3>3 DEF PromptInv, PromptIsKeptOnce
    <3> QED BY <1>1, <3>4, <3>5 DEF PromptInv
  <2> QED BY <2>4, <2>5
<1>3. ASSUME DOMAIN prompt' = DOMAIN prompt, prompt'.task = prompt.task, prompt'.mode = prompt.mode,
             UNCHANGED <<handing, answers, prompts>>
      PROVE  PromptInv'
  <2>1. PromptTyped'
    BY <1>3 DEF PromptInv, PromptTyped
  <2>2. PromptIsKeptOnce'
    BY <1>3 DEF PromptInv, PromptIsKeptOnce
  <2> QED BY <1>1, <2>1, <2>2 DEF PromptInv
<1>4. ASSUME NEW answer \in {"cancel", "continue"}, DOMAIN prompt' = DOMAIN prompt, prompt'.task = 0,
             prompt'.mode = "none", prompt.task # 0, handing = NotHanding, handing' = <<prompt.task, answer>>,
             UNCHANGED <<answers, prompts>>
      PROVE  PromptInv'
  <2>1. handing' # NotHanding /\ handing'[1] = prompt.task /\ handing' \in (1 .. prompts) \X {"cancel", "continue"}
    BY <1>1, <1>4 DEF NotHanding
  <2>2. PromptTyped'
    BY <1>1, <1>4, <2>1 DEF PromptInv, PromptTyped
  <2>3. PromptIsKeptOnce'
    BY <1>1, <1>4, <2>1 DEF PromptInv, PromptIsKeptOnce
  <2> QED BY <1>1, <2>2, <2>3 DEF PromptInv
<1>5. ASSUME NEW entry, NEW password, Type(entry, password) PROVE PromptInv'
  <2>1. /\ prompt' = prompt \/ prompt' = [prompt EXCEPT !.strength = PasswordStrength(password)]
        /\ UNCHANGED <<handing, answers, prompts>>
    BY <1>5 DEF Type
  <2>2. DOMAIN prompt' = DOMAIN prompt /\ prompt'.task = prompt.task /\ prompt'.mode = prompt.mode
    BY <2>1 DEF PromptInv, PromptTyped
  <2> QED BY <1>3, <2>1, <2>2
<1>6. DOMAIN Taken(prompt) = DOMAIN prompt /\ Taken(prompt).task = 0 /\ Taken(prompt).mode = "none"
  BY DEF Taken, PromptInv, PromptTyped
<1>7. DOMAIN Closed(prompt) = DOMAIN prompt /\ Closed(prompt).task = prompt.task /\ Closed(prompt).mode = prompt.mode
  BY DEF Closed, PromptInv, PromptTyped
<1>8. CASE CompletePrompt
  <2>1. CASE Refused
    <3>1. PICK w : prompt' = [prompt EXCEPT !.warning = w] /\ UNCHANGED <<handing, answers, prompts>>
      BY <1>8, <2>1 DEF CompletePrompt
    <3>2. DOMAIN prompt' = DOMAIN prompt /\ prompt'.task = prompt.task /\ prompt'.mode = prompt.mode
      BY <3>1 DEF PromptInv, PromptTyped
    <3> QED BY <1>3, <3>1, <3>2
  <2>2. CASE ~Refused
    <3>1. /\ prompt' = Taken(prompt) /\ handing' = <<prompt.task, "continue">> /\ handing = NotHanding
          /\ prompt.task # 0 /\ UNCHANGED <<answers, prompts>>
      BY <1>8, <2>2 DEF CompletePrompt
    <3> QED BY <1>4, <1>6, <3>1
  <2> QED BY <2>1, <2>2
<1>9. CASE CancelPrompt
  <2>1. CASE prompt.mode = "none"
    <3>1. prompt' = Closed(prompt) /\ UNCHANGED <<handing, answers, prompts>>
      BY <1>9, <2>1 DEF CancelPrompt
    <3> QED BY <1>3, <1>7, <3>1
  <2>2. CASE prompt.mode # "none"
    <3>1. /\ prompt' = Taken(prompt) /\ handing' = <<prompt.task, "cancel">> /\ handing = NotHanding
          /\ prompt.task # 0 /\ UNCHANGED <<answers, prompts>>
      BY <1>9, <2>2 DEF CancelPrompt
    <3> QED BY <1>4, <1>6, <3>1
  <2> QED BY <2>1, <2>2
<1>10. CASE ClosePrompt
  BY <1>3, <1>7, <1>10 DEF ClosePrompt
<1>11. CASE DisposePrompt
  <2>1. /\ prompt' = Taken(Closed(prompt)) /\ handing' = <<prompt.task, "cancel">> /\ handing = NotHanding
        /\ prompt.task # 0 /\ UNCHANGED <<answers, prompts>>
    BY <1>11 DEF DisposePrompt
  <2>2. DOMAIN prompt' = DOMAIN prompt /\ prompt'.task = 0 /\ prompt'.mode = "none"
    BY <1>7, <2>1 DEF Taken, PromptInv, PromptTyped
  <2> QED BY <1>4, <2>1, <2>2
<1>12. CASE HandOver
  <2> DEFINE k == handing[1]
  <2>1. /\ handing # NotHanding /\ answers' = AnswerPrompt(handing[1], handing[2]) /\ handing' = NotHanding
        /\ UNCHANGED <<prompt, prompts>>
    BY <1>12 DEF HandOver
  <2>2. k \in 1 .. prompts /\ handing[2] \in {"cancel", "continue"} /\ k # prompt.task /\ answers[k] = <<>>
    <3>1. k \in 1 .. prompts /\ handing[2] \in {"cancel", "continue"}
      BY <2>1 DEF PromptInv, PromptTyped
    <3> QED BY <2>1, <3>1 DEF PromptInv, PromptIsKeptOnce
  <2>3. /\ answers' \in [1 .. MaxPrompts -> Seq({"cancel", "continue"})]
        /\ Len(answers'[k]) = 1
        /\ \A n \in 1 .. MaxPrompts : n # k => answers'[n] = answers[n]
    <3>1. answers' = [answers EXCEPT ![k] = Append(answers[k], handing[2])]
      BY <2>1 DEF AnswerPrompt
    <3>2. k \in 1 .. MaxPrompts /\ answers \in [1 .. MaxPrompts -> Seq({"cancel", "continue"})]
      BY <1>1, <2>2 DEF PromptInv, PromptTyped
    <3> HIDE DEF k
    <3> QED BY <2>2, <3>1, <3>2
  <2>4. PromptTyped'
    BY <2>1, <2>3 DEF PromptInv, PromptTyped
  <2>5. PromptIsKeptOnce'
    <3> HIDE DEF k
    <3>a. /\ \A n \in 1 .. prompts : n \in 1 .. MaxPrompts
          /\ \A n \in 1 .. prompts : n = prompt.task => answers[n] = <<>>
          /\ \A n \in 1 .. MaxPrompts : n > prompts => answers[n] = <<>>
      BY <1>1 DEF PromptInv, PromptIsKeptOnce
    <3>b. \A n \in 1 .. prompts : n # prompt.task /\ n # k => Len(answers[n]) = 1
      BY DEF PromptInv, PromptIsKeptOnce, k
    <3>1. \A n \in 1 .. prompts : n # prompt.task => Len(answers'[n]) = 1
      BY <2>3, <3>a, <3>b
    <3>2. \A n \in 1 .. prompts : n = prompt.task => answers'[n] = <<>>
      BY <2>2, <2>3, <3>a
    <3>3. \A n \in 1 .. MaxPrompts : n > prompts => answers'[n] = <<>>
      <4>1. \A n \in 1 .. MaxPrompts : n > prompts => n # k
        BY <1>1, <2>2
      <4> QED BY <2>3, <3>a, <4>1
    <3> QED BY <2>1, <3>1, <3>2, <3>3 DEF PromptInv, PromptIsKeptOnce
  <2> QED BY <1>1, <2>4, <2>5 DEF PromptInv
<1> QED BY Zenon, <1>2, <1>5, <1>8, <1>9, <1>10, <1>11, <1>12 DEF PromptNext

\* However many prompts come, are completed, cancelled and closed, and also in the
\* middle of each other's answers, each is answered once.
THEOREM PromptsAreAnswered == PromptSpec => []PromptsAnsweredOnce
<1>1. PromptInit => PromptInv
  <2> SUFFICES ASSUME PromptInit PROVE PromptInv
    OBVIOUS
  <2>1. /\ DOMAIN prompt = {"mode", "task", "shown", "warning", "new", "strength"}
        /\ prompt.task = NoTask /\ prompt.mode = "none"
        /\ handing = NotHanding /\ answers = [n \in 1 .. MaxPrompts |-> <<>>] /\ prompts = 0
    BY DEF PromptInit
  <2>2. PromptTyped
    BY <2>1, PromptAssumption DEF PromptTyped, NoTask
  <2>3. PromptIsKeptOnce
    BY <2>1, PromptAssumption DEF PromptIsKeptOnce, NoTask
  <2> QED BY <2>2, <2>3 DEF PromptInv
<1>2. PromptInv /\ [PromptNext]_promptVars => PromptInv'
  <2> SUFFICES ASSUME PromptInv, [PromptNext]_promptVars PROVE PromptInv'
    OBVIOUS
  <2>1. CASE PromptNext
    BY <2>1, PromptStep
  <2>2. CASE UNCHANGED promptVars
    BY <2>2 DEF promptVars, PromptInv, PromptTyped, PromptIsKeptOnce
  <2> QED BY <2>1, <2>2
<1>3. PromptInv => PromptsAnsweredOnce
  <2> SUFFICES ASSUME PromptInv PROVE PromptsAnsweredOnce
    OBVIOUS
  <2>1. (prompt.task = NoTask) = (prompt.mode = "none")
    BY DEF PromptInv, PromptIsKeptOnce
  <2>2. ASSUME NEW n \in 1 .. prompts
        PROVE  Len(answers[n]) = IF prompt.task = n \/ (handing # NotHanding /\ handing[1] = n) THEN 0 ELSE 1
    <3>1. CASE prompt.task = n \/ (handing # NotHanding /\ handing[1] = n)
      <4>1. answers[n] = <<>>
        BY Zenon, <3>1 DEF PromptInv, PromptIsKeptOnce
      <4> QED BY <3>1, <4>1
    <3>2. CASE ~(prompt.task = n \/ (handing # NotHanding /\ handing[1] = n))
      <4>1. Len(answers[n]) = 1
        BY Zenon, <3>2 DEF PromptInv, PromptIsKeptOnce
      <4> QED BY <3>2, <4>1
    <3> QED BY <3>1, <3>2
  <2> QED BY <2>1, <2>2 DEF PromptsAnsweredOnce
<1> QED BY <1>1, <1>2, <1>3, PTL DEF PromptSpec

---------------------------------------------------------------------------
(* The network agent.  A request that is not cancelled is in the table,    *)
(* under its id: so the callback of a search, which looks at that only,    *)
(* and a response, which looks at the table only, never answer for the     *)
(* same request; and a request leaves the table as it is answered.         *)

CallRecords == [id : RequestIds \cup {"none"}, flags : Flags, entries : BOOLEAN, cancelled : BOOLEAN, answers : Nat]
Screens == [kind : {"dialog", "notification", "plugin"}, id : RequestIds]
AgentStates ==
  [agentRequests : [RequestIds -> Nat], call : [Serials -> CallRecords], searches : SUBSET Nat, screen : SUBSET Screens,
   saves : [Serials -> [phase : {"none", "deleting", "storing", "saved"}, left : Int]]]

InTable(a, s) == a.agentRequests[a.call[s].id] = s
AnsweredIfGone(a, s) ==
  /\ a.call[s].id \in RequestIds
  /\ InTable(a, s) => a.call[s].answers = 0
  /\ ~InTable(a, s) => a.call[s].answers = 1
  /\ ~a.call[s].cancelled => InTable(a, s)
AgentOK(a, n) ==
  /\ a \in AgentStates /\ n \in 0 .. MaxAgentRequests
  /\ a.searches \subseteq 1 .. n
  /\ \A id \in RequestIds : a.agentRequests[id] # 0 =>
       a.agentRequests[id] \in 1 .. n /\ a.call[a.agentRequests[id]].id = id
  /\ \A s \in 1 .. n : AnsweredIfGone(a, s)

\* The types of an agent and of its calls.
LEMMA AgentFacts ==
  ASSUME NEW a \in AgentStates
  PROVE  /\ a.agentRequests \in [RequestIds -> Nat] /\ a.call \in [Serials -> CallRecords]
         /\ a.searches \subseteq Nat /\ a.screen \subseteq Screens
         /\ a.saves \in [Serials -> [phase : {"none", "deleting", "storing", "saved"}, left : Int]]
         /\ \A s \in Serials : /\ a.call[s] \in CallRecords /\ a.call[s].answers \in Nat /\ a.call[s].cancelled \in BOOLEAN
                               /\ a.call[s].flags \in Flags
<1>1. /\ a.agentRequests \in [RequestIds -> Nat] /\ a.call \in [Serials -> CallRecords]
      /\ a.searches \subseteq Nat /\ a.screen \subseteq Screens
      /\ a.saves \in [Serials -> [phase : {"none", "deleting", "storing", "saved"}, left : Int]]
  BY DEF AgentStates
<1>2. \A c \in CallRecords : c.answers \in Nat /\ c.cancelled \in BOOLEAN /\ c.flags \in Flags
  BY DEF CallRecords
<1> QED BY <1>1, <1>2

\* What is shown, searched and saved, and what a request asked for, may change.
LEMMA OtherwiseTheSame ==
  ASSUME NEW a, NEW n, AgentOK(a, n), NEW b \in AgentStates,
         b.agentRequests = a.agentRequests, b.searches \subseteq 1 .. n,
         \A s \in 1 .. n : /\ b.call[s].id = a.call[s].id /\ b.call[s].answers = a.call[s].answers
                           /\ b.call[s].cancelled = a.call[s].cancelled
  PROVE  AgentOK(b, n) /\ \A s \in 1 .. n : InTable(b, s) <=> InTable(a, s)
<1>1. \A s \in 1 .. n : InTable(b, s) <=> InTable(a, s)
  BY DEF InTable
<1>2. \A s \in 1 .. n : AnsweredIfGone(b, s)
  BY <1>1 DEF AgentOK, AnsweredIfGone
<1>3. \A id \in RequestIds : b.agentRequests[id] # 0 =>
        b.agentRequests[id] \in 1 .. n /\ b.call[b.agentRequests[id]].id = id
  BY DEF AgentOK
<1> QED BY <1>1, <1>2, <1>3 DEF AgentOK

\* A request in the table is answered and removed.
LEMMA RequestGoes ==
  ASSUME NEW a, NEW n, AgentOK(a, n), NEW s \in 1 .. n, InTable(a, s), NEW b \in AgentStates, NEW c,
         b.agentRequests = [a.agentRequests EXCEPT ![a.call[s].id] = 0],
         b.call = [a.call EXCEPT ![s] = c], b.searches = a.searches,
         c.id = a.call[s].id, c.answers = a.call[s].answers + 1, c.cancelled = TRUE
  PROVE  AgentOK(b, n) /\ b.agentRequests[a.call[s].id] = 0
<1>1. /\ a \in AgentStates /\ n \in Nat /\ n <= MaxAgentRequests /\ MaxAgentRequests \in Nat
      /\ a.call[s].id \in RequestIds /\ a.call[s].answers = 0
  BY AgentAssumption DEF AgentOK, AnsweredIfGone
<1>2. \A m \in 1 .. n : m \in Serials /\ m # 0
  BY <1>1 DEF Serials
<1>3. /\ b.agentRequests[a.call[s].id] = 0
      /\ \A id \in RequestIds : id # a.call[s].id => b.agentRequests[id] = a.agentRequests[id]
      /\ b.call[s] = c
      /\ \A m \in 1 .. n : m # s => b.call[m] = a.call[m]
  BY <1>1, <1>2, AgentFacts
<1>4. AnsweredIfGone(b, s)
  <2>1. b.call[s].id \in RequestIds /\ b.agentRequests[b.call[s].id] = 0 /\ b.call[s].answers = 1 /\ b.call[s].cancelled
    BY <1>1, <1>3
  <2>2. ~InTable(b, s)
    BY <1>2, <2>1 DEF InTable
  <2> QED BY Zenon, <2>1, <2>2 DEF AnsweredIfGone
<1>5. ASSUME NEW m \in 1 .. n, m # s PROVE AnsweredIfGone(b, m)
  <2>1. b.call[m] = a.call[m] /\ AnsweredIfGone(a, m)
    BY <1>3, <1>5 DEF AgentOK
  <2>2. InTable(b, m) <=> InTable(a, m)
    <3>1. a.call[m].id \in RequestIds
      BY <2>1 DEF AnsweredIfGone
    <3>2. CASE a.call[m].id = a.call[s].id
      BY <1>2, <1>3, <1>5, <2>1, <3>2 DEF InTable
    <3>3. CASE a.call[m].id # a.call[s].id
      BY <1>3, <2>1, <3>1, <3>3 DEF InTable
    <3> QED BY <3>2, <3>3
  <2> QED BY Zenon, <2>1, <2>2 DEF AnsweredIfGone
<1>6. ASSUME NEW id \in RequestIds, b.agentRequests[id] # 0
      PROVE  b.agentRequests[id] \in 1 .. n /\ b.call[b.agentRequests[id]].id = id
  <2>1. id # a.call[s].id /\ b.agentRequests[id] = a.agentRequests[id]
    BY <1>3, <1>6
  <2>2. a.agentRequests[id] \in 1 .. n /\ a.call[a.agentRequests[id]].id = id
    BY <1>6, <2>1 DEF AgentOK
  <2>3. a.agentRequests[id] # s
    BY <2>1, <2>2
  <2> QED BY <1>3, <2>1, <2>2, <2>3
<1> QED BY <1>1, <1>3, <1>4, <1>5, <1>6 DEF AgentOK

\* A request in the table that is finished or cancelled leaves it and is answered once.
LEMMA FinishFacts ==
  ASSUME NEW a, NEW n, AgentOK(a, n), NEW s \in 1 .. n, InTable(a, s)
  PROVE  AgentOK(Finish(a, s), n) /\ AgentOK(RequestCancel(a, s), n)
         /\ RequestCancel(a, s).agentRequests[a.call[s].id] = 0
<1> DEFINE c == [a.call[s] EXCEPT !.answers = a.call[s].answers + 1, !.cancelled = TRUE]
           t == [a.agentRequests EXCEPT ![a.call[s].id] = 0]
           d == [a.call EXCEPT ![s] = c]
           v == a.screen \ {Shows("dialog", a.call[s].id)}
<1>1. a \in AgentStates /\ s \in Serials /\ a.call[s] \in CallRecords /\ a.call[s].id \in RequestIds
  <2>1. a \in AgentStates /\ s \in Serials /\ a.call[s].id \in RequestIds
    BY AgentAssumption DEF AgentOK, AnsweredIfGone, Serials
  <2> QED BY <2>1, AgentFacts
<1>2. c \in CallRecords /\ c.id = a.call[s].id /\ c.answers = a.call[s].answers + 1 /\ c.cancelled = TRUE
  <2>1. c \in CallRecords
    <3>1. \A r \in CallRecords, k \in Nat, b \in BOOLEAN : [r EXCEPT !.answers = k, !.cancelled = b] \in CallRecords
      BY DEF CallRecords
    <3>2. a.call[s].answers + 1 \in Nat /\ TRUE \in BOOLEAN
      BY <1>1 DEF CallRecords
    <3> QED BY <1>1, <3>1, <3>2
  <2>2. c.id = a.call[s].id /\ c.answers = a.call[s].answers + 1
    BY <1>1 DEF CallRecords
  <2>3. c.cancelled = TRUE
    BY <1>1 DEF CallRecords
  <2> QED BY <2>1, <2>2, <2>3
<1>3. t \in [RequestIds -> Nat] /\ d \in [Serials -> CallRecords] /\ v \in SUBSET Screens
  <2> HIDE DEF c
  <2> QED BY <1>1, <1>2, AgentFacts
<1>4. Finish(a, s) = [a EXCEPT !.agentRequests = t, !.call = d]
  <2> DEFINE e == [a.call[s] EXCEPT !.answers = a.call[s].answers + 1]
             f == [a EXCEPT !.call = [a.call EXCEPT ![s] = e]]
  <2>1. AnswerRequest(a, s) = f
    BY DEF AnswerRequest
  <2>2. e \in CallRecords /\ e.id = a.call[s].id /\ [e EXCEPT !.cancelled = TRUE] = c
    BY <1>1 DEF CallRecords
  <2> HIDE DEF e, c
  <2>3. f.call[s] = e /\ f.agentRequests = a.agentRequests /\ f.call = [a.call EXCEPT ![s] = e]
    BY <1>1 DEF AgentStates
  <2>4. RemoveRequest(f, s) = [f EXCEPT !.agentRequests = [f.agentRequests EXCEPT ![f.call[s].id] = 0],
                                        !.call = [f.call EXCEPT ![s] = [f.call[s] EXCEPT !.cancelled = TRUE]]]
    BY <1>1 DEF RemoveRequest, NoCall, AgentStates
  <2>5. [f.agentRequests EXCEPT ![f.call[s].id] = 0] = t
    BY <2>2, <2>3
  <2>6. [f.call EXCEPT ![s] = [f.call[s] EXCEPT !.cancelled = TRUE]] = d
    <3>1. [[a.call EXCEPT ![s] = e] EXCEPT ![s] = c] = [a.call EXCEPT ![s] = c]
      BY <1>1, AgentFacts
    <3> QED BY <2>2, <2>3, <3>1
  <2> HIDE DEF t, d
  <2> QED BY <1>1, <2>1, <2>4, <2>5, <2>6 DEF Finish, AgentStates
<1>5. RequestCancel(a, s) = [a EXCEPT !.agentRequests = t, !.call = d, !.screen = v]
  <2> DEFINE e == [a.call[s] EXCEPT !.answers = a.call[s].answers + 1]
             f == [a EXCEPT !.call = [a.call EXCEPT ![s] = e], !.screen = v]
  <2>1. CancelShown(AnswerRequest(a, s), a.call[s].id) = f
    <3>1. AnswerRequest(a, s) = [a EXCEPT !.call = [a.call EXCEPT ![s] = e]]
      BY DEF AnswerRequest
    <3> HIDE DEF e
    <3> QED BY <1>1, <3>1 DEF CancelShown, AgentStates
  <2>2. e \in CallRecords /\ e.id = a.call[s].id /\ [e EXCEPT !.cancelled = TRUE] = c
    BY <1>1 DEF CallRecords
  <2> HIDE DEF e, c, v
  <2>3. f.call[s] = e /\ f.agentRequests = a.agentRequests /\ f.call = [a.call EXCEPT ![s] = e]
    BY <1>1 DEF AgentStates
  <2>4. RemoveRequest(f, s) = [f EXCEPT !.agentRequests = [f.agentRequests EXCEPT ![f.call[s].id] = 0],
                                        !.call = [f.call EXCEPT ![s] = [f.call[s] EXCEPT !.cancelled = TRUE]]]
    BY <1>1 DEF RemoveRequest, NoCall, AgentStates
  <2>5. [f.agentRequests EXCEPT ![f.call[s].id] = 0] = t
    BY <2>2, <2>3
  <2>6. [f.call EXCEPT ![s] = [f.call[s] EXCEPT !.cancelled = TRUE]] = d
    <3>1. [[a.call EXCEPT ![s] = e] EXCEPT ![s] = c] = [a.call EXCEPT ![s] = c]
      BY <1>1, AgentFacts
    <3> QED BY <2>2, <2>3, <3>1
  <2> HIDE DEF t, d
  <2> QED BY <1>1, <2>1, <2>4, <2>5, <2>6 DEF RequestCancel, AgentStates
<1> HIDE DEF c, v
<1>6. AgentOK(Finish(a, s), n)
  <2> DEFINE b == [a EXCEPT !.agentRequests = t, !.call = d]
  <2>1. b \in AgentStates /\ b.agentRequests = t /\ b.call = d /\ b.searches = a.searches
    <3> HIDE DEF t, d
    <3> QED BY <1>1, <1>3 DEF AgentStates
  <2> HIDE DEF b
  <2>2. AgentOK(b, n)
    BY <1>2, <2>1, RequestGoes
  <2> QED BY <1>4, <2>2 DEF b
<1>7. AgentOK(RequestCancel(a, s), n) /\ RequestCancel(a, s).agentRequests[a.call[s].id] = 0
  <2> DEFINE b == [a EXCEPT !.agentRequests = t, !.call = d, !.screen = v]
  <2>1. b \in AgentStates /\ b.agentRequests = t /\ b.call = d /\ b.searches = a.searches
    <3> HIDE DEF t, d
    <3> QED BY <1>1, <1>3 DEF AgentStates
  <2> HIDE DEF b
  <2>2. AgentOK(b, n)
    BY <1>2, <2>1, RequestGoes
  <2>3. b.agentRequests[a.call[s].id] = 0
    BY <1>1, <2>1, AgentFacts
  <2> QED BY <1>5, <2>2, <2>3 DEF b
<1> QED BY <1>6, <1>7

\* A change of the screen, the searches and the saves.
LEMMA ShownFacts ==
  ASSUME NEW a, NEW n, AgentOK(a, n), NEW v \in SUBSET Screens, NEW r \in SUBSET (1 .. n)
  PROVE  /\ AgentOK([a EXCEPT !.screen = v], n)
         /\ AgentOK([a EXCEPT !.searches = r], n)
<1>0. a \in AgentStates /\ n \in Nat
  BY DEF AgentOK
<1>1. AgentOK([a EXCEPT !.screen = v], n)
  <2> DEFINE b == [a EXCEPT !.screen = v]
  <2>1. b \in AgentStates /\ b.agentRequests = a.agentRequests /\ b.call = a.call /\ b.searches = a.searches
    BY <1>0 DEF AgentStates
  <2>2. b.searches \subseteq 1 .. n
    BY <2>1 DEF AgentOK
  <2> HIDE DEF b
  <2>3. AgentOK(b, n)
    BY <2>1, <2>2, OtherwiseTheSame
  <2> QED BY <2>3 DEF b
<1>2. AgentOK([a EXCEPT !.searches = r], n)
  <2> DEFINE b == [a EXCEPT !.searches = r]
  <2>0. r \in SUBSET Nat
    BY <1>0
  <2>1. b \in AgentStates /\ b.agentRequests = a.agentRequests /\ b.call = a.call /\ b.searches = r
    BY <1>0, <2>0 DEF AgentStates
  <2> HIDE DEF b
  <2>2. AgentOK(b, n)
    BY <2>1, OtherwiseTheSame
  <2> QED BY <2>2 DEF b
<1> QED BY <1>1, <1>2

\* Saving the secrets of a call touches neither table nor calls.
LEMMA SavingFacts ==
  ASSUME NEW a, NEW n, AgentOK(a, n), NEW s \in 1 .. n
  PROVE  /\ AgentOK(SaveSecrets(a, s), n)
         /\ SaveSecrets(a, s).agentRequests = a.agentRequests /\ SaveSecrets(a, s).call = a.call
<1> DEFINE e == [a.saves[s] EXCEPT !.phase = "deleting"]
           b == [a EXCEPT !.saves = [a.saves EXCEPT ![s] = e]]
<1>0. a \in AgentStates /\ n \in Nat /\ s \in Serials /\ a.searches \subseteq 1 .. n
  BY AgentAssumption DEF AgentOK, Serials
<1>1. SaveSecrets(a, s) = b
  BY DEF SaveSecrets
<1>2. a.saves[s] \in [phase : {"none", "deleting", "storing", "saved"}, left : Int]
  BY <1>0, AgentFacts
<1>3. e \in [phase : {"none", "deleting", "storing", "saved"}, left : Int]
  BY <1>2
<1> HIDE DEF e
<1>4. b \in AgentStates /\ b.agentRequests = a.agentRequests /\ b.call = a.call /\ b.searches = a.searches
  BY <1>0, <1>3 DEF AgentStates
<1> HIDE DEF b
<1>5. AgentOK(b, n)
  BY <1>0, <1>4, OtherwiseTheSame
<1> QED BY <1>1, <1>4, <1>5

\* request_secrets_from_ui()
LEMMA AskingFacts ==
  ASSUME NEW a, NEW n, AgentOK(a, n), NEW s \in 1 .. n
  PROVE  AgentOK(RequestSecretsFromUi(a, s), n)
<1> DEFINE id == a.call[s].id
           c == [a.call[s] EXCEPT !.entries = TRUE]
           w == IF "user" \in a.call[s].flags THEN Handled(id) ELSE Shows("notification", id)
           d == [a.call EXCEPT ![s] = c]
           v == a.screen \cup {w}
           b == [a EXCEPT !.call = d, !.screen = v]
<1>0. a \in AgentStates /\ n \in Nat /\ s \in Serials /\ a.searches \subseteq 1 .. n /\ id \in RequestIds
      /\ \A m \in 1 .. n : m \in Serials
  BY AgentAssumption DEF AgentOK, AnsweredIfGone, Serials
<1>1. w \in Screens
  BY <1>0 DEF Handled, Shows, Screens
<1>2. a.call[s] \in CallRecords
  BY <1>0, AgentFacts
<1>3. c \in CallRecords
  <2>1. \A r \in CallRecords, e \in BOOLEAN : [r EXCEPT !.entries = e] \in CallRecords
    BY DEF CallRecords
  <2> QED BY <1>2, <2>1
<1>4. c.id = a.call[s].id /\ c.answers = a.call[s].answers /\ c.cancelled = a.call[s].cancelled
  BY <1>2 DEF CallRecords
<1>5. RequestSecretsFromUi(a, s) = b
  BY <1>0 DEF RequestSecretsFromUi, AgentStates
<1> HIDE DEF c, w
<1>6. d \in [Serials -> CallRecords] /\ v \in SUBSET Screens
      /\ d[s] = c /\ \A m \in Serials : m # s => d[m] = a.call[m]
  BY <1>0, <1>1, <1>3, AgentFacts
<1> HIDE DEF d, v
<1>7. b \in AgentStates /\ b.agentRequests = a.agentRequests /\ b.call = d /\ b.searches = a.searches
  BY <1>0, <1>6 DEF AgentStates
<1> HIDE DEF b
<1>8. \A m \in 1 .. n : /\ b.call[m].id = a.call[m].id /\ b.call[m].answers = a.call[m].answers
                        /\ b.call[m].cancelled = a.call[m].cancelled
  BY <1>0, <1>4, <1>6, <1>7
<1>9. AgentOK(b, n)
  BY <1>0, <1>7, <1>8, OtherwiseTheSame
<1> QED BY <1>5, <1>9

\* shell_network_agent_respond()
LEMMA RespondFacts ==
  ASSUME NEW a, NEW n, AgentOK(a, n), NEW id \in RequestIds, NEW confirmed
  PROVE  AgentOK(Respond(a, id, confirmed), n)
<1> DEFINE s == a.agentRequests[id]
<1>1. CASE ~LiveRequests(a, id)
  BY <1>1 DEF Respond
<1>2. CASE LiveRequests(a, id)
  <2>1. s # 0
    BY <1>2 DEF LiveRequests, NoCall
  <2>2. s \in 1 .. n /\ a.call[s].id = id
    BY <2>1 DEF AgentOK
  <2>3. InTable(a, s)
    BY <2>2 DEF InTable
  <2>4. Respond(a, id, confirmed) \in {Finish(SaveSecrets(a, s), s), Finish(a, s)}
    BY <1>2 DEF Respond
  <2> HIDE DEF s
  <2>5. AgentOK(Finish(a, s), n)
    BY <2>2, <2>3, FinishFacts
  <2> DEFINE b == SaveSecrets(a, s)
  <2>6. AgentOK(b, n) /\ b.agentRequests = a.agentRequests /\ b.call = a.call
    BY <2>2, SavingFacts
  <2>7. InTable(b, s)
    BY <2>3, <2>6 DEF InTable
  <2> HIDE DEF b
  <2>8. AgentOK(Finish(b, s), n)
    BY <2>2, <2>6, <2>7, FinishFacts
  <2> QED BY <2>4, <2>5, <2>8 DEF b
<1> QED BY <1>1, <1>2

AgentInv == AgentOK(Agent, gotAsked)

\* A new request, once its id is free.
LEMMA RequestComes ==
  ASSUME NEW a, NEW n, AgentOK(a, n), n < MaxAgentRequests, NEW id \in RequestIds, a.agentRequests[id] = 0,
         NEW flags \in Flags
  PROVE  AgentOK([a EXCEPT !.agentRequests[id] = n + 1, !.call[n + 1] = Made(id, flags)], n + 1)
<1> DEFINE c == Made(id, flags)
           t == [a.agentRequests EXCEPT ![id] = n + 1]
           d == [a.call EXCEPT ![n + 1] = c]
           b == [a EXCEPT !.agentRequests = t, !.call = d]
<1>0. /\ a \in AgentStates /\ n \in Nat /\ n + 1 \in Serials /\ n + 1 \in 0 .. MaxAgentRequests
      /\ a.searches \subseteq 1 .. n /\ \A m \in 1 .. n : m \in Serials /\ m # n + 1 /\ m # 0
      /\ \A m \in 1 .. (n + 1) : m \in 1 .. n \/ m = n + 1
      /\ \A m \in 1 .. n : m \in 1 .. (n + 1)
      /\ n + 1 # 0
  BY AgentAssumption DEF AgentOK, Serials
<1>1. c \in CallRecords
  BY DEF Made, NotAsked, CallRecords, Flags
<1>2. c.id = id /\ c.answers = 0 /\ ~c.cancelled
  BY DEF Made, NotAsked
<1> HIDE DEF c
<1>3. /\ t \in [RequestIds -> Nat] /\ d \in [Serials -> CallRecords]
      /\ t[id] = n + 1 /\ d[n + 1] = c
      /\ \A i \in RequestIds : i # id => t[i] = a.agentRequests[i]
      /\ \A m \in Serials : m # n + 1 => d[m] = a.call[m]
  BY <1>0, <1>1, AgentFacts
<1> HIDE DEF t, d
<1>4. b \in AgentStates /\ b.agentRequests = t /\ b.call = d /\ b.searches = a.searches
  BY <1>0, <1>3 DEF AgentStates
<1>5. [a EXCEPT !.agentRequests[id] = n + 1, !.call[n + 1] = Made(id, flags)] = b
  BY <1>0 DEF AgentStates, t, d, c
<1> HIDE DEF b
<1>6. AnsweredIfGone(b, n + 1)
  <2>1. InTable(b, n + 1)
    BY <1>2, <1>3, <1>4 DEF InTable
  <2> QED BY <1>2, <1>3, <1>4, <2>1 DEF AnsweredIfGone
<1>7. ASSUME NEW m \in 1 .. n PROVE AnsweredIfGone(b, m)
  <2>1. b.call[m] = a.call[m] /\ AnsweredIfGone(a, m)
    BY <1>0, <1>3, <1>4 DEF AgentOK
  <2>2. InTable(b, m) <=> InTable(a, m)
    <3>1. a.call[m].id \in RequestIds
      BY <2>1 DEF AnsweredIfGone
    <3>2. CASE a.call[m].id = id
      BY <1>0, <1>3, <1>4, <2>1, <3>2 DEF InTable
    <3>3. CASE a.call[m].id # id
      BY <1>3, <1>4, <2>1, <3>1, <3>3 DEF InTable
    <3> QED BY <3>2, <3>3
  <2> QED BY Zenon, <2>1, <2>2 DEF AnsweredIfGone
<1>8. ASSUME NEW i \in RequestIds, b.agentRequests[i] # 0
      PROVE  b.agentRequests[i] \in 1 .. (n + 1) /\ b.call[b.agentRequests[i]].id = i
  <2>1. CASE i = id
    <3>1. b.agentRequests[i] = n + 1 /\ b.call[n + 1].id = i
      BY <1>2, <1>3, <1>4, <2>1
    <3> QED BY <1>0, <3>1
  <2>2. CASE i # id
    <3>1. b.agentRequests[i] = a.agentRequests[i]
      BY <1>3, <1>4, <2>2
    <3>2. a.agentRequests[i] \in 1 .. n /\ a.call[a.agentRequests[i]].id = i
      BY <1>8, <3>1 DEF AgentOK
    <3>3. b.call[a.agentRequests[i]] = a.call[a.agentRequests[i]]
      BY <1>0, <1>3, <1>4, <3>2
    <3> QED BY <1>0, <3>1, <3>2, <3>3
  <2> QED BY <2>1, <2>2
<1>9. AgentOK(b, n + 1)
  <2>1. \A m \in 1 .. (n + 1) : AnsweredIfGone(b, m)
    BY <1>0, <1>6, <1>7
  <2>2. b.searches \subseteq 1 .. (n + 1)
    BY <1>0, <1>4
  <2> QED BY <1>0, <1>4, <1>8, <2>1, <2>2 DEF AgentOK
<1> QED BY <1>5, <1>9

\* An agent that is all right as a record is so in its variables.
LEMMA BecomesFacts ==
  ASSUME NEW a, NEW n, AgentOK(a, n), AgentBecomes(a), gotAsked' = n
  PROVE  AgentInv'
<1>1. a \in AgentStates
  BY DEF AgentOK
<1>2. Agent' = [agentRequests |-> a.agentRequests, call |-> a.call, searches |-> a.searches, screen |-> a.screen,
                saves |-> a.saves]
  BY DEF Agent, AgentBecomes
<1>3. Agent' = a
  BY <1>1, <1>2 DEF AgentStates
<1> QED BY <1>3 DEF AgentInv

\* The variables of the agent as a record, and their types.
LEMMA AgentParts ==
  ASSUME AgentInv
  PROVE  /\ AgentOK(Agent, gotAsked) /\ Agent \in AgentStates
         /\ Agent.agentRequests = agentRequests /\ Agent.call = call /\ Agent.searches = searches
         /\ Agent.screen = screen /\ Agent.saves = saves
         /\ screen \subseteq Screens /\ searches \subseteq 1 .. gotAsked /\ gotAsked \in Nat
         /\ gotAsked <= MaxAgentRequests
<1>1. /\ Agent.agentRequests = agentRequests /\ Agent.call = call /\ Agent.searches = searches
      /\ Agent.screen = screen /\ Agent.saves = saves
  BY DEF Agent
<1>2. AgentOK(Agent, gotAsked) /\ Agent \in AgentStates /\ Agent.searches \subseteq 1 .. gotAsked
      /\ gotAsked \in 0 .. MaxAgentRequests
  BY DEF AgentInv, AgentOK
<1>3. Agent.screen \subseteq Screens
  BY <1>2, AgentFacts
<1> QED BY <1>1, <1>2, <1>3, AgentAssumption

\* A new request cancels an older one of the same connection and setting.
LEMMA GetSecretsStep ==
  ASSUME AgentInv, NEW id \in RequestIds, NEW flags \in Flags, NEW force, GetSecrets(id, flags, force)
  PROVE  AgentInv'
<1> DEFINE n == gotAsked
           before == IF LiveRequests(Agent, id) THEN RequestCancel(Agent, agentRequests[id]) ELSE Agent
           made == [before EXCEPT !.agentRequests[id] = gotAsked', !.call[gotAsked'] = Made(id, flags)]
           searching == [made EXCEPT !.searches = @ \cup {gotAsked'}]
<1>1. n < MaxAgentRequests /\ gotAsked' = n + 1
  BY DEF GetSecrets
<1>2. AgentBecomes(IF AsksUser(id, flags, force) THEN RequestSecretsFromUi(made, gotAsked') ELSE searching)
  BY DEF GetSecrets
<1>3. AgentOK(before, n) /\ before.agentRequests[id] = 0
  <2>1. CASE LiveRequests(Agent, id)
    <3> DEFINE s == agentRequests[id]
    <3>1. s # 0 /\ Agent.agentRequests[id] = s
      BY <2>1, AgentParts DEF LiveRequests, NoCall
    <3>2. s \in 1 .. n /\ Agent.call[s].id = id
      BY <3>1, AgentParts DEF AgentOK
    <3>3. InTable(Agent, s)
      BY <3>1, <3>2 DEF InTable
    <3> HIDE DEF s
    <3>4. AgentOK(RequestCancel(Agent, s), n) /\ RequestCancel(Agent, s).agentRequests[Agent.call[s].id] = 0
      BY <3>2, <3>3, AgentParts, FinishFacts
    <3> QED BY <2>1, <3>2, <3>4 DEF s
  <2>2. CASE ~LiveRequests(Agent, id)
    BY <2>2, AgentParts DEF LiveRequests, NoCall
  <2> QED BY <2>1, <2>2
<1> HIDE DEF before
<1>4. AgentOK(made, n + 1)
  <2>1. AgentOK([before EXCEPT !.agentRequests[id] = n + 1, !.call[n + 1] = Made(id, flags)], n + 1)
    BY <1>1, <1>3, RequestComes
  <2> QED BY <1>1, <2>1
<1>5. n + 1 \in 1 .. (n + 1) /\ n \in Nat
  BY AgentParts
<1> HIDE DEF made
<1>6. AgentOK(RequestSecretsFromUi(made, n + 1), n + 1)
  BY <1>4, <1>5, AskingFacts
<1>7. AgentOK(searching, n + 1)
  <2>1. made.searches \cup {n + 1} \in SUBSET (1 .. (n + 1))
    BY <1>4, <1>5 DEF AgentOK
  <2>2. {} \in SUBSET Screens
    OBVIOUS
  <2>3. AgentOK([made EXCEPT !.searches = made.searches \cup {n + 1}], n + 1)
    BY <1>4, <2>1, <2>2, ShownFacts
  <2> QED BY <1>1, <2>3
<1> HIDE DEF searching
<1> QED BY <1>1, <1>2, <1>6, <1>7, BecomesFacts

\* However the search in the keyring ends, the request is answered once or goes on.
LEMMA KeyringCbStep ==
  ASSUME AgentInv, NEW s, NEW outcome, KeyringCb(s, outcome)
  PROVE  AgentInv'
<1> DEFINE found == [Agent EXCEPT !.searches = @ \ {s}]
<1>1. /\ s \in searches /\ gotAsked' = gotAsked
      /\ \/ AgentBecomes(found)
         \/ AgentBecomes(RequestSecretsFromUi(found, s))
         \/ AgentBecomes(Finish(found, s)) /\ UsesResult(s)
  BY DEF KeyringCb
<1>2. s \in 1 .. gotAsked
  BY <1>1, AgentParts
<1>3. AgentOK(found, gotAsked)
  <2>1. Agent.searches \ {s} \in SUBSET (1 .. gotAsked) /\ {} \in SUBSET Screens
    BY AgentParts
  <2> QED BY <2>1, AgentParts, ShownFacts
<1>4. found.agentRequests = agentRequests /\ found.call = call
  BY AgentParts DEF AgentStates
<1> HIDE DEF found
<1>5. AgentOK(RequestSecretsFromUi(found, s), gotAsked)
  BY <1>2, <1>3, AskingFacts
<1>6. UsesResult(s) => AgentOK(Finish(found, s), gotAsked)
  <2> SUFFICES ASSUME UsesResult(s) PROVE AgentOK(Finish(found, s), gotAsked)
    OBVIOUS
  <2>1. ~found.call[s].cancelled
    BY <1>4 DEF UsesResult
  <2>2. InTable(found, s)
    BY <1>2, <1>3, <2>1 DEF AgentOK, AnsweredIfGone
  <2> QED BY <1>2, <1>3, <2>2, FinishFacts
<1> QED BY <1>1, <1>3, <1>5, <1>6, BecomesFacts

\* What the user and NetworkManager do.
LEMMA AnswersStep ==
  ASSUME AgentInv, NEW id \in RequestIds, NEW confirmed,
         \/ CancelGetSecrets(id) \/ ActivateNotification(id) \/ DismissNotification(id)
         \/ DialogResponds(id, confirmed) \/ VpnPluginSearched(id, confirmed)
  PROVE  AgentInv'
<1>0. gotAsked' = gotAsked
  BY DEF CancelGetSecrets, ActivateNotification, DismissNotification, DialogResponds, VpnPluginSearched
<1>1. CASE CancelGetSecrets(id)
  <2> DEFINE s == agentRequests[id]
  <2>1. s # 0 /\ Agent.agentRequests[id] = s /\ AgentBecomes(RequestCancel(Agent, s))
    BY <1>1, AgentParts DEF CancelGetSecrets, LiveRequests, NoCall
  <2>2. s \in 1 .. gotAsked /\ Agent.call[s].id = id
    BY <2>1, AgentParts DEF AgentOK
  <2>3. InTable(Agent, s)
    BY <2>1, <2>2 DEF InTable
  <2> HIDE DEF s
  <2>4. AgentOK(RequestCancel(Agent, s), gotAsked)
    BY <2>2, <2>3, AgentParts, FinishFacts
  <2> QED BY <1>0, <2>1, <2>4, BecomesFacts
<1>2. \A v \in SUBSET Screens : AgentOK([Agent EXCEPT !.screen = v], gotAsked)
  <2>1. {} \in SUBSET (1 .. gotAsked)
    OBVIOUS
  <2> QED BY <2>1, AgentParts, ShownFacts
<1>3. \A v \in SUBSET Screens : AgentOK(Respond([Agent EXCEPT !.screen = v], id, confirmed), gotAsked)
                                /\ AgentOK(Respond([Agent EXCEPT !.screen = v], id, FALSE), gotAsked)
  <2> SUFFICES ASSUME NEW v \in SUBSET Screens
               PROVE  AgentOK(Respond([Agent EXCEPT !.screen = v], id, confirmed), gotAsked)
                      /\ AgentOK(Respond([Agent EXCEPT !.screen = v], id, FALSE), gotAsked)
    OBVIOUS
  <2> DEFINE b == [Agent EXCEPT !.screen = v]
  <2>1. AgentOK(b, gotAsked)
    BY <1>2
  <2> HIDE DEF b
  <2>2. AgentOK(Respond(b, id, confirmed), gotAsked) /\ AgentOK(Respond(b, id, FALSE), gotAsked)
    BY <2>1, RespondFacts
  <2> QED BY <2>2 DEF b
<1>4. \A k \in {"dialog", "notification", "plugin"} : Shows(k, id) \in Screens
  BY DEF Shows, Screens
<1>5. Handled(id) \in Screens
  BY <1>4 DEF Handled
<1>6. CASE ActivateNotification(id)
  <2> DEFINE v == (Agent.screen \ {Shows("notification", id)}) \cup {Handled(id)}
  <2>1. AgentBecomes([Agent EXCEPT !.screen = v])
    BY <1>6 DEF ActivateNotification
  <2>2. v \in SUBSET Screens
    BY <1>5, AgentParts
  <2> HIDE DEF v
  <2> QED BY <1>0, <1>2, <2>1, <2>2, BecomesFacts
<1>7. CASE DismissNotification(id)
  <2> DEFINE v == Agent.screen \ {Shows("notification", id)}
  <2>1. AgentBecomes(Respond([Agent EXCEPT !.screen = v], id, FALSE))
    BY <1>7 DEF DismissNotification
  <2>2. v \in SUBSET Screens
    BY AgentParts
  <2> HIDE DEF v
  <2> QED BY <1>0, <1>3, <2>1, <2>2, BecomesFacts
<1>8. CASE DialogResponds(id, confirmed)
  <2> DEFINE v == Agent.screen \ {Shows("dialog", id)}
  <2>1. AgentBecomes(Respond([Agent EXCEPT !.screen = v], id, confirmed))
    BY <1>8 DEF DialogResponds
  <2>2. v \in SUBSET Screens
    BY AgentParts
  <2> HIDE DEF v
  <2> QED BY <1>0, <1>3, <2>1, <2>2, BecomesFacts
<1>9. CASE VpnPluginSearched(id, confirmed)
  <2> DEFINE v == Agent.screen \ {Shows("plugin", id)}
             b == [Agent EXCEPT !.screen = v]
             w == v \cup {Shows("dialog", id)}
  <2>1. \/ AgentBecomes(Respond(b, id, FALSE))
        \/ AgentBecomes([b EXCEPT !.screen = @ \cup {Shows("dialog", id)}])
    BY <1>9 DEF VpnPluginSearched
  <2>2. v \in SUBSET Screens /\ w \in SUBSET Screens
    BY <1>4, AgentParts
  <2> HIDE DEF v
  <2>3. [b EXCEPT !.screen = @ \cup {Shows("dialog", id)}] = [Agent EXCEPT !.screen = w]
    BY AgentParts DEF AgentStates
  <2>4. AgentOK([Agent EXCEPT !.screen = w], gotAsked)
    BY <1>2, <2>2
  <2>5. AgentOK(Respond(b, id, FALSE), gotAsked)
    BY <1>3, <2>2
  <2> HIDE DEF b, w
  <2> QED BY <1>0, <2>1, <2>3, <2>4, <2>5, BecomesFacts
<1> QED BY <1>1, <1>6, <1>7, <1>8, <1>9

\* disable(): everything that is shown is answered and removed at once.
LEMMA DisableStep ==
  ASSUME AgentInv, Disable
  PROVE  AgentInv'
<1> DEFINE n == gotAsked
           ids == {w.id : w \in {v \in screen : v.kind # "plugin"}}
           answered == {agentRequests[id] : id \in ids} \ {0}
           plugins == {v \in screen : v.kind = "plugin"}
           t == [id \in RequestIds |-> IF id \in ids THEN 0 ELSE agentRequests[id]]
           c(s) == [call[s] EXCEPT !.answers = call[s].answers + 1, !.cancelled = TRUE]
           d == [s \in Serials |-> IF s \in answered THEN c(s) ELSE call[s]]
           b == [Agent EXCEPT !.screen = plugins, !.agentRequests = t, !.call = d]
<1>1. gotAsked' = n /\ AgentBecomes(b)
  BY DEF Disable, NoCall
<1>2. AgentOK(b, n)
  <2>0. /\ Agent \in AgentStates /\ n \in Nat /\ n \in 0 .. MaxAgentRequests
        /\ \A m \in 1 .. n : m \in Serials /\ m # 0
    BY AgentParts, AgentAssumption DEF Serials
  <2>1. /\ agentRequests \in [RequestIds -> Nat] /\ call \in [Serials -> CallRecords]
        /\ \A s \in Serials : call[s] \in CallRecords
    BY AgentParts, AgentFacts
  <2>2. \A id \in ids : id \in RequestIds
    BY AgentParts DEF Screens
  <2>3. \A id \in RequestIds : agentRequests[id] # 0 => agentRequests[id] \in 1 .. n /\ call[agentRequests[id]].id = id
    BY AgentParts DEF AgentOK
  <2>4. \A s \in Serials : /\ c(s) \in CallRecords /\ c(s).id = call[s].id /\ c(s).answers = call[s].answers + 1
                           /\ c(s).cancelled = TRUE
    <3>1. \A r \in CallRecords, k \in Nat, e \in BOOLEAN : [r EXCEPT !.answers = k, !.cancelled = e] \in CallRecords
      BY DEF CallRecords
    <3>2. \A r \in CallRecords : r.answers + 1 \in Nat /\ TRUE \in BOOLEAN
      BY DEF CallRecords
    <3>3. \A s \in Serials : c(s) \in CallRecords
      BY <2>1, <3>1, <3>2
    <3>4. \A s \in Serials : c(s).id = call[s].id /\ c(s).answers = call[s].answers + 1
      BY <2>1 DEF CallRecords
    <3>5. \A s \in Serials : c(s).cancelled = TRUE
      BY <2>1 DEF CallRecords
    <3> QED BY <3>3, <3>4, <3>5
  <2>5. plugins \in SUBSET Screens
    BY AgentParts
  <2>6. \A s \in answered : \E id \in ids : s = agentRequests[id] /\ s # 0
    OBVIOUS
  <2>7. \A id \in ids : agentRequests[id] # 0 => agentRequests[id] \in answered
    OBVIOUS
  <2> HIDE DEF ids, answered, plugins, c
  <2>8. /\ t \in [RequestIds -> Nat] /\ d \in [Serials -> CallRecords]
        /\ \A id \in RequestIds : t[id] = IF id \in ids THEN 0 ELSE agentRequests[id]
        /\ \A s \in Serials : d[s] = IF s \in answered THEN c(s) ELSE call[s]
    BY <2>1, <2>4
  <2> HIDE DEF t, d
  <2>9. /\ b \in AgentStates /\ b.agentRequests = t /\ b.call = d /\ b.searches = searches
    BY <2>0, <2>5, <2>8, AgentParts DEF AgentStates
  <2> HIDE DEF b
  <2>10. ASSUME NEW s \in 1 .. n PROVE AnsweredIfGone(b, s)
    <3>0. s \in Serials /\ s # 0
      BY <2>0
    <3>1. AnsweredIfGone(Agent, s) /\ Agent.call = call /\ Agent.agentRequests = agentRequests
      BY AgentParts DEF AgentOK
    <3>2. CASE s \in answered
      <4>1. PICK id \in ids : s = agentRequests[id]
        BY <2>6, <3>2
      <4>2. id \in RequestIds /\ call[s].id = id
        BY <2>2, <2>3, <3>0, <4>1
      <4>3. call[s].answers = 0
        BY <3>1, <4>1, <4>2 DEF AnsweredIfGone, InTable
      <4>4. b.call[s] = c(s) /\ b.call[s].id = id /\ b.call[s].answers = 1 /\ b.call[s].cancelled = TRUE
        BY <2>4, <2>8, <2>9, <3>0, <3>2, <4>2, <4>3
      <4>5. ~InTable(b, s)
        BY <2>8, <2>9, <3>0, <4>2, <4>4 DEF InTable
      <4> QED BY Zenon, <4>2, <4>4, <4>5 DEF AnsweredIfGone
    <3>3. CASE s \notin answered
      <4>1. b.call[s] = call[s] /\ call[s].id \in RequestIds
        BY <2>8, <2>9, <3>0, <3>1, <3>3 DEF AnsweredIfGone
      <4>2. b.agentRequests[call[s].id] = IF call[s].id \in ids THEN 0 ELSE agentRequests[call[s].id]
        BY <2>8, <2>9, <4>1
      <4>3. call[s].id \in ids => agentRequests[call[s].id] # s
        BY <2>7, <3>0, <3>3
      <4>4. InTable(b, s) <=> InTable(Agent, s)
        BY <3>0, <3>1, <4>1, <4>2, <4>3 DEF InTable
      <4> QED BY Zenon, <3>1, <4>1, <4>4 DEF AnsweredIfGone
    <3> QED BY <3>2, <3>3
  <2>11. ASSUME NEW id \in RequestIds, b.agentRequests[id] # 0
         PROVE  b.agentRequests[id] \in 1 .. n /\ b.call[b.agentRequests[id]].id = id
    <3>1. b.agentRequests[id] = agentRequests[id]
      BY <2>8, <2>9, <2>11
    <3>2. agentRequests[id] \in 1 .. n /\ call[agentRequests[id]].id = id
      BY <2>3, <2>11, <3>1
    <3>3. b.call[agentRequests[id]].id = call[agentRequests[id]].id
      BY <2>0, <2>4, <2>8, <2>9, <3>2
    <3> QED BY <3>1, <3>2, <3>3
  <2>12. b.searches \subseteq 1 .. n
    BY <2>9, AgentParts
  <2> QED BY <2>0, <2>9, <2>10, <2>11, <2>12 DEF AgentOK
<1> HIDE DEF b
<1> QED BY <1>1, <1>2, BecomesFacts

\* save_delete_cb(), save_secret_cb(): only the saves go on.
LEMMA SavingStep ==
  ASSUME AgentInv, NEW s \in Serials, SaveSecretCb(s) \/ \E m \in 0 .. MaxStores : SaveDeleteCb(s, m)
  PROVE  AgentInv'
<1> DEFINE Saves == [Serials -> [phase : {"none", "deleting", "storing", "saved"}, left : Int]]
<1>1. saves \in Saves
  BY AgentParts, AgentFacts
<1>2. \A e \in [phase : {"none", "deleting", "storing", "saved"}, left : Int] : e.left - 1 \in Int
  OBVIOUS
<1>3. UNCHANGED <<agentRequests, call, searches, screen, gotAsked>>
  BY DEF SaveSecretCb, SaveDeleteCb
<1>4. saves' \in Saves
  <2>1. CASE SaveSecretCb(s)
    <3>1. saves' = [saves EXCEPT ![s] = [phase |-> IF saves[s].left = 1 THEN "saved" ELSE "storing",
                                         left |-> saves[s].left - 1]]
      BY <2>1 DEF SaveSecretCb
    <3>2. saves[s].left - 1 \in Int
      BY <1>1, <1>2
    <3> QED BY <1>1, <3>1, <3>2
  <2>2. ASSUME NEW m \in 0 .. MaxStores, SaveDeleteCb(s, m) PROVE saves' \in Saves
    <3>1. saves' = [saves EXCEPT ![s] = [phase |-> IF m = 0 THEN "saved" ELSE "storing", left |-> m]]
      BY <2>2 DEF SaveDeleteCb
    <3> QED BY <1>1, <3>1
  <2> QED BY <2>1, <2>2
<1> DEFINE b == [Agent EXCEPT !.saves = saves']
<1>5. b \in AgentStates /\ b.agentRequests = agentRequests /\ b.call = call /\ b.searches = searches
      /\ b.screen = screen /\ b.saves = saves'
  BY <1>4, AgentParts DEF AgentStates
<1> HIDE DEF b, Saves
<1>6. AgentOK(b, gotAsked)
  BY <1>5, AgentParts, OtherwiseTheSame
<1>7. AgentBecomes(b)
  BY <1>3, <1>5 DEF AgentBecomes
<1> QED BY <1>3, <1>6, <1>7, BecomesFacts

\* However the result of a search, an answer, a cancellation and a request that
\* takes another's place cross, NetworkManager gets exactly one answer.
THEOREM NetworkIsAnsweredOnce == AgentSpec => []RequestsAnsweredOnce
<1>1. AgentInit => AgentInv
  <2> SUFFICES ASSUME AgentInit PROVE AgentInv
    OBVIOUS
  <2>1. /\ agentRequests = [id \in RequestIds |-> 0] /\ call = [s \in Serials |-> NotAsked]
        /\ searches = {} /\ screen = {} /\ saves = [s \in Serials |-> [phase |-> "none", left |-> 0]]
        /\ gotAsked = 0
    BY DEF AgentInit, NoCall
  <2>2. NotAsked \in CallRecords
    BY DEF NotAsked, CallRecords, Flags
  <2>3. Agent \in AgentStates
    <3>1. agentRequests \in [RequestIds -> Nat] /\ call \in [Serials -> CallRecords]
      BY <2>1, <2>2
    <3>2. saves \in [Serials -> [phase : {"none", "deleting", "storing", "saved"}, left : Int]]
      BY <2>1
    <3>3. searches \in SUBSET Nat /\ screen \in SUBSET Screens
      BY <2>1
    <3> QED BY <3>1, <3>2, <3>3 DEF Agent, AgentStates
  <2>4. Agent.searches = {} /\ \A id \in RequestIds : Agent.agentRequests[id] = 0
    BY <2>1 DEF Agent
  <2>5. 1 .. gotAsked = {} /\ gotAsked \in 0 .. MaxAgentRequests
    BY <2>1, AgentAssumption
  <2> QED BY <2>3, <2>4, <2>5 DEF AgentInv, AgentOK
<1>2. AgentInv /\ [AgentNext]_agentVars => AgentInv'
  <2> SUFFICES ASSUME AgentInv, [AgentNext]_agentVars PROVE AgentInv'
    OBVIOUS
  <2>1. ASSUME NEW id \in RequestIds, NEW flags \in Flags, NEW force \in BOOLEAN, GetSecrets(id, flags, force)
        PROVE  AgentInv'
    BY <2>1, GetSecretsStep
  <2>2. ASSUME NEW id \in RequestIds, CancelGetSecrets(id) \/ ActivateNotification(id) \/ DismissNotification(id)
        PROVE  AgentInv'
    BY <2>2, AnswersStep
  <2>3. ASSUME NEW id \in RequestIds, NEW confirmed \in BOOLEAN,
               DialogResponds(id, confirmed) \/ VpnPluginSearched(id, confirmed)
        PROVE  AgentInv'
    BY <2>3, AnswersStep
  <2>4. ASSUME NEW s \in Serials, NEW outcome \in {"found", "nothing", "failed"}, KeyringCb(s, outcome)
        PROVE  AgentInv'
    BY <2>4, KeyringCbStep
  <2>5. CASE Disable
    BY <2>5, DisableStep
  <2>6. ASSUME NEW s \in Serials, SaveSecretCb(s) \/ \E m \in 0 .. MaxStores : SaveDeleteCb(s, m)
        PROVE  AgentInv'
    BY <2>6, SavingStep
  <2>7. CASE UNCHANGED agentVars
    <3>1. Agent' = Agent /\ gotAsked' = gotAsked
      BY <2>7 DEF agentVars, Agent
    <3> QED BY <3>1 DEF AgentInv
  <2> QED BY Zenon, <2>1, <2>2, <2>3, <2>4, <2>5, <2>6, <2>7 DEF AgentNext
<1>3. AgentInv => RequestsAnsweredOnce
  <2> SUFFICES ASSUME AgentInv, NEW s \in 1 .. gotAsked
               PROVE  call[s].answers = IF agentRequests[call[s].id] = s THEN 0 ELSE 1
    BY DEF RequestsAnsweredOnce
  <2>1. AnsweredIfGone(Agent, s) /\ Agent.call = call /\ Agent.agentRequests = agentRequests
    BY AgentParts DEF AgentOK
  <2> QED BY <2>1 DEF AnsweredIfGone, InTable
<1> QED BY <1>1, <1>2, <1>3, PTL DEF AgentSpec

---------------------------------------------------------------------------
(* The pixels of a screenshot.  Rounding to the nearest straight colour    *)
(* and back loses less than half a step of the premultiplied colour.       *)

\* What a quotient is, of any two numbers.
LEMMA Quotient ==
  ASSUME NEW n \in Nat, NEW a \in Nat \ {0}
  PROVE  n \div a \in Nat /\ a * (n \div a) <= n /\ n < a * (n \div a) + a
<1>1. n = a * (n \div a) + (n % a) /\ n % a \in 0 .. (a - 1) /\ n \div a \in Int
  BY Z3
<1>2. n \div a \in Nat
  BY Z3
<1> QED BY <1>1, <1>2

\* C's division by 255, told by its bounds.
LEMMA QuotientBy255 ==
  ASSUME NEW n \in Nat, NEW c \in Nat, 255 * c <= n, n < 255 * c + 255
  PROVE  n \div 255 = c
  BY Z3

\* A factor whose product stays under 256 times the other is a byte.
LEMMA FactorBound ==
  ASSUME NEW q \in Nat, NEW a \in Nat \ {0}, a * q < 256 * a
  PROVE  q <= 255
<1> SUFFICES ASSUME q >= 256
             PROVE  FALSE
  OBVIOUS
<1>1. PICK d \in Nat : q = 256 + d
  <2>1. q - 256 \in Nat /\ q = 256 + (q - 256)
    OBVIOUS
  <2> QED BY <2>1
<1>2. a * q = 256 * a + a * d
  BY <1>1, Z3
<1>3. a * d \in Nat
  BY Z3
<1> QED BY <1>2, <1>3

\* A straight colour is a byte, and premultiplied again it is what it was.
LEMMA RoundTrip ==
  ASSUME NEW a \in 1 .. 255, NEW c \in 0 .. a
  PROVE  LET q == (c * 255 + a \div 2) \div a
         IN  q \in 0 .. 255 /\ (q * a + 127) \div 255 = c
<1> DEFINE h == a \div 2
           n == c * 255 + h
           q == n \div a
           p == q * a
<1>1. h \in Nat /\ 2 * h <= a /\ a < 2 * h + 2
  BY Z3
<1>2. n \in Nat /\ n = 255 * c + h /\ a \in Nat \ {0}
  BY <1>1
<1>3. q \in Nat /\ a * q <= n /\ n < a * q + a
  BY <1>2, Quotient
<1>4. p = a * q /\ p \in Nat
  BY <1>2, <1>3
<1> HIDE DEF h, n, q, p
<1>5. q <= 255
  <2>1. p < 256 * a
    BY <1>1, <1>2, <1>3, <1>4
  <2> QED BY <1>2, <1>3, <1>4, <2>1, FactorBound
<1>6. 255 * c <= p + 127 /\ p + 127 < 255 * c + 255
  BY <1>1, <1>2, <1>3, <1>4
<1>7. (p + 127) \div 255 = c
  BY <1>4, <1>6, QuotientBy255
<1> QED BY <1>3, <1>5, <1>7 DEF h, n, q, p

\* Premultiplied pixels, and the surfaces they make up; without alpha they are
\* opaque.
Premultiplying == {p \in [alpha : 0 .. 255, color : 0 .. 255] : p.color <= p.alpha}
IsSurface(s) ==
  /\ s.format \in Formats /\ s.pixels \in [Coords \X Coords -> Premultiplying]
  /\ s.format = "rgb24" => \A c \in Coords \X Coords : s.pixels[c].alpha = Opaque
PixelInv ==
  /\ IsSurface(surface)
  /\ offset \in Nat \X Nat
  /\ PixelsAreKept

\* What is kept of a pixel, in either conversion.
LEMMA PixelKept ==
  ASSUME NEW p \in Premultiplying
  PROVE  LET q == [alpha |-> p.alpha, color |-> Straight(p)]
             r == [alpha |-> Opaque, color |-> p.color]
         IN  /\ q.alpha = p.alpha /\ q.color \in 0 .. 255 /\ Premultiplied(q) = p.color
             /\ p.alpha = Opaque =>
                  r.alpha = p.alpha /\ r.color \in 0 .. 255 /\ Premultiplied(r) = p.color
<1>1. p.alpha \in 0 .. 255 /\ p.color \in 0 .. p.alpha
  BY DEF Premultiplying
<1>2. CASE p.alpha = 0
  <2>1. p.color = 0 /\ Straight(p) = 0
    BY <1>1, <1>2 DEF Straight
  <2>2. (0 * 0 + 127) \div 255 = 0
    BY QuotientBy255
  <2> QED BY <1>1, <1>2, <2>1, <2>2 DEF Premultiplied, Opaque
<1>3. CASE p.alpha # 0
  <2>1. p.alpha \in 1 .. 255
    BY <1>1, <1>3
  <2>2. Straight(p) = (p.color * 255 + p.alpha \div 2) \div p.alpha
    BY <1>3 DEF Straight
  <2>3. Straight(p) \in 0 .. 255 /\ (Straight(p) * p.alpha + 127) \div 255 = p.color
    <3> DEFINE a == p.alpha
               c == p.color
    <3>1. a \in 1 .. 255 /\ c \in 0 .. a
      BY <1>1, <2>1
    <3> HIDE DEF a, c
    <3>2. (c * 255 + a \div 2) \div a \in 0 .. 255 /\ (((c * 255 + a \div 2) \div a) * a + 127) \div 255 = c
      BY Zenon, <3>1, RoundTrip
    <3> QED BY Zenon, <2>2, <3>2 DEF a, c
  <2>4. (p.color * 255 + 127) \div 255 = p.color
    BY <1>1, QuotientBy255
  <2> QED BY <1>1, <2>3, <2>4 DEF Premultiplied, Opaque
<1> QED BY <1>2, <1>3

\* What SurfaceOf makes of a format and a pixel is a surface.
LEMMA SurfaceOfFacts ==
  ASSUME NEW format \in Formats, NEW p \in Pixels \cup {Beyond}
  PROVE  IsSurface(SurfaceOf(format, p))
<1> DEFINE s == SurfaceOf(format, p)
<1>1. p \in Premultiplying
  <2>1. CASE p = Beyond
    BY <2>1 DEF Beyond, Premultiplying
  <2>2. CASE p \in Pixels
    <3>1. PICK a \in Alphas : \E c \in 0 .. a : p = [alpha |-> a, color |-> c]
      BY <2>2 DEF Pixels
    <3>2. a \in 0 .. 255
      BY PixelsAssumption
    <3> QED BY <3>1, <3>2 DEF Premultiplying
  <2> QED BY <2>1, <2>2
<1>2. s.format = format /\ s.pixels = [c \in Coords \X Coords |->
        IF c[1] = c[2] /\ HasAlpha(format) THEN p ELSE [alpha |-> Opaque, color |-> (7 * c[1] + c[2]) % 256]]
  BY DEF SurfaceOf
<1>3. \A c \in Coords \X Coords : [alpha |-> Opaque, color |-> (7 * c[1] + c[2]) % 256] \in Premultiplying
  BY PixelsAssumption DEF Coords, Premultiplying, Opaque
<1>4. s.pixels \in [Coords \X Coords -> Premultiplying]
  BY <1>1, <1>2, <1>3
<1>5. s.format = "rgb24" => \A c \in Coords \X Coords : s.pixels[c].alpha = Opaque
  BY <1>2 DEF HasAlpha
<1> QED BY <1>2, <1>4, <1>5 DEF IsSurface

\* Whatever part of a surface is saved, each pixel is the one of its place.
LEMMA SaveKeepsPixels ==
  ASSUME PixelInv, Save
  PROVE  PixelInv'
<1> DEFINE dx == offset[1]
           dy == offset[2]
           area == (0 .. Span - 1 - dx) \X (0 .. Span - 1 - dy)
           from(c) == surface.pixels[<<c[1] + dx, c[2] + dy>>]
           straight(p) == [alpha |-> p.alpha, color |-> Straight(p)]
           opaque(p) == [alpha |-> Opaque, color |-> p.color]
<1>1. /\ surface' = surface /\ offset' = offset /\ IsSurface(surface) /\ dx \in Nat /\ dy \in Nat
      /\ pixbuf' = PixbufFromSurface(surface, dx, dy)
  BY DEF PixelInv, Save
<1>2. \A c \in area : /\ c[1] \in Coords /\ c[2] \in Coords /\ c = <<c[1], c[2]>>
                      /\ c[1] + dx \in Coords /\ c[2] + dy \in Coords
                      /\ c[1] + 0 = c[1] /\ c[2] + 0 = c[2]
  BY <1>1, PixelsAssumption DEF Coords
<1>3. \A c \in area : from(c) \in Premultiplying /\ PixelAt(surface, c[1] + dx, c[2] + dy) = from(c)
  BY <1>1, <1>2 DEF IsSurface, PixelAt
<1>4. /\ DOMAIN pixbuf' = area
      /\ \A c \in area : pixbuf'[c] = IF HasAlpha(surface.format) THEN straight(from(c)) ELSE opaque(from(c))
  <2>1. CASE surface.format = FormatForContent(surface.format)
    <3>1. pixbuf' = [c \in area |-> IF HasAlpha(surface.format) THEN ConvertAlpha(surface, c[1] + dx, c[2] + dy)
                                    ELSE ConvertNoAlpha(surface, c[1] + dx, c[2] + dy)]
      BY <1>1, <2>1 DEF PixbufFromSurface, PixbufOf
    <3> QED BY <1>3, <3>1 DEF ConvertAlpha, ConvertNoAlpha
  <2>2. CASE surface.format # FormatForContent(surface.format)
    <3> DEFINE image == CoerceToImage(surface, dx, dy)
    <3>1. pixbuf' = [c \in area |-> IF HasAlpha(surface.format) THEN ConvertAlpha(image, c[1] + 0, c[2] + 0)
                                    ELSE ConvertNoAlpha(image, c[1] + 0, c[2] + 0)]
      BY <1>1, <2>2 DEF PixbufFromSurface, PixbufOf
    <3>2. image.pixels = [c \in Coords \X Coords |-> PixelAt(surface, c[1] + dx, c[2] + dy)]
      BY DEF CoerceToImage
    <3> HIDE DEF image
    <3>3. \A c \in area : PixelAt(image, c[1] + 0, c[2] + 0) = from(c)
      <4> SUFFICES ASSUME NEW c \in area
                   PROVE  PixelAt(image, c[1] + 0, c[2] + 0) = from(c)
        OBVIOUS
      <4>1. PixelAt(image, c[1], c[2]) = image.pixels[<<c[1], c[2]>>]
        BY <1>2 DEF PixelAt
      <4>2. image.pixels[<<c[1], c[2]>>] = PixelAt(surface, c[1] + dx, c[2] + dy)
        BY <1>2, <3>2
      <4> QED BY <1>2, <1>3, <4>1, <4>2
    <3> QED BY <3>1, <3>3 DEF ConvertAlpha, ConvertNoAlpha
  <2> QED BY <2>1, <2>2
<1>5. \A c \in area : ~HasAlpha(surface.format) => from(c).alpha = Opaque
  BY <1>1, <1>2 DEF IsSurface, HasAlpha
<1>6. PixelsAreKept'
  <2> SUFFICES ASSUME NEW c \in area
               PROVE  /\ pixbuf'[c].alpha = from(c).alpha /\ pixbuf'[c].color \in 0 .. 255
                      /\ Premultiplied(pixbuf'[c]) = from(c).color
    BY <1>1, <1>4 DEF PixelsAreKept
  <2> DEFINE p == from(c)
  <2>1. /\ p \in Premultiplying
        /\ ~HasAlpha(surface.format) => p.alpha = Opaque
        /\ pixbuf'[c] = IF HasAlpha(surface.format) THEN straight(p) ELSE opaque(p)
    BY <1>3, <1>4, <1>5
  <2> HIDE DEF p
  <2>2. /\ straight(p).alpha = p.alpha /\ straight(p).color \in 0 .. 255 /\ Premultiplied(straight(p)) = p.color
        /\ p.alpha = Opaque =>
             opaque(p).alpha = p.alpha /\ opaque(p).color \in 0 .. 255 /\ Premultiplied(opaque(p)) = p.color
    BY <2>1, PixelKept
  <2> HIDE DEF straight, opaque
  <2>3. /\ pixbuf'[c].alpha = p.alpha /\ pixbuf'[c].color \in 0 .. 255
        /\ Premultiplied(pixbuf'[c]) = p.color
    <3>1. CASE HasAlpha(surface.format)
      BY Zenon, <2>1, <2>2, <3>1
    <3>2. CASE ~HasAlpha(surface.format)
      BY <2>1, <2>2, <3>2
    <3> QED BY <3>1, <3>2
  <2> QED BY <2>3 DEF p
<1> QED BY <1>1, <1>6 DEF PixelInv

\* For every alpha and colour, size, format and part of a surface, the pixels of
\* a screenshot are those that were on the screen (convert_alpha()).
THEOREM PixelsAreAlwaysKept == PixelSpec => []PixelsAreKept
<1>1. PixelInit => PixelInv
  <2>1. IsSurface(Fresh)
    BY SurfaceOfFacts DEF Fresh, Formats
  <2> QED BY <2>1 DEF PixelInit, PixelInv, PixelsAreKept
<1>2. PixelInv /\ [PixelNext]_pixelVars => PixelInv'
  <2> SUFFICES ASSUME PixelInv, [PixelNext]_pixelVars
               PROVE  PixelInv'
    OBVIOUS
  <2>1. ASSUME NEW format \in Formats, NEW p \in Pixels, NEW dx \in Coords, NEW dy \in Coords, Convert(format, p, dx, dy)
        PROVE  PixelInv'
    <3>1. surface' = SurfaceOf(format, p) /\ offset' = <<dx, dy>> /\ pixbuf' = NoPixbuf
      BY <2>1 DEF Convert
    <3>2. IsSurface(surface')
      BY <3>1, SurfaceOfFacts
    <3>3. offset' \in Nat \X Nat
      BY <3>1 DEF Coords
    <3> QED BY <3>1, <3>2, <3>3 DEF PixelInv, PixelsAreKept, IsSurface
  <2>2. CASE Save
    BY <2>2, SaveKeepsPixels
  <2>3. CASE UNCHANGED pixelVars
    BY <2>3 DEF pixelVars, PixelInv, PixelsAreKept, IsSurface
  <2> QED BY <2>1, <2>2, <2>3 DEF PixelNext
<1>3. PixelInv => PixelsAreKept
  BY DEF PixelInv
<1> QED BY <1>1, <1>2, <1>3, PTL DEF PixelSpec

---------------------------------------------------------------------------
(* The screenshot dialog.  Whatever closes it answers every call, so that  *)
(* the only calls without an answer are those that wait for a dialog that  *)
(* is there or on its way.                                                 *)

Dialogs ==
  [shown : BOOLEAN, grabbed : BOOLEAN, fading : BOOLEAN, opening : {"no", "painting", "texture", "error"}, picture : BOOLEAN,
   castable : BOOLEAN, cast : BOOLEAN, saving : Int, keyShots : Nat, unredirect : Int]
UiCalls == [answers : Seq(BOOLEAN), casting : BOOLEAN]
UIs == [dialog : Dialogs, uiAsked : Seq(UiCalls)]

NobodyWaits(s) == \A n \in DOMAIN s.uiAsked : s.uiAsked[n].casting \/ s.uiAsked[n].answers # <<>>
GrabsBalance(s) == s.dialog.unredirect = s.dialog.keyShots + (IF s.dialog.opening = "painting" THEN 1 ELSE 0)
Owing(s) == s.dialog.shown \/ s.dialog.opening # "no" \/ NobodyWaits(s)
UiGood(s) == s \in UIs /\ GrabsBalance(s) /\ Owing(s)

\* What closing and showing the dialog leave as it is.
SameGrabs(s, t) ==
  t.dialog.opening = s.dialog.opening /\ t.dialog.unredirect = s.dialog.unredirect /\ t.dialog.keyShots = s.dialog.keyShots

\* A record of the dialog with other fields is still one.
LEMMA UiChanged ==
  ASSUME NEW s \in UIs, NEW d \in Dialogs
  PROVE  [s EXCEPT !.dialog = d] \in UIs /\ [s EXCEPT !.dialog = d].dialog = d /\ [s EXCEPT !.dialog = d].uiAsked = s.uiAsked
BY DEF UIs

\* Everybody is told.
LEMMA TellCallerFacts ==
  ASSUME NEW s \in UIs, NEW answer \in BOOLEAN
  PROVE  TellCaller(s, answer) \in UIs /\ TellCaller(s, answer).dialog = s.dialog /\ NobodyWaits(TellCaller(s, answer))
<1> DEFINE toldCalls == [n \in DOMAIN s.uiAsked |->
                      IF s.uiAsked[n].answers = <<>> THEN [s.uiAsked[n] EXCEPT !.answers = <<answer>>] ELSE s.uiAsked[n]]
<1>1. TellCaller(s, answer) = [s EXCEPT !.uiAsked = toldCalls]
  BY DEF TellCaller
<1>2. s.uiAsked \in Seq(UiCalls)
  BY DEF UIs
<1>3. \A n \in DOMAIN s.uiAsked : s.uiAsked[n] \in UiCalls
  BY <1>2
<1>4. \A n \in DOMAIN s.uiAsked : toldCalls[n] \in UiCalls /\ toldCalls[n].answers # <<>>
  <2> SUFFICES ASSUME NEW n \in DOMAIN s.uiAsked PROVE toldCalls[n] \in UiCalls /\ toldCalls[n].answers # <<>>
    OBVIOUS
  <2>1. s.uiAsked[n] \in UiCalls /\ <<answer>> \in Seq(BOOLEAN) /\ <<answer>> # <<>>
    BY <1>3
  <2> QED BY <2>1 DEF UiCalls
<1>5. toldCalls \in Seq(UiCalls)
  <2> DEFINE k == Len(s.uiAsked)
  <2>1. DOMAIN s.uiAsked = 1 .. k /\ k \in Nat
    BY <1>2
  <2>2. toldCalls \in [1 .. k -> UiCalls]
    BY <1>4, <2>1
  <2> HIDE DEF toldCalls, k
  <2> QED BY <2>1, <2>2
<1>6. DOMAIN toldCalls = DOMAIN s.uiAsked
  OBVIOUS
<1> HIDE DEF toldCalls
<1> QED BY <1>1, <1>4, <1>5, <1>6 DEF UIs, NobodyWaits

\* When closing ends, nobody waits and the grabs are as they were
\* (_finishClosing()).
LEMMA FinishClosingFacts ==
  ASSUME NEW s \in UIs
  PROVE  /\ FinishClosing(s) \in UIs /\ NobodyWaits(FinishClosing(s)) /\ SameGrabs(s, FinishClosing(s))
         /\ FinishClosing(s).dialog = [s.dialog EXCEPT !.shown = FALSE, !.picture = FALSE]
<1> DEFINE d == [s.dialog EXCEPT !.shown = FALSE, !.picture = FALSE]
           t == [s EXCEPT !.dialog = d]
<1>1. d \in Dialogs /\ d.opening = s.dialog.opening /\ d.unredirect = s.dialog.unredirect /\ d.keyShots = s.dialog.keyShots
  BY DEF UIs, Dialogs
<1>2. [s EXCEPT !.dialog.shown = FALSE, !.dialog.picture = FALSE] = t
  BY DEF UIs
<1>3. t \in UIs /\ t.dialog = d
  BY <1>1, UiChanged
<1> HIDE DEF t
<1>4. FinishClosing(s) = TellCaller(t, FALSE)
  BY <1>2 DEF FinishClosing
<1>5. /\ FinishClosing(s) \in UIs /\ FinishClosing(s).dialog = d /\ NobodyWaits(FinishClosing(s))
  BY <1>3, <1>4, TellCallerFacts
<1> QED BY <1>1, <1>5 DEF SameGrabs

Settles(s, t) == t \in UIs /\ SameGrabs(s, t) /\ (t.dialog.shown \/ NobodyWaits(t))

\* close() leaves nobody waiting, unless the dialog is still shown while it fades.
LEMMA CloseFacts ==
  ASSUME NEW s \in UIs, NEW instantly \in BOOLEAN, NEW keeps \in BOOLEAN
  PROVE  Settles(s, Close(s, instantly, keeps))
<1> DEFINE f == FinishClosing(s)
<1>1. f \in UIs /\ NobodyWaits(f) /\ SameGrabs(s, f)
  BY FinishClosingFacts
<1>2. f.dialog \in Dialogs /\ s.dialog \in Dialogs
  BY <1>1 DEF UIs
<1>3. CASE instantly
  <2> DEFINE t == Close(s, instantly, keeps)
             g == keeps /\ (f.dialog.fading \/ s.dialog.grabbed)
             d == [f.dialog EXCEPT !.grabbed = FALSE, !.fading = g]
  <2>1. t = [f EXCEPT !.dialog = d]
    BY <1>1, <1>3 DEF Close, UIs
  <2>2. g \in BOOLEAN
    BY <1>2 DEF Dialogs
  <2> HIDE DEF g
  <2>3. d \in Dialogs /\ d.opening = f.dialog.opening /\ d.unredirect = f.dialog.unredirect /\ d.keyShots = f.dialog.keyShots
    BY <1>2, <2>2 DEF Dialogs
  <2> HIDE DEF d, t, f
  <2>4. t \in UIs /\ t.dialog = d /\ t.uiAsked = f.uiAsked
    BY <1>1, <2>1, <2>3, UiChanged
  <2>5. Settles(s, t)
    BY <1>1, <2>3, <2>4 DEF Settles, SameGrabs, NobodyWaits
  <2> QED BY <2>5 DEF t
<1>4. CASE ~instantly /\ s.dialog.shown
  <2> DEFINE t == Close(s, instantly, keeps)
             d == [s.dialog EXCEPT !.grabbed = FALSE, !.fading = TRUE]
  <2>1. t = [s EXCEPT !.dialog = d]
    BY <1>4 DEF Close, UIs
  <2>3. /\ d \in Dialogs /\ d.opening = s.dialog.opening /\ d.unredirect = s.dialog.unredirect /\ d.keyShots = s.dialog.keyShots
        /\ d.shown
    BY <1>2, <1>4 DEF Dialogs
  <2> HIDE DEF d, t
  <2>4. t \in UIs /\ t.dialog = d
    BY <2>1, <2>3, UiChanged
  <2>5. Settles(s, t)
    BY <2>3, <2>4 DEF Settles, SameGrabs
  <2> QED BY <2>5 DEF t
<1>5. CASE ~instantly /\ ~s.dialog.shown
  <2> DEFINE t == Close(s, instantly, keeps)
             d == [f.dialog EXCEPT !.grabbed = FALSE, !.fading = FALSE]
  <2>1. t = [f EXCEPT !.dialog = d]
    BY <1>1, <1>5 DEF Close, UIs
  <2>3. d \in Dialogs /\ d.opening = f.dialog.opening /\ d.unredirect = f.dialog.unredirect /\ d.keyShots = f.dialog.keyShots
    BY <1>2 DEF Dialogs
  <2> HIDE DEF d, t, f
  <2>4. t \in UIs /\ t.dialog = d /\ t.uiAsked = f.uiAsked
    BY <1>1, <2>1, <2>3, UiChanged
  <2>5. Settles(s, t)
    BY <1>1, <2>3, <2>4 DEF Settles, SameGrabs, NobodyWaits
  <2> QED BY <2>5 DEF t
<1> QED BY <1>3, <1>4, <1>5

\* A dialog that is raised is shown or leaves nobody waiting.
LEMMA RaiseFacts ==
  ASSUME NEW s \in UIs, NEW grabs \in BOOLEAN, NEW keeps \in BOOLEAN
  PROVE  Settles(s, Raise(s, grabs, keeps))
<1>1. CASE grabs \/ s.dialog.grabbed
  <2> DEFINE t == Raise(s, grabs, keeps)
             d == [s.dialog EXCEPT !.grabbed = TRUE, !.shown = TRUE, !.fading = FALSE]
  <2>1. t = [s EXCEPT !.dialog = d]
    BY <1>1 DEF Raise, UIs
  <2>2. /\ d \in Dialogs /\ d.opening = s.dialog.opening /\ d.unredirect = s.dialog.unredirect /\ d.keyShots = s.dialog.keyShots
        /\ d.shown
    BY DEF UIs, Dialogs
  <2> HIDE DEF d, t
  <2>3. t \in UIs /\ t.dialog = d
    BY <2>1, <2>2, UiChanged
  <2>4. Settles(s, t)
    BY <2>2, <2>3 DEF Settles, SameGrabs
  <2> QED BY <2>4 DEF t
<1>2. CASE ~(grabs \/ s.dialog.grabbed)
  BY <1>2, CloseFacts DEF Raise
<1> QED BY <1>1, <1>2

\* What settles the dialog keeps it good.
LEMMA SettledIsGood ==
  ASSUME NEW s, NEW t, GrabsBalance(s), Settles(s, t)
  PROVE  UiGood(t)
BY DEF Settles, SameGrabs, GrabsBalance, UiGood, Owing

\* open() keeps the dialog good, also when it opens for a screen cast.
LEMMA OpenFacts ==
  ASSUME NEW s \in UIs, GrabsBalance(s), NEW castable \in BOOLEAN, NEW paints \in BOOLEAN, NEW grabs \in BOOLEAN, NEW keeps \in BOOLEAN,
         s.dialog.opening # "no" \/ s.dialog.cast => Owing(s)
  PROVE  UiGood(Open(s, castable, paints, grabs, keeps))
<1> DEFINE d == [s.dialog EXCEPT !.castable = castable]
           m == [s EXCEPT !.dialog.castable = castable]
           o == Open(s, castable, paints, grabs, keeps)
<1>1. CASE s.dialog.opening # "no" \/ s.dialog.cast
  BY <1>1 DEF Open, UiGood
<1>2. CASE ~(s.dialog.opening # "no" \/ s.dialog.cast)
  <2>1. m = [s EXCEPT !.dialog = d] /\ s.dialog \in Dialogs
    BY DEF UIs
  <2>2. /\ d \in Dialogs /\ d.opening = "no" /\ d.unredirect = s.dialog.unredirect /\ d.keyShots = s.dialog.keyShots
        /\ d.shown = s.dialog.shown
    BY <1>2, <2>1 DEF Dialogs
  <2>3. o = IF s.dialog.shown THEN Raise(m, grabs, keeps) ELSE StageToContent(m, paints)
    BY <1>2 DEF Open
  <2> HIDE DEF d, m
  <2>4. m \in UIs /\ m.dialog = d
    BY <2>1, <2>2, UiChanged
  <2>5. GrabsBalance(m)
    BY <1>2, <2>2, <2>4 DEF GrabsBalance
  <2>6. CASE s.dialog.shown
    BY <2>3, <2>4, <2>5, <2>6, RaiseFacts, SettledIsGood
  <2>7. CASE ~s.dialog.shown
    <3> DEFINE e == IF UiWayland THEN [d EXCEPT !.opening = Grabbed(paints)]
                    ELSE [d EXCEPT !.opening = "painting", !.unredirect = d.unredirect + 1]
               t == StageToContent(m, paints)
    <3>1. t = [m EXCEPT !.dialog = e]
      BY <2>4 DEF StageToContent, UIs
    <3>2. e \in Dialogs /\ e.opening # "no" /\ e.unredirect = e.keyShots + (IF e.opening = "painting" THEN 1 ELSE 0)
      <4>1. d.unredirect = d.keyShots /\ d.unredirect \in Int /\ d.keyShots \in Nat
        BY <2>2, <2>4, <2>5 DEF GrabsBalance, Dialogs
      <4>2. Grabbed(paints) \in {"texture", "error"}
        BY DEF Grabbed
      <4>3. CASE UiWayland
        BY <2>2, <4>1, <4>2, <4>3 DEF Dialogs
      <4>4. CASE ~UiWayland
        <5> DEFINE n == d.unredirect + 1
        <5>1. n \in Int /\ n = d.keyShots + 1 /\ e = [d EXCEPT !.opening = "painting", !.unredirect = n]
          BY <4>1, <4>4
        <5> HIDE DEF n, e
        <5>2. e \in Dialogs /\ e.opening = "painting" /\ e.unredirect = n /\ e.keyShots = d.keyShots
          BY <2>2, <5>1 DEF Dialogs
        <5> QED BY <5>1, <5>2
      <4> QED BY <4>3, <4>4
    <3> HIDE DEF e, t
    <3>3. t \in UIs /\ t.dialog = e
      BY <2>4, <3>1, <3>2, UiChanged
    <3>4. UiGood(t)
      BY <3>2, <3>3 DEF UiGood, GrabsBalance, Owing
    <3> QED BY <2>3, <2>7, <3>4 DEF t
  <2> QED BY <2>6, <2>7
<1> QED BY <1>1, <1>2

UiInv == UiGood(UI)

\* A step to a good dialog keeps the invariant.
LEMMA BecomesGood ==
  ASSUME NEW s, UiGood(s), UiBecomes(s)
  PROVE  UiInv'
<1>1. UI' = s
  BY DEF UI, UiBecomes, UiGood, UIs
<1> QED BY <1>1 DEF UiInv

\* Every step of the dialog keeps it good.
LEMMA UiStep ==
  ASSUME UiInv, [UiNext]_uiVars
  PROVE  UiInv'
<1>1. /\ UI \in UIs /\ GrabsBalance(UI) /\ Owing(UI) /\ UI.dialog = ui /\ UI.uiAsked = uiAsked
      /\ ui \in Dialogs /\ uiAsked \in Seq(UiCalls)
  BY DEF UiInv, UiGood, UI, UIs
<1>2. /\ ui.unredirect \in Int /\ ui.keyShots \in Nat /\ ui.saving \in Int /\ ui.picture \in BOOLEAN /\ ui.shown \in BOOLEAN
      /\ ui.cast \in BOOLEAN /\ ui.opening \in {"no", "painting", "texture", "error"}
      /\ ui.unredirect = ui.keyShots + (IF ui.opening = "painting" THEN 1 ELSE 0)
  BY <1>1 DEF Dialogs, GrabsBalance
<1>3. ASSUME NEW s, UiGood(s), UiBecomes(s) PROVE UiInv'
  BY <1>3, BecomesGood
<1>4. ASSUME NEW s \in UIs, GrabsBalance(s), NEW instantly \in BOOLEAN, NEW keeps \in BOOLEAN, UiBecomes(Close(s, instantly, keeps))
      PROVE  UiInv'
  BY <1>3, <1>4, CloseFacts, SettledIsGood
<1>5. ASSUME NEW paints \in BOOLEAN, NEW grabs \in BOOLEAN, NEW keeps \in BOOLEAN, InteractiveScreenshot(paints, grabs, keeps)
      PROVE  UiInv'
  <2> DEFINE ask == [answers |-> <<>>, casting |-> ui.cast]
             s == [UI EXCEPT !.uiAsked = Append(uiAsked, ask)]
  <2>1. ask \in UiCalls
    BY <1>2 DEF UiCalls
  <2>2. s \in UIs /\ s.dialog = ui /\ s.uiAsked = Append(uiAsked, ask)
    <3> HIDE DEF ask
    <3>1. Append(uiAsked, ask) \in Seq(UiCalls)
      BY <1>1, <2>1
    <3> QED BY <1>1, <3>1 DEF UIs
  <2>3. UiBecomes(Open(s, FALSE, paints, grabs, keeps))
    BY <1>1, <1>5 DEF InteractiveScreenshot
  <2> HIDE DEF s
  <2>4. GrabsBalance(s)
    BY <1>2, <2>2 DEF GrabsBalance
  <2>5. ASSUME s.dialog.opening # "no" \/ s.dialog.cast PROVE Owing(s)
    <3>1. CASE s.dialog.opening # "no" \/ s.dialog.shown
      BY <3>1 DEF Owing
    <3>2. CASE s.dialog.cast /\ s.dialog.opening = "no" /\ ~s.dialog.shown
      <4>1. NobodyWaits(UI)
        BY <1>1, <2>2, <3>2 DEF Owing
      <4>2. \A n \in DOMAIN s.uiAsked : (n \in DOMAIN uiAsked /\ s.uiAsked[n] = uiAsked[n]) \/ s.uiAsked[n] = ask
        <5> HIDE DEF ask
        <5> QED BY <1>1, <2>1, <2>2
      <4>3. ask.casting
        BY <2>2, <3>2
      <4> HIDE DEF ask
      <4> QED BY <1>1, <4>1, <4>2, <4>3 DEF Owing, NobodyWaits
    <3> QED BY <2>5, <3>1, <3>2
  <2>6. UiGood(Open(s, FALSE, paints, grabs, keeps))
    BY <2>2, <2>4, <2>5, OpenFacts
  <2> QED BY <1>3, <2>3, <2>6
<1>6. ASSUME NEW paints \in BOOLEAN, NEW grabs \in BOOLEAN, NEW keeps \in BOOLEAN, ShowScreenshotUI(paints, grabs, keeps)
      PROVE  UiInv'
  <2>1. UiGood(Open(UI, TRUE, paints, grabs, keeps))
    <3> DEFINE castable == TRUE
    <3>1. castable \in BOOLEAN
      OBVIOUS
    <3> HIDE DEF castable
    <3>2. UiGood(Open(UI, castable, paints, grabs, keeps))
      BY <1>1, <3>1, OpenFacts
    <3> QED BY <3>2 DEF castable
  <2> QED BY <1>3, <1>6, <2>1 DEF ShowScreenshotUI
<1>7. ASSUME NEW d \in Dialogs, d.unredirect = d.keyShots + (IF d.opening = "painting" THEN 1 ELSE 0),
             d.opening = "no" => ui.opening = "no", d.shown = ui.shown, UiBecomes([UI EXCEPT !.dialog = d])
      PROVE  UiInv'
  <2> DEFINE t == [UI EXCEPT !.dialog = d]
  <2>1. t \in UIs /\ t.dialog = d /\ t.uiAsked = uiAsked
    BY <1>1, UiChanged
  <2> HIDE DEF t
  <2>2. GrabsBalance(t) /\ Owing(t)
    BY <1>1, <1>7, <2>1 DEF GrabsBalance, Owing, NobodyWaits
  <2>3. UiGood(t)
    BY <2>1, <2>2 DEF UiGood
  <2> QED BY <1>3, <1>7, <2>3 DEF t
<1>8. ASSUME NEW paints \in BOOLEAN, ContentAfterPaint(paints) PROVE UiInv'
  <2> DEFINE after == Grabbed(paints)
             u == ui.unredirect - 1
             d == [ui EXCEPT !.opening = after, !.unredirect = u]
             t == [UI EXCEPT !.dialog.opening = after, !.dialog.unredirect = u]
  <2>1. ui.opening = "painting" /\ after \in {"texture", "error"} /\ UiBecomes(t)
    BY <1>1, <1>8 DEF ContentAfterPaint, Grabbed
  <2>2. u \in Int /\ u = ui.keyShots
    BY <1>2, <2>1
  <2> HIDE DEF after, u
  <2>3. d \in Dialogs /\ d.opening = after /\ d.unredirect = u /\ d.keyShots = ui.keyShots /\ d.shown = ui.shown
    BY <1>1, <2>1, <2>2 DEF Dialogs
  <2>4. t = [UI EXCEPT !.dialog = d]
    BY <1>1 DEF UIs
  <2> HIDE DEF d, t
  <2>5. d.unredirect = d.keyShots + (IF d.opening = "painting" THEN 1 ELSE 0)
    BY <1>2, <2>1, <2>2, <2>3
  <2> QED BY <1>7, <2>1, <2>3, <2>4, <2>5
<1>9. ASSUME NEW grabs \in BOOLEAN, NEW keeps \in BOOLEAN, ContentFinish(grabs, keeps) PROVE UiInv'
  <2> DEFINE picture == ui.opening = "texture"
             d == [ui EXCEPT !.picture = picture, !.opening = "no"]
             t == [UI EXCEPT !.dialog.picture = picture, !.dialog.opening = "no"]
  <2>1. ui.opening \in {"texture", "error"} /\ UiBecomes(Raise(t, grabs, keeps)) /\ picture \in BOOLEAN
    BY <1>9 DEF ContentFinish
  <2> HIDE DEF picture
  <2>2. d \in Dialogs /\ d.opening = "no" /\ d.unredirect = ui.unredirect /\ d.keyShots = ui.keyShots
    BY <1>1, <2>1 DEF Dialogs
  <2>3. t = [UI EXCEPT !.dialog = d]
    BY <1>1 DEF UIs
  <2> HIDE DEF d, t
  <2>4. t \in UIs /\ t.dialog = d
    BY <1>1, <2>2, <2>3, UiChanged
  <2>5. GrabsBalance(t)
    BY <1>2, <2>1, <2>2, <2>4 DEF GrabsBalance
  <2>6. UiGood(Raise(t, grabs, keeps))
    BY <2>4, <2>5, RaiseFacts, SettledIsGood
  <2> QED BY <1>3, <2>1, <2>6
<1>10. CASE ScreenshotKey
  <2> DEFINE k == ui.keyShots + 1
             u == ui.unredirect + 1
             d == [ui EXCEPT !.keyShots = k, !.unredirect = u]
             t == [UI EXCEPT !.dialog.keyShots = k, !.dialog.unredirect = u]
  <2>1. UiBecomes(t)
    BY <1>1, <1>10 DEF ScreenshotKey
  <2>2. k \in Nat /\ u \in Int /\ u = k + (IF ui.opening = "painting" THEN 1 ELSE 0)
    BY <1>2, <2>1
  <2> HIDE DEF k, u
  <2>3. d \in Dialogs /\ d.opening = ui.opening /\ d.keyShots = k /\ d.unredirect = u /\ d.shown = ui.shown
    BY <1>1, <2>2 DEF Dialogs
  <2>4. t = [UI EXCEPT !.dialog = d]
    BY <1>1 DEF UIs
  <2> HIDE DEF d, t
  <2> QED BY <1>7, <2>1, <2>2, <2>3, <2>4
<1>11. CASE KeyShotAfterPaint
  <2> DEFINE k == ui.keyShots - 1
             u == ui.unredirect - 1
             d == [ui EXCEPT !.keyShots = k, !.unredirect = u]
             t == [UI EXCEPT !.dialog.keyShots = k, !.dialog.unredirect = u]
  <2>1. ui.keyShots > 0 /\ UiBecomes(t)
    BY <1>1, <1>11 DEF KeyShotAfterPaint
  <2>2. k \in Nat /\ u \in Int /\ u = k + (IF ui.opening = "painting" THEN 1 ELSE 0)
    BY <1>2, <2>1
  <2> HIDE DEF k, u
  <2>3. d \in Dialogs /\ d.opening = ui.opening /\ d.keyShots = k /\ d.unredirect = u /\ d.shown = ui.shown
    BY <1>1, <2>2 DEF Dialogs
  <2>4. t = [UI EXCEPT !.dialog = d]
    BY <1>1 DEF UIs
  <2> HIDE DEF d, t
  <2> QED BY <1>7, <2>1, <2>2, <2>3, <2>4
<1>12. ASSUME NEW saving \in Int
       PROVE  [UI EXCEPT !.dialog.saving = saving] \in UIs /\ UiGood([UI EXCEPT !.dialog.saving = saving])
  <2> DEFINE d == [ui EXCEPT !.saving = saving]
             t == [UI EXCEPT !.dialog.saving = saving]
  <2>1. /\ d \in Dialogs /\ d.opening = ui.opening /\ d.keyShots = ui.keyShots /\ d.unredirect = ui.unredirect
        /\ d.shown = ui.shown
    BY <1>1 DEF Dialogs
  <2>2. t = [UI EXCEPT !.dialog = d]
    BY <1>1 DEF UIs
  <2> HIDE DEF d, t
  <2>3. t \in UIs /\ t.dialog = d /\ t.uiAsked = uiAsked
    BY <1>1, <2>1, <2>2, UiChanged
  <2>4. UiGood(t)
    BY <1>1, <1>2, <2>1, <2>3 DEF UiGood, GrabsBalance, Owing, NobodyWaits
  <2> QED BY <2>3, <2>4 DEF t
<1>13. ASSUME NEW window \in BOOLEAN, CaptureClicked(window) PROVE UiInv'
  <2>1. CASE ui.picture \/ window
    <3>1. UiBecomes([UI EXCEPT !.dialog.saving = ui.saving + 1])
      BY <1>1, <1>13, <2>1 DEF CaptureClicked
    <3>2. ui.saving + 1 \in Int
      BY <1>2
    <3> QED BY <1>3, <1>12, <3>1, <3>2
  <2>2. CASE ~(ui.picture \/ window)
    <3>1. UiBecomes(Close(UI, FALSE, FALSE))
      BY <1>1, <1>13, <2>2 DEF CaptureClicked
    <3> QED BY <1>1, <1>4, <3>1
  <2> QED BY <2>1, <2>2
<1>14. ASSUME NEW stored \in BOOLEAN, CompositeSaved(stored) PROVE UiInv'
  <2> DEFINE saved == [UI EXCEPT !.dialog.saving = ui.saving - 1]
             toldCalls == IF stored THEN TellCaller(saved, TRUE) ELSE saved
  <2>1. UiBecomes(Close(toldCalls, FALSE, FALSE))
    BY <1>1, <1>14 DEF CompositeSaved
  <2>2. saved \in UIs /\ GrabsBalance(saved)
    <3>1. ui.saving - 1 \in Int
      BY <1>2
    <3> QED BY <1>12, <3>1 DEF UiGood
  <2> HIDE DEF saved
  <2>3. TellCaller(saved, TRUE) \in UIs /\ TellCaller(saved, TRUE).dialog = saved.dialog
    BY <2>2, TellCallerFacts
  <2>4. toldCalls \in UIs /\ GrabsBalance(toldCalls)
    BY <2>2, <2>3 DEF GrabsBalance
  <2> HIDE DEF toldCalls
  <2> QED BY <1>4, <2>1, <2>4
<1>15. CASE CloseClicked
  BY <1>1, <1>4, <1>15 DEF CloseClicked
<1>16. CASE FadeEnds
  <2> DEFINE s == [UI EXCEPT !.dialog.fading = FALSE]
             d == [ui EXCEPT !.fading = FALSE]
  <2>1. d \in Dialogs /\ d.opening = ui.opening /\ d.unredirect = ui.unredirect /\ d.keyShots = ui.keyShots
    BY <1>1 DEF Dialogs
  <2>2. s = [UI EXCEPT !.dialog = d]
    BY <1>1 DEF UIs
  <2>3. UiBecomes(FinishClosing(s))
    BY <1>16 DEF FadeEnds
  <2> HIDE DEF s, d
  <2>4. s \in UIs /\ s.dialog = d
    BY <1>1, <2>1, <2>2, UiChanged
  <2>5. Settles(s, FinishClosing(s))
    BY <2>4, FinishClosingFacts DEF Settles
  <2>6. GrabsBalance(s)
    BY <1>2, <2>1, <2>4 DEF GrabsBalance
  <2> QED BY <1>3, <2>3, <2>5, <2>6, SettledIsGood
<1>17. ASSUME NEW keeps \in BOOLEAN, SessionUpdated(keeps) PROVE UiInv'
  BY <1>1, <1>4, <1>17 DEF SessionUpdated
<1>18. ASSUME NEW s \in UIs, NEW cast \in BOOLEAN
       PROVE  LET t == [s EXCEPT !.dialog.cast = cast]
              IN /\ t \in UIs /\ t.uiAsked = s.uiAsked /\ t.dialog.shown = s.dialog.shown /\ SameGrabs(s, t)
  <2> DEFINE t == [s EXCEPT !.dialog.cast = cast]
             d == [s.dialog EXCEPT !.cast = cast]
  <2>1. /\ d \in Dialogs /\ d.opening = s.dialog.opening /\ d.unredirect = s.dialog.unredirect /\ d.keyShots = s.dialog.keyShots
        /\ d.shown = s.dialog.shown
    BY DEF UIs, Dialogs
  <2>2. t = [s EXCEPT !.dialog = d]
    BY DEF UIs
  <2> HIDE DEF d, t
  <2>3. t \in UIs /\ t.dialog = d /\ t.uiAsked = s.uiAsked
    BY <2>1, <2>2, UiChanged
  <2>4. t \in UIs /\ t.uiAsked = s.uiAsked /\ t.dialog.shown = s.dialog.shown /\ SameGrabs(s, t)
    BY <2>1, <2>3 DEF SameGrabs
  <2> QED BY <2>4 DEF t
<1>19. ASSUME NEW s, UiGood(s), NEW cast \in BOOLEAN, UiBecomes([s EXCEPT !.dialog.cast = cast]) PROVE UiInv'
  <2> DEFINE t == [s EXCEPT !.dialog.cast = cast]
  <2>1. t \in UIs /\ t.uiAsked = s.uiAsked /\ t.dialog.shown = s.dialog.shown /\ SameGrabs(s, t)
    BY <1>18, <1>19 DEF UiGood
  <2> HIDE DEF t
  <2>2. UiGood(t)
    BY <1>19, <2>1 DEF UiGood, SameGrabs, GrabsBalance, Owing, NobodyWaits
  <2> QED BY <1>3, <1>19, <2>2 DEF t
<1>20. ASSUME NEW keeps \in BOOLEAN, StartScreencast(keeps) PROVE UiInv'
  <2> DEFINE cast == TRUE
             instantly == TRUE
  <2>1. cast \in BOOLEAN /\ instantly \in BOOLEAN /\ UiBecomes([Close(UI, instantly, keeps) EXCEPT !.dialog.cast = cast])
    BY <1>20 DEF StartScreencast
  <2> HIDE DEF cast, instantly
  <2>2. UiGood(Close(UI, instantly, keeps))
    BY <1>1, <2>1, CloseFacts, SettledIsGood
  <2> QED BY <1>19, <2>1, <2>2
<1>21. ASSUME NEW retry \in BOOLEAN, NEW keeps \in BOOLEAN, EndScreencast(retry, keeps) PROVE UiInv'
  <2>1. CASE retry
    BY <1>1, <1>4, <1>21, <2>1 DEF EndScreencast
  <2>2. CASE ~retry
    BY <1>19, <1>21, <2>2 DEF EndScreencast, UiInv
  <2> QED BY <2>1, <2>2
<1>22. CASE UNCHANGED uiVars
  BY <1>22 DEF uiVars, UiInv, UI
<1> QED BY <1>5, <1>6, <1>8, <1>9, <1>10, <1>11, <1>13, <1>14, <1>15, <1>16, <1>17, <1>20, <1>21, <1>22 DEF UiNext

\* However the dialog is opened, used and closed, it leaves no call without an
\* answer and no grab unaccounted for (js/ui/screenshot.js).
THEOREM GoneDialogAlwaysOwesNothing == UiSpec => []GoneDialogOwesNothing
<1>1. UiInit => UiInv
  <2> SUFFICES ASSUME UiInit PROVE UiInv
    OBVIOUS
  <2>1. ui \in Dialogs /\ uiAsked = <<>> /\ ui.unredirect = 0 /\ ui.keyShots = 0 /\ ui.opening = "no"
    BY DEF UiInit, Dialogs
  <2>2. UI \in UIs /\ UI.dialog = ui /\ UI.uiAsked = uiAsked
    BY <2>1 DEF UI, UIs
  <2> QED BY <2>1, <2>2 DEF UiInv, UiGood, GrabsBalance, Owing, NobodyWaits
<1>2. UiInv /\ [UiNext]_uiVars => UiInv'
  BY UiStep
<1>3. UiInv => GoneDialogOwesNothing
  BY DEF UiInv, UiGood, UI, GrabsBalance, Owing, NobodyWaits, GoneDialogOwesNothing
<1> QED BY <1>1, <1>2, <1>3, PTL DEF UiSpec

---------------------------------------------------------------------------
\* The directories right in d, the ones from any of D down, and those that a
\* sniff has still to read after the directory it is in.
ChildrenOf(d) == {Entries[d][i] : i \in {j \in DOMAIN Entries[d] : Entries[d][j] \in Dirs}}
Under(D) == UNION {DirsBelow(d) : d \in D}
DirsAhead(s) == s.subdirs \cup {Entries[s.dir][i] : i \in {j \in s.rest : Entries[s.dir][j] \in Dirs}}
\* The files of a type that it has still to count.
OfType(d, rest, t) == {i \in rest : Entries[d][i] = t}
FilesWith(s, rest, t) == ({s.dir} \X OfType(s.dir, rest, t)) \cup FilesIn(Under(DirsAhead(s)), t)
FilesAhead(s, t) == FilesWith(s, s.rest, t)

\* None of the directories of D is below another.
Unnested(D) == \A x, y \in D : x # y => x \notin DirsBelow(y)

\* What is below a directory: itself, what is right in it, and nothing that a
\* closed set with it leaves out.
LEMMA BelowFacts ==
  ASSUME NEW d \in Dirs
  PROVE  /\ DirsBelow(d) \subseteq Dirs /\ d \in DirsBelow(d) /\ Whole(DirsBelow(d))
         /\ ChildrenOf(d) \subseteq DirsBelow(d)
         /\ \A S \in SUBSET Dirs : d \in S /\ Whole(S) => DirsBelow(d) \subseteq S
<1>1. DirsBelow(d) \subseteq Dirs /\ d \in DirsBelow(d)
  BY DEF DirsBelow
<1>2. Whole(DirsBelow(d))
  <2> SUFFICES ASSUME NEW e \in DirsBelow(d), NEW i \in DOMAIN Entries[e], Entries[e][i] \in Dirs,
                      NEW S \in SUBSET Dirs, d \in S, Whole(S)
               PROVE  Entries[e][i] \in S
    BY DEF Whole, DirsBelow
  <2>1. e \in S
    BY DEF DirsBelow
  <2> QED BY <2>1 DEF Whole
<1>3. ChildrenOf(d) \subseteq DirsBelow(d)
  BY <1>1, <1>2 DEF Whole, ChildrenOf
<1>4. \A S \in SUBSET Dirs : d \in S /\ Whole(S) => DirsBelow(d) \subseteq S
  BY DEF DirsBelow
<1> QED BY <1>1, <1>2, <1>3, <1>4

\* What is below a directory that is below another is below that one too.
LEMMA BelowGoesOn ==
  ASSUME NEW d \in Dirs, NEW e \in DirsBelow(d)
  PROVE  e \in Dirs /\ DirsBelow(e) \subseteq DirsBelow(d)
<1>1. e \in Dirs /\ DirsBelow(d) \in SUBSET Dirs /\ Whole(DirsBelow(d))
  BY BelowFacts
<1> QED BY <1>1, BelowFacts

\* A directory and what is below the ones right in it are all there is below.
LEMMA BelowIsChildren ==
  ASSUME NEW d \in Dirs
  PROVE  DirsBelow(d) = {d} \cup Under(ChildrenOf(d))
<1> DEFINE S == {d} \cup Under(ChildrenOf(d))
<1>1. ChildrenOf(d) \subseteq Dirs
  BY DEF ChildrenOf
<1>2. S \subseteq DirsBelow(d)
  BY BelowFacts, BelowGoesOn DEF Under
<1>3. S \in SUBSET Dirs
  BY <1>2, BelowFacts
<1>4. Whole(S)
  <2> SUFFICES ASSUME NEW e \in S, NEW i \in DOMAIN Entries[e], Entries[e][i] \in Dirs
               PROVE  Entries[e][i] \in Under(ChildrenOf(d))
    BY DEF Whole
  <2>1. CASE e = d
    <3>1. Entries[e][i] \in ChildrenOf(d)
      BY <2>1 DEF ChildrenOf
    <3> QED BY <3>1, <1>1, BelowFacts DEF Under
  <2>2. CASE e # d
    <3>1. PICK c \in ChildrenOf(d) : e \in DirsBelow(c)
      BY <2>2 DEF Under
    <3>2. Whole(DirsBelow(c))
      BY <1>1, BelowFacts
    <3> QED BY <3>1, <3>2 DEF Under, Whole
  <2> QED BY <2>1, <2>2
<1> QED BY <1>2, <1>3, <1>4, BelowFacts

\* A directory below another one is that one, or lies in a directory below it.
LEMMA BelowHasParent ==
  ASSUME NEW x \in Dirs, NEW c \in DirsBelow(x), NEW d \in Dirs, c \in ChildrenOf(d), c # x
  PROVE  d \in DirsBelow(x)
<1> DEFINE S == IF d \in DirsBelow(x) THEN DirsBelow(x) ELSE DirsBelow(x) \ {c}
<1> SUFFICES ASSUME d \notin DirsBelow(x) PROVE FALSE
  OBVIOUS
<1>1. S \in SUBSET Dirs /\ x \in S
  BY BelowFacts
<1>2. Whole(S)
  <2> SUFFICES ASSUME NEW e \in S, NEW i \in DOMAIN Entries[e], Entries[e][i] \in Dirs
               PROVE  Entries[e][i] # c
    BY BelowFacts DEF Whole
  <2>1. PICK j \in DOMAIN Entries[d] : Entries[d][j] = c /\ c \in Dirs
    BY DEF ChildrenOf
  <2>2. e \in Dirs /\ e # d
    BY <1>1
  <2> QED BY <2>1, <2>2, SnifferAssumption
<1>3. DirsBelow(x) \subseteq S
  BY <1>1, <1>2, BelowFacts
<1> QED BY <1>3

\* No directory is below one that is right in it.
LEMMA NotBelowChildren ==
  ASSUME NEW d \in Dirs, NEW c \in ChildrenOf(d)
  PROVE  c \in Dirs /\ d \notin DirsBelow(c)
BY SnifferAssumption DEF ChildrenOf

\* When one of the directories ahead is opened, those in it take its place.
LEMMA OpeningKeepsApart ==
  ASSUME NEW D \in SUBSET Dirs, Unnested(D), NEW d \in D
  PROVE  /\ Unnested((D \ {d}) \cup ChildrenOf(d))
         /\ (D \ {d}) \cup ChildrenOf(d) \subseteq Dirs
         /\ d \notin Under((D \ {d}) \cup ChildrenOf(d))
         /\ {d} \cup Under((D \ {d}) \cup ChildrenOf(d)) = Under(D)
<1>1. \A c \in ChildrenOf(d) : c \in Dirs /\ d \notin DirsBelow(c) /\ c \in DirsBelow(d)
  BY NotBelowChildren, BelowFacts
<1>2. \A x \in D \ {d} : x \in Dirs /\ x \notin DirsBelow(d) /\ d \notin DirsBelow(x)
  BY DEF Unnested
<1>3. ASSUME NEW x \in (D \ {d}) \cup ChildrenOf(d), NEW y \in (D \ {d}) \cup ChildrenOf(d), x # y
      PROVE  x \notin DirsBelow(y)
  <2>1. CASE x \in D \ {d} /\ y \in D \ {d}
    BY <1>3, <2>1 DEF Unnested
  <2>2. CASE x \in ChildrenOf(d)
    <3>1. x \in DirsBelow(y) => d \in DirsBelow(y)
      BY <1>1, <1>2, <1>3, <2>2, BelowHasParent
    <3> QED BY <3>1, <1>1, <1>2
  <2>3. CASE x \in D \ {d} /\ y \in ChildrenOf(d)
    BY <2>3, <1>1, <1>2, BelowGoesOn
  <2> QED BY <2>1, <2>2, <2>3
<1>4. d \notin Under((D \ {d}) \cup ChildrenOf(d))
  BY <1>1, <1>2 DEF Under
<1>5. {d} \cup Under((D \ {d}) \cup ChildrenOf(d)) = Under(D)
  BY BelowIsChildren DEF Under
<1> QED BY <1>1, <1>3, <1>4, <1>5 DEF Unnested

\* When the first directory is opened, those in it are apart.
LEMMA OpeningFirst ==
  ASSUME NEW d \in Dirs
  PROVE  /\ Unnested(ChildrenOf(d)) /\ d \notin Under(ChildrenOf(d))
         /\ {d} \cup Under(ChildrenOf(d)) = DirsBelow(d)
<1>1. \A c \in ChildrenOf(d) : c \in Dirs /\ d \notin DirsBelow(c)
  BY NotBelowChildren
<1>2. Unnested(ChildrenOf(d))
  BY <1>1, BelowHasParent DEF Unnested
<1> QED BY <1>1, <1>2, BelowIsChildren DEF Under

---------------------------------------------------------------------------
\* What a finite set is mapped to is finite.
LEMMA FiniteImage ==
  ASSUME NEW A, IsFiniteSet(A), NEW B, NEW g, g \in Surjection(A, B)
  PROVE  IsFiniteSet(B)
<1>1. PICK n \in Nat : ExistsSurjection(1..n, A)
  BY FS_NatSurjection
<1>2. ExistsSurjection(A, B)
  BY DEF ExistsSurjection
<1>3. ExistsSurjection(1..n, B)
  BY <1>1, <1>2, Fun_ExistsSurjTransitive
<1> QED BY <1>3, FS_NatSurjection

\* The files of finitely many directories are finitely many.
LEMMA FilesInFinite ==
  ASSUME NEW D \in SUBSET Dirs, NEW t
  PROVE  IsFiniteSet(FilesIn(D, t))
<1> DEFINE Of(d) == {d} \X {i \in DOMAIN Entries[d] : Entries[d][i] = t}
           filesOf == [d \in D |-> Of(d)]
           fileSets == {filesOf[d] : d \in D}
<1>1. IsFiniteSet(D)
  BY FS_Subset, SnifferAssumption
<1>2. filesOf \in Surjection(D, fileSets)
  BY DEF Surjection
<1>3. IsFiniteSet(fileSets)
  <2> HIDE DEF filesOf, fileSets
  <2> QED BY <1>1, <1>2, FiniteImage
<1>4. \A S \in fileSets : IsFiniteSet(S)
  <2> SUFFICES ASSUME NEW d \in D PROVE IsFiniteSet(Of(d))
    OBVIOUS
  <2>1. IsFiniteSet({d}) /\ IsFiniteSet({i \in DOMAIN Entries[d] : Entries[d][i] = t})
    BY FS_Singleton, FS_Subset, SnifferAssumption
  <2> QED BY <2>1, FS_Product
<1>5. FilesIn(D, t) = UNION fileSets
  BY DEF FilesIn
<1> QED BY <1>3, <1>4, <1>5, FS_UNION

---------------------------------------------------------------------------
Verdicts == {<<>>, Failed} \cup {Results(c) : c \in [Types -> Nat]}
Sniffs ==
  [phase : {"unasked", "query", "load", "more", "answered"}, uri : SniffUris \cup {"none"}, dir : Dirs \cup {"none"},
   subdirs : SUBSET Dirs, rest : SUBSET UNION {DOMAIN Entries[d] : d \in Dirs}, counts : [Types -> Nat],
   cancelled : BOOLEAN, watchdog : BOOLEAN, skipped : BOOLEAN, answer : Verdicts]

\* A sniff that walks is in a directory, those ahead are apart from it and from
\* each other, and what it counted and what is ahead of it are the files there are.
WalkCounts(s) ==
  s.phase \in {"load", "more"} /\ ~s.skipped =>
    /\ s.dir \in Dirs /\ s.rest \subseteq DOMAIN Entries[s.dir] /\ s.uri \in Dirs
    /\ Unnested(DirsAhead(s)) /\ s.dir \notin Under(DirsAhead(s))
    /\ \A t \in Types : /\ Cardinality(FilesAhead(s, t)) \in Nat
                        /\ s.counts[t] + Cardinality(FilesAhead(s, t)) = FilesOf(s.uri)[t]
WalkIsThere(s) ==
  s.phase \in {"load", "more"} => s.dir \in Dirs /\ s.rest \subseteq DOMAIN Entries[s.dir]
AnswerIsWhole(s) ==
  s.phase = "answered" /\ s.answer # Failed /\ ~s.skipped => s.answer = Results(FilesOf(s.uri))
NotBegun(s) == s.phase \in {"unasked", "query"} => s.counts = NoCounts /\ s.subdirs = {} /\ ~s.skipped

SniffInv(s) == s \in Sniffs /\ WalkIsThere(s) /\ WalkCounts(s) /\ AnswerIsWhole(s) /\ NotBegun(s)

\* One call at a time: at most one is under way, the timer is off for as long
\* and there is one otherwise.
TimerInv ==
  ~overlapped => /\ \A q, r \in Invocations : UnderWay(q) /\ UnderWay(r) => q = r
                 /\ process = "gone" => \A r \in Invocations : ~UnderWay(r)
                 /\ process = "running" => quitTimers = IF \E r \in Invocations : UnderWay(r) THEN {} ELSE {autoquitId}

SnifferInv ==
  /\ sniffs \in [Invocations -> Sniffs] /\ process \in {"running", "gone"} /\ overlapped \in BOOLEAN
  /\ \A r \in Invocations : SniffInv(sniffs[r])
  /\ TimerInv

\* A directory that is opened when nothing of the last one is left: the files
\* ahead stay the same.
LEMMA LoadKeepsCount ==
  ASSUME NEW s, SniffInv(s), s.phase \in {"load", "more"}, s.skipped \/ s.rest = {}, NEW d \in s.subdirs
  PROVE  SniffInv(DeepCountLoad(s, d)) /\ DeepCountLoad(s, d).phase = "load"
<1> DEFINE n == DeepCountLoad(s, d)
<1>1. /\ s \in Sniffs /\ d \in Dirs /\ s.subdirs \subseteq Dirs
  BY DEF SniffInv, Sniffs
<1>2. /\ n \in Sniffs /\ n.phase = "load" /\ n.dir = d /\ n.rest = DOMAIN Entries[d] /\ n.subdirs = s.subdirs \ {d}
      /\ n.counts = s.counts /\ n.skipped = s.skipped /\ n.uri = s.uri
  BY <1>1 DEF DeepCountLoad, Sniffs
<1> HIDE DEF n
<1>3. WalkIsThere(n) /\ AnswerIsWhole(n) /\ NotBegun(n)
  BY <1>1, <1>2 DEF WalkIsThere, AnswerIsWhole, NotBegun
<1>4. ASSUME ~n.skipped PROVE WalkCounts(n)
  <2>1. s.rest = {} /\ ~s.skipped
    BY <1>2, <1>4
  <2>2. DirsAhead(s) = s.subdirs
    BY <2>1 DEF DirsAhead
  <2>3. DirsAhead(n) = (s.subdirs \ {d}) \cup ChildrenOf(d)
    BY <1>2 DEF DirsAhead, ChildrenOf
  <2>4. /\ Unnested(s.subdirs) /\ s.uri \in Dirs
        /\ \A t \in Types : /\ Cardinality(FilesAhead(s, t)) \in Nat
                            /\ s.counts[t] + Cardinality(FilesAhead(s, t)) = FilesOf(s.uri)[t]
    BY <2>1, <2>2 DEF SniffInv, WalkCounts
  <2>5. Unnested(DirsAhead(n)) /\ d \notin Under(DirsAhead(n)) /\ {d} \cup Under(DirsAhead(n)) = Under(s.subdirs)
    <3>1. s.subdirs \in SUBSET Dirs /\ Unnested(s.subdirs)
      BY <1>1, <2>4
    <3>2. /\ Unnested((s.subdirs \ {d}) \cup ChildrenOf(d)) /\ d \notin Under((s.subdirs \ {d}) \cup ChildrenOf(d))
          /\ {d} \cup Under((s.subdirs \ {d}) \cup ChildrenOf(d)) = Under(s.subdirs)
      BY <3>1, OpeningKeepsApart
    <3> QED BY <2>3, <3>2
  <2>6. \A t : FilesAhead(n, t) = FilesAhead(s, t)
    <3> TAKE t
    <3>1. FilesAhead(s, t) = FilesIn(Under(s.subdirs), t)
      BY <2>1, <2>2 DEF FilesAhead, FilesWith, OfType
    <3>2. FilesAhead(n, t) = FilesIn({d} \cup Under(DirsAhead(n)), t)
      BY <1>2 DEF FilesAhead, FilesWith, OfType, FilesIn
    <3> QED BY <3>1, <3>2, <2>5
  <2> QED BY <1>1, <1>2, <2>4, <2>5, <2>6 DEF WalkCounts
<1>5. n.skipped => WalkCounts(n)
  BY DEF WalkCounts
<1> QED BY <1>2, <1>3, <1>4, <1>5 DEF SniffInv, n

\* The directory that was asked about is opened.
LEMMA LoadOfUri ==
  ASSUME NEW s, SniffInv(s), s.phase = "query", s.uri \in Dirs
  PROVE  SniffInv(DeepCountLoad(s, s.uri)) /\ DeepCountLoad(s, s.uri).phase = "load"
<1> DEFINE n == DeepCountLoad(s, s.uri)
           top == s.uri
<1>1. s \in Sniffs /\ s.counts = NoCounts /\ s.subdirs = {} /\ ~s.skipped
  BY DEF SniffInv, NotBegun
<1>2. /\ n \in Sniffs /\ n.phase = "load" /\ n.dir = top /\ n.rest = DOMAIN Entries[top] /\ n.subdirs = {}
      /\ n.counts = NoCounts /\ n.skipped = FALSE /\ n.uri = top
  BY <1>1 DEF DeepCountLoad, Sniffs
<1> HIDE DEF n
<1>3. WalkIsThere(n) /\ AnswerIsWhole(n) /\ NotBegun(n)
  BY <1>1, <1>2 DEF WalkIsThere, AnswerIsWhole, NotBegun
<1>4. DirsAhead(n) = ChildrenOf(top)
  BY <1>2 DEF DirsAhead, ChildrenOf
<1>6. Unnested(DirsAhead(n)) /\ top \notin Under(DirsAhead(n)) /\ {top} \cup Under(DirsAhead(n)) = DirsBelow(top)
  BY <1>4, OpeningFirst
<1>7. ASSUME NEW t \in Types
      PROVE  /\ Cardinality(FilesAhead(n, t)) \in Nat
             /\ n.counts[t] + Cardinality(FilesAhead(n, t)) = FilesOf(n.uri)[t]
  <2>1. FilesAhead(n, t) = FilesIn({top} \cup Under(DirsAhead(n)), t)
    BY <1>2 DEF FilesAhead, FilesWith, OfType, FilesIn
  <2>2. FilesAhead(n, t) = FilesIn(DirsBelow(top), t)
    BY <2>1, <1>6
  <2>3. IsFiniteSet(FilesIn(DirsBelow(top), t))
    BY BelowFacts, FilesInFinite
  <2>4. Cardinality(FilesAhead(n, t)) \in Nat
    BY <2>2, <2>3, FS_CardinalityType
  <2> QED BY <2>2, <2>4, <1>2 DEF NoCounts, FilesOf
<1>8. WalkCounts(n)
  BY <1>2, <1>6, <1>7 DEF WalkCounts
<1> QED BY <1>2, <1>3, <1>8 DEF SniffInv, n

\* A batch of the entries of the directory that is read takes its files from
\* those ahead, and as many as it counts (deep_count_more_files_callback()).
BatchCounted(s, batch, t) ==
  /\ Cardinality(OfType(s.dir, batch, t)) \in Nat
  /\ Cardinality(FilesAhead(s, t)) \in Nat /\ Cardinality(FilesWith(s, s.rest \ batch, t)) \in Nat
  /\ Cardinality(FilesAhead(s, t)) = Cardinality(OfType(s.dir, batch, t)) + Cardinality(FilesWith(s, s.rest \ batch, t))

\* So it is for every batch of what is left to read.
LEMMA BatchIsCounted ==
  ASSUME NEW s, SniffInv(s), s.phase = "more", ~s.skipped, NEW batch \in SUBSET s.rest, NEW t \in Types
  PROVE  BatchCounted(s, batch, t)
<1> DEFINE here == s.dir
           taken == OfType(s.dir, batch, t)
           gone == {here} \X taken
           below == FilesIn(Under(DirsAhead(s)), t)
           left == {here} \X OfType(s.dir, s.rest \ batch, t)
           after == FilesWith(s, s.rest \ batch, t)
           before == FilesAhead(s, t)
<1>0. /\ s.dir \in Dirs /\ s.rest \subseteq DOMAIN Entries[s.dir] /\ batch \subseteq s.rest
      /\ DirsAhead(s) \subseteq Dirs /\ s.dir \notin Under(DirsAhead(s))
  BY DEF SniffInv, WalkCounts, Sniffs, DirsAhead
<1>1. IsFiniteSet(taken) /\ IsFiniteSet({here}) /\ Cardinality({here}) = 1 /\ IsFiniteSet(OfType(s.dir, s.rest \ batch, t))
  <2>1. OfType(s.dir, batch, t) \subseteq DOMAIN Entries[s.dir] /\ OfType(s.dir, s.rest \ batch, t) \subseteq DOMAIN Entries[s.dir]
    BY <1>0 DEF OfType
  <2> QED BY <2>1, <1>0, FS_Subset, FS_Singleton, SnifferAssumption
<1>2. /\ IsFiniteSet(gone) /\ Cardinality(gone) = Cardinality(taken) /\ Cardinality(taken) \in Nat
  BY <1>1, FS_Product, FS_CardinalityType
<1>3. Under(DirsAhead(s)) \in SUBSET Dirs
  BY <1>0, BelowFacts DEF Under
<1>4. IsFiniteSet(after)
  <2>1. IsFiniteSet(left)
    BY <1>1, FS_Product
  <2>2. IsFiniteSet(below)
    BY <1>3, FilesInFinite
  <2> QED BY <2>1, <2>2, FS_Union DEF FilesWith
<1>5. gone \cap after = {}
  <2>1. \A p \in gone : p[1] = s.dir /\ p[2] \in batch
    BY DEF OfType
  <2>2. \A p \in left : p[2] \notin batch
    BY DEF OfType
  <2>3. \A p \in below : p[1] \in Under(DirsAhead(s))
    BY DEF FilesIn
  <2>4. after = left \cup below
    BY DEF FilesWith
  <2> QED BY <1>0, <2>1, <2>2, <2>3, <2>4
<1>6. before = gone \cup after
  <2>1. OfType(s.dir, s.rest, t) = taken \cup OfType(s.dir, s.rest \ batch, t)
    BY <1>0 DEF OfType
  <2>2. {here} \X OfType(s.dir, s.rest, t) = gone \cup left
    BY <2>1
  <2> QED BY <2>2 DEF FilesAhead, FilesWith
<1> HIDE DEF gone, after, before, taken, here
<1>7. /\ Cardinality(before) = Cardinality(gone) + Cardinality(after) - Cardinality({})
      /\ Cardinality(after) \in Nat /\ IsFiniteSet(before)
  <2>1. /\ IsFiniteSet(gone \cup after)
        /\ Cardinality(gone \cup after) = Cardinality(gone) + Cardinality(after) - Cardinality(gone \cap after)
    BY <1>2, <1>4, FS_Union
  <2>2. Cardinality(after) \in Nat
    BY <1>4, FS_CardinalityType
  <2> QED BY <1>5, <1>6, <2>1, <2>2
<1>8. Cardinality(before) = Cardinality(taken) + Cardinality(after) /\ Cardinality(before) \in Nat
  BY <1>2, <1>7, FS_EmptySet
<1> QED BY <1>2, <1>7, <1>8 DEF BatchCounted, after, before, taken

\* A batch moves from what is ahead to what is counted.
LEMMA BatchKeepsCount ==
  ASSUME NEW s, SniffInv(s), s.phase = "more", NEW batch \in SUBSET s.rest
  PROVE  SniffInv(DeepCount(s, batch)) /\ DeepCount(s, batch).phase = "more"
<1> DEFINE n == DeepCount(s, batch)
           found == {Entries[s.dir][i] : i \in {j \in batch : Entries[s.dir][j] \in Dirs}}
           counted == [t \in Types |-> s.counts[t] + Cardinality({i \in batch : Entries[s.dir][i] = t})]
<1>1. s \in Sniffs /\ s.dir \in Dirs /\ s.rest \subseteq DOMAIN Entries[s.dir] /\ s.counts \in [Types -> Nat]
  BY DEF SniffInv, WalkIsThere, Sniffs
<1>2. \A t : IsFiniteSet({i \in batch : Entries[s.dir][i] = t}) /\ Cardinality({i \in batch : Entries[s.dir][i] = t}) \in Nat
  <2> TAKE t
  <2>1. {i \in batch : Entries[s.dir][i] = t} \subseteq DOMAIN Entries[s.dir]
    BY <1>1
  <2> QED BY <2>1, <1>1, FS_Subset, FS_CardinalityType, SnifferAssumption
<1>3. counted \in [Types -> Nat] /\ found \subseteq Dirs
  <2>1. \A t \in Types : s.counts[t] + Cardinality({i \in batch : Entries[s.dir][i] = t}) \in Nat
    BY <1>1, <1>2
  <2> QED BY <2>1
<1>4. n = [s EXCEPT !.rest = s.rest \ batch, !.subdirs = s.subdirs \cup found, !.counts = counted]
  BY <1>1 DEF DeepCount, Sniffs
<1> HIDE DEF n, counted, found
<1>5. /\ n \in Sniffs /\ n.phase = "more" /\ n.dir = s.dir /\ n.rest = s.rest \ batch /\ n.subdirs = s.subdirs \cup found
      /\ n.counts = counted /\ n.skipped = s.skipped /\ n.uri = s.uri
  BY <1>1, <1>3, <1>4 DEF Sniffs
<1>6. WalkIsThere(n) /\ AnswerIsWhole(n) /\ NotBegun(n)
  BY <1>1, <1>5 DEF WalkIsThere, AnswerIsWhole, NotBegun
<1>7. DirsAhead(n) = DirsAhead(s)
  BY <1>5 DEF DirsAhead, found
<1>8. ASSUME ~s.skipped PROVE WalkCounts(n)
  <2>1. /\ s.uri \in Dirs /\ Unnested(DirsAhead(s)) /\ s.dir \notin Under(DirsAhead(s))
        /\ \A t \in Types : /\ Cardinality(FilesAhead(s, t)) \in Nat
                            /\ s.counts[t] + Cardinality(FilesAhead(s, t)) = FilesOf(s.uri)[t]
    BY <1>8 DEF SniffInv, WalkCounts
  <2>2. DirsAhead(s) \in SUBSET Dirs
    BY <1>1 DEF DirsAhead, Sniffs
  <2>3. ASSUME NEW t \in Types
        PROVE  /\ Cardinality(FilesAhead(n, t)) \in Nat
               /\ n.counts[t] + Cardinality(FilesAhead(n, t)) = FilesOf(n.uri)[t]
    <3>1. /\ Cardinality({i \in batch : Entries[s.dir][i] = t}) \in Nat
          /\ Cardinality(FilesAhead(s, t)) \in Nat /\ Cardinality(FilesAhead(n, t)) \in Nat
          /\ Cardinality(FilesAhead(s, t)) = Cardinality({i \in batch : Entries[s.dir][i] = t}) + Cardinality(FilesAhead(n, t))
      <4>1. FilesAhead(n, t) = FilesWith(s, s.rest \ batch, t)
        BY <1>5, <1>7 DEF FilesAhead, FilesWith
      <4>2. OfType(s.dir, batch, t) = {i \in batch : Entries[s.dir][i] = t}
        BY DEF OfType
      <4>3. BatchCounted(s, batch, t)
        BY <1>8, <2>3, BatchIsCounted
      <4> QED BY <4>1, <4>2, <4>3 DEF BatchCounted
    <3>2. n.counts[t] = s.counts[t] + Cardinality({i \in batch : Entries[s.dir][i] = t}) /\ s.counts[t] \in Nat
      BY <1>1, <1>5 DEF counted
    <3>3. s.counts[t] + Cardinality(FilesAhead(s, t)) = FilesOf(s.uri)[t] /\ n.uri = s.uri
      BY <2>1, <1>5
    <3> QED BY <3>1, <3>2, <3>3
  <2> QED BY <1>1, <1>5, <1>7, <2>1, <2>3 DEF WalkCounts
<1>9. s.skipped => WalkCounts(n)
  BY <1>5 DEF WalkCounts
<1> QED BY <1>5, <1>6, <1>8, <1>9 DEF SniffInv, n

\* What is found when nothing is ahead.
LEMMA NothingAhead ==
  ASSUME NEW s, SniffInv(s), s.phase \in {"load", "more"}, ~s.skipped, s.rest = {}, s.subdirs = {}
  PROVE  s.counts = FilesOf(s.uri)
<1>1. \A t \in Types : FilesAhead(s, t) = {}
  BY DEF FilesAhead, FilesWith, OfType, DirsAhead, Under, FilesIn
<1>2. s.counts \in [Types -> Nat]
  BY DEF SniffInv, Sniffs
<1>3. ASSUME NEW t \in Types PROVE s.counts[t] = FilesOf(s.uri)[t]
  <2>1. s.counts[t] + Cardinality(FilesAhead(s, t)) = FilesOf(s.uri)[t]
    BY DEF SniffInv, WalkCounts
  <2>2. Cardinality(FilesAhead(s, t)) = 0
    BY <1>1, FS_EmptySet
  <2>3. s.counts[t] \in Nat
    BY <1>2
  <2> QED BY <2>1, <2>2, <2>3
<1> QED BY <1>2, <1>3 DEF FilesOf

\* The rest of a directory that cannot be read is left out.
LEMMA LeftOutIsFine ==
  ASSUME NEW s, SniffInv(s), s.phase \in {"load", "more"}
  PROVE  /\ SniffInv(LeftOut(s)) /\ LeftOut(s).phase = s.phase /\ LeftOut(s).skipped
         /\ LeftOut(s).cancelled = s.cancelled /\ LeftOut(s).subdirs = s.subdirs
<1> DEFINE n == LeftOut(s)
<1>1. s \in Sniffs /\ s.dir \in Dirs
  BY DEF SniffInv, WalkIsThere
<1>2. /\ n \in Sniffs /\ n.phase = s.phase /\ n.skipped = TRUE /\ n.dir = s.dir /\ n.rest = {}
      /\ n.cancelled = s.cancelled /\ n.subdirs = s.subdirs
  BY <1>1 DEF LeftOut, Sniffs
<1> HIDE DEF n
<1>3. WalkIsThere(n) /\ WalkCounts(n) /\ AnswerIsWhole(n) /\ NotBegun(n)
  BY <1>1, <1>2 DEF WalkIsThere, WalkCounts, AnswerIsWhole, NotBegun
<1> QED BY <1>2, <1>3 DEF SniffInv, n

\* The first entries of a directory are there to be read.
LEMMA MoreIsFine ==
  ASSUME NEW s, SniffInv(s), s.phase = "load"
  PROVE  SniffInv([s EXCEPT !.phase = "more"]) /\ [s EXCEPT !.phase = "more"].phase = "more"
<1> DEFINE n == [s EXCEPT !.phase = "more"]
<1>1. s \in Sniffs
  BY DEF SniffInv
<1>2. /\ n \in Sniffs /\ n.phase = "more" /\ n.skipped = s.skipped /\ n.dir = s.dir /\ n.rest = s.rest
      /\ n.subdirs = s.subdirs /\ n.counts = s.counts /\ n.uri = s.uri
  BY <1>1 DEF Sniffs
<1> HIDE DEF n
<1>3. DirsAhead(n) = DirsAhead(s) /\ \A t : FilesAhead(n, t) = FilesAhead(s, t)
  BY <1>2 DEF DirsAhead, FilesAhead, FilesWith
<1>4. WalkIsThere(n) /\ WalkCounts(n) /\ AnswerIsWhole(n) /\ NotBegun(n)
  BY <1>2, <1>3 DEF SniffInv, WalkIsThere, WalkCounts, AnswerIsWhole, NotBegun
<1> QED BY <1>2, <1>4 DEF SniffInv, n

SniffOver(s, answer) == [s EXCEPT !.phase = "answered", !.answer = answer, !.cancelled = FALSE]

\* What a sniff is answered with: an error, or what is in the whole tree.
LEMMA AnsweredIsFine ==
  ASSUME NEW s, SniffInv(s), NEW answer \in Verdicts,
         \/ answer = Failed
         \/ s.phase \in {"load", "more"} /\ answer = Results(s.counts) /\ s.subdirs = {} /\ (s.skipped \/ s.rest = {})
  PROVE  SniffInv(SniffOver(s, answer)) /\ SniffOver(s, answer).phase = "answered"
<1> DEFINE n == SniffOver(s, answer)
<1>1. s \in Sniffs
  BY DEF SniffInv
<1>2. n \in Sniffs /\ n.phase = "answered" /\ n.answer = answer /\ n.skipped = s.skipped /\ n.uri = s.uri
  BY <1>1 DEF SniffOver, Sniffs
<1> HIDE DEF n
<1>3. WalkIsThere(n) /\ WalkCounts(n) /\ NotBegun(n)
  BY <1>2 DEF WalkIsThere, WalkCounts, NotBegun
<1>4. AnswerIsWhole(n)
  BY <1>2, NothingAhead DEF AnswerIsWhole
<1> QED BY <1>2, <1>3, <1>4 DEF SniffInv, n

---------------------------------------------------------------------------
\* A sniff that goes on changes no other, nor the timer.
LEMMA GoesOn ==
  ASSUME SnifferInv, NEW r \in Invocations, UnderWay(r), NEW n, SniffInv(n), n.phase \in {"query", "load", "more"},
         Continue(r, n), UNCHANGED <<process, overlapped>>
  PROVE  SnifferInv'
<1>1. sniffs \in [Invocations -> Sniffs] /\ n \in Sniffs /\ sniffs' = [sniffs EXCEPT ![r] = n]
  BY DEF SnifferInv, SniffInv, Continue
<1>2. sniffs' \in [Invocations -> Sniffs] /\ sniffs'[r] = n /\ \A q \in Invocations : q # r => sniffs'[q] = sniffs[q]
  BY <1>1
<1>3. \A q \in Invocations : SniffInv(sniffs[q])'
  BY <1>2 DEF SnifferInv
<1>4. \A q \in Invocations : UnderWay(q)' = UnderWay(q)
  BY <1>2 DEF UnderWay
<1>5. TimerInv'
  BY <1>4 DEF SnifferInv, TimerInv, Continue
<1> QED BY <1>2, <1>3, <1>5 DEF SnifferInv

\* A sniff that is answered arms the timer when it was the only one.
LEMMA IsAnswered ==
  ASSUME SnifferInv, NEW r \in Invocations, UnderWay(r), process = "running", NEW s, NEW answer, SniffInv(SniffOver(s, answer)),
         SniffOver(s, answer).phase = "answered", Answer(r, s, answer), UNCHANGED <<process, overlapped>>
  PROVE  SnifferInv'
<1> DEFINE n == SniffOver(s, answer)
<1>1. sniffs \in [Invocations -> Sniffs] /\ n \in Sniffs /\ sniffs' = [sniffs EXCEPT ![r] = n]
  BY DEF SnifferInv, SniffInv, Answer, SniffOver
<1> HIDE DEF n
<1>2. sniffs' \in [Invocations -> Sniffs] /\ sniffs'[r] = n /\ \A q \in Invocations : q # r => sniffs'[q] = sniffs[q]
  BY <1>1
<1>3. \A q \in Invocations : SniffInv(sniffs[q])'
  BY <1>2 DEF SnifferInv, n
<1>4. ~UnderWay(r)' /\ \A q \in Invocations : q # r => UnderWay(q)' = UnderWay(q)
  BY <1>2 DEF UnderWay, n
<1>5. TimerInv'
  <2> SUFFICES ASSUME ~overlapped' PROVE TimerInv'
    BY DEF TimerInv
  <2>1. quitTimers = {} /\ \A q \in Invocations : UnderWay(q) => q = r
    BY DEF SnifferInv, TimerInv
  <2>2. \A q \in Invocations : ~UnderWay(q)'
    BY <1>4, <2>1
  <2>3. quitTimers' = {autoquitId'}
    BY <2>1 DEF Answer, EnsureAutoquitOn
  <2> QED BY <2>2, <2>3 DEF TimerInv
<1> QED BY <1>2, <1>3, <1>5 DEF SnifferInv

\* deep_count_finish() and deep_count_next_dir() keep the invariant.
LEMMA FinishKeeps ==
  ASSUME SnifferInv, NEW r \in Invocations, UnderWay(r), process = "running", NEW s, SniffInv(s), s.phase \in {"load", "more"},
         s.cancelled \/ (s.subdirs = {} /\ (s.skipped \/ s.rest = {})),
         DeepCountFinish(r, s), UNCHANGED <<process, overlapped>>
  PROVE  SnifferInv'
<1> DEFINE found == IF s.cancelled THEN Failed ELSE Results(s.counts)
<1>1. found \in Verdicts
  BY DEF Verdicts, SniffInv, Sniffs
<1>2. SniffInv(SniffOver(s, found)) /\ SniffOver(s, found).phase = "answered"
  BY <1>1, AnsweredIsFine
<1>3. Answer(r, s, found)
  BY DEF DeepCountFinish
<1> HIDE DEF found
<1> QED BY <1>2, <1>3, IsAnswered

\* deep_count_next_dir() opens another directory or ends the sniff.
LEMMA NextDirKeeps ==
  ASSUME SnifferInv, NEW r \in Invocations, UnderWay(r), process = "running", NEW s, SniffInv(s), s.phase \in {"load", "more"},
         s.skipped \/ s.rest = {}, DeepCountNextDir(r, s), UNCHANGED <<process, overlapped>>
  PROVE  SnifferInv'
<1>1. CASE s.subdirs = {} /\ DeepCountFinish(r, s)
  BY <1>1, FinishKeeps
<1>2. CASE \E d \in s.subdirs : Continue(r, DeepCountLoad(s, d))
  <2>1. PICK d \in s.subdirs : Continue(r, DeepCountLoad(s, d))
    BY <1>2
  <2>2. SniffInv(DeepCountLoad(s, d)) /\ DeepCountLoad(s, d).phase = "load"
    BY LoadKeepsCount
  <2> QED BY <2>1, <2>2, GoesOn
<1> QED BY <1>1, <1>2 DEF DeepCountNextDir

\* Every step of the sniffer keeps its invariant.
LEMMA SnifferStep ==
  ASSUME SnifferInv, [SnifferNext]_snifferVars
  PROVE  SnifferInv'
<1>0. /\ sniffs \in [Invocations -> Sniffs] /\ \A r \in Invocations : SniffInv(sniffs[r])
  BY DEF SnifferInv
<1>1. ASSUME NEW r \in Invocations, NEW uri \in SniffUris, HandleSniffUri(r, uri) PROVE SnifferInv'
  <2> DEFINE n == [Unasked EXCEPT !.phase = "query", !.uri = uri, !.watchdog = TRUE]
  <2>1. Unasked \in Sniffs
    BY DEF Unasked, Sniffs, NoCounts, Verdicts
  <2>2. /\ n \in Sniffs /\ n.phase = "query" /\ n.counts = NoCounts /\ n.subdirs = {} /\ n.skipped = FALSE
    BY <2>1 DEF Unasked, Sniffs
  <2>3. sniffs' = [sniffs EXCEPT ![r] = n] /\ sniffs[r].phase = "unasked"
    BY <1>1 DEF HandleSniffUri, Unasked
  <2> HIDE DEF n
  <2>4. SniffInv(n)
    BY <2>2 DEF SniffInv, WalkIsThere, WalkCounts, AnswerIsWhole, NotBegun
  <2>5. sniffs' \in [Invocations -> Sniffs] /\ sniffs'[r] = n /\ \A q \in Invocations : q # r => sniffs'[q] = sniffs[q]
    BY <1>0, <2>2, <2>3
  <2>6. \A q \in Invocations : SniffInv(sniffs[q])'
    BY <1>0, <2>4, <2>5
  <2>7. UnderWay(r)' /\ \A q \in Invocations : q # r => UnderWay(q)' = UnderWay(q)
    BY <2>2, <2>5 DEF UnderWay
  <2>8. TimerInv'
    <3> SUFFICES ASSUME ~overlapped' PROVE TimerInv'
      BY DEF TimerInv
    <3>1. /\ ~overlapped /\ process = "running" /\ process' = "running" /\ \A q \in Invocations : ~UnderWay(q)
          /\ quitTimers' = quitTimers \ {autoquitId}
      BY <1>1 DEF HandleSniffUri, EnsureAutoquitOff
    <3>2. quitTimers = {autoquitId}
      BY <3>1 DEF SnifferInv, TimerInv
    <3> QED BY <2>7, <3>1, <3>2 DEF TimerInv
  <2> QED BY <1>1, <2>5, <2>6, <2>8 DEF SnifferInv, HandleSniffUri
<1>2. ASSUME NEW r \in Invocations, NEW ok \in BOOLEAN, QueryInfoReady(r, ok) PROVE SnifferInv'
  <2>1. /\ process = "running" /\ UnderWay(r) /\ sniffs[r].phase = "query" /\ UNCHANGED <<process, overlapped>> /\ SniffInv(sniffs[r])
    BY <1>0, <1>2 DEF QueryInfoReady, UnderWay
  <2>2. CASE sniffs[r].cancelled \/ ~ok \/ sniffs[r].uri \notin Dirs
    <3>1. Answer(r, sniffs[r], Failed) /\ Failed \in Verdicts
      BY <1>2, <2>2 DEF QueryInfoReady, Verdicts
    <3>2. SniffInv(SniffOver(sniffs[r], Failed)) /\ SniffOver(sniffs[r], Failed).phase = "answered"
      BY <2>1, <3>1, AnsweredIsFine
    <3> QED BY <2>1, <3>1, <3>2, IsAnswered
  <2>3. CASE ~(sniffs[r].cancelled \/ ~ok \/ sniffs[r].uri \notin Dirs)
    <3>1. Continue(r, DeepCountLoad(sniffs[r], sniffs[r].uri)) /\ sniffs[r].uri \in Dirs
      BY <1>2, <2>3 DEF QueryInfoReady
    <3>2. SniffInv(DeepCountLoad(sniffs[r], sniffs[r].uri)) /\ DeepCountLoad(sniffs[r], sniffs[r].uri).phase = "load"
      BY <2>1, <3>1, LoadOfUri
    <3> QED BY <2>1, <3>1, <3>2, GoesOn
  <2> QED BY <2>2, <2>3
<1>3. ASSUME NEW r \in Invocations, NEW ok \in BOOLEAN, DeepCountCallback(r, ok) PROVE SnifferInv'
  <2> DEFINE s == sniffs[r]
  <2>1. /\ process = "running" /\ UnderWay(r) /\ s.phase = "load" /\ UNCHANGED <<process, overlapped>> /\ SniffInv(s)
    BY <1>0, <1>3 DEF DeepCountCallback, UnderWay
  <2>2. CASE s.cancelled /\ DeepCountFinish(r, s)
    BY <2>1, <2>2, FinishKeeps
  <2>3. CASE Continue(r, [s EXCEPT !.phase = "more"])
    <3>1. SniffInv([s EXCEPT !.phase = "more"]) /\ [s EXCEPT !.phase = "more"].phase = "more"
      BY <2>1, MoreIsFine
    <3> QED BY <2>1, <2>3, <3>1, GoesOn
  <2>4. CASE DeepCountNextDir(r, LeftOut(s))
    <3>1. SniffInv(LeftOut(s)) /\ LeftOut(s).phase = "load" /\ LeftOut(s).skipped
      BY <2>1, LeftOutIsFine
    <3> QED BY <2>1, <2>4, <3>1, NextDirKeeps
  <2> QED BY <1>3, <2>2, <2>3, <2>4 DEF DeepCountCallback
<1>4. ASSUME NEW r \in Invocations, NEW ok \in BOOLEAN, DeepCountMoreFiles(r, ok) PROVE SnifferInv'
  <2> DEFINE s == sniffs[r]
  <2>1. /\ process = "running" /\ UnderWay(r) /\ s.phase = "more" /\ UNCHANGED <<process, overlapped>> /\ SniffInv(s)
    BY <1>0, <1>4 DEF DeepCountMoreFiles, UnderWay
  <2>2. CASE s.cancelled /\ DeepCountFinish(r, s)
    BY <2>1, <2>2, FinishKeeps
  <2>3. CASE DeepCountNextDir(r, LeftOut(s))
    <3>1. SniffInv(LeftOut(s)) /\ LeftOut(s).phase = "more" /\ LeftOut(s).skipped
      BY <2>1, LeftOutIsFine
    <3> QED BY <2>1, <2>3, <3>1, NextDirKeeps
  <2>4. CASE s.rest = {} /\ DeepCountNextDir(r, s)
    BY <2>1, <2>4, NextDirKeeps
  <2>5. ASSUME NEW batch \in SUBSET s.rest, Continue(r, DeepCount(s, batch)) PROVE SnifferInv'
    <3>1. SniffInv(DeepCount(s, batch)) /\ DeepCount(s, batch).phase = "more"
      BY <2>1, BatchKeepsCount
    <3> QED BY <2>1, <2>5, <3>1, GoesOn
  <2> QED BY <1>4, <2>2, <2>3, <2>4, <2>5 DEF DeepCountMoreFiles
<1>5. ASSUME NEW r \in Invocations, WatchdogTimeoutReached(r) PROVE SnifferInv'
  <2> DEFINE s == sniffs[r]
             n == sniffs'[r]
  <2>1. /\ s \in Sniffs /\ n = [s EXCEPT !.watchdog = FALSE, !.cancelled = TRUE]
        /\ UNCHANGED <<quitTimers, autoquitId, process, overlapped>>
        /\ \A q \in Invocations : q # r => sniffs'[q] = sniffs[q]
        /\ DOMAIN sniffs' = Invocations /\ sniffs' = [q \in Invocations |-> sniffs'[q]]
    BY <1>0, <1>5 DEF WatchdogTimeoutReached
  <2>2. n \in Sniffs
    BY <2>1 DEF Sniffs
  <2>3. /\ sniffs' \in [Invocations -> Sniffs] /\ UNCHANGED <<quitTimers, autoquitId, process, overlapped>>
        /\ \A q \in Invocations : q # r => sniffs'[q] = sniffs[q]
        /\ n.phase = s.phase /\ n.skipped = s.skipped /\ n.dir = s.dir /\ n.rest = s.rest
        /\ n.subdirs = s.subdirs /\ n.counts = s.counts /\ n.uri = s.uri /\ n.answer = s.answer
    <3>1. /\ n.phase = s.phase /\ n.skipped = s.skipped /\ n.dir = s.dir /\ n.rest = s.rest
          /\ n.subdirs = s.subdirs /\ n.counts = s.counts /\ n.uri = s.uri /\ n.answer = s.answer
      BY <2>1 DEF Sniffs
    <3> HIDE DEF n
    <3>2. \A q \in Invocations : sniffs'[q] \in Sniffs
      BY <1>0, <2>1, <2>2 DEF n
    <3>3. sniffs' \in [Invocations -> Sniffs]
      BY <2>1, <3>2
    <3> QED BY <2>1, <3>1, <3>3
  <2> HIDE DEF n
  <2>4. DirsAhead(n) = DirsAhead(s) /\ \A t : FilesAhead(n, t) = FilesAhead(s, t)
    BY <2>3 DEF DirsAhead, FilesAhead, FilesWith
  <2>5. SniffInv(n)
    BY <1>0, <2>3, <2>2, <2>4 DEF SniffInv, WalkIsThere, WalkCounts, AnswerIsWhole, NotBegun
  <2>6. \A q \in Invocations : SniffInv(sniffs[q])'
    BY <1>0, <2>3, <2>5 DEF n
  <2>7. \A q \in Invocations : UnderWay(q)' = UnderWay(q)
    BY <2>3 DEF UnderWay, n
  <2>8. TimerInv'
    BY <2>3, <2>7 DEF SnifferInv, TimerInv
  <2> QED BY <2>3, <2>6, <2>8 DEF SnifferInv
<1>6. ASSUME NEW t, AutoquitTimeout(t) PROVE SnifferInv'
  <2>1. /\ process = "running" /\ t \in quitTimers /\ process' = "gone" /\ UNCHANGED <<sniffs, overlapped>>
    BY <1>6 DEF AutoquitTimeout
  <2>2. \A q \in Invocations : SniffInv(sniffs[q])'
    BY <1>0, <2>1
  <2>3. \A q \in Invocations : UnderWay(q)' = UnderWay(q)
    BY <2>1 DEF UnderWay
  <2>4. TimerInv'
    BY <2>1, <2>3 DEF SnifferInv, TimerInv
  <2> QED BY <2>1, <2>2, <2>4 DEF SnifferInv
<1>7. ASSUME UNCHANGED snifferVars PROVE SnifferInv'
  <2>1. UNCHANGED <<sniffs, quitTimers, autoquitId, process, overlapped>>
    BY <1>7 DEF snifferVars
  <2>2. \A q \in Invocations : SniffInv(sniffs[q])' /\ UnderWay(q)' = UnderWay(q)
    BY <1>0, <2>1 DEF UnderWay
  <2>3. TimerInv'
    BY <2>1, <2>2 DEF SnifferInv, TimerInv
  <2> QED BY <2>1, <2>2, <2>3 DEF SnifferInv
<1> QED BY <1>1, <1>2, <1>3, <1>4, <1>5, <1>6, <1>7 DEF SnifferNext

\* The answer a medium gets is that of its whole tree, and the process does not
\* quit on a call (hotplug-sniffer.c, shell-mime-sniffer.c).
THEOREM MediaAreAlwaysSniffed == SnifferSpec => []MediaAreSniffed
<1>1. SnifferInit => SnifferInv
  <2> SUFFICES ASSUME SnifferInit PROVE SnifferInv
    OBVIOUS
  <2>1. Unasked \in Sniffs /\ Unasked.phase = "unasked" /\ Unasked.counts = NoCounts /\ Unasked.subdirs = {} /\ Unasked.skipped = FALSE
    BY DEF Unasked, Sniffs, NoCounts, Verdicts
  <2>2. SniffInv(Unasked)
    BY <2>1 DEF SniffInv, WalkIsThere, WalkCounts, AnswerIsWhole, NotBegun
  <2>3. \A r \in Invocations : sniffs[r] = Unasked /\ ~UnderWay(r)
    BY <2>1 DEF SnifferInit, UnderWay
  <2> QED BY <2>1, <2>2, <2>3 DEF SnifferInit, SnifferInv, TimerInv
<1>2. SnifferInv /\ [SnifferNext]_snifferVars => SnifferInv'
  BY SnifferStep
<1>3. SnifferInv => MediaAreSniffed
  BY DEF SnifferInv, TimerInv, MediaAreSniffed, SniffInv, AnswerIsWhole
<1> QED BY <1>1, <1>2, <1>3, PTL DEF SnifferSpec

---------------------------------------------------------------------------
(* Requests of polkit.                                                     *)

AuthStates == {"new", "scheduled", "current", "freed"}
AuthRecord ==
  [scheduled : Seq(AuthRequests), current : AuthRequests \cup {NoAuth}, state : [AuthRequests -> AuthStates],
   answers : [AuthRequests -> Nat], open : SUBSET AuthRequests, known : AuthRequests \cup {NoAuth},
   done : SUBSET AuthRequests, waiting : Seq(AuthRequests)]

Holds(list, r) == \E i \in DOMAIN list : list[i] = r
Once(list) == \A i, j \in DOMAIN list : list[i] = list[j] => i = j
\* A request is scheduled, current, or neither; it is answered when it is freed.
Orderly(s) ==
  /\ s \in AuthRecord /\ Once(s.scheduled)
  /\ \A r \in AuthRequests : /\ s.state[r] = "scheduled" <=> Holds(s.scheduled, r)
                             /\ s.state[r] = "current" <=> s.current = r
                             /\ s.answers[r] = (IF s.state[r] = "freed" THEN 1 ELSE 0)
InTurn(s) == s.scheduled # <<>> => s.current # NoAuth
NoneIsNewAgain(s, t) == \A r \in AuthRequests : s.state[r] # "new" => t.state[r] # "new"
PolkitInv ==
  /\ Orderly(auth) /\ InTurn(auth)
  /\ idles \subseteq AuthRequests /\ \A r \in idles : auth.state[r] # "new"
  /\ locked \in BOOLEAN

\* ListRemove takes out one entry once and keeps the others.
LEMMA RemovedFromList ==
  ASSUME NEW S, NEW list \in Seq(S), Once(list), NEW r
  PROVE  /\ ListRemove(list, r) \in Seq(S) /\ Once(ListRemove(list, r))
         /\ \A q : Holds(ListRemove(list, r), q) <=> q # r /\ Holds(list, q)
<1> DEFINE places == {i \in DOMAIN list : list[i] = r}
<1>1. CASE places = {}
  <2>1. ListRemove(list, r) = list
    BY <1>1 DEF ListRemove
  <2>2. ~Holds(list, r)
    BY <1>1 DEF Holds
  <2> QED BY <2>1, <2>2
<1>2. CASE places # {}
  <2> DEFINE p == CHOOSE i \in places : TRUE
             n == Len(list)
             new == ListRemove(list, r)
             front == SubSeq(list, 1, p - 1)
             back == SubSeq(list, p + 1, n)
  <2>1. p \in places
    BY <1>2
  <2>2. p \in 1 .. n /\ list[p] = r /\ n \in Nat /\ DOMAIN list = 1 .. n
    BY <2>1
  <2>3. new = front \o back
    BY <1>2 DEF ListRemove, RemoveAt
  <2> HIDE DEF p, n, new
  <2>4. /\ front \in Seq(S) /\ Len(front) = p - 1 /\ \A i \in 1 .. p - 1 : front[i] = list[i]
        /\ back \in Seq(S) /\ Len(back) = n - p /\ \A i \in 1 .. n - p : back[i] = list[p + i]
    <3>1. \A i \in 1 .. n : list[i] \in S
      BY <2>2
    <3>2. n = Len(list)
      BY DEF n
    <3>3. front \in Seq(S) /\ Len(front) = p - 1 /\ \A i \in 1 .. p - 1 : front[i] = list[i]
      BY <2>2, <3>1, <3>2, SubSeqProperties
    <3>4. back \in Seq(S) /\ Len(back) = n - p /\ \A i \in 1 .. n - p : back[i] = list[p + i]
      <4>1. p + 1 \in Int /\ n \in Int /\ \A i \in p + 1 .. n : list[i] \in S
        BY <2>2, <3>1
      <4>2. /\ back \in Seq(S) /\ Len(back) = IF p + 1 <= n THEN n - (p + 1) + 1 ELSE 0
            /\ \A i \in 1 .. n - (p + 1) + 1 : back[i] = list[(p + 1) + i - 1]
        BY ONLY <4>1, SubSeqProperties DEF back
      <4>3. \A i \in 1 .. n - p : i \in 1 .. n - (p + 1) + 1 /\ (p + 1) + i - 1 = p + i
        BY <2>2
      <4> HIDE DEF back
      <4> QED BY <2>2, <4>2, <4>3
    <3> QED BY <3>3, <3>4
  <2> HIDE DEF front, back
  <2>5. /\ new \in Seq(S) /\ Len(new) = n - 1 /\ DOMAIN new = 1 .. n - 1
        /\ \A i \in 1 .. n - 1 : new[i] = IF i < p THEN list[i] ELSE list[i + 1]
    <3>1. new \in Seq(S) /\ Len(new) = n - 1 /\ DOMAIN new = 1 .. n - 1
      <4>1. new \in Seq(S) /\ Len(new) = Len(front) + Len(back)
        BY <2>3, <2>4, ConcatProperties
      <4>2. Len(new) = n - 1 /\ n - 1 \in Nat
        BY <2>2, <2>4, <4>1
      <4> QED BY <4>1, <4>2, LenProperties
    <3>2. \A i \in 1 .. n - 1 : new[i] = IF i <= p - 1 THEN front[i] ELSE back[i - (p - 1)]
      BY <2>2, <2>3, <2>4, ConcatProperties
    <3>3. \A i \in 1 .. n - 1 : new[i] = IF i < p THEN list[i] ELSE list[i + 1]
      <4> SUFFICES ASSUME NEW i \in 1 .. n - 1 PROVE new[i] = IF i < p THEN list[i] ELSE list[i + 1]
        OBVIOUS
      <4>1. CASE i < p
        BY <2>2, <2>4, <3>2, <4>1
      <4>2. CASE i >= p
        <5>1. i - (p - 1) \in 1 .. n - p /\ p + (i - (p - 1)) = i + 1
          BY <2>2, <4>2
        <5> QED BY <2>2, <2>4, <3>2, <4>2, <5>1
      <4> QED BY <2>2, <4>1, <4>2
    <3> QED BY <2>2, <3>1, <3>3
  <2>6. Once(new)
    <3> SUFFICES ASSUME NEW i \in 1 .. n - 1, NEW j \in 1 .. n - 1, new[i] = new[j] PROVE i = j
      BY <2>5 DEF Once
    <3> DEFINE at(k) == IF k < p THEN k ELSE k + 1
    <3>1. \A k \in 1 .. n - 1 : at(k) \in 1 .. n /\ new[k] = list[at(k)]
      BY <2>2, <2>5
    <3>2. at(i) = at(j)
      <4> HIDE DEF at
      <4>1. at(i) \in DOMAIN list /\ at(j) \in DOMAIN list
        BY <2>2, <3>1
      <4>2. list[at(i)] = list[at(j)]
        BY <3>1
      <4> QED BY <4>1, <4>2 DEF Once
    <3> QED BY <2>2, <3>2
  <2>7. \A q : Holds(new, q) <=> q # r /\ Holds(list, q)
    <3> SUFFICES ASSUME NEW q PROVE Holds(new, q) <=> q # r /\ Holds(list, q)
      OBVIOUS
    <3>1. ASSUME NEW i \in 1 .. n - 1, new[i] = q
          PROVE  q # r /\ Holds(list, q)
      <4> DEFINE k == IF i < p THEN i ELSE i + 1
      <4>1. k \in DOMAIN list /\ k # p /\ list[k] = q
        BY <2>2, <2>5, <3>1
      <4> HIDE DEF k
      <4> QED BY <2>2, <4>1 DEF Holds, Once
    <3>2. ASSUME NEW i \in 1 .. n, list[i] = q, q # r
          PROVE  Holds(new, q)
      <4>1. CASE i < p
        <5>1. i \in 1 .. n - 1 /\ new[i] = q
          BY <2>2, <2>5, <3>2, <4>1
        <5> QED BY <2>5, <5>1 DEF Holds
      <4>2. CASE i > p
        <5>1. i - 1 \in 1 .. n - 1 /\ new[i - 1] = q
          BY <2>2, <2>5, <3>2, <4>2
        <5> QED BY <2>5, <5>1 DEF Holds
      <4> QED BY <2>2, <3>2, <4>1, <4>2
    <3> QED BY <2>2, <2>5, <3>1, <3>2 DEF Holds
  <2> QED BY <2>5, <2>6, <2>7 DEF new
<1> QED BY <1>1, <1>2

\* The dialogs have no part in the order of requests.
LEMMA DialogsAreAside ==
  ASSUME NEW s, Orderly(s), NEW t \in AuthRecord,
         t.scheduled = s.scheduled, t.current = s.current, t.state = s.state, t.answers = s.answers
  PROVE  Orderly(t) /\ (InTurn(s) => InTurn(t)) /\ NoneIsNewAgain(s, t)
BY DEF Orderly, InTurn, NoneIsNewAgain

\* A request that is begun or put off (initiate_authentication()) keeps the order of requests.
LEMMA InitiationIsOrderly ==
  ASSUME NEW s, Orderly(s), NEW r \in AuthRequests, NEW isLocked, NEW opens
  PROVE  LET t == OnInitiate(s, r, isLocked, opens)
         IN Orderly(t) /\ (InTurn(s) => InTurn(t)) /\ NoneIsNewAgain(s, t) /\ t.current = s.current
<1> DEFINE t == OnInitiate(s, r, isLocked, opens)
<1>1. s \in AuthRecord
  BY DEF Orderly
<1>2. /\ t \in AuthRecord
      /\ t.scheduled = s.scheduled /\ t.current = s.current /\ t.state = s.state /\ t.answers = s.answers
  <2> DEFINE waits == Append(s.waiting, r)
             shown == s.open \cup {r}
             gone == IF opens THEN s.done \ {r} ELSE s.done \cup {r}
             wait == [s EXCEPT !.waiting = waits]
             show == [s EXCEPT !.known = r, !.open = shown, !.done = gone]
  <2>1. t = IF isLocked THEN wait ELSE show
    BY DEF OnInitiate
  <2>2. waits \in Seq(AuthRequests) /\ shown \in SUBSET AuthRequests /\ gone \in SUBSET AuthRequests
    <3>1. s.waiting \in Seq(AuthRequests) /\ s.open \in SUBSET AuthRequests /\ s.done \in SUBSET AuthRequests
      BY <1>1 DEF AuthRecord
    <3> QED BY <3>1, AppendProperties
  <2> HIDE DEF waits, shown, gone
  <2>3. /\ wait \in AuthRecord /\ wait.scheduled = s.scheduled /\ wait.current = s.current
        /\ wait.state = s.state /\ wait.answers = s.answers
    BY <1>1, <2>2 DEF AuthRecord
  <2>4. /\ show \in AuthRecord /\ show.scheduled = s.scheduled /\ show.current = s.current
        /\ show.state = s.state /\ show.answers = s.answers
    BY <1>1, <2>2 DEF AuthRecord
  <2> HIDE DEF wait, show
  <2> QED BY <2>1, <2>3, <2>4
<1> HIDE DEF t
<1>3. Orderly(t) /\ (InTurn(s) => InTurn(t)) /\ NoneIsNewAgain(s, t)
  BY <1>2, DialogsAreAside
<1> QED BY <1>2, <1>3 DEF t

\* The next request is taken from the front.
LEMMA NextIsTaken ==
  ASSUME NEW s, Orderly(s), NEW isLocked, NEW opens
  PROVE  LET t == MaybeProcessNextRequest(s, isLocked, opens)
         IN Orderly(t) /\ InTurn(t) /\ NoneIsNewAgain(s, t)
<1> DEFINE t == MaybeProcessNextRequest(s, isLocked, opens)
<1>1. CASE s.current # NoAuth \/ s.scheduled = <<>>
  BY <1>1 DEF MaybeProcessNextRequest, InTurn, NoneIsNewAgain
<1>2. CASE s.current = NoAuth /\ s.scheduled # <<>>
  <2> DEFINE r == Head(s.scheduled)
             u == [s EXCEPT !.current = r, !.scheduled = Tail(@), !.state[r] = "current"]
  <2>1. s \in AuthRecord /\ s.scheduled \in Seq(AuthRequests) /\ Len(s.scheduled) >= 1
    <3>1. s \in AuthRecord /\ s.scheduled \in Seq(AuthRequests)
      BY DEF Orderly, AuthRecord
    <3> QED BY <1>2, <3>1, EmptySeq
  <2>2. /\ r \in AuthRequests /\ r = s.scheduled[1] /\ Tail(s.scheduled) \in Seq(AuthRequests)
        /\ Len(Tail(s.scheduled)) = Len(s.scheduled) - 1
        /\ \A i \in 1 .. Len(s.scheduled) - 1 : Tail(s.scheduled)[i] = s.scheduled[i + 1]
    BY <1>2, <2>1, HeadTailProperties
  <2>3. t = OnInitiate(u, r, isLocked, opens)
    BY <1>2 DEF MaybeProcessNextRequest
  <2> HIDE DEF r
  <2>4. /\ u \in AuthRecord /\ u.scheduled = Tail(s.scheduled) /\ u.current = r /\ u.answers = s.answers
        /\ \A q \in AuthRequests : u.state[q] = IF q = r THEN "current" ELSE s.state[q]
    BY <2>1, <2>2 DEF AuthRecord, AuthStates
  <2> HIDE DEF u
  <2>5. Once(u.scheduled)
    BY <2>1, <2>2, <2>4 DEF Orderly, Once
  <2>6. \A q \in AuthRequests : Holds(u.scheduled, q) <=> q # r /\ Holds(s.scheduled, q)
    <3> SUFFICES ASSUME NEW q \in AuthRequests PROVE Holds(u.scheduled, q) <=> q # r /\ Holds(s.scheduled, q)
      OBVIOUS
    <3>1. Holds(u.scheduled, q) => q # r /\ Holds(s.scheduled, q)
      BY <2>1, <2>2, <2>4 DEF Holds, Orderly, Once
    <3>2. ASSUME NEW i \in DOMAIN s.scheduled, s.scheduled[i] = q, q # r PROVE Holds(u.scheduled, q)
      <4>1. i - 1 \in 1 .. Len(s.scheduled) - 1 /\ i - 1 + 1 = i
        BY <2>1, <2>2, <3>2
      <4>2. i - 1 \in DOMAIN u.scheduled /\ u.scheduled[i - 1] = q
        BY <2>1, <2>2, <2>4, <3>2, <4>1
      <4> QED BY <4>2 DEF Holds
    <3> QED BY <3>1, <3>2 DEF Holds
  <2>7. s.state[r] = "scheduled"
    <3>1. Holds(s.scheduled, r)
      BY <2>1, <2>2 DEF Holds
    <3> QED BY <2>2, <3>1 DEF Orderly
  <2>8. \A q \in AuthRequests : s.state[q] # "current"
    BY <1>2, PolkitAssumption DEF Orderly
  <2>9. Orderly(u) /\ InTurn(u) /\ NoneIsNewAgain(s, u)
    BY <2>2, <2>4, <2>5, <2>6, <2>7, <2>8, PolkitAssumption DEF Orderly, InTurn, NoneIsNewAgain
  <2>10. Orderly(t) /\ InTurn(t) /\ NoneIsNewAgain(u, t)
    BY <2>2, <2>3, <2>9, InitiationIsOrderly
  <2> QED BY <2>9, <2>10 DEF NoneIsNewAgain
<1> QED BY <1>1, <1>2

\* A request that waits or is shown is answered, and another one takes its turn.
LEMMA CompletionIsOrderly ==
  ASSUME NEW s, Orderly(s), InTurn(s), NEW r \in AuthRequests, s.state[r] \in {"scheduled", "current"},
         NEW isLocked, NEW opens
  PROVE  LET t == AuthRequestComplete(s, r, isLocked, opens)
         IN Orderly(t) /\ InTurn(t) /\ NoneIsNewAgain(s, t)
<1> DEFINE t == AuthRequestComplete(s, r, isLocked, opens)
           u == Answered(s, r)
<1>1. s \in AuthRecord /\ s.scheduled \in Seq(AuthRequests) /\ Once(s.scheduled)
  BY DEF Orderly, AuthRecord
<1>2. /\ ListRemove(s.scheduled, r) \in Seq(AuthRequests) /\ Once(ListRemove(s.scheduled, r))
      /\ \A q \in AuthRequests : Holds(ListRemove(s.scheduled, r), q) <=> q # r /\ Holds(s.scheduled, q)
  BY <1>1, RemovedFromList
<1>3. /\ u \in AuthRecord /\ u.scheduled = ListRemove(s.scheduled, r) /\ u.current = s.current
      /\ \A q \in AuthRequests : /\ u.state[q] = IF q = r THEN "freed" ELSE s.state[q]
                                 /\ u.answers[q] = IF q = r THEN s.answers[r] + 1 ELSE s.answers[q]
  <2> DEFINE states == [s.state EXCEPT ![r] = "freed"]
             counts == [s.answers EXCEPT ![r] = @ + 1]
             list == ListRemove(s.scheduled, r)
  <2>1. u = [s EXCEPT !.scheduled = list, !.state = states, !.answers = counts]
    BY <1>1 DEF Answered, AuthRecord
  <2>2. /\ states \in [AuthRequests -> AuthStates] /\ counts \in [AuthRequests -> Nat]
        /\ \A q \in AuthRequests : /\ states[q] = IF q = r THEN "freed" ELSE s.state[q]
                                   /\ counts[q] = IF q = r THEN s.answers[r] + 1 ELSE s.answers[q]
    BY <1>1 DEF AuthStates, AuthRecord
  <2>3. list \in Seq(AuthRequests)
    BY <1>2
  <2> HIDE DEF states, counts, list, u
  <2>4. u \in AuthRecord /\ u.scheduled = list /\ u.current = s.current /\ u.state = states /\ u.answers = counts
    BY <1>1, <2>1, <2>2, <2>3 DEF AuthRecord
  <2> QED BY <2>2, <2>4 DEF list
<1>4. s.answers[r] = 0
  BY DEF Orderly
<1> HIDE DEF u
<1>5. CASE s.current # r
  <2>1. t = u
    BY <1>5 DEF AuthRequestComplete, u
  <2>2. Orderly(u)
    BY <1>2, <1>3, <1>4, <1>5 DEF Orderly
  <2>3. s.scheduled # <<>>
    <3>1. Holds(s.scheduled, r)
      BY <1>5 DEF Orderly
    <3> QED BY <3>1 DEF Holds
  <2> QED BY <1>3, <2>1, <2>2, <2>3 DEF InTurn, NoneIsNewAgain
<1>6. CASE s.current = r
  <2> DEFINE v == [u EXCEPT !.current = NoAuth]
  <2>1. t = MaybeProcessNextRequest(v, isLocked, opens)
    BY <1>6 DEF AuthRequestComplete, u
  <2>2. /\ v \in AuthRecord /\ v.scheduled = u.scheduled /\ v.current = NoAuth
        /\ v.state = u.state /\ v.answers = u.answers
    BY <1>3 DEF AuthRecord
  <2> HIDE DEF v
  <2>3. \A q \in AuthRequests : v.state[q] # "current"
    BY <1>3, <1>6, <2>2 DEF Orderly
  <2>4. Orderly(v) /\ NoneIsNewAgain(s, v)
    BY <1>2, <1>3, <1>4, <2>2, <2>3, PolkitAssumption DEF Orderly, NoneIsNewAgain
  <2>5. Orderly(t) /\ InTurn(t) /\ NoneIsNewAgain(v, t)
    BY <2>1, <2>4, NextIsTaken
  <2> QED BY <2>4, <2>5 DEF NoneIsNewAgain
<1> QED BY <1>5, <1>6

\* The agent completes whatever request is current.
LEMMA AgentIsOrderly ==
  ASSUME NEW s, Orderly(s), InTurn(s), NEW isLocked, NEW opens
  PROVE  LET t == CompleteRequest(s, isLocked, opens)
         IN Orderly(t) /\ InTurn(t) /\ NoneIsNewAgain(s, t)
<1> DEFINE u == [s EXCEPT !.open = @ \ {s.known}, !.known = NoAuth, !.waiting = <<>>]
           t == CompleteRequest(s, isLocked, opens)
<1>1. CASE s.known = NoAuth
  BY <1>1 DEF CompleteRequest, NoneIsNewAgain
<1>2. CASE s.known # NoAuth
  <2>1. t = Complete(u, isLocked, opens)
    BY <1>2 DEF CompleteRequest
  <2>2. s \in AuthRecord
    BY DEF Orderly
  <2>3. /\ u \in AuthRecord
        /\ u.scheduled = s.scheduled /\ u.current = s.current /\ u.state = s.state /\ u.answers = s.answers
    <3> DEFINE shown == s.open \ {s.known}
    <3>1. shown \in SUBSET AuthRequests /\ <<>> \in Seq(AuthRequests)
      BY <2>2, EmptySeq DEF AuthRecord
    <3> HIDE DEF shown
    <3> QED BY <2>2, <3>1 DEF AuthRecord, shown
  <2> HIDE DEF u
  <2>4. Orderly(u) /\ InTurn(u) /\ NoneIsNewAgain(s, u)
    BY <2>3, DialogsAreAside
  <2>5. CASE u.current = NoAuth
    BY <2>1, <2>4, <2>5 DEF Complete
  <2>6. CASE u.current # NoAuth
    <3>1. u.current \in AuthRequests /\ u.state[u.current] = "current"
      BY <2>3, <2>4, <2>6 DEF Orderly, AuthRecord
    <3>2. t = AuthRequestComplete(u, u.current, isLocked, opens)
      BY <2>1, <2>6 DEF Complete
    <3>3. Orderly(t) /\ InTurn(t) /\ NoneIsNewAgain(u, t)
      BY <2>4, <3>1, <3>2, CompletionIsOrderly
    <3> QED BY <2>4, <3>3 DEF NoneIsNewAgain
  <2> QED BY <2>5, <2>6
<1> QED BY <1>1, <1>2


\* All that wait are dismissed; nobody is left to be taken.
LEMMA DismissalIsOrderly ==
  ASSUME NEW s, Orderly(s), InTurn(s), NEW t,
         t = LET waited == {s.scheduled[i] : i \in DOMAIN s.scheduled}
             IN [s EXCEPT !.scheduled = <<>>,
                   !.state = [r \in AuthRequests |-> IF r \in waited THEN "freed" ELSE @[r]],
                   !.answers = [r \in AuthRequests |-> IF r \in waited THEN @[r] + 1 ELSE @[r]]]
  PROVE  Orderly(t) /\ InTurn(t) /\ NoneIsNewAgain(s, t)
<1> DEFINE waited == {s.scheduled[i] : i \in DOMAIN s.scheduled}
           states == [r \in AuthRequests |-> IF r \in waited THEN "freed" ELSE s.state[r]]
           counts == [r \in AuthRequests |-> IF r \in waited THEN s.answers[r] + 1 ELSE s.answers[r]]
<1>1. s \in AuthRecord
  BY DEF Orderly
<1>2. /\ s.current \in AuthRequests \cup {NoAuth}
      /\ s.state \in [AuthRequests -> AuthStates] /\ s.answers \in [AuthRequests -> Nat]
      /\ s.open \in SUBSET AuthRequests /\ s.known \in AuthRequests \cup {NoAuth}
      /\ s.done \in SUBSET AuthRequests /\ s.waiting \in Seq(AuthRequests)
  BY <1>1 DEF AuthRecord
<1>3. t = [s EXCEPT !.scheduled = <<>>, !.state = states, !.answers = counts]
  OBVIOUS
<1>4. /\ states \in [AuthRequests -> AuthStates] /\ counts \in [AuthRequests -> Nat]
      /\ \A q \in AuthRequests : /\ states[q] = IF q \in waited THEN "freed" ELSE s.state[q]
                                 /\ counts[q] = IF q \in waited THEN s.answers[q] + 1 ELSE s.answers[q]
  <2> HIDE DEF waited
  <2> QED BY <1>2 DEF AuthStates
<1>5. \A q \in AuthRequests : q \in waited <=> Holds(s.scheduled, q)
  BY DEF Holds
<1> HIDE DEF waited, states, counts
<1>6. <<>> \in Seq(AuthRequests)
  BY EmptySeq
<1>7. t \in AuthRecord /\ t.scheduled = <<>> /\ t.current = s.current /\ t.state = states /\ t.answers = counts
  BY <1>1, <1>3, <1>4, <1>6 DEF AuthRecord
<1>8. Once(t.scheduled) /\ \A q \in AuthRequests : ~Holds(t.scheduled, q)
  BY <1>7 DEF Once, Holds
<1>9. Orderly(t) /\ NoneIsNewAgain(s, t)
  BY <1>4, <1>5, <1>7, <1>8 DEF Orderly, NoneIsNewAgain
<1> QED BY <1>7, <1>9 DEF InTurn

\* Nothing is asked at the start.
LEMMA PolkitStarts == PolkitInit => PolkitInv
<1> SUFFICES ASSUME PolkitInit PROVE PolkitInv
  OBVIOUS
<1>1. <<>> \in Seq(AuthRequests)
  BY EmptySeq
<1>2. auth \in AuthRecord
  BY <1>1 DEF PolkitInit, AuthRecord, AuthStates
<1>3. /\ auth.scheduled = <<>> /\ auth.current = NoAuth
      /\ \A r \in AuthRequests : auth.state[r] = "new" /\ auth.answers[r] = 0
  BY DEF PolkitInit
<1>4. Orderly(auth)
  BY <1>2, <1>3, PolkitAssumption DEF Orderly, Once, Holds
<1> QED BY <1>3, <1>4 DEF PolkitInit, PolkitInv, InTurn

\* Every step of the agent keeps its invariant.
LEMMA PolkitStep == PolkitInv /\ [PolkitNext]_polkitVars => PolkitInv'
<1> SUFFICES ASSUME PolkitInv, [PolkitNext]_polkitVars PROVE PolkitInv'
  OBVIOUS
<1>0. Orderly(auth) /\ InTurn(auth) /\ idles \subseteq AuthRequests /\ locked \in BOOLEAN
  BY DEF PolkitInv
\* It is enough that the requests stay in order and no idle is for a new one.
<1>1. ASSUME Orderly(auth'), InTurn(auth'), NoneIsNewAgain(auth, auth'), locked' \in BOOLEAN,
             idles' \subseteq AuthRequests, \A r \in idles' : r \in idles \/ auth'.state[r] # "new"
      PROVE  PolkitInv'
  BY <1>1 DEF PolkitInv, NoneIsNewAgain
<1>2. CASE UNCHANGED polkitVars
  BY <1>2 DEF PolkitInv, polkitVars
<1>3. ASSUME NEW r \in AuthRequests, NEW opens \in BOOLEAN, InitiateAuthentication(r, opens)
      PROVE  PolkitInv'
  <2> DEFINE u == [auth EXCEPT !.scheduled = Append(@, r), !.state[r] = "scheduled"]
             states == [auth.state EXCEPT ![r] = "scheduled"]
             list == Append(auth.scheduled, r)
  <2>1. auth' = MaybeProcessNextRequest(u, locked, opens) /\ auth.state[r] = "new" /\ UNCHANGED <<idles, locked>>
    BY <1>3 DEF InitiateAuthentication
  <2>2. auth \in AuthRecord
    BY <1>0 DEF Orderly
  <2>3. /\ auth.scheduled \in Seq(AuthRequests) /\ auth.current \in AuthRequests \cup {NoAuth}
        /\ auth.state \in [AuthRequests -> AuthStates] /\ auth.answers \in [AuthRequests -> Nat]
        /\ auth.open \in SUBSET AuthRequests /\ auth.known \in AuthRequests \cup {NoAuth}
        /\ auth.done \in SUBSET AuthRequests /\ auth.waiting \in Seq(AuthRequests)
    BY <2>2 DEF AuthRecord
  <2>4. /\ list \in Seq(AuthRequests) /\ Len(list) = Len(auth.scheduled) + 1 /\ list[Len(auth.scheduled) + 1] = r
        /\ \A i \in 1 .. Len(auth.scheduled) : list[i] = auth.scheduled[i]
    BY <2>3, AppendProperties
  <2>5. /\ states \in [AuthRequests -> AuthStates]
        /\ \A q \in AuthRequests : states[q] = IF q = r THEN "scheduled" ELSE auth.state[q]
    BY <2>3 DEF AuthStates
  <2>6. u = [auth EXCEPT !.scheduled = list, !.state = states]
    BY <2>2 DEF AuthRecord
  <2> HIDE DEF u, states, list
  <2>7. u \in AuthRecord /\ u.scheduled = list /\ u.current = auth.current /\ u.state = states /\ u.answers = auth.answers
    BY <2>2, <2>4, <2>5, <2>6 DEF AuthRecord
  <2>8. ~Holds(auth.scheduled, r)
    BY <1>0, <2>1 DEF Orderly
  <2>9. \A q \in AuthRequests : Holds(list, q) <=> q = r \/ Holds(auth.scheduled, q)
    <3>1. Len(auth.scheduled) \in Nat /\ DOMAIN auth.scheduled = 1 .. Len(auth.scheduled)
          /\ DOMAIN list = 1 .. Len(auth.scheduled) + 1
      BY <2>3, <2>4, LenProperties
    <3> QED BY <2>4, <3>1 DEF Holds
  <2>10. Once(list)
    <3>1. Len(auth.scheduled) \in Nat /\ DOMAIN auth.scheduled = 1 .. Len(auth.scheduled)
          /\ DOMAIN list = 1 .. Len(auth.scheduled) + 1
      BY <2>3, <2>4, LenProperties
    <3>2. \A i \in 1 .. Len(auth.scheduled) : list[i] # r
      BY <2>4, <2>8, <3>1 DEF Holds
    <3> QED BY <1>0, <2>4, <3>1, <3>2 DEF Once, Orderly
  <2>11. Orderly(u) /\ NoneIsNewAgain(auth, u)
    BY <1>0, <2>1, <2>5, <2>7, <2>9, <2>10 DEF Orderly, NoneIsNewAgain
  <2>12. Orderly(auth') /\ InTurn(auth') /\ NoneIsNewAgain(u, auth')
    BY <2>1, <2>11, NextIsTaken
  <2>13. NoneIsNewAgain(auth, auth')
    BY <2>11, <2>12 DEF NoneIsNewAgain
  <2> QED BY <1>0, <1>1, <2>1, <2>12, <2>13
<1>4. ASSUME NEW r \in AuthRequests, NEW opens \in BOOLEAN, DialogDone(r, opens)
      PROVE  PolkitInv'
  <2> DEFINE u == [auth EXCEPT !.done = @ \cup {r}]
  <2>1. auth' = CompleteRequest(u, locked, opens) /\ UNCHANGED <<idles, locked>>
    BY <1>4 DEF DialogDone
  <2>2. auth \in AuthRecord
    BY <1>0 DEF Orderly
  <2>3. u \in AuthRecord /\ u.scheduled = auth.scheduled /\ u.current = auth.current
        /\ u.state = auth.state /\ u.answers = auth.answers
    BY <2>2 DEF AuthRecord
  <2> HIDE DEF u
  <2>4. Orderly(u) /\ InTurn(u) /\ NoneIsNewAgain(auth, u)
    BY <1>0, <2>3, DialogsAreAside
  <2>5. Orderly(auth') /\ InTurn(auth') /\ NoneIsNewAgain(u, auth')
    BY <2>1, <2>4, AgentIsOrderly
  <2>6. NoneIsNewAgain(auth, auth')
    BY <2>4, <2>5 DEF NoneIsNewAgain
  <2> QED BY <1>0, <1>1, <2>1, <2>5, <2>6
<1>5. ASSUME NEW r \in AuthRequests, NEW opens \in BOOLEAN, HandleCancelledInIdle(r, opens)
      PROVE  PolkitInv'
  <2>1. /\ idles' = idles \ {r} /\ locked' = locked /\ auth.state[r] # "new"
        /\ auth' = IF auth.state[r] = "freed" THEN auth
                   ELSE IF auth.current = r THEN CompleteRequest(auth, locked, opens)
                   ELSE AuthRequestComplete(auth, r, locked, opens)
    BY <1>5 DEF HandleCancelledInIdle, PolkitInv
  <2>2. auth.state[r] \in AuthStates
    BY <1>0 DEF Orderly, AuthRecord
  <2>3. Orderly(auth') /\ InTurn(auth') /\ NoneIsNewAgain(auth, auth')
    <3>1. CASE auth.state[r] = "freed"
      BY <1>0, <2>1, <3>1 DEF NoneIsNewAgain
    <3>2. CASE auth.state[r] # "freed" /\ auth.current = r
      BY <1>0, <2>1, <3>2, AgentIsOrderly
    <3>3. CASE auth.state[r] # "freed" /\ auth.current # r
      <4>1. auth.state[r] \in {"scheduled", "current"}
        BY <2>1, <2>2, <3>3 DEF AuthStates
      <4>2. auth' = AuthRequestComplete(auth, r, locked, opens)
        BY <2>1, <3>3
      <4> QED BY <1>0, <4>1, <4>2, CompletionIsOrderly
    <3> QED BY <3>1, <3>2, <3>3
  <2> QED BY <1>0, <1>1, <2>1, <2>3
<1>6. ASSUME NEW r \in AuthRequests, OnRequestCancelled(r)
      PROVE  PolkitInv'
  <2>1. auth' = auth /\ locked' = locked /\ idles' = idles \cup {r} /\ auth.state[r] # "new"
    BY <1>6 DEF OnRequestCancelled
  <2> QED BY <2>1 DEF PolkitInv
<1>7. CASE Unregister
  <2> DEFINE waited == {auth.scheduled[i] : i \in DOMAIN auth.scheduled}
             dismissed == [auth EXCEPT !.scheduled = <<>>,
                             !.state = [r \in AuthRequests |-> IF r \in waited THEN "freed" ELSE @[r]],
                             !.answers = [r \in AuthRequests |-> IF r \in waited THEN @[r] + 1 ELSE @[r]]]
  <2>1. /\ auth' = IF dismissed.current = NoAuth THEN dismissed
                   ELSE AuthRequestComplete(dismissed, dismissed.current, locked, TRUE)
        /\ UNCHANGED <<idles, locked>>
    BY <1>7 DEF Unregister
  <2>2. Orderly(dismissed) /\ InTurn(dismissed) /\ NoneIsNewAgain(auth, dismissed)
    BY <1>0, DismissalIsOrderly
  <2> HIDE DEF dismissed
  <2>3. Orderly(auth') /\ InTurn(auth') /\ NoneIsNewAgain(dismissed, auth')
    <3>1. CASE dismissed.current = NoAuth
      BY <2>1, <2>2, <3>1 DEF NoneIsNewAgain
    <3>2. CASE dismissed.current # NoAuth
      <4>1. dismissed.current \in AuthRequests /\ dismissed.state[dismissed.current] \in {"scheduled", "current"}
        BY <2>2, <3>2 DEF Orderly, AuthRecord
      <4>2. \A opens : LET t == AuthRequestComplete(dismissed, dismissed.current, locked, opens)
                       IN Orderly(t) /\ InTurn(t) /\ NoneIsNewAgain(dismissed, t)
        BY <2>2, <4>1, CompletionIsOrderly
      <4> QED BY <2>1, <3>2, <4>2
    <3> QED BY <3>1, <3>2
  <2>4. NoneIsNewAgain(auth, auth')
    BY <2>2, <2>3 DEF NoneIsNewAgain
  <2> QED BY <1>0, <1>1, <2>1, <2>3, <2>4
<1>8. CASE Register
  BY <1>8 DEF Register, PolkitInv
<1>9. ASSUME NEW isLocked \in BOOLEAN, NEW opens \in BOOLEAN, ShieldChanges(isLocked, opens)
      PROVE  PolkitInv'
  <2> DEFINE u == [auth EXCEPT !.waiting = <<>>]
  <2>1. /\ locked' = isLocked /\ idles' = idles
        /\ auth' = IF auth.waiting = <<>> THEN auth ELSE OnInitiate(u, Head(auth.waiting), isLocked, opens)
    BY <1>9 DEF ShieldChanges
  <2>2. auth \in AuthRecord
    BY <1>0 DEF Orderly
  <2>3. u \in AuthRecord /\ u.scheduled = auth.scheduled /\ u.current = auth.current
        /\ u.state = auth.state /\ u.answers = auth.answers
    <3>1. <<>> \in Seq(AuthRequests)
      BY EmptySeq
    <3> QED BY <2>2, <3>1 DEF AuthRecord
  <2> HIDE DEF u
  <2>4. Orderly(u) /\ InTurn(u) /\ NoneIsNewAgain(auth, u)
    BY <1>0, <2>3, DialogsAreAside
  <2>5. Orderly(auth') /\ InTurn(auth') /\ NoneIsNewAgain(auth, auth')
    <3>1. CASE auth.waiting = <<>>
      BY <1>0, <2>1, <3>1 DEF NoneIsNewAgain
    <3>2. CASE auth.waiting # <<>>
      <4>1. Head(auth.waiting) \in AuthRequests
        <5>1. auth.waiting \in Seq(AuthRequests)
          BY <2>2 DEF AuthRecord
        <5> QED BY <3>2, <5>1, HeadTailProperties
      <4>2. Orderly(auth') /\ InTurn(auth') /\ NoneIsNewAgain(u, auth')
        BY <2>1, <2>4, <3>2, <4>1, InitiationIsOrderly
      <4> QED BY <2>4, <4>2 DEF NoneIsNewAgain
    <3> QED BY <3>1, <3>2
  <2> QED BY <1>0, <1>1, <2>1, <2>5
<1> QED BY Zenon, <1>2, <1>3, <1>4, <1>5, <1>6, <1>7, <1>8, <1>9 DEF PolkitNext

\* In whatever order requests are made, cancelled, answered and dismissed, each gets
\* one answer when it leaves, and none waits while none is shown
\* (auth_request_complete(), maybe_process_next_request()).
THEOREM RequestsAlwaysTakeTurns == PolkitSpec => []RequestsTakeTurns
<1>1. PolkitInv => RequestsTakeTurns
  BY DEF PolkitInv, Orderly, InTurn, RequestsTakeTurns
<1> QED BY PolkitStarts, PolkitStep, <1>1, PTL DEF PolkitSpec

---------------------------------------------------------------------------
(* What observers hold of actions.                                         *)

SeenValues == Values \cup {NoAction}
MuxerShape(mux) ==
  /\ mux \in [MuxerNames -> [groups : UNION {[MuxerPrefixes[k] -> GroupNames \cup {NoGroup}] : k \in MuxerNames},
                             watchers : [Names -> [Observers -> Nat]]]]
  /\ \A m \in MuxerNames : mux[m].groups \in [MuxerPrefixes[m] -> GroupNames \cup {NoGroup}]
Contents == [GroupNames -> [ActionNames -> SeenValues]]
Tidings == [Observers -> [MuxerNames -> [Names -> SeenValues]]]
MuxerTypes ==
  /\ content \in Contents /\ MuxerShape(muxer) /\ parented \in BOOLEAN /\ told \in Tidings
MuxerInv == MuxerTypes /\ ObserversAgree

\* The muxer that has the prefix of a name, and what its group has for it.
Apart == MuxerPrefixes["inner"] \cap MuxerPrefixes["outer"] = {}
Home(n) == CHOOSE m \in MuxerNames : n[1] \in MuxerPrefixes[m]
InGroup(mux, c, m, n) == IF mux[m].groups[n[1]] # NoGroup THEN c[mux[m].groups[n[1]]][n[2]] ELSE NoAction

\* A name has its prefix in one muxer.
LEMMA HomeIsOne ==
  ASSUME Apart, NEW n \in Names
  PROVE  /\ Home(n) \in MuxerNames /\ n[1] \in MuxerPrefixes[Home(n)] /\ n[2] \in ActionNames
         /\ \A m \in MuxerNames : n[1] \in MuxerPrefixes[m] => m = Home(n)
<1>1. \E m \in MuxerNames : n[1] \in MuxerPrefixes[m]
  BY DEF Names
<1>2. Home(n) \in MuxerNames /\ n[1] \in MuxerPrefixes[Home(n)]
  BY <1>1 DEF Home
<1>3. \A m, k \in MuxerNames : n[1] \in MuxerPrefixes[m] /\ n[1] \in MuxerPrefixes[k] => m = k
  BY DEF Apart, MuxerNames
<1> QED BY <1>2, <1>3 DEF Names

\* Asking any muxer for a name leads to its home, if the home reaches the muxer.
LEMMA QueryLeadsHome ==
  ASSUME Apart, NEW mux, NEW c, NEW has \in BOOLEAN, NEW n \in Names, NEW m \in MuxerNames
  PROVE  QueryAction(mux, c, has, m, n) =
           IF Reached(has, m, Home(n)) THEN InGroup(mux, c, Home(n), n) ELSE NoAction
<1>1. \A k \in MuxerNames :
        /\ n[1] \in MuxerPrefixes[k] /\ mux[k].groups[n[1]] # NoGroup =>
             QueryIn(mux, c, k, n) # <<>> /\ QueryIn(mux, c, k, n)[1] = InGroup(mux, c, k, n)
        /\ ~(n[1] \in MuxerPrefixes[k] /\ mux[k].groups[n[1]] # NoGroup) => QueryIn(mux, c, k, n) = <<>>
  BY DEF QueryIn, InGroup
<1>2. \A k \in MuxerNames : mux[k].groups[n[1]] = NoGroup => InGroup(mux, c, k, n) = NoAction
  BY DEF InGroup
<1>3. CASE Home(n) = "inner"
  BY <1>1, <1>2, <1>3, HomeIsOne DEF QueryAction, HasParent, Reached, MuxerNames
<1>4. CASE Home(n) = "outer"
  BY <1>1, <1>2, <1>4, HomeIsOne DEF QueryAction, HasParent, Reached, MuxerNames
<1> QED BY <1>3, <1>4, HomeIsOne DEF MuxerNames

\* A muxer lists the names it is the home of and has something for.
LEMMA ListedAreAtHome ==
  ASSUME Apart, NEW mux, NEW c, NEW n \in Names, NEW m \in MuxerNames
  PROVE  n \in ListActions(mux, c, m) <=> m = Home(n) /\ InGroup(mux, c, m, n) # NoAction
<1>1. n = <<n[1], n[2]>> /\ n[2] \in ActionNames
  BY DEF Names
<1>2. n \in MuxerPrefixes[m] \X ActionNames <=> n[1] \in MuxerPrefixes[m]
  BY <1>1
<1> QED BY <1>2, HomeIsOne DEF ListActions, InGroup

\* Telling changes what the watchers that are reached hold of the names told of.
LEMMA TellingIs ==
  ASSUME NEW t, NEW mux, NEW has, NEW from, NEW names, NEW value,
         NEW o \in Observers, NEW m \in MuxerNames, NEW n \in Names
  PROVE  Tell(t, mux, has, from, names, value)[o][m][n] =
           IF n \in names /\ Reached(has, m, from) /\ Watches(mux, m, n, o) THEN value[n] ELSE t[o][m][n]
BY DEF Tell

\* What observers are told are values of actions.
LEMMA TellingIsTyped ==
  ASSUME NEW t \in Tidings, NEW mux, NEW has, NEW from,
         NEW names, NEW value, \A n \in names : value[n] \in SeenValues
  PROVE  Tell(t, mux, has, from, names, value) \in Tidings
<1>1. \A o \in Observers, m \in MuxerNames, n \in Names :
        (IF n \in names /\ Reached(has, m, from) /\ Watches(mux, m, n, o) THEN value[n] ELSE t[o][m][n]) \in SeenValues
  BY DEF Tidings
<1> QED BY <1>1, Zenon DEF Tell, Tidings

\* Every answer is a value or none.
LEMMA QueryIsTyped ==
  ASSUME NEW mux, MuxerShape(mux), NEW c \in Contents, NEW has, NEW n \in Names, NEW m \in MuxerNames
  PROVE  QueryAction(mux, c, has, m, n) \in SeenValues
<1>1. n[2] \in ActionNames
  BY DEF Names
<1>2. \A k \in MuxerNames : QueryIn(mux, c, k, n) # <<>> => QueryIn(mux, c, k, n)[1] \in SeenValues
  BY <1>1 DEF QueryIn, MuxerShape, Contents
<1> QED BY <1>2 DEF QueryAction, HasParent, MuxerNames, SeenValues

\* Putting a group into a muxer, or none, changes one prefix of it.
LEMMA GroupIsPut ==
  ASSUME NEW mux, MuxerShape(mux), NEW m \in MuxerNames, NEW p \in MuxerPrefixes[m], NEW g \in GroupNames \cup {NoGroup}
  PROVE  /\ MuxerShape([mux EXCEPT ![m].groups[p] = g])
         /\ \A k \in MuxerNames : [mux EXCEPT ![m].groups[p] = g][k].watchers = mux[k].watchers
         /\ \A k \in MuxerNames : \A q \in MuxerPrefixes[k] :
              [mux EXCEPT ![m].groups[p] = g][k].groups[q] = IF k = m /\ q = p THEN g ELSE mux[k].groups[q]
<1> DEFINE gs == [mux[m].groups EXCEPT ![p] = g]
           new == [mux EXCEPT ![m].groups[p] = g]
<1>1. gs \in [MuxerPrefixes[m] -> GroupNames \cup {NoGroup}]
  BY DEF MuxerShape
<1>2. mux[m] \in [groups : UNION {[MuxerPrefixes[k] -> GroupNames \cup {NoGroup}] : k \in MuxerNames},
                  watchers : [Names -> [Observers -> Nat]]]
  BY DEF MuxerShape
<1>3. new = [mux EXCEPT ![m] = [mux[m] EXCEPT !.groups = gs]]
  OBVIOUS
<1>4. new[m].groups = gs /\ new[m].watchers = mux[m].watchers
  BY <1>2, <1>3 DEF MuxerShape
<1>5. \A k \in MuxerNames : k # m => new[k] = mux[k]
  BY <1>3 DEF MuxerShape
<1>6. new[m] = [groups |-> gs, watchers |-> mux[m].watchers]
  BY <1>2, <1>3 DEF MuxerShape
<1>7. new \in [MuxerNames -> [groups : UNION {[MuxerPrefixes[k] -> GroupNames \cup {NoGroup}] : k \in MuxerNames},
                              watchers : [Names -> [Observers -> Nat]]]]
  <2>1. new[m] \in [groups : UNION {[MuxerPrefixes[k] -> GroupNames \cup {NoGroup}] : k \in MuxerNames},
                    watchers : [Names -> [Observers -> Nat]]]
    <3>1. gs \in UNION {[MuxerPrefixes[k] -> GroupNames \cup {NoGroup}] : k \in MuxerNames}
      BY <1>1
    <3>2. mux[m].watchers \in [Names -> [Observers -> Nat]]
      BY <1>2
    <3> HIDE DEF gs, new
    <3> QED BY <1>6, <3>1, <3>2
  <2> QED BY <1>3, <1>6, <2>1 DEF MuxerShape
<1>8. \A k \in MuxerNames : new[k].groups \in [MuxerPrefixes[k] -> GroupNames \cup {NoGroup}]
  BY <1>1, <1>4, <1>5 DEF MuxerShape
<1>9. \A q \in MuxerPrefixes[m] : gs[q] = IF q = p THEN g ELSE mux[m].groups[q]
  BY DEF MuxerShape
<1> HIDE DEF new, gs
<1>10. MuxerShape(new)
  BY <1>7, <1>8 DEF MuxerShape
<1>11. \A k \in MuxerNames : new[k].watchers = mux[k].watchers
  BY <1>4, <1>5
<1>12. \A k \in MuxerNames : \A q \in MuxerPrefixes[k] :
         new[k].groups[q] = IF k = m /\ q = p THEN g ELSE mux[k].groups[q]
  BY <1>4, <1>5, <1>9
<1> QED BY <1>10, <1>11, <1>12 DEF new

\* At the start there is no group and nobody watches.
LEMMA MuxerStarts == MuxerInit => MuxerInv
<1> SUFFICES ASSUME MuxerInit PROVE MuxerInv
  OBVIOUS
<1>1. content \in Contents
  BY DEF MuxerInit, SeenValues, Contents
<1>2. \A m \in MuxerNames : [p \in MuxerPrefixes[m] |-> NoGroup] \in [MuxerPrefixes[m] -> GroupNames \cup {NoGroup}]
  OBVIOUS
<1>3. NoWatchers \in [Names -> [Observers -> Nat]]
  BY DEF NoWatchers
<1>4. told \in Tidings
  BY DEF MuxerInit, SeenValues, Tidings
<1>5. \A m \in MuxerNames : muxer[m] = [groups |-> [p \in MuxerPrefixes[m] |-> NoGroup], watchers |-> NoWatchers]
  BY DEF MuxerInit
<1>6. muxer \in [MuxerNames -> [groups : UNION {[MuxerPrefixes[k] -> GroupNames \cup {NoGroup}] : k \in MuxerNames},
                               watchers : [Names -> [Observers -> Nat]]]]
  BY <1>2, <1>3 DEF MuxerInit
<1>7. MuxerShape(muxer)
  BY <1>2, <1>5, <1>6 DEF MuxerShape
<1>8. \A m \in MuxerNames, n \in Names, o \in Observers : ~Watches(muxer, m, n, o)
  <2>1. \A n \in Names, o \in Observers : NoWatchers[n][o] = 0
    BY DEF NoWatchers
  <2> DEFINE none(m) == [p \in MuxerPrefixes[m] |-> NoGroup]
  <2>2. \A m \in MuxerNames : muxer[m].watchers = NoWatchers
    <3> SUFFICES ASSUME NEW m \in MuxerNames PROVE muxer[m].watchers = NoWatchers
      OBVIOUS
    <3>1. muxer[m] = [groups |-> none(m), watchers |-> NoWatchers]
      BY <1>5
    <3> HIDE DEF none
    <3> QED BY <3>1
  <2> QED BY <2>1, <2>2 DEF Watches
<1> QED BY <1>1, <1>4, <1>7, <1>8 DEF MuxerInit, MuxerTypes, MuxerInv, ObserversAgree


\* A group is put in or taken out.  Names of other prefixes are as they were; of
\* those with the prefix, what was listed is told as gone, what is listed as come.
LEMMA InsertIsTold ==
  ASSUME MuxerInv, NEW m \in MuxerNames, NEW p \in MuxerPrefixes[m], NEW g \in GroupNames, InsertGroup(m, p, g)
  PROVE  MuxerInv'
<1> DEFINE now == With(muxer, m, p, g)
           went == {n \in ListActions(muxer, content, m) : n[1] = p}
           came == {n \in ListActions(now, content, m) : n[1] = p}
<1>1. /\ MuxerShape(now)
      /\ \A k \in MuxerNames : now[k].watchers = muxer[k].watchers
      /\ \A k \in MuxerNames : \A q \in MuxerPrefixes[k] :
           now[k].groups[q] = IF k = m /\ q = p THEN g ELSE muxer[k].groups[q]
  BY GroupIsPut DEF MuxerInv, MuxerTypes, With
<1>2. /\ MuxerShape(Without(muxer, m, p))
      /\ \A k \in MuxerNames : Without(muxer, m, p)[k].watchers = muxer[k].watchers
  BY GroupIsPut DEF MuxerInv, MuxerTypes, Without
<1>3. muxer' = now /\ told' = ToldOfInsert(m, p, g) /\ content' = content /\ parented' = parented
  BY DEF InsertGroup
<1>4. ToldOfRemoval(m, p) \in Tidings
  <2>1. \A n \in went : [x \in went |-> NoAction][n] \in SeenValues
    BY DEF SeenValues
  <2> QED BY <2>1, TellingIsTyped DEF ToldOfRemoval, TellRemoved, MuxerInv, MuxerTypes
<1>5. came \subseteq Names
  BY DEF ListActions, Names
<1>6. told' \in Tidings
  <2> DEFINE value == [n \in came |-> QueryAction(now, content, parented, m, n)]
  <2>1. \A n \in came : value[n] \in SeenValues
    BY <1>1, <1>5, QueryIsTyped DEF MuxerInv, MuxerTypes
  <2>2. told' = Tell(ToldOfRemoval(m, p), now, parented, m, came, value)
    BY <1>3 DEF ToldOfInsert, TellAdded
  <2> HIDE DEF value, came, now
  <2> QED BY <1>4, <2>1, <2>2, TellingIsTyped
<1>7. MuxerTypes'
  BY <1>1, <1>3, <1>6 DEF MuxerInv, MuxerTypes
<1>8. ObserversAgree'
  <2> SUFFICES ASSUME Apart, NEW k \in MuxerNames, NEW n \in Names, NEW o \in Observers, Watches(muxer', k, n, o)
               PROVE  told'[o][k][n] = QueryAction(now, content, parented, k, n)
    BY <1>3 DEF ObserversAgree, Apart
  <2>1. Watches(muxer, k, n, o) /\ Watches(Without(muxer, m, p), k, n, o) /\ Watches(now, k, n, o)
    BY <1>1, <1>2, <1>3 DEF Watches
  <2>2. told[o][k][n] = QueryAction(muxer, content, parented, k, n)
    BY <2>1 DEF MuxerInv, ObserversAgree, Apart
  <2>3. ToldOfRemoval(m, p)[o][k][n] = IF n \in went /\ Reached(parented, k, m) THEN NoAction ELSE told[o][k][n]
    BY <2>1, TellingIs DEF ToldOfRemoval, TellRemoved
  <2>4. told'[o][k][n] = IF n \in came /\ Reached(parented, k, m)
                         THEN QueryAction(now, content, parented, m, n) ELSE ToldOfRemoval(m, p)[o][k][n]
    BY <1>3, <2>1, TellingIs DEF ToldOfInsert, TellAdded
  <2>5. \A j \in MuxerNames :
          /\ QueryAction(muxer, content, parented, j, n) =
               IF Reached(parented, j, Home(n)) THEN InGroup(muxer, content, Home(n), n) ELSE NoAction
          /\ QueryAction(now, content, parented, j, n) =
               IF Reached(parented, j, Home(n)) THEN InGroup(now, content, Home(n), n) ELSE NoAction
    BY QueryLeadsHome DEF MuxerInv, MuxerTypes
  <2>6. Reached(parented, m, m)
    BY DEF Reached
  <2>7. CASE n[1] # p
    <3>1. InGroup(now, content, Home(n), n) = InGroup(muxer, content, Home(n), n)
      BY <1>1, <2>7, HomeIsOne DEF InGroup
    <3> QED BY <2>2, <2>3, <2>4, <2>5, <2>7, <3>1
  <2>8. CASE n[1] = p
    <3>1. m = Home(n)
      BY <2>8, HomeIsOne
    <3>2. n \in went <=> InGroup(muxer, content, m, n) # NoAction
      BY <2>8, <3>1, ListedAreAtHome
    <3>3. n \in came <=> InGroup(now, content, m, n) # NoAction
      BY <2>8, <3>1, ListedAreAtHome
    <3> HIDE DEF went, came, now
    <3> QED BY <2>2, <2>3, <2>4, <2>5, <2>6, <3>1, <3>2, <3>3
  <2> QED BY <2>7, <2>8
<1> QED BY <1>7, <1>8 DEF MuxerInv

\* The observers of a group that is removed are told (gtk_action_muxer_remove()).
LEMMA RemovalIsTold ==
  ASSUME MuxerInv, NEW m \in MuxerNames, NEW p \in MuxerPrefixes[m], RemovePrefix(m, p)
  PROVE  MuxerInv'
<1> DEFINE now == Without(muxer, m, p)
           went == {n \in ListActions(muxer, content, m) : n[1] = p}
<1>1. /\ MuxerShape(now)
      /\ \A k \in MuxerNames : now[k].watchers = muxer[k].watchers
      /\ \A k \in MuxerNames : \A q \in MuxerPrefixes[k] :
           now[k].groups[q] = IF k = m /\ q = p THEN NoGroup ELSE muxer[k].groups[q]
  BY GroupIsPut DEF MuxerInv, MuxerTypes, Without
<1>2. muxer' = now /\ told' = ToldOfRemoval(m, p) /\ content' = content /\ parented' = parented
  BY DEF RemovePrefix
<1>3. told' \in Tidings
  <2>1. \A n \in went : [x \in went |-> NoAction][n] \in SeenValues
    BY DEF SeenValues
  <2> QED BY <1>2, <2>1, TellingIsTyped DEF ToldOfRemoval, TellRemoved, MuxerInv, MuxerTypes
<1>4. MuxerTypes'
  BY <1>1, <1>2, <1>3 DEF MuxerInv, MuxerTypes
<1>5. ObserversAgree'
  <2> SUFFICES ASSUME Apart, NEW k \in MuxerNames, NEW n \in Names, NEW o \in Observers, Watches(muxer', k, n, o)
               PROVE  told'[o][k][n] = QueryAction(now, content, parented, k, n)
    BY <1>2 DEF ObserversAgree, Apart
  <2>1. Watches(muxer, k, n, o) /\ Watches(now, k, n, o)
    BY <1>1, <1>2 DEF Watches
  <2>2. told[o][k][n] = QueryAction(muxer, content, parented, k, n)
    BY <2>1 DEF MuxerInv, ObserversAgree, Apart
  <2>3. told'[o][k][n] = IF n \in went /\ Reached(parented, k, m) THEN NoAction ELSE told[o][k][n]
    BY <1>2, <2>1, TellingIs DEF ToldOfRemoval, TellRemoved
  <2>4. /\ QueryAction(muxer, content, parented, k, n) =
             IF Reached(parented, k, Home(n)) THEN InGroup(muxer, content, Home(n), n) ELSE NoAction
        /\ QueryAction(now, content, parented, k, n) =
             IF Reached(parented, k, Home(n)) THEN InGroup(now, content, Home(n), n) ELSE NoAction
    BY QueryLeadsHome DEF MuxerInv, MuxerTypes
  <2>5. CASE n[1] # p
    <3>1. InGroup(now, content, Home(n), n) = InGroup(muxer, content, Home(n), n)
      BY <1>1, <2>5, HomeIsOne DEF InGroup
    <3> QED BY <2>2, <2>3, <2>4, <2>5, <3>1
  <2>6. CASE n[1] = p
    <3>1. m = Home(n)
      BY <2>6, HomeIsOne
    <3>2. n \in went <=> InGroup(muxer, content, m, n) # NoAction
      BY <2>6, <3>1, ListedAreAtHome
    <3>3. InGroup(now, content, m, n) = NoAction
      BY <1>1, <2>6 DEF InGroup
    <3> HIDE DEF went, now
    <3> QED BY <2>2, <2>3, <2>4, <3>1, <3>2, <3>3
  <2> QED BY <2>5, <2>6
<1> QED BY <1>4, <1>5 DEF MuxerInv

\* A name is told of by its home alone, where it is the group's.
LEMMA ChangeIsTold ==
  ASSUME MuxerInv, NEW g \in GroupNames, NEW a \in ActionNames, NEW v \in SeenValues, GroupChanges(g, a, v)
  PROVE  MuxerInv'
<1> DEFINE named(m) == {n \in NamesOf(muxer, m, g) : n[2] = a}
           value(m) == [n \in named(m) |-> v]
           first == Tell(told, muxer, parented, "outer", named("outer"), value("outer"))
<1>1. muxer' = muxer /\ parented' = parented /\ content' = [content EXCEPT ![g][a] = v]
  BY DEF GroupChanges
<1>2. told' = Tell(first, muxer, parented, "inner", named("inner"), value("inner"))
  BY DEF GroupChanges
<1>3. first \in Tidings
  <2>1. \A n \in named("outer") : value("outer")[n] \in SeenValues
    OBVIOUS
  <2> HIDE DEF named, value
  <2> QED BY <2>1, TellingIsTyped DEF MuxerInv, MuxerTypes
<1>4. told' \in Tidings
  <2>1. \A n \in named("inner") : value("inner")[n] \in SeenValues
    OBVIOUS
  <2> HIDE DEF named, value, first
  <2> QED BY <1>2, <1>3, <2>1, TellingIsTyped
<1>5. content' \in Contents
  BY <1>1 DEF MuxerInv, MuxerTypes, Contents
<1>6. MuxerTypes'
  BY <1>1, <1>4, <1>5 DEF MuxerInv, MuxerTypes
<1>7. ObserversAgree'
  <2> SUFFICES ASSUME Apart, NEW k \in MuxerNames, NEW n \in Names, NEW o \in Observers, Watches(muxer, k, n, o)
               PROVE  told'[o][k][n] = QueryAction(muxer, content', parented, k, n)
    BY <1>1 DEF ObserversAgree, Apart
  <2>1. told[o][k][n] = QueryAction(muxer, content, parented, k, n)
    BY DEF MuxerInv, ObserversAgree, Apart
  <2>2. first[o][k][n] = IF n \in named("outer") /\ Reached(parented, k, "outer") THEN v ELSE told[o][k][n]
    <3>1. n \in named("outer") => value("outer")[n] = v
      OBVIOUS
    <3> HIDE DEF named, value
    <3> QED BY <3>1, TellingIs
  <2>3. told'[o][k][n] = IF n \in named("inner") /\ Reached(parented, k, "inner") THEN v ELSE first[o][k][n]
    <3>1. n \in named("inner") => value("inner")[n] = v
      OBVIOUS
    <3> HIDE DEF named, value, first
    <3> QED BY <1>2, <3>1, TellingIs
  <2>4. \A m \in MuxerNames : n \in named(m) <=> m = Home(n) /\ muxer[m].groups[n[1]] = g /\ n[2] = a
    <3>1. n = <<n[1], n[2]>> /\ n[2] \in ActionNames
      BY DEF Names
    <3>2. \A m \in MuxerNames : n \in MuxerPrefixes[m] \X ActionNames <=> m = Home(n)
      BY <3>1, HomeIsOne
    <3> QED BY <3>2 DEF NamesOf
  <2>5. told'[o][k][n] = IF /\ Reached(parented, k, Home(n))
                            /\ muxer[Home(n)].groups[n[1]] = g /\ n[2] = a
                         THEN v ELSE told[o][k][n]
    <3>1. Home(n) \in {"inner", "outer"}
      BY HomeIsOne DEF MuxerNames
    <3> HIDE DEF named, first
    <3> QED BY <2>2, <2>3, <2>4, <3>1 DEF MuxerNames
  <2>6. /\ QueryAction(muxer, content, parented, k, n) =
             IF Reached(parented, k, Home(n)) THEN InGroup(muxer, content, Home(n), n) ELSE NoAction
        /\ QueryAction(muxer, content', parented, k, n) =
             IF Reached(parented, k, Home(n)) THEN InGroup(muxer, content', Home(n), n) ELSE NoAction
    BY QueryLeadsHome DEF MuxerInv, MuxerTypes
  <2>7. muxer[Home(n)].groups[n[1]] \in GroupNames \cup {NoGroup} /\ n[2] \in ActionNames
    BY HomeIsOne DEF MuxerInv, MuxerTypes, MuxerShape
  <2>8. \A h \in GroupNames, b \in ActionNames : content'[h][b] = IF h = g /\ b = a THEN v ELSE content[h][b]
    BY <1>1 DEF MuxerInv, MuxerTypes, Contents
  <2>9. InGroup(muxer, content', Home(n), n) =
          IF muxer[Home(n)].groups[n[1]] = g /\ n[2] = a THEN v ELSE InGroup(muxer, content, Home(n), n)
    BY <2>7, <2>8, MuxerAssumption DEF InGroup
  <2> QED BY <2>1, <2>5, <2>6, <2>9
<1> QED BY <1>6, <1>7 DEF MuxerInv

\* The parent's names come and go for the inner muxer alone.
LEMMA ParentIsTold ==
  ASSUME MuxerInv, NEW has \in BOOLEAN, SetParent(has)
  PROVE  MuxerInv'
<1> DEFINE listed == ListActions(muxer, content, "outer")
           news == IF has THEN [n \in listed |-> QueryAction(muxer, content, TRUE, "inner", n)]
                    ELSE [n \in listed |-> NoAction]
<1>1. muxer' = muxer /\ content' = content /\ parented' = has /\ parented = ~has
  BY DEF SetParent, MuxerInv, MuxerTypes
<1>2. told' = Tell(told, muxer, TRUE, "inner", listed, news)
  BY DEF SetParent, TellAdded, TellRemoved
<1>3. listed \subseteq Names
  BY DEF ListActions, Names, MuxerNames
<1>4. told' \in Tidings
  <2>1. \A n \in listed : news[n] \in SeenValues
    <3>1. \A n \in listed : QueryAction(muxer, content, TRUE, "inner", n) \in SeenValues
      BY <1>3, QueryIsTyped DEF MuxerInv, MuxerTypes, MuxerNames
    <3> HIDE DEF listed
    <3> QED BY <3>1 DEF SeenValues
  <2> HIDE DEF listed, news
  <2> QED BY <1>2, <2>1, TellingIsTyped DEF MuxerInv, MuxerTypes
<1>5. MuxerTypes'
  BY <1>1, <1>4 DEF MuxerInv, MuxerTypes
<1>6. ObserversAgree'
  <2> SUFFICES ASSUME Apart, NEW k \in MuxerNames, NEW n \in Names, NEW o \in Observers, Watches(muxer, k, n, o)
               PROVE  told'[o][k][n] = QueryAction(muxer, content, has, k, n)
    BY <1>1 DEF ObserversAgree, Apart
  <2>1. told[o][k][n] = QueryAction(muxer, content, parented, k, n)
    BY DEF MuxerInv, ObserversAgree, Apart
  <2>2. told'[o][k][n] = IF n \in listed /\ k = "inner" THEN news[n] ELSE told[o][k][n]
    <3>1. Reached(TRUE, k, "inner") <=> k = "inner"
      BY DEF Reached
    <3> HIDE DEF listed, news
    <3>2. Tell(told, muxer, TRUE, "inner", listed, news)[o][k][n] =
            IF n \in listed /\ Reached(TRUE, k, "inner") /\ Watches(muxer, k, n, o) THEN news[n] ELSE told[o][k][n]
      BY DEF Tell
    <3> QED BY <1>2, <3>1, <3>2
  <2>3. n \in listed <=> Home(n) = "outer" /\ InGroup(muxer, content, "outer", n) # NoAction
    BY ListedAreAtHome DEF MuxerNames
  <2>4. \A b \in BOOLEAN, j \in MuxerNames : QueryAction(muxer, content, b, j, n) =
             IF Reached(b, j, Home(n)) THEN InGroup(muxer, content, Home(n), n) ELSE NoAction
    BY QueryLeadsHome
  <2>5. n \in listed => news[n] = IF has THEN InGroup(muxer, content, Home(n), n) ELSE NoAction
    <3>1. Reached(TRUE, "inner", "outer")
      BY DEF Reached, HasParent
    <3>2. Home(n) = "outer" => QueryAction(muxer, content, TRUE, "inner", n) = InGroup(muxer, content, Home(n), n)
      BY <2>4, <3>1 DEF MuxerNames
    <3>3. n \in listed => Home(n) = "outer"
      BY <2>3
    <3>4. n \in listed => news[n] = IF has THEN QueryAction(muxer, content, TRUE, "inner", n) ELSE NoAction
      <4> HIDE DEF listed
      <4> QED OBVIOUS
    <3> HIDE DEF listed, news
    <3> QED BY <3>2, <3>3, <3>4
  <2>6. Home(n) \in {"inner", "outer"} /\ k \in {"inner", "outer"}
    BY HomeIsOne DEF MuxerNames
  <2>7. \A b \in BOOLEAN : Reached(b, k, Home(n)) <=> k = Home(n) \/ (Home(n) = "outer" /\ k = "inner" /\ b)
    BY DEF Reached, HasParent
  <2> HIDE DEF listed, news
  <2> QED BY <1>1, <2>1, <2>2, <2>3, <2>4, <2>5, <2>6, <2>7
<1> QED BY <1>5, <1>6 DEF MuxerInv


\* Who watches what is all that changes, and nobody new watches.
LEMMA FewerWatch ==
  ASSUME MuxerInv, MuxerShape(muxer'), content' = content, told' = told, parented' \in BOOLEAN,
         \A m \in MuxerNames : muxer'[m].groups = muxer[m].groups,
         \A m \in MuxerNames, n \in Names, o \in Observers : Watches(muxer', m, n, o) =>
           Watches(muxer, m, n, o) /\ (parented' = parented \/ m = "outer")
  PROVE  MuxerInv'
<1>1. MuxerTypes'
  BY DEF MuxerInv, MuxerTypes
<1>2. ObserversAgree'
  <2> SUFFICES ASSUME Apart, NEW k \in MuxerNames, NEW n \in Names, NEW o \in Observers, Watches(muxer', k, n, o)
               PROVE  told[o][k][n] = QueryAction(muxer', content, parented', k, n)
    BY DEF ObserversAgree, Apart
  <2>1. told[o][k][n] = QueryAction(muxer, content, parented, k, n)
    BY DEF MuxerInv, ObserversAgree, Apart
  <2>2. /\ QueryAction(muxer, content, parented, k, n) =
             IF Reached(parented, k, Home(n)) THEN InGroup(muxer, content, Home(n), n) ELSE NoAction
        /\ QueryAction(muxer', content, parented', k, n) =
             IF Reached(parented', k, Home(n)) THEN InGroup(muxer', content, Home(n), n) ELSE NoAction
    BY QueryLeadsHome DEF MuxerInv, MuxerTypes
  <2>3. InGroup(muxer', content, Home(n), n) = InGroup(muxer, content, Home(n), n)
    BY HomeIsOne DEF InGroup
  <2>4. Reached(parented', k, Home(n)) <=> Reached(parented, k, Home(n))
    BY DEF Reached, HasParent
  <2> QED BY <2>1, <2>2, <2>3, <2>4
<1> QED BY <1>1, <1>2 DEF MuxerInv

\* Other watchers for a muxer, its groups as they are.
PutWatchers(mux, m, ws) == [mux EXCEPT ![m].watchers = ws]
\* What a muxer is when only its watchers change.
LEMMA WatchersArePut ==
  ASSUME NEW mux, MuxerShape(mux), NEW m \in MuxerNames, NEW ws \in [Names -> [Observers -> Nat]]
  PROVE  /\ MuxerShape(PutWatchers(mux, m, ws))
         /\ \A k \in MuxerNames : PutWatchers(mux, m, ws)[k].groups = mux[k].groups
         /\ \A k \in MuxerNames : PutWatchers(mux, m, ws)[k].watchers = IF k = m THEN ws ELSE mux[k].watchers
<1> DEFINE new == PutWatchers(mux, m, ws)
           Rec == [groups : UNION {[MuxerPrefixes[k] -> GroupNames \cup {NoGroup}] : k \in MuxerNames},
                   watchers : [Names -> [Observers -> Nat]]]
<1>1. mux \in [MuxerNames -> Rec]
  BY DEF MuxerShape
<1>2. \A k \in MuxerNames : new[k] = IF k = m THEN [groups |-> mux[m].groups, watchers |-> ws] ELSE mux[k]
  BY <1>1 DEF PutWatchers
<1>3. [groups |-> mux[m].groups, watchers |-> ws] \in Rec
  BY <1>1
<1>4. new \in [MuxerNames -> Rec]
  <2>1. new = [k \in MuxerNames |-> new[k]]
    BY <1>1 DEF PutWatchers
  <2>2. \A k \in MuxerNames : new[k] \in Rec
    BY <1>1, <1>2, <1>3
  <2> HIDE DEF new, Rec
  <2> QED BY <2>1, <2>2
<1>5. \A k \in MuxerNames : new[k].groups = mux[k].groups
  BY <1>2
<1>6. \A k \in MuxerNames : new[k].watchers = IF k = m THEN ws ELSE mux[k].watchers
  BY <1>2
<1>7. MuxerShape(new)
  BY <1>4, <1>5 DEF MuxerShape
<1> QED BY <1>5, <1>6, <1>7

\* An observer that registers asks for what it watches.
LEMMA RegisteredKnows ==
  ASSUME MuxerInv, NEW m \in MuxerNames, NEW n \in Names, NEW o \in Observers, RegisterObserver(m, n, o)
  PROVE  MuxerInv'
<1> DEFINE left == [muxer[m].watchers EXCEPT ![n][o] = @ + 1]
           q == QueryAction(muxer, content, parented, m, n)
<1>1. /\ muxer' = [muxer EXCEPT ![m].watchers[n][o] = @ + 1] /\ content' = content /\ parented' = parented
      /\ told' = [told EXCEPT ![o][m][n] = q]
  BY DEF RegisterObserver
<1>2. muxer[m].watchers \in [Names -> [Observers -> Nat]]
  BY DEF MuxerInv, MuxerTypes, MuxerShape
<1>3. left \in [Names -> [Observers -> Nat]] /\ \A i \in Names, j \in Observers :
        left[i][j] = IF i = n /\ j = o THEN muxer[m].watchers[n][o] + 1 ELSE muxer[m].watchers[i][j]
  BY <1>2
<1>4. muxer' = PutWatchers(muxer, m, left)
  BY <1>1, <1>2 DEF PutWatchers
<1>5. /\ MuxerShape(muxer')
      /\ \A k \in MuxerNames : muxer'[k].groups = muxer[k].groups
      /\ \A k \in MuxerNames : muxer'[k].watchers = IF k = m THEN left ELSE muxer[k].watchers
  <2>1. left \in [Names -> [Observers -> Nat]] /\ MuxerShape(muxer)
    BY <1>3 DEF MuxerInv, MuxerTypes
  <2> HIDE DEF left
  <2> QED BY <1>4, <2>1, WatchersArePut
<1>6. told' \in Tidings /\ \A j \in Observers, k \in MuxerNames, i \in Names :
        told'[j][k][i] = IF j = o /\ k = m /\ i = n THEN q ELSE told[j][k][i]
  <2>1. q \in SeenValues
    BY QueryIsTyped DEF MuxerInv, MuxerTypes
  <2>2. told \in Tidings
    BY DEF MuxerInv, MuxerTypes
  <2> HIDE DEF q
  <2> QED BY <1>1, <2>1, <2>2 DEF Tidings
<1>7. MuxerTypes'
  BY <1>1, <1>5, <1>6 DEF MuxerInv, MuxerTypes
<1>8. ObserversAgree'
  <2> SUFFICES ASSUME Apart, NEW k \in MuxerNames, NEW i \in Names, NEW j \in Observers, Watches(muxer', k, i, j)
               PROVE  told'[j][k][i] = QueryAction(muxer', content, parented, k, i)
    <3>1. content' = content /\ parented' = parented
      BY <1>1
    <3> QED BY <3>1 DEF ObserversAgree, Apart
  <2>1. QueryAction(muxer', content, parented, k, i) = QueryAction(muxer, content, parented, k, i)
    <3>1. InGroup(muxer', content, Home(i), i) = InGroup(muxer, content, Home(i), i)
      BY <1>5, HomeIsOne DEF InGroup
    <3> QED BY <3>1, QueryLeadsHome DEF MuxerInv, MuxerTypes
  <2>2. Watches(muxer, k, i, j) \/ (j = o /\ k = m /\ i = n)
    BY <1>3, <1>5 DEF Watches
  <2> QED BY <1>6, <2>1, <2>2 DEF MuxerInv, ObserversAgree, Apart
<1> QED BY <1>7, <1>8 DEF MuxerInv

\* An observer that no longer watches a name need not be told of it.
LEMMA UnregisteredIsKept ==
  ASSUME MuxerInv, NEW m \in MuxerNames, NEW n \in Names, NEW o \in Observers, UnregisterObserver(m, n, o)
  PROVE  MuxerInv'
<1> DEFINE left == [muxer[m].watchers EXCEPT ![n][o] = @ - 1]
<1>1. /\ muxer' = [muxer EXCEPT ![m].watchers[n][o] = @ - 1] /\ content' = content /\ parented' = parented
      /\ told' = told /\ muxer[m].watchers[n][o] > 0
  BY DEF UnregisterObserver, Watches
<1>2. muxer[m].watchers \in [Names -> [Observers -> Nat]]
  BY DEF MuxerInv, MuxerTypes, MuxerShape
<1>3. left \in [Names -> [Observers -> Nat]] /\ \A i \in Names, j \in Observers : left[i][j] <= muxer[m].watchers[i][j]
  BY <1>1, <1>2
<1>4. muxer' = PutWatchers(muxer, m, left)
  BY <1>1, <1>2 DEF PutWatchers
<1>5. /\ MuxerShape(muxer')
      /\ \A k \in MuxerNames : muxer'[k].groups = muxer[k].groups
      /\ \A k \in MuxerNames : muxer'[k].watchers = IF k = m THEN left ELSE muxer[k].watchers
  <2>1. left \in [Names -> [Observers -> Nat]] /\ MuxerShape(muxer)
    BY <1>3 DEF MuxerInv, MuxerTypes
  <2> HIDE DEF left
  <2> QED BY <1>4, <2>1, WatchersArePut
<1>6. \A k \in MuxerNames, i \in Names, j \in Observers : Watches(muxer', k, i, j) => Watches(muxer, k, i, j)
  <2>1. \A k \in MuxerNames, i \in Names, j \in Observers :
          muxer'[k].watchers[i][j] \in Nat /\ muxer[k].watchers[i][j] \in Nat
    BY <1>5 DEF MuxerInv, MuxerTypes, MuxerShape
  <2> HIDE DEF left
  <2> QED BY <1>3, <1>5, <2>1 DEF Watches
<1> QED BY <1>1, <1>5, <1>6, FewerWatch DEF MuxerInv, MuxerTypes

\* An observer that died is dropped from every muxer.
LEMMA DeadObserverIsKept ==
  ASSUME MuxerInv, NEW o \in Observers, ObserverDies(o)
  PROVE  MuxerInv'
<1> DEFINE left(m) == [n \in Names |-> [muxer[m].watchers[n] EXCEPT ![o] = 0]]
<1>1. /\ muxer' = [m \in MuxerNames |-> [muxer[m] EXCEPT !.watchers = left(m)]]
      /\ content' = content /\ parented' = parented /\ told' = told
  BY DEF ObserverDies
<1>2. \A m \in MuxerNames : muxer[m].watchers \in [Names -> [Observers -> Nat]]
  BY DEF MuxerInv, MuxerTypes, MuxerShape
<1>3. \A m \in MuxerNames : left(m) \in [Names -> [Observers -> Nat]]
  BY <1>2
<1>4. \A m \in MuxerNames : \A n \in Names, j \in Observers : left(m)[n][j] > 0 => muxer[m].watchers[n][j] > 0
  BY <1>2
<1> HIDE DEF left
<1>5. \A m \in MuxerNames : muxer'[m] = [groups |-> muxer[m].groups, watchers |-> left(m)]
  <2> SUFFICES ASSUME NEW m \in MuxerNames PROVE muxer'[m] = [groups |-> muxer[m].groups, watchers |-> left(m)]
    OBVIOUS
  <2>1. muxer'[m] = [muxer[m] EXCEPT !.watchers = left(m)]
    BY <1>1, Zenon
  <2>2. muxer[m] \in [groups : UNION {[MuxerPrefixes[k] -> GroupNames \cup {NoGroup}] : k \in MuxerNames},
                      watchers : [Names -> [Observers -> Nat]]]
    BY DEF MuxerInv, MuxerTypes, MuxerShape
  <2> QED BY <2>1, <2>2
<1>6. \A m \in MuxerNames : muxer'[m].groups = muxer[m].groups /\ muxer'[m].watchers = left(m)
  <2> SUFFICES ASSUME NEW m \in MuxerNames PROVE muxer'[m].groups = muxer[m].groups /\ muxer'[m].watchers = left(m)
    OBVIOUS
  <2>1. muxer'[m] = [groups |-> muxer[m].groups, watchers |-> left(m)]
    BY <1>5
  <2> QED BY <2>1
<1>7. MuxerShape(muxer')
  <2> DEFINE Gs == UNION {[MuxerPrefixes[k] -> GroupNames \cup {NoGroup}] : k \in MuxerNames}
             Ws == [Names -> [Observers -> Nat]]
  <2>1. \A m \in MuxerNames : muxer[m].groups \in Gs
    BY DEF MuxerInv, MuxerTypes, MuxerShape
  <2>2. \A m \in MuxerNames : left(m) \in Ws
    BY <1>3
  <2>3. muxer' = [m \in MuxerNames |-> muxer'[m]]
    BY <1>1
  <2>4. muxer' \in [MuxerNames -> [groups : Gs, watchers : Ws]]
    <3> HIDE DEF Gs, Ws
    <3>1. \A m \in MuxerNames : muxer'[m] \in [groups : Gs, watchers : Ws]
      <4> SUFFICES ASSUME NEW m \in MuxerNames PROVE muxer'[m] \in [groups : Gs, watchers : Ws]
        OBVIOUS
      <4>1. muxer'[m] = [groups |-> muxer[m].groups, watchers |-> left(m)]
        BY <1>5
      <4> QED BY <2>1, <2>2, <4>1
    <3> QED BY <2>3, <3>1
  <2> QED BY <1>6, <2>4 DEF MuxerInv, MuxerTypes, MuxerShape
<1>8. \A m \in MuxerNames, n \in Names, j \in Observers : Watches(muxer', m, n, j) => Watches(muxer, m, n, j)
  BY <1>4, <1>6 DEF Watches
<1> QED BY <1>1, <1>6, <1>7, <1>8, FewerWatch DEF MuxerInv, MuxerTypes

\* A muxer that is disposed of drops its watchers and leaves its parent.
LEMMA DisposedIsKept ==
  ASSUME MuxerInv, Dispose
  PROVE  MuxerInv'
<1>1. /\ muxer' = [muxer EXCEPT !["inner"].watchers = NoWatchers]
      /\ content' = content /\ parented' = FALSE /\ told' = told
  BY DEF Dispose
<1>2. NoWatchers \in [Names -> [Observers -> Nat]] /\ \A n \in Names, o \in Observers : NoWatchers[n][o] = 0
  BY DEF NoWatchers
<1>3. /\ MuxerShape(muxer')
      /\ \A k \in MuxerNames : muxer'[k].groups = muxer[k].groups
      /\ \A k \in MuxerNames : muxer'[k].watchers = IF k = "inner" THEN NoWatchers ELSE muxer[k].watchers
  <2>1. MuxerShape(muxer) /\ "inner" \in MuxerNames
    BY DEF MuxerInv, MuxerTypes, MuxerNames
  <2>2. muxer' = PutWatchers(muxer, "inner", NoWatchers)
    BY <1>1 DEF PutWatchers
  <2> QED BY <1>2, <2>1, <2>2, WatchersArePut
<1>4. \A m \in MuxerNames, n \in Names, o \in Observers :
        Watches(muxer', m, n, o) => Watches(muxer, m, n, o) /\ m = "outer"
  BY <1>2, <1>3 DEF Watches, MuxerNames
<1> QED BY <1>1, <1>3, <1>4, FewerWatch

\* Every step of the muxers keeps the invariant.
LEMMA MuxerStep == MuxerInv /\ [MuxerNext]_muxerVars => MuxerInv'
<1> SUFFICES ASSUME MuxerInv, [MuxerNext]_muxerVars PROVE MuxerInv'
  OBVIOUS
<1>1. CASE UNCHANGED muxerVars
  BY <1>1 DEF MuxerInv, MuxerTypes, ObserversAgree, muxerVars
<1>2. ASSUME NEW g \in GroupNames, NEW a \in ActionNames, NEW v \in Values \cup {NoAction}, GroupChanges(g, a, v)
      PROVE  MuxerInv'
  BY <1>2, ChangeIsTold DEF SeenValues
<1>3. ASSUME NEW m \in MuxerNames, NEW p, RemovePrefix(m, p)
      PROVE  MuxerInv'
  <2>1. p \in MuxerPrefixes[m]
    BY <1>3 DEF RemovePrefix
  <2> QED BY <1>3, <2>1, RemovalIsTold
<1>4. ASSUME NEW m \in MuxerNames, NEW p, NEW g \in GroupNames, InsertGroup(m, p, g)
      PROVE  MuxerInv'
  <2>1. p \in MuxerPrefixes[m]
    BY <1>4 DEF InsertGroup
  <2> QED BY <1>4, <2>1, InsertIsTold
<1>5. ASSUME NEW m \in MuxerNames, NEW n \in Names, NEW e \in BOOLEAN, NEW s \in BOOLEAN, ChangeActionState(m, n, e, s)
      PROVE  MuxerInv'
  <2>1. n[2] \in ActionNames /\ <<e, s>> \in SeenValues
    BY DEF Names, SeenValues, Values
  <2>2. \A k \in MuxerNames : n[1] \in MuxerPrefixes[k] => muxer[k].groups[n[1]] \in GroupNames \cup {NoGroup}
    BY DEF MuxerInv, MuxerTypes, MuxerShape
  <2>3. \E g \in GroupNames : GroupChanges(g, n[2], <<e, s>>)
    BY <1>5, <2>2 DEF ChangeActionState, MuxerNames
  <2> QED BY <2>1, <2>3, ChangeIsTold
<1> QED BY Zenon, <1>1, <1>2, <1>3, <1>4, <1>5, ParentIsTold, RegisteredKnows, UnregisteredIsKept, DeadObserverIsKept, DisposedIsKept
        DEF MuxerNext

\* However many muxers' groups, parents and observers come, change and go, an
\* observer holds what asking for its action would answer
\* (gtk_action_muxer_insert(), gtk_action_muxer_set_parent()).
THEOREM ObserversAlwaysAgree == MuxerSpec => []ObserversAgree
<1>1. MuxerInv => ObserversAgree
  BY DEF MuxerInv
<1> QED BY MuxerStarts, MuxerStep, <1>1, PTL DEF MuxerSpec
=============================================================================
