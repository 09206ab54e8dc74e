------------------------------ MODULE AppCache ------------------------------
(***************************************************************************)
(* ShellAppCache (src/shell-app-cache.c): the .desktop files and the names *)
(* of folders, read by a worker thread some seconds after the last change  *)
(* a monitor reported.  A read is two steps of the worker, the files and   *)
(* then the folders; its answer comes to the main thread later still.      *)
(* Fairness: timers fire, threads run and answers are delivered.           *)
(***************************************************************************)
EXTENDS Integers, FiniteSets, Sequences, SequencesExt

CONSTANTS
  FolderDirs,   \* number of data directories, the user's first
  FolderNames,  \* names of folders
  MaxChanges,   \* bound on changes on disk
  MaxTasks      \* bound on the reads started

ASSUME AppCacheAssumption ==
  FolderDirs \in Nat \ {0} /\ MaxChanges \in Nat /\ MaxTasks \in Nat /\ MaxTasks >= MaxChanges

\* A folder's file in a directory: none, one without a Name, or the number of
\* the change that wrote its Name.
NoEntry == -2
Unnamed == -1
FolderFile == {NoEntry, Unnamed} \cup 0..MaxChanges

VARIABLES
  desktops,   \* number of the last change to the .desktop files
  folderDirs, \* what the directories hold: directory -> name -> FolderFile
  changes,    \* number of changes so far
  reported,   \* a monitor has a change to report
  appInfos, folders, queuedUpdate, \* the fields of ShellAppCache
  tasks       \* the reads: stage, what was read, cancelled or not

cacheVars == <<desktops, folderDirs, changes, reported, appInfos, folders, queuedUpdate, tasks>>

-----------------------------------------------------------------------------

\* load_folder: a directory adds the names an earlier one did not have.
LoadFolder(found, dir) ==
  [n \in FolderNames |-> IF found[n] # NoEntry THEN found[n]
                         ELSE IF dir[n] = Unnamed THEN NoEntry ELSE dir[n]]

\* load_folders: the user's directory, then the system's.
LoadFolders(dirs) == FoldLeft(LoadFolder, [n \in FolderNames |-> NoEntry], dirs)

CacheInit ==
  /\ desktops = 0 /\ changes = 0 /\ reported = FALSE
  /\ folderDirs \in [1..FolderDirs -> [FolderNames -> {NoEntry, Unnamed, 0}]]
  /\ appInfos = 0 /\ folders = LoadFolders(folderDirs)
  /\ queuedUpdate = FALSE /\ tasks = <<>>

\* A package is installed; the monitor will say so, once for several changes.
InstallApp ==
  /\ changes < MaxChanges
  /\ changes' = changes + 1 /\ desktops' = desktops + 1 /\ reported' = TRUE
  /\ UNCHANGED <<folderDirs, appInfos, folders, queuedUpdate, tasks>>

ChangeFolder(d, n, named) ==
  /\ changes < MaxChanges
  /\ changes' = changes + 1 /\ reported' = TRUE
  /\ folderDirs' = [folderDirs EXCEPT ![d][n] = IF named THEN changes' ELSE NoEntry]
  /\ UNCHANGED <<desktops, appInfos, folders, queuedUpdate, tasks>>

\* GAppInfoMonitor::changed and GFileMonitor::changed, both connected to
\* shell_app_cache_queue_update, which starts the delay again.
\* Mutant: a change reported while the files are read is taken for read.
QueueUpdateUnlessReading ==
  /\ reported
  /\ reported' = FALSE
  /\ queuedUpdate' = (queuedUpdate \/ \A i \in DOMAIN tasks : tasks[i].stage = "done")
  /\ UNCHANGED <<desktops, folderDirs, changes, appInfos, folders, tasks>>
QueueUpdate ==
  /\ reported
  /\ reported' = FALSE /\ queuedUpdate' = TRUE
  /\ UNCHANGED <<desktops, folderDirs, changes, appInfos, folders, tasks>>

\* shell_app_cache_do_update: the read under way is cancelled for a new one.
NewTask == [stage |-> "queued", infos |-> 0, folders |-> <<>>, cancelled |-> FALSE]
\* Mutant: the read under way goes on beside the new one.
DoUpdateBeside ==
  /\ queuedUpdate /\ Len(tasks) < MaxTasks
  /\ queuedUpdate' = FALSE /\ tasks' = Append(tasks, NewTask)
  /\ UNCHANGED <<desktops, folderDirs, changes, reported, appInfos, folders>>
DoUpdate ==
  /\ queuedUpdate /\ Len(tasks) < MaxTasks
  /\ queuedUpdate' = FALSE
  /\ tasks' = Append([i \in DOMAIN tasks |-> [tasks[i] EXCEPT !.cancelled = TRUE]], NewTask)
  /\ UNCHANGED <<desktops, folderDirs, changes, reported, appInfos, folders>>

\* shell_app_cache_worker, first half: g_app_info_get_all.
ReadApps(i) ==
  /\ i \in DOMAIN tasks /\ tasks[i].stage = "queued"
  /\ tasks' = [tasks EXCEPT ![i].stage = "apps", ![i].infos = desktops]
  /\ UNCHANGED <<desktops, folderDirs, changes, reported, appInfos, folders, queuedUpdate>>

ReadFolders(i) ==
  /\ i \in DOMAIN tasks /\ tasks[i].stage = "apps"
  /\ tasks' = [tasks EXCEPT ![i].stage = "read", ![i].folders = LoadFolders(folderDirs)]
  /\ UNCHANGED <<desktops, folderDirs, changes, reported, appInfos, folders, queuedUpdate>>

\* apply_update_cb: a cancelled read leaves the cache as it is.
ApplyUpdate(i) ==
  /\ i \in DOMAIN tasks /\ tasks[i].stage = "read"
  /\ tasks' = [tasks EXCEPT ![i].stage = "done"]
  /\ IF tasks[i].cancelled THEN UNCHANGED <<appInfos, folders>>
     ELSE appInfos' = tasks[i].infos /\ folders' = tasks[i].folders
  /\ UNCHANGED <<desktops, folderDirs, changes, reported, queuedUpdate>>

CacheNext ==
  \/ InstallApp
  \/ \E d \in 1..FolderDirs, n \in FolderNames, named \in BOOLEAN : ChangeFolder(d, n, named)
  \/ QueueUpdate
  \/ DoUpdate
  \/ \E i \in 1..MaxTasks : ReadApps(i)
  \/ \E i \in 1..MaxTasks : ReadFolders(i)
  \/ \E i \in 1..MaxTasks : ApplyUpdate(i)

CacheFairness ==
  /\ WF_cacheVars(QueueUpdate) /\ WF_cacheVars(DoUpdate)
  /\ \A i \in 1..MaxTasks : /\ WF_cacheVars(ReadApps(i)) /\ WF_cacheVars(ReadFolders(i))
                            /\ WF_cacheVars(ApplyUpdate(i))

CacheSpec == CacheInit /\ [][CacheNext]_cacheVars /\ CacheFairness

-----------------------------------------------------------------------------

\* What the two halves of ShellAppCache owe ShellAppSystem: the installed
\* files copied with a delay and never an older set after a newer one, though
\* reads overlap ("so we don't race with two updates coming back overlapped").
Mirror == INSTANCE AppMirror WITH installed <- desktops, copy <- appInfos
CacheImplementsMirror == Mirror!MirrorSpec

\* Once the files stop changing the cache ends up equal to what is on disk,
\* though a monitor reports several changes once, the delay starts again with
\* every report and a change may fall between the two halves of a read.
CacheSettles == <>[](appInfos = desktops /\ folders = LoadFolders(folderDirs))
=============================================================================
