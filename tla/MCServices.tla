----------------------------- MODULE MCServices -----------------------------
(***************************************************************************)
(* The shell's services in small.  Applications have a normal window whose *)
(* WM_CLASS may or may not name a .desktop file, and a dialog of it that   *)
(* starts out of the taskbar; two .desktop files claim the same            *)
(* StartupWMClass, one of them hidden.  With them go the cache of .desktop *)
(* files, usage statistics, one application's windows, the action muxer,   *)
(* the polkit, network and keyring agents, screenshots, the calendar, the  *)
(* camera monitor, the sniffer of media, saved state and leisure.          *)
(* The parts have no variable in common, so a behaviour is one of one      *)
(* part, chosen at the start.                                              *)
(***************************************************************************)
EXTENDS Applications, AppCache, AppUsage, ShellAppWindows, ActionMuxer, PolkitAgent, NetworkAgent, KeyringPrompt,
        Screenshots, ScreenshotUI, CalendarServer, CameraMonitor, HotplugSniffer, GlobalState

CONSTANTS w1, w2, w3, i1, i2, cA

Window(type, transient, pid, startup, group, sk) ==
  [type |-> type, transient |-> transient, remote |-> FALSE, sandbox |-> NoId, gapp |-> NoId,
   pid |-> pid, startup |-> startup, group |-> group, skip |-> sk]
MCAttr == [w \in Windows |->
  CASE w = w1 -> Window("normal", NoWindow, 1, "q1", 1, FALSE)
    [] w = w2 -> Window("dialog", w1, 1, NoSeq, 0, TRUE)
    [] w = w3 -> Window("dialog", NoWindow, 0, NoSeq, 1, FALSE)]
Class(c) == [instance |-> c, class |-> c]
MCWmClass == [w \in Windows |-> IF w = w1 THEN {Class(cA), Class(NoClass)} ELSE {Class(NoClass)}]
MCDesktopNames == cA :> <<i2>>
MCPrefix == [id \in Ids |-> NoId]
MCSeqApp == "q1" :> i1
MCFiles ==
  (i1 :> {[wmclass |-> cA, exact |-> FALSE, show |-> TRUE, ver |-> v] : v \in 1..2} \cup {Absent}) @@
  (i2 :> {[wmclass |-> cA, exact |-> FALSE, show |-> FALSE, ver |-> 1]})

CONSTANTS v1, v2
MCAppAttr == [w \in AppWindows |->
  [bus |-> IF w = v1 THEN "b1" ELSE NoBus, object |-> w = v1, gapp |-> TRUE, skip |-> FALSE,
   sticky |-> w = v2, parent |-> IF w = v2 THEN v1 ELSE NoWin, closable |-> TRUE, pid |-> 1]]
MCAppFile == [newWindow |-> FALSE, singleWindow |-> "unset", exports |-> {"quit"}]

MCMuxerPrefixes == [m \in {"inner", "outer"} |-> IF m = "inner" THEN {"win"} ELSE {"app"}]
MCPasswords == {<<>>, <<"misc", "upper">>}
MCEventTimes == {<<1, 2>>, <<3, 4>>}
MCRanges == {<<1, 3>>, <<2, 5>>}
MCEntries == ("m" :> <<"video", "d", "audio", "other">>) @@ ("d" :> <<"audio", "audio", "e">>) @@ ("e" :> <<>>)

---------------------------------------------------------------------------
VARIABLE part   \* the part a behaviour is about
parts == <<vars, cacheVars, usageVars, swVars, muxerVars, polkitVars, agentVars, promptVars,
           screenshotVars, uiVars, pixelVars, calVars, cameraVars, snifferVars, globalVars>>

\* The parts a behaviour is not about stay in one of their initial states.
PartsInit ==
  /\ part \in {"applications", "cache", "usage", "windows", "muxer", "polkit", "network", "keyring", "screenshot", "dialog", "pixels", "calendar", "camera", "media",
              "state", "leisure"}
  /\ Init /\ (part # "applications" => disk[i1] = Absent)
  /\ CacheInit /\ (part # "cache" => \A d \in 1..FolderDirs, n \in FolderNames : folderDirs[d][n] = NoEntry)
  /\ UsageInit /\ (part # "usage" => rememberUsage)
  /\ SWInit /\ MuxerInit /\ PolkitInit /\ AgentInit /\ PromptInit
  /\ ScreenshotInit /\ UiInit /\ PixelInit /\ CalInit
  /\ CameraInit /\ (part # "camera" => camera.connected)
  /\ SnifferInit /\ GlobalInit

PartsNext ==
  \/ part = "applications" /\ Next
     /\ UNCHANGED <<part, cacheVars, usageVars, swVars, muxerVars, polkitVars, agentVars, promptVars, screenshotVars, uiVars, pixelVars, calVars, cameraVars, snifferVars, globalVars>>
  \/ part = "cache" /\ CacheNext
     /\ UNCHANGED <<part, vars, usageVars, swVars, muxerVars, polkitVars, agentVars, promptVars, screenshotVars, uiVars, pixelVars, calVars, cameraVars, snifferVars, globalVars>>
  \/ part = "usage" /\ UsageNext
     /\ UNCHANGED <<part, vars, cacheVars, swVars, muxerVars, polkitVars, agentVars, promptVars, screenshotVars, uiVars, pixelVars, calVars, cameraVars, snifferVars, globalVars>>
  \/ part = "windows" /\ SWNext
     /\ UNCHANGED <<part, vars, cacheVars, usageVars, muxerVars, polkitVars, agentVars, promptVars, screenshotVars, uiVars, pixelVars, calVars, cameraVars, snifferVars, globalVars>>
  \/ part = "muxer" /\ MuxerNext
     /\ UNCHANGED <<part, vars, cacheVars, usageVars, swVars, polkitVars, agentVars, promptVars, screenshotVars, uiVars, pixelVars, calVars, cameraVars, snifferVars, globalVars>>
  \/ part = "polkit" /\ PolkitNext
     /\ UNCHANGED <<part, vars, cacheVars, usageVars, swVars, muxerVars, agentVars, promptVars, screenshotVars, uiVars, pixelVars, calVars, cameraVars, snifferVars, globalVars>>
  \/ part = "network" /\ AgentNext
     /\ UNCHANGED <<part, vars, cacheVars, usageVars, swVars, muxerVars, polkitVars, promptVars, screenshotVars, uiVars, pixelVars, calVars, cameraVars, snifferVars, globalVars>>
  \/ part = "keyring" /\ PromptNext
     /\ UNCHANGED <<part, vars, cacheVars, usageVars, swVars, muxerVars, polkitVars, agentVars, screenshotVars, uiVars, pixelVars, calVars, cameraVars, snifferVars, globalVars>>
  \/ part = "screenshot" /\ ScreenshotNext
     /\ UNCHANGED <<part, vars, cacheVars, usageVars, swVars, muxerVars, polkitVars, agentVars, promptVars, uiVars, pixelVars, calVars, cameraVars, snifferVars, globalVars>>
  \/ part = "dialog" /\ UiNext
     /\ UNCHANGED <<part, vars, cacheVars, usageVars, swVars, muxerVars, polkitVars, agentVars, promptVars, screenshotVars, pixelVars, calVars, cameraVars, snifferVars, globalVars>>
  \/ part = "pixels" /\ PixelNext
     /\ UNCHANGED <<part, vars, cacheVars, usageVars, swVars, muxerVars, polkitVars, agentVars, promptVars, screenshotVars, uiVars, calVars, cameraVars, snifferVars, globalVars>>
  \/ part = "calendar" /\ CalNext
     /\ UNCHANGED <<part, vars, cacheVars, usageVars, swVars, muxerVars, polkitVars, agentVars, promptVars, screenshotVars, uiVars, pixelVars, cameraVars, snifferVars, globalVars>>
  \/ part = "camera" /\ CameraNext
     /\ UNCHANGED <<part, vars, cacheVars, usageVars, swVars, muxerVars, polkitVars, agentVars, promptVars, screenshotVars, uiVars, pixelVars, calVars, snifferVars, globalVars>>
  \/ part = "media" /\ SnifferNext
     /\ UNCHANGED <<part, vars, cacheVars, usageVars, swVars, muxerVars, polkitVars, agentVars, promptVars, screenshotVars, uiVars, pixelVars, calVars, cameraVars, globalVars>>
  \/ part = "state" /\ SaveNext
     /\ UNCHANGED <<part, vars, cacheVars, usageVars, swVars, muxerVars, polkitVars, agentVars, promptVars, screenshotVars, uiVars, pixelVars, calVars, cameraVars, snifferVars>>
  \/ part = "leisure" /\ LeisureNext
     /\ UNCHANGED <<part, vars, cacheVars, usageVars, swVars, muxerVars, polkitVars, agentVars, promptVars, screenshotVars, uiVars, pixelVars, calVars, cameraVars, snifferVars>>

PartsSpec == PartsInit /\ [][PartsNext]_<<part, parts>> /\ CacheFairness

---------------------------------------------------------------------------
\* What the window tracker, the application system, the usage statistics and
\* an application hold of windows agrees with the windows there are, whatever
\* order they come, change, lose focus and go in (shell-window-tracker.c,
\* shell-app-system.c, shell-app-usage.c, shell-app.c).
ApplicationsAgree ==
  /\ TypeOK /\ InterestingIsExact /\ StateFollowsWindows /\ TrackedWindowsAreHeld /\ NormalWindowsAreHeldOnce
  /\ LookupsAreCurrent /\ TimersHaveRunner
  /\ ScoresAreBounded /\ WatchedHasFocus
  /\ BusyWatchIsOurs

\* Whoever asks the shell for a password or a picture is answered once, in
\* turn and when nothing can be answered any more, though requests are
\* cancelled, replaced and completed from several sides; so is whoever asks
\* what a medium holds; and state that is to be saved and functions that are
\* to be run at leisure are (shell-polkit-authentication-agent.c,
\* shell-network-agent.c, shell-keyring-prompt.c, screenshot.js,
\* hotplug-sniffer.c, shell-global.c).
AskersAreAnswered ==
  /\ RequestsTakeTurns /\ RequestsAnsweredOnce /\ PromptsAnsweredOnce /\ GoneDialogOwesNothing
  /\ MediaAreSniffed /\ StateAndLeisure

\* Whoever watches sees what there is: observers of actions through any number
\* of muxers, and the indicator of cameras, whatever appears, changes, goes
\* or breaks (gtkactionmuxer.c, shell-camera-monitor.c).
WatchersAgree == ObserversAgree /\ CamerasAreReported
=============================================================================
