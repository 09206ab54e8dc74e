---------------------------- MODULE CameraMonitor ---------------------------
(***************************************************************************)
(* Whether a camera is in use, as PipeWire tells it                        *)
(* (src/shell-camera-monitor.c, built with PipeWire).  Nodes come, start,  *)
(* stop and go, the connection breaks and is tried again, and the end of   *)
(* use is reported after a delay.  PipeWire is external.                   *)
(***************************************************************************)
EXTENDS Integers

CONSTANTS
  CameraNodes,     \* nodes with the media role "Camera"
  MaxCameraEvents  \* bound on what PipeWire reports in a behaviour

VARIABLES
  camera,        \* the monitor's fields; disable is its delayed_disable_id:
                 \* none, of a timeout that is armed, or of one that has fired
  cameraEvents
cameraVars == <<camera, cameraEvents>>

---------------------------------------------------------------------------
\* shell_camera_monitor_update_state()
CameraUpdateState(c) ==
  [c EXCEPT !.inUse = @ \/ c.running # {}, !.stuck = FALSE,
            !.disable = CASE c.running # {} -> "none" [] c.running = {} /\ c.inUse /\ @ = "none" -> "armed" [] OTHER -> @]

DisconnectCore(c) ==
  [c EXCEPT !.nodes = {}, !.running = {}, !.disable = "none", !.connected = FALSE, !.stuck = FALSE]

PipeWireTells(c) == cameraEvents < MaxCameraEvents /\ cameraEvents' = cameraEvents + 1 /\ camera' = c

\* registry_event_global() of a camera; a new node is not running
NodeAppears(n) ==
  camera.connected /\ n \notin camera.nodes /\ PipeWireTells([camera EXCEPT !.nodes = @ \cup {n}])
NodeEventInfo(n, running) ==
  /\ n \in camera.nodes
  /\ PipeWireTells(CameraUpdateState([camera EXCEPT !.running = IF running THEN @ \cup {n} ELSE @ \ {n}]))
\* registry_event_global_remove(): nobody looks whether it was running.
NodeRemoved(n) ==
  /\ n \in camera.nodes
  /\ PipeWireTells([camera EXCEPT !.nodes = @ \ {n}, !.running = @ \ {n},
                                  !.stuck = @ \/ (camera.running = {n} /\ camera.disable = "none")])
\* on_core_error() with a broken pipe
OnCoreError ==
  /\ camera.connected
  /\ PipeWireTells([DisconnectCore(camera) EXCEPT !.inUse = FALSE, !.reconnect = TRUE])

\* delayed_disable_state(): the identifier is left as it is.
DelayedDisableState ==
  /\ camera.disable = "armed"
  /\ camera' = [camera EXCEPT !.inUse = FALSE, !.disable = "fired"]
  /\ UNCHANGED cameraEvents
\* idle_reconnect(), and shell_camera_monitor_connect_core() in it
IdleReconnect(connects) ==
  /\ camera.reconnect
  /\ camera' = [camera EXCEPT !.connected = connects, !.reconnect = ~connects]
  /\ UNCHANGED cameraEvents

---------------------------------------------------------------------------
\* The first connection is not tried again when it fails.
CameraInit ==
  /\ \E connects \in BOOLEAN :
       camera = [nodes |-> {}, running |-> {}, inUse |-> FALSE, disable |-> "none", reconnect |-> FALSE,
                 connected |-> connects, stuck |-> FALSE]
  /\ cameraEvents = 0
CameraNext ==
  \/ \E n \in CameraNodes : NodeAppears(n) \/ NodeRemoved(n) \/ \E running \in BOOLEAN : NodeEventInfo(n, running)
  \/ OnCoreError \/ DelayedDisableState \/ \E connects \in BOOLEAN : IdleReconnect(connects)
CameraSpec == CameraInit /\ [][CameraNext]_cameraVars

---------------------------------------------------------------------------
\* A camera that is running is reported, and one that is reported is running
\* or its end is about to be reported, except that a node which goes while it
\* runs leaves the report standing ("stuck").  A timeout is armed only while
\* nothing runs, its stale identifier never stands in the way of a new one,
\* and a broken connection ends the report and is tried again
\* (shell_camera_monitor_update_state(), delayed_disable_state(),
\* registry_event_global_remove(), on_core_error()).
CamerasAreReported ==
  /\ camera.running # {} => camera.inUse /\ camera.disable = "none"
  /\ camera.inUse => camera.running # {} \/ camera.disable = "armed" \/ camera.stuck
  /\ camera.disable = "armed" => camera.inUse
  /\ ~camera.connected => ~camera.inUse
  /\ camera.reconnect => ~camera.connected
=============================================================================
