----------------------------- MODULE CameraGuard ----------------------------
(***************************************************************************)
(* nodes/logical_camera_guard_node.py: from the stream of the camera, the  *)
(* guard publishes whether the target is present, once per authorization.  *)
(* An observation ends with the first image after it, or with the window.  *)
(***************************************************************************)
EXTENDS AuthorizationWindow

CONSTANTS
    Vision,          \* VISION_CAPABILITIES
    NotVision        \* stands for no capability (None)

ASSUME VisionAssumption == NotVision \notin Vision

VARIABLES
    windows,         \* _windows
    active,          \* _active_capability
    observed,        \* _observation_received
    camOut           \* what the last step published

camVars == <<windows, active, observed, camOut>>

Blank == [presence |-> "none", completed |-> NotVision, result |-> "none"]
NoReport == camOut' = Blank
Report(c, result) == camOut' = [Blank EXCEPT !.completed = c, !.result = result]

AllClosed == [c \in Vision |-> "closed"]
Closed(c) == [windows EXCEPT ![c] = "closed"]
Unmoved == NoReport /\ UNCHANGED <<windows, active, observed>>

CameraOnAuthorized(c) ==
    IF c \notin Vision THEN Unmoved
    ELSE /\ windows' = [AllClosed EXCEPT ![c] = "open"]
         /\ active' = c
         /\ observed' = FALSE
         /\ NoReport

(***************************************************************************)
(* _on_sensor_message with _active_window; present: the target is in it.   *)
(***************************************************************************)
Observe(present) ==
    /\ camOut' = [presence |-> IF present THEN "present" ELSE "absent",
                  completed |-> active,
                  result |-> IF present THEN "success" ELSE "failed"]
    /\ observed' = TRUE

OnSensorMessage(present) ==
    IF active = NotVision THEN Unmoved
    ELSE /\ windows' = Closed(active)
         /\ active' = NotVision
         /\ IF IsActive(windows[active])
            THEN Observe(present)
            ELSE Report(active, "failed") /\ UNCHANGED observed

CameraTick ==
    IF active = NotVision \/ IsActive(windows[active]) THEN Unmoved
    ELSE /\ windows' = Closed(active)
         /\ active' = NotVision
         /\ IF observed THEN NoReport ELSE Report(active, "failed")
         /\ UNCHANGED observed

CameraOnConsentEvent(type, c) ==
    LET changed == {v \in Vision : Changes(windows[v], type, c, v)} IN
    IF changed = {} THEN Unmoved
    ELSE /\ windows' = [v \in Vision |-> IF v \in changed THEN "closed" ELSE windows[v]]
         /\ active' = NotVision
         /\ IF active = NotVision THEN NoReport ELSE Report(active, "failed")
         /\ UNCHANGED observed

CameraOnBlocked(c) ==
    IF c \notin Vision THEN Unmoved
    ELSE /\ windows' = Closed(c)
         /\ active' = IF active = c THEN NotVision ELSE active
         /\ NoReport
         /\ UNCHANGED observed

SessionEndsKeepingWindows == active' = NotVision /\ UNCHANGED windows   \* mutant

SessionEnds == active' = NotVision /\ windows' = AllClosed              \* _close_all

CameraOnSession ==
    IF active = NotVision THEN Unmoved
    ELSE SessionEnds /\ NoReport /\ UNCHANGED observed

CameraTimePasses ==
    \E c \in Vision :
        /\ windows[c] = "open"
        /\ windows' = [windows EXCEPT ![c] = "lapsed"]
        /\ NoReport /\ UNCHANGED <<active, observed>>

CameraInit == windows = AllClosed /\ active = NotVision /\ observed = FALSE
              /\ camOut = Blank
=============================================================================
