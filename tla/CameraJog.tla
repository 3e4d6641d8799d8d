------------------------------ MODULE CameraJog ------------------------------
(***************************************************************************)
(* The direction control of the camera page (web/static/desktop/js/        *)
(* camera_monitor.js): a pad whose buttons jog the mount while they are    *)
(* held, or move it by an offset, and the status that enables them.        *)
(*                                                                         *)
(* Every request names both axes, so the two move as one.  Unlike the      *)
(* dashboards' (MotorPanel) its heartbeat does not wait for the last one,  *)
(* a second button replaces the first without a release, and a status that *)
(* fails drops what is held without one.                                   *)
(***************************************************************************)
EXTENDS Integers

CONSTANTS Directions,     \* velocities of the buttons
          MovedBy,        \* stands for the motion of a goto
          MaxJogRequests  \* bound: velocity commands and gotos of the page

ASSUME CameraJogAssumption ==
    /\ Directions \subseteq Int \ {0} /\ MovedBy \in Int \ (Directions \cup {0})
    /\ MaxJogRequests \in Nat

VARIABLES
    padEnabled,    \* the buttons are enabled: renderStatus, armed
    activeJog,     \* activeJog: its velocity, or 0
    padMode,       \* activeMode
    motionSequence,\* motionSequence
    velocities,    \* velocity commands that have not arrived: <<number, velocity>>
    offsets,       \* gotos that have not been handled
    padLeft,       \* the page is hidden
    driveEnabled,  \* server: both axes are enabled
    handled,       \* server: _last_sequences
    jogMotion,     \* server: commanded motion
    lastVelocity,  \* history: the velocity of the newest command
    dropped        \* history: a failed status has dropped the newest hold

padPageVars   == <<padEnabled, activeJog, padMode, motionSequence, padLeft>>
padServerVars == <<driveEnabled, handled, jogMotion>>
padHistory    == <<lastVelocity, dropped>>
jogVars == <<padPageVars, velocities, offsets, padServerVars, padHistory>>

JogInit ==
    /\ driveEnabled \in BOOLEAN /\ padEnabled = FALSE
    /\ activeJog = 0 /\ padMode = "jog" /\ padLeft = FALSE
    /\ motionSequence = 0 /\ velocities = {} /\ offsets = 0
    /\ handled = 0 /\ jogMotion = 0
    /\ lastVelocity = 0 /\ dropped = FALSE

PadBound == motionSequence + offsets < MaxJogRequests
-----------------------------------------------------------------------------
(* sendJog, stopActiveJog, startJog *)

SendVelocity(v) ==
    /\ motionSequence' = motionSequence + 1
    /\ velocities' = velocities \cup {<<motionSequence + 1, v>>}
    /\ lastVelocity' = v /\ dropped' = FALSE

\* A button of the pad is pressed: an earlier one is replaced.
PressDirection(v) ==
    /\ padEnabled /\ ~padLeft /\ padMode = "jog" /\ PadBound
    /\ activeJog' = v
    /\ SendVelocity(v)
    /\ UNCHANGED <<padEnabled, padMode, padLeft, offsets, padServerVars>>

\* The interval of 250 ms.
JogHeartbeat ==
    /\ activeJog # 0 /\ PadBound
    /\ SendVelocity(activeJog)
    /\ UNCHANGED <<padEnabled, activeJog, padMode, padLeft, offsets, padServerVars>>

\* pointerup, pointercancel, blur or a lost capture; the stop button, which stops
\* whether a button is held or not, as the events of the connection do.
LiftDirection ==
    /\ activeJog # 0
    /\ activeJog' = 0
    /\ SendVelocity(0)
    /\ UNCHANGED <<padEnabled, padMode, padLeft, offsets, padServerVars>>

StopPad ==
    /\ PadBound
    /\ activeJog' = 0
    /\ SendVelocity(0)
    /\ UNCHANGED <<padEnabled, padMode, padLeft, offsets, padServerVars>>

\* updateDirectionMode.
ChangeMode ==
    /\ PadBound /\ ~padLeft
    /\ activeJog' = 0
    /\ SendVelocity(0)
    /\ padMode' = IF padMode = "jog" THEN "offset" ELSE "jog"
    /\ UNCHANGED <<padEnabled, padLeft, offsets, padServerVars>>

\* visibilitychange and pagehide.
LeavePad ==
    /\ ~padLeft /\ padLeft' = TRUE
    /\ activeJog' = 0
    /\ SendVelocity(0)
    /\ UNCHANGED <<padEnabled, padMode, offsets, padServerVars>>

ReturnToPad ==
    /\ padLeft /\ PadBound /\ padLeft' = FALSE
    /\ UNCHANGED <<padEnabled, activeJog, padMode, motionSequence, velocities, offsets,
                   padServerVars, padHistory>>

\* sendOffset; the answer carries a status.
PressOffset ==
    /\ padEnabled /\ ~padLeft /\ padMode = "offset" /\ PadBound
    /\ offsets' = offsets + 1
    /\ UNCHANGED <<padPageVars, velocities, padServerVars, padHistory>>

\* refreshStatus, answered and failed.
StatusComes ==
    /\ padEnabled # driveEnabled
    /\ padEnabled' = driveEnabled
    /\ UNCHANGED <<activeJog, padMode, motionSequence, padLeft, velocities, offsets,
                   padServerVars, padHistory>>

StatusFails ==
    /\ padEnabled' = FALSE
    /\ activeJog' = 0
    /\ dropped' = (dropped \/ activeJog # 0)
    /\ UNCHANGED <<padMode, motionSequence, padLeft, velocities, offsets, padServerVars,
                   lastVelocity>>
-----------------------------------------------------------------------------
(* The server, as the page sees it *)

\* api_velocity_command_motors: an old number is ignored, and a velocity is refused,
\* after its number was taken, if an axis is not enabled.  A command is also lost, or
\* refused for its age before its number is looked at.
HandleVelocity(r) ==
    /\ velocities' = velocities \ {r}
    /\ IF r[1] > handled
       THEN /\ handled' = r[1]
            /\ jogMotion' = IF r[2] = 0 \/ driveEnabled THEN r[2] ELSE jogMotion
       ELSE UNCHANGED <<handled, jogMotion>>
    /\ UNCHANGED <<padPageVars, offsets, driveEnabled, padHistory>>

LoseVelocity(r) ==
    /\ velocities' = velocities \ {r}
    /\ UNCHANGED <<padPageVars, offsets, padServerVars, padHistory>>

HandleOffset ==
    /\ offsets > 0 /\ offsets' = offsets - 1
    /\ jogMotion' = IF driveEnabled THEN MovedBy ELSE jogMotion
    /\ padEnabled' = IF driveEnabled THEN TRUE ELSE padEnabled
    /\ UNCHANGED <<activeJog, padMode, motionSequence, padLeft, velocities, driveEnabled,
                   handled, padHistory>>

LoseOffset ==
    /\ offsets > 0 /\ offsets' = offsets - 1
    /\ UNCHANGED <<padPageVars, velocities, padServerVars, padHistory>>

\* The dead-man, and the axes enabled or disabled from elsewhere.
JogExpires ==
    /\ jogMotion \in Directions
    /\ jogMotion' = 0
    /\ UNCHANGED <<padPageVars, velocities, offsets, driveEnabled, handled, padHistory>>

DrivesChange ==
    /\ driveEnabled' = ~driveEnabled
    /\ jogMotion' = IF driveEnabled THEN 0 ELSE jogMotion
    /\ UNCHANGED <<padPageVars, velocities, offsets, handled, padHistory>>
-----------------------------------------------------------------------------
PadSteps ==
    \/ \E v \in Directions : PressDirection(v)
    \/ JogHeartbeat \/ LiftDirection \/ StopPad \/ ChangeMode
    \/ LeavePad \/ ReturnToPad \/ PressOffset
    \/ StatusComes \/ StatusFails

PadServer ==
    \/ \E r \in velocities : HandleVelocity(r) \/ LoseVelocity(r)
    \/ HandleOffset \/ LoseOffset
    \/ JogExpires \/ DrivesChange

JogNext == PadSteps \/ PadServer

JogSpec == JogInit /\ [][JogNext]_jogVars
-----------------------------------------------------------------------------
JogTypeOK ==
    /\ padEnabled \in BOOLEAN /\ padLeft \in BOOLEAN
    /\ driveEnabled \in BOOLEAN /\ dropped \in BOOLEAN
    /\ padMode \in {"jog", "offset"}
    /\ activeJog \in Directions \cup {0} /\ lastVelocity \in Directions \cup {0}
    /\ jogMotion \in Directions \cup {0, MovedBy}
    /\ motionSequence \in Nat /\ handled \in 0..motionSequence /\ offsets \in Nat
    /\ velocities \subseteq (1..motionSequence) \X (Directions \cup {0})

\* The newest command of the page says what is held; what a failed status has dropped
\* is left to the dead-man (stopActiveJog(false)).
NewestSaysWhatIsHeld == dropped \/ lastVelocity = activeJog

\* Once the server has handled the newest command and it was a stop, no heartbeat that
\* is still on its way jogs the mount (motionSequence, JogCommandRegistry.arbitrate).
HandledStopHolds ==
    handled = motionSequence /\ lastVelocity = 0 => jogMotion \notin Directions

JogInv == JogTypeOK /\ NewestSaysWhatIsHeld /\ HandledStopHolds
=============================================================================
