---------------------------- MODULE MotionStatus ----------------------------
(***************************************************************************)
(* The motion state that a dashboard page shows for an axis, decided from  *)
(* the fields of a status, and its log of position moves that timed out    *)
(* (web/static/desktop/js/dashboard.js).                                   *)
(***************************************************************************)
EXTENDS Integers, FiniteSets, Sequences

CONSTANTS Degrees,      \* <<target, position>> pairs of an axis, in degrees
          NoDegrees,    \* null
          MaxMoves,     \* bound: software position moves
          TimeoutsKept  \* size of loggedPositionTimeouts (100 in the code)

ASSUME MotionStatusAssumption ==
    /\ Degrees \subseteq Int \X Int /\ NoDegrees \in Int
    \* The range of the mount: signedDegreeDelta is wrong for an altitude beyond it.
    /\ \A d \in Degrees : d[2] # NoDegrees => d[2] <= (d[1] % 360) + 540
    /\ MaxMoves \in Nat /\ TimeoutsKept \in Nat \ {0}

VARIABLES
    move,      \* server: the software position move: number and phase
    motionShown, \* the label of the status rendered last, and (history) its phase, whether
               \* the axis was driven in closed loop and whether it was on its target
    reported,  \* loggedPositionTimeouts, oldest first
    warnings   \* moves whose time-out was logged

motionVars == <<move, motionShown, reported, warnings>>

Phases == {"none", "moving", "reached", "timeout"}
AxisKinds == {"Azimuth", "Altitude"}
NothingShown == [label |-> "--", phase |-> "none", driven |-> FALSE, there |-> FALSE]

MotionInit ==
    /\ move = [number |-> 0, phase |-> "none"]
    /\ motionShown = NothingShown /\ reported = <<>> /\ warnings = <<>>

\* The server: a move starts, ends, or is cancelled by any other motion command.
StartMove ==
    /\ move.number < MaxMoves
    /\ move' = [number |-> move.number + 1, phase |-> "moving"]
    /\ UNCHANGED <<motionShown, reported, warnings>>
EndMove ==
    /\ move.phase # "none"
    /\ move' \in {[move EXCEPT !.phase = p] :
                    p \in IF move.phase = "moving" THEN {"none", "reached", "timeout"} ELSE {"none"}}
    /\ UNCHANGED <<motionShown, reported, warnings>>
-----------------------------------------------------------------------------
\* The remainder has the sign of the number that is divided.
Remainder(x, n) == IF x < 0 THEN -((-x) % n) ELSE x % n

\* The distance to the target: the short way round for the altitude (signedDegreeDelta).
Distance(axis, target, position) ==
    LET straight == target - position
        round == Remainder((target % 360) - position + 540, 360) - 180
        d == IF axis = "Azimuth" THEN straight ELSE round
    IN  IF d < 0 THEN -d ELSE d

\* axisMotionState.  The three speeds are above VELOCITY_REACHED_TOLERANCE or not; a
\* distance of zero is within POSITION_REACHED_TOLERANCE.
AnglesKnown(s) == s.target # NoDegrees /\ s.position # NoDegrees
Moves(s) == s.command \/ s.setpoint \/ s.actual

LabelIgnoringSetpoint(s) ==                 \* mutant: only the measured speed counts
    CASE ~s.available -> "--"
      [] s.phase = "timeout" -> "Timeout"
      [] ~s.armed -> "Idle"
      [] s.sine -> "Sine Test"
      [] s.phase = "moving" -> "Slewing"
      [] s.phase = "reached" -> "Reached"
      [] s.velocityMode -> IF s.actual THEN "Slewing" ELSE "Ready"
      [] s.done -> IF AnglesKnown(s) /\ Distance(s.axis, s.target, s.position) = 0 /\ ~s.actual
                   THEN "Reached" ELSE "Settling"
      [] OTHER -> IF AnglesKnown(s) THEN "Moving" ELSE "Ready"

MotionLabel(s) ==
    CASE ~s.available -> "--"
      [] s.phase = "timeout" -> "Timeout"
      [] ~s.armed -> "Idle"
      [] s.sine -> "Sine Test"
      [] s.phase = "moving" -> "Slewing"
      [] s.phase = "reached" -> "Reached"
      [] s.velocityMode -> IF Moves(s) THEN "Slewing" ELSE "Ready"
      [] s.done -> IF AnglesKnown(s) /\ Distance(s.axis, s.target, s.position) = 0 /\ ~s.actual
                   THEN "Reached" ELSE "Settling"
      [] OTHER -> IF AnglesKnown(s) THEN "Moving" ELSE "Ready"

\* logPositionTimeout: the event's key is the start of the move, and the set forgets
\* its oldest key.
LogPositionTimeout(number) ==
    IF \E i \in DOMAIN reported : reported[i] = number THEN UNCHANGED <<reported, warnings>>
    ELSE LET all == Append(reported, number) IN
         /\ reported' = IF Len(all) > TimeoutsKept THEN Tail(all) ELSE all
         /\ warnings' = Append(warnings, number)

\* On its target: to a whole turn for the altitude.
OnTarget(s) ==
    /\ AnglesKnown(s) /\ ~s.actual
    /\ IF s.axis = "Altitude" THEN (s.target - s.position) % 360 = 0 ELSE s.target = s.position

\* renderMotionStatus and the log, for a status that reaches the page.
ShowMotion ==
    \E available, armed, sine, velocityMode, command, setpoint, actual, done \in BOOLEAN,
       axis \in AxisKinds, pair \in Degrees :
       LET s == [available |-> available, armed |-> armed, phase |-> move.phase, sine |-> sine,
                 velocityMode |-> velocityMode, command |-> command, setpoint |-> setpoint,
                 actual |-> actual, done |-> done, axis |-> axis, target |-> pair[1],
                 position |-> pair[2]]
       IN  /\ motionShown' = [label |-> MotionLabel(s), phase |-> move.phase,
                        driven |-> available /\ armed /\ Moves(s) /\ (velocityMode \/ AnglesKnown(s)),
                        there |-> OnTarget(s)]
           /\ IF move.phase = "timeout" THEN LogPositionTimeout(move.number)
              ELSE UNCHANGED <<reported, warnings>>
           /\ UNCHANGED move

MotionStatusNext == StartMove \/ EndMove \/ ShowMotion
-----------------------------------------------------------------------------
MotionTypeOK ==
    /\ move.number \in 0..MaxMoves /\ move.phase \in Phases
    /\ Len(reported) <= TimeoutsKept

\* An axis that is in closed loop and turns, or is told to, is never shown as idle
\* or ready, while its position and target are known (axisMotionState).
TurningIsNotReady == motionShown.driven => motionShown.label \notin {"Ready", "Idle"}

\* Without a move of the server's position loop, "Reached" means that the axis rests
\* on its target, and "Settling" that it does not (axisMotionState).
ReachedPointsThere ==
    motionShown.phase = "none" =>
        /\ motionShown.label = "Reached" => motionShown.there
        /\ motionShown.label = "Settling" => ~motionShown.there

\* A move that timed out is logged once, however many statuses carry it and whatever
\* moves follow (logPositionTimeout).
TimeoutLoggedOnce ==
    \A i, j \in DOMAIN warnings : warnings[i] = warnings[j] => i = j

\* The label of an axis agrees with what the status says of its motion, and a move
\* that timed out is logged once (axisMotionState, logPositionTimeout).
MotionStatusInv ==
    /\ MotionTypeOK
    /\ TurningIsNotReady
    /\ ReachedPointsThere
    /\ TimeoutLoggedOnce
=============================================================================
