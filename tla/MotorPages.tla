----------------------------- MODULE MotorPages -----------------------------
(***************************************************************************)
(* The motion controls on the three dashboard pages.  MotorPanel is        *)
(* written from the desktop's; the classic page                            *)
(* (web/static/js/dashboard.js) and the mobile page                        *)
(* (web/static/mobile/js/dashboard.js) have copies of its handlers, named  *)
(* here by the actions that each of them performs.  Neither has the offset *)
(* button, and neither stamps its velocities with their age (which, on the *)
(* desktop, may make the server refuse one: SettleJog).                    *)
(*                                                                         *)
(* A step is one of whichever page is open.  The copies are named by the   *)
(* desktop's own actions, so that they add no step is a matter of how they *)
(* are written down here; what it rests on is the reading of the scripts.  *)
(***************************************************************************)
EXTENDS MotorPanel

AxisJog  == \E a \in Axes, v \in Speeds : PressJog(a, v)
AxisHold == \E h \in holds : h.kind = "axis" /\ (Heartbeat(h) \/ Release({h}))
Pad      == \/ \E v \in PadVectors : PressPad(v)
            \/ \E h \in holds : h.kind = "pad" /\ (Heartbeat(h) \/ Release({h}))
AxisStop == \E a \in Axes : PressStop({a})
MotorCommand  == \E kind \in Kinds : Click(kind, Axes)
AxisCommand   == \E kind \in Kinds, a \in Axes : Click(kind, {a})
SineCommand   == \E kind \in {"move", "stop"}, a \in Axes : Click(kind, {a})
CommandEnds   == \E c \in commands : Settle(c)
EscapeGoesOn  == \E c \in commands : EscapeDisable(c) \/ EscapeDone(c)
-----------------------------------------------------------------------------
(* The classic page *)

ClassicAxisJog      == AxisJog \/ AxisHold
ClassicJogRequest   == AxisStop
ClassicPad          == Pad \/ PressStop(Axes)
ClassicMotorCommand == MotorCommand \/ CommandEnds
ClassicAxisCommand  == AxisCommand
ClassicSineCommand  == SineCommand
ClassicEmergency    == EscapeGoesOn
ClassicEscape       == Escape
ClassicLeave        == Hide \/ Release(holds)
ClassicVisibility   == Hide \/ Show
ClassicArmed        == RenderArmed
-----------------------------------------------------------------------------
(* The mobile page: the same text, so its parts are those of the classic page. *)

MobileAxisJog      == ClassicAxisJog
MobileJogRequest   == ClassicJogRequest
MobilePad          == ClassicPad
MobileMotorCommand == ClassicMotorCommand
MobileAxisCommand  == ClassicAxisCommand
MobileSineCommand  == ClassicSineCommand
MobileEmergency    == ClassicEmergency
MobileEscape       == ClassicEscape
MobileLeave        == ClassicLeave
MobileVisibility   == ClassicVisibility
MobileArmed        == ClassicArmed

MobileMotor ==
    \/ MobileAxisJog \/ MobileJogRequest \/ MobilePad
    \/ MobileMotorCommand \/ MobileAxisCommand \/ MobileSineCommand
    \/ MobileEmergency \/ MobileEscape
    \/ MobileLeave \/ MobileVisibility \/ MobileArmed
-----------------------------------------------------------------------------
MotorPagesNext == MotorNext \/ MobileMotor

MotorPagesSpec == MotorInit /\ [][MotorPagesNext]_vars /\ MotorFairness
=============================================================================
