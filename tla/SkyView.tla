------------------------------ MODULE SkyView ------------------------------
(***************************************************************************)
(* The horizon view: a polar map of the sky on which the mount, the motion *)
(* limits and a target are drawn, a click selects a target, and a form     *)
(* sends it (web/static/desktop/js/dashboard.js).                          *)
(*                                                                         *)
(* The map shows altitudes from -60 to 90 degrees; with Scale pixels per   *)
(* degree an altitude is an integer number of pixels, so that the map and  *)
(* its inverse are exact.  Azimuths are in degrees.                        *)
(***************************************************************************)
EXTENDS Integers, FiniteSets, FiniteSetsExt

CONSTANTS Scale,           \* pixels per degree of altitude
          InnerGap,        \* radius of the zenith: outerGapRatio * radius
          Unset,           \* null
          LimitChoices,    \* motion limits of the settings
          ClickDistances,  \* pixels from the centre
          ClickAzimuths,   \* directions of a click
          TypedAngles      \* <<azimuth, altitude>> pairs typed into the form

ASSUME SkyViewAssumption ==
    /\ Scale \in Nat \ {0} /\ InnerGap \in Nat
    /\ Unset \in Int
    /\ ClickDistances \subseteq Nat /\ ClickAzimuths \subseteq 0..359
    /\ LimitChoices \subseteq [ccw : Int, cw : Int, lower : Int, upper : Int]
    /\ TypedAngles \subseteq Int \X Int

VARIABLES
    skyLimits,   \* appSettings.motion_limits
    side,        \* skySelectedAzimuthSide of the last status
    skyForm,     \* the target inputs
    skyTarget,   \* selectedSkyTarget
    skyMessage,  \* class of skyTargetMessage
    skyFrame,    \* what the canvas shows
    skySent,     \* the targets sent and not yet superseded: the last goto
    clicked      \* history: the click that selected the target, or NoClick

skyVars == <<skyLimits, side, skyForm, skyTarget, skyMessage, skyFrame, skySent, clicked>>

HitPadding == 2
VisibleMinimum == -60 * Scale
VisibleMaximum == 90 * Scale
SkyRadiusMax == InnerGap + VisibleMaximum - VisibleMinimum

Clamp(a) == Max({VisibleMinimum, Min({VisibleMaximum, a})})
NormalizeDegrees(a) == a % 360
NormalizeSignedDegrees(a) == IF a % 360 > 180 THEN (a % 360) - 360 ELSE a % 360

\* skyAltitudeRadius, and skyAltitudeFromRadius.
SkyAltitudeRadius(a) == InnerGap + VisibleMaximum - Clamp(a)
AltitudeFromRadiusNoGap(d) == Clamp(VisibleMaximum - Min({d, SkyRadiusMax}))     \* mutant
SkyAltitudeFromRadius(d) == Clamp(VisibleMaximum - (Min({d, SkyRadiusMax}) - InnerGap))

Angles(az, alt) == [azimuth |-> az, altitude |-> alt]
NoTarget == Angles(Unset, Unset)
NoClick == [azimuth |-> Unset, distance |-> Unset]
NoLimits == [ccw |-> Unset, cw |-> Unset, lower |-> Unset, upper |-> Unset]

LowerEdge(l) == IF l.lower = Unset THEN VisibleMinimum ELSE l.lower
UpperEdge(l) == IF l.upper = Unset THEN VisibleMaximum ELSE l.upper
SelectedLimit(l, s) == IF s = "ccw" THEN l.ccw ELSE l.cw
-----------------------------------------------------------------------------
(* Drawing *)

\* skyAzimuthGridValues: multiples of 30 degrees between the limits, and the limits.
GridValues(l) ==
    IF l.ccw = Unset \/ l.cw = Unset THEN {30 * i : i \in 0..11}
    ELSE {NormalizeDegrees(a) : a \in {x \in l.ccw..l.cw : x % 30 = 0} \cup {l.ccw, l.cw}}

\* The sector of the band: from zero to the limit of the selected side.
Sweep(l, s) ==
    IF SelectedLimit(l, s) # Unset THEN SelectedLimit(l, s)
    ELSE IF s = "ccw" THEN -360 ELSE 360

\* drawSkyTargetMarker.
Marker(target) ==
    IF target = NoTarget THEN NoClick
    ELSE [azimuth |-> NormalizeDegrees(target.azimuth),
          distance |-> SkyAltitudeRadius(target.altitude)]

\* drawSkySphere.
Frame(l, s, target) ==
    [inner |-> SkyAltitudeRadius(UpperEdge(l)), outer |-> SkyAltitudeRadius(LowerEdge(l)),
     sweep |-> Sweep(l, s), grid |-> GridValues(l), marker |-> Marker(target)]

SkyInit ==
    /\ skyLimits = NoLimits /\ side = "cw"
    /\ skyForm = NoTarget /\ skyTarget = NoTarget /\ skyMessage = ""
    /\ skyFrame = Frame(NoLimits, "cw", NoTarget)
    /\ skySent = NoTarget /\ clicked = NoClick

\* renderSkySphere, from a status that carries the sensors of the azimuth.
RenderSky ==
    /\ \E ccw, cw \in BOOLEAN : side' = IF ccw /\ ~cw THEN "ccw" ELSE "cw"
    /\ skyFrame' = Frame(skyLimits, side', skyTarget)
    /\ UNCHANGED <<skyLimits, skyForm, skyTarget, skyMessage, skySent, clicked>>

\* loadAppSettings: the limits of the server, or none when the request fails.
LoadLimits ==
    /\ skyLimits' \in LimitChoices \cup {NoLimits}
    /\ UNCHANGED <<side, skyForm, skyTarget, skyMessage, skyFrame, skySent, clicked>>
-----------------------------------------------------------------------------
(* Selecting a target *)

\* skyAzimuthWithinLimitSweep: from zero to the limit, whichever its sign.
WithinLimitSweep(az, limit) ==
    /\ limit # Unset
    /\ IF limit >= 0 THEN az <= NormalizeDegrees(limit)
       ELSE LET signed == IF az > 180 THEN az - 360 ELSE az IN limit <= signed /\ signed <= 0

\* skyPointerWithinMotionArea.
WithinMotionArea(d, az) ==
    /\ d >= SkyAltitudeRadius(UpperEdge(skyLimits)) - HitPadding
    /\ d <= SkyAltitudeRadius(LowerEdge(skyLimits)) + HitPadding
    /\ \/ skyLimits.ccw = Unset /\ skyLimits.cw = Unset
       \/ WithinLimitSweep(az, skyLimits.cw)
       \/ WithinLimitSweep(az, skyLimits.ccw)

\* validateSkyPositionTarget.
Allowed(t, l) ==
    /\ l.ccw = Unset \/ t.azimuth >= l.ccw
    /\ l.cw = Unset \/ t.azimuth <= l.cw
    /\ l.lower = Unset \/ t.altitude >= l.lower
    /\ l.upper = Unset \/ t.altitude <= l.upper

\* fillSkyGotoFromMapClick with skyTargetFromPointerEvent.
SkyClick(d, az) ==
    IF WithinMotionArea(d, az)
    THEN LET target == Angles(NormalizeSignedDegrees(az), SkyAltitudeFromRadius(d)) IN
         /\ skyTarget' = target /\ skyForm' = target
         /\ skyMessage' = ""
         /\ skyFrame' = Frame(skyLimits, side, target)
         /\ clicked' = [azimuth |-> az, distance |-> d]
         /\ UNCHANGED <<skyLimits, side, skySent>>
    ELSE /\ skyMessage' = "error"
         /\ UNCHANGED <<skyLimits, side, skyForm, skyTarget, skyFrame, skySent, clicked>>

\* toNumber: an empty input is the number 0, so neither the "Enter both" branch of
\* updateSkyTargetFromInputs nor that of the submit listener is ever taken.
Number(x) == IF x = Unset THEN 0 ELSE x
Numbers(t) == Angles(Number(t.azimuth), Number(t.altitude))

\* updateSkyTargetFromInputs, with updateSkyTargetMessageForLimits: an input typed
\* into, or the button that fills in the actual position.
Type(t) ==
    /\ skyForm' = t
    /\ skyTarget' = Numbers(t)
    /\ skyMessage' = IF ~Allowed(Numbers(t), skyLimits) THEN "error"
                     ELSE IF Clamp(Number(t.altitude)) # Number(t.altitude) THEN "warning" ELSE ""
    /\ skyFrame' = Frame(skyLimits, side, skyTarget')
    /\ clicked' = NoClick
    /\ UNCHANGED <<skyLimits, side, skySent>>

\* The submit listener of the form: the payload is the text of the inputs, and the
\* server leaves an axis with an empty one alone.
SubmitUnlessMarked ==                       \* mutant: the message is taken for the check
    /\ skyMessage # "error"
    /\ skySent' = skyForm
    /\ UNCHANGED <<skyLimits, side, skyForm, skyTarget, skyMessage, skyFrame, clicked>>

SkySubmit ==
    /\ IF Allowed(Numbers(skyForm), skyLimits)
       THEN skySent' = skyForm /\ UNCHANGED skyMessage
       ELSE skyMessage' = "error" /\ UNCHANGED skySent
    /\ UNCHANGED <<skyLimits, side, skyForm, skyTarget, skyFrame, clicked>>
-----------------------------------------------------------------------------
SkyDrawing == RenderSky \/ LoadLimits
SkySelecting ==
    \/ \E d \in ClickDistances, az \in ClickAzimuths : SkyClick(d, az)
    \/ \E p \in TypedAngles : Type(Angles(p[1], p[2]))
SkyNext == SkyDrawing \/ SkySelecting \/ SkySubmit

SkyTypeOK ==
    /\ skyLimits \in LimitChoices \cup {NoLimits}
    /\ side \in {"ccw", "cw"} /\ skyMessage \in {"", "warning", "error"}
    /\ skyFrame.marker = NoClick \/ skyFrame.marker.distance \in InnerGap..SkyRadiusMax

\* The marker of a clicked target lies under the pointer, up to the padding: the map
\* and its inverse agree (skyAltitudeRadius, skyAltitudeFromRadius).
MarkerUnderPointer ==
    (clicked # NoClick /\ skyFrame.marker # NoClick) =>
        /\ skyFrame.marker.azimuth = clicked.azimuth
        /\ skyFrame.marker.distance - clicked.distance \in -HitPadding..HitPadding

\* The form and the marker are one target, however it was chosen: an angle that would
\* be sent is drawn (fillSkyGotoFromMapClick, updateSkyTargetFromInputs).
MarkerIsTheForm ==
    /\ skyForm.azimuth \in {Unset, skyTarget.azimuth}
    /\ skyForm.altitude \in {Unset, skyTarget.altitude}

\* A click selects only what the band of one of the two sides covers, up to the
\* padding (skyPointerWithinMotionArea beside drawSkyAltitudeBand).
Covers(f, c) ==
    /\ c.distance \in (f.inner - HitPadding)..(f.outer + HitPadding)
    /\ \E turn \in {-360, 0} : IF f.sweep >= 0 THEN c.azimuth <= f.sweep
                              ELSE f.sweep <= c.azimuth + turn /\ c.azimuth + turn <= 0
ClicksWithinTheBand ==
    [][clicked' \notin {clicked, NoClick} =>
          \E s \in {"ccw", "cw"} : Covers(Frame(skyLimits, s, NoTarget), clicked')]_skyVars

\* Whatever was selected before the settings were loaded again, no axis is sent
\* beyond the limits that the page knows now (the form's submit listener).
SkyGotoWithinLimits ==
    [][skySent' # skySent => Allowed(Numbers(skySent'), skyLimits)]_skyVars

\* The pointer, the marker and the form are one target (the map of the horizon view
\* and its inverse).
SkyInv ==
    /\ SkyTypeOK
    /\ MarkerUnderPointer
    /\ MarkerIsTheForm

\* A target is selected on the map and sent to the mount only where the mount may go:
\* the map by its own test, the form by the limits.
SkyTargetsAllowed == ClicksWithinTheBand /\ SkyGotoWithinLimits
=============================================================================
