------------------------------ MODULE PanelPages ------------------------------
(***************************************************************************)
(* The panels of the three dashboard pages that neither drive the mount    *)
(* nor feed the page.  Each is modelled in a module of its own from the    *)
(* desktop's script; the scripts of the classic page                       *)
(* (web/static/js/dashboard.js) and of the mobile page                     *)
(* (web/static/mobile/js/dashboard.js) hold copies of it, named here by    *)
(* the steps in which each part of a copy acts.                            *)
(*                                                                         *)
(* The panels share no state that these models keep, so a behaviour is one *)
(* of a single panel, chosen at the start; a step is one of whichever page *)
(* is open.                                                                *)
(***************************************************************************)
EXTENDS Reports, Charts, SkyView, MotionStatus, TuningForm, AutoTune, SystemSettings,
        UpdateCheck

VARIABLE panel   \* the panel that the behaviour is about; never changes

Panels == {"reports", "charts", "sky", "motion", "tuning", "auto", "settings", "updates"}
panelVars == <<panel, reportVars, chartVars, skyVars, motionVars, tuningVars, autoVars,
               settingsVars, updateVars>>

Series == SeriesNames \cup {Default}
Typing == \E i \in Inputs, v \in Texts : Edit(i, v)
Save == \E kind \in SubmitKinds \cap Saves : SubmitForm(kind)
ApplyEnds == \E r \in applies : ApplyOk(r) \/ ApplyFailed(r)
-----------------------------------------------------------------------------
(* The classic page *)

ClassicNetworkReport  ==
    \E t \in Tabs \cap {"internet"} : Answer(t) \/ \E c \in Series : Select(t, c)
ClassicPowerSelector  == \E t \in Tabs \cap {"power"}, c \in Series : Select(t, c)
ClassicReportLoader   == \E t \in Tabs : Finish(t)
ClassicReportFetch    ==
    SuspendReports \/ ResumeReports \/ \E t \in Tabs : Headers(t) \/ LoadFails(t)
ClassicReportAnswers  == ReportAnswers
ClassicReportTabs     == \E t \in Tabs : OpenReportTab(t)
ClassicReportTimers   == ReportTimer
ClassicViewMode       == ShowReports(TRUE) \/ ShowReports(FALSE)

ClassicNetworkChart == DrawNetworkReport
ClassicPowerChart   == DrawPowerReport
ClassicHealthChart  == DrawHealthReport(TRUE) \/ DrawHealthReport(FALSE)
ClassicCurrentChart == DrawCurrentReport
ClassicLiveChart    == LiveDrawings

ClassicSky       == RenderSky
ClassicSkyGrid   == RenderSky /\ skyFrame'.grid # skyFrame.grid
ClassicSkyBand   == RenderSky /\ skyFrame'.inner # skyFrame.inner
ClassicSkySide   == RenderSky /\ skyFrame'.sweep # skyFrame.sweep
ClassicSkyClick  == \E d \in ClickDistances, az \in ClickAzimuths : SkyClick(d, az)
ClassicSkyTarget == \E p \in TypedAngles : Type(Angles(p[1], p[2]))
ClassicSkyMarker == ClassicSkyTarget /\ skyFrame'.marker # skyFrame.marker
ClassicSkySubmit == SkySubmit

ClassicMotionLabel == ShowMotion

ClassicTuningInputs    == RenderTuning
ClassicTuningListeners == Typing
ClassicTuningApply     == ApplyEnds \/ \E kind \in SubmitKinds \ Saves : SubmitForm(kind)
ClassicTuningSave      == Save \/ \E r \in applies : FlashEnds(r)
ClassicAutoApply       == TimerFires
ClassicTuneResult      == TuningResults

ClassicTuneRange   == OpenAutoTune \/ TypeRange
ClassicTuneStored  == OpenAutoTune
ClassicTuneSubmit  == \E a \in TuneAxes : SubmitAuto(a)
ClassicTunePayload == ClassicTuneSubmit /\ runs' # runs
ClassicTuneRun     == ClassicTunePayload \/ \E r \in runs : RunEnds(r) \/ LoseRun(r)
ClassicTuneStop    == (ClassicTuneSubmit /\ stops' # stops) \/ \E s \in stops : LoseStop(s)

ClassicSettingsPanel == AwaitSettings \/ CloseSettings \/ \E g \in gets : FillAwaited(g)
ClassicSettingsSave  == SendSettings("save") \/ SettingsSent
ClassicSettingsLoad  == \E g \in gets : LoadDone(g)
ClassicSettingsReset == LoadSettings \/ RestartServer
ClassicSettingsSteps == SetStep \/ StepTimerFires

ClassicSystemInfo    == \E l \in infos : InfoAnswer(l)
ClassicUpdatePolling == PollUpdate
ClassicUpdateCheck   == ClickCheck \/ CheckSent \/ OnceFires
-----------------------------------------------------------------------------
(* The mobile page: the same text, so its parts are those of the classic page. *)

MobileNetworkReport == ClassicNetworkReport
MobilePowerSelector == ClassicPowerSelector
MobileReportLoader  == ClassicReportLoader
MobileReportFetch   == ClassicReportFetch
MobileReportAnswers == ClassicReportAnswers
MobileReportTabs    == ClassicReportTabs
MobileReportTimers  == ClassicReportTimers
MobileViewMode      == ClassicViewMode

MobileReports ==
    \/ MobileNetworkReport \/ MobilePowerSelector \/ MobileReportAnswers
    \/ MobileReportLoader \/ MobileReportFetch
    \/ MobileReportTabs \/ MobileReportTimers \/ MobileViewMode

MobileNetworkChart == ClassicNetworkChart
MobilePowerChart   == ClassicPowerChart
MobileHealthChart  == ClassicHealthChart
MobileCurrentChart == ClassicCurrentChart
MobileLiveChart    == ClassicLiveChart

MobileCharts ==
    \/ MobileNetworkChart \/ MobilePowerChart \/ MobileHealthChart
    \/ MobileCurrentChart \/ MobileLiveChart

MobileSky       == ClassicSky
MobileSkyGrid   == ClassicSkyGrid
MobileSkyBand   == ClassicSkyBand
MobileSkySide   == ClassicSkySide
MobileSkyClick  == ClassicSkyClick
MobileSkyTarget == ClassicSkyTarget
MobileSkyMarker == ClassicSkyMarker
MobileSkySubmit == ClassicSkySubmit

MobileSkyView ==
    \/ MobileSky \/ MobileSkyGrid \/ MobileSkyBand \/ MobileSkySide
    \/ MobileSkyMarker \/ MobileSkyClick \/ MobileSkyTarget \/ MobileSkySubmit

MobileMotionLabel == ClassicMotionLabel

MobileTuningInputs    == ClassicTuningInputs
MobileTuningListeners == ClassicTuningListeners
MobileTuningApply     == ClassicTuningApply
MobileTuningSave      == ClassicTuningSave
MobileAutoApply       == ClassicAutoApply
MobileTuneResult      == ClassicTuneResult

MobileTuning ==
    \/ MobileTuningInputs \/ MobileTuningListeners
    \/ MobileTuningApply \/ MobileTuningSave
    \/ MobileAutoApply \/ MobileTuneResult

MobileTuneRange   == ClassicTuneRange
MobileTuneStored  == ClassicTuneStored
MobileTuneSubmit  == ClassicTuneSubmit
MobileTunePayload == ClassicTunePayload
MobileTuneRun     == ClassicTuneRun
MobileTuneStop    == ClassicTuneStop

MobileAutoTune ==
    \/ MobileTuneRange \/ MobileTuneStored \/ MobileTuneSubmit
    \/ MobileTunePayload \/ MobileTuneRun \/ MobileTuneStop

MobileSettingsPanel == ClassicSettingsPanel
MobileSettingsSave  == ClassicSettingsSave
MobileSettingsLoad  == ClassicSettingsLoad
MobileSettingsReset == ClassicSettingsReset
MobileSettingsSteps == ClassicSettingsSteps

MobileSettings ==
    /\ waits
    /\ \/ MobileSettingsPanel \/ MobileSettingsSave \/ MobileSettingsLoad
       \/ MobileSettingsReset \/ MobileSettingsSteps

MobileSystemInfo    == ClassicSystemInfo
MobileUpdatePolling == ClassicUpdatePolling
MobileUpdateCheck   == ClassicUpdateCheck

MobileUpdate == MobileSystemInfo \/ MobileUpdatePolling \/ MobileUpdateCheck
-----------------------------------------------------------------------------
(* A behaviour of one panel *)

PanelsInit ==
    /\ panel \in Panels
    /\ ReportsInit
    /\ ChartsInit
    /\ SkyInit
    /\ MotionInit
    /\ TuningInit
    /\ AutoInit
    /\ SettingsInit
    /\ UpdateInit
    /\ panel # "auto" => tuneRange = NoRange
    /\ panel # "settings" => ~waits /\ storedSettings = CHOOSE v \in Contents : TRUE
    /\ panel # "updates" => updater = "waiting"

ReportsPanelNext ==
    /\ panel = "reports"
    /\ ReportsNext \/ MobileReports
    /\ UNCHANGED <<panel, chartVars, skyVars, motionVars, tuningVars,
                   autoVars, settingsVars, updateVars>>
ChartsPanelNext ==
    /\ panel = "charts"
    /\ ChartsNext \/ MobileCharts
    /\ UNCHANGED <<panel, reportVars, skyVars, motionVars, tuningVars,
                   autoVars, settingsVars, updateVars>>
SkyPanelNext ==
    /\ panel = "sky"
    /\ SkyNext \/ MobileSkyView
    /\ UNCHANGED <<panel, reportVars, chartVars, motionVars, tuningVars,
                   autoVars, settingsVars, updateVars>>
MotionStatusPanelNext ==
    /\ panel = "motion"
    /\ MotionStatusNext \/ MobileMotionLabel
    /\ UNCHANGED <<panel, reportVars, chartVars, skyVars, tuningVars,
                   autoVars, settingsVars, updateVars>>
TuningPanelNext ==
    /\ panel = "tuning"
    /\ TuningNext \/ MobileTuning
    /\ UNCHANGED <<panel, reportVars, chartVars, skyVars, motionVars,
                   autoVars, settingsVars, updateVars>>
AutoPanelNext ==
    /\ panel = "auto"
    /\ AutoNext \/ MobileAutoTune
    /\ UNCHANGED <<panel, reportVars, chartVars, skyVars, motionVars,
                   tuningVars, settingsVars, updateVars>>
SettingsPanelNext ==
    /\ panel = "settings"
    /\ SettingsNext \/ MobileSettings
    /\ UNCHANGED <<panel, reportVars, chartVars, skyVars, motionVars,
                   tuningVars, autoVars, updateVars>>
UpdatePanelNext ==
    /\ panel = "updates"
    /\ UpdateNext \/ MobileUpdate
    /\ UNCHANGED <<panel, reportVars, chartVars, skyVars, motionVars,
                   tuningVars, autoVars, settingsVars>>

PanelPagesNext ==
    \/ ReportsPanelNext \/ ChartsPanelNext \/ SkyPanelNext \/ MotionStatusPanelNext
    \/ TuningPanelNext \/ AutoPanelNext \/ SettingsPanelNext \/ UpdatePanelNext

PanelPagesSpec ==
    /\ PanelsInit /\ [][PanelPagesNext]_panelVars
    /\ ReportsFairness /\ UpdateFairness

\* What a panel waits for comes to an end: no report waits for its headers for ever, and
\* the button of the update check is enabled again (fetchReport, startUpdateStatusPolling).
PanelsAnswered == ReportRequestsEnd /\ ButtonComesBack
=============================================================================
