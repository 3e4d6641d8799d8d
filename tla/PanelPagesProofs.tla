-------------------------- MODULE PanelPagesProofs --------------------------
(***************************************************************************)
(* Proofs about the panels of the dashboard pages, for any bounds and any  *)
(* values of the constants.                                                *)
(*                                                                         *)
(* A step of PanelPages is one of a single panel, and those of the classic *)
(* and of the mobile page are among the desktop's, so each panel's         *)
(* invariant is proved from the next-state relation of its own module.     *)
(***************************************************************************)
EXTENDS PanelPages, FiniteSetTheorems, SequenceTheorems, WellFoundedInduction, TLAPS

-----------------------------------------------------------------------------
(* The pages' copies of a panel add no step to it *)

LEMMA ReportsPages == PanelPagesNext => ReportsNext \/ UNCHANGED reportVars
<1>1. MobileReports => ReportsNext
  <2>1. MobileNetworkReport => ReportAnswers \/ ReportSelectors
    BY DEF MobileNetworkReport, ClassicNetworkReport, Series, ReportAnswers, ReportSelectors
  <2>2. MobilePowerSelector => ReportSelectors
    BY DEF MobilePowerSelector, ClassicPowerSelector, Series, ReportSelectors
  <2>3. MobileReportLoader \/ MobileReportFetch \/ MobileReportTabs => ReportLoading
    BY DEF MobileReportLoader, MobileReportFetch, MobileReportTabs, ClassicReportLoader,
           ClassicReportFetch, ClassicReportTabs, ReportLoading
  <2>4. MobileReportTimers \/ MobileViewMode => ReportViewing
    BY DEF MobileReportTimers, MobileViewMode, ClassicReportTimers, ClassicViewMode,
           ReportViewing
  <2>5. MobileReportAnswers => ReportAnswers
    BY DEF MobileReportAnswers, ClassicReportAnswers
  <2>6. QED
    BY <2>1, <2>2, <2>3, <2>4, <2>5 DEF MobileReports, ReportsNext
<1>2. QED
    BY <1>1 DEF PanelPagesNext, ReportsPanelNext, ChartsPanelNext, SkyPanelNext,
                MotionStatusPanelNext, TuningPanelNext, AutoPanelNext, SettingsPanelNext,
                UpdatePanelNext

LEMMA ChartsPages == PanelPagesNext => ChartsNext \/ UNCHANGED chartVars
<1>1. MobileCharts => ChartsNext
    BY DEF MobileCharts, MobileNetworkChart, MobilePowerChart, MobileHealthChart,
           MobileCurrentChart, MobileLiveChart, ClassicNetworkChart, ClassicPowerChart,
           ClassicHealthChart, ClassicCurrentChart, ClassicLiveChart, ChartsNext, ReportDrawings
<1>2. QED
    BY <1>1 DEF PanelPagesNext, ReportsPanelNext, ChartsPanelNext, SkyPanelNext,
                MotionStatusPanelNext, TuningPanelNext, AutoPanelNext, SettingsPanelNext,
                UpdatePanelNext

LEMMA SkyPages == PanelPagesNext => SkyNext \/ UNCHANGED skyVars
<1>1. MobileSky \/ MobileSkyGrid \/ MobileSkyBand \/ MobileSkySide => SkyDrawing
    BY DEF MobileSky, MobileSkyGrid, MobileSkyBand, MobileSkySide, ClassicSky, ClassicSkyGrid,
           ClassicSkyBand, ClassicSkySide, SkyDrawing
<1>2. MobileSkyMarker \/ MobileSkyClick \/ MobileSkyTarget => SkySelecting
    BY DEF MobileSkyMarker, MobileSkyClick, MobileSkyTarget, ClassicSkyMarker, ClassicSkyClick,
           ClassicSkyTarget, SkySelecting
<1>3. MobileSkyView => SkyNext
    BY <1>1, <1>2 DEF MobileSkyView, MobileSkySubmit, ClassicSkySubmit, SkyNext
<1>4. QED
    BY <1>3 DEF PanelPagesNext, ReportsPanelNext, ChartsPanelNext, SkyPanelNext,
                MotionStatusPanelNext, TuningPanelNext, AutoPanelNext, SettingsPanelNext,
                UpdatePanelNext

LEMMA TuningPages == PanelPagesNext => TuningNext \/ UNCHANGED tuningVars
<1>1. MobileTuningInputs \/ MobileTuningListeners \/ MobileAutoApply => TuningEdits
    BY DEF MobileTuningInputs, MobileTuningListeners, MobileAutoApply, ClassicTuningInputs,
           ClassicTuningListeners, ClassicAutoApply, Typing, TuningEdits
<1>2. MobileTuningApply \/ MobileTuningSave => TuningRequests
    BY DEF MobileTuningApply, MobileTuningSave, ClassicTuningApply, ClassicTuningSave,
           ApplyEnds, Save, TuningRequests
<1>3. MobileTuning => TuningNext
    BY <1>1, <1>2 DEF MobileTuning, MobileTuneResult, ClassicTuneResult, TuningNext
<1>4. QED
    BY <1>3 DEF PanelPagesNext, ReportsPanelNext, ChartsPanelNext, SkyPanelNext,
                MotionStatusPanelNext, TuningPanelNext, AutoPanelNext, SettingsPanelNext,
                UpdatePanelNext

LEMMA MotionStatusPages == PanelPagesNext => MotionStatusNext \/ UNCHANGED motionVars
    BY DEF PanelPagesNext, ReportsPanelNext, ChartsPanelNext, SkyPanelNext,
           MotionStatusPanelNext, TuningPanelNext, AutoPanelNext, SettingsPanelNext,
           UpdatePanelNext, MobileMotionLabel, ClassicMotionLabel, MotionStatusNext

LEMMA AutoTunePages == PanelPagesNext => AutoNext \/ UNCHANGED autoVars
<1>1. MobileAutoTune => AutoNext
  <2>1. MobileTuneRange \/ MobileTuneStored => AutoPanel
    BY DEF MobileTuneRange, MobileTuneStored, ClassicTuneRange, ClassicTuneStored, AutoPanel
  <2>2. MobileTuneSubmit \/ MobileTunePayload \/ MobileTuneRun => AutoRun
    BY DEF MobileTuneSubmit, MobileTunePayload, MobileTuneRun, ClassicTuneSubmit,
           ClassicTunePayload, ClassicTuneRun, AutoRun
  <2>3. MobileTuneStop => AutoRun
    BY DEF MobileTuneStop, ClassicTuneStop, ClassicTuneSubmit, AutoRun
  <2>4. QED
    BY <2>1, <2>2, <2>3 DEF MobileAutoTune, AutoNext
<1>2. QED
    BY <1>1 DEF PanelPagesNext, ReportsPanelNext, ChartsPanelNext, SkyPanelNext,
                MotionStatusPanelNext, TuningPanelNext, AutoPanelNext, SettingsPanelNext,
                UpdatePanelNext

LEMMA SettingsPages == PanelPagesNext => SettingsNext \/ UNCHANGED settingsVars
<1>1. MobileSettings => SettingsNext
  <2>1. MobileSettingsPanel => SettingsPanel \/ SettingsLoads
    BY DEF MobileSettingsPanel, ClassicSettingsPanel, SettingsPanel, SettingsLoads
  <2>2. MobileSettingsSave => SettingsPosts
    BY DEF MobileSettingsSave, ClassicSettingsSave, SettingsPosts
  <2>3. MobileSettingsLoad => SettingsLoads
    BY DEF MobileSettingsLoad, ClassicSettingsLoad, SettingsLoads
  <2>4. MobileSettingsReset => SettingsLoads \/ SettingsServer
    BY DEF MobileSettingsReset, ClassicSettingsReset, SettingsLoads, SettingsServer
  <2>5. MobileSettingsSteps => SettingsPanel
    BY DEF MobileSettingsSteps, ClassicSettingsSteps, SettingsPanel
  <2>6. QED
    BY <2>1, <2>2, <2>3, <2>4, <2>5 DEF MobileSettings, SettingsNext
<1>2. QED
    BY <1>1 DEF PanelPagesNext, ReportsPanelNext, ChartsPanelNext, SkyPanelNext,
                MotionStatusPanelNext, TuningPanelNext, AutoPanelNext, SettingsPanelNext,
                UpdatePanelNext

LEMMA UpdatePages == PanelPagesNext => UpdateNext \/ UNCHANGED updateVars
<1>1. MobileUpdate => UpdateNext
    BY DEF MobileUpdate, MobileSystemInfo, MobileUpdatePolling, MobileUpdateCheck,
           ClassicSystemInfo, ClassicUpdatePolling, ClassicUpdateCheck, UpdatePage, UpdateNext
<1>2. QED
    BY <1>1 DEF PanelPagesNext, ReportsPanelNext, ChartsPanelNext, SkyPanelNext,
                MotionStatusPanelNext, TuningPanelNext, AutoPanelNext, SettingsPanelNext,
                UpdatePanelNext

\* On the other two pages the panels show no behaviour that the desktop's cannot show.
LEMMA PanelPagesAddNothing ==
    PanelPagesSpec => /\ [][ReportsNext]_reportVars
                      /\ [][ChartsNext]_chartVars
                      /\ [][SkyNext]_skyVars
                      /\ [][MotionStatusNext]_motionVars
                      /\ [][TuningNext]_tuningVars
                      /\ [][AutoNext]_autoVars
                      /\ [][SettingsNext]_settingsVars
                      /\ [][UpdateNext]_updateVars
<1>1. [PanelPagesNext]_panelVars => [ReportsNext]_reportVars
    BY ReportsPages DEF panelVars
<1>2. [PanelPagesNext]_panelVars => [ChartsNext]_chartVars
    BY ChartsPages DEF panelVars
<1>3. [PanelPagesNext]_panelVars => [SkyNext]_skyVars
    BY SkyPages DEF panelVars
<1>4. [PanelPagesNext]_panelVars => [MotionStatusNext]_motionVars
    BY MotionStatusPages DEF panelVars
<1>5. [PanelPagesNext]_panelVars => [TuningNext]_tuningVars
    BY TuningPages DEF panelVars
<1>6. [PanelPagesNext]_panelVars => [AutoNext]_autoVars
    BY AutoTunePages DEF panelVars
<1>7. [PanelPagesNext]_panelVars => [SettingsNext]_settingsVars
    BY SettingsPages DEF panelVars
<1>8. [PanelPagesNext]_panelVars => [UpdateNext]_updateVars
    BY UpdatePages DEF panelVars
<1>9. QED
    BY <1>1, <1>2, <1>3, <1>4, <1>5, <1>6, <1>7, <1>8, PTL DEF PanelPagesSpec
-----------------------------------------------------------------------------
(* Numbers and sequences *)

\* The least of a set of numbers exists: the order of the naturals is well founded.
LEMMA LeastNumber ==
    ASSUME NEW T, T \subseteq Nat, T # {}
    PROVE  \E x \in T : \A y \in T : x <= y
<1> DEFINE R == {p \in Nat \X Nat : p[1] < p[2]}
<1>1. IsWellFoundedOn(R, Nat)
    BY NatLessThanWellFounded DEF OpToRel
<1>2. \E x \in T : \A y \in T : ~(<<y, x>> \in R)
  <2> HIDE DEF R
  <2>1. QED
    BY <1>1, WFMin
<1>3. PICK x \in T : \A y \in T : ~(<<y, x>> \in R)
    BY <1>2
<1>4. ASSUME NEW y \in T PROVE x <= y
  <2>1. x \in Nat /\ y \in Nat /\ ~(<<y, x>> \in R)
    BY <1>3
  <2>2. <<y, x>> \in Nat \X Nat /\ <<y, x>>[1] = y /\ <<y, x>>[2] = x
    BY <2>1
  <2>3. ~(y < x)
    BY <2>1, <2>2
  <2>4. QED
    BY <2>1, <2>3
<1>5. QED
    BY <1>4

LEMMA MaxExists ==
    ASSUME NEW S, S \subseteq Int, S # {}, NEW b \in Int, \A x \in S : x <= b
    PROVE  Max(S) \in S /\ \A x \in S : x <= Max(S)
<1> DEFINE T == {b - x : x \in S}
<1>0. \A x \in S : x \in Int
    OBVIOUS
<1>1. T \subseteq Nat /\ T # {}
  <2>1. T \subseteq Nat
    BY <1>0
  <2>2. T # {}
    OBVIOUS
  <2>3. QED
    BY <2>1, <2>2
<1>2. PICK t \in T : \A y \in T : t <= y
  <2> HIDE DEF T
  <2>1. QED
    BY <1>1, LeastNumber
<1>3. PICK m \in S : t = b - m
    OBVIOUS
<1>4. \A x \in S : m >= x
    BY <1>0, <1>2, <1>3
<1>5. Max(S) \in S /\ \A x \in S : Max(S) >= x
    BY <1>4 DEF Max
<1>6. QED
    BY <1>5

LEMMA MinExists ==
    ASSUME NEW S, S \subseteq Int, S # {}, NEW b \in Int, \A x \in S : b <= x
    PROVE  Min(S) \in S /\ \A x \in S : Min(S) <= x
<1> DEFINE T == {x - b : x \in S}
<1>0. \A x \in S : x \in Int
    OBVIOUS
<1>1. T \subseteq Nat /\ T # {}
  <2>1. T \subseteq Nat
    BY <1>0
  <2>2. T # {}
    OBVIOUS
  <2>3. QED
    BY <2>1, <2>2
<1>2. PICK t \in T : \A y \in T : t <= y
  <2> HIDE DEF T
  <2>1. QED
    BY <1>1, LeastNumber
<1>3. PICK m \in S : t = m - b
    OBVIOUS
<1>4. \A x \in S : m <= x
  <2> SUFFICES ASSUME NEW x \in S PROVE m <= x
    OBVIOUS
  <2>1. x - b \in T /\ x \in Int /\ m \in Int
    BY <1>0
  <2>2. t <= x - b
    BY <1>2, <2>1
  <2>3. QED
    BY <1>3, <2>1, <2>2
<1>5. Min(S) \in S /\ \A x \in S : Min(S) =< x
    BY <1>4 DEF Min
<1>6. QED
    BY <1>5

LEMMA LargerOfTwo ==
    ASSUME NEW a \in Int, NEW b \in Int
    PROVE  Max({a, b}) = IF a >= b THEN a ELSE b
<1>1. \E x \in {a, b} : \A y \in {a, b} : x >= y
    OBVIOUS
<1>2. Max({a, b}) \in {a, b} /\ \A y \in {a, b} : Max({a, b}) >= y
    BY <1>1 DEF Max
<1>3. QED
    BY <1>2

LEMMA SmallerOfTwo ==
    ASSUME NEW a \in Int, NEW b \in Int
    PROVE  Min({a, b}) = IF a <= b THEN a ELSE b
<1>1. \E x \in {a, b} : \A y \in {a, b} : x <= y
    OBVIOUS
<1>2. Min({a, b}) \in {a, b} /\ \A y \in {a, b} : Min({a, b}) <= y
    BY <1>1 DEF Min
<1>3. QED
    BY <1>2

\* The element at a place of a sequence leaves it; the others keep their order.
LEMMA RemoveAtProps ==
    ASSUME NEW T, NEW s \in Seq(T), NEW i \in DOMAIN s
    PROVE  /\ RemoveAt(s, i) \in Seq(T)
           /\ Len(RemoveAt(s, i)) = Len(s) - 1
           /\ \A j \in 1..Len(s) - 1 : RemoveAt(s, i)[j] = IF j < i THEN s[j] ELSE s[j + 1]
<1> DEFINE a == SubSeq(s, 1, i - 1)
           b == SubSeq(s, i + 1, Len(s))
<1>1. i \in 1..Len(s) /\ Len(s) \in Nat
    OBVIOUS
<1>2. a \in Seq(T) /\ Len(a) = i - 1 /\ \A j \in 1..i - 1 : a[j] = s[j]
    BY <1>1, SubSeqProperties
<1>3. b \in Seq(T) /\ Len(b) = Len(s) - i /\ \A j \in 1..Len(s) - i : b[j] = s[i + j]
    BY <1>1, SubSeqProperties
<1> HIDE DEF a, b
<1>4. a \o b \in Seq(T) /\ Len(a \o b) = Len(s) - 1
    BY <1>1, <1>2, <1>3
<1>5. ASSUME NEW j \in 1..Len(s) - 1 PROVE (a \o b)[j] = IF j < i THEN s[j] ELSE s[j + 1]
  <2>1. (a \o b)[j] = IF j <= Len(a) THEN a[j] ELSE b[j - Len(a)]
    BY <1>1, <1>2, <1>3, ConcatProperties
  <2>2. CASE j < i
    BY <1>1, <1>2, <2>1, <2>2
  <2>3. CASE ~(j < i)
    <3>1. j - (i - 1) \in 1..Len(s) - i /\ i + (j - (i - 1)) = j + 1
        BY <1>1, <2>3
    <3>2. (a \o b)[j] = b[j - (i - 1)]
        BY <1>1, <1>2, <2>1, <2>3
    <3>3. b[j - (i - 1)] = s[i + (j - (i - 1))]
        BY <1>3, <3>1
    <3>4. QED
        BY <2>3, <3>1, <3>2, <3>3
  <2>4. QED
    BY <2>2, <2>3
<1>6. QED
    BY <1>4, <1>5 DEF RemoveAt, a, b
-----------------------------------------------------------------------------
(* The check for updates *)

UpdateInd == UpdateInv /\ IsFiniteSet(infos)

\* An answer takes the place of its request.
LEMMA ReplacedElement ==
    ASSUME NEW S, IsFiniteSet(S), NEW x \in S, NEW y
    PROVE  IsFiniteSet((S \ {x}) \cup {y}) /\ Cardinality((S \ {x}) \cup {y}) <= Cardinality(S)
<1>1. Cardinality(S) \in Nat
    BY FS_CardinalityType
<1>2. IsFiniteSet(S \ {x}) /\ Cardinality(S \ {x}) = Cardinality(S) - 1
    BY FS_RemoveElement
<1>3. IsFiniteSet((S \ {x}) \cup {y})
      /\ Cardinality((S \ {x}) \cup {y}) = IF y \in S \ {x} THEN Cardinality(S \ {x})
                                           ELSE Cardinality(S \ {x}) + 1
    BY <1>2, FS_AddElement
<1>4. QED
    BY <1>1, <1>2, <1>3

LEMMA LoadedInfo ==
    ASSUME IsFiniteSet(infos), Cardinality(infos) < MaxInfos, NEW kind, LoadInfo(kind)
    PROVE  IsFiniteSet(infos') /\ Cardinality(infos') <= MaxInfos
<1>1. PICK d : infos' = infos \cup {d}
    BY DEF LoadInfo
<1>2. IsFiniteSet(infos \cup {d})
      /\ Cardinality(infos \cup {d}) = IF d \in infos THEN Cardinality(infos)
                                       ELSE Cardinality(infos) + 1
    BY FS_AddElement
<1>3. Cardinality(infos) \in Nat /\ MaxInfos \in Nat
    BY FS_CardinalityType, UpdateCheckAssumption
<1>4. QED
    BY <1>1, <1>2, <1>3

LEMMA UpdateStarts == UpdateInit => UpdateInd
<1> SUFFICES ASSUME UpdateInit PROVE UpdateInd
    OBVIOUS
<1>1. IsFiniteSet(infos) /\ Cardinality(infos) = 0
    BY FS_EmptySet DEF UpdateInit
<1>2. Cardinality(infos) <= MaxInfos
    BY <1>1, UpdateCheckAssumption
<1>3. {checkDisabled, pollTimer, onceTimer, requested} \subseteq BOOLEAN
      /\ updater \in Outcomes \cup {"waiting"}
    BY DEF UpdateInit, Outcomes
<1>4. QED
    BY <1>1, <1>2, <1>3 DEF UpdateInit, UpdateInd, UpdateInv, UpdateTypeOK, ButtonHasWatcher

LEMMA UpdateStep == UpdateInd /\ [UpdateNext]_updateVars => UpdateInd'
<1> SUFFICES ASSUME UpdateInd, [UpdateNext]_updateVars PROVE UpdateInd'
    OBVIOUS
<1> USE DEF UpdateInd, UpdateInv, UpdateTypeOK, ButtonHasWatcher
<1>1. CASE ClickCheck
    BY <1>1 DEF ClickCheck
<1>2. CASE CheckSent
    BY <1>2 DEF CheckSent
<1>3. CASE PollUpdate
    BY <1>3, LoadedInfo DEF PollUpdate
<1>4. CASE OnceFires
    BY <1>4, LoadedInfo DEF OnceFires
<1>5. ASSUME NEW l \in infos, InfoAnswer(l) PROVE UpdateInd'
  <2> DEFINE rest == infos \ {l}
  <2>1. IsFiniteSet(rest) /\ Cardinality(rest) <= MaxInfos
    <3>1. IsFiniteSet(rest) /\ Cardinality(rest) = Cardinality(infos) - 1
        BY FS_RemoveElement
    <3>2. Cardinality(infos) \in Nat /\ MaxInfos \in Nat
        BY FS_CardinalityType, UpdateCheckAssumption
    <3>3. Cardinality(infos) <= MaxInfos
        OBVIOUS
    <3> HIDE DEF rest, UpdateInd
    <3>4. QED
        BY <3>1, <3>2, <3>3
  <2>2. infos' = rest
    BY <1>5 DEF InfoAnswer
  <2> HIDE DEF rest
  <2>3. UpdateTypeOK'
    BY <1>5, <2>1, <2>2 DEF InfoAnswer, MessageFor
  <2>4. QED
    BY <1>5, <2>1, <2>2, <2>3 DEF InfoAnswer
<1>6. CASE ServeCheck
    BY <1>6 DEF ServeCheck
<1>7. CASE RunUpdater
  <2>1. updater' \in Active \cup Outcomes
    BY <1>7 DEF RunUpdater, Active, Outcomes
  <2>2. requested' \in BOOLEAN
    BY <1>7 DEF RunUpdater
  <2>3. QED
    BY <1>7, <2>1, <2>2 DEF RunUpdater
<1>8. ASSUME NEW l \in infos, ServeInfo(l) PROVE UpdateInd'
  <2>1. IsFiniteSet(infos') /\ Cardinality(infos') <= MaxInfos
    <3>1. PICK state : infos' = (infos \ {l}) \cup {[l EXCEPT !.state = state]}
        BY <1>8 DEF ServeInfo
    <3> DEFINE d == [l EXCEPT !.state = state]
    <3>2. infos' = (infos \ {l}) \cup {d}
        BY <3>1
    <3> HIDE DEF d
    <3>3. IsFiniteSet(infos') /\ Cardinality(infos') <= Cardinality(infos)
        BY <3>2, ReplacedElement
    <3>4. Cardinality(infos) \in Nat /\ MaxInfos \in Nat /\ Cardinality(infos') \in Nat
        BY <3>3, FS_CardinalityType, UpdateCheckAssumption
    <3>5. Cardinality(infos) <= MaxInfos
        OBVIOUS
    <3> HIDE DEF UpdateInd
    <3>6. QED
        BY <3>3, <3>4, <3>5
  <2>2. QED
    BY <1>8, <2>1 DEF ServeInfo
<1>9. CASE UNCHANGED updateVars
    BY <1>9 DEF updateVars
<1>10. QED
    BY <1>1, <1>2, <1>3, <1>4, <1>5, <1>6, <1>7, <1>8, <1>9
    DEF UpdateNext, UpdatePage, UpdateServer

\* A disabled button of the update check has a request or an interval that will enable
\* it, on every page (requestUpdateCheck, startUpdateStatusPolling).
THEOREM ButtonsAreWatched == PanelPagesSpec => []UpdateInv
<1>1. PanelPagesSpec => UpdateInit
    BY DEF PanelPagesSpec, PanelsInit
<1>2. UpdateInd => UpdateInv
    BY DEF UpdateInd
<1>3. QED
    BY <1>1, <1>2, UpdateStarts, UpdateStep, PanelPagesAddNothing, PTL
-----------------------------------------------------------------------------
(* The report view *)

\* What a tab shows is its newest report, if it has one and has been visible since.
FreshTab(t) ==
    kept[t] # NoReport => t \in unseen \/ drawn[t] = <<kept[t].number, selection[t]>>

\* A tab without a report has a loader over it, or has never been opened; a load that
\* did not fail has left one.
EmptyTabIsCovered(t) ==
    kept[t] = NoReport =>
        /\ loader[t] = "hidden" => ~Visible(t) /\ load[t].phase = "none"
        /\ load[t].phase = "finish" => load[t].failed

LoadSet == [phase : {"none", "fetch", "body", "finish"}, background : BOOLEAN, failed : BOOLEAN]
ReportSet == [number : Nat, measured : SUBSET SeriesNames]

ReportTables ==
    /\ load \in [Tabs -> LoadSet] /\ loader \in [Tabs -> {"hidden", "loading", "error"}]
    /\ kept \in [Tabs -> ReportSet] /\ selection \in [Tabs -> SeriesNames \cup {Default}]
    /\ drawn \in [Tabs -> Nat \X (SeriesNames \cup {Default})]
    /\ served \in Nat /\ tab \in Tabs /\ unseen \subseteq Tabs
    /\ reportView \in BOOLEAN /\ suspendedTabs \in BOOLEAN

\* A background load is over when it ends, and a load that is read has not failed.
LoadsEnd ==
    \A t \in Tabs : /\ load[t].background => load[t].phase # "finish"
                    /\ load[t].phase = "body" => ~load[t].failed

SelectedTabs ==
    \A t \in Tabs : /\ drawn[t][1] <= kept[t].number /\ kept[t].number <= served
                    /\ selection[t] = Default \/ t \in SelectorTabs

ReportsInd ==
    /\ ReportTables /\ LoadsEnd /\ SelectedTabs
    /\ LoaderHasLoad /\ OutageCancelsReports
    /\ \A t \in Tabs : FreshTab(t) /\ EmptyTabIsCovered(t)

LEMMA ReportsEntail == ReportsInd => ReportsInv
<1> SUFFICES ASSUME ReportsInd PROVE ReportsInv
    OBVIOUS
<1>1. ReportsTypeOK
    BY DEF ReportsInd, ReportTables, SelectedTabs, ReportsTypeOK, LoadSet, ReportSet
<1>2. ChartFollowsReport
    BY DEF ReportsInd, FreshTab, EmptyTabIsCovered, ChartFollowsReport
<1>3. QED
    BY <1>1, <1>2 DEF ReportsInd, ReportsInv
LEMMA ReportsStart == ReportsInit => ReportsInd
<1> SUFFICES ASSUME ReportsInit PROVE ReportsInd
    OBVIOUS
<1>1. tab \in Tabs
    BY ReportsAssumption DEF ReportsInit
<1>2. ReportTables
    BY <1>1 DEF ReportsInit, ReportTables, LoadSet, ReportSet, NoLoad, NoReport, Blank, Default
<1>3. LoadsEnd /\ LoaderHasLoad /\ OutageCancelsReports
    BY DEF ReportsInit, LoadsEnd, LoaderHasLoad, OutageCancelsReports, NoLoad
<1>4. SelectedTabs
  <2> SUFFICES ASSUME NEW t \in Tabs
               PROVE  /\ drawn[t][1] <= kept[t].number /\ kept[t].number <= served
                      /\ selection[t] = Default
    BY DEF SelectedTabs
  <2>1. drawn[t] = <<0, Default>> /\ kept[t] = [number |-> 0, measured |-> {}]
    BY DEF ReportsInit, NoReport, Blank
  <2>2. drawn[t][1] = 0 /\ kept[t].number = 0 /\ served = 0 /\ selection[t] = Default
    BY <2>1 DEF ReportsInit
  <2>3. QED
    BY <2>2
<1>5. \A t \in Tabs : FreshTab(t) /\ EmptyTabIsCovered(t)
    BY DEF ReportsInit, FreshTab, EmptyTabIsCovered, Visible, NoLoad
<1>6. QED
    BY <1>2, <1>3, <1>4, <1>5 DEF ReportsInd

\* Only a foreground load of a tab that becomes visible, or a background load of one
\* that is, may begin.
LEMMA ReportBegins ==
    ASSUME ReportsInd, NEW t \in Tabs, NEW shown \in BOOLEAN, NEW background \in BOOLEAN,
           Begin(t, shown, background),
           UNCHANGED <<kept, selection, drawn, suspendedTabs, served, unseen>>,
           tab' \in Tabs, reportView' \in BOOLEAN,
           background => Visible(t),
           \A u \in Tabs : Visible(u)' => Visible(u) \/ (u = t /\ shown /\ ~background)
    PROVE  ReportsInd'
<1> USE DEF ReportsInd, ReportTables
<1>1. CASE ~shown \/ load[t].phase # "none"
  <2>1. UNCHANGED <<load, loader>>
    BY <1>1 DEF Begin
  <2>2. \A u \in Tabs : FreshTab(u)' /\ EmptyTabIsCovered(u)'
    BY <1>1, <2>1 DEF FreshTab, EmptyTabIsCovered
  <2>3. QED
    BY <2>1, <2>2 DEF LoadsEnd, SelectedTabs, LoaderHasLoad, OutageCancelsReports
<1>2. CASE shown /\ load[t].phase = "none"
  <2> DEFINE started == [phase |-> "fetch", background |-> background, failed |-> FALSE]
             begun == IF suspendedTabs THEN Over(started, TRUE) ELSE started
  <2>1. load' = [load EXCEPT ![t] = begun]
        /\ loader' = IF background THEN loader ELSE [loader EXCEPT ![t] = "loading"]
    BY <1>2 DEF Begin
  <2>2. /\ begun \in LoadSet
        /\ begun.background => background
        /\ begun.background => begun.phase # "finish"
        /\ begun.phase # "body"
        /\ begun.phase = "finish" => begun.failed
        /\ ~background => begun.phase # "none" /\ ~begun.background
        /\ suspendedTabs => begun.phase # "fetch"
    BY DEF Over, NoLoad, LoadSet
  <2> HIDE DEF begun
  <2>3. ReportTables'
    BY <2>1, <2>2
  <2>4. LoadsEnd' /\ SelectedTabs'
    BY <2>1, <2>2 DEF LoadsEnd, SelectedTabs
  <2>5. LoaderHasLoad'
    BY <1>2, <2>1, <2>2 DEF LoaderHasLoad
  <2>6. OutageCancelsReports'
    BY <2>1, <2>2 DEF OutageCancelsReports
  <2>7. \A u \in Tabs : FreshTab(u)'
    BY DEF FreshTab
  <2>8. \A u \in Tabs : EmptyTabIsCovered(u)'
    BY <2>1, <2>2 DEF EmptyTabIsCovered
  <2>9. QED
    BY <2>3, <2>4, <2>5, <2>6, <2>7, <2>8
<1>3. QED
    BY <1>1, <1>2

\* A load that ends or goes on.
LEMMA LoadGoesOn ==
    ASSUME ReportsInd, NEW t \in Tabs, NEW l \in LoadSet, load[t].phase # "none",
           load' = [load EXCEPT ![t] = l],
           UNCHANGED <<reportView, tab, loader, kept, selection, drawn, suspendedTabs, served,
                       unseen>>,
           l.background => load[t].background,
           l.background => l.phase # "finish",
           l.phase = "body" => ~l.failed,
           l.phase = "finish" => l.failed,
           l.phase = "fetch" => l.failed,
           ~load[t].background => l.phase # "none"
    PROVE  ReportsInd'
<1> USE DEF ReportsInd, ReportTables
<1>1. ReportTables'
    OBVIOUS
<1>2. LoadsEnd' /\ SelectedTabs'
    BY DEF LoadsEnd, SelectedTabs
<1>3. LoaderHasLoad' /\ OutageCancelsReports'
    BY DEF LoaderHasLoad, OutageCancelsReports
<1>4. \A u \in Tabs : FreshTab(u)' /\ EmptyTabIsCovered(u)'
    BY DEF FreshTab, EmptyTabIsCovered, Visible
<1>5. QED
    BY <1>1, <1>2, <1>3, <1>4

LEMMA ReportDrawn ==
    ASSUME ReportsInd, NEW t \in Tabs, NEW report \in ReportSet,
           NEW choice \in SeriesNames \cup {Default}, DrawTab(t, report, choice)
    PROVE  /\ drawn' \in [Tabs -> Nat \X (SeriesNames \cup {Default})] /\ unseen' \subseteq Tabs
           /\ drawn'[t] \in {drawn[t], <<report.number, choice>>}
           /\ t \in unseen' \/ drawn'[t] = <<report.number, choice>>
           /\ \A u \in Tabs \ {t} : drawn'[u] = drawn[u] /\ (u \in unseen' <=> u \in unseen)
    BY DEF DrawTab, ReportsInd, ReportTables, ReportSet

LEMMA ReportsStep == ReportsInd /\ [ReportsNext]_reportVars => ReportsInd'
<1> SUFFICES ASSUME ReportsInd, [ReportsNext]_reportVars PROVE ReportsInd'
    OBVIOUS
<1> USE DEF ReportsInd, ReportTables
<1>1. ASSUME NEW t \in Tabs, OpenReportTab(t) PROVE ReportsInd'
    BY <1>1, ReportBegins DEF OpenReportTab, Visible
<1>2. ASSUME NEW shown \in BOOLEAN, ShowReports(shown) PROVE ReportsInd'
    BY <1>2, ReportBegins DEF ShowReports, Visible
<1>3. CASE ReportTimer
    BY <1>3, ReportBegins DEF ReportTimer, Visible
<1>4. ASSUME NEW t \in Tabs, Headers(t) PROVE ReportsInd'
  <2> DEFINE l == [load[t] EXCEPT !.phase = "body"]
  <2>1. l \in LoadSet /\ l.phase = "body" /\ l.background = load[t].background
        /\ l.failed = load[t].failed
    BY DEF LoadSet
  <2>2. load' = [load EXCEPT ![t] = l] /\ load[t].phase = "fetch" /\ ~load[t].failed
    BY <1>4 DEF Headers
  <2> HIDE DEF l
  <2>3. QED
    BY <1>4, <2>1, <2>2, LoadGoesOn DEF Headers
<1>5. ASSUME NEW t \in Tabs, LoadFails(t) PROVE ReportsInd'
  <2>1. /\ Over(load[t], TRUE) \in LoadSet
        /\ Over(load[t], TRUE).phase \in {"none", "finish"}
        /\ ~Over(load[t], TRUE).background
        /\ Over(load[t], TRUE).phase = "finish" => Over(load[t], TRUE).failed
        /\ ~load[t].background => Over(load[t], TRUE).phase = "finish"
    BY DEF Over, NoLoad, LoadSet
  <2>2. load' = [load EXCEPT ![t] = Over(load[t], TRUE)] /\ load[t].phase # "none"
    BY <1>5 DEF LoadFails
  <2>3. QED
    BY <1>5, <2>1, <2>2, LoadGoesOn DEF LoadFails
<1>6. ASSUME NEW t \in Tabs, Answer(t) PROVE ReportsInd'
  <2>1. PICK measured \in SUBSET SeriesNames :
            Apply(t, [number |-> served + 1, measured |-> measured])
    BY <1>6 DEF Answer
  <2> DEFINE report == [number |-> served + 1, measured |-> measured]
  <2>2. report \in ReportSet /\ report # NoReport /\ report.number = served + 1
    BY DEF ReportSet, NoReport
  <2>3. load[t].phase = "body" /\ load' = [load EXCEPT ![t] = Over(load[t], FALSE)]
        /\ UNCHANGED <<reportView, tab, loader, selection, suspendedTabs>> /\ served' = served + 1
    BY <1>6 DEF Answer
  <2>4. kept' = [kept EXCEPT ![t] = report] /\ DrawTab(t, report, selection[t])
    BY <2>1 DEF Apply
  <2> HIDE DEF report
  <2>5. /\ Over(load[t], FALSE) \in LoadSet
        /\ Over(load[t], FALSE).phase \in {"none", "finish"}
        /\ ~Over(load[t], FALSE).background
        /\ ~load[t].background => Over(load[t], FALSE).phase = "finish"
    BY DEF Over, NoLoad, LoadSet
  <2>6. selection[t] \in SeriesNames \cup {Default}
    OBVIOUS
  <2>7. ReportTables'
    <3>1. drawn' \in [Tabs -> Nat \X (SeriesNames \cup {Default})] /\ unseen' \subseteq Tabs
        BY <2>2, <2>4, <2>6, ReportDrawn
    <3>2. kept' \in [Tabs -> ReportSet] /\ served' \in Nat
        BY <2>2, <2>3, <2>4
    <3>3. load' \in [Tabs -> LoadSet]
        BY <2>3, <2>5
    <3>4. QED
        BY <2>3, <3>1, <3>2, <3>3
  <2>8. LoadsEnd' /\ OutageCancelsReports'
    BY <2>3, <2>5 DEF LoadsEnd, OutageCancelsReports
  <2>9. LoaderHasLoad'
    BY <2>3, <2>5 DEF LoaderHasLoad
  <2>10. kept'[t].number = served + 1 /\ \A u \in Tabs \ {t} : kept'[u] = kept[u]
    BY <2>2, <2>4
  <2>11. SelectedTabs'
    <3> SUFFICES ASSUME NEW u \in Tabs
                 PROVE  /\ drawn'[u][1] <= kept'[u].number /\ kept'[u].number <= served'
                        /\ selection'[u] = Default \/ u \in SelectorTabs
        BY DEF SelectedTabs
    <3>1. CASE u # t
      <4>1. drawn'[u] = drawn[u] /\ kept'[u] = kept[u] /\ kept[u].number \in Nat
        BY <2>2, <2>4, <2>6, <2>10, <3>1, ReportDrawn DEF ReportSet
      <4>2. QED
        BY <2>3, <4>1 DEF SelectedTabs
    <3>2. CASE u = t
      <4>1. drawn'[t] \in {drawn[t], <<served + 1, selection[t]>>}
        BY <2>2, <2>4, <2>6, ReportDrawn
      <4>2. drawn'[t][1] <= served + 1
       <5>1. drawn[t][1] \in Nat /\ kept[t].number \in Nat
            /\ drawn[t][1] <= kept[t].number /\ kept[t].number <= served
        BY DEF SelectedTabs, ReportSet
       <5>2. QED
        BY <4>1, <5>1
      <4>3. QED
        BY <2>3, <2>10, <3>2, <4>2 DEF SelectedTabs
    <3>3. QED
        BY <3>1, <3>2
  <2>12. ASSUME NEW u \in Tabs PROVE FreshTab(u)' /\ EmptyTabIsCovered(u)'
    <3>1. CASE u # t
      <4>1. drawn'[u] = drawn[u] /\ (u \in unseen' <=> u \in unseen) /\ kept'[u] = kept[u]
            /\ load'[u] = load[u]
        BY <2>2, <2>3, <2>4, <2>6, <2>10, <3>1, ReportDrawn
      <4>2. QED
        BY <2>3, <4>1 DEF FreshTab, EmptyTabIsCovered, Visible
    <3>2. CASE u = t
      <4>1. t \in unseen' \/ drawn'[t] = <<served + 1, selection[t]>>
        BY <2>2, <2>4, <2>6, ReportDrawn
      <4>2. kept'[t] # NoReport
        BY <2>10 DEF NoReport
      <4>3. QED
        BY <2>3, <2>10, <3>2, <4>1, <4>2 DEF FreshTab, EmptyTabIsCovered
    <3>3. QED
        BY <3>1, <3>2
  <2>13. QED
    BY <2>7, <2>8, <2>9, <2>11, <2>12
<1>7. ASSUME NEW t \in Tabs, Finish(t) PROVE ReportsInd'
  <2> DEFINE over == IF load[t].failed THEN "error" ELSE "hidden"
  <2>1. load' = [load EXCEPT ![t] = NoLoad] /\ loader' = [loader EXCEPT ![t] = over]
        /\ load[t].phase = "finish"
        /\ UNCHANGED <<reportView, tab, kept, selection, drawn, suspendedTabs, served, unseen>>
    BY <1>7 DEF Finish
  <2>2. over \in {"error", "hidden"} /\ NoLoad \in LoadSet /\ NoLoad.phase = "none"
        /\ ~NoLoad.background
    BY DEF NoLoad, LoadSet
  <2>3. ReportTables'
    BY <2>1, <2>2
  <2>4. LoadsEnd' /\ SelectedTabs' /\ LoaderHasLoad' /\ OutageCancelsReports'
    BY <2>1, <2>2 DEF LoadsEnd, SelectedTabs, LoaderHasLoad, OutageCancelsReports
  <2>5. \A u \in Tabs : FreshTab(u)' /\ EmptyTabIsCovered(u)'
    BY <2>1, <2>2 DEF FreshTab, EmptyTabIsCovered, Visible
  <2>6. QED
    BY <2>3, <2>4, <2>5
<1>8. ASSUME NEW t \in Tabs, NEW c \in SeriesNames \cup {Default}, Select(t, c) PROVE ReportsInd'
  <2>1. UNCHANGED <<reportView, tab, load, loader, kept, suspendedTabs, served>>
        /\ selection' = [selection EXCEPT ![t] = c] /\ t \in SelectorTabs
        /\ IF kept[t] = NoReport THEN UNCHANGED <<drawn, unseen>> ELSE DrawTab(t, kept[t], c)
    BY <1>8 DEF Select
  <2>2. LoadsEnd' /\ LoaderHasLoad' /\ OutageCancelsReports'
        /\ \A u \in Tabs : EmptyTabIsCovered(u)'
    BY <2>1 DEF LoadsEnd, LoaderHasLoad, OutageCancelsReports, EmptyTabIsCovered, Visible
  <2>3. CASE kept[t] = NoReport
    <3>1. ReportTables' /\ SelectedTabs'
        BY <2>1, <2>3 DEF SelectedTabs
    <3>2. \A u \in Tabs : FreshTab(u)'
        BY <2>1, <2>3 DEF FreshTab
    <3>3. QED
        BY <2>2, <3>1, <3>2
  <2>4. CASE kept[t] # NoReport
    <3>1. /\ drawn' \in [Tabs -> Nat \X (SeriesNames \cup {Default})] /\ unseen' \subseteq Tabs
          /\ drawn'[t] \in {drawn[t], <<kept[t].number, c>>}
          /\ t \in unseen' \/ drawn'[t] = <<kept[t].number, c>>
          /\ \A u \in Tabs \ {t} : drawn'[u] = drawn[u] /\ (u \in unseen' <=> u \in unseen)
        BY <2>1, <2>4, ReportDrawn
    <3>2. ReportTables'
        BY <2>1, <3>1
    <3>3. SelectedTabs'
      <4>1. \A u \in Tabs : drawn[u][1] \in Nat /\ kept[u].number \in Nat
        BY DEF ReportSet
      <4>2. QED
        BY <2>1, <3>1, <4>1 DEF SelectedTabs
    <3>4. \A u \in Tabs : FreshTab(u)'
        BY <2>1, <3>1 DEF FreshTab
    <3>5. QED
        BY <2>2, <3>2, <3>3, <3>4
  <2>5. QED
    BY <2>3, <2>4
<1>9. CASE SuspendReports
  <2> DEFINE l(t) == IF load[t].phase = "fetch" THEN [load[t] EXCEPT !.failed = TRUE] ELSE load[t]
  <2>1. load' = [t \in Tabs |-> l(t)] /\ suspendedTabs' = TRUE
        /\ UNCHANGED <<reportView, tab, loader, kept, selection, drawn, served, unseen>>
    BY <1>9 DEF SuspendReports
  <2>2. \A t \in Tabs : /\ l(t) \in LoadSet /\ l(t).phase = load[t].phase
                        /\ l(t).background = load[t].background
                        /\ l(t).phase = "fetch" => l(t).failed
                        /\ l(t).phase # "fetch" => l(t).failed = load[t].failed
    BY DEF LoadSet
  <2> HIDE DEF l
  <2>3. ReportTables'
    BY <2>1, <2>2
  <2>4. LoadsEnd' /\ SelectedTabs' /\ LoaderHasLoad' /\ OutageCancelsReports'
    BY <2>1, <2>2 DEF LoadsEnd, SelectedTabs, LoaderHasLoad, OutageCancelsReports
  <2>5. \A u \in Tabs : FreshTab(u)' /\ EmptyTabIsCovered(u)'
    BY <2>1, <2>2 DEF FreshTab, EmptyTabIsCovered, Visible
  <2>6. QED
    BY <2>3, <2>4, <2>5
<1>10. CASE ResumeReports
    BY <1>10 DEF ResumeReports, LoadsEnd, SelectedTabs, LoaderHasLoad, OutageCancelsReports,
                 FreshTab, EmptyTabIsCovered, Visible
<1>11. CASE UNCHANGED reportVars
    BY <1>11 DEF reportVars, LoadsEnd, SelectedTabs, LoaderHasLoad, OutageCancelsReports,
                 FreshTab, EmptyTabIsCovered, Visible
<1>12. QED
    BY <1>1, <1>2, <1>3, <1>4, <1>5, <1>6, <1>7, <1>8, <1>9, <1>10, <1>11
    DEF ReportsNext, ReportLoading, ReportViewing, ReportAnswers, ReportSelectors

\* A tab, its loader, its request and its chart agree on every page, whichever of
\* answers, timers, outages, tabs and selectors came first (the report view).
THEOREM ReportViewAgrees == PanelPagesSpec => []ReportsInv
<1>1. PanelPagesSpec => ReportsInit
    BY DEF PanelPagesSpec, PanelsInit
<1>2. QED
    BY <1>1, ReportsEntail, ReportsStart, ReportsStep, PanelPagesAddNothing, PTL
-----------------------------------------------------------------------------
(* Auto tune *)

TuneRuns == [id : Nat, phase : {"sent", "answered", "lost"}]
TuneRequests == [id : Nat, range : Int \X Int]

AutoTables ==
    /\ tuneRange \in Int \X Int /\ runs \subseteq TuneRuns /\ queued \subseteq TuneRequests
    /\ tuneRun \in [axis : TuneAxes, stopping : BOOLEAN] \cup {NoTune}
    /\ asked \in 0..MaxRuns /\ stops \subseteq 1..MaxRuns
    /\ stopFlag \in BOOLEAN /\ unheeded \in BOOLEAN

OnlyRun ==
    /\ \A r, s \in runs : r = s
    /\ runs # {} <=> tuneRun.axis # "none"
    /\ runs # {} => asked >= 1

RunsAreForward == \A q \in queued : q.range[1] < q.range[2]

\* A stop that is shown before its run has started is on its way, or counts as
\* unheeded.
EarlyStopHasCause == tuneRun.stopping /\ stops = {} /\ Waiting => unheeded

AutoInd ==
    /\ AutoTables /\ OnlyRun /\ RunsAreForward
    /\ RangeIsForward /\ EarlyStopHasCause /\ UnheededStopHasCause

LEMMA AutoEntails == AutoInd => AutoTuneInv
<1> SUFFICES ASSUME AutoInd PROVE AutoTuneInv
    OBVIOUS
<1>1. Cardinality(runs) <= 1
  <2>1. CASE runs = {}
    <3>1. Cardinality(runs) = 0
        BY <2>1, FS_EmptySet
    <3>2. QED
        BY <3>1
  <2>2. CASE runs # {}
    <3>1. PICK r \in runs : runs = {r}
        BY <2>2 DEF AutoInd, OnlyRun
    <3>2. Cardinality(runs) = 1
        BY <3>1, FS_Singleton
    <3>3. QED
        BY <3>2
  <2>3. QED
    BY <2>1, <2>2
<1>2. QED
    BY <1>1 DEF AutoInd, AutoTables, OnlyRun, AutoTuneInv, AutoTypeOK, OneAutoTune

LEMMA AutoStarts == AutoInit => AutoInd
<1> SUFFICES ASSUME AutoInit PROVE AutoInd
    OBVIOUS
<1>1. tuneRange \in Int \X Int
    BY AutoTuneAssumption DEF AutoInit, NoRange
<1>2. asked \in 0..MaxRuns
    BY AutoTuneAssumption DEF AutoInit
<1>3. tuneRun = NoTune
    BY DEF AutoInit, NoRun
<1>4. AutoTables
    BY <1>1, <1>2, <1>3 DEF AutoInit, AutoTables
<1>5. QED
    BY <1>4 DEF AutoInit, AutoInd, OnlyRun, RunsAreForward, RangeIsForward, EarlyStopHasCause,
                UnheededStopHasCause, NoTune

\* The position inputs alone change nothing of a run.
LEMMA RangeStep ==
    ASSUME AutoInd, tuneRange' \in Int \X Int,
           UNCHANGED <<tuneRun, runs, queued, stops, asked, tuner, stopFlag, unheeded>>
    PROVE  AutoInd'
    BY DEF AutoInd, AutoTables, OnlyRun, RunsAreForward, RangeIsForward, EarlyStopHasCause,
           UnheededStopHasCause, Waiting

LEMMA AutoStep == AutoInd /\ [AutoNext]_autoVars => AutoInd'
<1> SUFFICES ASSUME AutoInd, [AutoNext]_autoVars PROVE AutoInd'
    OBVIOUS
<1>1. CASE OpenAutoTune
  <2>1. PICK position \in Positions \cup {EmptyText}, limits \in SoftLimits, stored \in Presets :
            LET proposed == IF position = EmptyText THEN limits ELSE Around(position, limits)
                filled == [i \in 1..2 |-> IF tuneRange[i] = EmptyText \/ tuneRange = Templates
                                          THEN proposed[i] ELSE tuneRange[i]]
            IN  tuneRange' = [i \in 1..2 |-> IF stored[i] = NotStored THEN filled[i] ELSE stored[i]]
    BY <1>1 DEF OpenAutoTune
  <2>2. limits \in Int \X Int /\ stored \in Int \X Int /\ position \in Int
    BY AutoTuneAssumption
  <2>3. Around(position, limits) \in Int \X Int
    BY <2>2 DEF Around, HalfSpan, Larger, Smaller
  <2>4. tuneRange' \in Int \X Int
    BY <2>1, <2>2, <2>3 DEF AutoInd, AutoTables
  <2>5. QED
    BY <1>1, <2>4, RangeStep DEF OpenAutoTune
<1>2. CASE TypeRange
  <2>1. tuneRange' \in Int \X Int
    BY <1>2, AutoTuneAssumption DEF TypeRange, AutoInd, AutoTables
  <2>2. QED
    BY <1>2, <2>1, RangeStep DEF TypeRange
<1>3. ASSUME NEW a \in TuneAxes, tuneRun.axis = "none", Valid(tuneRange), StartAutoTune(a)
      PROVE  AutoInd'
  <2> DEFINE r == [id |-> asked + 1, phase |-> "sent"]
             q == [id |-> asked + 1, range |-> Payload(tuneRange)]
  <2>1. asked' = asked + 1 /\ asked' \in 0..MaxRuns
    BY <1>3, AutoTuneAssumption DEF StartAutoTune, AutoInd, AutoTables
  <2>2. Payload(tuneRange) \in Int \X Int /\ Payload(tuneRange)[1] < Payload(tuneRange)[2]
    BY <1>3 DEF Valid, Payload, RangeNumber, AutoInd, AutoTables
  <2>3. r \in TuneRuns /\ q \in TuneRequests /\ q.range[1] < q.range[2]
    BY <2>1, <2>2 DEF TuneRuns, TuneRequests, AutoInd, AutoTables
  <2>4. runs = {} /\ runs' = {r} /\ queued' = queued \cup {q}
    BY <1>3 DEF StartAutoTune, AutoInd, OnlyRun
  <2>5. tuneRun' = [axis |-> a, stopping |-> FALSE] /\ unheeded' = FALSE /\ a # "none"
        /\ UNCHANGED <<tuneRange, stops, tuner, stopFlag>>
    BY <1>3, AutoTuneAssumption DEF StartAutoTune
  <2> HIDE DEF r, q
  <2>6. AutoTables'
    BY <2>1, <2>3, <2>4, <2>5 DEF AutoInd, AutoTables
  <2>7. asked' >= 1
    BY <2>1 DEF AutoInd, AutoTables
  <2>8. OnlyRun' /\ RunsAreForward' /\ RangeIsForward'
    BY <2>3, <2>4, <2>5, <2>7 DEF AutoInd, OnlyRun, RunsAreForward, RangeIsForward
  <2>9. QED
    BY <2>5, <2>6, <2>8 DEF AutoInd, EarlyStopHasCause, UnheededStopHasCause
<1>4. ASSUME tuneRun.axis # "none", StopAutoTune PROVE AutoInd'
  <2>1. asked \in 1..MaxRuns
    BY <1>4 DEF AutoInd, AutoTables, OnlyRun
  <2>2. tuneRun' = [tuneRun EXCEPT !.stopping = TRUE] /\ stops' = stops \cup {asked}
        /\ UNCHANGED <<tuneRange, runs, queued, asked, tuner, stopFlag, unheeded>>
    BY <1>4 DEF StopAutoTune
  <2>3. tuneRun' \in [axis : TuneAxes, stopping : BOOLEAN] /\ tuneRun'.axis = tuneRun.axis
    <3>1. tuneRun \in [axis : TuneAxes, stopping : BOOLEAN]
        BY <1>4 DEF AutoInd, AutoTables, NoTune
    <3>2. QED
        BY <2>2, <3>1
  <2>4. QED
    BY <2>1, <2>2, <2>3
    DEF AutoInd, AutoTables, OnlyRun, RunsAreForward, RangeIsForward, EarlyStopHasCause,
        UnheededStopHasCause, Waiting
<1>5. ASSUME NEW r \in runs, RunEnds(r) PROVE AutoInd'
  <2>1. runs' = {} /\ tuneRun' = NoTune
    BY <1>5 DEF RunEnds, AutoInd, OnlyRun
  <2>2. QED
    BY <1>5, <2>1
    DEF RunEnds, NoTune, AutoInd, AutoTables, OnlyRun, RunsAreForward, RangeIsForward,
        EarlyStopHasCause, UnheededStopHasCause, Waiting
<1>6. ASSUME NEW r \in runs, LoseRun(r) PROVE AutoInd'
  <2> DEFINE s == [r EXCEPT !.phase = "lost"]
  <2>1. s \in TuneRuns /\ s.id = r.id
    BY DEF AutoInd, AutoTables, TuneRuns
  <2>2. runs' = {s} /\ queued' \subseteq queued
        /\ UNCHANGED <<tuneRange, tuneRun, stops, asked, tuner, stopFlag, unheeded>>
    BY <1>6 DEF LoseRun, AutoInd, OnlyRun
  <2> HIDE DEF s
  <2>3. AutoTables' /\ OnlyRun' /\ RunsAreForward' /\ RangeIsForward'
    BY <2>1, <2>2 DEF AutoInd, AutoTables, OnlyRun, RunsAreForward, RangeIsForward
  <2>4. EarlyStopHasCause' /\ UnheededStopHasCause'
    BY <2>1, <2>2 DEF AutoInd, EarlyStopHasCause, UnheededStopHasCause, Waiting
  <2>5. QED
    BY <2>3, <2>4 DEF AutoInd
<1>7. ASSUME NEW s \in stops, LoseStop(s) \/ ServeStop(s) PROVE AutoInd'
  <2>1. AutoTables' /\ OnlyRun' /\ RunsAreForward' /\ RangeIsForward'
    BY <1>7 DEF LoseStop, ServeStop, AutoInd, AutoTables, OnlyRun, RunsAreForward,
                RangeIsForward
  <2>2. EarlyStopHasCause' /\ UnheededStopHasCause'
    BY <1>7 DEF LoseStop, ServeStop, AutoInd, AutoTables, EarlyStopHasCause,
                UnheededStopHasCause, Waiting
  <2>3. QED
    BY <2>1, <2>2 DEF AutoInd
<1>8. ASSUME NEW q \in queued, BeginRun(q) PROVE AutoInd'
  <2>1. tuner' = q /\ queued' = queued \ {q} /\ stopFlag' = FALSE
        /\ UNCHANGED <<tuneRange, tuneRun, runs, stops, asked, unheeded>>
    BY <1>8 DEF BeginRun
  <2>2. q \in TuneRequests /\ q.range[1] < q.range[2]
    BY DEF AutoInd, AutoTables, RunsAreForward
  <2>3. AutoTables' /\ OnlyRun' /\ RunsAreForward' /\ RangeIsForward'
    BY <2>1, <2>2
    DEF AutoInd, AutoTables, TuneRequests, OnlyRun, RunsAreForward, RangeIsForward
  <2>4. EarlyStopHasCause' /\ UnheededStopHasCause'
    BY <2>1 DEF AutoInd, EarlyStopHasCause, UnheededStopHasCause, Waiting
  <2>5. QED
    BY <2>3, <2>4 DEF AutoInd
<1>9. CASE FinishRun
  <2>1. tuner' = NoRun
        /\ UNCHANGED <<tuneRange, tuneRun, queued, stops, asked, stopFlag, unheeded>>
    BY <1>9 DEF FinishRun
  <2> DEFINE f(r) == IF r.id = tuner.id /\ r.phase = "sent" THEN [r EXCEPT !.phase = "answered"]
                     ELSE r
  <2>2. runs' = {f(r) : r \in runs}
    BY <1>9 DEF FinishRun
  <2>3. \A r \in runs : f(r) \in TuneRuns /\ f(r).id = r.id
    BY DEF AutoInd, AutoTables, TuneRuns
  <2> HIDE DEF f
  <2>4. AutoTables' /\ OnlyRun' /\ RunsAreForward' /\ RangeIsForward'
    BY <2>1, <2>2, <2>3
    DEF AutoInd, AutoTables, OnlyRun, RunsAreForward, RangeIsForward, NoRun
  <2>5. EarlyStopHasCause' /\ UnheededStopHasCause'
    BY <2>1, <2>2, <2>3 DEF AutoInd, EarlyStopHasCause, UnheededStopHasCause, Waiting
  <2>6. QED
    BY <2>4, <2>5 DEF AutoInd
<1>10. CASE UNCHANGED autoVars
    BY <1>10, RangeStep DEF autoVars, AutoInd, AutoTables
<1>11. QED
    BY <1>1, <1>2, <1>3, <1>4, <1>5, <1>6, <1>7, <1>8, <1>9, <1>10
    DEF AutoNext, AutoPanel, AutoRun, AutoServer, SubmitAuto

\* One run of a page at a time, through a range that goes forward, and a stop that is
\* shown is heeded unless it was lost or came too early (runAutoTune, stopAutoTune).
THEOREM AutoTuneIsStopped == PanelPagesSpec => []AutoTuneInv
<1>1. PanelPagesSpec => AutoInit
    BY DEF PanelPagesSpec, PanelsInit
<1>2. QED
    BY <1>1, AutoEntails, AutoStarts, AutoStep, PanelPagesAddNothing, PTL
-----------------------------------------------------------------------------
(* The settings *)

Values == Contents \cup {Fallback}
GetSet == [id : Nat, own : Int, phase : {"sent", "ok", "failed", "settled"}, value : Values,
           crossed : BOOLEAN]
PostSet == [kind : {"none", "save", "apply"}, value : Values,
            phase : {"none", "sent", "ok", "failed"}, crossed : BOOLEAN]

SettingsTables ==
    /\ cached \in Values /\ settingsForm \in Values
    /\ storedSettings \in Values /\ inForce \in Values
    /\ openings \in Nat /\ opened \in 0..openings /\ operations \in Nat
    /\ gets \subseteq GetSet /\ post \in PostSet
    /\ behind \in BOOLEAN /\ typedText \in Values

\* An answer on its way has what is in force, unless that has changed since.
Current(request) == request.phase = "ok" /\ ~request.crossed => request.value = inForce
AnswersAreCurrent == Current(post) /\ \A g \in gets : Current(g)

\* Where a load of an opening may fill in the form, what was typed counts as dirty.
TypedIsDirty == opened # 0 /\ typedText # Fallback => formDirty \/ waits
OwnLoads == waits => \A g \in gets : g.own <= 0

SettingsInd ==
    /\ SettingsTables /\ CacheFollowsServer /\ AnswersAreCurrent
    /\ OpeningKeepsEdits /\ TypedIsDirty /\ OwnLoads

LEMMA SettingsEntail == SettingsInd => SettingsInv /\ OpeningKeepsEdits
    BY DEF SettingsInd, SettingsTables, SettingsInv, SettingsTypeOK, Values, PostSet

LEMMA SentProps ==
    ASSUME NEW id \in Nat, NEW own \in Int
    PROVE  Sent(id, own) \in GetSet /\ Sent(id, own).own = own /\ Sent(id, own).phase = "sent"
    BY DEF Sent, GetSet, Values

LEMMA SettingsStart == SettingsInit => SettingsInd
<1> SUFFICES ASSUME SettingsInit PROVE SettingsInd
    OBVIOUS
<1>1. gets = {Sent(0, 0)} /\ Sent(0, 0) \in GetSet /\ Sent(0, 0).own = 0
      /\ Sent(0, 0).phase = "sent"
    BY SentProps DEF SettingsInit
<1>2. post \in PostSet /\ post.phase = "none"
    BY DEF SettingsInit, NoPost, Values, PostSet
<1>3. openings = 0 /\ opened = 0 /\ operations = 0
    BY DEF SettingsInit
<1>4. openings \in Nat /\ opened \in 0..openings /\ operations \in Nat
    BY <1>3
<1>5. SettingsTables
    BY <1>1, <1>2, <1>4 DEF SettingsInit, SettingsTables, Values
<1>6. AnswersAreCurrent /\ OwnLoads
    BY <1>1, <1>2 DEF AnswersAreCurrent, Current, OwnLoads
<1>7. QED
    BY <1>5, <1>6 DEF SettingsInit, SettingsInd, CacheFollowsServer, OpeningKeepsEdits,
                      TypedIsDirty

\* What changes neither side's settings, nor the open panel: a request that is sent, or
\* leaves, or is answered.
LEMMA SettingsLoadStep ==
    ASSUME SettingsInd, openings' \in Nat, opened' \in 0..openings', operations' \in Nat,
           opened' \in {opened, 0}, \A g \in gets' \ gets :
              g \in GetSet /\ Current(g) /\ (waits => g.own <= 0),
           UNCHANGED <<waits, cached, settingsForm, formDirty, post, storedSettings, inForce,
                       behind, typedText>>
    PROVE  SettingsInd'
<1>1. SettingsTables' /\ CacheFollowsServer'
    BY DEF SettingsInd, SettingsTables, CacheFollowsServer
<1>2. AnswersAreCurrent' /\ OwnLoads'
    BY DEF SettingsInd, AnswersAreCurrent, Current, OwnLoads
<1>3. OpeningKeepsEdits' /\ TypedIsDirty'
    BY DEF SettingsInd, OpeningKeepsEdits, TypedIsDirty
<1>4. QED
    BY <1>1, <1>2, <1>3 DEF SettingsInd

LEMMA SettingsRequested ==
    ASSUME SettingsInd, OpenSettings \/ AwaitSettings \/ LoadSettings
    PROVE  SettingsInd'
<1>1. operations + 1 \in Nat /\ openings + 1 \in Int /\ Awaited \in Int /\ Awaited <= 0
      /\ operations' = operations + 1
    BY DEF OpenSettings, AwaitSettings, LoadSettings, Busy, SettingsInd, SettingsTables, Awaited
<1>2. CASE OpenSettings
  <2> DEFINE g == Sent(operations + 1, openings + 1)
  <2>1. g \in GetSet /\ g.phase = "sent"
    BY <1>1, SentProps
  <2>2. gets' = gets \cup {g} /\ opened' = openings + 1 /\ openings' = openings + 1
        /\ settingsForm' = cached /\ typedText' = Fallback /\ ~waits
        /\ UNCHANGED <<waits, cached, post, storedSettings, inForce, behind>>
    BY <1>2 DEF OpenSettings
  <2> HIDE DEF g
  <2>3. SettingsTables' /\ CacheFollowsServer'
    BY <1>1, <2>1, <2>2 DEF SettingsInd, SettingsTables, CacheFollowsServer, Values
  <2>4. AnswersAreCurrent' /\ OwnLoads'
    BY <2>1, <2>2 DEF SettingsInd, AnswersAreCurrent, Current, OwnLoads
  <2>5. QED
    BY <2>2, <2>3, <2>4 DEF SettingsInd, OpeningKeepsEdits, TypedIsDirty
<1>3. CASE AwaitSettings \/ LoadSettings
  <2>1. PICK own \in {Awaited, 0} : gets' = gets \cup {Sent(operations + 1, own)}
    BY <1>3 DEF AwaitSettings, LoadSettings
  <2>2. Sent(operations + 1, own) \in GetSet /\ Sent(operations + 1, own).own <= 0
        /\ Sent(operations + 1, own).phase = "sent"
    BY <1>1, SentProps
  <2>3. UNCHANGED <<waits, cached, settingsForm, formDirty, opened, openings, post,
                    storedSettings, inForce, behind, typedText>>
    BY <1>3 DEF AwaitSettings, LoadSettings
  <2>4. QED
    BY <1>1, <2>1, <2>2, <2>3, SettingsLoadStep DEF Current, SettingsInd, SettingsTables
<1>4. QED
    BY <1>2, <1>3

LEMMA SettingsTaken ==
    ASSUME SettingsInd, NEW g \in gets, LoadDone(g)
    PROVE  SettingsInd'
<1> DEFINE value == IF g.phase = "ok" THEN g.value ELSE IF g.own > 0 THEN cached ELSE Fallback
           shown == g.own <= 0 /\ g.phase = "ok" /\ opened # 0
           done == [Sent(g.id, g.own) EXCEPT !.phase = "settled"]
<1>1. g \in GetSet /\ value \in Values
    BY DEF SettingsInd, SettingsTables, GetSet, Values
<1>2. done \in GetSet /\ done.own = g.own /\ done.phase = "settled"
    BY <1>1 DEF GetSet, Sent, Values
<1>3. gets' \subseteq (gets \ {g}) \cup {done} /\ cached' = value
      /\ settingsForm' = (IF shown THEN value ELSE settingsForm)
      /\ behind' = (IF g.phase = "ok" THEN g.crossed ELSE behind)
      /\ typedText' = (IF shown THEN Fallback ELSE typedText)
      /\ UNCHANGED <<waits, formDirty, opened, openings, post, operations, storedSettings,
                     inForce>>
    BY DEF LoadDone
<1>4. (g.phase = "ok" /\ ~g.crossed => value = inForce) /\ (value # Fallback =>
          g.phase = "ok" \/ value = cached)
    BY DEF SettingsInd, AnswersAreCurrent, Current
<1> HIDE DEF value, done, shown
<1>5. SettingsTables'
    BY <1>1, <1>2, <1>3 DEF SettingsInd, SettingsTables, GetSet, Values
<1>6. CacheFollowsServer'
    BY <1>3, <1>4 DEF SettingsInd, CacheFollowsServer
<1>7. AnswersAreCurrent' /\ OwnLoads'
    BY <1>2, <1>3 DEF SettingsInd, AnswersAreCurrent, Current, OwnLoads
<1>8. OpeningKeepsEdits' /\ TypedIsDirty'
    BY <1>3 DEF SettingsInd, OpeningKeepsEdits, TypedIsDirty
<1>9. QED
    BY <1>5, <1>6, <1>7, <1>8 DEF SettingsInd

\* A load fills in the form only where nothing was typed, or as its panel opens.
LEMMA SettingsFilled ==
    ASSUME SettingsInd, NEW g \in gets, FillOpened(g) \/ FillAwaited(g)
    PROVE  SettingsInd'
<1>1. gets' = gets \ {g} /\ settingsForm' \in {cached, settingsForm}
      /\ UNCHANGED <<waits, cached, formDirty, post, operations, storedSettings, inForce, behind>>
    BY DEF FillOpened, FillAwaited
<1>2. openings' \in Nat /\ opened' \in 0..openings' /\ typedText' \in {typedText, Fallback}
    BY DEF FillOpened, FillAwaited, SettingsInd, SettingsTables
<1>3. SettingsTables' /\ CacheFollowsServer' /\ AnswersAreCurrent' /\ OwnLoads'
    BY <1>1, <1>2 DEF SettingsInd, SettingsTables, CacheFollowsServer, AnswersAreCurrent,
                      Current, OwnLoads, Values
<1>4. OpeningKeepsEdits' /\ TypedIsDirty'
  <2>1. CASE FillAwaited(g)
    BY <2>1 DEF FillAwaited, OpeningKeepsEdits, TypedIsDirty
  <2>2. CASE FillOpened(g)
    <3>1. g.own > 0 /\ g.own \in Int
        BY <2>2 DEF FillOpened, SettingsInd, SettingsTables, GetSet
    <3>2. ~waits
        BY <3>1 DEF SettingsInd, OwnLoads
    <3>3. QED
        BY <2>2, <3>2 DEF FillOpened, SettingsInd, OpeningKeepsEdits, TypedIsDirty
  <2>3. QED
    BY <2>1, <2>2
<1>5. QED
    BY <1>3, <1>4 DEF SettingsInd

\* What is in force changes: no answer that is on its way counts as current any more.
LEMMA SettingsChanged ==
    ASSUME SettingsInd, Changed, inForce' \in Values, storedSettings' \in Values,
           post' \in PostSet, Current(post)',
           UNCHANGED <<waits, cached, settingsForm, formDirty, opened, openings, operations,
                       typedText>>
    PROVE  SettingsInd'
<1>1. \A g \in gets : Crossed(g) \in GetSet /\ Crossed(g).own = g.own
                      /\ (Crossed(g).phase = "ok" => Crossed(g).crossed)
    BY DEF Crossed, GetSet, SettingsInd, SettingsTables
<1>2. gets' = {Crossed(g) : g \in gets} /\ behind' = TRUE
    BY DEF Changed
<1>3. SettingsTables' /\ CacheFollowsServer'
    BY <1>1, <1>2 DEF SettingsInd, SettingsTables, CacheFollowsServer
<1>4. AnswersAreCurrent' /\ OwnLoads'
    BY <1>1, <1>2 DEF SettingsInd, AnswersAreCurrent, Current, OwnLoads
<1>5. QED
    BY <1>3, <1>4 DEF SettingsInd, OpeningKeepsEdits, TypedIsDirty

LEMMA SettingsStep == SettingsInd /\ [SettingsNext]_settingsVars => SettingsInd'
<1> SUFFICES ASSUME SettingsInd, [SettingsNext]_settingsVars PROVE SettingsInd'
    OBVIOUS
<1>0. openings \in Nat /\ opened \in 0..openings /\ operations \in Nat
      /\ operations + 1 \in Nat /\ openings + 1 \in Nat /\ 0 \in 0..openings + 1
    BY DEF SettingsInd, SettingsTables
<1>1. CASE CloseSettings \/ SetStep \/ StepTimerFires
    BY <1>0, <1>1, SettingsLoadStep DEF CloseSettings, SetStep, StepTimerFires, Busy
<1>2. ASSUME NEW v \in Contents, TypeSettings(v) PROVE SettingsInd'
  <2>1. SettingsTables' /\ CacheFollowsServer' /\ AnswersAreCurrent' /\ OwnLoads'
    BY <1>2 DEF TypeSettings, SettingsInd, SettingsTables, CacheFollowsServer,
                AnswersAreCurrent, Current, OwnLoads, Values
  <2>2. QED
    BY <1>2, <2>1 DEF TypeSettings, SettingsInd, OpeningKeepsEdits, TypedIsDirty
<1>3. ASSUME NEW g \in gets, ServeLoad(g) \/ FailLoad(g) PROVE SettingsInd'
  <2> DEFINE ok == [g EXCEPT !.phase = "ok", !.value = inForce]
             failed == [g EXCEPT !.phase = "failed"]
  <2>1. ok \in GetSet /\ failed \in GetSet /\ ok.own = g.own /\ failed.own = g.own
        /\ ok.value = inForce /\ failed.phase = "failed"
    BY DEF SettingsInd, SettingsTables, GetSet
  <2>2. gets' = (gets \ {g}) \cup {ok} \/ gets' = (gets \ {g}) \cup {failed}
    BY <1>3 DEF ServeLoad, FailLoad
  <2>3. UNCHANGED <<waits, cached, settingsForm, formDirty, opened, openings, operations, post,
                    storedSettings, inForce, behind, typedText>>
    BY <1>3 DEF ServeLoad, FailLoad
  <2> HIDE DEF ok, failed
  <2>4. \A h \in gets' \ gets : h \in GetSet /\ Current(h) /\ (waits => h.own <= 0)
    BY <2>1, <2>2 DEF Current, SettingsInd, OwnLoads
  <2>5. QED
    BY <1>0, <2>3, <2>4, SettingsLoadStep
<1>4. ASSUME NEW kind \in {"save", "apply"}, SendSettings(kind) PROVE SettingsInd'
  <2> DEFINE p == [NoPost EXCEPT !.kind = kind, !.value = settingsForm, !.phase = "sent"]
  <2>1. p \in PostSet /\ p.phase = "sent"
    BY DEF NoPost, PostSet, Values, SettingsInd, SettingsTables
  <2>2. post' = p /\ operations' = operations + 1
        /\ UNCHANGED <<waits, cached, settingsForm, formDirty, opened, openings, gets,
                       storedSettings, inForce, behind, typedText>>
    BY <1>4 DEF SendSettings, Busy
  <2> HIDE DEF p
  <2>3. QED
    BY <1>0, <2>1, <2>2 DEF SettingsInd, SettingsTables, CacheFollowsServer, AnswersAreCurrent,
                      Current, OpeningKeepsEdits, TypedIsDirty, OwnLoads
<1>5. CASE ServeSettings
  <2>1. [post EXCEPT !.phase = "ok"] \in PostSet /\ post.value \in Values
        /\ [post EXCEPT !.phase = "ok"].value = post.value
    BY DEF PostSet, SettingsInd, SettingsTables
  <2>2. Current(post)'
    BY <1>5, <2>1 DEF ServeSettings, Current
  <2>3. QED
    BY <1>5, <2>1, <2>2, SettingsChanged DEF ServeSettings, SettingsInd, SettingsTables
<1>6. CASE LoseSettings
  <2>1. [post EXCEPT !.phase = "failed"] \in PostSet
        /\ [post EXCEPT !.phase = "failed"].phase = "failed"
    BY DEF PostSet, SettingsInd, SettingsTables
  <2>2. QED
    BY <1>6, <2>1 DEF LoseSettings, SettingsInd, SettingsTables, CacheFollowsServer,
                      AnswersAreCurrent, Current, OpeningKeepsEdits, TypedIsDirty, OwnLoads
<1>7. CASE SettingsSent
  <2>1. NoPost \in PostSet /\ NoPost.phase = "none"
    BY DEF NoPost, Values, PostSet
  <2>2. SettingsTables'
    BY <1>7, <2>1 DEF SettingsSent, SettingsInd, SettingsTables, PostSet, Values
  <2>3. CacheFollowsServer' /\ AnswersAreCurrent' /\ OwnLoads'
    BY <1>7, <2>1 DEF SettingsSent, SettingsInd, CacheFollowsServer, AnswersAreCurrent,
                      Current, OwnLoads
  <2>4. OpeningKeepsEdits' /\ TypedIsDirty'
    BY <1>7 DEF SettingsSent, SettingsInd, OpeningKeepsEdits, TypedIsDirty
  <2>5. QED
    BY <2>2, <2>3, <2>4 DEF SettingsInd
<1>8. CASE ServeSteps \/ LoseSteps
    BY <1>8 DEF ServeSteps, LoseSteps, SettingsInd, SettingsTables, CacheFollowsServer,
                AnswersAreCurrent, Current, OpeningKeepsEdits, TypedIsDirty, OwnLoads
<1>9. CASE RestartServer
  <2>1. Crossed(post) \in PostSet /\ (Crossed(post).phase = "ok" => Crossed(post).crossed)
    BY DEF Crossed, PostSet, SettingsInd, SettingsTables
  <2>2. Current(post)'
    BY <1>9, <2>1 DEF RestartServer, Current
  <2>3. QED
    BY <1>9, <2>1, <2>2, SettingsChanged DEF RestartServer, SettingsInd, SettingsTables
<1>10. CASE UNCHANGED settingsVars
    BY <1>0, <1>10, SettingsLoadStep DEF settingsVars
<1>11. QED
    BY <1>1, <1>2, <1>3, <1>4, <1>5, <1>6, <1>7, <1>8, <1>9, <1>10, SettingsRequested,
       SettingsTaken, SettingsFilled
    DEF SettingsNext, SettingsPanel, SettingsLoads, SettingsPosts, SettingsServer

\* What a page validates its commands with is what the server uses, once the page has
\* taken an answer given since the last change; an answer overtaken by a change leaves it
\* behind until the next one (loadAppSettings, saveSystemSettings, applySystemSettings).
THEOREM SettingsAreTheServers == PanelPagesSpec => []SettingsInv
<1>1. PanelPagesSpec => SettingsInit
    BY DEF PanelPagesSpec, PanelsInit
<1>2. QED
    BY <1>1, SettingsEntail, SettingsStart, SettingsStep, PanelPagesAddNothing, PTL

\* What is typed into the open settings panel stays there whatever answers to the loads
\* of its openings come in, until another part of the page loads the settings, a Save or
\* Apply is answered, or the panel is opened again (openSettingsPanel).
THEOREM OpeningKeepsWhatIsTyped == PanelPagesSpec => []OpeningKeepsEdits
<1>1. PanelPagesSpec => SettingsInit
    BY DEF PanelPagesSpec, PanelsInit
<1>2. QED
    BY <1>1, SettingsEntail, SettingsStart, SettingsStep, PanelPagesAddNothing, PTL
-----------------------------------------------------------------------------
(* The motion state of an axis *)

\* The log keeps the newest of the moves it has warned of; the one that timed out last
\* is among them.
WarningsInOrder ==
    /\ move \in [number : Nat, phase : Phases]
    /\ reported \in Seq(Nat) /\ warnings \in Seq(Nat)
    /\ Len(reported) <= TimeoutsKept
    /\ warnings = <<>> <=> reported = <<>>
    /\ warnings # <<>> => reported[Len(reported)] = warnings[Len(warnings)]
    /\ \A i \in DOMAIN warnings : warnings[i] <= move.number
    /\ \A i, j \in DOMAIN warnings : i < j => warnings[i] < warnings[j]

MotionStatusInd ==
    /\ WarningsInOrder /\ move.number <= MaxMoves
    /\ TurningIsNotReady /\ ReachedPointsThere
LEMMA MotionStatusEntails == MotionStatusInd => MotionStatusInv
<1> SUFFICES ASSUME MotionStatusInd PROVE MotionStatusInv
    OBVIOUS
<1>1. MotionTypeOK
    BY MotionStatusAssumption DEF MotionStatusInd, WarningsInOrder, MotionTypeOK
<1>2. TimeoutLoggedOnce
  <2> SUFFICES ASSUME NEW i \in DOMAIN warnings, NEW j \in DOMAIN warnings,
                      warnings[i] = warnings[j]
               PROVE  i = j
    BY DEF TimeoutLoggedOnce
  <2>1. i \in Int /\ j \in Int /\ warnings[i] \in Nat
    BY DEF MotionStatusInd, WarningsInOrder
  <2>2. ~(i < j) /\ ~(j < i)
    BY <2>1 DEF MotionStatusInd, WarningsInOrder
  <2>3. QED
    BY <2>1, <2>2
<1>3. QED
    BY <1>1, <1>2 DEF MotionStatusInd, MotionStatusInv

LEMMA MotionStatusStarts == MotionInit => MotionStatusInd
<1> SUFFICES ASSUME MotionInit PROVE MotionStatusInd
    OBVIOUS
<1>1. TurningIsNotReady /\ ReachedPointsThere
    BY DEF MotionInit, NothingShown, TurningIsNotReady, ReachedPointsThere
<1>2. move \in [number : Nat, phase : Phases] /\ move.number <= MaxMoves
    BY MotionStatusAssumption DEF MotionInit, Phases
<1>3. Len(reported) <= TimeoutsKept
    BY MotionStatusAssumption DEF MotionInit
<1>4. QED
    BY <1>1, <1>2, <1>3 DEF MotionInit, MotionStatusInd, WarningsInOrder

\* The distance of the altitude is zero at a whole turn.
LEMMA NoDistance ==
    ASSUME NEW axis \in AxisKinds, NEW target \in Int, NEW position \in Int,
           position <= (target % 360) + 540
    PROVE  Distance(axis, target, position) = 0 <=>
             IF axis = "Altitude" THEN (target - position) % 360 = 0 ELSE target = position
<1>1. CASE axis = "Azimuth"
    BY <1>1 DEF Distance
<1>2. CASE axis = "Altitude"
  <2>1. ((((target % 360) - position + 540) % 360) - 180 = 0) <=> (target - position) % 360 = 0
    OBVIOUS
  <2>2. (((target % 360) - position + 540) % 360) - 180 \in Int
    OBVIOUS
  <2>3. Remainder((target % 360) - position + 540, 360) = ((target % 360) - position + 540) % 360
    BY DEF Remainder
  <2>4. QED
    BY <1>2, <2>1, <2>2, <2>3 DEF Distance
<1>3. QED
    BY <1>1, <1>2 DEF AxisKinds

LEMMA TimeoutIsLogged ==
    ASSUME MotionStatusInd, LogPositionTimeout(move.number), UNCHANGED move
    PROVE  WarningsInOrder'
<1> USE DEF MotionStatusInd, WarningsInOrder
<1>1. CASE \E i \in DOMAIN reported : reported[i] = move.number
    BY <1>1 DEF LogPositionTimeout
<1>2. CASE ~\E i \in DOMAIN reported : reported[i] = move.number
  <2> DEFINE n == move.number
             all == Append(reported, n)
             kept1 == IF Len(all) > TimeoutsKept THEN Tail(all) ELSE all
  <2>1. reported' = kept1 /\ warnings' = Append(warnings, n) /\ n \in Nat
    BY <1>2 DEF LogPositionTimeout
  <2>2. all \in Seq(Nat) /\ Len(all) = Len(reported) + 1 /\ all[Len(all)] = n
    BY <2>1
  <2> HIDE DEF all
  <2>3. kept1 \in Seq(Nat) /\ kept1 # <<>> /\ Len(kept1) <= TimeoutsKept /\ kept1[Len(kept1)] = n
    <3>1. CASE Len(all) > TimeoutsKept
      <4>1. Tail(all) \in Seq(Nat) /\ Len(Tail(all)) = Len(reported)
       <5>1. all # <<>> /\ Len(reported) \in Nat
        BY <2>2
       <5>2. QED
        BY <2>2, <5>1
      <4>2. Len(reported) = TimeoutsKept /\ TimeoutsKept \in Nat \ {0}
        BY <2>2, <3>1, MotionStatusAssumption
      <4>3. Tail(all)[Len(reported)] = all[Len(reported) + 1]
        BY <2>2, <4>1, <4>2
      <4>4. QED
        BY <2>2, <3>1, <4>1, <4>2, <4>3
    <3>2. CASE ~(Len(all) > TimeoutsKept)
      <4>1. kept1 = all /\ Len(all) \in Nat /\ Len(all) > 0
        BY <2>2, <3>2
      <4>2. Len(all) <= TimeoutsKept /\ all # <<>>
        BY <2>2, <3>2, <4>1, MotionStatusAssumption
      <4>3. QED
        BY <2>2, <4>1, <4>2
    <3>3. QED
        BY <3>1, <3>2
  <2>4. \A i \in DOMAIN warnings : warnings[i] < n
    <3> SUFFICES ASSUME NEW i \in DOMAIN warnings, warnings[i] = n PROVE FALSE
        BY <2>1
    <3>1. warnings # <<>> /\ Len(warnings) \in DOMAIN warnings
        OBVIOUS
    <3>2. warnings[Len(warnings)] = n
      <4>1. i = Len(warnings) \/ i < Len(warnings)
        OBVIOUS
      <4>2. warnings[i] <= warnings[Len(warnings)] /\ warnings[Len(warnings)] <= n
        BY <3>1, <4>1
      <4>3. QED
        BY <3>1, <4>2
    <3>3. reported # <<>> /\ Len(reported) \in DOMAIN reported
        BY <3>1
    <3>4. QED
        BY <1>2, <3>1, <3>2, <3>3
  <2> HIDE DEF kept1
  <2>5. warnings' \in Seq(Nat) /\ warnings' # <<>> /\ warnings'[Len(warnings')] = n
        /\ Len(warnings') = Len(warnings) + 1
        /\ \A i \in DOMAIN warnings : warnings'[i] = warnings[i]
    BY <2>1
  <2>6. \A i \in DOMAIN warnings' : i = Len(warnings') \/ i \in DOMAIN warnings
    BY <2>5
  <2>7. \A i \in DOMAIN warnings' : warnings'[i] <= n
    BY <2>1, <2>4, <2>5, <2>6
  <2>8. \A i, j \in DOMAIN warnings' : i < j => warnings'[i] < warnings'[j]
    <3> SUFFICES ASSUME NEW i \in DOMAIN warnings', NEW j \in DOMAIN warnings', i < j
                 PROVE  warnings'[i] < warnings'[j]
        OBVIOUS
    <3>1. i \in DOMAIN warnings
        BY <2>5, <2>6
    <3>2. QED
        BY <2>4, <2>5, <2>6, <3>1
  <2>9. QED
    BY <2>1, <2>3, <2>5, <2>7, <2>8
<1>3. QED
    BY <1>1, <1>2

LEMMA MotionStatusStep == MotionStatusInd /\ [MotionStatusNext]_motionVars => MotionStatusInd'
<1> SUFFICES ASSUME MotionStatusInd, [MotionStatusNext]_motionVars PROVE MotionStatusInd'
    OBVIOUS
<1>1. CASE StartMove
  <2>1. move' = [number |-> move.number + 1, phase |-> "moving"] /\ move.number + 1 <= MaxMoves
        /\ UNCHANGED <<motionShown, reported, warnings>>
    BY <1>1, MotionStatusAssumption DEF StartMove, MotionStatusInd, WarningsInOrder
  <2>2. WarningsInOrder'
    BY <2>1 DEF MotionStatusInd, WarningsInOrder, Phases
  <2>3. QED
    BY <2>1, <2>2 DEF MotionStatusInd, TurningIsNotReady, ReachedPointsThere
<1>2. CASE EndMove
  <2>1. PICK p \in {"none", "reached", "timeout"} : move' = [move EXCEPT !.phase = p]
    BY <1>2 DEF EndMove
  <2>2. UNCHANGED <<motionShown, reported, warnings>>
    BY <1>2 DEF EndMove
  <2>3. move' \in [number : Nat, phase : Phases] /\ move'.number = move.number
    BY <2>1 DEF MotionStatusInd, WarningsInOrder, Phases
  <2>4. QED
    BY <2>2, <2>3 DEF MotionStatusInd, WarningsInOrder, TurningIsNotReady, ReachedPointsThere
<1>3. CASE ShowMotion
  <2>1. PICK available, armed, sine, velocityMode, command, setpoint, actual, done \in BOOLEAN,
            axis \in AxisKinds, pair \in Degrees :
          LET s == [available |-> available, armed |-> armed, phase |-> move.phase, sine |-> sine,
                    velocityMode |-> velocityMode, command |-> command, setpoint |-> setpoint,
                    actual |-> actual, done |-> done, axis |-> axis, target |-> pair[1],
                    position |-> pair[2]]
          IN  /\ motionShown' = [label |-> MotionLabel(s), phase |-> move.phase,
                     driven |-> available /\ armed /\ Moves(s) /\ (velocityMode \/ AnglesKnown(s)),
                     there |-> OnTarget(s)]
              /\ IF move.phase = "timeout" THEN LogPositionTimeout(move.number)
                 ELSE UNCHANGED <<reported, warnings>>
              /\ UNCHANGED move
    BY <1>3 DEF ShowMotion
  <2>2. WarningsInOrder' /\ move'.number <= MaxMoves
    BY <2>1, TimeoutIsLogged DEF MotionStatusInd, WarningsInOrder
  <2> DEFINE s == [available |-> available, armed |-> armed, phase |-> move.phase, sine |-> sine,
                   velocityMode |-> velocityMode, command |-> command, setpoint |-> setpoint,
                   actual |-> actual, done |-> done, axis |-> axis, target |-> pair[1],
                   position |-> pair[2]]
  <2>3. /\ s.available = available /\ s.armed = armed /\ s.phase = move.phase
        /\ s.velocityMode = velocityMode /\ s.actual = actual /\ s.axis = axis
        /\ s.target \in Int /\ s.position \in Int /\ s.axis \in AxisKinds
        /\ s.position # NoDegrees => s.position <= (s.target % 360) + 540
    BY MotionStatusAssumption
  <2>4. motionShown'.label = MotionLabel(s) /\ motionShown'.phase = s.phase
        /\ (motionShown'.driven <=>
               available /\ armed /\ Moves(s) /\ (velocityMode \/ AnglesKnown(s)))
        /\ (motionShown'.there <=> OnTarget(s))
    BY <2>1
  <2> HIDE DEF s
  <2>5. TurningIsNotReady'
    BY <2>3, <2>4 DEF TurningIsNotReady, MotionLabel
  <2>6. ReachedPointsThere'
    <3>1. AnglesKnown(s) /\ ~s.actual =>
             (Distance(s.axis, s.target, s.position) = 0 <=> OnTarget(s))
      <4>1. AnglesKnown(s) => s.position <= (s.target % 360) + 540
        BY <2>3 DEF AnglesKnown
      <4>2. QED
        BY <2>3, <4>1, NoDistance DEF OnTarget
    <3>2. QED
        BY <2>4, <3>1 DEF ReachedPointsThere, MotionLabel, OnTarget
  <2>7. QED
    BY <2>2, <2>5, <2>6 DEF MotionStatusInd
<1>4. CASE UNCHANGED motionVars
    BY <1>4 DEF motionVars, MotionStatusInd, WarningsInOrder, TurningIsNotReady,
                ReachedPointsThere
<1>5. QED
    BY <1>1, <1>2, <1>3, <1>4 DEF MotionStatusNext

\* The label of an axis agrees with what a status says of its motion, and a move that
\* timed out is logged once, on every page (axisMotionState, logPositionTimeout).
THEOREM LabelsAreTrue == PanelPagesSpec => []MotionStatusInv
<1>1. PanelPagesSpec => MotionInit
    BY DEF PanelPagesSpec, PanelsInit
<1>2. QED
    BY <1>1, MotionStatusEntails, MotionStatusStarts, MotionStatusStep, PanelPagesAddNothing, PTL
-----------------------------------------------------------------------------
(* The charts *)

LEMMA CeilProps ==
    ASSUME NEW a \in Nat \ {0}, NEW b \in Nat \ {0}
    PROVE  CeilDiv(a, b) \in Nat \ {0} /\ CeilDiv(a, b) * b >= a /\ CeilDiv(a, b) * b < a + b
    BY DEF CeilDiv

LEMMA SmallerFactor ==
    ASSUME NEW a \in Nat, NEW b \in Nat, NEW c \in Nat, a * c < b * c
    PROVE  a < b
<1> SUFFICES ASSUME a >= b PROVE a * c >= b * c
    OBVIOUS
<1>1. PICK d \in Nat : a = b + d
  <2>1. a = b + (a - b) /\ a - b \in Nat
    OBVIOUS
  <2>2. QED
    BY <2>1
<1>2. a * c = b * c + d * c
    BY <1>1
<1>3. d * c \in Nat /\ b * c \in Nat /\ a * c \in Nat
    OBVIOUS
<1>4. QED
    BY <1>2, <1>3

LEMMA ChartNumbers ==
    /\ LargestReading \in Nat
    /\ Unit \in Nat /\ Unit > 0 /\ Unit <= LargestReading
<1>1. LargestReading \in Nat
    BY SMT DEF LargestReading, Unit
<1>3. Unit \in Nat /\ Unit > 0
    BY DEF Unit
<1>4. Unit <= LargestReading
    BY SMT DEF LargestReading, Unit
<1>5. QED
    BY <1>1, <1>3, <1>4

\* A fact of its own, for the solver that can read its numbers.
LEMMA LargestBound == LargestReading <= 50 * 100000
    BY SMT DEF LargestReading, Unit

Drawable == -LargestReading..LargestReading

\* The largest of the values is found, and is at least one unit.
LEMMA LargestValue ==
    ASSUME NEW values \in SUBSET Drawable
    PROVE  /\ Max(values \cup {Unit}) \in values \cup {Unit}
           /\ Max(values \cup {Unit}) \in Unit..LargestReading
           /\ \A v \in values \cup {Unit} : v <= Max(values \cup {Unit})
<1> DEFINE S == values \cup {Unit}
<1>1. S \subseteq Int /\ S # {} /\ LargestReading \in Int /\ \A v \in S : v <= LargestReading
    BY ChartNumbers, SMT DEF Drawable
<1> HIDE DEF S
<1>2. Max(S) \in S /\ \A v \in S : v <= Max(S)
    BY <1>1, MaxExists
<1>3. Unit \in S /\ Unit \in Int /\ Max(S) \in Int
    BY ChartNumbers, <1>1, <1>2 DEF S
<1>4. Max(S) \in Unit..LargestReading
    BY <1>1, <1>2, <1>3
<1>5. QED
    BY <1>2, <1>4 DEF S

\* The nice steps of a magnitude, and the label that each needs.
LEMMA NiceStepProps ==
    ASSUME NEW m \in Magnitudes, NEW s \in NiceSteps(m)
    PROVE  /\ s \in Nat \ {0}
           /\ s >= Unit => s % (Unit \div 10) = 0
    BY DEF Magnitudes, NiceSteps, Unit

MagnitudeOf(raw, target) == Max({m \in Magnitudes : m * target <= raw})
StepOf(m, raw, target) == Min({s \in NiceSteps(m) : s * target >= raw})

LEMMA MagnitudeProps ==
    ASSUME NEW raw \in Unit..LargestReading, NEW target \in {5, 6, 8}
    PROVE  /\ MagnitudeOf(raw, target) \in Magnitudes
           /\ 10 * MagnitudeOf(raw, target) * target >= raw
<1>6. raw \in Int /\ raw <= 50 * 100000
    BY ChartNumbers, LargestBound, SMT
<1> DEFINE M == {k \in Magnitudes : k * target <= raw}
           m == Max(M)
           top == 10 * 10000
<1>1. top \in Int /\ Magnitudes \subseteq Int /\ \A k \in Magnitudes : k <= top
    BY SMT DEF Magnitudes
<1>2. 10 \in M
    BY SMT DEF Magnitudes, Unit
<1> HIDE DEF top
<1>3. M \subseteq Int /\ M # {} /\ \A k \in M : k <= top
  <2>1. M \subseteq Magnitudes
    OBVIOUS
  <2> HIDE DEF M
  <2>2. QED
    BY <1>1, <1>2, <2>1
<1>4. m \in M /\ \A k \in M : k <= m
  <2> HIDE DEF M
  <2>1. QED
    BY <1>1, <1>3, MaxExists
<1> HIDE DEF m
<1>5. m \in Magnitudes /\ \A k \in Magnitudes : k * target <= raw => k <= m
    BY <1>4
<1>7. 10 * m * target >= raw
  <2>1. CASE m = 100000
    BY <1>6, <2>1, SMT
  <2>2. ASSUME NEW k \in Magnitudes, k = 10 * m PROVE 10 * m * target >= raw
    <3>1. ~(k * target <= raw) /\ m \in Int /\ k \in Int /\ m > 0
        BY <1>5, <2>2, SMT DEF Magnitudes
    <3>2. QED
        BY <1>6, <2>2, <3>1, SMT
  <2>3. m = 100000 \/ 10 * m \in Magnitudes
    BY <1>5, SMT DEF Magnitudes
  <2>4. QED
    BY <2>1, <2>2, <2>3
<1>8. QED
    BY <1>5, <1>7 DEF MagnitudeOf, m

LEMMA StepProps ==
    ASSUME NEW raw \in Unit..LargestReading, NEW target \in {5, 6, 8}, NEW m \in Magnitudes,
           10 * m * target >= raw
    PROVE  /\ StepOf(m, raw, target) \in NiceSteps(m) /\ StepOf(m, raw, target) \in Nat \ {0}
           /\ StepOf(m, raw, target) * target >= raw
<1> DEFINE N == {k \in NiceSteps(m) : k * target >= raw}
           low == 0
<1>1. low \in Int /\ \A k \in NiceSteps(m) : k \in Int /\ low <= k
    BY NiceStepProps
<1> HIDE DEF low
<1>2. 10 * m \in N
    BY DEF NiceSteps
<1>3. N \subseteq Int /\ N # {} /\ \A k \in N : low <= k
    BY <1>1, <1>2
<1>4. Min(N) \in N
  <2> HIDE DEF N
  <2>1. QED
    BY <1>1, <1>3, MinExists
<1>5. QED
    BY <1>4, NiceStepProps DEF StepOf

\* The steps times the gridlines reach the largest value, and no gridline is too many.
LEMMA IntervalProps ==
    ASSUME NEW raw \in Unit..LargestReading, NEW target \in {5, 6, 8}, NEW s \in Nat \ {0},
           s * target >= raw
    PROVE  LET n == Max({1, CeilDiv(raw, s)}) IN
           n \in 1..target /\ n * s >= raw /\ n * s - s < raw
<1>1. raw \in Nat \ {0} /\ target \in Nat
    BY DEF Unit
<1> DEFINE c == CeilDiv(raw, s)
<1>2. c \in Nat \ {0} /\ c * s >= raw /\ c * s < raw + s
    BY <1>1, CeilProps
<1> HIDE DEF c
<1>3. Max({1, c}) = c
    BY <1>2, LargerOfTwo
<1>4. c < target + 1
  <2>1. (target + 1) * s = s * target + s
    BY <1>1
  <2>2. c * s \in Nat /\ s * target \in Nat
    BY <1>1, <1>2
  <2>3. c * s < (target + 1) * s
    BY <1>1, <1>2, <2>1, <2>2
  <2>4. target + 1 \in Nat /\ c \in Nat /\ s \in Nat
    BY <1>1, <1>2
  <2>5. QED
    BY <2>3, <2>4, SmallerFactor
<1>5. c * s \in Nat
    BY <1>2
<1>6. QED
    BY <1>1, <1>2, <1>3, <1>4, <1>5 DEF c

\* What chartAxisScale promises of a scale for the values.
ScaleOf(scale, values, target) ==
    LET raw == Max(values \cup {Unit}) IN
    /\ scale.step \in Nat \ {0} /\ scale.intervals \in 1..target
    /\ scale.max = scale.intervals * scale.step
    /\ raw <= scale.max /\ scale.max - scale.step < raw
    /\ scale.decimals = 0 => scale.step % Unit = 0
    /\ scale.decimals = 1 => scale.step % (Unit \div 10) = 0

LEMMA AxisScaleProps ==
    ASSUME NEW values \in SUBSET Drawable, NEW target \in {5, 6, 8}
    PROVE  ScaleOf(AxisScale(values, target), values, target)
<1> DEFINE raw == Max(values \cup {Unit})
           m == MagnitudeOf(raw, target)
           s == StepOf(m, raw, target)
           n == Max({1, CeilDiv(raw, s)})
           d == IF s < Unit THEN 2 ELSE IF s % Unit = 0 THEN 0 ELSE 1
<1>1. raw \in Unit..LargestReading
    BY LargestValue
<1> HIDE DEF raw
<1>2. m \in Magnitudes /\ 10 * m * target >= raw
    BY <1>1, MagnitudeProps
<1> HIDE DEF m
<1>3. s \in NiceSteps(m) /\ s \in Nat \ {0} /\ s * target >= raw
    BY <1>1, <1>2, StepProps
<1> HIDE DEF s
<1>4. n \in 1..target /\ n * s >= raw /\ n * s - s < raw
    BY <1>1, <1>3, IntervalProps
<1> HIDE DEF n
<1>5. AxisScale(values, target) = [max |-> n * s, step |-> s, intervals |-> n, decimals |-> d]
    BY DEF AxisScale, MagnitudeOf, StepOf, raw, m, s, n
<1>6. s >= Unit => s % (Unit \div 10) = 0
    BY <1>2, <1>3, NiceStepProps
<1>7. d = 0 => s % Unit = 0
    OBVIOUS
<1>8. d = 1 => s >= Unit
    BY <1>3 DEF Unit
<1> HIDE DEF d
<1>9. raw <= n * s
    BY <1>1, <1>3, <1>4 DEF Unit
<1>10. QED
    BY <1>3, <1>4, <1>5, <1>6, <1>7, <1>8, <1>9 DEF ScaleOf, raw

\* The points of a series.
Points == [time : Int, value : Readings \cup {Missing}]

ChartsInd == ChartsInv /\ series \in Seq(Points)

LEMMA SeriesValues ==
    ASSUME series \in Seq(Points)
    PROVE  /\ Measured(series) \subseteq DOMAIN series
           /\ MeasuredValues(series) \in SUBSET Drawable
           /\ CoercedValues(series) \in SUBSET Drawable
           /\ \A v \in MeasuredValues(series) : v \in CoercedValues(series)
           /\ \A v \in CoercedValues(series) : v \in MeasuredValues(series) \/ v = 0
<1>1. \A i \in DOMAIN series : series[i] \in Points
    OBVIOUS
<1>2. 0 \in Drawable
    BY ChartNumbers DEF Drawable
<1>3. \A i \in DOMAIN series : series[i].value # Missing => series[i].value \in Drawable
    BY <1>1, ChartsAssumption DEF Points, Drawable
<1>4. QED
    BY <1>2, <1>3 DEF Measured, MeasuredValues, CoercedValues, Coerced

\* A null that is drawn as zero does not change the largest value.
LEMMA SameLargest ==
    ASSUME series \in Seq(Points)
    PROVE  Max(CoercedValues(series) \cup {Unit}) = Max(MeasuredValues(series) \cup {Unit})
<1> DEFINE A == CoercedValues(series)
           B == MeasuredValues(series)
           a == Max(A \cup {Unit})
           b == Max(B \cup {Unit})
<1>1. /\ A \in SUBSET Drawable /\ B \in SUBSET Drawable /\ \A v \in B : v \in A
      /\ \A v \in A : v \in B \/ v = 0
    BY SeriesValues
<1> HIDE DEF A, B
<1>2. /\ a \in A \cup {Unit} /\ a \in Unit..LargestReading /\ \A v \in A \cup {Unit} : v <= a
      /\ b \in B \cup {Unit} /\ b \in Unit..LargestReading /\ \A v \in B \cup {Unit} : v <= b
    BY <1>1, LargestValue
<1> HIDE DEF a, b
<1>3. a # 0 /\ a \in Int /\ b \in Int
    BY <1>2, ChartNumbers
<1>4. b <= a
    BY <1>1, <1>2
<1>5. a <= b
    BY <1>1, <1>2, <1>3
<1>6. QED
    BY <1>3, <1>4, <1>5 DEF a, b, A, B

\* A plot on a scale holds the data.
LEMMA ScaledPlot ==
    ASSUME NEW values \in SUBSET Drawable, NEW target \in {5, 6, 8}, NEW scale,
           ScaleOf(scale, values, target)
    PROVE  /\ \A v \in values : v <= scale.max
           /\ scale.max - scale.step < Max(values \cup {Unit})
           /\ scale.intervals \in Nat /\ scale.intervals <= 8
           /\ scale.decimals = 0 => scale.step % Unit = 0
           /\ scale.decimals = 1 => scale.step % (Unit \div 10) = 0
           /\ scale.max = scale.intervals * scale.step
<1>1. /\ Max(values \cup {Unit}) \in Int
      /\ \A v \in values : v <= Max(values \cup {Unit})
  <2>1. Max(values \cup {Unit}) \in Unit..LargestReading
    BY LargestValue
  <2>2. \A v \in values \cup {Unit} : v <= Max(values \cup {Unit})
    BY LargestValue
  <2>3. QED
    BY <2>1, <2>2, ChartNumbers
<1>2. \A v \in values : v \in Int
    BY ChartNumbers DEF Drawable
<1> DEFINE raw == Max(values \cup {Unit})
<1>3. /\ scale.step \in Nat \ {0} /\ scale.intervals \in 1..target
      /\ scale.max = scale.intervals * scale.step
      /\ raw <= scale.max /\ scale.max - scale.step < raw
      /\ scale.decimals = 0 => scale.step % Unit = 0
      /\ scale.decimals = 1 => scale.step % (Unit \div 10) = 0
    BY DEF ScaleOf
<1> HIDE DEF raw
<1>4. scale.max \in Int /\ scale.intervals \in Nat /\ scale.intervals <= 8
    BY <1>3
<1>5. ASSUME NEW v \in values PROVE v <= scale.max
  <2>1. v <= raw /\ raw \in Int /\ v \in Int
    BY <1>1, <1>2 DEF raw
  <2>2. QED
    BY <1>3, <1>4, <2>1
<1>6. QED
    BY <1>3, <1>4, <1>5 DEF raw

\* The pen joins only points that are in the data, the earlier one to the later one.
LEMMA NeighboursProps ==
    ASSUME NEW I, NEW p \in Neighbours(I)
    PROVE  p[1] \in I /\ p[2] \in I /\ p[1] < p[2]
    BY DEF Neighbours

LEMMA ChartsStart == ChartsInit => ChartsInd
    BY DEF ChartsInit, EmptyPlot, ChartsInd, ChartsInv, ChartsTypeOK, NoLineAcrossGap,
           AxisHoldsTheData, AxisLabelsExact, LiveChartInFrame, Gapped, Scaled

LEMMA ChartPointAdded == ASSUME ChartsInd, NewPoint PROVE ChartsInd'
<1>1. PICK v \in Readings \cup {Missing}, d \in {0, 1, Gap + 1} :
          series' = Append(series, [time |-> IF series = <<>> THEN 0
                                             ELSE series[Len(series)].time + d, value |-> v])
    BY DEF NewPoint
<1> DEFINE t == IF series = <<>> THEN 0 ELSE series[Len(series)].time + d
<1>2. series \in Seq(Points) /\ Len(series) \in Nat /\ DOMAIN series = 1..Len(series)
    BY DEF ChartsInd
<1>3. t \in Int
  <2>1. CASE series # <<>>
    <3>1. series[Len(series)] \in Points
        BY <1>2, <2>1
    <3>2. QED
        BY <3>1, ChartsAssumption DEF Points
  <2>2. CASE series = <<>>
    BY <2>2
  <2>3. QED
    BY <2>1, <2>2
<1> HIDE DEF t
<1>4. [time |-> t, value |-> v] \in Points
    BY <1>3 DEF Points
<1>5. series' = Append(series, [time |-> t, value |-> v])
    BY <1>1 DEF t
<1>6. /\ series' \in Seq(Points) /\ DOMAIN series \subseteq DOMAIN series'
      /\ \A i \in DOMAIN series : series'[i] = series[i]
    BY <1>2, <1>4, <1>5
<1>7. UNCHANGED plot
    BY DEF NewPoint
<1>8. ChartsTypeOK'
  <2>1. \A i \in DOMAIN series' : series'[i].value \in Readings \cup {Missing}
    <3>1. \A i \in DOMAIN series' : series'[i] \in Points
        BY <1>6
    <3>2. QED
        BY <3>1 DEF Points
  <2>2. QED
    BY <1>6, <1>7, <2>1 DEF ChartsInd, ChartsInv, ChartsTypeOK
<1>9. NoLineAcrossGap'
  <2> SUFFICES ASSUME Gapped, NEW p \in plot.joins
               PROVE  /\ series'[p[1]].value # Missing /\ series'[p[2]].value # Missing
                      /\ series'[p[2]].time - series'[p[1]].time <= Gap
    BY <1>7 DEF NoLineAcrossGap, Gapped
  <2>1. p[1] \in DOMAIN series /\ p[2] \in DOMAIN series
    BY DEF ChartsInd, ChartsInv, ChartsTypeOK, Gapped
  <2>2. QED
    BY <1>6, <2>1 DEF ChartsInd, ChartsInv, NoLineAcrossGap
<1>10. AxisHoldsTheData' /\ AxisLabelsExact' /\ LiveChartInFrame'
    BY <1>7 DEF ChartsInd, ChartsInv, AxisHoldsTheData, AxisLabelsExact, LiveChartInFrame, Scaled
<1>11. QED
    BY <1>6, <1>8, <1>9, <1>10 DEF ChartsInd, ChartsInv

\* A report chart: where its pen may go, and its axis.
LEMMA ReportPlotted ==
    ASSUME ChartsInd, UNCHANGED series, NEW kind \in {"network", "power", "health", "percent", "current"},
           NEW scale, NEW joins, NEW dots, plot' = Plotted(kind, series, scale, joins, dots),
           \A p \in joins : p[1] < p[2] /\ p[1] \in DOMAIN series /\ p[2] \in DOMAIN series,
           kind # "current" => \A p \in joins :
               /\ series[p[1]].value # Missing /\ series[p[2]].value # Missing
               /\ series[p[2]].time - series[p[1]].time <= Gap,
           kind # "percent" =>
               /\ \A v \in MeasuredValues(series) : v <= scale.max
               /\ kind = "current" \/
                      scale.max - scale.step < Max(MeasuredValues(series) \cup {Unit})
               /\ scale.intervals <= 8
               /\ scale.decimals = 0 => scale.step % Unit = 0
               /\ scale.decimals = 1 => scale.step % (Unit \div 10) = 0
               /\ scale.max = scale.intervals * scale.step
    PROVE  ChartsInd'
<1>1. /\ plot'.kind = kind /\ plot'.max = scale.max /\ plot'.step = scale.step
      /\ plot'.intervals = scale.intervals /\ plot'.decimals = scale.decimals
      /\ plot'.joins = joins /\ plot'.values = MeasuredValues(series)
    BY DEF Plotted
<1>2. ChartsTypeOK'
    BY <1>1 DEF ChartsInd, ChartsInv, ChartsTypeOK
<1>3. NoLineAcrossGap'
    BY <1>1 DEF NoLineAcrossGap, Gapped
<1>4. AxisHoldsTheData' /\ AxisLabelsExact'
    BY <1>1 DEF AxisHoldsTheData, AxisLabelsExact, Scaled
<1>5. LiveChartInFrame'
    BY <1>1 DEF LiveChartInFrame
<1>6. QED
    BY <1>2, <1>3, <1>4, <1>5 DEF ChartsInd, ChartsInv

LEMMA JoinsWithinGap ==
    ASSUME NEW p \in Joins(series)
    PROVE  /\ p[1] < p[2] /\ p[1] \in DOMAIN series /\ p[2] \in DOMAIN series
           /\ series[p[1]].value # Missing /\ series[p[2]].value # Missing
           /\ series[p[2]].time - series[p[1]].time <= Gap
    BY NeighboursProps DEF Joins, Measured

LEMMA GappedDrawn ==
    ASSUME ChartsInd, UNCHANGED series, NEW kind \in {"network", "power", "health"},
           NEW values \in SUBSET Drawable, NEW target \in {5, 8},
           \A v \in MeasuredValues(series) : v \in values,
           Max(values \cup {Unit}) = Max(MeasuredValues(series) \cup {Unit}),
           GappedPlot(kind, AxisScale(values, target))
    PROVE  ChartsInd'
<1> DEFINE scale == AxisScale(values, target)
           joins == IF series = <<>> THEN {} ELSE Joins(series)
           dots == IF Cardinality(Measured(series)) = 1 THEN Measured(series) ELSE {}
<1>1. plot' = Plotted(kind, series, scale, joins, dots)
    BY DEF GappedPlot
<1>2. ScaleOf(scale, values, target)
    BY AxisScaleProps
<1>3. \A p \in joins :
           /\ p[1] < p[2] /\ p[1] \in DOMAIN series /\ p[2] \in DOMAIN series
           /\ series[p[1]].value # Missing /\ series[p[2]].value # Missing
           /\ series[p[2]].time - series[p[1]].time <= Gap
    BY JoinsWithinGap
<1> HIDE DEF scale, joins, dots
<1>4. /\ \A v \in values : v <= scale.max
      /\ scale.max - scale.step < Max(values \cup {Unit})
      /\ scale.intervals <= 8
      /\ scale.decimals = 0 => scale.step % Unit = 0
      /\ scale.decimals = 1 => scale.step % (Unit \div 10) = 0
      /\ scale.max = scale.intervals * scale.step
    BY <1>2, ScaledPlot
<1>5. \A v \in MeasuredValues(series) : v <= scale.max
    BY <1>4
<1>6. scale.max - scale.step < Max(MeasuredValues(series) \cup {Unit})
    BY <1>4
<1>7. QED
    BY <1>1, <1>3, <1>4, <1>5, <1>6, ReportPlotted

\* Nothing is drawn.
LEMMA NothingDrawn ==
    ASSUME ChartsInd, UNCHANGED series, plot' = EmptyPlot
    PROVE  ChartsInd'
    BY DEF EmptyPlot, ChartsInd, ChartsInv, ChartsTypeOK, NoLineAcrossGap, AxisHoldsTheData,
           AxisLabelsExact, LiveChartInFrame, Gapped, Scaled

LEMMA ReportChartsDrawn ==
    ASSUME ChartsInd,
           \/ DrawNetworkReport \/ DrawPowerReport
           \/ DrawHealthReport(TRUE) \/ DrawHealthReport(FALSE)
    PROVE  ChartsInd'
<1>1. series \in Seq(Points) /\ UNCHANGED series
    BY DEF ChartsInd, DrawNetworkReport, DrawPowerReport, DrawHealthReport
<1>2. /\ MeasuredValues(series) \in SUBSET Drawable /\ CoercedValues(series) \in SUBSET Drawable
      /\ \A v \in MeasuredValues(series) : v \in CoercedValues(series)
    BY <1>1, SeriesValues
<1>3. Max(CoercedValues(series) \cup {Unit}) = Max(MeasuredValues(series) \cup {Unit})
    BY <1>1, SameLargest
<1>4. ASSUME NEW kind \in {"network", "power"},
             GappedPlot(kind, AxisScale(MeasuredValues(series), 8))
      PROVE  ChartsInd'
  <2> DEFINE values == MeasuredValues(series)
  <2>1. \A v \in MeasuredValues(series) : v \in values
    OBVIOUS
  <2>2. Max(values \cup {Unit}) = Max(MeasuredValues(series) \cup {Unit})
    OBVIOUS
  <2>3. values \in SUBSET Drawable /\ GappedPlot(kind, AxisScale(values, 8))
    BY <1>2, <1>4
  <2> HIDE DEF values
  <2>4. QED
    BY <1>1, <2>1, <2>2, <2>3, GappedDrawn
<1>5. CASE DrawNetworkReport
    BY <1>4, <1>5 DEF DrawNetworkReport
<1>6. CASE DrawPowerReport
  <2>1. CASE series = <<>>
    BY <1>1, <1>6, <2>1, NothingDrawn DEF DrawPowerReport
  <2>2. CASE series # <<>>
    BY <1>4, <1>6, <2>2 DEF DrawPowerReport
  <2>3. QED
    BY <2>1, <2>2
<1>7. CASE DrawHealthReport(FALSE)
  <2>1. GappedPlot("health", AxisScale(CoercedValues(series), 5))
    BY <1>7 DEF DrawHealthReport
  <2>2. QED
    BY <1>1, <1>2, <1>3, <2>1, GappedDrawn
<1>8. CASE DrawHealthReport(TRUE)
  <2> DEFINE scale == [max |-> 100 * Unit, step |-> 20 * Unit, intervals |-> 5, decimals |-> 0]
             joins == IF series = <<>> THEN {} ELSE Joins(series)
             dots == IF Cardinality(Measured(series)) = 1 THEN Measured(series) ELSE {}
  <2>1. plot' = Plotted("percent", series, scale, joins, dots)
    BY <1>8 DEF DrawHealthReport, GappedPlot
  <2>2. \A p \in joins :
           /\ p[1] < p[2] /\ p[1] \in DOMAIN series /\ p[2] \in DOMAIN series
           /\ series[p[1]].value # Missing /\ series[p[2]].value # Missing
           /\ series[p[2]].time - series[p[1]].time <= Gap
    BY JoinsWithinGap
  <2> HIDE DEF scale, joins, dots
  <2>3. QED
    BY <1>1, <2>1, <2>2, ReportPlotted
<1>9. QED
    BY <1>5, <1>6, <1>7, <1>8

\* The grid that two scales share is no coarser than that of either.
LEMMA CurrentDrawn == ASSUME ChartsInd, DrawCurrentReport PROVE ChartsInd'
<1> DEFINE values == CoercedValues(series)
           current == AxisScale(values, 6)
           velocity == AxisScale({}, 6)
           grid == Max({current.intervals, velocity.intervals})
           scale == [current EXCEPT !.intervals = grid, !.max = current.step * grid]
           joins == Neighbours(DOMAIN series)
           dots == IF Len(series) = 1 THEN {1} ELSE {}
<1>1. series \in Seq(Points) /\ UNCHANGED series
    BY DEF ChartsInd, DrawCurrentReport
<1>2. plot' = Plotted("current", series, scale, joins, dots)
    BY DEF DrawCurrentReport
<1>3. values \in SUBSET Drawable /\ \A v \in MeasuredValues(series) : v \in values
    BY <1>1, SeriesValues
<1>4. \A p \in joins : p[1] < p[2] /\ p[1] \in DOMAIN series /\ p[2] \in DOMAIN series
    BY NeighboursProps
<1> HIDE DEF values
<1>5. ScaleOf(current, values, 6) /\ ScaleOf(velocity, {}, 6)
    BY <1>3, AxisScaleProps
<1>6. DOMAIN current = {"max", "step", "intervals", "decimals"}
  <2>1. \A f \in STRING : f \in DOMAIN current <=> f \in {"max", "step", "intervals", "decimals"}
    BY DEF AxisScale
  <2>2. QED
    BY <2>1 DEF AxisScale
<1>7. /\ scale.max = current.step * grid /\ scale.intervals = grid
      /\ scale.step = current.step /\ scale.decimals = current.decimals
    BY <1>6
<1> HIDE DEF current, velocity, joins, dots
<1>8. /\ current.step \in Nat \ {0} /\ current.intervals \in 1..6 /\ velocity.intervals \in 1..6
      /\ current.max = current.intervals * current.step
    BY <1>5 DEF ScaleOf
<1>9. grid \in current.intervals..6
  <2>1. current.intervals \in Int /\ velocity.intervals \in Int
    BY <1>8
  <2>2. grid = IF current.intervals >= velocity.intervals THEN current.intervals
               ELSE velocity.intervals
    BY <2>1, LargerOfTwo
  <2>3. QED
    BY <1>8, <2>2
<1> HIDE DEF grid, scale
<1>10. /\ \A v \in values : v <= current.max
       /\ current.decimals = 0 => current.step % Unit = 0
       /\ current.decimals = 1 => current.step % (Unit \div 10) = 0
    BY <1>3, <1>5, ScaledPlot
<1>11. scale.max \in Int /\ current.max \in Int /\ current.max <= scale.max
       /\ scale.max = scale.intervals * scale.step
  <2>1. PICK k \in Nat : grid = current.intervals + k
    <3>1. grid - current.intervals \in Nat /\ grid = current.intervals + (grid - current.intervals)
        BY <1>8, <1>9
    <3>2. QED
        BY <3>1
  <2>2. current.step * grid = current.max + current.step * k
    <3> DEFINE s == current.step
               n == current.intervals
    <3>1. s \in Nat /\ n \in Nat
        BY <1>8
    <3> HIDE DEF s, n
    <3>2. s * (n + k) = n * s + s * k
        BY <3>1
    <3>3. QED
        BY <1>8, <2>1, <3>2 DEF s, n
  <2>3. current.step * k \in Nat /\ current.max \in Int /\ grid \in Nat
    BY <1>8, <1>9, <2>1
  <2>4. QED
    BY <1>7, <1>8, <2>2, <2>3
<1>12. \A v \in MeasuredValues(series) : v <= scale.max
  <2> SUFFICES ASSUME NEW v \in MeasuredValues(series) PROVE v <= scale.max
    OBVIOUS
  <2>1. v \in values /\ v \in Drawable
    BY <1>3
  <2>2. v \in Int
    BY <2>1, ChartNumbers DEF Drawable
  <2>3. v <= current.max
    BY <1>10, <2>1
  <2>4. QED
    BY <1>11, <2>2, <2>3
<1>13. scale.intervals <= 8
    BY <1>7, <1>9
<1>14. QED
    BY <1>1, <1>2, <1>4, <1>7, <1>10, <1>11, <1>12, <1>13, ReportPlotted

\* The live chart has a range even when its values are equal.
LEMMA LiveRangeProps ==
    ASSUME NEW values \in SUBSET Drawable, values # {}
    PROVE  LiveRange(values).low < LiveRange(values).high
<1> DEFINE low == Min(values)
           high == Max(values)
           size == (IF high < 0 THEN -high ELSE high) \div 20
           pad == Max({size, Unit})
           floor == -LargestReading
<1>1. /\ values \subseteq Int /\ LargestReading \in Int /\ floor \in Int
      /\ \A v \in values : v <= LargestReading /\ floor <= v
    BY ChartNumbers DEF Drawable
<1> HIDE DEF floor
<1>2. low \in values /\ \A v \in values : low <= v
    BY <1>1, MinExists
<1>3. high \in values /\ \A v \in values : v <= high
    BY <1>1, MaxExists
<1> HIDE DEF low, high
<1>4. low \in Int /\ high \in Int /\ low <= high
    BY <1>1, <1>2, <1>3
<1>5. size \in Int
    BY <1>4
<1> HIDE DEF size
<1>6. pad = IF size >= Unit THEN size ELSE Unit
    BY <1>5, ChartNumbers, LargerOfTwo
<1> HIDE DEF pad
<1>7. pad \in Int /\ pad > 0
    BY <1>5, <1>6, ChartNumbers
<1>8. LiveRange(values) = IF high = low THEN [low |-> low - pad, high |-> high + pad]
                          ELSE [low |-> low, high |-> high]
    BY DEF LiveRange, low, high, size, pad
<1>9. QED
    BY <1>4, <1>7, <1>8

LEMMA LiveDrawn == ASSUME ChartsInd, LiveDrawings PROVE ChartsInd'
<1>1. PICK now \in Clock : DrawLive(now)
    BY DEF LiveDrawings
<1> DEFINE I == Measured(series)
           recent == {i \in I : now - series[i].time <= LiveWindow}
           range == LiveRange(MeasuredValues(series))
           ages == {Max({0, now - series[i].time}) : i \in recent}
<1>2. series \in Seq(Points) /\ UNCHANGED series /\ I \subseteq DOMAIN series
    BY <1>1 DEF ChartsInd, DrawLive, Measured
<1>3. ASSUME NEW i \in DOMAIN series PROVE series[i].time \in Int
  <2>1. series[i] \in Points
    BY <1>2
  <2>2. QED
    BY <2>1 DEF Points
<1>4. now \in Int
  <2>1. CASE series = <<>>
    BY <1>1, <2>1 DEF Clock
  <2>2. CASE series # <<>>
    <3>1. Len(series) \in DOMAIN series
        BY <1>2, <2>2
    <3>2. QED
        BY <1>1, <1>3, <2>2, <3>1, ChartsAssumption DEF Clock
  <2>3. QED
    BY <2>1, <2>2
<1>5. CASE plot' = EmptyPlot
    BY <1>2, <1>5, NothingDrawn
<1>6. CASE plot' # EmptyPlot
  <2>1. /\ plot' = [kind |-> "live", low |-> range.low, high |-> range.high,
                    joins |-> Neighbours(recent), ages |-> ages]
        /\ ~(Cardinality(I) < 1)
    BY <1>1, <1>6 DEF DrawLive
  <2>2. I # {}
    BY <2>1, FS_EmptySet
  <2>3. range.low < range.high
    <3>1. MeasuredValues(series) \in SUBSET Drawable /\ MeasuredValues(series) # {}
        BY <1>2, <2>2, SeriesValues DEF MeasuredValues
    <3>2. QED
        BY <3>1, LiveRangeProps
  <2>4. ages \subseteq 0..LiveWindow
    <3> SUFFICES ASSUME NEW i \in recent PROVE Max({0, now - series[i].time}) \in 0..LiveWindow
        OBVIOUS
    <3> DEFINE age == now - series[i].time
    <3>1. age \in Int /\ age <= LiveWindow
        BY <1>2, <1>3, <1>4
    <3> HIDE DEF age
    <3>2. Max({0, age}) = IF 0 >= age THEN 0 ELSE age
        BY <3>1, LargerOfTwo
    <3>3. QED
        BY <3>1, <3>2, ChartsAssumption DEF age
  <2>5. \A p \in Neighbours(recent) : p[1] < p[2] /\ {p[1], p[2]} \subseteq DOMAIN series
    BY <1>2, NeighboursProps
  <2> HIDE DEF range, ages, recent
  <2>6. plot'.kind = "live" /\ plot'.low = range.low /\ plot'.high = range.high
        /\ plot'.joins = Neighbours(recent) /\ plot'.ages = ages
    BY <2>1
  <2>7. ChartsTypeOK'
    BY <1>2, <2>5, <2>6 DEF ChartsInd, ChartsInv, ChartsTypeOK
  <2>8. NoLineAcrossGap' /\ AxisHoldsTheData' /\ AxisLabelsExact' /\ LiveChartInFrame'
    BY <2>3, <2>4, <2>6
    DEF NoLineAcrossGap, AxisHoldsTheData, AxisLabelsExact, LiveChartInFrame, Gapped, Scaled
  <2>9. QED
    BY <1>2, <2>7, <2>8 DEF ChartsInd, ChartsInv
<1>7. QED
    BY <1>5, <1>6

LEMMA ChartsStep == ChartsInd /\ [ChartsNext]_chartVars => ChartsInd'
<1> SUFFICES ASSUME ChartsInd, [ChartsNext]_chartVars PROVE ChartsInd'
    OBVIOUS
<1>1. CASE UNCHANGED chartVars
    BY <1>1 DEF chartVars, ChartsInd, ChartsInv, ChartsTypeOK, NoLineAcrossGap,
                AxisHoldsTheData, AxisLabelsExact, LiveChartInFrame, Gapped, Scaled
<1>2. CASE ChartsNext
    BY <1>2, ChartPointAdded, ReportChartsDrawn, CurrentDrawn, LiveDrawn
    DEF ChartsNext, ReportDrawings
<1>3. QED
    BY <1>1, <1>2

LEMMA ChartsEntail == ChartsInd => ChartsInv
    BY DEF ChartsInd

\* What a chart shows is in the data and within its axes, and only what is in the data is
\* joined, on every page (chartAxisScale, the drawing of the reports, drawChart).
THEOREM ChartsShowTheData == PanelPagesSpec => []ChartsInv
<1>1. PanelPagesSpec => ChartsInit
    BY DEF PanelPagesSpec, PanelsInit
<1>2. QED
    BY <1>1, ChartsEntail, ChartsStart, ChartsStep, PanelPagesAddNothing, PTL
-----------------------------------------------------------------------------
(* The horizon view *)

USE SkyViewAssumption

SkyLimits == [ccw : Int, cw : Int, lower : Int, upper : Int]
SkyAngles == [azimuth : Int, altitude : Int]

\* The target that a click selects.
SelectedBy(click, target) ==
    click # NoClick =>
        /\ click.azimuth \in 0..359
        /\ click.distance \in (InnerGap - HitPadding)..(SkyRadiusMax + HitPadding)
        /\ target = Angles(NormalizeSignedDegrees(click.azimuth),
                           SkyAltitudeFromRadius(click.distance))

\* The marker is drawn from the target, and the target of a click from the click.
SkyInd ==
    /\ SkyInv
    /\ skyForm \in SkyAngles /\ skyTarget \in SkyAngles /\ skyLimits \in SkyLimits
    /\ skyFrame.marker = Marker(skyTarget)
    /\ SelectedBy(clicked, skyTarget)

LEMMA VisibleRange ==
    /\ VisibleMinimum \in Int /\ VisibleMaximum \in Int /\ VisibleMinimum < VisibleMaximum
    /\ SkyRadiusMax \in Nat /\ InnerGap < SkyRadiusMax
    /\ SkyRadiusMax = InnerGap + VisibleMaximum - VisibleMinimum
    BY DEF VisibleMinimum, VisibleMaximum, SkyRadiusMax

LEMMA ClampProps ==
    ASSUME NEW a \in Int
    PROVE  Clamp(a) = IF a > VisibleMaximum THEN VisibleMaximum
                      ELSE IF a < VisibleMinimum THEN VisibleMinimum ELSE a
<1>1. Min({VisibleMaximum, a}) = IF VisibleMaximum <= a THEN VisibleMaximum ELSE a
    BY VisibleRange, SmallerOfTwo
<1> DEFINE m == Min({VisibleMaximum, a})
<1>2. m \in Int
    BY <1>1, VisibleRange
<1> HIDE DEF m
<1>3. Max({VisibleMinimum, m}) = IF VisibleMinimum >= m THEN VisibleMinimum ELSE m
    BY <1>2, VisibleRange, LargerOfTwo
<1>4. QED
    BY <1>1, <1>3, VisibleRange DEF Clamp, m

\* An altitude is drawn between the zenith and the rim.
LEMMA RadiusProps ==
    ASSUME NEW a \in Int
    PROVE  SkyAltitudeRadius(a) \in InnerGap..SkyRadiusMax
    BY ClampProps, VisibleRange DEF SkyAltitudeRadius

\* The map of altitudes and its inverse agree within the padding.
LEMMA RadiusInverse ==
    ASSUME NEW d \in (InnerGap - HitPadding)..(SkyRadiusMax + HitPadding)
    PROVE  /\ SkyAltitudeFromRadius(d) \in Int
           /\ SkyAltitudeRadius(SkyAltitudeFromRadius(d)) - d \in -HitPadding..HitPadding
<1>1. d \in Int
    BY VisibleRange DEF HitPadding
<1> DEFINE m == Min({d, SkyRadiusMax})
           x == VisibleMaximum - (m - InnerGap)
<1>2. m = IF d <= SkyRadiusMax THEN d ELSE SkyRadiusMax
    BY <1>1, SmallerOfTwo, VisibleRange
<1> HIDE DEF m
<1>3. m \in Int /\ x \in Int
    BY <1>1, <1>2, VisibleRange
<1>4. SkyAltitudeFromRadius(d) = Clamp(x)
    BY DEF SkyAltitudeFromRadius, m
<1> DEFINE y == Clamp(x)
<1>5. y = IF x > VisibleMaximum THEN VisibleMaximum
          ELSE IF x < VisibleMinimum THEN VisibleMinimum ELSE x
    BY <1>3, ClampProps
<1> HIDE DEF y
<1>6. y \in Int /\ Clamp(y) = y
    BY <1>3, <1>5, VisibleRange, ClampProps
<1>7. InnerGap + VisibleMaximum - y - d \in -HitPadding..HitPadding
    BY <1>1, <1>2, <1>3, <1>5, <1>6, VisibleRange DEF HitPadding
<1>8. SkyAltitudeRadius(y) = InnerGap + VisibleMaximum - y
    BY <1>6 DEF SkyAltitudeRadius
<1>9. SkyAltitudeFromRadius(d) = y
    BY <1>4 DEF y
<1>10. SkyAltitudeRadius(SkyAltitudeFromRadius(d)) = InnerGap + VisibleMaximum - y
    BY <1>8, <1>9
<1>11. QED
    BY <1>1, <1>6, <1>7, <1>9, <1>10, VisibleRange DEF HitPadding

LEMMA MarkerProps ==
    ASSUME NEW t \in SkyAngles, Marker(t) # NoClick
    PROVE  Marker(t).azimuth = t.azimuth % 360
           /\ Marker(t).distance = SkyAltitudeRadius(t.altitude)
    BY DEF Marker, NormalizeDegrees, SkyAngles

LEMMA MarkerLies ==
    ASSUME NEW t \in SkyAngles, NEW c, SelectedBy(c, t), NEW m, m = Marker(t)
    PROVE  /\ m = NoClick \/ m.distance \in InnerGap..SkyRadiusMax
           /\ (c # NoClick /\ m # NoClick) =>
                /\ m.azimuth = c.azimuth
                /\ m.distance - c.distance \in -HitPadding..HitPadding
<1>1. m = NoClick \/ m.distance \in InnerGap..SkyRadiusMax
    BY MarkerProps, RadiusProps DEF SkyAngles
<1>2. ASSUME c # NoClick, m # NoClick
      PROVE  m.azimuth = c.azimuth /\ m.distance - c.distance \in -HitPadding..HitPadding
  <2> DEFINE az == c.azimuth
             d == c.distance
  <2>1. /\ az \in 0..359 /\ d \in (InnerGap - HitPadding)..(SkyRadiusMax + HitPadding)
        /\ t.azimuth = NormalizeSignedDegrees(az) /\ t.altitude = SkyAltitudeFromRadius(d)
    BY <1>2 DEF Angles, SelectedBy
  <2>2. m.azimuth = t.azimuth % 360 /\ m.distance = SkyAltitudeRadius(t.altitude)
    BY <1>2, MarkerProps
  <2> HIDE DEF az, d
  <2>3. NormalizeSignedDegrees(az) % 360 = az
    BY <2>1 DEF NormalizeSignedDegrees
  <2>4. SkyAltitudeRadius(SkyAltitudeFromRadius(d)) - d \in -HitPadding..HitPadding
    BY <2>1, RadiusInverse
  <2>5. QED
    BY <2>1, <2>2, <2>3, <2>4 DEF az, d
<1>3. QED
    BY <1>1, <1>2

LEMMA SkyFacts ==
    /\ NoTarget \in SkyAngles /\ NoLimits \in SkyLimits
    /\ LimitChoices \cup {NoLimits} \subseteq SkyLimits
    /\ \A t \in SkyAngles : Numbers(t) \in SkyAngles
                            /\ t.azimuth \in {Unset, Numbers(t).azimuth}
                            /\ t.altitude \in {Unset, Numbers(t).altitude}
    /\ \A l, s, t : Frame(l, s, t).marker = Marker(t)
    BY DEF NoTarget, NoLimits, Angles, SkyAngles, SkyLimits, Numbers, Number, Frame

\* The invariant follows from what the frame, the target and the click are.
LEMMA SkyKept ==
    ASSUME skyForm' \in SkyAngles, skyTarget' \in SkyAngles,
           skyLimits' \in LimitChoices \cup {NoLimits}, side' \in {"ccw", "cw"},
           skyMessage' \in {"", "warning", "error"}, skyFrame'.marker = Marker(skyTarget'),
           SelectedBy(clicked', skyTarget'), MarkerIsTheForm'
    PROVE  SkyInd'
<1>1. /\ skyFrame'.marker = NoClick \/ skyFrame'.marker.distance \in InnerGap..SkyRadiusMax
      /\ (clicked' # NoClick /\ skyFrame'.marker # NoClick) =>
            /\ skyFrame'.marker.azimuth = clicked'.azimuth
            /\ skyFrame'.marker.distance - clicked'.distance \in -HitPadding..HitPadding
    BY MarkerLies
<1>2. SkyTypeOK'
    BY <1>1 DEF SkyTypeOK
<1>3. MarkerUnderPointer'
    BY <1>1 DEF MarkerUnderPointer
<1>4. skyLimits' \in SkyLimits
    BY SkyFacts
<1>5. QED
    BY <1>2, <1>3, <1>4 DEF SkyInd, SkyInv

LEMMA SkyStarts == SkyInit => SkyInd
<1> SUFFICES ASSUME SkyInit PROVE SkyInd
    OBVIOUS
<1>1. /\ skyForm \in SkyAngles /\ skyTarget \in SkyAngles /\ skyLimits \in SkyLimits
      /\ skyFrame.marker = Marker(skyTarget) /\ clicked = NoClick
    BY SkyFacts DEF SkyInit
<1>2. SelectedBy(clicked, skyTarget)
    BY <1>1 DEF SelectedBy
<1>3. SkyTypeOK /\ MarkerUnderPointer
    BY <1>1, <1>2, MarkerLies DEF SkyInit, SkyTypeOK, MarkerUnderPointer
<1>4. MarkerIsTheForm
    BY DEF SkyInit, MarkerIsTheForm
<1>5. QED
    BY <1>1, <1>2, <1>3, <1>4 DEF SkyInd, SkyInv

LEMMA SkyDrawn == ASSUME SkyInd, RenderSky \/ LoadLimits PROVE SkyInd'
<1>1. /\ UNCHANGED <<skyForm, skyTarget, skyMessage, clicked>>
      /\ skyFrame'.marker = Marker(skyTarget)
      /\ side' \in {"ccw", "cw"} /\ skyLimits' \in LimitChoices \cup {NoLimits}
  <2>1. CASE RenderSky
    BY <2>1, SkyFacts DEF RenderSky, SkyInd, SkyInv, SkyTypeOK
  <2>2. CASE LoadLimits
    BY <2>2 DEF LoadLimits, SkyInd, SkyInv, SkyTypeOK
  <2>3. QED
    BY <2>1, <2>2
<1>2. MarkerIsTheForm'
    BY <1>1 DEF SkyInd, SkyInv, MarkerIsTheForm
<1>3. QED
    BY <1>1, <1>2, SkyKept DEF SkyInd, SkyInv, SkyTypeOK

\* A click that selects a target: where it is.
LEMMA ClickedArea ==
    ASSUME skyLimits \in SkyLimits, NEW d \in Nat, NEW az \in 0..359, WithinMotionArea(d, az)
    PROVE  d \in (InnerGap - HitPadding)..(SkyRadiusMax + HitPadding)
<1>1. UpperEdge(skyLimits) \in Int /\ LowerEdge(skyLimits) \in Int
    BY VisibleRange DEF UpperEdge, LowerEdge, SkyLimits
<1>2. /\ SkyAltitudeRadius(UpperEdge(skyLimits)) \in InnerGap..SkyRadiusMax
      /\ SkyAltitudeRadius(LowerEdge(skyLimits)) \in InnerGap..SkyRadiusMax
    BY <1>1, RadiusProps
<1>3. QED
    BY <1>2, VisibleRange DEF WithinMotionArea, HitPadding

LEMMA SkyClicked ==
    ASSUME SkyInd, NEW d \in ClickDistances, NEW az \in ClickAzimuths, SkyClick(d, az)
    PROVE  SkyInd'
<1> DEFINE target == Angles(NormalizeSignedDegrees(az), SkyAltitudeFromRadius(d))
<1>0. d \in Nat /\ az \in 0..359
    OBVIOUS
<1>1. CASE WithinMotionArea(d, az)
  <2>1. /\ skyTarget' = target /\ skyForm' = target /\ skyMessage' = ""
        /\ skyFrame' = Frame(skyLimits, side, target)
        /\ clicked' = [azimuth |-> az, distance |-> d] /\ UNCHANGED <<skyLimits, side>>
    BY <1>1 DEF SkyClick
  <2>2. d \in (InnerGap - HitPadding)..(SkyRadiusMax + HitPadding)
    BY <1>0, <1>1, ClickedArea DEF SkyInd
  <2>3. NormalizeSignedDegrees(az) \in Int /\ SkyAltitudeFromRadius(d) \in Int
    BY <1>0, <2>2, RadiusInverse DEF NormalizeSignedDegrees
  <2>4. target \in SkyAngles
    BY <2>3 DEF Angles, SkyAngles
  <2> HIDE DEF target
  <2>5. skyFrame'.marker = Marker(skyTarget')
    BY <2>1, SkyFacts
  <2>6. SelectedBy(clicked', skyTarget')
    BY <1>0, <2>1, <2>2 DEF SelectedBy, target
  <2>7. MarkerIsTheForm'
    BY <2>1 DEF MarkerIsTheForm
  <2>8. QED
    BY <2>1, <2>4, <2>5, <2>6, <2>7, SkyKept DEF SkyInd, SkyInv, SkyTypeOK
<1>2. CASE ~WithinMotionArea(d, az)
  <2>1. skyMessage' = "error"
        /\ UNCHANGED <<skyLimits, side, skyForm, skyTarget, skyFrame, skySent, clicked>>
    BY <1>2 DEF SkyClick
  <2>2. MarkerIsTheForm'
    BY <2>1 DEF SkyInd, SkyInv, MarkerIsTheForm
  <2>3. QED
    BY <2>1, <2>2, SkyKept DEF SkyInd, SkyInv, SkyTypeOK
<1>3. QED
    BY <1>1, <1>2

LEMMA SkyTyped == ASSUME SkyInd, NEW t \in SkyAngles, Type(t) PROVE SkyInd'
<1>1. /\ skyForm' = t /\ skyTarget' = Numbers(t) /\ clicked' = NoClick
      /\ skyMessage' \in {"", "warning", "error"}
      /\ skyFrame' = Frame(skyLimits, side, skyTarget') /\ UNCHANGED <<skyLimits, side>>
    BY DEF Type
<1>2. /\ skyTarget' \in SkyAngles /\ skyFrame'.marker = Marker(skyTarget')
      /\ SelectedBy(clicked', skyTarget')
    BY <1>1, SkyFacts DEF SelectedBy
<1>3. MarkerIsTheForm'
    BY <1>1, SkyFacts DEF MarkerIsTheForm
<1>4. QED
    BY <1>1, <1>2, <1>3, SkyKept DEF SkyInd, SkyInv, SkyTypeOK

LEMMA SkySubmitted == ASSUME SkyInd, SkySubmit \/ UNCHANGED skyVars PROVE SkyInd'
<1>1. /\ UNCHANGED <<skyLimits, side, skyForm, skyTarget, skyFrame, clicked>>
      /\ skyMessage' \in {skyMessage, "error"}
    BY DEF SkySubmit, skyVars
<1>2. MarkerIsTheForm'
    BY <1>1 DEF SkyInd, SkyInv, MarkerIsTheForm
<1>3. QED
    BY <1>1, <1>2, SkyKept DEF SkyInd, SkyInv, SkyTypeOK

\* The steps of the form, with their targets as angles.
LEMMA SkyTypes ==
    ASSUME NEW p \in TypedAngles
    PROVE  Angles(p[1], p[2]) \in SkyAngles
    BY DEF Angles, SkyAngles

LEMMA SkyStep == SkyInd /\ [SkyNext]_skyVars => SkyInd'
    BY SkyDrawn, SkyClicked, SkyTyped, SkyTypes, SkySubmitted
    DEF SkyNext, SkyDrawing, SkySelecting

\* A click that selects a target lies within the band of one side.
LEMMA SkyClickCovered ==
    ASSUME skyLimits \in SkyLimits, NEW d \in Nat, NEW az \in 0..359, WithinMotionArea(d, az)
    PROVE  \E s \in {"ccw", "cw"} :
              Covers(Frame(skyLimits, s, NoTarget), [azimuth |-> az, distance |-> d])
<1> DEFINE c == [azimuth |-> az, distance |-> d]
           inner == SkyAltitudeRadius(UpperEdge(skyLimits))
           outer == SkyAltitudeRadius(LowerEdge(skyLimits))
<1>1. inner \in InnerGap..SkyRadiusMax /\ outer \in InnerGap..SkyRadiusMax
  <2>1. UpperEdge(skyLimits) \in Int /\ LowerEdge(skyLimits) \in Int
    BY VisibleRange DEF UpperEdge, LowerEdge, SkyLimits
  <2>2. QED
    BY <2>1, RadiusProps
<1>2. d \in (inner - HitPadding)..(outer + HitPadding)
    BY <1>1, VisibleRange DEF WithinMotionArea, HitPadding
<1>3. ASSUME NEW s \in {"ccw", "cw"}, NEW sweep \in Int, Sweep(skyLimits, s) = sweep,
             \E turn \in {-360, 0} : IF sweep >= 0 THEN az <= sweep
                                     ELSE sweep <= az + turn /\ az + turn <= 0
      PROVE  Covers(Frame(skyLimits, s, NoTarget), c)
  <2> HIDE DEF inner, outer
  <2>1. LET f == Frame(skyLimits, s, NoTarget) IN
        f.inner = inner /\ f.outer = outer /\ f.sweep = sweep
    BY <1>3 DEF Frame, inner, outer
  <2>2. QED
    BY <1>2, <1>3, <2>1 DEF Covers
<1>4. CASE skyLimits.ccw = Unset /\ skyLimits.cw = Unset
  <2>1. Sweep(skyLimits, "cw") = 360
    BY <1>4 DEF Sweep, SelectedLimit
  <2>2. QED
    BY <1>3, <2>1
<1>5. ASSUME NEW s \in {"ccw", "cw"}, WithinLimitSweep(az, SelectedLimit(skyLimits, s))
      PROVE  Covers(Frame(skyLimits, s, NoTarget), c)
  <2> DEFINE limit == SelectedLimit(skyLimits, s)
  <2>1. limit \in Int /\ limit # Unset
    BY <1>5 DEF SelectedLimit, SkyLimits, WithinLimitSweep
  <2>2. Sweep(skyLimits, s) = limit
    BY <2>1 DEF Sweep
  <2> HIDE DEF limit
  <2>3. \E turn \in {-360, 0} : IF limit >= 0 THEN az <= limit
                                ELSE limit <= az + turn /\ az + turn <= 0
    <3>0. WithinLimitSweep(az, limit)
        BY <1>5 DEF limit
    <3>1. CASE limit >= 0
        BY <2>1, <3>0, <3>1 DEF WithinLimitSweep, NormalizeDegrees
    <3>2. CASE limit < 0
        BY <2>1, <3>0, <3>2 DEF WithinLimitSweep
    <3>3. QED
        BY <2>1, <3>1, <3>2
  <2>4. QED
    BY <1>3, <2>1, <2>2, <2>3
<1>6. QED
    BY <1>4, <1>5 DEF WithinMotionArea, SelectedLimit

LEMMA SkyStepAllowed ==
    SkyInd /\ [SkyNext]_skyVars =>
        /\ (clicked' \notin {clicked, NoClick} =>
              \E s \in {"ccw", "cw"} : Covers(Frame(skyLimits, s, NoTarget), clicked'))
        /\ (skySent' # skySent => Allowed(Numbers(skySent'), skyLimits))
<1> SUFFICES ASSUME SkyInd, [SkyNext]_skyVars
             PROVE  /\ (clicked' \notin {clicked, NoClick} =>
                          \E s \in {"ccw", "cw"} :
                             Covers(Frame(skyLimits, s, NoTarget), clicked'))
                    /\ (skySent' # skySent => Allowed(Numbers(skySent'), skyLimits))
    OBVIOUS
<1>1. ASSUME NEW d \in ClickDistances, NEW az \in ClickAzimuths, SkyClick(d, az)
      PROVE  /\ skySent' = skySent
             /\ clicked' # clicked => clicked' = [azimuth |-> az, distance |-> d]
                                      /\ WithinMotionArea(d, az)
    BY <1>1 DEF SkyClick
<1>2. ASSUME NEW d \in ClickDistances, NEW az \in ClickAzimuths, SkyClick(d, az)
      PROVE  /\ skySent' = skySent
             /\ clicked' # clicked =>
                   \E s \in {"ccw", "cw"} : Covers(Frame(skyLimits, s, NoTarget), clicked')
  <2>1. d \in Nat /\ az \in 0..359 /\ skyLimits \in SkyLimits
    BY DEF SkyInd
  <2>2. ASSUME WithinMotionArea(d, az)
        PROVE  \E s \in {"ccw", "cw"} :
                  Covers(Frame(skyLimits, s, NoTarget), [azimuth |-> az, distance |-> d])
    BY <2>1, <2>2, SkyClickCovered
  <2>3. QED
    BY <1>1, <1>2, <2>2
<1>3. CASE RenderSky \/ LoadLimits \/ UNCHANGED skyVars
    BY <1>3 DEF RenderSky, LoadLimits, skyVars
<1>4. ASSUME NEW t, Type(t) PROVE skySent' = skySent /\ clicked' = NoClick
    BY <1>4 DEF Type
<1>5. CASE SkySubmit
    BY <1>5 DEF SkySubmit
<1>6. QED
    BY <1>2, <1>3, <1>4, <1>5 DEF SkyNext, SkyDrawing, SkySelecting

LEMMA SkyEntails == SkyInd => SkyInv
    BY DEF SkyInd

\* The pointer, the marker and the form are one target, on every page (the map of the
\* horizon view and its inverse).
THEOREM OneSkyTarget == PanelPagesSpec => []SkyInv
<1>1. PanelPagesSpec => SkyInit
    BY DEF PanelPagesSpec, PanelsInit
<1>2. QED
    BY <1>1, SkyEntails, SkyStarts, SkyStep, PanelPagesAddNothing, PTL

\* A target is selected on the map and sent to the mount only where the mount may go, on
\* every page (skyPointerWithinMotionArea, validateSkyPositionTarget).
THEOREM TargetsWithinLimits == PanelPagesSpec => SkyTargetsAllowed
<1>1. PanelPagesSpec => SkyInit
    BY DEF PanelPagesSpec, PanelsInit
<1>2. SkyInd /\ [SkyNext]_skyVars =>
        /\ [clicked' \notin {clicked, NoClick} =>
              \E s \in {"ccw", "cw"} : Covers(Frame(skyLimits, s, NoTarget), clicked')]_skyVars
        /\ [skySent' # skySent => Allowed(Numbers(skySent'), skyLimits)]_skyVars
    BY SkyStepAllowed
<1>3. QED
    BY <1>1, <1>2, SkyStarts, SkyStep, PanelPagesAddNothing, PTL
    DEF SkyTargetsAllowed, ClicksWithinTheBand, SkyGotoWithinLimits
HIDE SkyViewAssumption
-----------------------------------------------------------------------------
(* The tuning forms *)

USE TuningFormAssumption

Timers == [input : Inputs, value : Gains]
Payloads == UNION {[F -> Texts] : F \in SUBSET TuningFields}

Requests ==
    [id : 1..MaxApplies, kind : {"field", "panel", "floating"} \cup Saves, values : Payloads,
     phase : {"sent", "ok", "failed", "flash"},
     status : {Empty} \cup [TuningFields -> Gains]]

AppliesTypeOK ==
    /\ applyTimers \in Seq(Timers)
    /\ typed \in [TuningFields -> Texts]
    /\ \A r \in applies : r \in Requests /\ (r.phase = "ok" => r.status # Empty)

TimerOf(f) == \E k \in DOMAIN applyTimers : applyTimers[k].input[2] = f

\* Of the timers of a field, one in each form, the last one holds what was typed last.
LastIsTyped(queue, texts) ==
    \A k \in DOMAIN queue :
        LET f == queue[k].input[2] IN
        (texts[f] # EmptyField /\ \A m \in DOMAIN queue : m > k => queue[m].input[2] # f) =>
            queue[k].value = texts[f]
LastTimerIsTyped == LastIsTyped(applyTimers, typed)

PendingTogetherRaced ==
    \A r1, r2 \in applies : r1 # r2 => FieldsUnder(r1) \cap FieldsUnder(r2) \subseteq raced

PendingIsTyped ==
    \A r \in applies : \A f \in FieldsUnder(r) \ raced :
        typed[f] # EmptyField =>
            \/ TimerOf(f)
            \/ r.values[f] = typed[f] /\ (r.phase = "ok" => drive[f] = typed[f])

TuningInd ==
    /\ TuningInv
    /\ AppliesTypeOK
    /\ LastTimerIsTyped
    /\ PendingTogetherRaced
    /\ PendingIsTyped

\* The queue q has lost at most a timer of the input i, and gained one at the end.
MovedTimer(q, i) ==
    \E p \in 1..Len(applyTimers) + 1 :
        /\ p <= Len(applyTimers) => applyTimers[p].input = i
        /\ Len(q) = IF p <= Len(applyTimers) THEN Len(applyTimers) ELSE Len(applyTimers) + 1
        /\ \A j \in 1..Len(q) - 1 : q[j] = applyTimers[IF j < p THEN j ELSE j + 1]

\* The new timer of an input is the last to fire, in the place of its old one.
LEMMA RescheduledProps ==
    ASSUME applyTimers \in Seq(Timers), NEW i \in Inputs, NEW v \in Gains,
           NEW q, q = Rescheduled(i, v)
    PROVE  /\ q \in Seq(Timers) /\ Len(q) \in Nat \ {0} /\ DOMAIN q = 1..Len(q)
           /\ q[Len(q)] = [input |-> i, value |-> v]
           /\ MovedTimer(q, i)
<1> DEFINE own == {k \in DOMAIN applyTimers : applyTimers[k].input = i}
           t == [input |-> i, value |-> v]
<1>1. t \in Timers /\ v # EmptyField /\ Len(applyTimers) \in Nat
      /\ DOMAIN applyTimers = 1..Len(applyTimers)
    BY DEF Timers
<1>2. CASE own = {}
  <2>1. q = Append(applyTimers, t)
    BY <1>1, <1>2 DEF Rescheduled
  <2>2. q \in Seq(Timers) /\ Len(q) = Len(applyTimers) + 1 /\ q[Len(q)] = t
        /\ \A j \in 1..Len(q) - 1 : q[j] = applyTimers[j]
    BY <1>1, <2>1
  <2>3. Len(applyTimers) + 1 \in 1..Len(applyTimers) + 1
    BY <1>1
  <2>4. QED
    BY <1>1, <2>2, <2>3 DEF MovedTimer
<1>3. CASE own # {}
  <2> DEFINE p == CHOOSE k \in own : TRUE
             r == RemoveAt(applyTimers, p)
  <2>1. p \in DOMAIN applyTimers /\ applyTimers[p].input = i
    BY <1>3
  <2> HIDE DEF p
  <2>2. r \in Seq(Timers) /\ Len(r) = Len(applyTimers) - 1
        /\ \A j \in 1..Len(applyTimers) - 1 :
               r[j] = IF j < p THEN applyTimers[j] ELSE applyTimers[j + 1]
    BY <2>1, RemoveAtProps
  <2>3. q = Append(r, t)
    BY <1>1, <1>3 DEF Rescheduled, p
  <2> HIDE DEF r
  <2>4. q \in Seq(Timers) /\ Len(q) = Len(applyTimers) /\ q[Len(q)] = t
        /\ \A j \in 1..Len(q) - 1 : q[j] = r[j]
    <3> HIDE DEF t
    <3>1. Len(r) \in Nat /\ Len(applyTimers) = Len(r) + 1 /\ r \in Seq(Timers)
        BY <1>1, <2>1, <2>2
    <3>2. q \in Seq(Timers) /\ Len(q) = Len(r) + 1 /\ q[Len(r) + 1] = t
          /\ \A j \in 1..Len(r) : q[j] = r[j]
        BY <1>1, <2>3, <3>1
    <3>3. QED
        BY <3>1, <3>2
  <2>5. p \in 1..Len(applyTimers) + 1 /\ p <= Len(applyTimers)
    BY <1>1, <2>1
  <2>6. \A j \in 1..Len(q) - 1 : q[j] = applyTimers[IF j < p THEN j ELSE j + 1]
    BY <2>2, <2>4
  <2>7. Len(q) \in Nat \ {0} /\ DOMAIN q = 1..Len(q)
    BY <1>1, <2>4, <2>1
  <2>8. QED
    BY <2>1, <2>4, <2>5, <2>6, <2>7 DEF MovedTimer
<1>4. QED
    BY <1>2, <1>3

\* A rescheduled timer leaves the others, and is the last one of its field.
Reschedules(q, i, v) ==
    /\ q \in Seq(Timers)
    /\ \E k \in DOMAIN q : q[k] = [input |-> i, value |-> v]
    /\ \A k \in DOMAIN applyTimers : applyTimers[k].input[2] # i[2] =>
          \E m \in DOMAIN q : q[m] = applyTimers[k]
    /\ (LastTimerIsTyped /\ typed \in [TuningFields -> Texts]) =>
          LastIsTyped(q, [typed EXCEPT ![i[2]] = v])

LEMMA RescheduledTimers ==
    ASSUME applyTimers \in Seq(Timers), NEW i \in Inputs, NEW v \in Gains,
           NEW q, q = Rescheduled(i, v)
    PROVE  Reschedules(q, i, v)
<1> DEFINE n == Len(applyTimers)
<1>1. /\ q \in Seq(Timers) /\ Len(q) \in Nat \ {0} /\ DOMAIN q = 1..Len(q)
      /\ q[Len(q)] = [input |-> i, value |-> v]
    BY RescheduledProps
<1>2. PICK p \in 1..n + 1 :
                /\ p <= n => applyTimers[p].input = i
                /\ Len(q) = IF p <= n THEN n ELSE n + 1
                /\ \A j \in 1..Len(q) - 1 : q[j] = applyTimers[IF j < p THEN j ELSE j + 1]
  <2>1. MovedTimer(q, i)
    BY RescheduledProps
  <2>2. QED
    BY <2>1 DEF MovedTimer
<1>3. n \in Nat /\ DOMAIN applyTimers = 1..n /\ i[2] \in TuningFields
    BY DEF Inputs
<1> HIDE DEF n
<1>4. \A k \in 1..n : k # p =>
         LET m == IF k < p THEN k ELSE k - 1 IN
         m \in 1..Len(q) - 1 /\ q[m] = applyTimers[k]
    BY <1>1, <1>2, <1>3
<1>5. \A k \in 1..n : applyTimers[k].input[2] # i[2] => k # p
    BY <1>2, <1>3
<1>6. ASSUME NEW k \in DOMAIN applyTimers, applyTimers[k].input[2] # i[2]
      PROVE  \E m \in DOMAIN q : q[m] = applyTimers[k]
  <2>1. k \in 1..n /\ k # p
    BY <1>3, <1>5, <1>6
  <2>2. (IF k < p THEN k ELSE k - 1) \in 1..Len(q) - 1
        /\ q[IF k < p THEN k ELSE k - 1] = applyTimers[k]
    BY <1>4, <2>1
  <2>3. QED
    BY <1>1, <2>2
<1> DEFINE new == [typed EXCEPT ![i[2]] = v]
<1>7. ASSUME LastTimerIsTyped, typed \in [TuningFields -> Texts], NEW k \in DOMAIN q,
             new[q[k].input[2]] # EmptyField,
             \A m \in DOMAIN q : m > k => q[m].input[2] # q[k].input[2]
      PROVE  q[k].value = new[q[k].input[2]]
  <2>1. CASE k = Len(q)
    BY <1>1, <1>3, <1>7, <2>1
  <2>2. CASE k < Len(q)
    <3> DEFINE o == IF k < p THEN k ELSE k + 1
    <3>1. o \in 1..n /\ q[k] = applyTimers[o] /\ q[k].input[2] # i[2]
      <4>1. o \in 1..n /\ k \in 1..Len(q) - 1
        BY <1>1, <1>2, <1>3, <2>2
      <4>2. q[Len(q)].input[2] # q[k].input[2]
        BY <1>1, <1>7, <2>2
      <4>3. QED
        BY <1>1, <1>2, <4>1, <4>2
    <3>2. new[q[k].input[2]] = typed[applyTimers[o].input[2]]
        BY <1>3, <1>7, <3>1
    <3>3. ASSUME NEW m \in 1..n, m > o PROVE applyTimers[m].input[2] # applyTimers[o].input[2]
      <4>1. CASE applyTimers[m].input[2] = i[2]
        BY <3>1, <4>1
      <4>2. CASE applyTimers[m].input[2] # i[2]
        <5>1. m # p /\ (IF m < p THEN m ELSE m - 1) > k
            BY <1>1, <1>2, <1>3, <1>5, <3>3, <4>2, <2>2
        <5>2. (IF m < p THEN m ELSE m - 1) \in 1..Len(q)
              /\ q[IF m < p THEN m ELSE m - 1] = applyTimers[m]
            BY <1>4, <5>1, <1>1
        <5>3. QED
            BY <1>1, <1>7, <5>1, <5>2, <3>1
      <4>3. QED
        BY <4>1, <4>2
    <3> HIDE DEF o
    <3>4. QED
        BY <1>3, <1>7, <3>1, <3>2, <3>3 DEF LastTimerIsTyped, LastIsTyped
  <2>3. k = Len(q) \/ k < Len(q)
    BY <1>1
  <2>4. QED
    BY <2>1, <2>2, <2>3
<1>8. QED
    BY <1>1, <1>6, <1>7 DEF LastIsTyped, Reschedules

\* Text of a status, and of the candidate, never takes the place of an edit.
LEMMA ShownProps ==
    ASSUME TuningTypeOK, CandidateIsOnTheForms, NEW values \in [TuningFields -> Texts],
           NEW active, NEW s, s = Shown(Preferred(values), active, edits)
    PROVE  /\ s \in [Inputs -> Texts]
           /\ \A i \in Inputs : i[2] \in edits => s[i] = inputs[i]
           /\ candidate # Empty => \A i \in Inputs : s[i] = candidate[i[2]]
<1>1. Preferred(values) \in [TuningFields -> Texts]
    BY DEF Preferred, TuningTypeOK
<1>2. \A i \in Inputs : i[2] \in TuningFields /\ inputs[i] \in Texts
    BY DEF Inputs, TuningTypeOK
<1>3. s \in [Inputs -> Texts]
    BY <1>1, <1>2 DEF Shown
<1>4. \A i \in Inputs : i[2] \in edits => s[i] = inputs[i]
    BY DEF Shown
<1>5. candidate # Empty => \A i \in Inputs : s[i] = candidate[i[2]]
    BY DEF Shown, Preferred, CandidateIsOnTheForms
<1>6. QED
    BY <1>3, <1>4, <1>5

LEMMA FormInputs ==
    ASSUME NEW form \in Forms, NEW f \in TuningFields
    PROVE  <<form, f>> \in Inputs /\ <<form, f>>[2] = f
    BY DEF Inputs

LEMMA TuningStarts == TuningInit => TuningInd
<1> SUFFICES ASSUME TuningInit PROVE TuningInd
    OBVIOUS
<1>1. (CHOOSE g \in Gains : TRUE) \in Gains
    OBVIOUS
<1>2. drive \in [TuningFields -> Gains] /\ polled \in [TuningFields -> Gains]
    BY <1>1 DEF TuningInit
<1>3. inputs \in [Inputs -> Texts]
    BY <1>2 DEF TuningInit, Inputs, Texts
<1>4. TuningTypeOK
    BY <1>2, <1>3 DEF TuningInit, TuningTypeOK, Empty
<1>5. EditIsShownUntilApplied /\ NoEditStranded /\ CandidateIsOnTheForms
    BY DEF TuningInit, EditIsShownUntilApplied, NoEditStranded, CandidateIsOnTheForms
<1>6. LastEditWins
    BY DEF TuningInit, LastEditWins
<1>7. AppliesTypeOK
    BY DEF TuningInit, AppliesTypeOK, Texts
<1>8. LastTimerIsTyped /\ PendingTogetherRaced /\ PendingIsTyped
    BY DEF TuningInit, LastTimerIsTyped, LastIsTyped, PendingTogetherRaced, PendingIsTyped
<1>9. QED
    BY <1>4, <1>5, <1>6, <1>7, <1>8 DEF TuningInd, TuningInv

\* A status that is rendered, or a form that is opened or left, changes no edit.
LEMMA TuningRendered ==
    ASSUME TuningInd, inputs' \in [Inputs -> Texts],
           \A i \in Inputs : i[2] \in edits => inputs'[i] = inputs[i],
           candidate # Empty => \A i \in Inputs : inputs'[i] = candidate[i[2]],
           UNCHANGED <<edits, candidate, applyTimers, applies, drive, polled, typed, lost,
                       raced, tuningActs>>
    PROVE  TuningInd'
<1>1. EditIsShownUntilApplied'
    BY FormInputs DEF TuningInd, TuningInv, TuningTypeOK, EditIsShownUntilApplied
<1>2. TuningTypeOK' /\ CandidateIsOnTheForms'
    BY DEF TuningInd, TuningInv, TuningTypeOK, CandidateIsOnTheForms
<1>3. NoEditStranded' /\ LastEditWins' /\ AppliesTypeOK' /\ PendingTogetherRaced'
    BY DEF TuningInd, TuningInv, NoEditStranded, LastEditWins, AppliesTypeOK,
           PendingTogetherRaced
<1>4. LastTimerIsTyped' /\ PendingIsTyped'
    BY DEF TuningInd, LastTimerIsTyped, PendingIsTyped, TimerOf
<1>5. QED
    BY <1>1, <1>2, <1>3, <1>4 DEF TuningInd, TuningInv

LEMMA TuningRenderStep == ASSUME TuningInd, RenderTuning PROVE TuningInd'
<1>1. polled \in [TuningFields -> Texts] /\ [f \in TuningFields |-> EmptyField] \in [TuningFields -> Texts]
    BY DEF TuningInd, TuningInv, TuningTypeOK, Texts
<1>2. PICK values \in {polled, [f \in TuningFields |-> EmptyField]}, active \in Inputs \cup {NoFocus} :
          inputs' = Shown(Preferred(values), active, edits)
    BY DEF RenderTuning
<1>3. values \in [TuningFields -> Texts]
    BY <1>1, <1>2
<1>4. /\ inputs' \in [Inputs -> Texts]
      /\ \A i \in Inputs : i[2] \in edits => inputs'[i] = inputs[i]
      /\ candidate # Empty => \A i \in Inputs : inputs'[i] = candidate[i[2]]
    BY <1>2, <1>3, ShownProps DEF TuningInd, TuningInv
<1>5. QED
    BY <1>4, TuningRendered DEF RenderTuning

LEMMA TuningEdited ==
    ASSUME TuningInd, NEW i \in Inputs, NEW v \in Texts, Edit(i, v)
    PROVE  TuningInd'
<1> DEFINE f0 == i[2]
<1>1. f0 \in TuningFields
    BY DEF Inputs
<1>2. /\ inputs' = [j \in Inputs |-> IF j[2] = f0 THEN v ELSE inputs[j]]
      /\ edits' = edits \cup {f0} /\ lost' = lost \ {f0}
      /\ candidate' = IF candidate = Empty THEN Empty ELSE [candidate EXCEPT ![f0] = v]
      /\ typed' = [typed EXCEPT ![f0] = v] /\ applyTimers' = Rescheduled(i, v)
      /\ UNCHANGED <<applies, drive, polled, raced>>
    BY DEF Edit, Synced
<1>3. typed \in [TuningFields -> Texts] /\ applyTimers \in Seq(Timers) /\ LastTimerIsTyped
    BY DEF TuningInd, AppliesTypeOK
<1>4. typed'[f0] = v /\ \A f \in TuningFields : f # f0 => typed'[f] = typed[f]
    BY <1>1, <1>2, <1>3
\* The timers.
<1>5. /\ applyTimers' \in Seq(Timers)
      /\ v # EmptyField => \E k \in DOMAIN applyTimers' :
             applyTimers'[k] = [input |-> i, value |-> v]
      /\ \A k \in DOMAIN applyTimers : applyTimers[k].input[2] # f0 =>
             \E m \in DOMAIN applyTimers' : applyTimers'[m] = applyTimers[k]
      /\ LastTimerIsTyped'
  <2>1. CASE v = EmptyField
    <3>1. applyTimers' = applyTimers
        BY <1>2, <2>1 DEF Rescheduled
    <3>2. \A f \in TuningFields : typed'[f] # EmptyField => typed'[f] = typed[f]
        BY <1>4, <2>1
    <3>3. \A k \in DOMAIN applyTimers : applyTimers[k].input[2] \in TuningFields
      <4> SUFFICES ASSUME NEW k \in DOMAIN applyTimers
                   PROVE  applyTimers[k].input[2] \in TuningFields
        OBVIOUS
      <4>1. applyTimers[k] \in Timers
        BY <1>3
      <4>2. QED
        BY <4>1 DEF Timers, Inputs
    <3>4. QED
        BY <1>3, <2>1, <3>1, <3>2, <3>3 DEF LastTimerIsTyped, LastIsTyped
  <2>2. CASE v # EmptyField
    <3>1. v \in Gains
        BY <2>2 DEF Texts
    <3> DEFINE q == Rescheduled(i, v)
               new == [typed EXCEPT ![f0] = v]
    <3>2. q = Rescheduled(i, v)
        OBVIOUS
    <3> HIDE DEF q
    <3>3. Reschedules(q, i, v)
        BY <1>3, <3>1, <3>2, RescheduledTimers
    <3>4. applyTimers' = q /\ typed' = new
        BY <1>2, <3>2
    <3> HIDE DEF new
    <3>5. LastTimerIsTyped'
        BY <1>3, <3>3, <3>4 DEF LastTimerIsTyped, Reschedules, new
    <3>6. QED
        BY <3>3, <3>4, <3>5 DEF Reschedules
  <2>3. QED
    BY <2>1, <2>2
\* The forms.
<1>6. TuningTypeOK'
  <2>1. inputs' \in [Inputs -> Texts]
    BY <1>2 DEF TuningInd, TuningInv, TuningTypeOK
  <2>2. candidate' = Empty \/ candidate' \in [TuningFields -> Texts]
    BY <1>1, <1>2 DEF TuningInd, TuningInv, TuningTypeOK
  <2>3. QED
    BY <1>1, <1>2, <2>1, <2>2 DEF TuningInd, TuningInv, TuningTypeOK
<1>7. EditIsShownUntilApplied'
  <2> SUFFICES ASSUME NEW f \in edits'
               PROVE  \/ f \in lost' /\ typed'[f] = EmptyField
                      \/ \A form \in Forms : inputs'[<<form, f>>] = typed'[f]
    BY DEF EditIsShownUntilApplied
  <2>1. f \in TuningFields
    BY <1>6 DEF TuningTypeOK
  <2>2. CASE f = f0
    BY <1>2, <1>4, <2>1, <2>2, FormInputs
  <2>3. CASE f # f0
    <3>1. \A form \in Forms : inputs'[<<form, f>>] = inputs[<<form, f>>]
        BY <1>2, <2>1, <2>3, FormInputs
    <3>2. f \in edits /\ typed'[f] = typed[f] /\ (f \in lost => f \in lost')
        BY <1>2, <1>4, <2>1, <2>3
    <3>3. QED
        BY <3>1, <3>2 DEF TuningInd, TuningInv, EditIsShownUntilApplied
  <2>4. QED
    BY <2>2, <2>3
<1>8. CandidateIsOnTheForms'
  <2> SUFFICES ASSUME candidate' # Empty, NEW j \in Inputs PROVE inputs'[j] = candidate'[j[2]]
    BY DEF CandidateIsOnTheForms
  <2>1. candidate # Empty /\ candidate \in [TuningFields -> Texts]
        /\ candidate' = [candidate EXCEPT ![f0] = v] /\ inputs[j] = candidate[j[2]]
    BY <1>2 DEF TuningInd, TuningInv, TuningTypeOK, CandidateIsOnTheForms
  <2>2. j[2] \in TuningFields
    BY DEF Inputs
  <2>3. QED
    BY <1>1, <1>2, <2>1, <2>2
\* What is still to be sent.
<1>9. NoEditStranded'
  <2> SUFFICES ASSUME NEW f \in edits', f \notin lost', typed'[f] # EmptyField
               PROVE  \/ \E t \in Range(applyTimers') : t.input[2] = f /\ t.value = typed'[f]
                      \/ \E r \in applies : f \in FieldsUnder(r) /\ r.values[f] = typed'[f]
    BY <1>2 DEF NoEditStranded, FieldsUnder
  <2>1. f \in TuningFields
    BY <1>6 DEF TuningTypeOK
  <2>2. CASE f = f0
    <3>1. PICK k \in DOMAIN applyTimers' : applyTimers'[k] = [input |-> i, value |-> v]
        BY <1>4, <1>5, <2>2
    <3>2. QED
        BY <1>4, <2>2, <3>1 DEF Range
  <2>3. CASE f # f0
    <3>1. f \in edits /\ typed'[f] = typed[f] /\ f \notin lost
        BY <1>2, <1>4, <2>1, <2>3
    <3>2. \/ \E k \in DOMAIN applyTimers : applyTimers[k].input[2] = f
                                           /\ applyTimers[k].value = typed[f]
          \/ \E r \in applies : f \in FieldsUnder(r) /\ r.values[f] = typed[f]
        BY <3>1 DEF TuningInd, TuningInv, NoEditStranded, Range
    <3>3. QED
        BY <1>5, <2>3, <3>1, <3>2 DEF Range
  <2>4. QED
    BY <2>2, <2>3
<1>10. \A f \in TuningFields : f # f0 /\ TimerOf(f) => TimerOf(f)'
    BY <1>5 DEF TimerOf
<1>11. v # EmptyField => TimerOf(f0)'
    BY <1>5 DEF TimerOf
<1>12. LastEditWins'
  <2> SUFFICES ASSUME NEW f \in TuningFields \ (edits' \cup lost' \cup raced'),
                      typed'[f] # EmptyField
               PROVE  \/ drive'[f] = typed'[f]
                      \/ \E t \in Range(applyTimers') : t.input[2] = f
                      \/ \E r \in applies : f \in FieldsUnder(r)
    BY <1>2 DEF LastEditWins, FieldsUnder
  <2>1. f # f0 /\ f \notin edits \cup lost \cup raced /\ typed'[f] = typed[f] /\ drive' = drive
    BY <1>2, <1>4
  <2>2. drive[f] = typed[f] \/ TimerOf(f) \/ \E r \in applies : f \in FieldsUnder(r)
    BY <2>1 DEF TuningInd, TuningInv, LastEditWins, Range, TimerOf
  <2>3. QED
    BY <1>10, <2>1, <2>2 DEF TimerOf, Range
<1>13. PendingIsTyped'
  <2> SUFFICES ASSUME NEW r \in applies, NEW f \in FieldsUnder(r) \ raced,
                      typed'[f] # EmptyField
               PROVE  \/ TimerOf(f)'
                      \/ r.values[f] = typed'[f] /\ (r.phase = "ok" => drive[f] = typed'[f])
    BY <1>2 DEF PendingIsTyped, FieldsUnder
  <2>1. f \in TuningFields
    BY DEF TuningInd, AppliesTypeOK, Requests, Payloads, FieldsUnder
  <2>2. CASE f = f0
    BY <1>4, <1>11, <2>2
  <2>3. CASE f # f0
    BY <1>4, <1>10, <2>1, <2>3 DEF TuningInd, PendingIsTyped
  <2>4. QED
    BY <2>2, <2>3
<1>14. PendingTogetherRaced' /\ AppliesTypeOK'
  <2>1. typed' \in [TuningFields -> Texts]
    BY <1>1, <1>2, <1>3
  <2>2. QED
    BY <1>2, <1>5, <2>1 DEF TuningInd, PendingTogetherRaced, AppliesTypeOK, FieldsUnder
<1>15. QED
    BY <1>5, <1>6, <1>7, <1>8, <1>9, <1>12, <1>13, <1>14 DEF TuningInd, TuningInv

LEMMA PendingFields ==
    ASSUME AppliesTypeOK, NEW r \in applies
    PROVE  r \in Requests /\ r.values \in [DOMAIN r.values -> Texts]
           /\ DOMAIN r.values \subseteq TuningFields /\ FieldsUnder(r) \subseteq DOMAIN r.values
    BY DEF AppliesTypeOK, Requests, Payloads, FieldsUnder

\* The request s is sent: a field that it shares with another one, or that it sends with
\* an older value, is raced.
Adds(s) ==
    /\ s \in Requests /\ s.phase = "sent"
    /\ applies' = applies \cup {s} /\ raced \subseteq raced'
    /\ \A f \in DOMAIN s.values \ raced' :
          (\A r \in applies : f \notin FieldsUnder(r)) /\ typed[f] \in {s.values[f], EmptyField}

LEMMA SubmitAdds ==
    ASSUME NEW kind \in {"field", "panel", "floating"} \cup Saves, NEW values \in Payloads,
           Submit(kind, values)
    PROVE  \E s : Adds(s) /\ s.values = values
<1>0. PICK id \in 1..MaxApplies :
          applies' = applies \cup {[id |-> id, kind |-> kind, values |-> values,
                                   phase |-> "sent", status |-> Empty]}
    BY DEF Submit
<1> DEFINE s == [id |-> id, kind |-> kind, values |-> values, phase |-> "sent",
                 status |-> Empty]
<1>1. s \in Requests /\ s.kind = kind /\ s.values = values /\ s.phase = "sent"
    BY DEF Requests
<1>2. applies' = applies \cup {s}
      /\ raced' = raced \cup
          {f \in DOMAIN values : \/ (\E r \in applies : f \in FieldsUnder(r))
                                \/ (values[f] # typed[f] /\ typed[f] # EmptyField)}
    BY <1>0 DEF Submit
<1> HIDE DEF s
<1>3. QED
    BY <1>1, <1>2 DEF Adds

LEMMA TuningSubmitted ==
    ASSUME TuningInd, NEW s, Adds(s),
           UNCHANGED <<inputs, edits, candidate, drive, polled, typed, lost>>,
           applyTimers' \in Seq(Timers), LastTimerIsTyped',
           \A k \in DOMAIN applyTimers :
              \/ \E m \in DOMAIN applyTimers' : applyTimers'[m] = applyTimers[k]
              \/ s.values = [f \in {applyTimers[k].input[2]} |-> applyTimers[k].value]
    PROVE  TuningInd'
<1>1. /\ s \in applies' /\ s.phase = "sent" /\ FieldsUnder(s) = DOMAIN s.values
      /\ s \in Requests /\ applies' = applies \cup {s} /\ raced \subseteq raced'
    BY DEF Adds, FieldsUnder
<1>2. ASSUME NEW f, TimerOf(f)
      PROVE  TimerOf(f)' \/ f \in FieldsUnder(s)
    BY <1>1, <1>2 DEF TimerOf
<1>3. TuningTypeOK' /\ EditIsShownUntilApplied' /\ CandidateIsOnTheForms' /\ AppliesTypeOK'
  <2>1. \A r \in applies' : r.phase \in {"sent", "ok", "failed", "flash"}
    BY <1>1 DEF TuningInd, TuningInv, TuningTypeOK
  <2>2. TuningTypeOK'
    BY <2>1 DEF TuningInd, TuningInv, TuningTypeOK
  <2>3. AppliesTypeOK'
    BY <1>1 DEF TuningInd, AppliesTypeOK
  <2>4. QED
    BY <2>2, <2>3 DEF TuningInd, TuningInv, EditIsShownUntilApplied, CandidateIsOnTheForms
<1>4. NoEditStranded'
  <2> SUFFICES ASSUME NEW f \in edits, f \notin lost, typed[f] # EmptyField
               PROVE  \/ \E t \in Range(applyTimers') : t.input[2] = f /\ t.value = typed[f]
                      \/ \E r \in applies' : f \in FieldsUnder(r) /\ r.values[f] = typed[f]
    BY DEF NoEditStranded, FieldsUnder
  <2>1. \/ \E k \in DOMAIN applyTimers : applyTimers[k].input[2] = f
                                         /\ applyTimers[k].value = typed[f]
        \/ \E r \in applies : f \in FieldsUnder(r) /\ r.values[f] = typed[f]
    BY DEF TuningInd, TuningInv, NoEditStranded, Range
  <2>2. ASSUME NEW k \in DOMAIN applyTimers, applyTimers[k].input[2] = f,
               applyTimers[k].value = typed[f]
        PROVE  \/ \E t \in Range(applyTimers') : t.input[2] = f /\ t.value = typed[f]
               \/ \E r \in applies' : f \in FieldsUnder(r) /\ r.values[f] = typed[f]
    BY <1>1, <2>2 DEF Range
  <2>3. QED
    BY <1>1, <2>1, <2>2
<1>5. LastEditWins'
  <2> SUFFICES ASSUME NEW f \in TuningFields \ (edits \cup lost \cup raced'),
                      typed[f] # EmptyField
               PROVE  \/ drive[f] = typed[f] \/ TimerOf(f)'
                      \/ \E r \in applies' : f \in FieldsUnder(r)
    BY DEF LastEditWins, FieldsUnder, TimerOf, Range
  <2>1. drive[f] = typed[f] \/ TimerOf(f) \/ \E r \in applies : f \in FieldsUnder(r)
    BY <1>1 DEF TuningInd, TuningInv, LastEditWins, Range, TimerOf
  <2>2. QED
    BY <1>1, <1>2, <2>1
<1>6. PendingTogetherRaced'
  <2> SUFFICES ASSUME NEW r1 \in applies', NEW r2 \in applies', r1 # r2,
                      NEW f \in FieldsUnder(r1), f \in FieldsUnder(r2)
               PROVE  f \in raced'
    BY DEF PendingTogetherRaced, FieldsUnder
  <2>1. CASE r1 = s \/ r2 = s
    BY <1>1, <2>1 DEF Adds
  <2>2. CASE r1 # s /\ r2 # s
    BY <1>1, <2>2 DEF TuningInd, PendingTogetherRaced
  <2>3. QED
    BY <2>1, <2>2
<1>7. PendingIsTyped'
  <2> SUFFICES ASSUME NEW r \in applies', NEW f \in FieldsUnder(r) \ raced',
                      typed[f] # EmptyField
               PROVE  \/ TimerOf(f)'
                      \/ r.values[f] = typed[f] /\ (r.phase = "ok" => drive[f] = typed[f])
    BY DEF PendingIsTyped, FieldsUnder
  <2>1. CASE r = s
    BY <1>1, <2>1 DEF Adds
  <2>2. CASE r # s
    <3>1. r \in applies /\ f \notin raced /\ f \notin FieldsUnder(s)
        BY <1>1, <2>2 DEF Adds
    <3>2. QED
        BY <1>2, <3>1 DEF TuningInd, PendingIsTyped
  <2>3. QED
    BY <2>1, <2>2
<1>8. QED
    BY <1>3, <1>4, <1>5, <1>6, <1>7 DEF TuningInd, TuningInv

LEMMA TuningTimerFired == ASSUME TuningInd, TimerFires PROVE TuningInd'
<1> DEFINE t == Head(applyTimers)
           n == Len(applyTimers)
           values == [f \in {t.input[2]} |-> t.value]
<1>1. applyTimers \in Seq(Timers) /\ applyTimers # <<>> /\ LastTimerIsTyped
    BY DEF TuningInd, AppliesTypeOK, TimerFires
<1>2. /\ t \in Timers /\ t = applyTimers[1] /\ n \in Nat \ {0} /\ DOMAIN applyTimers = 1..n
      /\ Tail(applyTimers) \in Seq(Timers) /\ DOMAIN Tail(applyTimers) = 1..n - 1
      /\ \A k \in 1..n - 1 : Tail(applyTimers)[k] = applyTimers[k + 1]
    BY <1>1
<1>3. values \in Payloads
  <2>1. t.input[2] \in TuningFields /\ t.value \in Texts
    BY <1>2 DEF Timers, Inputs, Texts
  <2>2. {t.input[2]} \in SUBSET TuningFields /\ values \in [{t.input[2]} -> Texts]
    BY <2>1
  <2>3. QED
    BY <2>2 DEF Payloads
<1>4. Submit("field", values)
    BY DEF TimerFires
<1>5. applyTimers' = Tail(applyTimers)
      /\ UNCHANGED <<inputs, edits, candidate, drive, polled, typed, lost>>
    BY DEF TimerFires
<1> HIDE DEF n, t
<1>6. PICK s : Adds(s) /\ s.values = values
  <2> HIDE DEF values
  <2>1. QED
    BY <1>3, <1>4, SubmitAdds
<1>7. LastIsTyped(Tail(applyTimers), typed)
  <2> DEFINE q == Tail(applyTimers)
  <2>0. DOMAIN q = 1..n - 1 /\ \A k \in 1..n - 1 : q[k] = applyTimers[k + 1]
    BY <1>2
  <2> HIDE DEF q
  <2>1. LastIsTyped(q, typed)
    <3> SUFFICES ASSUME NEW k \in 1..n - 1, typed[applyTimers[k + 1].input[2]] # EmptyField,
                        \A m \in 1..n - 1 : m > k =>
                            applyTimers[m + 1].input[2] # applyTimers[k + 1].input[2]
                 PROVE  applyTimers[k + 1].value = typed[applyTimers[k + 1].input[2]]
      BY <2>0 DEF LastIsTyped
    <3>1. \A m \in 1..n : m > k + 1 => m - 1 \in 1..n - 1 /\ m - 1 > k /\ (m - 1) + 1 = m
      BY <1>2
    <3>2. \A m \in 1..n : m > k + 1 => applyTimers[m].input[2] # applyTimers[k + 1].input[2]
      BY <3>1
    <3>3. k + 1 \in 1..n
      BY <1>2
    <3>4. QED
      BY <1>1, <1>2, <3>2, <3>3 DEF LastTimerIsTyped, LastIsTyped
  <2>2. QED
    BY <2>1 DEF q
<1>8. ASSUME NEW k \in DOMAIN applyTimers
      PROVE  \/ \E m \in DOMAIN applyTimers' : applyTimers'[m] = applyTimers[k]
             \/ s.values = [f \in {applyTimers[k].input[2]} |-> applyTimers[k].value]
  <2>1. CASE k = 1
    BY <1>2, <1>6, <2>1
  <2>2. CASE k # 1
    <3>1. k - 1 \in 1..n - 1 /\ (k - 1) + 1 = k
        BY <1>2, <2>2
    <3>2. QED
        BY <1>2, <1>5, <3>1
  <2>3. QED
    BY <2>1, <2>2
<1>9. applyTimers' \in Seq(Timers) /\ LastTimerIsTyped'
    BY <1>2, <1>5, <1>7 DEF LastTimerIsTyped
<1>10. QED
    BY <1>5, <1>6, <1>8, <1>9, TuningSubmitted

LEMMA TuningFormSubmitted ==
    ASSUME TuningInd, NEW kind \in SubmitKinds, SubmitForm(kind)
    PROVE  TuningInd'
<1> DEFINE values == FormValues(IF kind = "floating" THEN "floating" ELSE "panel")
<1>1. kind \in {"field", "panel", "floating"} \cup Saves
    BY DEF Saves
<1>2. values \in [TuningFields -> Texts]
    BY FormInputs DEF FormValues, Forms, TuningInd, TuningInv, TuningTypeOK
<1>3. values \in Payloads
    BY <1>2 DEF Payloads
<1>4. Submit(kind, values)
      /\ UNCHANGED <<inputs, edits, candidate, applyTimers, drive, polled, typed, lost>>
    BY DEF SubmitForm
<1> HIDE DEF values
<1>5. PICK s : Adds(s)
    BY <1>1, <1>3, <1>4, SubmitAdds
<1>6. applyTimers' \in Seq(Timers) /\ LastTimerIsTyped'
    BY <1>4 DEF TuningInd, AppliesTypeOK, LastTimerIsTyped, LastIsTyped
<1>7. QED
    BY <1>4, <1>5, <1>6, TuningSubmitted

\* A request is answered, or lost.
LEMMA TuningAnswered ==
    ASSUME TuningInd, NEW r \in applies, NEW s \in Requests,
           s.values = r.values, s.phase # "flash", r.phase # "flash", s.phase = "ok" => s.status # Empty,
           applies' = (applies \ {r}) \cup {s},
           UNCHANGED <<inputs, edits, candidate, applyTimers, polled, typed, lost, raced,
                       tuningActs>>,
           drive' \in [TuningFields -> Gains],
           \A f \in TuningFields : drive'[f] # drive[f] => f \in FieldsUnder(r),
           s.phase = "ok" => \A f \in FieldsUnder(r) :
                                r.values[f] # EmptyField => drive'[f] = r.values[f]
    PROVE  TuningInd'
<1>1. /\ FieldsUnder(s) = FieldsUnder(r) /\ s \in applies' /\ AppliesTypeOK
      /\ \A q \in applies' : q = s \/ (q \in applies /\ q # r)
      /\ \A q \in applies : q # r => q \in applies'
    BY DEF FieldsUnder, TuningInd
<1>2. TuningTypeOK' /\ EditIsShownUntilApplied' /\ CandidateIsOnTheForms' /\ AppliesTypeOK'
      /\ LastTimerIsTyped'
  <2>1. \A q \in applies' : q.phase \in {"sent", "ok", "failed", "flash"}
    BY <1>1 DEF TuningInd, TuningInv, TuningTypeOK, Requests
  <2>2. TuningTypeOK'
    BY <2>1 DEF TuningInd, TuningInv, TuningTypeOK
  <2>3. AppliesTypeOK'
    BY <1>1 DEF TuningInd, AppliesTypeOK
  <2>4. QED
    BY <2>2, <2>3 DEF TuningInd, TuningInv, EditIsShownUntilApplied, CandidateIsOnTheForms,
                      LastTimerIsTyped, LastIsTyped
<1>3. NoEditStranded'
  <2> SUFFICES ASSUME NEW f \in edits, f \notin lost, typed[f] # EmptyField
               PROVE  \/ \E t \in Range(applyTimers) : t.input[2] = f /\ t.value = typed[f]
                      \/ \E q \in applies' : f \in FieldsUnder(q) /\ q.values[f] = typed[f]
    BY DEF NoEditStranded, FieldsUnder
  <2>1. \/ \E t \in Range(applyTimers) : t.input[2] = f /\ t.value = typed[f]
        \/ \E q \in applies : f \in FieldsUnder(q) /\ q.values[f] = typed[f]
    BY DEF TuningInd, TuningInv, NoEditStranded
  <2>2. QED
    BY <1>1, <2>1
<1>4. LastEditWins'
  <2> SUFFICES ASSUME NEW f \in TuningFields \ (edits \cup lost \cup raced),
                      typed[f] # EmptyField
               PROVE  \/ drive'[f] = typed[f]
                      \/ \E t \in Range(applyTimers) : t.input[2] = f
                      \/ \E q \in applies' : f \in FieldsUnder(q)
    BY DEF LastEditWins, FieldsUnder
  <2>1. \/ drive[f] = typed[f] \/ \E t \in Range(applyTimers) : t.input[2] = f
        \/ \E q \in applies : f \in FieldsUnder(q)
    BY DEF TuningInd, TuningInv, LastEditWins
  <2>2. QED
    BY <1>1, <2>1
<1>5. PendingTogetherRaced'
  <2> SUFFICES ASSUME NEW r1 \in applies', NEW r2 \in applies', r1 # r2,
                      NEW f \in FieldsUnder(r1), f \in FieldsUnder(r2)
               PROVE  f \in raced
    BY DEF PendingTogetherRaced, FieldsUnder
  <2>1. CASE r1 = s
    BY <1>1, <2>1 DEF TuningInd, PendingTogetherRaced
  <2>2. CASE r2 = s
    BY <1>1, <2>2 DEF TuningInd, PendingTogetherRaced
  <2>3. CASE r1 # s /\ r2 # s
    BY <1>1, <2>3 DEF TuningInd, PendingTogetherRaced
  <2>4. QED
    BY <2>1, <2>2, <2>3
<1>6. PendingIsTyped'
  <2> SUFFICES ASSUME NEW q \in applies', NEW f \in FieldsUnder(q) \ raced,
                      typed[f] # EmptyField
               PROVE  \/ TimerOf(f)
                      \/ q.values[f] = typed[f] /\ (q.phase = "ok" => drive'[f] = typed[f])
    BY DEF PendingIsTyped, FieldsUnder, TimerOf
  <2>1. CASE q = s
    BY <1>1, <2>1 DEF TuningInd, PendingIsTyped
  <2>2. CASE q # s
    <3>1. q \in applies /\ q # r
        BY <1>1, <2>2
    <3>2. f \in TuningFields /\ f \notin FieldsUnder(r)
        BY <1>1, <3>1, PendingFields DEF TuningInd, PendingTogetherRaced
    <3>3. drive'[f] = drive[f]
        BY <3>2
    <3>4. QED
        BY <3>1, <3>3 DEF TuningInd, PendingIsTyped
  <2>3. QED
    BY <2>1, <2>2
<1>7. QED
    BY <1>2, <1>3, <1>4, <1>5, <1>6 DEF TuningInd, TuningInv

LEMMA TuningServed ==
    ASSUME TuningInd, NEW r \in applies, ServeApply(r) \/ FailApply(r)
    PROVE  TuningInd'
<1> DEFINE given == {f \in DOMAIN r.values : r.values[f] # EmptyField}
           failed == [r EXCEPT !.phase = "failed"]
           ok == [r EXCEPT !.phase = "ok", !.status = polled]
<1>1. r \in Requests /\ r.values \in [DOMAIN r.values -> Texts]
      /\ DOMAIN r.values \subseteq TuningFields
    BY PendingFields DEF TuningInd
<1>2. drive \in [TuningFields -> Gains] /\ polled \in [TuningFields -> Gains]
    BY DEF TuningInd, TuningInv, TuningTypeOK
<1>3. failed \in Requests /\ failed.values = r.values
      /\ failed.phase = "failed"
    BY <1>1 DEF Requests
<1>4. ok \in Requests /\ ok.values = r.values /\ ok.status = polled /\ ok.phase = "ok"
    BY <1>1, <1>2 DEF Requests
<1>5. polled # Empty
  <2>1. DOMAIN polled = TuningFields /\ DOMAIN Empty = {}
    BY <1>2 DEF Empty
  <2>2. QED
    BY <2>1
<1> HIDE DEF failed, ok
<1>6. CASE FailApply(r) \/ (ServeApply(r) /\ given = {})
  <2>1. applies' = (applies \ {r}) \cup {failed} /\ drive' = drive /\ r.phase # "flash"
        /\ UNCHANGED <<inputs, edits, candidate, applyTimers, polled, typed, lost, raced,
                       tuningActs>>
    BY <1>6 DEF FailApply, ServeApply, failed
  <2>2. QED
    BY <1>2, <1>3, <2>1, TuningAnswered
<1>7. CASE ServeApply(r) /\ given # {}
  <2>1. /\ applies' = (applies \ {r}) \cup {ok} /\ r.phase # "flash"
        /\ drive' = [f \in TuningFields |-> IF f \in given THEN r.values[f] ELSE drive[f]]
        /\ UNCHANGED <<inputs, edits, candidate, applyTimers, polled, typed, lost, raced,
                       tuningActs>>
    BY <1>7 DEF ServeApply, ok
  <2>2. \A f \in given : r.values[f] \in Gains /\ f \in TuningFields /\ f \in FieldsUnder(r)
    BY <1>1, <2>1 DEF Texts, FieldsUnder
  <2>3. drive' \in [TuningFields -> Gains]
    BY <1>2, <2>1, <2>2
  <2>4. \A f \in TuningFields : drive'[f] # drive[f] => f \in FieldsUnder(r)
    BY <2>1, <2>2
  <2>5. \A f \in FieldsUnder(r) : r.values[f] # EmptyField => drive'[f] = r.values[f]
    BY <1>1, <2>1 DEF FieldsUnder
  <2>6. QED
    BY <1>4, <1>5, <2>1, <2>3, <2>4, <2>5, TuningAnswered
<1>8. QED
    BY <1>6, <1>7

LEMMA TuningPolled == ASSUME TuningInd, PollTuning PROVE TuningInd'
<1>1. TuningTypeOK' /\ EditIsShownUntilApplied' /\ CandidateIsOnTheForms'
    BY DEF PollTuning, TuningInd, TuningInv, TuningTypeOK, EditIsShownUntilApplied,
           CandidateIsOnTheForms
<1>2. NoEditStranded' /\ LastEditWins' /\ AppliesTypeOK' /\ PendingTogetherRaced'
    BY DEF PollTuning, TuningInd, TuningInv, NoEditStranded, LastEditWins, AppliesTypeOK,
           PendingTogetherRaced
<1>3. LastTimerIsTyped' /\ PendingIsTyped'
    BY DEF PollTuning, TuningInd, LastTimerIsTyped, LastIsTyped, PendingIsTyped, TimerOf
<1>4. QED
    BY <1>1, <1>2, <1>3 DEF TuningInd, TuningInv

\* The answer of an apply leaves an edit only where the form shows another text by then.
LEMMA TuningApplied ==
    ASSUME TuningInd, NEW r \in applies, ApplyOk(r)
    PROVE  TuningInd'
<1> DEFINE flash == [r EXCEPT !.phase = "flash", !.status = Empty]
<1>0. PICK active \in Inputs \cup {NoFocus} : inputs' = Shown(Preferred(r.status), active, edits)
    BY DEF ApplyOk
<1>1. /\ r.phase = "ok" /\ inputs' = Shown(Preferred(r.status), active, edits)
      /\ candidate' = Empty /\ edits' = edits \ Applied(r)
      /\ applies' = (applies \ {r}) \cup IF r.kind \in Saves THEN {flash} ELSE {}
      /\ UNCHANGED <<applyTimers, drive, polled, typed, lost, raced, tuningActs>>
    BY <1>0 DEF ApplyOk
<1>2. r \in Requests /\ r.status # Empty /\ DOMAIN r.values \subseteq TuningFields
      /\ FieldsUnder(r) = DOMAIN r.values
    BY <1>1, PendingFields DEF TuningInd, AppliesTypeOK, FieldsUnder
<1>3. flash \in Requests /\ flash.phase = "flash"
    BY <1>2 DEF Requests
<1> HIDE DEF flash
<1>4. /\ \A q \in applies' : q \in Requests
                             /\ ((q \in applies /\ q # r) \/ (FieldsUnder(q) = {} /\ q.phase = "flash"))
      /\ \A q \in applies : q # r => q \in applies'
    BY <1>1, <1>3 DEF TuningInd, AppliesTypeOK, FieldsUnder
<1>5. r.status \in [TuningFields -> Texts]
    BY <1>2 DEF Requests, Texts
<1>6. inputs' \in [Inputs -> Texts] /\ \A i \in Inputs : i[2] \in edits => inputs'[i] = inputs[i]
    BY <1>1, <1>5, ShownProps DEF TuningInd, TuningInv
<1>7. edits \subseteq TuningFields /\ edits' \subseteq edits
    BY <1>1 DEF TuningInd, TuningInv, TuningTypeOK
<1>8. TuningTypeOK' /\ CandidateIsOnTheForms' /\ AppliesTypeOK' /\ LastTimerIsTyped'
  <2>1. \A q \in applies' : q.phase \in {"sent", "ok", "failed", "flash"}
    BY <1>4 DEF Requests
  <2>2. TuningTypeOK' /\ CandidateIsOnTheForms'
    BY <1>1, <1>6, <1>7, <2>1 DEF TuningInd, TuningInv, TuningTypeOK, CandidateIsOnTheForms
  <2>3. AppliesTypeOK' /\ LastTimerIsTyped'
    BY <1>1, <1>4 DEF TuningInd, AppliesTypeOK, LastTimerIsTyped, LastIsTyped
  <2>4. QED
    BY <2>2, <2>3
<1>9. EditIsShownUntilApplied'
  <2> SUFFICES ASSUME NEW f \in edits'
               PROVE  \/ f \in lost /\ typed[f] = EmptyField
                      \/ \A form \in Forms : inputs'[<<form, f>>] = typed[f]
    BY <1>1 DEF EditIsShownUntilApplied
  <2>1. f \in edits /\ f \in TuningFields
    BY <1>7
  <2>2. \A form \in Forms : inputs'[<<form, f>>] = inputs[<<form, f>>]
    BY <1>6, <2>1, FormInputs
  <2>3. QED
    BY <2>1, <2>2 DEF TuningInd, TuningInv, EditIsShownUntilApplied
<1>10. NoEditStranded'
  <2> SUFFICES ASSUME NEW f \in edits', f \notin lost, typed[f] # EmptyField
               PROVE  \/ \E t \in Range(applyTimers) : t.input[2] = f /\ t.value = typed[f]
                      \/ \E q \in applies' : f \in FieldsUnder(q) /\ q.values[f] = typed[f]
    BY <1>1 DEF NoEditStranded, FieldsUnder
  <2>1. f \in edits /\ f \notin Applied(r)
    BY <1>1
  <2>2. inputs[<<"panel", f>>] = typed[f]
    BY <2>1 DEF TuningInd, TuningInv, EditIsShownUntilApplied, Forms
  <2>3. ~(f \in FieldsUnder(r) /\ r.values[f] = typed[f])
    BY <1>2, <2>1, <2>2 DEF Applied
  <2>4. \/ \E t \in Range(applyTimers) : t.input[2] = f /\ t.value = typed[f]
        \/ \E q \in applies : f \in FieldsUnder(q) /\ q.values[f] = typed[f]
    BY <2>1 DEF TuningInd, TuningInv, NoEditStranded
  <2>5. QED
    BY <1>4, <2>3, <2>4
<1>11. LastEditWins'
  <2> SUFFICES ASSUME NEW f \in TuningFields \ (edits' \cup lost \cup raced),
                      typed[f] # EmptyField
               PROVE  \/ drive[f] = typed[f] \/ TimerOf(f)
                      \/ \E q \in applies' : f \in FieldsUnder(q)
    BY <1>1 DEF LastEditWins, FieldsUnder, TimerOf, Range
  <2>1. CASE f \in FieldsUnder(r)
    BY <1>1, <2>1 DEF TuningInd, PendingIsTyped
  <2>2. CASE f \notin FieldsUnder(r)
    <3>1. f \notin edits
        BY <1>1, <1>2, <2>2 DEF Applied
    <3>2. drive[f] = typed[f] \/ TimerOf(f) \/ \E q \in applies : f \in FieldsUnder(q)
        BY <3>1 DEF TuningInd, TuningInv, LastEditWins, Range, TimerOf
    <3>3. QED
        BY <1>4, <2>2, <3>2
  <2>3. QED
    BY <2>1, <2>2
<1>12. PendingTogetherRaced'
  <2> SUFFICES ASSUME NEW r1 \in applies', NEW r2 \in applies', r1 # r2,
                      NEW f \in FieldsUnder(r1), f \in FieldsUnder(r2)
               PROVE  f \in raced
    BY <1>1 DEF PendingTogetherRaced, FieldsUnder
  <2>1. r1 \in applies /\ r2 \in applies
    BY <1>4
  <2>2. QED
    BY <2>1 DEF TuningInd, PendingTogetherRaced
<1>13. PendingIsTyped'
  <2> SUFFICES ASSUME NEW q \in applies', NEW f \in FieldsUnder(q) \ raced,
                      typed[f] # EmptyField
               PROVE  \/ TimerOf(f)
                      \/ q.values[f] = typed[f] /\ (q.phase = "ok" => drive[f] = typed[f])
    BY <1>1 DEF PendingIsTyped, FieldsUnder, TimerOf
  <2>1. q \in applies
    BY <1>4
  <2>2. QED
    BY <2>1 DEF TuningInd, PendingIsTyped
<1>14. QED
    BY <1>8, <1>9, <1>10, <1>11, <1>12, <1>13 DEF TuningInd, TuningInv

LEMMA TuningEnded ==
    ASSUME TuningInd, NEW r \in applies, ApplyFailed(r) \/ FlashEnds(r)
    PROVE  TuningInd'
<1>1. /\ applies' = applies \ {r} /\ lost \subseteq lost' /\ FieldsUnder(r) \subseteq lost'
      /\ UNCHANGED <<inputs, edits, candidate, applyTimers, drive, polled, typed, raced,
                     tuningActs>>
    BY DEF ApplyFailed, FlashEnds, FieldsUnder
<1>2. TuningTypeOK' /\ EditIsShownUntilApplied' /\ CandidateIsOnTheForms'
    BY <1>1 DEF TuningInd, TuningInv, TuningTypeOK, EditIsShownUntilApplied,
                CandidateIsOnTheForms
<1>3. NoEditStranded' /\ LastEditWins'
    BY <1>1 DEF TuningInd, TuningInv, NoEditStranded, LastEditWins, FieldsUnder
<1>4. AppliesTypeOK' /\ PendingTogetherRaced'
    BY <1>1 DEF TuningInd, AppliesTypeOK, PendingTogetherRaced, FieldsUnder
<1>5. LastTimerIsTyped' /\ PendingIsTyped'
    BY <1>1 DEF TuningInd, LastTimerIsTyped, LastIsTyped, PendingIsTyped, TimerOf, FieldsUnder
<1>6. QED
    BY <1>2, <1>3, <1>4, <1>5 DEF TuningInd, TuningInv

LEMMA TuningOverwritten ==
    ASSUME TuningInd, NEW tuning \in [TuningFields -> Gains], NEW saved \in BOOLEAN,
           AutoTuneResult(tuning, saved)
    PROVE  TuningInd'
<1>1. /\ inputs' = [i \in Inputs |-> tuning[i[2]]]
      /\ candidate' = IF saved THEN Empty ELSE tuning
      /\ drive' = IF saved THEN tuning ELSE drive
      /\ typed' = [f \in TuningFields |-> EmptyField] /\ lost' = TuningFields
      /\ UNCHANGED <<edits, applyTimers, applies, polled, raced>>
    BY DEF AutoTuneResult
<1>2. TuningTypeOK'
  <2>1. inputs' \in [Inputs -> Texts]
    BY <1>1 DEF Inputs, Texts
  <2>2. tuning \in [TuningFields -> Texts]
    BY DEF Texts
  <2>3. QED
    BY <1>1, <2>1, <2>2 DEF TuningInd, TuningInv, TuningTypeOK
<1>3. EditIsShownUntilApplied' /\ NoEditStranded'
    BY <1>1, <1>2 DEF EditIsShownUntilApplied, NoEditStranded, TuningTypeOK
<1>4. LastEditWins' /\ CandidateIsOnTheForms'
    BY <1>1 DEF LastEditWins, CandidateIsOnTheForms
<1>5. AppliesTypeOK' /\ PendingTogetherRaced'
    BY <1>1 DEF TuningInd, AppliesTypeOK, PendingTogetherRaced, FieldsUnder, Texts
<1>6. LastTimerIsTyped'
  <2> SUFFICES ASSUME NEW k \in DOMAIN applyTimers
               PROVE  typed'[applyTimers[k].input[2]] = EmptyField
    BY <1>1 DEF LastTimerIsTyped, LastIsTyped
  <2>1. applyTimers[k] \in Timers
    BY DEF TuningInd, AppliesTypeOK
  <2>2. QED
    BY <1>1, <2>1 DEF Timers, Inputs
<1>7. PendingIsTyped'
  <2> SUFFICES ASSUME NEW q \in applies, NEW f \in FieldsUnder(q) PROVE typed'[f] = EmptyField
    BY <1>1 DEF PendingIsTyped, FieldsUnder
  <2>1. QED
    BY <1>1, PendingFields DEF TuningInd
<1>8. QED
    BY <1>2, <1>3, <1>4, <1>5, <1>6, <1>7 DEF TuningInd, TuningInv

LEMMA TuningStep == TuningInd /\ [TuningNext]_tuningVars => TuningInd'
<1> SUFFICES ASSUME TuningInd, [TuningNext]_tuningVars PROVE TuningInd'
    OBVIOUS
<1>1. CASE UNCHANGED tuningVars
  <2>1. UNCHANGED <<inputs, edits, candidate, applyTimers, applies, drive, polled, typed,
                    lost, raced, tuningActs>>
    BY <1>1 DEF tuningVars
  <2>2. QED
    BY <2>1, TuningRendered DEF TuningInd, TuningInv, TuningTypeOK, CandidateIsOnTheForms
<1>2. CASE TuningNext
    BY <1>2, TuningRenderStep, TuningEdited, TuningTimerFired, TuningFormSubmitted,
       TuningServed, TuningPolled, TuningApplied, TuningEnded, TuningOverwritten
    DEF TuningNext, TuningEdits, TuningRequests, TuningResults, TuningServer
<1>3. QED
    BY <1>1, <1>2

LEMMA TuningEntails == TuningInd => TuningInv
    BY DEF TuningInd

\* Nothing typed into the tuning forms is lost or left behind, on every page
\* (scheduleAutoApply, applyTuningPayload, clearAppliedTuningEdits).
THEOREM TuningEditsSurvive == PanelPagesSpec => []TuningInv
<1>1. PanelPagesSpec => TuningInit
    BY DEF PanelPagesSpec, PanelsInit
<1>2. QED
    BY <1>1, TuningEntails, TuningStarts, TuningStep, PanelPagesAddNothing, PTL
=============================================================================
