SPECIFICATION PanelPagesSpec

CONSTANTS
    Tabs = {"internet", "power"}
    SelectorTabs = {"internet", "power"}
    SeriesNames = {"a"}
    MaxReports = 2
    Readings <- SomeReadings
    Missing <- Null
    Gap = 2
    LiveWindow = 3
    MaxPoints = 3
    Scale = 2
    InnerGap = 26
    Unset = 9999
    LimitChoices <- TwoLimits
    ClickDistances = {20, 116, 228, 329}
    ClickAzimuths = {45, 200, 300}
    TypedAngles <- SomeTargets
    Degrees <- SomeDegrees
    NoDegrees = 9999
    MaxMoves = 2
    TimeoutsKept = 1
    TuningFields = {"gain"}
    Gains = {1, 2}
    EmptyField = 0
    SubmitKinds = {"panel", "floating", "savePanel"}
    MaxTuningActs = 3
    MaxApplies = 2
    TuneAxes = {"Azimuth", "Altitude"}
    Positions = {5}
    EmptyText = 9999
    NotStored = 8888
    SoftLimits <- TuneLimits
    Presets <- StoredRanges
    Templates <- TemplateRange
    MaxRuns = 2
    Contents = {"x", "y"}
    Fallback = "fallback"
    MaxSettings = 2
    MaxChecks = 2
    MaxInfos = 2

INVARIANTS
    ReportsInv
    ChartsInv
    SkyInv
    MotionStatusInv
    TuningInv
    AutoTuneInv
    SettingsInv
    OpeningKeepsEdits
    UpdateInv

PROPERTIES
    SkyTargetsAllowed
    PanelsAnswered

CHECK_DEADLOCK FALSE
