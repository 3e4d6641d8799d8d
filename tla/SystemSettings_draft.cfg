SPECIFICATION SettingsSpec

CONSTANTS
    Contents = {"x", "y"}
    Fallback = "fallback"
    MaxSettings = 3

INVARIANT
    DraftIsNotStored

CHECK_DEADLOCK FALSE
