SPECIFICATION MCSpec
CONSTANTS
    Parts = {"names", "window", "kept", "parsed", "refreshed", "parses", "one_report", "two_reports"}
    Names = 3
    Reports = 3
    Uploads = 1
    RequestCap = 4
    Lights = 1
    Outages = 1
INVARIANTS CapIsShared HistoryIsWhole
PROPERTIES NoNameIsDropped HistoryStep
CHECK_DEADLOCK FALSE
