SPECIFICATION MCSpec
CONSTANTS
    Parts = {"refreshed"}
    Names = 3
    Reports = 3
    Uploads = 1
    RequestCap = 4
    Lights = 1
    Outages = 1
PROPERTIES LightKeepsPublicKills
CHECK_DEADLOCK FALSE
