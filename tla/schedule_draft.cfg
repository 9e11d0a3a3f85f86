CONSTANTS
    Addresses = {partner}
    Settings = {weekly}
    Exporters = {x1}
    SharedKey = FALSE
    MaxReports = 1
    MaxRevisions = 0
    MaxHitches = 0
SPECIFICATION ReportSpec
INVARIANT ActiveTargetsActive
CHECK_DEADLOCK FALSE
