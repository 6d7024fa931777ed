CONSTANTS
    Radios = {r1, r2}
    Front = r1
    AlEm = al
    Events = {"sta_list", "btm_report", "scan_result", "beacon_report", "sta_link_metrics", "get_link_quality_report", "unassoc_sta_result"}
    MaxExtra = 2
SPECIFICATION Spec
INVARIANTS TypeOK Recoverable ConfiguredIsApplied
PROPERTIES WorksTogether Onboards
CHECK_DEADLOCK FALSE
