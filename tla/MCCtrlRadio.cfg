CONSTANTS
    Radios = {r1, r2}
    Front = r1
    Starts <- MCStarts
    Commands = {"set_ssid", "set_radio", "set_channel", "set_policy", "scan_channel", "sta_link_metrics", "sta_steer", "sta_disassoc", "client_assoc_ctrl_req", "bsta_cap", "unassoc_sta_query", "beacon_query", "sta_assoc", "sta_assoc_new", "sta_assoc_mld", "sta_assoc_known"}
    RenewThresh = 2
    CapThresh = 1
    SteerThresh = 1
    AssocThresh = 1
    MaxM1 = 2
    MaxCmds = 2
    MaxId = 2
    MaxRenew = 3
SPECIFICATION Spec
INVARIANTS TypeOK Renewable NoOrphanWait RenewsCounted
CHECK_DEADLOCK FALSE
