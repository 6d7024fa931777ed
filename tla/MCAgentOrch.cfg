CONSTANTS
    r1 = r1
    r2 = r2
    al = al
    none = none
    MaxCmds = 3
    Events = {"dev_init", "cfg_renew", "sta_list"}
    Ems <- MCEms
    Types <- MCTypes
    CmdType <- MCCmdType
    GuardType <- MCGuardType
    Checked <- MCChecked
    ByRadio = {"cfg_renew"}
    Candidates <- MCCandidates
    ChainLen <- MCChainLen
    ConfigType = "em_config"
    HoldTypes = {"dev_init"}
    Siblings <- MCSiblings
    Ttl <- MCTtl
    MismatchTtl = 1
    AgeCap = 3
    NoCmd = none
SPECIFICATION Spec
INVARIANTS StatsExact OneChainPerCheckedType
CHECK_DEADLOCK FALSE
