CONSTANTS
    e1 = e1
    e2 = e2
    e3 = e3
    none = none
    MaxChain = 1
    MaxCmds = 2
    Events = {"sta_assoc_known"}
    Ems <- MCEms
    Types <- MCTypes
    CmdType <- MCCmdType
    GuardType <- MCGuardType
    Checked <- MCChecked
    ByRadio = {"cfg_renew"}
    Candidates <- MCCandidates
    ChainLen <- MCChainLen
    ConfigType = "em_config"
    HoldTypes = {}
    Siblings <- MCSiblings
    Ttl <- MCTtl
    MismatchTtl = 1
    AgeCap = 3
    NoCmd = none
SPECIFICATION ThreadSpec
INVARIANTS CmdStillThere
CHECK_DEADLOCK FALSE
