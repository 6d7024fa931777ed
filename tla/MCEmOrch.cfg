CONSTANTS
    e1 = e1
    e2 = e2
    e3 = e3
    none = none
    MaxChain = 2
    MaxCmds = 3
    Events = {"m2_tx", "set_ssid"}
    Ems <- MCEms
    Types <- MCTypes
    CmdType <- MCCmdType
    GuardType <- MCGuardType
    Checked <- MCChecked
    ByRadio = {"cfg_renew"}
    Candidates <- MCCandidates
    ChainLen <- MCChainLen
    ConfigType = "em_config"
    HoldTypes = {}
    Siblings <- MCSiblings
    Ttl <- MCTtl
    MismatchTtl = 1
    AgeCap = 3
    NoCmd = none
SPECIFICATION FairSpec
INVARIANTS TypeOK StatsExact OneCommandPerEm ProgressHasCmd ChainInOrder OneChainPerCheckedType
PROPERTIES WorksTogether ReleasedTogether EveryCommandLeaves
CHECK_DEADLOCK FALSE
