CONSTANTS
    v1 = v1  ann = ann
    Brand = Brand  Contract = Contract  Nobody = Nobody
    Video = {v1}
    User = {ann}
    Challenger = {Brand}
    Views = {0, 1}
    ProofTimes = {5, 7, 13}
    MaxProofAge = 0
    FutureSkew = 1
    CloseSlack = 0
    Bond = 1
    Wallet = 1
    Start = 0
    EpochLen = 6
    Epochs = 2
    ProofWindow = 3
    DisputeWindow = 2
    ArbiterWindow = 1
    ClaimGrace = 6
    Budget = 2
    RateMax = 1000
    CapClip = 1
    CapHuman = 1
    MinViews = 0
    HoldbackBps = 0
    Slack = 1
    ProofMargin = 1
    MaxFetches = 2
    KeepFor = 0
    MaxLag = 1
    MaxLate = 1
    MaxFaults = 1
    HasCode = {TRUE}
    Horizon = 24
SPECIFICATION KeeperSpec
INVARIANTS
    FetchesWithinQuota
    EveryClipProven
    SettledInTime
PROPERTIES
    NoDoomedFetch
    NothingSentInVain
