CONSTANTS
    v1 = v1  ann = ann
    Brand = Brand  Contract = Contract  Nobody = Nobody
    Video = {v1}
    User = {ann}
    Challenger = {}
    Views = {0, 1}
    ProofTimes = {5, 8, 9}
    MaxProofAge = 0
    FutureSkew = 1
    CloseSlack = 0
    Bond = 1
    Wallet = 1
    Start = 0
    EpochLen = 7
    Epochs = 1
    ProofWindow = 4
    DisputeWindow = 2
    ArbiterWindow = 1
    ClaimGrace = 7
    Budget = 2
    RateMax = 1000
    CapClip = 1
    CapHuman = 1
    MinViews = 0
    HoldbackBps = 0
    Slack = 1
    ProofMargin = 1
    MaxFetches = 2
    KeepFor = 1
    MaxLag = 1
    MaxLate = 1
    MaxFaults = 2
    HasCode = {TRUE, FALSE}
    Horizon = 14
SPECIFICATION KeeperSpec
INVARIANTS
    PermanentMeansHopeless
