CONSTANTS
    v1 = v1  v2 = v2  ann = ann  bob = bob
    Brand = Brand  Contract = Contract  Nobody = Nobody
    Video = {v1, v2}
    User = {ann}
    Challenger = {Brand}
    Views = {0, 2}
    MockViews = {0, 2, 3}
    ProofTimes = {0, 4, 8}
    MaxProofAge = 0
    FutureSkew = 0
    CloseSlack = 0
    Bond = 2
    Wallet = 2
    Start = 0
    EpochLen = 4
    Epochs = 2
    ProofWindow = 1
    DisputeWindow = 2
    ArbiterWindow = 1
    ClaimGrace = 4
    Budget = 9
    RateMax = 2500
    CapClip = 3
    CapHuman = 3
    MinViews = 1
    HoldbackBps = 5000
    Horizon = 16
SPECIFICATION SiteSpec
SYMMETRY Symmetry
\* A campaign stops once its timeline has run out.
CHECK_DEADLOCK FALSE
INVARIANTS
    OffersAccepted
    ButtonsFollowTheBar
    EarnedIsPaid
PROPERTIES
    OffersStand
    EstimatesHold
