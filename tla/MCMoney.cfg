CONSTANTS
    v1 = v1  v2 = v2  ann = ann  bob = bob
    Brand = Brand  Contract = Contract  Nobody = Nobody
    Video = {v1, v2}
    User = {ann}
    Challenger = {}
    Views = {0, 1, 3}
    ProofTimes = {0, 1, 2}
    MaxProofAge = 0
    FutureSkew = 0
    CloseSlack = 0
    Bond = 2
    Wallet = 2
    Start = 0
    EpochLen = 1
    Epochs = 2
    ProofWindow = 1
    DisputeWindow = 0
    ArbiterWindow = 0
    ClaimGrace = 1
    Budget = 9
    RateMax = 2500
    CapClip = 3
    CapHuman = 4
    MinViews = 1
    HoldbackBps = 5000
    Horizon = 4
SPECIFICATION Spec
\* A campaign stops once its timeline has run out.
CHECK_DEADLOCK FALSE
SYMMETRY Symmetry
INVARIANTS
    SolventToTheLast
    WeightsAddUp
    SurvivorsShareThePot
PROPERTIES
    PotFixedOnceShared
