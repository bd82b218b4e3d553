CONSTANTS
    ann = ann  bob = bob  pat = pat  v1 = v1  usdc = usdc
    Brand = Brand  Contract = Contract  Market = Market  Nobody = Nobody
    CampaignId = {1, 2}
    Person = {pat}
    Wallet = {ann, bob}
    Keypair = {ann, bob}
    Relayer = {r1}
    IssuerKey = {k1}
    ProofTime = {0}
    MaxAge = 0
    MaxFutureSkew = 0
    Horizon = 0
    Token = {usdc}
    Offer <- Offers
    HomeOffer <- Home1
    NewOffer <- Campaign1
    Video = {v1}
    VideoOf <- Videos
    Habits <- HabitSet
    Identity <- Identities
    ProofStamp = {0}
    MaxProofAge = 0
    ProofSkew = 0
    Bond = 1
    Payment = {}
    SwapAmount = {}
    Purse = 0
    Job = {j1}
    BadSeqRetries = 2
    Retries = 2
    Burn = {1, 2}
    Savings = 3
    Amount = 2
    DefaultAmount = 1
    USDC = usdc
    MaxFaults = 1
SPECIFICATION DeliverySpec
INVARIANTS
    VerdictsHold
    RelayerKeepsPace
    FundingHolds
PROPERTIES
    GetsThrough
    BurnsArrive
CHECK_DEADLOCK FALSE
