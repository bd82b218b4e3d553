CONSTANTS
    usdc = usdc
    Brand = Brand  Contract = Contract  Market = Market  Nobody = Nobody
    CampaignId = {1, 2}
    Person = {pat}
    Wallet = {w1, w2}
    Keypair = {w1, w2}
    Relayer = {r1}
    IssuerKey = {k1}
    ProofTime = {0}
    MaxAge = 0
    MaxFutureSkew = 0
    Horizon = 1
    Token = {usdc}
    Offer <- Offers
    Video = {v1}
    ProofStamp = {0, 1}
    MaxProofAge = 1
    ProofSkew = 0
    Bond = 9
    Payment = {}
    SwapAmount = {}
    Purse = 2
SPECIFICATION Spec
\* Calls run out.
CHECK_DEADLOCK FALSE
SYMMETRY Symmetry
INVARIANTS
    OnePersonOneWallet
    ParticipantsArePeople
    OnePostOneCampaign
PROPERTIES
    UsedForGood
