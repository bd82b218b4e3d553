CONSTANTS
    usdc = usdc  xlm = xlm
    Brand = Brand  Contract = Contract  Market = Market  Nobody = Nobody
    CampaignId = {1, 2}
    Wallet = {w1}
    Token = {usdc, xlm}
    Offer <- Offers
    Bond = 1
    Payment = {1, 3}
    SwapAmount = {0, 1, 2}
    Purse = 2
SPECIFICATION TreasurySpec
INVARIANTS
    TreasuryTypeOK
    TokensBackCampaigns
PROPERTIES
    SwapFundsTheBudget
