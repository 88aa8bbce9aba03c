SPECIFICATION Spec
CONSTANTS
    usdc = usdc  dai = dai
    nft = nft  plain = plain
    asset1 = asset1  asset2 = asset2
    PalletAccount = pallet
    Accounts = {alice}
    Tokens = {usdc, dai}
    Assets = {asset1, asset2}
    GenesisTokens <- OneToken
    Items = {nft, plain}
    Described = {nft}
    Convertor = "RmrkBaseMetadataConvertor"
    ED = 2
    Premined = 0
    GenesisBalance = 5
    Fees = {1}
    Amounts = {2, 3}
    MaxSupply = 3
    MaxInFlight = 2
    MaxCalls = 5
INVARIANTS
    TypeOK
    NativeIsBacked
    UnlocksAreCovered
    AssetsAreConserved
    TokensAreBacked
    TokensMatchAssets
    
PROPERTIES
    AccountStaysAlive
    
CHECK_DEADLOCK FALSE
