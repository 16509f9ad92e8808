SPECIFICATION NodeSpec
CONSTANTS
    w1 = w1
    w2 = w2
    m1 = m1
    m2 = m2
    Wallets = {w1, w2}
    Mints = {m1}
    NoKey = NoKey
    NoTx = NoTx
    MaxPending = 1
    SystemProgram = SystemProgram
    TokenProgram = TokenProgram
    MetadataProgram = MetadataProgram
    Text <- SdkText
    ByteLen <- SdkByteLen
    Units <- SdkUnits
    MinimumRent <- MCRent
    Genesis <- SdkGenesis
    Transactions <- SdkTransactionSet
    Instructions <- SdkInstructions
    MaxInstructions = 4
INVARIANTS
    NodeTypeOK
    BuildersKept
PROPERTIES
    ValidatedNotOversize
    BuildersDeliver
    OnlyWideTextRefused
CHECK_DEADLOCK FALSE
