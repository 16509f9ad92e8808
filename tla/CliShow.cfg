SPECIFICATION CliSpec
CONSTANTS
    w1 = w1
    w2 = w2
    m1 = m1
    m2 = m2
    Wallets = {w1, w2}
    Mints = {m1}
    NoKey = NoKey
    NoTx = NoTx
    MaxPending = 8
    NoSource = NoSource
    None = None
    SystemProgram = SystemProgram
    TokenProgram = TokenProgram
    MetadataProgram = MetadataProgram
    Text <- MCText
    ByteLen <- MCByteLen
    MinimumRent <- MCRent
    Genesis <- CliGenesis
    Command <- ShowCommands
    Invocations <- ShowInvocations
    Transactions <- MCTransactions
    Instructions <- MCInstructions
    MaxInstructions = 2
INVARIANTS
    ShownIsRecent
    ShowsKept
PROPERTIES
    NothingDoomedIsSent
CHECK_DEADLOCK FALSE
