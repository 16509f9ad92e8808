SPECIFICATION Spec
CONSTANTS
    w1 = w1
    w2 = w2
    m1 = m1
    m2 = m2
    Wallets = {w1, w2}
    Mints = {m1, m2}
    NoKey = NoKey
    SystemProgram = SystemProgram
    TokenProgram = TokenProgram
    MetadataProgram = MetadataProgram
    Text <- MCText
    ByteLen <- MCByteLen
    MinimumRent <- MCRent
    Genesis <- TwoMintGenesis
    Instructions <- TwoMintInstructions
    MaxInstructions = 2
INVARIANTS
    IInv
    AccountsComplete
    RentPaid
    NeverPanics
    TextsFit
PROPERTIES
    ImplementsRegistry
