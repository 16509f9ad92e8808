SPECIFICATION ReaderSpec
CONSTANTS
    w1 = w1
    w2 = w2
    m1 = m1
    m2 = m2
    Wallets = {w1}
    Mints = {m1, m2}
    NoKey = NoKey
    NoCall = NoCall
    None = None
    Undecodable = Undecodable
    SystemProgram = SystemProgram
    TokenProgram = TokenProgram
    MetadataProgram = MetadataProgram
    Text <- MCText
    ByteLen <- MCByteLen
    MinimumRent <- MCRent
    Genesis <- ReaderGenesis
    Instructions <- ReaderInstructions
    Calls <- ReaderCalls
    MaxInstructions = 2
INVARIANTS
    ReaderIInv
    AnswersAreTokens
    ImmutableAnswersFinal
PROPERTIES
    AnswersNeverGoBack
