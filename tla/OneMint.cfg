SPECIFICATION Spec
CONSTANTS
    w1 = w1
    w2 = w2
    m1 = m1
    m2 = m2
    Wallets = {w1, w2}
    Mints = {m1}
    NoKey = NoKey
    SystemProgram = SystemProgram
    TokenProgram = TokenProgram
    MetadataProgram = MetadataProgram
    Text <- MCText
    ByteLen <- MCByteLen
    MinimumRent <- MCRent
    Genesis <- OneMintGenesis
    Instructions <- OneMintInstructions
    MaxInstructions = 3
INVARIANTS
    TypeOK
PROPERTIES
    ImmutableForever
    ChangesAuthorised
    CreationAuthorised
