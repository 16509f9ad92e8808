SPECIFICATION ScriptsSpec
CONSTANTS
    w1 = w1
    w2 = w2
    m1 = m1
    m2 = m2
    Wallets = {w1, w2}
    Mints = {m1, m2}
    Fresh = {m1, m2}
    NoKey = NoKey
    NoTx = NoTx
    MaxPending = 2
    NoMint = NoMint
    Absent = Absent
    SystemProgram = SystemProgram
    TokenProgram = TokenProgram
    MetadataProgram = MetadataProgram
    Text <- MCText
    ByteLen <- MCByteLen
    MinimumRent <- MCRent
    Genesis <- ScriptGenesis
    Script <- MCScript
    Scripts <- MCScripts
    Transactions <- ScriptTransactions
    Instructions <- ScriptInstructions
    MaxInstructions = 4
INVARIANTS
    ScriptsVerify
    TokensWhole
    ScriptsIInv
CHECK_DEADLOCK FALSE
