SPECIFICATION CodecSpec
CONSTANTS
    Creator <- FixturePayer
    Mint <- FixtureMint
    Instructions <- CodecInstructions
    KeyLen = 2
    Limit <- CodecLimit
INVARIANTS
    BytesOfTheValue
    ReadersAgree
    CodecIInv
PROPERTIES
    ImplementsValues
