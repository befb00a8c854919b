SPECIFICATION FairSpec
CONSTANTS
    SYMNAMELEN = 12
    SYMTABLESIZ = 16
    NUL = "NUL"
    NoAddress = 99
    Char <- Letters
    Names <- MCNames
    Addresses <- MCAddresses
    WordSize = 65536
    Exports <- MCExports
    AddressOf <- MCAddressOf
    TableAddress = 42
    Lines <- MCLines
    SavedWords = {11}
    OwnNames <- MCOwnNames
    OwnAddresses = {16, 17}
    MaxEdits = 4
    FifoDepth = 2
    RES_X = 4
    RES_Y = 2
    Calls <- MCCalls
    Texts <- MCTexts
INVARIANTS OnTheWire StartedUp PrintsTheValue
PROPERTIES FindsWhatWasPut BootEnds
