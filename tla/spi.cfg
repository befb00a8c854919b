SPECIFICATION FairSpiSpec
CONSTANTS
    WIDTH = 4
    Lengths = {2, 4}
INVARIANTS TransferExact
PROPERTIES MosiStableWhileSckHigh TransferEnds
