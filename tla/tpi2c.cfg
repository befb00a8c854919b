\* A quarter of the delays of src/tpi2c.v; a panel as late as a half bit still works.
SPECIFICATION FairSpec
CONSTANTS
    NS2009_DELAY = 4
    NS2009_POLLP = 6
    MaxLag = 4
    MaxStretch = 1
    MaxResets = 1
    Samples <- MCSamples
INVARIANTS TypeOK HandshakeInv
PROPERTIES SdaMovesWhileSclLow Implements ConversionEnds
