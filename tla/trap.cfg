SPECIFICATION FairSpec
CONSTANTS
    Faults = {2, 3, 5}
INVARIANTS RegistersKept
PROPERTIES ReturnsToPlace PrintsTheFault AlignedFaultReboots
