SPECIFICATION FairSpec
CONSTANTS
    Faults = {2, 3, 5}
PROPERTIES FaultReboots
