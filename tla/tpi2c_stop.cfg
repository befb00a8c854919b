SPECIFICATION Spec
CONSTANTS
    NS2009_DELAY = 2
    NS2009_POLLP = 1
    MaxLag = 0
    MaxStretch = 0
    MaxResets = 0
    Samples <- MCSamples
INVARIANTS StopReleasesBus
