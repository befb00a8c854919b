SPECIFICATION FairSpec
CONSTANTS
    Word <- MCWord
    Zero = 0
    AllOnes = 4095
    Samples <- AnySamples
    MainPrompt = TRUE
INVARIANTS TypeOK ReportIsOneConversion PointOnScreen PrintIsOneConversion
PROPERTIES ReportedOnce HeldTouchReported
