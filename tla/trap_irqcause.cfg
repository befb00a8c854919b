SPECIFICATION Spec
CONSTANTS
    Faults = {2, 3, 5}
INVARIANTS IrqCauseIsTheInterrupt
