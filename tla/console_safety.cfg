SPECIFICATION Spec
CONSTANTS
    TEXTWIDTH = 7
    TEXTHEIGHT = 2
    TVRAM_STRIDE = 8
    Modulus = 64
    Chars = {"a", "b", "LF", "CR", "BS", "BEL", "ESC"}
    SequenceChars = {"[", "O", "2", "D", "K", "A"}
    Control = {"BEL"}
    Digit <- MCDigit
    MaxDigit = 22
    MaxChars = 8
INVARIANTS CursorOnScreen
PROPERTIES Implements
