----------------------------- MODULE MCConsole -----------------------------
\* The values of Console's constants for TLC.
EXTENDS Console

MCDigit == [c \in {"2"} |-> 2]
=============================================================================
