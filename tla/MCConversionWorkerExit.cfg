SPECIFICATION Spec
CONSTANTS
    c1 = c1
    c2 = c2
    Conversions = {c1}
INVARIANTS
    EarlyExitAnswered
CHECK_DEADLOCK FALSE
