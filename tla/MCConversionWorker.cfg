SPECIFICATION FairSpec
CONSTANTS
    c1 = c1
    c2 = c2
    Conversions = {c1, c2}
INVARIANTS
    ReapedBeforeAnswer
PROPERTIES
    EveryConversionEnds
CHECK_DEADLOCK FALSE
