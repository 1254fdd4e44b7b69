SPECIFICATION Spec
CONSTANTS
    None = None
    a1 = a1
    a2 = a2
    a3 = a3
    k1 = k1
    k2 = k2
    k3 = k3
    k4 = k4
    x = x
    y = y
    h1 = h1
    h2 = h2
    Actors = {a1, a3}
    RoleOf <- MCRoles
    Results <- MCResults
    Inputs <- MCInputs
    MaxEvents = 3
    MaxRestarts = 1
INVARIANTS
    FourEyes
    
PROPERTIES
    OcrBoundaryHeld
CHECK_DEADLOCK FALSE
