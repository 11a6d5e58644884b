SPECIFICATION Spec
CONSTANTS
    Word = 4
    Maps <- MCMaps
INVARIANTS
    TypeOK
    Covered
    Tight
    AllOrNothing
