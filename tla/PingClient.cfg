CONSTANTS
    IntWidth = 16
    Identifiers = {7}
    RemoteKnown = TRUE
    MaxAge = 1
    None = None
SPECIFICATION Spec
INVARIANTS
    TypeOK
    
