CONSTANTS
    Page = 4
    Space = 16
    Value <- OwnValues
    Memories <- OneMemory
SPECIFICATION Spec
INVARIANTS
    TypeOK
    SourceIntact
    NoOvershoot
PROPERTIES
    ImplementsMemmove
    Terminates
CHECK_DEADLOCK FALSE
