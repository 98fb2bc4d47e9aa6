SPECIFICATION Spec
CONSTANTS
    Years <- YearsAround
    Days <- Stretches
    Asked <- Queries
INVARIANTS
    OneBoardPerWindow
    LastWindowStaysAvailable
PROPERTIES
    ServedExactly
