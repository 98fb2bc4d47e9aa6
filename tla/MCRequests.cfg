SPECIFICATION Spec
CONSTANTS
    Fallible = {"postgres", "redis"}
INVARIANTS
    StatusTellsEffect
    KeyBeforeStores
    TracedUnlessUnhandled
PROPERTIES
    BlameFitsCause
