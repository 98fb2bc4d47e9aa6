SPECIFICATION Spec
CONSTANTS
    Fallible = {"postgres"}
INVARIANTS
    PostgresDownIs503
