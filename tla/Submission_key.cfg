SPECIFICATION Spec
CONSTANTS
    MaxRetries = 2
    Hints <- SomeHints
    MaxSubmits = 2
CHECK_DEADLOCK FALSE
INVARIANT UncertainErrorCarriesKey
