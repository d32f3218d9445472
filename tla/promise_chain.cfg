SPECIFICATION Spec
CONSTANT N = 4
INVARIANTS OnePath OneInFlight
PROPERTY NoSkippedHandlerRuns
CHECK_DEADLOCK FALSE
