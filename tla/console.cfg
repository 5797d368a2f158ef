SPECIFICATION Spec
CONSTANTS
    Letters = {"a", "b"}
    MaxOut = 2
    MaxErr = 1
    MaxNoise = 2
    Codes <- ExitCodes
\* The console is complete.
CHECK_DEADLOCK FALSE
INVARIANTS
    StreamsWholeOrRaw
    CleanRunUnderstood
