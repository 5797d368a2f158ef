\* Three requests, so that a creation, a destruction and a third request
\* overlap in every way; no symmetry, so that liveness is sound.
SPECIFICATION FairSpec
CONSTANTS
    Requests = {r1, r2, r3}
    Ids = {i1, i2}
    NoId = NoId
    Runtimes = {"node"}
    Names = {"node", "ruby"}
\* Each request is made once: the run ends when all are answered.
CHECK_DEADLOCK FALSE
INVARIANTS
    TypeOK
    OneDestroyWins
    LateRequestsRefused
    RefusedOnlyIfDestroyed
    RepliesTellTheOutcome
PROPERTIES
    RequestsSettle
