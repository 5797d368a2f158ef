\* One VM of the orchestrator and one that it did not start; no symmetry,
\* so that liveness is sound.
SPECIFICATION FairSpec
CONSTANTS
    Tasks = {t1, t2}
    Vms = {v1, v2}
    Snaps = {s1}
    Foreign = {v2}
    MaxPolls = 1
    NoVm = NoVm
    NoSnap = NoSnap
CHECK_DEADLOCK FALSE
INVARIANT ForeignVmNeverPaused
PROPERTIES
    EveryCallReturns
    LostVmsDie
    ImplementsRegistry
