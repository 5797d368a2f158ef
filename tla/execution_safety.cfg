\* Two concurrent executions, possibly of the same block.
SPECIFICATION Spec
CONSTANTS
    Tasks = {t1, t2}
    Vms = {v1, v2}
    Snaps = {}
    Foreign = {}
    MaxPolls = 1
    NoVm = NoVm
    NoSnap = NoSnap
    Blocks = {"a", "b"}
    MaxNoise = 0
SYMMETRY Symmetry
CHECK_DEADLOCK FALSE
INVARIANTS
    TypeOK
    NothingLeftRunning
    RecordTellsTheRun
PROPERTIES
    RecordsAreFinal
    ImplementsBlockRun
