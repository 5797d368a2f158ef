\* One execution, with kernel messages on its console.
SPECIFICATION FairSpec
CONSTANTS
    Tasks = {t1}
    Vms = {v1}
    Snaps = {}
    Foreign = {}
    MaxPolls = 2
    NoVm = NoVm
    NoSnap = NoSnap
    Blocks = {"a"}
    MaxNoise = 2
CHECK_DEADLOCK FALSE
INVARIANT
    RecordTellsTheRun
PROPERTIES
    EveryExecutionReturns
    FinishedVmsDie
    ImplementsBlockRun
