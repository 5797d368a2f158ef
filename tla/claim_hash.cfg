SPECIFICATION Spec
CONSTANTS
    Tasks = {t1}
    Vms = {v1, v2}
    Snaps = {}
    Foreign = {}
    MaxPolls = 1
    NoVm = NoVm
    NoSnap = NoSnap
    Blocks = {"a"}
    MaxNoise = 0
CHECK_DEADLOCK FALSE
INVARIANT SameBlockSameHash
