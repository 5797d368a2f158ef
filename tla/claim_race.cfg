SPECIFICATION Spec
CONSTANTS
    Tasks = {t1, t2}
    Vms = {v1}
    Snaps = {s1, s2}
    Foreign = {}
    MaxPolls = 1
    NoVm = NoVm
    NoSnap = NoSnap
CHECK_DEADLOCK FALSE
INVARIANT CreateFindsVmPaused
