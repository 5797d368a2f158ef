\* Two tasks, two VMs of the orchestrator, two snapshots.
SPECIFICATION Spec
CONSTANTS
    Tasks = {t1, t2}
    Vms = {v1, v2}
    Snaps = {s1, s2}
    Foreign = {}
    MaxPolls = 1
    NoVm = NoVm
    NoSnap = NoSnap
SYMMETRY Symmetry
\* With every identifier used up nothing is left to do.
CHECK_DEADLOCK FALSE
INVARIANTS
    TypeOK
    NoOrphanVm
    HeldHandleRegistered
    BootedFullyConfigured
    ReturnedSnapshotComplete
    PausedIsAccounted
    EndedIsGone
PROPERTIES
    SocketRemovedOnlyAfterDeath
