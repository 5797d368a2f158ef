\* Two calls on a host that changes twice.
SPECIFICATION Spec
CONSTANTS
    Tasks = {t1, t2}
    MaxChanges = 2
SYMMETRY Symmetry
\* Each task makes one call.
CHECK_DEADLOCK FALSE
INVARIANTS
    TypeOK
    HealthAgrees
    SpawnRefusesNothingStartable
