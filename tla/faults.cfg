CONSTANTS
    Channels = {c1}
    Transcribers = {t1}
    Clients = {a1}
    Tick = Tick
    None = None
    Forces = {TRUE}
    Limit <- FaultLimit
SPECIFICATION Spec
INVARIANTS TypeInv RowLockDiscipline PausedAtMatchesStatus
PROPERTY KeepsContract
CHECK_DEADLOCK FALSE
