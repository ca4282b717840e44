CONSTANTS
    Channels = {c1}
    Transcribers = {t1}
    Clients = {a1}
    Tick = Tick
    None = None
    Forces = {TRUE}
    Limit <- LiveLimit
SPECIFICATION FairSteadySpec
PROPERTIES StuckActiveHeals RequestsComplete
CHECK_DEADLOCK FALSE
