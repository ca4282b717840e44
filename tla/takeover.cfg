CONSTANTS
    Channels = {c1}
    Transcribers = {t1, t2}
    Clients = {a1}
    Tick = Tick
    None = None
    Forces = {TRUE, FALSE}
    Limit <- TakeoverLimit
SPECIFICATION SteadySpec
SYMMETRY Symmetry
PROPERTIES TerminatedIsFinal PauseSurvives DrainBarrier
CHECK_DEADLOCK FALSE
