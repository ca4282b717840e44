\* Two replicas; two bots of one channel and one fault, or one bot and two faults.
SPECIFICATION Spec
CONSTANTS
    b1 = b1
    b2 = b2
    c1 = c1
    Bots = {b1, b2}
    Channels = {c1}
    ChannelOf <- OneChannel
    Replicas = {r1, r2}
    None = None
    MaxEvents = 3
INVARIANTS TypeOK OwnerWrittenFirst RemovedIsStopped DeadReplicaReaped
SYMMETRY Symmetry
CHECK_DEADLOCK FALSE
