\* Two connections, to any of the three servers, for any of two channels; the
\* session leaves the snapshot, comes back and leaves again.
SPECIFICATION Spec
CONSTANTS
    Channels = {c1, c2}
    Protocols <- AllProtocols
    MaxConnections = 2
    MaxFinals = 3
    MaxSnapshots = 3
INVARIANTS Served CutWhenGone ForceCutEnds StoppedOnce SegmentsAscend
SYMMETRY Symmetry
CHECK_DEADLOCK FALSE
