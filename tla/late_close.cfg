\* One WebSocket sender that reconnects.
SPECIFICATION Spec
CONSTANTS
    Channels = {c1}
    Protocols <- WebSocketOnly
    MaxConnections = 2
    MaxFinals = 0
    MaxSnapshots = 0
PROPERTY ReconnectedIsServed
CHECK_DEADLOCK FALSE
