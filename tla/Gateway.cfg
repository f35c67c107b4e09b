SPECIFICATION Spec
CONSTANTS
    Conn = {"a", "b", "c"}
    Dgram = {"q", "r"}
    PortOf <- Ports
    Denied = {"b", "r"}
    Modes = {"none", "pasta", "native"}
    Jobs <- Steps
    LISTENERS_PER_PORT = 1
    MAX_LEARNED_PORTS = 1
    UDP_RELAY_SLOTS = 1
    SPLICE_CHUNK = 2
    FLOW_BUF = 1
    MaxBytes <- Sizes
    RX_BURST = 1
    MaxFrames = 2
INVARIANTS GatewayInv Policed
PROPERTY RefusedOnlyWhenFull
PROPERTY TeardownEnds
PROPERTY FlowsReaped
CHECK_DEADLOCK FALSE
