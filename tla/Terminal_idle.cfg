SPECIFICATION Spec
CONSTANTS
    NoService = NoService  NoConn = 0
    Conns = {1, 2, 3}
    Terminals = {1, 2}
    Sessions = {1, 2}
    Services = {1, 2}
    Workloads <- Watching
    MAX_OUTPUT_BUFFER_SIZE = 2
    MAX_BUFFER_LINES = 1
    DEFAULT_RECONNECT_BUFFER_BYTES = 2
    CHANNEL_BUFFER_SIZE = 1
    MAX_SIGWINCH_PHASE_ATTEMPTS = 1
    MaxRead = 2
CHECK_DEADLOCK FALSE
PROPERTY InactiveOnly
