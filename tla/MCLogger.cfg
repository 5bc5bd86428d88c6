SPECIFICATION Spec
CONSTANTS
    LOG_BUFFER_SIZE = 8
    MAX_LOG_MSG = 5
    MaxText = 5
    MaxBytes = 32
INVARIANTS
    TypeOK
    PendingKept
    NewestKept
    NoLogsIffNothingPending
