SPECIFICATION Spec
CONSTANTS
    Clients = {c1, c2, c3}
    Silent = {c3}
    FDs = {1, 2}
    MaxBytes = 2
INVARIANTS NoStaleEvent NoOrphan
PROPERTIES LiveClientKept RequestsServed HangUpClosed
CHECK_DEADLOCK FALSE
