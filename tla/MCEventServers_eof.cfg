SPECIFICATION Spec
CONSTANTS
    Clients = {c1, c2}
    Silent = {}
    FDs = {1, 2}
    MaxBytes = 1
PROPERTY PollClosesPeer
CHECK_DEADLOCK FALSE
