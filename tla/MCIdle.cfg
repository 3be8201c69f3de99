SPECIFICATION Spec
CONSTANTS
    Defer = 5
    Slow = 50
    MaxCalm = 600
    MaxArrivals = 2
CHECK_DEADLOCK FALSE
INVARIANTS IdleTypeOK WaitIsModest
