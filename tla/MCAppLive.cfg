SPECIFICATION AppFairSpec
CONSTANTS
    d1 = d1
    d2 = d2
    Daemons = {d1, d2}
    Grabbers = {"LIBRARY"}
    Senders = {ui}
    MaxClients = 0
    InboxSize = 1
    Receivers = 1
    Sluggish = TRUE
    Mishaps = FALSE
    MaxRequests = 2
CHECK_DEADLOCK FALSE
INVARIANT RunningIsTrue
PROPERTY ComesToRest
