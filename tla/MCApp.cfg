SPECIFICATION AppSpec
CONSTANTS
    d1 = d1
    d2 = d2
    Daemons = {d1, d2}
    Grabbers = {"LIBRARY"}
    Senders = {ui}
    MaxClients = 0
    InboxSize = 1
    Receivers = 1
    Sluggish = FALSE
    Mishaps = TRUE
    MaxRequests = 2
SYMMETRY Symmetry
CHECK_DEADLOCK FALSE
INVARIANTS LabelIsTrue AppTypeOK
