SPECIFICATION FairSpec
CONSTANTS
    d1 = d1
    d2 = d2
    Daemons = {d1}
    Grabbers = {"FRAMEBUFFER", "LIBRARY"}
    Senders = {ui}
    MaxClients = 1
    InboxSize = 3
CHECK_DEADLOCK FALSE
PROPERTIES KillIsObeyed CloseEnds
