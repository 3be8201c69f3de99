SPECIFICATION Spec
CONSTANTS
    d1 = d1
    d2 = d2
    Daemons = {d1, d2}
    Grabbers = {"LIBRARY"}
    Senders = {ui}
    MaxClients = 1
    InboxSize = 1
SYMMETRY Symmetry
CHECK_DEADLOCK FALSE
INVARIANTS TypeOK SoleServer OrderlyStop NormalEndIsTold PortHolderReads
PROPERTY ImplementsLifecycle
