SPECIFICATION FairSpec
CONSTANTS
    c1 = c1
    c2 = c2
    Nobody = Nobody
    Clients = {c1, c2}
    PanelWidth = 2
    PanelHeight = 1
    MovesPerReport = 2
INVARIANTS PointerTypeOK KeysAgree HolderDecides
PROPERTIES TouchIsHeld TouchHits PressEnds
