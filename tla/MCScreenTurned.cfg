SPECIFICATION FairSpec
CONSTANTS
    c1 = c1
    c2 = c2
    Clients = {c1}
    PanelWidth = 2
    PanelHeight = 1
    StartRotations = {0}
    Zte = FALSE
    Rotatable = TRUE
INVARIANT TypeOK
PROPERTIES ScreenIsFollowed SizeArrives
