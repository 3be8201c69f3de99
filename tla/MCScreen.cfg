SPECIFICATION FairSpec
CONSTANTS
    c1 = c1
    c2 = c2
    Clients = {c1, c2}
    PanelWidth = 2
    PanelHeight = 1
    StartRotations = {0, 90}
    Zte = FALSE
    Rotatable = FALSE
INVARIANTS NothingForgotten SendsWhatThereIs
PROPERTY PixelsArrive
