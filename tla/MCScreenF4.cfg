SPECIFICATION Spec
CONSTANTS
    c1 = c1
    c2 = c2
    Clients = {c1}
    PanelWidth = 3
    PanelHeight = 2
    StartRotations = {0}
    Zte = FALSE
    Rotatable = TRUE
INVARIANT NothingForgotten
