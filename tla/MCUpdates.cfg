SPECIFICATION Spec
CONSTANTS
    CorreMax = 2
    LinesMax = 5
    MaxRectSize = 4
    MaxRectWidth = 2
    MinSplit = 6
    MinSolid = 3
    Tile = 2
    Width = 3
    Height = 4
    MaxRectsPerUpdate = 2
    Modes <- MCModes
    Extras = {"CursorShape"}
    CursorRect <- MCCursorRect
    Pictures <- MCPictures
    Marked <- MCMarked
    Asked <- MCAsked
INVARIANTS UpdatesTypeOK ViewerInStep PiecesApart PiecesFit
PROPERTY ImplementsDelivery
