SPECIFICATION NoticesFairSpec
CONSTANTS
    v1 = v1
    v2 = v2
    Viewers = {v1, v2}
    Nobody = Nobody
    HasPassword = FALSE
    AlwaysShared = TRUE
    MaxSessions = 2
    Changing = {"screenturnoff"}
CHECK_DEADLOCK FALSE
INVARIANTS NoticesTypeOK QuietWhenAllGone
PROPERTIES NobodyIsTurnedOut EveryoneIsHeard ClosedIsRemoved ScreenMayTurnOff
