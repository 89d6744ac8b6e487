CONSTANTS
    Slot <- MCSlot
    Errands <- MCErrands
    MaxCalls = 2
    Company = {c1, c2}
    NoCompany = none
SPECIFICATION SpaSpec
INVARIANT SwitchUninterrupted
INVARIANT CodesAreActive
PROPERTY NoticeMatchesScreen
PROPERTY CodesStayOnScreen
PROPERTY ControlsReleased
CHECK_DEADLOCK FALSE
