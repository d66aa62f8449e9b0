\* Four packets come, two windows are opened, one chat is sent.
SPECIFICATION Spec
CONSTANTS
    Byte = 8
    Me <- MCMe
    Names <- MCNames
    Texts <- MCTexts
    Statuses = {3}
    MaxIn = 4
    MaxOut = 1
    MaxPanels = 2
INVARIANTS
    TypeOK
    PanelLive
    Attached
    FreedOnce
    ShownInOrder
    SenderShown
    Listed
    ReadAsWritten
CHECK_DEADLOCK FALSE
