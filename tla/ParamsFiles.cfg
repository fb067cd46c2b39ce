SPECIFICATION Spec
CONSTANTS
    Lists <- McLists
    Bytes <- McBytes
    Texts <- McTexts
    Edits <- McEdits
    ListSize = 192
    JoinSize = 128
    LineSize = 128
INVARIANTS RoundTrip RefusedDump
PROPERTY MaskFromNames
CHECK_DEADLOCK FALSE
