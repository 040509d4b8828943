\* Two tables with release hooks; a callback of the first allocates.
SPECIFICATION Spec
CONSTANTS
    MaxAddr = 2
    Slots <- OneSlot
    Boxes <- NoBoxes
    Sizes <- OneWord
    NumTables = 2
    MaxSerial = 3
    MaxOps = 3
PROPERTIES
    OnlyDeadDropped
