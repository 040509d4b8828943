\* Two words of memory, three allocations, a global and a box.
SPECIFICATION Spec
CONSTANTS
    MaxAddr = 2
    Slots <- OneSlot
    Boxes <- OneBox
    Sizes <- OneOrTwoWords
    NumTables = 1
    MaxSerial = 3
    MaxOps = 3
INVARIANTS
    TypeOK
    TablesAreExact
    PointersStayValid
PROPERTIES
    ResetIsExact
