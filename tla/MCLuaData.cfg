CONSTANTS
    Integers = {1, 2, 4}
    Names = {na}
    Pointers = {oa}
    Floats = {fl}
    AsInteger <- MCAs
    Hash <- MCHash
    Values = {value1}
    Nil = nil
    MaxBits = 3
    Length = 5
    Elements = {1, 2, 3}
    RanLimit = 4
    Imbalance = 1
    Fields = {x1, x2, x3}
    Empty = empty
    MaxInteger = 7
    IntMax = 5
    na = na
    oa = oa
    fl = fl
    x1 = x1
    x2 = x2
    x3 = x3
SPECIFICATION Spec
INVARIANTS
    PartsFitTogether
    ListsAsMeant
PROPERTIES
    TableIsMap
    SortAlwaysEnds
CHECK_DEADLOCK FALSE
