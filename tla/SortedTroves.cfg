SPECIFICATION Spec
CONSTANTS
    Ids = {a, b, c, d}
    NULL = NULL
    MaxSize = 4
    MaxNICR = 2
INVARIANTS TypeOK WellLinked LinksAtValidPosition Sorted
PROPERTIES ImplementsSortedList WalkEnds
