SPECIFICATION Spec
CONSTANTS
    Layouts <- MCLayouts
    Items <- MCItems
    Strict <- MCStrict
    Bounded <- MCBounded
    Limited <- MCLimited
    Own <- MCOwn
    GuidSizes = {1, 3}
    TextSizes = {1, 4}
    MaxEntries = 2
INVARIANTS
    TypeOK
    AcceptedIsWhole
    EntriesAreSent
    OwnPacketsReadWhole
PROPERTIES
    ParseEnds
CHECK_DEADLOCK FALSE
