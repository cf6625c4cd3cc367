SPECIFICATION FairSpec
CONSTANTS
    Challenges = {119}
    Extras = {0, 33}
    Proofs = {26, 28, 32}
    Denials = {2, 4}
    RealmLists = {8, 17}
    Cuts = {1, 2, 3, 25, 26, 27, 28, 31, 36, 118, 119, 120, 151}
    MaxPackets = 3
INVARIANTS
    TypeOK
    FramesArePackets
    HandedIsWhole
    CloseAfterAnswer
PROPERTIES
    AnswersHandled
CHECK_DEADLOCK FALSE
