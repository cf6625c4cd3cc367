SPECIFICATION FairSpec
CONSTANTS
    self = self
    ann = ann
    wolf = wolf
    cub = cub
    beast = beast
    Players = {self, ann}
    Units = {wolf, cub}
    Self = self
    Entries = {beast}
    Entry <- MCEntry
    Speakers = {ann}
    MaxLines = 2
    MaxGone = 1
INVARIANTS
    TypeOK
    ViewAgrees
    PlatesNamed
    NamesAsked
    LinesInTurn
PROPERTIES
    NamesArrive
    LinesHeard
CHECK_DEADLOCK FALSE
