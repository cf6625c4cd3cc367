SPECIFICATION FairSpec
CONSTANTS
    MaxFrames = 5
    MaxSends = 1
    Bodies = {1}
    Payloads = {0}
    BigHeaders = FALSE
    CorruptHeaders = FALSE
    ParseBudget = 2
    CallbackBudget = 1
    BufferMax = 99
    QueueMax = 2
    PromptReply = FALSE
INVARIANTS
    InOrder
    PeerCloseAfterLastPacket
PROPERTIES
    EveryPacketDispatched
CHECK_DEADLOCK FALSE
