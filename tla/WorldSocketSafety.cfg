SPECIFICATION Spec
CONSTANTS
    MaxFrames = 3
    MaxSends = 3
    Bodies = {0, 2}
    Payloads <- FittingPayloads
    BigHeaders = TRUE
    CorruptHeaders = TRUE
    ParseBudget = 2
    CallbackBudget = 1
    BufferMax = 12
    QueueMax = 1
    PromptReply = FALSE
INVARIANTS
    TypeOK
    HeadersReadable
    OutgoingDecodes
PROPERTIES
    StreamSpec
CHECK_DEADLOCK FALSE
