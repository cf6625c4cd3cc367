SPECIFICATION Spec
CONSTANTS
    MaxFrames = 3
    MaxSends = 1
    Bodies = {2}
    Payloads = {0}
    BigHeaders = FALSE
    CorruptHeaders = FALSE
    ParseBudget = 2
    CallbackBudget = 1
    BufferMax = 12
    QueueMax = 1
    PromptReply = TRUE
INVARIANTS
    HeadersReadable
CHECK_DEADLOCK FALSE
