SPECIFICATION FairSpec
CONSTANTS
    m1 = m1
    m2 = m2
    s1 = s1
    s2 = s2
    Messages = {m1, m2}
    Subs = {s1, s2}
    Matches <- MCMatches
    MaxRetryCount <- MCMaxRetryCount
    BufferSize = 1
    MaxConcurrent = 1
    MaxRetries = 1
    DeadLetters = TRUE
INVARIANTS HandlerCalls OneAtATime
PROPERTIES Handled CloseReturns
CHECK_DEADLOCK FALSE
