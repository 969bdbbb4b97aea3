SPECIFICATION CallsSpec
CONSTANTS
    Threads = {t1, t2}
    Vendors = {"anthropic", "openai", "gemini"}
    Tools = {"search"}
    Requests <- Asked
    MaxRetries = 2
    MaxTurns = 2
    MaxCalls = 2
INVARIANT RequestsAreAnswered
INVARIANT CountersAreThisCall
PROPERTY CallsEnd
\* Each thread stops after MaxCalls calls.
CHECK_DEADLOCK FALSE
