\* Two sync requests with two keys on one story, and an editor of it or a render
\* and a usage summary of the account; a subscription over two periods with two
\* webhook requests at once and a summary; three
\* scripts at once over a midnight; two executions in two processes after the
\* slots of two providers; two searches in two processes that ask one library.
SPECIFICATION ServicesSpec
CONSTANTS
    SyncKeys = {k1, k2}
    Stories = {s1}
    Requests = {q1, q2}
    StoryEditors = {e1}
    Texts = {t1, t2}
    SyncEstimates = {1}
    SyncCharges = {2}
    SyncReaders = {x1}
    Included = 3
    Null = Null
    Subs = {x1}
    Handlers = {h1, h2}
    Summaries = {r1}
    Grant = 1
    Amounts = {1}
    LastPeriod = 2
    MaxConsumed = 4
    MaxOverwrites = 1
    Nothing = Nothing
    Scripters = {c1, c2, c3}
    MaxPerDay = 2
    Days = 2
    NoDay = NoDay
    Callers = {k1, k2}
    Workers = {q1, q2}
    Providers = {"tts", "openai"}
    Tts = "tts"
    SlotLimit <- MCSlotLimit
    LocalLimit <- MCLocalLimit
    Gap <- MCGap
    CallLease = 2
    QuotaCooldown = 1
    Delay = 1
    Nobody = Nobody
    Seekers = {k1, k2}
    InFinalize = {k1, k2}
    Machines = {q1, q2}
    Libraries = {"pexels"}
    Queries = {"sea"}
    FailureThreshold = 2
    CoolTime = 2
    ShortMemo = 1
    LongMemo = 2
    Lateness = 1
    NoQuery = NoQuery
SYMMETRY ServicesSymmetric
INVARIANTS
    DailyCapKept
    LeasesExact
    CooldownHolds
PROPERTIES
    SyncsExact
    PeriodsExact
    OverdraftOnlyByUnderestimate
    SpacedByGap
