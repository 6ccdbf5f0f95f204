\* One search after the other of one library.
SPECIFICATION SearchSpec
CONSTANTS
    Seekers = {q1}
    InFinalize = {}
    Machines = {w1}
    Libraries = {"pexels"}
    Queries = {"sea"}
    FailureThreshold = 2
    CoolTime = 2
    ShortMemo = 2
    LongMemo = 2
    Lateness = 0
    NoQuery = NoQuery
INVARIANTS
    NoClipsIsAnAnswer
