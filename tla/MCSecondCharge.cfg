\* A rendered session is finalized again under a new key.
SPECIFICATION Spec
CONSTANTS
    u1 = u1
    Users <- MCUsers
    UserOf <- MCUserOf
    Sessions = {s1}
    Attempts = {a1, a2}
    Runners = {r1}
    Clients = {c1}
    Estimates = {1}
    Charges = {0, 1}
    Included = 2
    Plans = {2}
    Readers = {}
    Editors = {}
    LeaseTime = 1
    TtlTime = 1
    BackoffTime = 1
    InflightLimit = 1
    BacklogLimit = 2
    MaxExecutions = 2
    None = None
INVARIANTS
    ShortChargedOnce
