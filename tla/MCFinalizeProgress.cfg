\* Crashes, dying tasks and requeues under the fairness of the runtime.
SPECIFICATION FairSpec
CONSTANTS
    u1 = u1
    Users <- MCUsers
    UserOf <- MCUserOf
    Sessions = {s1}
    Attempts = {a1}
    Runners = {r1, r2}
    Clients = {c1}
    Estimates = {2}
    Charges = {0, 2}
    Included = 2
    Plans = {2}
    Readers = {}
    Editors = {}
    LeaseTime = 1
    TtlTime = 1
    BackoffTime = 1
    InflightLimit = 1
    BacklogLimit = 2
    MaxExecutions = 2
    None = None
PROPERTIES
    EveryAttemptEnds
