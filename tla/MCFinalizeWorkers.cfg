\* Two workers, with their claim loops and reapers, one job of three executions,
\* and a usage summary or an editor of its session;
\* the captions of one beat and of two.
SPECIFICATION LateSpec
CONSTANTS
    u1 = u1
    Users <- MCUsers
    UserOf <- MCUserOf
    Sessions = {s1}
    Attempts = {a1}
    Runners = {r1, r2}
    Clients = {c1}
    Estimates = {2}
    Charges = {0, 2}
    Included = 2
    Plans = {2}
    Readers = {q1}
    Editors = {e1}
    LeaseTime = 1
    TtlTime = 1
    BackoffTime = 1
    InflightLimit = 1
    BacklogLimit = 2
    MaxExecutions = 3
    None = None
    Sentences = {"a", "A", "b"}
    Fold <- MCFold
    Openings <- MCOpenings
    Applied <- MCApplied
    Flows = {"f1", "f2"}
    MaxActs = 3
    Blank = Blank
SYMMETRY Symmetric
INVARIANTS
    TaskHoldsAttempt
    LineageMatchesState
    FilmIsCaptioned
