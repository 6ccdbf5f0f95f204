\* Two sessions of one account whose plan does not cover both at their dearest,
\* with changes of the plan or a usage summary;
\* two requests, two tasks and a reaper count what they do with one job; two
\* loads of the dashboard overlap on a queue that changes once.  A value that two
\* parts share means one thing in one part and another in the other.
SPECIFICATION BooksSpec
CONSTANTS
    u1 = u1
    Users <- MCUsers
    UserOf <- MCUserOf
    Sessions = {s1, s2}
    Attempts = {a1, a2}
    Runners = {r1}
    Clients = {c1}
    Estimates = {1, 2}
    Charges = {0, 2}
    Included = 3
    Plans = {0, 3}
    Readers = {q1}
    Editors = {}
    LeaseTime = 1
    TtlTime = 1
    BackoffTime = 1
    InflightLimit = 1
    BacklogLimit = 2
    MaxExecutions = 1
    None = None
    Asked = {a1, a2}
    Hands = {h1, h2}
    Sweepers = {r1}
    Machines = {"api", "worker"}
    MachineOf <- MCMachineOf
    JobKeys = {u1}
    MaxRuns = 2
    Nobody = Nobody
    Tasks = {a1, a2}
    Suppliers = {r1}
    Loads = {a1, a2}
    Ranges <- MCRanges
    Slots = {h1}
    RenderLimit = 1
    BacklogCap = 2
    CoolTime = 1
    GrantTime = 1
    MaxClock = 1
    MaxChanges = 1
    Unshown = Unshown
SYMMETRY BooksSymmetry
INVARIANTS
    CountersAgree
    DashboardTells
PROPERTIES
    ReservationsBalance
    NoOverdraft
    ChargedOnlyBySettlement
