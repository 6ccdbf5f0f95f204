\* Workers stopped: three sessions ask at a backlog limit of one; two attempts of
\* one session, of which a request is told while another handler saves it; a page on which
\* the user acts three times.
SPECIFICATION AnswersSpec
CONSTANTS
    u1 = u1
    Users <- MCUsers
    UserOf <- MCUserOf
    Sessions = {s1, s2, s3}
    Attempts = {a1, a2, a3}
    Runners = {}
    Clients = {c1, c2}
    Estimates = {1}
    Charges = {0}
    Included = 3
    Plans = {3}
    Readers = {}
    Editors = {}
    LeaseTime = 1
    TtlTime = 1
    BackoffTime = 1
    InflightLimit = 1
    BacklogLimit = 1
    MaxExecutions = 1
    None = None
    FinalizeKeys = {k1, k2}
    Askers = {p1}
    Copiers = {e1}
    Nil = Nil
    Stories = {t1, t2}
    Scripts = {x1}
    Renders = {r1, r2}
    MaxActs = 3
    MaxPolls = 2
    Unset = Unset
SYMMETRY AnswersSymmetric
INVARIANTS
    BacklogBounded
    StatusIsTrue
    OneAttemptPerStory
