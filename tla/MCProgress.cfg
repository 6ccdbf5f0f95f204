\* Three executions after one slot, in a process that may crash and start again;
\* a timeline of two clips that the page may also take away; a page on which
\* the user acts twice.
SPECIFICATION ProgressSpec
CONSTANTS
    Owners = {o1, o2, o3}
    Procs = {p1}
    Limit = 1
    LocalLimit = 2
    LeaseTime = 2
    Slack = 1
    None = None
    Timelines <- MCTimelines
    DriftTolerance = 1
    WarmupLead = 1
    MaxStall = 0
    Blank = Blank
    Stories = {s1, s2}
    Scripts = {t1, t2}
    Renders = {r1}
    MaxActs = 2
    MaxPolls = 2
    Unset = Unset
INVARIANTS
    SlotKeptUntilLapse
    CounterExact
    PlaysWhatIsWanted
PROPERTIES
    SlotComesBack
    CatchesUp
    PageSettles
