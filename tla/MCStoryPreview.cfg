\* Two previews of one session, a runner, a reaper and an edit in between.
SPECIFICATION PreviewSpec
CONSTANTS
    PreviewKeys = {k1, k2}
    Callers = {q1}
    Runners = {r1}
    Reapers = {p1}
    Writers = {w1}
    Contents = {v1, v2, v3}
    Renderable = {v1, v2}
    MaxSaves = 1
    None = None
SYMMETRY PreviewSymmetric
INVARIANTS
    ReadyIsCurrent
    OneActivePreview
CHECK_DEADLOCK FALSE
