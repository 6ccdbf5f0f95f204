\* Two previews of one session and everything that can be lost: each ends.
SPECIFICATION PreviewSpec
CONSTANTS
    PreviewKeys = {k1, k2}
    Callers = {q1}
    Runners = {r1}
    Reapers = {p1}
    Writers = {}
    Contents = {v1}
    Renderable = {v1}
    MaxSaves = 0
    None = None
PROPERTIES
    EveryPreviewEnds
CHECK_DEADLOCK FALSE
