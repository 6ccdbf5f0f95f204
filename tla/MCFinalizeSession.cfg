\* Two keys race for one session, from two requests at a time, without a usage
\* summary and with one; two requests at a time search and choose the clips of
\* up to three beats; a user acts three times on the creative page, with two
\* sessions and two builds at a time; the speech of two beats, with two sentences,
\* three speeches, one edit and a film.  A value that two parts share means one
\* thing in one part and another in the other.
SPECIFICATION OneSessionSpec
CONSTANTS
    u1 = u1
    Users <- MCUsers
    UserOf <- MCUserOf
    Sessions = {s1}
    Attempts = {a1, a2}
    Runners = {r1}
    Clients = {c1, c2}
    Estimates = {2}
    Charges = {0, 2}
    Included = 2
    Plans = {2}
    Readers = {q3}
    Editors = {}
    LeaseTime = 1
    TtlTime = 1
    BackoffTime = 1
    InflightLimit = 1
    BacklogLimit = 2
    MaxExecutions = 1
    None = None
    ClipIds = {x, y}
    DraftBeats = {1, 2}
    Asks = {q1, q2}
    MaxLength = 3
    MaxClicks = 2
    NoOne = NoOne
    Titles = {a1, a2}
    Wordings = {c1, c2}
    Scenes = {x, y}
    Builders = {q1, q2}
    MaxMoves = 3
    Nil = Nil
    BeatCount = 2
    Sentences <- MCSentences
    Space = "_"
    Spelled <- MCSpelled
    Paces = {35, 60}
    Forms = {"arrays", "normalized", "words", "older", "nothing"}
    Silence = 3
    MinSlice = 120
    Tolerance = 50
    MaxTakes = 3
    MaxEdits = 1
    Unset = Unset
SYMMETRY OneSessionSymmetric
INVARIANTS
    SessionLockExact
    ClipsAgree
    ShellTells
    VoiceAsTimed
    HighlightsFit
PROPERTIES
    TerminalIsFinal
    ImplementsPaidRender
