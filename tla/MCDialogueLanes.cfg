CONSTANTS
    Ctxs = {a, b}
    Handlers = {h1, h2}
    None = None
    Kept = 2
    KeptTasks = 1
    MaxTurns = 3
    Spans = {1, 2, 3}
    Subjects = {"A", "B"}
    Timed = {"A"}
    Years = {3, 5}
    Unset = Unset
    Sources <- MCSources
    MaxAmendments = 2
SPECIFICATION MCSpec
SYMMETRY Sym
INVARIANTS LanesConsistent ReviewHolds
PROPERTIES AnswerFollowsQuestion
CHECK_DEADLOCK FALSE
