SPECIFICATION MCSpec
CONSTANTS
    Turns = {t1, t2}
    Subs = {i1, i2}
    Sessions = {s1, s2}
    Messages = {m1, m2}
    None = None
    MaxCalls = 0
    MaxVersion = 3
    CandidateIds = {1, 2, 3}
    Texts <- MCTexts
    PlannerDrafts <- MCDrafts
    Profiles <- MCProfiles
    Corpora <- MCCorpora
    Protected = {"protected"}
    Unsafe = {"unsafe"}
    BestFit = 2
    DefaultLimit = 2
    MaxChanges = 2
    Absent = Absent
INVARIANTS ExactlyOnce Serialized DraftConfirmedOnce TruthfulOutcome SearchHolds
PROPERTIES ReservationOwned RevocationBarrier
SYMMETRY Symmetry
CHECK_DEADLOCK FALSE
