SPECIFICATION HiringFairSpec
CONSTANTS
    NoValue = NoValue
    r1 = r1
    r2 = r2
    r3 = r3
    Requests = {r1, r2, r3}
    AsOf = 2024
    Candidates = {1, 2}
    Unanalysed = {2}
    Signatures = {"developer"}
    Facts <- MCFacts
    Unverified <- MCUnverified
    Criteria <- MCCriteria
    EligibleOnly = {2}
    ResultLimit = 2
    MaxJobs = 3
    MaxProfile = 2
INVARIANTS
    VacancyOnce
    AnswersAgree
    ScoringHolds
PROPERTY RequestsEnd
CHECK_DEADLOCK FALSE
