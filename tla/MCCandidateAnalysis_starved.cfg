SPECIFICATION RepeatedSpec
CONSTANTS
    Runs = {r1}
    Directs = {}
    NPaths = 2
    Unreadable = {1}
    Outcomes = {"COMPLETED"}
    Limit = 1
    MaxDocs = 2
    MaxVersions = 4
    None = None
PROPERTIES NeverStarved
CHECK_DEADLOCK FALSE
