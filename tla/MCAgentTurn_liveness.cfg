SPECIFICATION Spec
CONSTANTS
    Turns = {t1, t2}
    Subs = {i1, i2}
    Sessions = {s1}
    Messages = {m1}
    None = None
    MaxCalls = 1
    MaxVersion = 3
PROPERTIES ConversationFrees
CHECK_DEADLOCK FALSE
