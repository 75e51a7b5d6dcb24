SPECIFICATION Spec
CONSTANTS
    u1 = u1
    u2 = u2
    r1 = r1
    r2 = r2
    r3 = r3
    User = {u1}
    Turn = {r1, r2}
    UserOf <- OneUser
    maxThreads = 1
    priorWindow = 1
    NoThreadId = NoThreadId
    UnknownThread = UnknownThread
    MaxClock = 1
PROPERTIES UpdatedAtAdvances
CHECK_DEADLOCK FALSE
