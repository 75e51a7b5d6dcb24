SPECIFICATION Spec
CONSTANTS
    u1 = u1
    u2 = u2
    r1 = r1
    r2 = r2
    r3 = r3
    User = {u1, u2}
    Turn = {r1, r2, r3}
    UserOf <- TwoUsers
    maxThreads = 1
    priorWindow = 2
    NoThreadId = NoThreadId
    UnknownThread = UnknownThread
    MaxClock = 2
SYMMETRY TwoUsersSymmetry
INVARIANTS TypeOK ThreadsBounded AnswersStandWithQuestions RepliesMatchHistory PriorIsRecentDialogue OnlyOwnerWrites
CHECK_DEADLOCK FALSE
