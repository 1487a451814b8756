CONSTANTS
    t1 = t1
    t2 = t2
    t3 = t3
    None = None
    Turns <- MCTurns
    Speaker <- MCSpeaker
    Scripts <- MCScripts
    Principals = {"ann", "bob"}
    Trigger = 2
    Keep = 2
SPECIFICATION Spec
INVARIANTS
    OneOwner
    AnswersFollowQuestions
    AloneIsKept
CHECK_DEADLOCK FALSE
