CONSTANTS
    t1 = t1
    t2 = t2
    t3 = t3
    None = None
    Turns <- MCTurns
    Speaker <- MCOne
    Scripts <- MCOneScripts
    Principals = {"ann", "bob"}
    Trigger = 2
    Keep = 2
SPECIFICATION Spec
PROPERTIES
    TurnsAreAtomic
    CancelledStaysCancelled
CHECK_DEADLOCK FALSE
