SPECIFICATION MCSpec
CONSTANTS
    Expressions <- MCExpressions
    Divisions = FALSE
    Programs <- MCPrograms
    Decisions = 4
    o1 = o1
    o2 = o2
    o3 = o3
    x = x
    y = y
    Obj <- MCObj
    Var <- MCVar
    Nil = Nil
    Threshold = 2
    MaxCount = 3
    MaxLen = 2
SYMMETRY Alike
INVARIANTS ValueOfSentence AcceptedIsSentence Repeatable TraceIsStructured ReturnPointsUsed
    ReachableKept GarbageKnown
CHECK_DEADLOCK FALSE
