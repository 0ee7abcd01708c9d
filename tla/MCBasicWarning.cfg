SPECIFICATION MCSpec
CONSTANTS
    Expressions <- Divided
    Divisions = TRUE
    Programs <- Single
    Decisions = 0
    o1 = o1
    o2 = o2
    o3 = o3
    x = x
    y = y
    Obj <- MCObj
    Var <- MCVar
    Nil = Nil
    Threshold = 2
    MaxCount = 3
    MaxLen = 2
INVARIANTS WarningIsError
CHECK_DEADLOCK FALSE
