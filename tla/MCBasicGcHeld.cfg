SPECIFICATION GcSpec
CONSTANTS
    o1 = o1
    o2 = o2
    o3 = o3
    x = x
    y = y
    Obj <- MCObj
    Var <- MCVar
    Nil = Nil
    Threshold = 2
    MaxCount = 3
    MaxLen = 2
SYMMETRY Alike
INVARIANT HeldKept
CHECK_DEADLOCK FALSE
