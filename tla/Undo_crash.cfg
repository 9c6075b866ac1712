CONSTANTS
    k_c = k_c
    k_a = k_a
    k_b = k_b
    k_n = k_n
    k_m = k_m
    s_c = s_c
    s_a = s_a
    s_b = s_b
    s_n = s_n
    s_m = s_m
    s_x = s_x
    None = None
    Cset = k_c
    Key = {k_c, k_a, k_b, k_n, k_m}
    Path = {s_c, s_a, s_b, s_n, s_m, s_x}
    Home <- MCHome
    From <- MCFrom
    To <- MCTo
    Order <- CsetFirst
    MaxFaults = 2
    SfioFails = FALSE
SPECIFICATION UnSpec
INVARIANTS  NoConflict OldRecoverable CompleteWhenDone UndoSaved UndoNoConflict
PROPERTIES UndoEnds 
CHECK_DEADLOCK FALSE
