SPECIFICATION ClientSpec
CONSTANTS
    Tasks = {t1, t2}
    MaxClients = 1
    MaxEvents = 1
    FullIdentity = TRUE
SYMMETRY Symmetry
INVARIANT NoSelfWait
CHECK_DEADLOCK FALSE
