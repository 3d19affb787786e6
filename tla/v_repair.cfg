SPECIFICATION FormSpec
CONSTANTS
    Films = {f1, f2}
    Players = {t1, t2}
    NoCmd = NoCmd
    MaxPlays = 1
INVARIANT FormsOfOwnFilm
CHECK_DEADLOCK FALSE
