SPECIFICATION FairSpec
CONSTANTS
    Sessions = {s1, s2}
    Channels = {c1, c2}
    Timeout = 1
    NULL = NULL
INVARIANTS TypeOK MutexExclusion SessionListSound WorkAuthorised
PROPERTIES PointsLeaveWithSession RequestCompletes IdleSessionsExpire
