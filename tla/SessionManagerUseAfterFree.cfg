SPECIFICATION Spec
CONSTANTS
    Sessions = {s1, s2}
    Channels = {c1}
    Timeout = 1
    NULL = NULL
INVARIANT NoUseAfterFree
