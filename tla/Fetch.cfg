SPECIFICATION FetchSpec
CONSTANTS
    Totals = {0, 1, 3, 4, 6}
    Limit = 3
INVARIANTS FetchTypeOK NoGap
PROPERTY StreamRefined
