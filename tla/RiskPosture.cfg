SPECIFICATION PostureSpec
CONSTANTS
    Fetchers = {f1, f2}
    Totals <- MCTotals
SYMMETRY Symmetry
INVARIANTS
    PostureConsistent
    HeuristicKept
