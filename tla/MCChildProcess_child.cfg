SPECIFICATION FairSpec
CONSTANTS
    Child = Child
    k1 = k1
    Kids = {k1}
    MAX_OUTPUT = 1
    MAX_READS = 2
CHECK_DEADLOCK FALSE
INVARIANTS TypeOK KillsOnlyOwn NothingLeft CompleteOutput
PROPERTIES RunReturns
