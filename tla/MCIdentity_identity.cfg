SPECIFICATION Spec
CONSTANTS
    codex = codex
    h1 = h1
    h2 = h2
    node = node
    t1 = t1
    t2 = t2
    None = None
    Codex = {codex}
    Claude = {h1, h2, node}
    Disguised = {node}
    Threads = {t1, t2}
    MAX_ANCESTORS = 3
    MaxChain = 4
SYMMETRY Alike
CHECK_DEADLOCK FALSE
INVARIANTS NearestHost InheritedIgnored
