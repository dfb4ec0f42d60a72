SPECIFICATION FairSpec
CONSTANTS
    codex = codex
    claude = claude
    other = other
    m1 = m1
    m2 = m2
    m3 = m3
    r1 = r1
    r2 = r2
    r3 = r3
    None = None
    Agents = {codex, claude}
    Codex = {codex}
    Msgs = {m1, m2}
    Readers = {r1, r2}
    AddressOf <- ReadersOfBoth
    Waiting = {r1}
    Drafts <- InboxDrafts
    BATCH_SIZE = 1
    MAX_PENDING = 2
    MAX_HOPS = 1
    HISTORY_LIMIT = 1
    POLLING_TTL_MS = 0
    MaxTime = 0
    MaxSession = 0
    MaxLost = 0
CHECK_DEADLOCK FALSE
PROPERTIES PendingIsRead
