SPECIFICATION FairSpec
CONSTANTS
    t1 = t1  t2 = t2
    agent = agent  guest = guest  search = search  topology = topology
    Threads = {t1, t2}
    Principals = {agent, guest}
    Tools = {search, topology}
    Allowed <- TwoAllowed
    NotAfter <- GuestExpires
    MaxPerWindow = 2
    Window = 2
    MaxConcurrent = 1
    MaxClock = 2
    MaxCalls = 3
CHECK_DEADLOCK FALSE
INVARIANTS
    SlotsAccounted
    ConcurrencyBound
    WindowBound
    OneRowPerCall
PROPERTIES
    ImplementsRule
    CallsEnd
