SPECIFICATION Spec
CONSTANTS
    Threads = {t1, t2}
    Commands = {c1, c2, c3}
    Sessions = {s1}
    Stamps = {0, 1, 3}
    CachePolicies <- MCCachePolicies
    FlowPolicies <- MCFlowPolicies
    DefaultCache <- MCDefaultCache
    DefaultFlow <- MCDefaultFlow
    Second = 2
    MaxEvents = 4
SYMMETRY Symmetry
CONSTRAINT CommandsOrEvents
INVARIANTS
    HandedOutOnce
    CacheWithinPolicy
    QueuesWithinPolicy
    EventsAccounted
    RateLimited
PROPERTIES
    FirstResultStays
CHECK_DEADLOCK FALSE
