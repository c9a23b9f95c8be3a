CONSTANTS
    Tabs = {t1, t2, t3, t4}
    Runner = Runner
    Backlog = 1
SPECIFICATION Spec
INVARIANTS RequestsInStep ServerLifetime
PROPERTY EverybodyReturns
CHECK_DEADLOCK FALSE
