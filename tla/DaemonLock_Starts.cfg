SPECIFICATION LockSpec
CONSTANTS
    Daemons = {d1, d2, d3, d4}
    Clients = {c1, c2}
    MaxFaults = 2
    Nobody = Nobody
INVARIANTS RemainsAreCleared OneInstance
\* every process may have been started and ended
CHECK_DEADLOCK FALSE
