SPECIFICATION FairSpec
CONSTANTS
    Conns = {c1, c2}
    MaxIds = 2
INVARIANTS TypeOK OneRecord NoOrphan IdsAreFresh
PROPERTIES ExitedIsRemembered
