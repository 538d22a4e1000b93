SPECIFICATION FairSpec
CONSTANTS
    Clients = {b1}
    FrameClients = {}
    Resizers = {r1}
    Closers = {k1}
    Sizes = {s1}
    MaxOps = 1
    MaxOutput = 1
    Nobody = Nobody
PROPERTIES ExitedLeave GhostIsCleared CloseCompletes
