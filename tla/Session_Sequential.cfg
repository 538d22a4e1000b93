SPECIFICATION Spec
CONSTRAINT OneAtATime
CONSTANTS
    Clients = {f1, b1}
    FrameClients = {f1}
    Resizers = {}
    Closers = {}
    Sizes = {s1, s2}
    MaxOps = 2
    MaxOutput = 1
    Nobody = Nobody
INVARIANTS RecentOwnsSize
