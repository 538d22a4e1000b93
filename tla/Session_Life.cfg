SPECIFICATION Spec
CONSTANTS
    Clients = {f1, b1}
    FrameClients = {f1}
    Resizers = {}
    Closers = {k1}
    Sizes = {s1}
    MaxOps = 1
    MaxOutput = 2
    Nobody = Nobody
INVARIANTS TypeOK GoneIsForgotten NothingMissed
PROPERTIES EndIsFinal
