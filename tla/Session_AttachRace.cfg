SPECIFICATION Spec
CONSTANTS
    Clients = {f1}
    FrameClients = {f1}
    Resizers = {}
    Closers = {}
    Sizes = {s1}
    MaxOps = 0
    MaxOutput = 0
    Nobody = Nobody
INVARIANT AllToldOfTheEnd
