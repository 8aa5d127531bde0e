SPECIFICATION FairSpec
CONSTANTS
    Runs = {r1}
    Parts = {p1, p2}
    Controllers = {c1}
    Handlers = {h1}
    MaxAttempts = 1
    MaxInFlight = 3
PROPERTIES RunEnds
