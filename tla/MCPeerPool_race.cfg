SPECIFICATION FairSpec
CONSTANTS
    Address = {p1, d1, d2}
    Priority = {p1}
    Heights = {}
    Callers = {c1, c2}
    MaxPeers = 2
    PeerLifetime = 0
    PeakLagEviction = 1
    Impatient = {c2}
    MaxSessions = 3
    MaxTime = 0
INVARIANTS OneSeatPerAddress WithinCapacity
PROPERTIES ImplementsContract OnlyADropOrphans SeatIsGivenUp
