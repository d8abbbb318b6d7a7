SPECIFICATION Spec
CONSTANTS
    Address = {p1, d1, d2, d3}
    Priority = {p1}
    Heights = {1, 3}
    Callers = {c1, c2}
    MaxPeers = 3
    PeerLifetime = 1
    PeakLagEviction = 1
    Impatient = {}
    MaxSessions = 3
    MaxTime = 1
SYMMETRY Symmetry
INVARIANTS TypeOK
PROPERTIES OnlyCausedEvictions
