SPECIFICATION Spec
CONSTANTS
    Address = {p1, d1}
    Priority = {p1}
    Heights = {}
    Callers = {c1, c2}
    MaxPeers = 1
    PeerLifetime = 1
    PeakLagEviction = 1
    Impatient = {}
    MaxSessions = 2
    MaxTime = 0
PROPERTIES FailureSparesReplacement
