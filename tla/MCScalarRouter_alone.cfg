SPECIFICATION RouterSpec
CONSTANTS
    Address = {"p", "d1", "d1x", "d2", "d3"}
    Priority = {"p"}
    Host = {"own", "h1", "h2", "h3"}
    HostOf <- MCHostOf
    CorroborationFloor = 2
    MaxPeers = 4
    Claims = {"a"}
    Faulty = {"h1"}
INVARIANTS CoinsetAloneOnlyIfNoPeerAnswers
CHECK_DEADLOCK FALSE
