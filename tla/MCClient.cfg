SPECIFICATION ClientSpec
CONSTANTS
    Address = {"p", "d1", "d1x", "d2", "d3"}
    Priority = {"p"}
    Host = {"own", "h1", "h2", "h3"}
    HostOf <- MCHostOf
    CorroborationFloor = 2
    MaxPeers = 4
    Claims = {"a", "pending"}
    Faulty = {"own", "h1", "h2"}
    Confirmed = {"a"}
    PollInterval = 1
    Timeout = 2
    MaxDelay = 1
    Session = {0, 1}
    Seats = 2
    Unreliable = {"d1"}
    MaxResponseBytes = 4
    MaxUsize = 7
    MaxHeight = 3
    Branch = {0, 1}
    Parent = {"m", "n"}
    BornOf <- MCBornOf
    MaxU32 = 9
    Configured = {"own", "loop"}
    Introduced = {"own", "loop", "n1", "n2", "n3"}
    Local = {"loop"}
    SubnetOf <- MCSubnetOf
    PoolSize = 3
INVARIANTS FalsehoodNeedsMoreHosts OneReliableVoiceBlocksIt ArrivalsDoNotRescue
INVARIANTS WrongNeedsTwoSources
INVARIANTS PushIsAccountable ReadsAnswerTheirQuestion CoinsetIsTheLastResort StrangersGetSeats
PROPERTIES EverySeatBuysAVoice NoVetoByOneNode OnlyFailureCostsASeat EveryCallReturns
CHECK_DEADLOCK FALSE
