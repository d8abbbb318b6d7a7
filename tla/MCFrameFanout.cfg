SPECIFICATION FairSpec
CONSTANTS
    Source = {s1, s2}
    Subscriber = {f1, f2}
    Capacities = {0, 2}
    MaxFrames = 2
PROPERTIES StreamsHaveNoGap OnlyItsOwnPeerEndsIt EndIsLearned
CHECK_DEADLOCK FALSE
