SPECIFICATION RouterSpec
CONSTANTS
    d1 = d1  d2 = d2  d3 = d3  h1 = h1  h2 = h2  h3 = h3
    Address = {d1, d2, d3}
    Priority = {}
    Host = {h1, h2, h3}
    HostOf <- MCHostOf
    CorroborationFloor = 2
    SettledLag = 2
    PeakLagEviction = 1
    MaxPeers = 3
    Coin = {"a", "b", "c", "x"}
    Main <- MCMain
    Orphan <- MCOrphan
    ForkAt = 3
    Tips = {3, 4, 5, 6}
    Peaks = {0, 1, 4, 6}
    Drift = 1
    Faulty = {h1}
    Fabrications <- MCFabrications
    FabricatedAsOf = {2, 3, 6}
    Windows <- MCWindows
SYMMETRY Symmetry
INVARIANTS AgreedClaimsAreTheChain NotDraggedDown WindowIsSettled NodesInOrderNeverDisagree
INVARIANTS SetIsTheChainAtItsHeight
CHECK_DEADLOCK FALSE
