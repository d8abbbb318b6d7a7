SPECIFICATION FairSpec
CONSTANTS
    Coin = {"a"}
    PuzzleHash = {"p"}
    PuzzleHashOf <- MCPuzzleHashOf
    Height = {1}
    MaxCoinsPerPuzzleHash = 1
    Lives = {}
    Address = {"x"}
    Caller = {"c"}
    Wishes <- MCWishes
    MaxSessions = 2
INVARIANTS PinnedOrSignalled
PROPERTIES OnlyOwnLossUnpins PinMeansFollowing
CHECK_DEADLOCK FALSE
