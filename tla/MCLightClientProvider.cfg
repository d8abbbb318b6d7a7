SPECIFICATION Spec
CONSTANTS
    Coin = {"a", "b"}
    PuzzleHash = {"p"}
    PuzzleHashOf <- MCPuzzleHashOf
    Height = {1, 2, 3}
    Lives <- MCLives
    MaxCoinsPerPuzzleHash = 1
    Wishes <- MCWishes
    Genesis <- MCGenesis
    Busy = {"a"}
    MaxFrames = 1
    MaxChains = 2
    MAX_PUZZLE_STATE_PAGES = 2
    MAX_ACCUMULATED_COIN_STATES = 2
    Fabrications <- MCFabrications
INVARIANTS CacheTypeOK NoCoinAbovePeak ReadsFollowTheChain HeightsStayCountable
PROPERTIES PeakFallsOnlyByReorg GrowthIsBounded
CHECK_DEADLOCK FALSE
