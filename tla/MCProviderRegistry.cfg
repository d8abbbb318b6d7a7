SPECIFICATION Spec
CONSTANTS
    Registries <- MCRegistries
    MaxResponseBytes = 4
    MaxUsize = 7
    MaxRecords = 2
    Threshold = 2
INVARIANT HonestAnswersAreTrue FalseCustodyNeedsTwoVoices CustodyNeverDegrades SteadySourceIsHeard
