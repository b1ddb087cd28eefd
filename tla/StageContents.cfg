SPECIFICATION MCSpec
CONSTANTS
    Jobs = {j1}
    Stages = {1, 2, 3, 4, 5, 6, 7, 8, 9}
    Profiles = {"deterministic", "fast", "quality"}
    Plan <- StagePlan
    MaxAttempt = 9
    Values = {"a", "b"}
    MaxChanges = 2
    MaxFaults = 1
    Settings <- MCSettings
    MaxCandidateWords = 3
    Script = "c"
    CorrectionTexts <- MCCorrections
    TranslationTexts <- MCTranslations
    TermPairs <- MCTerms
INVARIANTS
    SucceededComplete
    Fresh
    CuesRight

