SPECIFICATION Spec
CONSTANTS
    MaxLine = 5
    MaxTokens = 5
    MaxTarget = 4
    plain = plain
    endpoint = endpoint
    malformed = malformed
    badport = badport
    Lines <- MCLines
    TokenLists <- MCTokenLists
    Texts <- MCTexts
    Outcome <- MCOutcome
    Targets <- MCTargets
INVARIANTS
    TokenizerInBounds
    TokenizerMemory
    TokensRight
    PipelineInBounds
    PipelineMemory
    PipelineRight
    TargetRight
