\* Every case of up to three steps, with an LLM that agrees, disagrees, or gives no
\* answer.
CONSTANTS
    None = None
    MaxCase = 3
    MinConfidence = 600
    Steps <- SomeSteps
    AutoId <- TidNames
    Inside <- Substrings
    Ratio <- Ratios
    Answers <- SomeAnswers
SPECIFICATION Spec
INVARIANTS
    TypeOK
    AcceptedHealIsOwn
    LLMOnlyHelps
    MetricMatchesOutcome
CHECK_DEADLOCK FALSE
