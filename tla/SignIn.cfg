SPECIFICATION FairSpec
CONSTANTS
    None = None
INVARIANTS
    TypeOK
    AnswerCounts
    TokensComplete
    ProjectAskedFirst
PROPERTIES
    SignInAnswers
CHECK_DEADLOCK FALSE
