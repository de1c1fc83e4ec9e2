\* Every plan of up to 26 units with the offline scouts, and the answers of a
\* provider for two windows of two seconds that overlap by one.
CONSTANTS
    None = None
    Second = 4
    Inputs <- MCInputs
    Asked <- MCAsked
    Policies <- MCPolicies
    Answers <- MCAnswers
SPECIFICATION Spec
CHECK_DEADLOCK FALSE
INVARIANTS TypeOK ShortMomentsSeenWhole NothingReportedIsLost WrittenMapIsConsistent RefusedForCandidates ClipsHoldTheirMoments
