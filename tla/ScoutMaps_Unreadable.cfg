\* Two views of one event, one of them with its setup, are merged.
CONSTANTS
    None = None
    Second = 4
    Inputs <- MCInputs
    Asked <- MCAsked
    Policies <- MCPolicies
    Answers <- MCAnswers
SPECIFICATION Spec
CHECK_DEADLOCK FALSE
INVARIANT WrittenMapLoads
