\* Two requests of every kind, with failures and disconnects.
SPECIFICATION FairSpec
CONSTANTS
    r1 = r1
    r2 = r2
    Requests = {r1, r2}
    Inputs <- AllInputs
    Credit = 3
    Prompt = 1
    RouteMax = 2
    MaxTokens = 2
    Faults = TRUE
INVARIANTS ChargedAsMetered AnswerIsMetered RecordsAgree LeaseFollowsRequest
PROPERTY LeaseGivenBack
