\* Nothing fails: a stream whose upstream reports no usage.
SPECIFICATION Spec
CONSTANTS
    r1 = r1
    r2 = r2
    Requests = {r1, r2}
    Inputs <- Streams
    Credit = 9
    Prompt = 1
    RouteMax = 2
    MaxTokens = 2
    Faults = FALSE
INVARIANT StreamUsageCorrect
