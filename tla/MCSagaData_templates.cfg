\* One driver and one poller, a crash anywhere.
SPECIFICATION Spec
CONSTANTS
    N = 2
    AsyncSteps = {1}
    ActionTpls <- MCActionTpls
    PollTpls <- MCPollTpls
    CompensateTpls <- MCCompensateTpls
    Responses <- MCResponses
    PollResponses <- MCPollResponses
    Nil <- NilMap
    Data <- MCData
    Render <- RenderRequest
    Means <- RequestSays
    Accepts <- Accepted
    Verdict <- MCVerdict
    MaxRetry = 2
    PollMaxTimes = 1
    MaxCrashes = 1
INVARIANTS RequestsHold PathsAgree
CHECK_DEADLOCK FALSE
