CONSTANTS
    MaxUtterances = 2
    MaxPartials = 2
    MaxRejects = 1
SPECIFICATION CleanSpec
INVARIANTS DoneIsComplete OutcomeIsTold
PROPERTIES PartialsStayBehind CommitEndsSession
CHECK_DEADLOCK FALSE
