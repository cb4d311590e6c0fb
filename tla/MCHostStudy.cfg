SPECIFICATION FairSpec
CONSTANTS
    Steps <- SomeSteps
    Teardown <- SomeTeardown
CHECK_DEADLOCK FALSE
INVARIANTS TeardownRuns AcceptedAnswersCount RecordIsTrue ResultsAreRight
PROPERTIES CancelTakesHold StudyEnds
