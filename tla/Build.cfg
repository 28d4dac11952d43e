SPECIFICATION FairSpec
CONSTANTS
    MaxFailures <- MCMaxFailures
INVARIANTS TypeOK InputsReady
PROPERTY GoalMade
CHECK_DEADLOCK FALSE
