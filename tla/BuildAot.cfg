SPECIFICATION Spec
CONSTANTS
    MaxFailures <- MCMaxFailures
INVARIANT AotFilesSuffice
CHECK_DEADLOCK FALSE
