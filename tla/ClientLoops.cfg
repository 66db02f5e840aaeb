SPECIFICATION ClientSpec
CHECK_DEADLOCK FALSE
CONSTANT Retries = 3
INVARIANTS LoopsOnlyIfStarted
