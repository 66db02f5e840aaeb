SPECIFICATION FairClientSpec
CHECK_DEADLOCK FALSE
CONSTANT Retries = 3
PROPERTIES UnregisteredExits
