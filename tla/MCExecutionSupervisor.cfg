SPECIFICATION FairSpec
CONSTANT MaxQueue = 2
PROPERTIES KeepsPromise LossIsCleanedUp RequestsAreServed
\* A supervisor that is gone takes no step.
CHECK_DEADLOCK FALSE
