\* Middleware and controllers that do anything, on both platforms.
SPECIFICATION FairSpec
CONSTANT MaxMiddlewares = 2
INVARIANTS FinalCount EveryRequestAnswered StoppedRequestsStop
PROPERTY EveryRequestSettles
CHECK_DEADLOCK FALSE
