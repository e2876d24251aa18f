\* Three goroutines close an environment with any choice of retention cleaners.
SPECIFICATION LifecycleFairSpec
CONSTANT Closer = {c1, c2, c3}
INVARIANTS LifecycleTypeOK SweepsOnOpenStore ClosedMeansStopped
PROPERTY CloseEnds
