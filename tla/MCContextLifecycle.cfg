CONSTANTS
    MaxHandles <- MCMaxHandlesFour
    TpmSlots <- MCTpmSlots
    MaxDepth <- MCMaxDepthOne
    PersistentHandles = {p1}
    NoSession = NoSession
    PasswordSession = PasswordSession

SPECIFICATION Spec

PROPERTY LifecycleRefined

\* Drop ends the life of the Context: nothing follows it.
CHECK_DEADLOCK FALSE
