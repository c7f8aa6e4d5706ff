CONSTANTS
    MaxHandles <- MCMaxHandles
    TpmSlots <- MCTpmSlots
    MaxDepth <- MCMaxDepth
    PersistentHandles = {p1}
    NoSession = NoSession
    PasswordSession = PasswordSession

SPECIFICATION Spec

INVARIANT TypeOK
INVARIANT RegistryExact
INVARIANT SessionsRestored
INVARIANT TeardownLeavesOnlyFailures
PROPERTY TempScopeReleases

\* Drop ends the life of the Context: nothing follows it.
CHECK_DEADLOCK FALSE
