\* Two Get streams racing endpoint changes, Service deletion and
\* re-creation, client cancels and the server's shutdown.
CONSTANTS
    h1 = h1
    h2 = h2
    a1 = a1
    a2 = a2
    Handlers <- MCHandlers
    Addrs <- MCAddrs
    SubscribeMayFail = TRUE
    MaxChanges = 2

SPECIFICATION Spec

\* A stream waits in its select until the client cancels or the server
\* shuts down; once every change has happened and every stream has
\* returned or is waiting, nothing more happens.
CHECK_DEADLOCK FALSE

INVARIANTS
    TypeOK
    

PROPERTIES
    CancelledGetReturns
    GetRefinesViews
