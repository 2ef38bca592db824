\* A watcher callback in flight when the handler unsubscribes: does anything
\* reach the stream after GetProfile returned?
CONSTANTS
    h1 = h1
    h2 = h2
    P1 = P1
    P2 = P2
    NoProfile = NoProfile
    Absent = Absent
    Handlers <- CallerHandlers
    Token <- CallerToken
    Profiles <- MCProfiles
    ProfileOpaque <- MCProfileOpaque
    Ports <- MCPorts
    FailingSubscribers = {}
    MaxChanges = 1
    ProfileIDs = {"service", "caller"}

SPECIFICATION Spec

\* Once every stream has returned and the bounded cluster changes are
\* spent, the server has nothing left to do; it idles until shutdown.
CHECK_DEADLOCK FALSE

PROPERTIES
    NoSendAfterReturn
