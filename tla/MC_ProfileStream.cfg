\* Two GetProfile streams sharing the watchers: one with a caller-namespace
\* token whose Subscribe calls may fail, and one without a context token.
CONSTANTS
    h1 = h1
    h2 = h2
    P1 = P1
    P2 = P2
    NoProfile = NoProfile
    Absent = Absent
    Handlers <- MixedHandlers
    Token <- MixedToken
    Profiles <- MCProfiles
    ProfileOpaque <- MCProfileOpaque
    Ports <- MCPorts
    FailingSubscribers <- MixedFailing
    MaxChanges = 1
    ProfileIDs = {"service", "caller"}

SPECIFICATION Spec

\* Once every stream has returned and the bounded cluster changes are
\* spent, the server has nothing left to do; it idles until shutdown.
CHECK_DEADLOCK FALSE

INVARIANTS
    TypeOK
    EffectiveProfile
    NoLeakedSubscription



    
