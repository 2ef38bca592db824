\* GetProfile on an IP or a pod DNS name, with Server changes racing the
\* subscription.  Every call ends (failed, handed to the service path, or
\* cancelled), so the system does stop: deadlock is not checked.
CONSTANTS
    pa = pa
    pb = pb
    Pods <- MCPods
    Phases <- MCPhases
    None = None
    Absent = Absent
    MaxChanges = 1

SPECIFICATION MCSpec
CHECK_DEADLOCK FALSE
INVARIANTS
    TypeOK
    LookupNeverPicksArbitrarily
    
PROPERTIES
    GetProfileRefinesFeed
