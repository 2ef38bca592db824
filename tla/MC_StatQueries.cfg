\* One query goroutine over every request of each kind, every combination
\* of existing objects, pods and Prometheus samples, every ServiceProfile
\* result and every order of the service query's weights map.
CONSTANTS
    NilValue = NilValue
    Nil <- NilValue
    Requests <- MCResourceRequests
    Objects <- MCObjects
    Pods <- MCPods
    PolicyItems <- MCPolicyItems
    Samples <- MCResourceSamples
    GroupBy <- MCGroupBy
    DstGroupBy <- MCDstGroupBy
    ToLower <- MCToLower
    ServiceRequests <- MCServiceRequests
    ServiceSamples <- MCServiceSamples
    Profiles <- MCProfiles
    ClusterDomain <- MCDomain
    Dot <- D
    Svc <- MCSvc

SPECIFICATION Spec

\* One query is modelled: it stops once it has returned its table or error.
CHECK_DEADLOCK FALSE

INVARIANTS
    TypeOK
    StatsJoined
    K8sTablePerObjects
    LeafRowsJoined
    
