\* The service query with rows with and without a weight, against the
\* comment that the sort gives a consistent order.
CONSTANTS
    NilValue = NilValue
    Nil <- NilValue
    Requests <- MCResourceRequests
    Objects <- MCObjects
    Pods <- MCPods
    PolicyItems <- MCPolicyItems
    Samples <- MCResourceSamples
    GroupBy <- MCGroupBy
    DstGroupBy <- MCDstGroupBy
    ToLower <- MCToLower
    ServiceRequests <- MCServiceRequests
    ServiceSamples <- MCServiceSamples
    Profiles <- MCProfiles
    ClusterDomain <- MCDomain
    Dot <- D
    Svc <- MCSvc

SPECIFICATION Spec

\* One query is modelled: it stops once it has returned its table or error.
CHECK_DEADLOCK FALSE

INVARIANT
    TrafficSplitRowsSorted
