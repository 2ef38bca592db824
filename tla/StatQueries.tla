---------------------------- MODULE StatQueries ----------------------------
(***************************************************************************)
(* One query goroutine of StatSummary (stat_summary.go): the goroutine     *)
(* runs serviceResourceQuery when its request's type is a service, and     *)
(* the non-Kubernetes, policy or k8s query otherwise.  The service query   *)
(* is TrafficSplit, the others StatTables; each keeps its own variables,   *)
(* and the half the goroutine does not run stays at its idle value.       *)
(***************************************************************************)
EXTENDS Naturals

CONSTANTS
    Requests, Objects, Pods, PolicyItems, Samples, GroupBy, DstGroupBy,
    ToLower,                \* the other queries' parameters (StatTables)
    ServiceRequests, ServiceSamples, Profiles, ClusterDomain, Dot, Svc,
                            \* the service query's parameters (TrafficSplit)
    Nil

VARIABLES
    req, objects, items, samples, done, result,     \* StatTables
    sreq, ssamples, sp, sdone, sresult              \* TrafficSplit

resourceVars == <<req, objects, items, samples, done, result>>
serviceVars  == <<sreq, ssamples, sp, sdone, sresult>>
vars == <<resourceVars, serviceVars>>

ST == INSTANCE StatTables

TS == INSTANCE TrafficSplit WITH
    Requests <- ServiceRequests, Samples <- ServiceSamples,
    req <- sreq, samples <- ssamples, done <- sdone, result <- sresult

ResourceIdle ==
    /\ req = Nil /\ objects = Nil /\ items = {} /\ samples = {}
    /\ done = FALSE /\ result = Nil

ServiceIdle ==
    /\ sreq = Nil /\ ssamples = {} /\ sp = Nil /\ sdone = FALSE /\ sresult = Nil

(* The goroutine's request is of some resource type: a service request    *)
(* goes to serviceResourceQuery, any other to its own query.               *)
Init ==
    \/ ST!Init /\ ServiceIdle
    \/ TS!Init /\ ResourceIdle

IsService == sreq # Nil

Next ==
    \/ ~IsService /\ ST!Next /\ UNCHANGED serviceVars
    \/ IsService /\ TS!Next /\ UNCHANGED resourceVars

Spec == Init /\ [][Next]_vars

-----------------------------------------------------------------------------
(* The goroutine's request and table are well formed for its query, and   *)
(* the other query never runs.                                             *)
TypeOK ==
    IF IsService THEN TS!TypeOK /\ ResourceIdle ELSE ST!TypeOK /\ ServiceIdle

(* Non-service tables: every row's stats are exactly those of the samples  *)
(* processPrometheusMetrics keyed to its resource (metricToKey), summed    *)
(* over the tls series, and no row's stats come from another's samples.    *)
StatsJoined == ~IsService => ST!StatsJoined

(* k8s tables have one row per listed object that is kept by getResultKeys *)
(* (objects with pods or stats), whatever stats Prometheus holds.          *)
K8sTablePerObjects == ~IsService => ST!K8sTablePerObjects

(* Service tables: each leaf an override names has one traffic-split row,  *)
(* with its last override's weight and the counts for traffic to it.       *)
LeafRowsJoined == IsService => TS!LeafRowsJoined

TrafficSplitRowsSorted == IsService => TS!TrafficSplitRowsSorted

====
