---------------------------- MODULE StatTables ----------------------------
(***************************************************************************)
(* The stat table one query goroutine of StatSummary builds when it does   *)
(* not fail (stat_summary.go): the k8s query (getKubernetesObjectStats,    *)
(* getPodStats, getResultKeys), the policy query (getPolicyResourceKeys)   *)
(* and the non-Kubernetes (authority) query, all of which turn the         *)
(* Prometheus answer into per-resource stats with processPrometheusMetrics *)
(* and metricToKey.  The service query is in TrafficSplit.                 *)
(*                                                                         *)
(* Data is abstracted to what the joins tell apart.  A Prometheus sample   *)
(* is its query (prom), its metric (the values of the group-by labels), a  *)
(* classification and tls label for request counts, and a small natural    *)
(* value.  Prometheus answers a query with the samples of the query's      *)
(* type whose metric has exactly the group-by labels.  The Kubernetes API  *)
(* answers with the objects (each with its pods) or policy resources that  *)
(* exist.  Label filters, query text and pod status text are left out.     *)
(***************************************************************************)
EXTENDS Naturals, Sequences, SequencesExt, FiniteSetsExt, TLC

CONSTANTS
    Requests,       \* [selector, outbound \in {"none","to","from"},
                    \*  skipStats, tcpStats, selectorValid]
    Objects,        \* rKeys of the Kubernetes objects that may exist
    Pods,           \* pods an object may select
    PolicyItems,    \* Server / ServerAuthorization objects that may exist
    Samples,        \* samples Prometheus may hold
    GroupBy,        \* promGroupByLabelNames: resource type -> label names
    DstGroupBy,     \* promDstGroupByLabelNames: resource type -> label names
    ToLower,        \* strings.ToLower of the kinds of PolicyItems
    Nil

(* The query kind and the label selector parse come from StatSummary.      *)
LOCAL SS == INSTANCE StatSummary WITH
    AllTypes <- <<>>, req <- Nil, mpc <- Nil, toQuery <- <<>>,
    wpc <- <<>>, result <- <<>>, tables <- <<>>

VARIABLES
    req,        \* the request of this goroutine (one resource type)
    objects,    \* objects[k]: the pods of existing object k
    items,      \* the policy resources the dynamic client lists
    samples,    \* the samples Prometheus holds
    done,       \* the query has run
    result      \* [err |-> TRUE] or [err |-> FALSE, rows |-> set of rows]

vars == <<req, objects, items, samples, done, result>>

-----------------------------------------------------------------------------
(* Group-by label names of each query (the label filters are abstracted).  *)
buildRequestLabels(r) ==
    IF r.outbound = "from" THEN DstGroupBy[r.selector] ELSE GroupBy[r.selector]

buildServerRequestLabels(r) ==
    <<"namespace", IF r.selector = SS!Server THEN "server"
                   ELSE IF r.selector = SS!ServerAuthorization
                        THEN "serverauthorization" ELSE "">>

(* The Prometheus queries getStatMetrics and getPolicyMetrics send.       *)
Latencies == {"latencyP50", "latencyP95", "latencyP99"}
TcpProms  == {"tcpConnections", "tcpReadBytes", "tcpWriteBytes"}

getStatMetricsProms(r) ==
    {"requests"} \cup Latencies \cup (IF r.tcpStats THEN TcpProms ELSE {})

getPolicyMetricsProms(r) ==
    {"requests", "allowedRequests", "deniedRequests"} \cup Latencies
      \cup (IF r.selector = SS!Server /\ r.tcpStats THEN TcpProms ELSE {})

(* What Prometheus returns for a set of queries grouped by groupBy.        *)
PromAnswer(proms, groupBy) ==
    {s \in samples : s.prom \in proms /\ DOMAIN s.metric = Range(groupBy)}

(* The key a sample is stored under; it assumes groupBy is ordered        *)
(* (..., namespace, name).                                                 *)
metricToKey(r, metric, groupBy) ==
    [type      |-> r.selector,
     name      |-> metric[groupBy[Len(groupBy)]],
     namespace |-> IF Len(groupBy) = 2 THEN metric[groupBy[1]] ELSE ""]

ZeroBasic == [successCount |-> 0, failureCount |-> 0,
              latencyMsP50 |-> 0, latencyMsP95 |-> 0, latencyMsP99 |-> 0]
ZeroTcp   == [openConnections |-> 0, readBytesTotal |-> 0, writeBytesTotal |-> 0]
ZeroAuthz == [allowedCount |-> 0, deniedCount |-> 0]

(* m with key present, created as zero by addBasicStats and friends.       *)
Ensure(m, key, zero) == IF key \in DOMAIN m THEN m ELSE (key :> zero) @@ m

(* One sample of the loop: request counts accumulate (+=), every other     *)
(* field is assigned.                                                      *)
ProcessSample(r, groupBy, s, acc) ==
    LET key == metricToKey(r, s.metric, groupBy)
        v   == s.value
        b   == Ensure(acc.basic, key, ZeroBasic)
        t   == Ensure(acc.tcp, key, ZeroTcp)
        a   == Ensure(acc.authz, key, ZeroAuthz)
    IN CASE s.prom = "requests" ->
              [acc EXCEPT !.basic = [b EXCEPT
                   ![key].successCount = @ + (IF s.class = "success" THEN v ELSE 0),
                   ![key].failureCount = @ + (IF s.class = "failure" THEN v ELSE 0)]]
         [] s.prom = "latencyP50" -> [acc EXCEPT !.basic = [b EXCEPT ![key].latencyMsP50 = v]]
         [] s.prom = "latencyP95" -> [acc EXCEPT !.basic = [b EXCEPT ![key].latencyMsP95 = v]]
         [] s.prom = "latencyP99" -> [acc EXCEPT !.basic = [b EXCEPT ![key].latencyMsP99 = v]]
         [] s.prom = "tcpConnections" -> [acc EXCEPT !.tcp = [t EXCEPT ![key].openConnections = v]]
         [] s.prom = "tcpReadBytes"   -> [acc EXCEPT !.tcp = [t EXCEPT ![key].readBytesTotal = v]]
         [] s.prom = "tcpWriteBytes"  -> [acc EXCEPT !.tcp = [t EXCEPT ![key].writeBytesTotal = v]]
         [] s.prom = "allowedRequests" -> [acc EXCEPT !.authz = [a EXCEPT ![key].allowedCount = v]]
         [] s.prom = "deniedRequests"  -> [acc EXCEPT !.authz = [a EXCEPT ![key].deniedCount = v]]

(* Mutant: request counts are assigned, so the last tls series wins.      *)
processPrometheusMetricsOverwrite(r, answer, groupBy) ==
    LET op(s, acc) ==
          LET key == metricToKey(r, s.metric, groupBy)
              b   == Ensure(acc.basic, key, ZeroBasic)
          IN IF s.prom = "requests"
             THEN [acc EXCEPT !.basic = [b EXCEPT
                     ![key].successCount = IF s.class = "success" THEN s.value ELSE @,
                     ![key].failureCount = IF s.class = "failure" THEN s.value ELSE @]]
             ELSE ProcessSample(r, groupBy, s, acc)
    IN FoldSet(op, [basic |-> <<>>, tcp |-> <<>>, authz |-> <<>>], answer)

(* The loop over every sample of every result, in the order Prometheus     *)
(* returned them.                                                          *)
processPrometheusMetrics(r, answer, groupBy) ==
    FoldSet(LAMBDA s, acc : ProcessSample(r, groupBy, s, acc),
            [basic |-> <<>>, tcp |-> <<>>, authz |-> <<>>], answer)

Lookup(m, k) == IF k \in DOMAIN m THEN m[k] ELSE Nil

(* A container status: ready, its state (waiting, or terminated with a    *)
(* zero or non-zero exit code or signal) and its last termination state.   *)
(* toPodError keeps the container and which state the reason came from.    *)
toPodError(st, from) == [container |-> st.name, from |-> from]

(* One error per not-ready container for each of: waiting, terminated with *)
(* a non-zero exit code or signal, last state waiting, last state          *)
(* terminated.                                                             *)
checkContainerErrors(statuses) ==
    LET errs(st) ==
          IF st.ready THEN <<>>
          ELSE (IF st.waiting THEN <<toPodError(st, "waiting")>> ELSE <<>>)
               \o (IF st.terminated = "nonzero" THEN <<toPodError(st, "terminated")>> ELSE <<>>)
               \o (IF st.lastWaiting THEN <<toPodError(st, "lastWaiting")>> ELSE <<>>)
               \o (IF st.lastTerminated THEN <<toPodError(st, "lastTerminated")>> ELSE <<>>)
    IN FoldLeft(LAMBDA acc, st : acc \o errs(st), <<>>, statuses)

PodErrors(p) == checkContainerErrors(p.containers) \o checkContainerErrors(p.initContainers)

(* Mutant: ErrorsByPod gets an entry for every pod, errors or not.         *)
getPodStatsAllPods(ps) ==
    [failed |-> Cardinality({p \in ps : p.phase = "Failed"}),
     total  |-> Cardinality({p \in ps : p.phase # "Failed"}),
     inMesh |-> Cardinality({p \in ps : p.phase # "Failed" /\ p.meshed}),
     errors |-> [n \in {p.name : p \in ps} |->
                   PodErrors(CHOOSE p \in ps : p.name = n)]]

(* Failed pods are counted apart; the others are running, and meshed when  *)
(* they have the proxy.  A pod's errors are recorded when there are any.   *)
getPodStats(ps) ==
    [failed |-> Cardinality({p \in ps : p.phase = "Failed"}),
     total  |-> Cardinality({p \in ps : p.phase # "Failed"}),
     inMesh |-> Cardinality({p \in ps : p.phase # "Failed" /\ p.meshed}),
     errors |-> [n \in {p.name : p \in {q \in ps : PodErrors(q) # <<>>}} |->
                   PodErrors(CHOOSE p \in ps : p.name = n)]]

(* The objects of the requested type, by rKey, with their pod stats.       *)
getKubernetesObjectStats(r, objs) ==
    [k \in {[type |-> r.selector, namespace |-> o.namespace, name |-> o.name] :
              o \in DOMAIN objs}
       |-> getPodStats(objs[[namespace |-> k.namespace, name |-> k.name]])]

(* Mutant: the outbound filter is ignored.                                 *)
getResultKeysNoFilter(r, objKeys, metricKeys) == objKeys

(* Every object, or with a --to/--from filter only the keys with stats.    *)
getResultKeys(r, objKeys, metricKeys) ==
    IF r.outbound = "none" THEN objKeys ELSE metricKeys

(* What Prometheus returned to the query of request r, and its group-by.   *)
QueryGroupBy(r) ==
    IF SS!isPolicyResource(r.selector) THEN buildServerRequestLabels(r)
    ELSE buildRequestLabels(r)

QueryAnswer(r) ==
    IF r.skipStats THEN {}
    ELSE PromAnswer(IF SS!isPolicyResource(r.selector) THEN getPolicyMetricsProms(r)
                    ELSE getStatMetricsProms(r), QueryGroupBy(r))

k8sResourceQuery(r, objs) ==
    LET stats   == getKubernetesObjectStats(r, objs)
        groupBy == QueryGroupBy(r)
        m       == processPrometheusMetrics(r, QueryAnswer(r), groupBy)
        keys    == getResultKeys(r, DOMAIN stats, DOMAIN m.basic)
    IN {[resource |-> k,
         stats    |-> IF Lookup(m.basic, k) = ZeroBasic THEN Nil ELSE Lookup(m.basic, k),
         tcp      |-> IF r.tcpStats THEN Lookup(m.tcp, k) ELSE Nil,
         srv      |-> Nil,
         pods     |-> stats[k]] : k \in keys \cap DOMAIN stats}

(* The group-version-resource listed for the request's type.              *)
PolicyKind(r) ==
    IF r.selector = SS!Server THEN "Server"
    ELSE IF r.selector = SS!ServerAuthorization THEN "ServerAuthorization" ELSE ""

getPolicyResourceKeys(r, its) ==
    {[namespace |-> i.namespace, type |-> ToLower[i.kind], name |-> i.name] :
        i \in {i \in its : i.kind = PolicyKind(r)}}

policyResourceQuery(r, its) ==
    LET m == processPrometheusMetrics(r, QueryAnswer(r), QueryGroupBy(r))
    IN {[resource |-> [k EXCEPT !.type = r.selector],
         stats    |-> Lookup(m.basic, k),
         tcp      |-> Lookup(m.tcp, k),
         srv      |-> Lookup(m.authz, k),
         pods     |-> Nil] : k \in getPolicyResourceKeys(r, its)}

nonK8sResourceQuery(r) ==
    LET m == processPrometheusMetrics(r, QueryAnswer(r), QueryGroupBy(r))
    IN {[resource |-> [k EXCEPT !.type = r.selector], stats |-> m.basic[k],
         tcp |-> Nil, srv |-> Nil, pods |-> Nil] : k \in DOMAIN m.basic}

-----------------------------------------------------------------------------
Init ==
    /\ req \in Requests
    /\ objects \in UNION {[S -> SUBSET Pods] : S \in SUBSET Objects[req.selector]}
    /\ items \in SUBSET PolicyItems
    /\ samples \in SUBSET {s \in Samples :
                            DOMAIN s.metric = Range(QueryGroupBy(req))}
    /\ done = FALSE
    /\ result = Nil

(* The query fails: the label selector does not parse, the Kubernetes API  *)
(* (objects, pods or policy resources) fails, or Prometheus fails.         *)
QueryFails ==
    /\ ~done
    /\ \/ SS!QueryKind(req.selector) \in {"k8s", "policy"}
       \/ ~req.skipStats
    /\ done' = TRUE
    /\ result' = [err |-> TRUE]
    /\ UNCHANGED <<req, objects, items, samples>>

Answer(rows) ==
    /\ ~done
    /\ done' = TRUE
    /\ result' = [err |-> FALSE, rows |-> rows]
    /\ UNCHANGED <<req, objects, items, samples>>

K8sQuery ==
    /\ SS!QueryKind(req.selector) = "k8s"
    /\ SS!getLabelSelector(req)
    /\ Answer(k8sResourceQuery(req, objects))

PolicyQuery ==
    /\ SS!QueryKind(req.selector) = "policy"
    /\ SS!getLabelSelector(req)
    /\ Answer(policyResourceQuery(req, items))

NonK8sQuery ==
    /\ SS!QueryKind(req.selector) = "nonK8s"
    /\ Answer(nonK8sResourceQuery(req))

Next == QueryFails \/ K8sQuery \/ PolicyQuery \/ NonK8sQuery

Spec == Init /\ [][Next]_vars

-----------------------------------------------------------------------------
PodError == [container : STRING, from : {"waiting", "terminated",
                                          "lastWaiting", "lastTerminated"}]

PodStatsOK(ps) ==
    /\ {ps.failed, ps.total, ps.inMesh} \subseteq Nat
    /\ \E names \in SUBSET {p.name : p \in Pods} :
          ps.errors \in [names -> Seq(PodError) \ {<<>>}]

(* Every row names a resource of the requested type; a pod appears in     *)
(* ErrorsByPod only with at least one error.                               *)
TypeOK ==
    /\ req \in Requests
    /\ done \in BOOLEAN
    /\ done => \/ result = [err |-> TRUE]
               \/ /\ result.err = FALSE
                  /\ \A row \in result.rows :
                        /\ row.resource.type = req.selector
                        /\ row.pods = Nil \/ PodStatsOK(row.pods)

(* The samples Prometheus returned that are about resource (ns, name),     *)
(* read from the label names rather than from their order: the name is     *)
(* the one label that is not a namespace label, or the namespace label     *)
(* when it is alone (the namespace resource type).                         *)
NsLabels == {"namespace", "dst_namespace"}

IsAbout(metric, ns, name) ==
    IF \E l \in DOMAIN metric : l \notin NsLabels
    THEN /\ \E l \in DOMAIN metric : l \notin NsLabels /\ metric[l] = name
         /\ \E l \in DOMAIN metric : l \in NsLabels /\ metric[l] = ns
    ELSE /\ ns = ""
         /\ \E l \in DOMAIN metric : metric[l] = name

SamplesAbout(res) ==
    {s \in QueryAnswer(req) : IsAbout(s.metric, res.namespace, res.name)}

RequestCount(S, class) ==
    MapThenSumSet(LAMBDA s : IF s.prom = "requests" /\ s.class = class
                             THEN s.value ELSE 0, S)

(* Each row's request stats are those Prometheus returned for that         *)
(* resource: success and failure counts summed over all of its series (a   *)
(* key has one series per tls value), and a resource with a non-zero count *)
(* never has its stats dropped.  This depends on metricToKey's assumption  *)
(* about the group-by order, on request counts accumulating, and for       *)
(* policy resources on the lower-cased kind matching the requested type.   *)
StatsJoined ==
    (done /\ ~result.err) =>
        \A row \in result.rows :
            LET S    == SamplesAbout(row.resource)
                succ == RequestCount(S, "success")
                fail == RequestCount(S, "failure")
            IN /\ succ + fail > 0 => row.stats # Nil
               /\ row.stats # Nil =>
                     row.stats.successCount = succ /\ row.stats.failureCount = fail

(* A k8s table has a row for every object that exists, or with a --to or  *)
(* --from filter for exactly the objects Prometheus returned request or    *)
(* latency stats for; each row's pod counts describe that object's pods:   *)
(* running and failed pods add up, meshed pods are running pods, and the   *)
(* pods listed with errors are those with an unready container in error.   *)
K8sTablePerObjects ==
    (done /\ ~result.err /\ SS!QueryKind(req.selector) = "k8s") =>
        LET objKeys == {[type |-> req.selector, namespace |-> o.namespace,
                         name |-> o.name] : o \in DOMAIN objects}
            hasStats(k) == \E s \in SamplesAbout(k) :
                              s.prom \in {"requests"} \cup Latencies
        IN /\ {row.resource : row \in result.rows} =
                 IF req.outbound = "none" THEN objKeys
                 ELSE {k \in objKeys : hasStats(k)}
           /\ \A row \in result.rows :
                 LET ps == objects[[namespace |-> row.resource.namespace,
                                    name |-> row.resource.name]]
                 IN /\ row.pods.total + row.pods.failed = Cardinality(ps)
                    /\ row.pods.inMesh <= row.pods.total
                    /\ DOMAIN row.pods.errors =
                         {p.name : p \in {q \in ps : \E c \in Range(q.containers)
                                             \cup Range(q.initContainers) :
                              ~c.ready /\ (c.waiting \/ c.terminated = "nonzero"
                                           \/ c.lastWaiting \/ c.lastTerminated)}}

====
