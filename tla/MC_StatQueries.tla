--------------------------- MODULE MC_StatQueries ---------------------------
(* One stat query goroutine.  Other queries: deployments and namespaces    *)
(* (k8s), servers (policy) and authorities (non-Kubernetes), with and      *)
(* without a --to or --from filter, stats and TCP stats on or off; the     *)
(* samples include two tls series of one resource, a zero count, latency   *)
(* and TCP samples, and samples grouped by the destination labels of       *)
(* --from.  The service query: apex "w" in namespace "n" and all services, *)
(* traffic to leaves "a" and "b" and to "w" itself, and ServiceProfile     *)
(* results: not found, failing, or up to two dstOverrides naming "a", "b"  *)
(* or an authority that is not a service's ("x.y").  Service strings are   *)
(* ASCII sequences.                                                        *)
EXTENDS StatQueries, Sequences

CONSTANTS NilValue

Types == {"deployment", "namespace", "server", "authority"}

MCResourceRequests ==
    {r \in [selector : Types, outbound : {"none", "to", "from"},
            skipStats : BOOLEAN, tcpStats : BOOLEAN, selectorValid : {TRUE}] :
        ~(r.outbound = "from" /\ r.selector = "server")}

MCObjects ==
    [t \in Types |->
        CASE t = "deployment" -> {[namespace |-> "ns1", name |-> "d1"],
                                  [namespace |-> "ns1", name |-> "d2"]}
          [] t = "namespace"  -> {[namespace |-> "", name |-> "ns1"]}
          [] OTHER            -> {}]

Ready   == [name |-> "app", ready |-> TRUE, waiting |-> FALSE,
            terminated |-> "none", lastWaiting |-> FALSE, lastTerminated |-> FALSE]
Crashed == [name |-> "app", ready |-> FALSE, waiting |-> TRUE,
            terminated |-> "none", lastWaiting |-> FALSE, lastTerminated |-> TRUE]
Exited  == [name |-> "init", ready |-> FALSE, waiting |-> FALSE,
            terminated |-> "zero", lastWaiting |-> FALSE, lastTerminated |-> FALSE]

MCPods ==
    {[name |-> "p1", phase |-> "Running", meshed |-> TRUE,
      containers |-> <<Crashed>>, initContainers |-> <<Exited>>],
     [name |-> "p2", phase |-> "Failed", meshed |-> TRUE,
      containers |-> <<Ready>>, initContainers |-> <<>>],
     [name |-> "p3", phase |-> "Running", meshed |-> FALSE,
      containers |-> <<Ready>>, initContainers |-> <<Exited>>]}

MCPolicyItems ==
    {[namespace |-> "ns1", name |-> "srv1", kind |-> "Server"],
     [namespace |-> "ns1", name |-> "saz1", kind |-> "ServerAuthorization"]}

MCToLower == [k \in {"Server", "ServerAuthorization"} |->
                 IF k = "Server" THEN "server" ELSE "serverauthorization"]

MCGroupBy == [t \in Types |->
                 IF t = "namespace" THEN <<"namespace">> ELSE <<"namespace", t>>]
MCDstGroupBy == [t \in Types |->
                 IF t = "namespace" THEN <<"dst_namespace">>
                 ELSE <<"dst_namespace", "dst_" \o t>>]

ResSample(prom, metric, class, tls, value) ==
    [prom |-> prom, metric |-> metric, class |-> class, tls |-> tls, value |-> value]

Dep(n)  == [namespace |-> "ns1", deployment |-> n]
DstD(n) == [dst_namespace |-> "ns1", dst_deployment |-> n]

MCResourceSamples ==
    {ResSample("requests", Dep("d1"), "success", "true", 1),
     ResSample("requests", Dep("d1"), "success", "false", 1),
     ResSample("requests", Dep("d1"), "failure", "true", 1),
     ResSample("latencyP50", Dep("d1"), "", "", 2),
     ResSample("tcpConnections", Dep("d1"), "", "", 1),
     ResSample("requests", Dep("d2"), "success", "true", 0),
     ResSample("requests", DstD("d1"), "success", "true", 1),
     ResSample("requests", DstD("d2"), "failure", "false", 1),
     ResSample("requests", [namespace |-> "ns1"], "success", "true", 1),
     ResSample("requests", [dst_namespace |-> "ns1"], "failure", "true", 1),
     ResSample("requests", [namespace |-> "ns1", server |-> "srv1"], "success", "true", 1),
     ResSample("allowedRequests", [namespace |-> "ns1", server |-> "srv1"], "", "", 1),
     ResSample("requests", [namespace |-> "ns1", authority |-> "web"], "success", "true", 1),
     ResSample("requests", [namespace |-> "ns1", authority |-> "web"], "success", "false", 0)}

D == 46
MCSvc == <<115, 118, 99>>
MCDomain == <<99, 108>>
NsN == <<110>>
W == <<119>>
LeafA == <<97>>
LeafB == <<98>>

Auth(name) == name \o <<D>> \o NsN \o <<D>> \o MCSvc \o <<D>> \o MCDomain

MCServiceRequests == [name : {W, <<>>}, namespace : {NsN}, skipStats : BOOLEAN]

SvcSample(authSvc, dst, value) ==
    [prom |-> "requests", class |-> "success", tls |-> "true", value |-> value,
     metric |-> [dst_namespace |-> NsN, dst_service |-> dst],
     authority |-> [service |-> authSvc, namespace |-> NsN]]

MCServiceSamples == {SvcSample(W, LeafA, 1), SvcSample(W, LeafB, 2), SvcSample(W, W, 1),
              SvcSample(LeafB, LeafB, 1)}

(* Overrides: the weight, and the leaf the authority was formatted for.    *)
Override(auth, weight, leaf) == [authority |-> auth, weight |-> weight, leaf |-> leaf]
XY == <<120, D, 121>>
Overrides == {Override(Auth(LeafA), <<49>>, LeafA), Override(Auth(LeafB), <<50>>, LeafB),
              Override(Auth(LeafA), <<51>>, LeafA), Override(XY, <<49>>, XY)}

MCProfiles ==
    [status : {"notFound", "error"}, dstOverrides : {<<>>}] \cup
    [status : {"found"},
     dstOverrides : {<<o>> : o \in Overrides} \cup {<<o1, o2>> : o1, o2 \in Overrides}]

====
