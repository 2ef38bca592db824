---------------------------- MODULE TrafficSplit ----------------------------
(***************************************************************************)
(* StatSummary's service query (serviceResourceQuery, stat_summary.go):    *)
(* getServiceMetrics keys the Prometheus answer by destination service,    *)
(* the ServiceProfile's dstOverrides add traffic-split weights keyed by    *)
(* dstFromAuthority, one row is built per key in Go's map iteration order, *)
(* and sortTrafficSplitRows sorts the rows "in order to have a consistent  *)
(* order".                                                                 *)
(*                                                                         *)
(* Strings are sequences of letters (small naturals; Dot is '.') so that   *)
(* strings.Split, concatenation and Go's byte-wise string order are        *)
(* modelled by what they do.  sort.Slice on at most 12 elements is an      *)
(* insertion sort (at most 6 rows here, where older Go releases' shell     *)
(* pass does nothing either).  Only request counts are sampled; TCP stats  *)
(* follow the same keys.                                                   *)
(***************************************************************************)
EXTENDS Naturals, Sequences, SequencesExt, FiniteSets, TLC

CONSTANTS
    Requests,       \* [name, namespace, skipStats]: name <<>> for all services
    Samples,        \* request samples: [prom, metric, class, tls, value,
                    \*   authority |-> [service, namespace] the traffic was sent to]
    Profiles,       \* ServiceProfile Get results: [status \in {"found",
                    \*   "notFound", "error"}, dstOverrides: Seq([authority, weight])]
    ClusterDomain,  \* the cluster domain, as a string
    Dot,            \* the letter '.'
    Svc,            \* the string "svc"
    Nil

(* regexAny, ".+" *)
RegexAny == <<46, 43>>

VARIABLES
    req,        \* the request (selector type "service")
    samples,    \* the samples Prometheus holds
    sp,         \* what the ServiceProfile lister returns
    done,       \* the query has run
    result      \* [err |-> TRUE] or [err |-> FALSE, rows |-> sequence of rows]

vars == <<req, samples, sp, done, result>>

(* processPrometheusMetrics and metricToKey are StatTables'.               *)
LOCAL ST == INSTANCE StatTables WITH
    Requests <- {}, Objects <- Nil, Pods <- {}, PolicyItems <- {},
    GroupBy <- Nil, DstGroupBy <- Nil, ToLower <- Nil,
    req <- Nil, objects <- Nil, items <- {}, done <- FALSE, result <- Nil

-----------------------------------------------------------------------------
(* strings.Split(s, ".").                                                  *)
RECURSIVE SplitDot(_)
SplitDot(s) ==
    LET i == SelectInSeq(s, LAMBDA c : c = Dot)
    IN IF i = 0 THEN <<s>>
       ELSE <<SubSeq(s, 1, i - 1)>> \o SplitDot(SubSeq(s, i + 1, Len(s)))

(* Go's s1 < s2 on strings: byte-wise lexicographic order.                 *)
RECURSIVE StrLess(_, _)
StrLess(x, y) ==
    IF y = <<>> THEN FALSE
    ELSE IF x = <<>> THEN TRUE
    ELSE IF Head(x) # Head(y) THEN Head(x) < Head(y)
    ELSE StrLess(Tail(x), Tail(y))

(* Mutant: the "svc" label is looked for one label too early.              *)
dstFromAuthorityShifted(authority) ==
    LET labels == SplitDot(authority)
    IN IF Len(labels) >= 3 /\ labels[2] = Svc THEN labels[1] ELSE authority

(* name.namespace.svc.suffix gives name; anything else is kept whole.      *)
dstFromAuthority(authority) ==
    LET labels == SplitDot(authority)
    IN IF Len(labels) >= 3 /\ labels[3] = Svc THEN labels[1] ELSE authority

buildServiceRequestLabels(r) == <<"dst_namespace", "dst_service">>

(* The authority label regex "<service>.<namespace>.svc.<domain>", with    *)
(* ".+" for the service when none is named.                                *)
AuthorityMatches(a, service, namespace) ==
    a.namespace = namespace /\ (service = RegexAny \/ a.service = service)

(* Request stats by dstKey: the destination service is the leaf, and the   *)
(* apex is the requested service, or the leaf itself for all services.     *)
getServiceMetrics(r) ==
    LET service == IF r.name = <<>> THEN RegexAny ELSE r.name
        groupBy == buildServiceRequestLabels(r)
        answer  == {s \in samples : AuthorityMatches(s.authority, service, r.namespace)}
        basic   == ST!processPrometheusMetrics([selector |-> "service"], answer, groupBy)
                     .basic
        dk(k)   == [namespace |-> k.namespace, dst |-> k.name,
                    service |-> IF service = RegexAny THEN k.name ELSE service]
    IN [d \in {dk(k) : k \in DOMAIN basic} |->
          basic[CHOOSE k \in DOMAIN basic : dk(k) = d]]

(* Every key with stats gets weight ""; each override of a ServiceProfile  *)
(* that was found then sets the weight of its leaf, in order.              *)
Weights(r, dstBasic, profile) ==
    LET init == [k \in DOMAIN dstBasic |-> <<>>]
        set(w, o) == ([namespace |-> r.namespace, service |-> r.name,
                       dst |-> dstFromAuthority(o.authority)] :> o.weight) @@ w
    IN IF profile.status # "found" THEN init
       ELSE FoldLeft(set, init, profile.dstOverrides)

(* Mutant: TrafficSplitStats set whatever the weight.                      *)
RowAlwaysSplit(k, weight, dstBasic) ==
    [service |-> k.service, namespace |-> k.namespace,
     stats |-> ST!Lookup(dstBasic, k),
     ts |-> [apex |-> k.service, leaf |-> k.dst, weight |-> weight]]

Row(k, weight, dstBasic) ==
    [service   |-> k.service,
     namespace |-> k.namespace,
     stats     |-> ST!Lookup(dstBasic, k),
     ts        |-> IF weight # <<>>
                   THEN [apex |-> k.service, leaf |-> k.dst, weight |-> weight]
                   ELSE Nil]

TsLess(a, b) ==
    a.ts # Nil /\ b.ts # Nil /\ StrLess(a.ts.apex \o a.ts.leaf, b.ts.apex \o b.ts.leaf)

(* sort.Slice's insertion sort: row i sinks while less(row, previous).     *)
RECURSIVE Sink(_, _)
Sink(s, j) ==
    IF j > 1 /\ TsLess(s[j], s[j - 1])
    THEN Sink([s EXCEPT ![j] = s[j - 1], ![j - 1] = s[j]], j - 1)
    ELSE s

sortTrafficSplitRows(rows) ==
    FoldLeft(LAMBDA s, i : Sink(s, i), rows, [i \in 1..(Len(rows) - 1) |-> i + 1])

-----------------------------------------------------------------------------
Init ==
    /\ req \in Requests
    /\ samples \in SUBSET Samples
    /\ sp \in IF req.name = <<>> THEN {p \in Profiles : p.status = "notFound"}
             ELSE Profiles
    /\ done = FALSE
    /\ result = Nil

(* Prometheus fails: the query returns its error.                          *)
QueryFails ==
    /\ ~done /\ ~req.skipStats
    /\ done' = TRUE
    /\ result' = [err |-> TRUE]
    /\ UNCHANGED <<req, samples, sp>>

(* The rows are built in the map's iteration order, which Go randomises.  *)
serviceResourceQuery ==
    /\ ~done
    /\ LET dstBasic == IF req.skipStats THEN <<>> ELSE getServiceMetrics(req)
           weights  == Weights(req, dstBasic, sp)
       IN \E order \in SetToSeqs(DOMAIN weights) :
             result' = [err |-> FALSE, rows |-> sortTrafficSplitRows(
                          [i \in DOMAIN order |-> Row(order[i], weights[order[i]], dstBasic)])]
    /\ done' = TRUE
    /\ UNCHANGED <<req, samples, sp>>

Next == QueryFails \/ serviceResourceQuery

Spec == Init /\ [][Next]_vars

-----------------------------------------------------------------------------
Str == Seq(Nat)

RowType ==
    [service : Str, namespace : Str,
     stats : [successCount : Nat, failureCount : Nat, latencyMsP50 : Nat,
              latencyMsP95 : Nat, latencyMsP99 : Nat] \cup {Nil},
     ts : [apex : Str, leaf : Str, weight : Str \ {<<>>}] \cup {Nil}]

(* Rows are well formed; a row carries TrafficSplitStats only with a      *)
(* weight.                                                                  *)
TypeOK ==
    /\ req \in Requests
    /\ done \in BOOLEAN
    /\ done => result = [err |-> TRUE]
               \/ (result.err = FALSE /\ result.rows \in Seq(RowType))

(* The concatenated key sortTrafficSplitRows orders rows by.               *)
SortKey(row) == row.ts.apex \o row.ts.leaf

TsRowsInOrder(rows) ==
    \A i, j \in DOMAIN rows :
        (i < j /\ rows[i].ts # Nil /\ rows[j].ts # Nil)
            => ~StrLess(SortKey(rows[j]), SortKey(rows[i]))

(* The samples Prometheus returned for traffic to the requested service    *)
(* that reached leaf.                                                      *)
LeafSamples(leaf) ==
    IF req.skipStats THEN {}
    ELSE {s \in samples : /\ s.authority = [service |-> req.name, namespace |-> req.namespace]
                          /\ s.metric = [dst_namespace |-> req.namespace, dst_service |-> leaf]}

(* For a named service whose ServiceProfile has dstOverrides, every leaf   *)
(* an override names (as the MC formatted its authority) has exactly one   *)
(* traffic-split row: it carries the weight of the leaf's last override    *)
(* and the request counts Prometheus returned for traffic to that leaf, so *)
(* a leaf's stats and its weight are never split over two rows.            *)
LeafRowsJoined ==
    (done /\ ~result.err /\ sp.status = "found") =>
        \A o \in Range(sp.dstOverrides) :
            LET rows   == {i \in DOMAIN result.rows :
                             result.rows[i].ts # Nil /\ result.rows[i].ts.leaf = o.leaf}
                lastW  == sp.dstOverrides[Max({i \in DOMAIN sp.dstOverrides :
                                              sp.dstOverrides[i].leaf = o.leaf})].weight
                S      == LeafSamples(o.leaf)
                succ   == MapThenSumSet(LAMBDA s : IF s.class = "success" THEN s.value ELSE 0, S)
            IN /\ Cardinality(rows) = 1
               /\ \A i \in rows :
                     /\ result.rows[i].ts.weight = lastW
                     /\ IF S = {} THEN result.rows[i].stats = Nil
                        ELSE result.rows[i].stats.successCount = succ

TrafficSplitRowsSorted ==
    (done /\ ~result.err) => TsRowsInOrder(result.rows)

====
