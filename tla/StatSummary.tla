---------------------------- MODULE StatSummary ----------------------------
(***************************************************************************)
(* The viz metrics API's StatSummary handler (stat_summary.go).  After     *)
(* validating the request it starts one goroutine per resource type to     *)
(* query, each of which sends its resourceResult on an unbuffered channel, *)
(* and then receives one result per type, returning at the first error.    *)
(*                                                                         *)
(* A query is abstracted to whether it fails and how: the label selector   *)
(* is parsed (getLabelSelector) by the k8s and policy queries only, so an  *)
(* invalid selector fails exactly those; the Kubernetes API and Prometheus *)
(* may fail any query that calls them.                                     *)
(***************************************************************************)
EXTENDS Naturals, Sequences, FiniteSets

CONSTANTS
    Requests,       \* the StatSummary requests a client may send
    AllTypes,       \* k8s.StatAllResourceTypes, as a sequence
    Nil             \* an absent Selector.Resource or Outbound resource

(* Resource type names from pkg/k8s.                                       *)
Service == "service"
All == "all"
Authority == "authority"
Server == "server"
ServerAuthorization == "serverauthorization"

VARIABLES
    req,        \* the request being served
    mpc,        \* the handler goroutine: "validate", "recv", or its response
    toQuery,    \* resourcesToQuery
    wpc,        \* wpc[i]: goroutine i: "idle", "query", "send", "done"
    result,     \* result[i]: "ok" or "err", the resourceResult it sends
    tables      \* types of the stat tables received so far, in order

vars == <<req, mpc, toQuery, wpc, result, tables>>

Workers == 1..Len(AllTypes)

ResourceTypes == {AllTypes[i] : i \in Workers} \cup {r.selector : r \in Requests}

-----------------------------------------------------------------------------
isPolicyResource(t) == t \in {Server, ServerAuthorization}

isNonK8sResourceQuery(t) == t = Authority

(* The early error responses of StatSummary, in the order it checks them.  *)
(* Outbound is [kind |-> "none" | "to" | "from", type |-> ...].            *)
ValidationError(r) ==
    \/ r.selector = Nil
    \/ r.outbound.kind = "from" /\ r.outbound.type = Service
    \/ r.outbound.kind = "from" /\ isPolicyResource(r.selector)
    \/ r.outbound.kind \in {"to", "from"} /\ r.outbound.type = All

ResourcesToQuery(r) == IF r.selector = All THEN AllTypes ELSE <<r.selector>>

(* The query a goroutine runs for resource type t.                         *)
QueryKind(t) ==
    IF isNonK8sResourceQuery(t) THEN "nonK8s"
    ELSE IF t = Service THEN "service"
    ELSE IF isPolicyResource(t) THEN "policy"
    ELSE "k8s"

(* labels.Parse of the request's label selector succeeds.                 *)
getLabelSelector(r) == r.selectorValid

(* The outcomes a query can have.  k8s and policy queries parse the label  *)
(* selector first and list objects; every query calls Prometheus unless    *)
(* SkipStats.                                                              *)
QueryOutcomes(kind, r) ==
    LET parses   == kind \in {"k8s", "policy"}
        mayFail  == parses \/ ~r.skipStats
    IN IF parses /\ ~getLabelSelector(r) THEN {"err"}
       ELSE IF mayFail THEN {"ok", "err"} ELSE {"ok"}

-----------------------------------------------------------------------------
Init ==
    /\ req \in Requests
    /\ mpc = "validate"
    /\ toQuery = <<>>
    /\ wpc = [i \in Workers |-> "idle"]
    /\ result = [i \in Workers |-> "ok"]
    /\ tables = <<>>

(* Mutant: one goroutine too few.                                          *)
ValidateOffByOne ==
    /\ mpc = "validate"
    /\ IF ValidationError(req)
       THEN /\ mpc' = "invalid"
            /\ UNCHANGED <<toQuery, wpc>>
       ELSE LET q == ResourcesToQuery(req)
            IN /\ toQuery' = q
               /\ wpc' = [i \in Workers |-> IF i < Len(q) THEN "query" ELSE "idle"]
               /\ mpc' = "recv"
    /\ UNCHANGED <<req, result, tables>>

(* Validation, then one goroutine per resource type.                       *)
Validate ==
    /\ mpc = "validate"
    /\ IF ValidationError(req)
       THEN /\ mpc' = "invalid"
            /\ UNCHANGED <<toQuery, wpc>>
       ELSE LET q == ResourcesToQuery(req)
            IN /\ toQuery' = q
               /\ wpc' = [i \in Workers |-> IF i <= Len(q) THEN "query" ELSE "idle"]
               /\ mpc' = "recv"
    /\ UNCHANGED <<req, result, tables>>

(* Goroutine i runs the query for its type.                               *)
Query(i) ==
    /\ wpc[i] = "query"
    /\ \E o \in QueryOutcomes(QueryKind(toQuery[i]), req) :
          /\ result' = [result EXCEPT ![i] = o]
          /\ wpc' = [wpc EXCEPT ![i] = "send"]
    /\ UNCHANGED <<req, mpc, toQuery, tables>>

(* Mutant: the goroutine's request keeps the original resource type, so   *)
(* its table is labelled with the requested type.                          *)
ReceiveUncloned(i) ==
    /\ mpc = "recv"
    /\ Len(tables) < Len(toQuery)
    /\ wpc[i] = "send"
    /\ wpc' = [wpc EXCEPT ![i] = "done"]
    /\ IF result[i] = "err"
       THEN /\ mpc' = "err"
            /\ UNCHANGED tables
       ELSE /\ tables' = Append(tables, req.selector)
            /\ UNCHANGED mpc
    /\ UNCHANGED <<req, toQuery, result>>

(* Mutant: a receive loop that does not look at result.err.               *)
ReceiveIgnoringErr(i) ==
    /\ mpc = "recv"
    /\ Len(tables) < Len(toQuery)
    /\ wpc[i] = "send"
    /\ wpc' = [wpc EXCEPT ![i] = "done"]
    /\ tables' = Append(tables, toQuery[i])
    /\ UNCHANGED <<req, mpc, toQuery, result>>

(* resultChan is unbuffered: a send completes only together with the       *)
(* handler's receive.  The handler returns at the first error.             *)
Receive(i) ==
    /\ mpc = "recv"
    /\ Len(tables) < Len(toQuery)
    /\ wpc[i] = "send"
    /\ wpc' = [wpc EXCEPT ![i] = "done"]
    /\ IF result[i] = "err"
       THEN /\ mpc' = "err"
            /\ UNCHANGED tables
       ELSE /\ tables' = Append(tables, toQuery[i])
            /\ UNCHANGED mpc
    /\ UNCHANGED <<req, toQuery, result>>

Respond ==
    /\ mpc = "recv"
    /\ Len(tables) = Len(toQuery)
    /\ mpc' = "ok"
    /\ UNCHANGED <<req, toQuery, wpc, result, tables>>

Next ==
    \/ Validate
    \/ \E i \in Workers : Query(i) \/ Receive(i)
    \/ Respond

(* The handler and every goroutine run whenever they can.                  *)
Fairness ==
    /\ WF_vars(Validate) /\ WF_vars(Respond)
    /\ \A i \in Workers : WF_vars(Query(i)) /\ WF_vars(Receive(i))

Spec == Init /\ [][Next]_vars /\ Fairness

-----------------------------------------------------------------------------
TypeOK ==
    /\ req \in Requests
    /\ mpc \in {"validate", "recv", "invalid", "err", "ok"}
    /\ toQuery \in Seq(ResourceTypes)
    /\ wpc \in [Workers -> {"idle", "query", "send", "done"}]
    /\ result \in [Workers -> {"ok", "err"}]
    /\ tables \in Seq({toQuery[i] : i \in DOMAIN toQuery})

(* An Ok response carries one stat table for every resource type queried,  *)
(* and none of the queries failed: the receive loop neither stops early    *)
(* nor hides an error behind a table.                                      *)
OkResponseComplete ==
    mpc = "ok" =>
        /\ Len(tables) = Len(toQuery)
        /\ {tables[i] : i \in DOMAIN tables} = {toQuery[i] : i \in DOMAIN toQuery}
        /\ \A i \in DOMAIN toQuery : result[i] = "ok"

(* StatSummary always answers: the handler returns a response or an error. *)
HandlerReturns == <>(mpc \in {"invalid", "err", "ok"})

(* Every query goroutine StatSummary starts eventually exits.              *)
NoGoroutineLeak == \A i \in Workers : wpc[i] = "send" ~> wpc[i] = "done"

=============================================================================
