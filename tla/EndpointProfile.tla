-------------------------- MODULE EndpointProfile --------------------------
(***************************************************************************)
(* GetProfile for an IP address or a pod's DNS name (server.go).  The IP   *)
(* is looked up among Services' cluster IPs (getSvcID), then among pods on *)
(* the host network by "hostIP:port", then among pods by pod IP            *)
(* (getPodByIP / getIndexedPods), skipping pods that no longer receive     *)
(* traffic; more than one candidate is a FailedPrecondition error.  A pod  *)
(* DNS name is looked up in the Service's Endpoints by hostname            *)
(* (getEndpointByHostname).                                                *)
(*                                                                         *)
(* With a pod, createAddress reads the protocol the pod's Servers give the *)
(* port (SetToServerProtocol), the endpoint-profile translator announces   *)
(* it, and, unless the port is annotated opaque, the stream subscribes to  *)
(* the ServerWatcher for later changes.  The ServerWatcher and the         *)
(* translator are not in this repository's sources and follow the          *)
(* specification: Subscribe delivers the current view; changes are         *)
(* delivered after the watcher lock is released; the translator writes a   *)
(* message only when the opaque flag changed.                              *)
(*                                                                         *)
(* The informer caches for Services, Endpoints and Pods are fixed for the  *)
(* duration of one call; the Servers selecting each pod may change.       *)
(***************************************************************************)
EXTENDS Naturals, FiniteSets

CONSTANTS
    Pods,           \* pods in the informer cache
    Phases,         \* pod phases: "Running", "Succeeded", "Failed", ...
    None,           \* no pod / no value
    Absent,         \* the translator has written nothing yet
    MaxChanges      \* bound on Server changes

ASSUME MaxChanges \in Nat

(* What the lookup needs of a pod: whether its status.podIP is the queried *)
(* IP, whether one of its containers exposes the queried port as a host    *)
(* port on that IP, its phase and deletionTimestamp, and its opaque-ports  *)
(* annotation: "unset", set without the port ("other"), listing it, or    *)
(* holding a port that does not parse ("invalid").                         *)
PodState == [podIP : BOOLEAN, hostPort : BOOLEAN, phase : Phases,
             deleting : BOOLEAN,
             annotation : {"unset", "other", "port", "invalid"}]

(* What a request names: an IP, or a hostname whose Endpoints address has  *)
(* a Pod target, no target, or does not exist.                             *)
Requests == [kind : {"ip"}] \cup
            [kind : {"hostname"}, target : Pods \cup {"noTarget", "noMatch"}]

VARIABLES
    pods,           \* pods[p]: the informer's view of pod p
    svcClaims,      \* number of Services whose cluster IP is the queried IP
    defaultOpaque,  \* the port is in the server's defaultOpaquePorts
    req,            \* the request
    serverOpaque,   \* serverOpaque[p]: a Server selects p's port as opaque
    pc,             \* the handler: "start", "announce", "subscribe",
                    \* "serving", "return", "done", "failed", "service"
    pod,            \* the resolved pod, or None
    addrOpaque,     \* address.OpaqueProtocol as createAddress computed it
    subscribed,     \* the translator is a ServerWatcher listener of pod
    delivery,       \* [to: still to call, val: opaque flag] of the watcher
    last,           \* the opaque flag of the last message written
    sent,           \* flips on every message written
    cancelled,      \* the stream's context is done
    changes         \* number of Server changes so far

vars == <<pods, svcClaims, defaultOpaque, req, serverOpaque, pc, pod,
          addrOpaque, subscribed, delivery, last, sent, cancelled, changes>>

-----------------------------------------------------------------------------
(* The Services indexed under the queried cluster IP: one is the answer,   *)
(* more than one a FailedPrecondition error.                               *)
getSvcID ==
    IF svcClaims > 1 THEN "conflict" ELSE IF svcClaims = 1 THEN "service" ELSE "none"

podReceivingTraffic(p) ==
    /\ pods[p].phase \notin {"Succeeded", "Failed"}
    /\ ~pods[p].deleting

(* Mutant: the index read without the traffic filter.                     *)
getIndexedPodsUnfiltered(index) ==
    {p \in Pods : IF index = "host" THEN pods[p].hostPort ELSE pods[p].podIP}

(* Pods of an index ("host" keyed by hostIP:port, "pod" keyed by pod IP)   *)
(* for the queried key that still receive traffic.                         *)
getIndexedPods(index) ==
    {p \in Pods : /\ IF index = "host" THEN pods[p].hostPort ELSE pods[p].podIP
                  /\ podReceivingTraffic(p)}

(* [err |-> FailedPrecondition?, pod |-> the pod or None]                  *)
getPodByIP ==
    LET host == getIndexedPods("host")
        net  == getIndexedPods("pod")
    IN IF Cardinality(host) = 1 THEN [err |-> FALSE, pod |-> CHOOSE p \in host : TRUE]
       ELSE IF Cardinality(host) > 1 THEN [err |-> TRUE, pod |-> None]
       ELSE IF Cardinality(net) = 1 THEN [err |-> FALSE, pod |-> CHOOSE p \in net : TRUE]
       ELSE IF Cardinality(net) > 1 THEN [err |-> TRUE, pod |-> None]
       ELSE [err |-> FALSE, pod |-> None]

(* The port is in the opaque ports that apply to p: its annotation when it *)
(* has one, the server's defaults otherwise (and for no pod).              *)
getAnnotatedOpaquePorts(p) ==
    IF p = None \/ pods[p].annotation = "unset"
    THEN defaultOpaque
    ELSE pods[p].annotation = "port"

(* After the lookup: an opaque-ports annotation that does not parse fails   *)
(* the call; createAddress reads the Servers for a pod; the translator is  *)
(* built next.                                                             *)
Resolved(p) ==
    IF p \in Pods /\ pods[p].annotation = "invalid"
    THEN pc' = "failed" /\ UNCHANGED <<pod, addrOpaque>>
    ELSE /\ pod' = p
         /\ addrOpaque' = (p \in Pods /\ serverOpaque[p])
         /\ pc' = "announce"

(* GetProfile, IP branch: getSvcID, then getPodByIP.                       *)
ResolveIP ==
    /\ pc = "start"
    /\ req.kind = "ip"
    /\ IF getSvcID = "conflict" THEN pc' = "failed" /\ UNCHANGED <<pod, addrOpaque>>
       ELSE IF getSvcID = "service" THEN pc' = "service" /\ UNCHANGED <<pod, addrOpaque>>
       ELSE IF getPodByIP.err THEN pc' = "failed" /\ UNCHANGED <<pod, addrOpaque>>
       ELSE Resolved(getPodByIP.pod)
    /\ UNCHANGED <<pods, svcClaims, defaultOpaque, req, serverOpaque, subscribed,
                   delivery, last, sent, cancelled, changes>>

(* Mutant: no error when no address has the hostname.                     *)
ResolveHostnameNoMatchOk ==
    /\ pc = "start"
    /\ req.kind = "hostname"
    /\ Resolved(IF req.target = "noTarget" THEN None ELSE req.target)
    /\ UNCHANGED <<pods, svcClaims, defaultOpaque, req, serverOpaque, subscribed,
                   delivery, last, sent, cancelled, changes>>

(* GetProfile, pod DNS name branch: getEndpointByHostname.                 *)
ResolveHostname ==
    /\ pc = "start"
    /\ req.kind = "hostname"
    /\ IF req.target = "noMatch" THEN pc' = "failed" /\ UNCHANGED <<pod, addrOpaque>>
       ELSE Resolved(IF req.target = "noTarget" THEN None ELSE req.target)
    /\ UNCHANGED <<pods, svcClaims, defaultOpaque, req, serverOpaque, subscribed,
                   delivery, last, sent, cancelled, changes>>

(* The endpoint-profile translator's UpdateProtocol: write a message when  *)
(* the flag differs from the last one written.                             *)
UpdateProtocol(v) ==
    IF v # last THEN last' = v /\ sent' = ~sent ELSE UNCHANGED <<last, sent>>

(* An annotated-opaque port is announced opaque with no subscription; no   *)
(* pod is announced not opaque; otherwise the address's protocol is        *)
(* announced and the stream goes on to subscribe.                          *)
Announce ==
    /\ pc = "announce"
    /\ IF getAnnotatedOpaquePorts(pod)
       THEN UpdateProtocol(TRUE) /\ pc' = "serving"
       ELSE IF pod = None
       THEN UpdateProtocol(FALSE) /\ pc' = "serving"
       ELSE UpdateProtocol(addrOpaque) /\ pc' = "subscribe"
    /\ UNCHANGED <<pods, svcClaims, defaultOpaque, req, serverOpaque, pod,
                   addrOpaque, subscribed, delivery, cancelled, changes>>

Subscribe ==
    /\ pc = "subscribe"
    /\ subscribed' = TRUE
    /\ UpdateProtocol(serverOpaque[pod])
    /\ pc' = "serving"
    /\ UNCHANGED <<pods, svcClaims, defaultOpaque, req, serverOpaque, pod,
                   addrOpaque, delivery, cancelled, changes>>

Serve ==
    /\ pc = "serving"
    /\ cancelled
    /\ pc' = "return"
    /\ UNCHANGED <<pods, svcClaims, defaultOpaque, req, serverOpaque, pod,
                   addrOpaque, subscribed, delivery, last, sent, cancelled, changes>>

(* Mutant: the handler returns without the deferred Unsubscribe.          *)
ReturnWithoutUnsubscribe ==
    /\ pc = "return"
    /\ pc' = "done"
    /\ UNCHANGED <<pods, svcClaims, defaultOpaque, req, serverOpaque, pod,
                   addrOpaque, subscribed, delivery, last, sent, cancelled, changes>>

(* The deferred s.servers.Unsubscribe, then return.                        *)
Return ==
    /\ pc = "return"
    /\ subscribed' = FALSE
    /\ pc' = "done"
    /\ UNCHANGED <<pods, svcClaims, defaultOpaque, req, serverOpaque, pod,
                   addrOpaque, delivery, last, sent, cancelled, changes>>

Cancel ==
    /\ ~cancelled
    /\ pc \notin {"done", "failed", "service"}
    /\ cancelled' = TRUE
    /\ UNCHANGED <<pods, svcClaims, defaultOpaque, req, serverOpaque, pc, pod,
                   addrOpaque, subscribed, delivery, last, sent, changes>>

(* A Server selecting p's port is created, changed or deleted, changing    *)
(* the protocol; the watcher then calls the listeners it had.              *)
ServerChange(p) ==
    /\ changes < MaxChanges
    /\ delivery.to = FALSE
    /\ serverOpaque' = [serverOpaque EXCEPT ![p] = ~@]
    /\ delivery' = [to |-> subscribed /\ pod = p, val |-> ~serverOpaque[p]]
    /\ changes' = changes + 1
    /\ UNCHANGED <<pods, svcClaims, defaultOpaque, req, pc, pod, addrOpaque,
                   subscribed, last, sent, cancelled>>

Deliver ==
    /\ delivery.to
    /\ UpdateProtocol(delivery.val)
    /\ delivery' = [delivery EXCEPT !.to = FALSE]
    /\ UNCHANGED <<pods, svcClaims, defaultOpaque, req, serverOpaque, pc, pod,
                   addrOpaque, subscribed, cancelled, changes>>

Init ==
    /\ pods \in [Pods -> PodState]
    /\ svcClaims \in 0..2
    /\ defaultOpaque \in BOOLEAN
    /\ req \in Requests
    /\ serverOpaque \in [Pods -> BOOLEAN]
    /\ pc = "start"
    /\ pod = None
    /\ addrOpaque = FALSE
    /\ subscribed = FALSE
    /\ delivery = [to |-> FALSE, val |-> FALSE]
    /\ last = Absent
    /\ sent = FALSE
    /\ cancelled = FALSE
    /\ changes = 0

HandlerStep ==
    \/ ResolveIP \/ ResolveHostname \/ Announce \/ Subscribe \/ Serve \/ Return

Next ==
    \/ HandlerStep
    \/ Cancel
    \/ \E p \in Pods : ServerChange(p)
    \/ Deliver

Spec == Init /\ [][Next]_vars /\ WF_vars(HandlerStep) /\ WF_vars(Deliver)

-----------------------------------------------------------------------------
TypeOK ==
    /\ pods \in [Pods -> PodState]
    /\ svcClaims \in 0..2
    /\ defaultOpaque \in BOOLEAN
    /\ req \in Requests
    /\ serverOpaque \in [Pods -> BOOLEAN]
    /\ pc \in {"start", "announce", "subscribe", "serving", "return", "done",
               "failed", "service"}
    /\ pod \in Pods \cup {None}
    /\ addrOpaque \in BOOLEAN
    /\ subscribed \in BOOLEAN
    /\ delivery \in [to : BOOLEAN, val : BOOLEAN]
    /\ last \in BOOLEAN \cup {Absent}
    /\ sent \in BOOLEAN
    /\ cancelled \in BOOLEAN
    /\ changes \in 0..MaxChanges

(* Pods that, by the data model's rule, may receive traffic, and those of  *)
(* them that claim the queried hostIP:port or pod IP.                      *)
Live(p) == pods[p].phase \notin {"Succeeded", "Failed"} /\ ~pods[p].deleting
HostClaims == {p \in Pods : pods[p].hostPort /\ Live(p)}
NetClaims == {p \in Pods : pods[p].podIP /\ Live(p)}
Ambiguous == \/ Cardinality(HostClaims) > 1
             \/ HostClaims = {} /\ Cardinality(NetClaims) > 1

(* getSvcID and getPodByIP never pick arbitrarily: an IP claimed by one    *)
(* Service goes to the Service's profile; one claimed by several Services, *)
(* or ambiguously by live pods, fails; otherwise the pod the stream serves *)
(* is the only live pod on hostIP:port, or, when there is none, the only   *)
(* live pod with that pod IP, and no pod when neither exists.  Terminated  *)
(* pods keep their IPs in the informer, so the filter decides this.        *)
LookupNeverPicksArbitrarily ==
    (req.kind = "ip" /\ pc # "start") =>
        /\ pc = "service" <=> svcClaims = 1
        /\ (svcClaims > 1 \/ (svcClaims = 0 /\ Ambiguous)) => pc = "failed"
        /\ pc \in {"announce", "subscribe", "serving", "return", "done"} =>
              IF HostClaims # {} THEN HostClaims = {pod}
              ELSE IF NetClaims # {} THEN NetClaims = {pod}
              ELSE pod = None

-----------------------------------------------------------------------------
(* The flag the stream should show: ProtocolFollowsServers' current one.  *)
ExpectedOpaque == getAnnotatedOpaquePorts(pod) \/ (pod # None /\ serverOpaque[pod])

(* The handler's pc as a phase of the feed.  A lookup error, and an IP     *)
(* handed to the service-name path, end this stream before it writes; a   *)
(* returned handler is closed once no Server change is still to be        *)
(* delivered to its translator.                                            *)
Phase ==
    CASE pc \in {"start", "announce", "subscribe"}  -> "subscribing"
      [] pc = "serving"                             -> "serving"
      [] pc \in {"failed", "service"}               -> "closed"
      [] pc = "done" /\ ~delivery.to                -> "closed"
      [] OTHER                                      -> "closing"

Feed == INSTANCE ProfileFeed WITH
    Handlers  <- {"stream"},
    Msgs      <- BOOLEAN,
    want      <- [h \in {"stream"} |-> ExpectedOpaque],
    shown     <- [h \in {"stream"} |-> last],
    phase     <- [h \in {"stream"} |-> Phase],
    cancelled <- [h \in {"stream"} |-> cancelled]

(* GetProfile on an IP or a pod DNS name implements the profile feed: it   *)
(* never writes the same flag twice in a row (UpdateProtocol), once       *)
(* serving it comes to show the current protocol whatever Servers change, *)
(* a cancelled stream returns, and after the deferred Unsubscribe nothing *)
(* reaches the stream but a change the watcher had already captured.      *)
GetProfileRefinesFeed == Feed!Spec

(* The specification of GetProfile: an IP that maps to neither a Service   *)
(* nor a pod gets a single profile with opaque=false.                      *)
NoPodNotOpaque ==
    (req.kind = "ip" /\ pc = "serving" /\ pod = None) => last = FALSE

=============================================================================
