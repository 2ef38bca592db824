---------------------------- MODULE GetEndpoints ----------------------------
(***************************************************************************)
(* The Destination Get stream (server.go, Get): parse the path, subscribe  *)
(* an endpoint translator to the EndpointsWatcher, defer the Unsubscribe,  *)
(* and block until the server shuts down or the client cancels.            *)
(*                                                                         *)
(* The EndpointsWatcher and the endpoint translator are not in this        *)
(* repository; they are modelled from the specification (sections 4.1,    *)
(* 4.2 and scenario 1): the watcher keeps one service's view, delivers a   *)
(* snapshot on Subscribe and every change to each listener under its      *)
(* lock, and the translator turns them into Add, Remove and NoEndpoints    *)
(* messages on the stream.  The client applies the messages in order.     *)
(* Parsing is abstracted to its outcome (see Authority).                   *)
(***************************************************************************)
EXTENDS Naturals, Sequences, FiniteSets

CONSTANTS
    Handlers,           \* concurrent Get streams
    Addrs,              \* endpoint addresses of the service
    SubscribeMayFail,   \* whether Subscribe may return an error
    MaxChanges          \* bound on cluster changes

VARIABLES
    svc,        \* the Service exists
    addrs,      \* the Service's ready endpoint addresses
    listeners,  \* handlers whose translator is subscribed
    pc,         \* pc[h]: "start", "subscribe", "wait", "return", "done"
    cancelled,  \* cancelled[h]: the client cancelled stream h
    shutdown,   \* the server's shutdown channel is closed
    out,        \* out[h]: messages sent on stream h not yet read
    client,     \* client[h]: the endpoint set the client built from them
    changes     \* cluster changes so far

vars == <<svc, addrs, listeners, pc, cancelled, shutdown, out, client, changes>>

Msg(type, as, exists) == [type |-> type, addrs |-> as, exists |-> exists]

(* Add and Remove carry addresses; NoEndpoints carries none.               *)
Messages ==
    {Msg(t, as, TRUE) : t \in {"add", "remove"}, as \in SUBSET Addrs \ {{}}}
    \cup {Msg("noEndpoints", {}, e) : e \in BOOLEAN}

-----------------------------------------------------------------------------
(* Mutant: the snapshot is an Add even with no endpoints.                  *)
SnapshotAlwaysAdd == Msg("add", addrs, TRUE)

(* The view a subscriber is sent first (spec 4.1): the addresses, or      *)
(* NoEndpoints with whether the Service exists.                            *)
Snapshot ==
    IF addrs # {} THEN Msg("add", addrs, TRUE)
    ELSE Msg("noEndpoints", {}, svc)

(* The watcher pushes m to every subscribed translator, which sends it.    *)
Push(m) == out' = [h \in Handlers |-> IF h \in listeners THEN Append(out[h], m) ELSE out[h]]

Init ==
    /\ svc \in BOOLEAN
    /\ addrs \in IF svc THEN SUBSET Addrs ELSE {{}}
    /\ listeners = {}
    /\ pc = [h \in Handlers |-> "start"]
    /\ cancelled = [h \in Handlers |-> FALSE]
    /\ shutdown = FALSE
    /\ out = [h \in Handlers |-> <<>>]
    /\ client = [h \in Handlers |-> {}]
    /\ changes = 0

(* getHostAndPort, the IP check and parseK8sServiceName: each failure     *)
(* returns InvalidArgument before anything is subscribed.                  *)
Parse(h) ==
    /\ pc[h] = "start"
    /\ pc' = [pc EXCEPT ![h] = "subscribe"]
    /\ UNCHANGED <<svc, addrs, listeners, cancelled, shutdown, out, client, changes>>

ParseFails(h) ==
    /\ pc[h] = "start"
    /\ pc' = [pc EXCEPT ![h] = "done"]
    /\ UNCHANGED <<svc, addrs, listeners, cancelled, shutdown, out, client, changes>>

(* Mutant: the subscriber is registered but sent no snapshot.              *)
SubscribeNoSnapshot(h) ==
    /\ pc[h] = "subscribe"
    /\ listeners' = listeners \cup {h}
    /\ pc' = [pc EXCEPT ![h] = "wait"]
    /\ UNCHANGED <<svc, addrs, cancelled, shutdown, out, client, changes>>

(* endpoints.Subscribe: the translator is registered and sent the current  *)
(* view under the watcher's lock; then Unsubscribe is deferred.            *)
Subscribe(h) ==
    /\ pc[h] = "subscribe"
    /\ listeners' = listeners \cup {h}
    /\ out' = [out EXCEPT ![h] = Append(@, Snapshot)]
    /\ pc' = [pc EXCEPT ![h] = "wait"]
    /\ UNCHANGED <<svc, addrs, cancelled, shutdown, client, changes>>

(* Subscribe fails (InvalidService or another error): Get returns it;     *)
(* nothing was registered and no Unsubscribe is deferred.                  *)
SubscribeFails(h) ==
    /\ SubscribeMayFail
    /\ pc[h] = "subscribe"
    /\ pc' = [pc EXCEPT ![h] = "done"]
    /\ UNCHANGED <<svc, addrs, listeners, cancelled, shutdown, out, client, changes>>

(* Mutant: the select waits for shutdown only.                             *)
ServeOnShutdown(h) ==
    /\ pc[h] = "wait"
    /\ shutdown
    /\ pc' = [pc EXCEPT ![h] = "return"]
    /\ UNCHANGED <<svc, addrs, listeners, cancelled, shutdown, out, client, changes>>

(* select { case <-s.shutdown: case <-stream.Context().Done(): }           *)
Serve(h) ==
    /\ pc[h] = "wait"
    /\ shutdown \/ cancelled[h]
    /\ pc' = [pc EXCEPT ![h] = "return"]
    /\ UNCHANGED <<svc, addrs, listeners, cancelled, shutdown, out, client, changes>>

(* The deferred Unsubscribe runs as Get returns nil.                       *)
Return(h) ==
    /\ pc[h] = "return"
    /\ listeners' = listeners \ {h}
    /\ pc' = [pc EXCEPT ![h] = "done"]
    /\ UNCHANGED <<svc, addrs, cancelled, shutdown, out, client, changes>>

Cancel(h) ==
    /\ ~cancelled[h]
    /\ cancelled' = [cancelled EXCEPT ![h] = TRUE]
    /\ UNCHANGED <<svc, addrs, listeners, pc, shutdown, out, client, changes>>

Shutdown ==
    /\ ~shutdown
    /\ shutdown' = TRUE
    /\ UNCHANGED <<svc, addrs, listeners, pc, cancelled, out, client, changes>>

-----------------------------------------------------------------------------
(* Cluster changes, each delivered by the watcher to every listener.      *)
Change(svc2, addrs2, m) ==
    /\ changes < MaxChanges
    /\ changes' = changes + 1
    /\ svc' = svc2 /\ addrs' = addrs2
    /\ Push(m)
    /\ UNCHANGED <<listeners, pc, cancelled, shutdown, client>>

AddEndpoint(a) ==
    /\ svc /\ a \notin addrs
    /\ Change(TRUE, addrs \cup {a}, Msg("add", {a}, TRUE))

(* Removing the last endpoint is a scale to zero: NoEndpoints{exists}.     *)
RemoveEndpoint(a) ==
    /\ a \in addrs
    /\ Change(TRUE, addrs \ {a},
              IF addrs = {a} THEN Msg("noEndpoints", {}, TRUE)
              ELSE Msg("remove", {a}, TRUE))

DeleteService ==
    /\ svc
    /\ Change(FALSE, {}, Msg("noEndpoints", {}, FALSE))

CreateService ==
    /\ ~svc
    /\ Change(TRUE, {}, Msg("noEndpoints", {}, TRUE))

(* The client reads the next message of stream h and applies it.           *)
Receive(h) ==
    /\ out[h] # <<>>
    /\ LET m == Head(out[h])
       IN client' = [client EXCEPT ![h] =
                       CASE m.type = "add"    -> @ \cup m.addrs
                         [] m.type = "remove" -> @ \ m.addrs
                         [] OTHER             -> {}]
    /\ out' = [out EXCEPT ![h] = Tail(@)]
    /\ UNCHANGED <<svc, addrs, listeners, pc, cancelled, shutdown, changes>>

HandlerStep(h) ==
    \/ Parse(h) \/ ParseFails(h) \/ Subscribe(h) \/ SubscribeFails(h)
    \/ Serve(h) \/ Return(h)

Next ==
    \/ \E h \in Handlers : HandlerStep(h) \/ Cancel(h) \/ Receive(h)
    \/ Shutdown
    \/ \E a \in Addrs : AddEndpoint(a) \/ RemoveEndpoint(a)
    \/ DeleteService \/ CreateService

(* The serving goroutines run whenever they can and gRPC delivers what    *)
(* was sent; the client's cancel and the shutdown are not assumed.         *)
Spec ==
    Init /\ [][Next]_vars
    /\ \A h \in Handlers : WF_vars(HandlerStep(h)) /\ WF_vars(Receive(h))

-----------------------------------------------------------------------------
TypeOK ==
    /\ svc \in BOOLEAN /\ addrs \subseteq Addrs
    /\ listeners \subseteq Handlers
    /\ pc \in [Handlers -> {"start", "subscribe", "wait", "return", "done"}]
    /\ cancelled \in [Handlers -> BOOLEAN] /\ shutdown \in BOOLEAN
    /\ out \in [Handlers -> Seq(Messages)]
    /\ client \in [Handlers -> SUBSET Addrs]
    /\ changes \in 0..MaxChanges

CancelledGetReturns ==
    \A h \in Handlers : cancelled[h] ~> (pc[h] = "done" /\ h \notin listeners)

-----------------------------------------------------------------------------
(* The endpoint set the client holds after applying message m.             *)
Apply(c, m) ==
    CASE m.type = "add"    -> c \cup m.addrs
      [] m.type = "remove" -> c \ m.addrs
      [] OTHER             -> {}

(* The views the unread messages of a stream stand for: each message       *)
(* applied to the client's set and the messages before it.                 *)
RECURSIVE Views(_, _)
Views(c, msgs) ==
    IF msgs = <<>> THEN <<>>
    ELSE LET v == Apply(c, Head(msgs)) IN <<v>> \o Views(v, Tail(msgs))

Abstract == INSTANCE EndpointViews WITH
    endpoints <- addrs,
    open      <- listeners,
    seen      <- client,
    pending   <- [h \in Handlers |-> Views(client[h], out[h])]

(* Get implements the endpoint-view stream: with the diffs the watcher and *)
(* translator send, replayed by the client, every stream carries exactly   *)
(* the sequence of the service's views from its Subscribe on, whatever     *)
(* changes race the Subscribe and the reads.                               *)
GetRefinesViews == Abstract!Spec

====
