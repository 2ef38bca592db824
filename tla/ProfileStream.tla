--------------------------- MODULE ProfileStream ---------------------------
(***************************************************************************)
(* GetProfile over a plain service name (server.go, GetProfile, the path   *)
(* after parseK8sServiceName) together with the pieces it wires together:  *)
(*                                                                         *)
(*   ProfileWatcher  --primary-->  fallback  --> opaque-ports --> profile  *)
(*   ProfileWatcher  --secondary->  listener      adaptor      translator  *)
(*   OpaquePortsWatcher ------------------------->   ^            |        *)
(*                                                             stream     *)
(*                                                                         *)
(* Each stream h is one handler goroutine.  It subscribes the adaptor to   *)
(* the service's opaque ports, the primary to the caller-scoped profile    *)
(* (only when a context token was sent) and the secondary to the service's *)
(* own profile, each Subscribe followed by a defer of its Unsubscribe.  It *)
(* then blocks until shutdown or stream cancellation and runs the defers   *)
(* in reverse order.                                                       *)
(*                                                                         *)
(* The watchers, the fallback listener, the adaptor and the translator are *)
(* not part of this repository's sources; they follow the specification:   *)
(* Subscribe delivers a snapshot synchronously under the watcher's lock;   *)
(* a watcher's own goroutine updates its cache and then delivers the new   *)
(* view to the listeners it had, with the lock released, one callback at  *)
(* a time.  A callback into a stream's listener stack runs under that      *)
(* stack's mutex, so it is one atomic step.                                *)
(***************************************************************************)
EXTENDS Naturals, Sequences, SequencesExt

CONSTANTS
    Handlers,         \* concurrent GetProfile streams for the same service
    Token,            \* Token[h]: "none" (no context token), "emptyNs"
                      \* (a token without a namespace) or "callerNs"
    Profiles,         \* ServiceProfile contents, as model values
    ProfileOpaque,    \* ProfileOpaque[p]: opaque ports the profile declares
    Ports,            \* ports that may be annotated opaque on the service
    NoProfile,        \* the watcher's "no profile" view
    Absent,           \* a listener that has not received anything yet
    FailingSubscribers, \* streams whose Subscribe calls may return an error
    MaxChanges,       \* bound on cluster changes seen by the watchers
    ProfileIDs        \* the ProfileIDs the streams can name: "service" (the
                      \* service's own namespace) and, when a token names
                      \* the caller's namespace, "caller"

ASSUME Token \in [Handlers -> {"none", "emptyNs", "callerNs"}]
ASSUME ProfileOpaque \in [Profiles -> SUBSET Ports]
ASSUME FailingSubscribers \subseteq Handlers /\ MaxChanges \in Nat
ASSUME "service" \in ProfileIDs /\ ProfileIDs \subseteq {"service", "caller"}
ASSUME \A h \in Handlers : Token[h] = "callerNs" => "caller" \in ProfileIDs

Roles == {"adaptor", "primary", "secondary"}
Listeners == Handlers \X Roles

ProfileView == Profiles \cup {NoProfile}

(* A profile message as the translator writes it on the stream.           *)
Msg == [profile : ProfileView, opaque : SUBSET Ports]

VARIABLES
    pc,             \* pc[h]: where handler h is in GetProfile
    cancelled,      \* cancelled[h]: the stream's context is done
    shutdown,       \* the server's shutdown channel is closed
    defers,         \* defers[h]: deferred Unsubscribe calls, in order
    profileCache,   \* ProfileWatcher view per ProfileID
    opaqueCache,    \* OpaquePortsWatcher view of the service
    profListeners,  \* ProfileWatcher listeners per ProfileID
    opListeners,    \* OpaquePortsWatcher listeners of the service
    profDelivery,   \* callbacks the ProfileWatcher still has to make
    opDelivery,     \* callbacks the OpaquePortsWatcher still has to make
    stack,          \* stack[h]: state of h's fallback/adaptor/translator
    changes         \* number of cluster changes so far

vars == <<pc, cancelled, shutdown, defers, profileCache, opaqueCache,
          profListeners, opListeners, profDelivery, opDelivery, stack,
          changes>>

-----------------------------------------------------------------------------
(* Listener stack of one stream.                                           *)
(*   primary, secondary: last view each fallback sub-listener received     *)
(*   fb: the effective profile the fallback last passed on                 *)
(*   profile, ports: the adaptor's latest profile and service ports        *)
(*   last: the last message the adaptor forwarded, which the translator    *)
(*         wrote on the stream                                             *)
(*   sent: flips each time the translator writes a message                 *)
EmptyStack == [primary |-> Absent, secondary |-> Absent, fb |-> Absent,
               profile |-> Absent, ports |-> Absent, last |-> Absent,
               sent |-> FALSE]

(* Mutant: a missing profile is forwarded as it is, not as "no profile".  *)
MergedNoDefault(s) ==
    LET p     == s.profile
        own   == IF p \in Profiles THEN ProfileOpaque[p] ELSE {}
        ports == IF s.ports = Absent THEN {} ELSE s.ports
    IN IF s.profile = Absent /\ s.ports = Absent
       THEN Absent
       ELSE [profile |-> p, opaque |-> own \cup ports]

(* The adaptor's merge: the forwarded profile's opaque ports are the       *)
(* profile's own ones and the service annotation's; a missing source       *)
(* counts as empty, and nothing is forwarded before either source spoke.   *)
Merged(s) ==
    LET p     == IF s.profile = Absent THEN NoProfile ELSE s.profile
        own   == IF p \in Profiles THEN ProfileOpaque[p] ELSE {}
        ports == IF s.ports = Absent THEN {} ELSE s.ports
    IN IF s.profile = Absent /\ s.ports = Absent
       THEN Absent
       ELSE [profile |-> p, opaque |-> own \cup ports]

(* The adaptor forwards the merge when it changed; the translator writes   *)
(* it on the stream.                                                       *)
AdaptorPublish(s) ==
    LET m == Merged(s)
    IN IF m # Absent /\ m # s.last
       THEN [s EXCEPT !.last = m, !.sent = ~@]
       ELSE s

(* The fallback's output: the primary's profile while the primary has one, *)
(* otherwise whatever the secondary holds.                                 *)
FallbackEffective(s) ==
    IF s.primary \in Profiles THEN s.primary ELSE s.secondary

(* A fallback sub-listener (role "primary" or "secondary") receives v; the *)
(* fallback passes the effective profile on when it changed.               *)
FallbackUpdate(s, role, v) ==
    LET s1  == [s EXCEPT ![role] = v]
        eff == FallbackEffective(s1)
    IN IF eff # Absent /\ eff # s1.fb
       THEN AdaptorPublish([s1 EXCEPT !.fb = eff, !.profile = eff])
       ELSE s1

-----------------------------------------------------------------------------
(* The profile namespace: the caller's when the token names one.           *)
PrimaryKey(h) == IF Token[h] = "callerNs" THEN "caller" ELSE "service"

NextAfterOpaque(h) == IF Token[h] = "none" THEN "subSecondary" ELSE "subPrimary"

Init ==
    /\ pc = [h \in Handlers |-> "subOpaque"]
    /\ cancelled = [h \in Handlers |-> FALSE]
    /\ shutdown = FALSE
    /\ defers = [h \in Handlers |-> <<>>]
    /\ profileCache \in [ProfileIDs -> ProfileView]
    /\ opaqueCache \in SUBSET Ports
    /\ profListeners = [k \in ProfileIDs |-> {}]
    /\ opListeners = {}
    /\ profDelivery = [key |-> "service", val |-> NoProfile, to |-> {}]
    /\ opDelivery = [val |-> {}, to |-> {}]
    /\ stack = [h \in Handlers |-> EmptyStack]
    /\ changes = 0

(* Mutant: the adaptor is registered but gets no snapshot.                *)
SubscribeOpaquePortsNoSnapshot(h) ==
    /\ pc[h] = "subOpaque"
    /\ \/ /\ opListeners' = opListeners \cup {<<h, "adaptor">>}
          /\ defers' = [defers EXCEPT ![h] =
                          Append(@, [w |-> "opaque", key |-> "service"])]
          /\ pc' = [pc EXCEPT ![h] = NextAfterOpaque(h)]
          /\ UNCHANGED stack
       \/ /\ h \in FailingSubscribers
          /\ pc' = [pc EXCEPT ![h] = "return"]
          /\ UNCHANGED <<opListeners, stack, defers>>
    /\ UNCHANGED <<cancelled, shutdown, profileCache, opaqueCache,
                   profListeners, profDelivery, opDelivery, changes>>

(* opaquePorts.Subscribe(service, adaptor): the snapshot goes to the       *)
(* adaptor at once; on error the handler returns.                          *)
SubscribeOpaquePorts(h) ==
    /\ pc[h] = "subOpaque"
    /\ \/ /\ opListeners' = opListeners \cup {<<h, "adaptor">>}
          /\ stack' = [stack EXCEPT ![h] =
                          AdaptorPublish([@ EXCEPT !.ports = opaqueCache])]
          /\ defers' = [defers EXCEPT ![h] =
                          Append(@, [w |-> "opaque", key |-> "service"])]
          /\ pc' = [pc EXCEPT ![h] = NextAfterOpaque(h)]
       \/ /\ h \in FailingSubscribers
          /\ pc' = [pc EXCEPT ![h] = "return"]
          /\ UNCHANGED <<opListeners, stack, defers>>
    /\ UNCHANGED <<cancelled, shutdown, profileCache, opaqueCache,
                   profListeners, profDelivery, opDelivery, changes>>

(* Mutant: the Subscribe without its deferred Unsubscribe.                 *)
SubscribeProfileNoDefer(h, role, key, next) ==
    \/ /\ profListeners' = [profListeners EXCEPT ![key] = @ \cup {<<h, role>>}]
       /\ stack' = [stack EXCEPT ![h] = FallbackUpdate(@, role, profileCache[key])]
       /\ pc' = [pc EXCEPT ![h] = next]
       /\ UNCHANGED defers
    \/ /\ h \in FailingSubscribers
       /\ pc' = [pc EXCEPT ![h] = "return"]
       /\ UNCHANGED <<profListeners, stack, defers>>

(* profiles.Subscribe(key, role) followed by its defer; on error the       *)
(* handler returns and the defers already taken run.                       *)
SubscribeProfile(h, role, key, next) ==
    \/ /\ profListeners' = [profListeners EXCEPT ![key] = @ \cup {<<h, role>>}]
       /\ stack' = [stack EXCEPT ![h] = FallbackUpdate(@, role, profileCache[key])]
       /\ defers' = [defers EXCEPT ![h] =
                       Append(@, [w |-> role, key |-> key])]
       /\ pc' = [pc EXCEPT ![h] = next]
    \/ /\ h \in FailingSubscribers
       /\ pc' = [pc EXCEPT ![h] = "return"]
       /\ UNCHANGED <<profListeners, stack, defers>>

SubscribePrimary(h) ==
    /\ pc[h] = "subPrimary"
    /\ SubscribeProfile(h, "primary", PrimaryKey(h), "subSecondary")
    /\ UNCHANGED <<cancelled, shutdown, profileCache, opaqueCache,
                   opListeners, profDelivery, opDelivery, changes>>

SubscribeSecondary(h) ==
    /\ pc[h] = "subSecondary"
    /\ SubscribeProfile(h, "secondary", "service", "serving")
    /\ UNCHANGED <<cancelled, shutdown, profileCache, opaqueCache,
                   opListeners, profDelivery, opDelivery, changes>>

(* Mutant: a select that only waits for shutdown.                         *)
ServeOnShutdown(h) ==
    /\ pc[h] = "serving"
    /\ shutdown
    /\ pc' = [pc EXCEPT ![h] = "return"]
    /\ UNCHANGED <<cancelled, shutdown, defers, profileCache, opaqueCache,
                   profListeners, opListeners, profDelivery, opDelivery,
                   stack, changes>>

(* select { case <-s.shutdown: case <-stream.Context().Done(): }           *)
Serve(h) ==
    /\ pc[h] = "serving"
    /\ shutdown \/ cancelled[h]
    /\ pc' = [pc EXCEPT ![h] = "return"]
    /\ UNCHANGED <<cancelled, shutdown, defers, profileCache, opaqueCache,
                   profListeners, opListeners, profDelivery, opDelivery,
                   stack, changes>>

(* On return the defers run last-in first-out.  Unsubscribe only takes the *)
(* listener out of the watcher's set; it does not wait for a callback the  *)
(* watcher is already making.                                              *)
RunDefer(h) ==
    /\ pc[h] = "return"
    /\ defers[h] # <<>>
    /\ LET d == Last(defers[h])
           l == <<h, IF d.w = "opaque" THEN "adaptor" ELSE d.w>>
       IN /\ IF d.w = "opaque"
             THEN /\ opListeners' = opListeners \ {l}
                  /\ UNCHANGED profListeners
             ELSE /\ profListeners' = [profListeners EXCEPT ![d.key] = @ \ {l}]
                  /\ UNCHANGED opListeners
          /\ defers' = [defers EXCEPT ![h] = Front(@)]
    /\ UNCHANGED <<pc, cancelled, shutdown, profileCache, opaqueCache,
                   profDelivery, opDelivery, stack, changes>>

Return(h) ==
    /\ pc[h] = "return"
    /\ defers[h] = <<>>
    /\ pc' = [pc EXCEPT ![h] = "done"]
    /\ UNCHANGED <<cancelled, shutdown, defers, profileCache, opaqueCache,
                   profListeners, opListeners, profDelivery, opDelivery,
                   stack, changes>>

-----------------------------------------------------------------------------
(* Environment: the client goes away, the process shuts down.             *)
Cancel(h) ==
    /\ ~cancelled[h]
    /\ pc[h] # "done"
    /\ cancelled' = [cancelled EXCEPT ![h] = TRUE]
    /\ UNCHANGED <<pc, shutdown, defers, profileCache, opaqueCache,
                   profListeners, opListeners, profDelivery, opDelivery,
                   stack, changes>>

Shutdown ==
    /\ ~shutdown
    /\ shutdown' = TRUE
    /\ UNCHANGED <<pc, cancelled, defers, profileCache, opaqueCache,
                   profListeners, opListeners, profDelivery, opDelivery,
                   stack, changes>>

(* ProfileWatcher: a ServiceProfile is created, changed or deleted.  The   *)
(* cache changes under the lock and the listeners registered now are the   *)
(* ones the watcher goroutine will call, after releasing the lock.  The   *)
(* goroutine handles the next event only after those callbacks.            *)
ProfileChange(k, v) ==
    /\ changes < MaxChanges
    /\ profDelivery.to = {}
    /\ v # profileCache[k]
    /\ profileCache' = [profileCache EXCEPT ![k] = v]
    /\ profDelivery' = [key |-> k, val |-> v, to |-> profListeners[k]]
    /\ changes' = changes + 1
    /\ UNCHANGED <<pc, cancelled, shutdown, defers, opaqueCache,
                   profListeners, opListeners, opDelivery, stack>>

DeliverProfile(l) ==
    /\ l \in profDelivery.to
    /\ stack' = [stack EXCEPT ![l[1]] = FallbackUpdate(@, l[2], profDelivery.val)]
    /\ profDelivery' = [profDelivery EXCEPT !.to = @ \ {l}]
    /\ UNCHANGED <<pc, cancelled, shutdown, defers, profileCache, opaqueCache,
                   profListeners, opListeners, opDelivery, changes>>

(* OpaquePortsWatcher: the service's opaque-ports annotation changes.     *)
OpaqueChange(ports) ==
    /\ changes < MaxChanges
    /\ opDelivery.to = {}
    /\ ports # opaqueCache
    /\ opaqueCache' = ports
    /\ opDelivery' = [val |-> ports, to |-> opListeners]
    /\ changes' = changes + 1
    /\ UNCHANGED <<pc, cancelled, shutdown, defers, profileCache,
                   profListeners, opListeners, profDelivery, stack>>

DeliverOpaque(l) ==
    /\ l \in opDelivery.to
    /\ stack' = [stack EXCEPT ![l[1]] =
                    AdaptorPublish([@ EXCEPT !.ports = opDelivery.val])]
    /\ opDelivery' = [opDelivery EXCEPT !.to = @ \ {l}]
    /\ UNCHANGED <<pc, cancelled, shutdown, defers, profileCache, opaqueCache,
                   profListeners, opListeners, profDelivery, changes>>

-----------------------------------------------------------------------------
HandlerStep(h) ==
    \/ SubscribeOpaquePorts(h)
    \/ SubscribePrimary(h)
    \/ SubscribeSecondary(h)
    \/ Serve(h)
    \/ RunDefer(h)
    \/ Return(h)

Next ==
    \/ \E h \in Handlers : HandlerStep(h) \/ Cancel(h)
    \/ Shutdown
    \/ \E k \in ProfileIDs, v \in ProfileView : ProfileChange(k, v)
    \/ \E l \in Listeners : DeliverProfile(l)
    \/ \E ports \in SUBSET Ports : OpaqueChange(ports)
    \/ \E l \in Listeners : DeliverOpaque(l)

(* Every handler goroutine and every watcher goroutine keeps running once  *)
(* it can; the client and the cluster are not obliged to do anything.      *)
Fairness ==
    /\ \A h \in Handlers : WF_vars(HandlerStep(h))
    /\ \A l \in Listeners : WF_vars(DeliverProfile(l)) /\ WF_vars(DeliverOpaque(l))

Spec == Init /\ [][Next]_vars /\ Fairness

-----------------------------------------------------------------------------
TypeOK ==
    /\ pc \in [Handlers -> {"subOpaque", "subPrimary", "subSecondary",
                            "serving", "return", "done"}]
    /\ cancelled \in [Handlers -> BOOLEAN]
    /\ shutdown \in BOOLEAN
    /\ \A h \in Handlers :
          defers[h] \in Seq([w : {"opaque", "primary", "secondary"},
                             key : ProfileIDs])
    /\ profileCache \in [ProfileIDs -> ProfileView]
    /\ opaqueCache \in SUBSET Ports
    /\ profListeners \in [ProfileIDs -> SUBSET Listeners]
    /\ opListeners \in SUBSET Listeners
    /\ profDelivery \in [key : ProfileIDs, val : ProfileView, to : SUBSET Listeners]
    /\ opDelivery \in [val : SUBSET Ports, to : SUBSET Listeners]
    /\ \A h \in Handlers :
          /\ stack[h].last \in Msg \cup {Absent}
          /\ stack[h].sent \in BOOLEAN
    /\ changes \in 0..MaxChanges

(* No watcher has a callback left to make: what a stream shows now is what *)
(* it will show until the cluster changes again.                           *)
Quiescent == profDelivery.to = {} /\ opDelivery.to = {}

(* What the specification says a stream over a service name must carry:   *)
(* primary ?? secondary, merged with the current opaque-ports set.         *)
ExpectedMsg(h) ==
    LET prim == profileCache[PrimaryKey(h)]
        eff  == IF Token[h] # "none" /\ prim \in Profiles
                THEN prim ELSE profileCache["service"]
        own  == IF eff \in Profiles THEN ProfileOpaque[eff] ELSE {}
    IN [profile |-> eff, opaque |-> own \cup opaqueCache]

(* Once GetProfile has made its subscriptions and no watcher callback is   *)
(* in flight, the last profile written on the stream is the caller-scoped  *)
(* profile if it exists, else the service's own, with the union of its    *)
(* opaque ports and the service annotation's: the fallback listener and    *)
(* the opaque-ports adaptor compose correctly whatever order the           *)
(* snapshots and the watchers' callbacks came in.                          *)
EffectiveProfile ==
    \A h \in Handlers :
        pc[h] = "serving" /\ Quiescent =>
            stack[h].last = ExpectedMsg(h)

(* Every exit path of GetProfile releases every subscription it made: a   *)
(* returned handler has no listener left in any watcher.                   *)
NoLeakedSubscription ==
    \A h \in Handlers :
        pc[h] = "done" =>
            /\ \A r \in Roles : <<h, r>> \notin opListeners
            /\ \A k \in ProfileIDs, r \in Roles : <<h, r>> \notin profListeners[k]

(* Nothing is written on a stream after its GetProfile handler returned.   *)
NoSendAfterReturn ==
    [][\A h \in Handlers : pc[h] = "done" => stack'[h].sent = stack[h].sent]_vars

-----------------------------------------------------------------------------
(* A callback to one of h's listeners is still to be made.                 *)
InFlight(h) == \E r \in Roles : <<h, r>> \in profDelivery.to \cup opDelivery.to

(* Where the stream is, as the client sees it: subscribing until the last  *)
(* Subscribe, serving in the select, closing from there until it returned  *)
(* and no callback to it is left, then closed.                             *)
Phase(h) ==
    CASE pc[h] \in {"subOpaque", "subPrimary", "subSecondary"} -> "subscribing"
      [] pc[h] = "serving"                 -> "serving"
      [] pc[h] = "done" /\ ~InFlight(h)    -> "closed"
      [] OTHER                             -> "closing"

Feed == INSTANCE ProfileFeed WITH
    Msgs  <- Msg,
    want  <- [h \in Handlers |-> ExpectedMsg(h)],
    shown <- [h \in Handlers |-> stack[h].last],
    phase <- [h \in Handlers |-> Phase(h)]

(* GetProfile implements the profile feed: every message written differs   *)
(* from the last, nothing is written once the handler returned and its     *)
(* last callback was made, and a serving stream comes to show the current  *)
(* effective profile after every change, whatever order the watchers'      *)
(* callbacks and the subscriptions' snapshots came in, and a stream the    *)
(* client cancelled closes (GetProfile's select and deferred unsubscribes).*)
GetProfileRefinesFeed == Feed!Spec

=============================================================================
