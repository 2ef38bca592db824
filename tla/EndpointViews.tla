---------------------------- MODULE EndpointViews ----------------------------
(***************************************************************************)
(* What a Get stream promises its client (specification, sections 4.1     *)
(* and 8): once open, the stream hands the client the service's endpoint   *)
(* view, first as a snapshot and then after every change, in order, and   *)
(* the client eventually reads each of them.  Views are whole address      *)
(* sets here; GetEndpoints sends them as Add/Remove/NoEndpoints diffs.     *)
(***************************************************************************)
EXTENDS Sequences

CONSTANTS Handlers, Addrs

VARIABLES
    endpoints,  \* the service's current endpoint view
    open,       \* streams subscribed to the view
    seen,       \* seen[h]: the last view the client of h read
    pending     \* pending[h]: views sent to h and not yet read, in order

vars == <<endpoints, open, seen, pending>>

Init ==
    /\ endpoints \in SUBSET Addrs
    /\ open = {}
    /\ seen = [h \in Handlers |-> {}]
    /\ pending = [h \in Handlers |-> <<>>]

(* Subscribing sends the current view.                                     *)
Open(h) ==
    /\ h \notin open
    /\ open' = open \cup {h}
    /\ pending' = [pending EXCEPT ![h] = Append(@, endpoints)]
    /\ UNCHANGED <<endpoints, seen>>

Close(h) ==
    /\ h \in open
    /\ open' = open \ {h}
    /\ UNCHANGED <<endpoints, seen, pending>>

(* A change of the view is sent to every open stream.                      *)
Change ==
    \E e \in SUBSET Addrs :
        /\ endpoints' = e
        /\ pending' = [h \in Handlers |-> IF h \in open THEN Append(pending[h], e)
                                         ELSE pending[h]]
        /\ UNCHANGED <<open, seen>>

Read(h) ==
    /\ pending[h] # <<>>
    /\ seen' = [seen EXCEPT ![h] = Head(pending[h])]
    /\ pending' = [pending EXCEPT ![h] = Tail(@)]
    /\ UNCHANGED <<endpoints, open>>

Next == Change \/ \E h \in Handlers : Open(h) \/ Close(h) \/ Read(h)

Spec == Init /\ [][Next]_vars /\ \A h \in Handlers : WF_vars(Read(h))

====
