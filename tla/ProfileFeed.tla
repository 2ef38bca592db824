---------------------------- MODULE ProfileFeed ----------------------------
(***************************************************************************)
(* What a GetProfile stream over a service name promises its client        *)
(* (specification, sections 4.3-4.5 and 8): the stream shows the effective *)
(* profile, primary ?? secondary merged with the service's opaque ports;  *)
(* each message it writes differs from the one before; once it serves, it *)
(* comes to show the current effective profile after every change; and    *)
(* once closed it writes nothing; a stream the client cancelled closes.   *)
(* While it subscribes, and while it closes with callbacks still in       *)
(* flight, it may write intermediate views.  A call rejected before it    *)
(* wrote anything ends at once.  Both GetProfile paths promise this feed: *)
(* the service-name path with profiles, the IP and pod-DNS path with the  *)
(* opaque-protocol flag.                                                  *)
(***************************************************************************)
CONSTANTS
    Handlers,   \* the streams
    Msgs,       \* the messages a stream can carry
    Absent      \* nothing written yet

VARIABLES
    want,       \* want[h]: the effective profile of h's cluster view
    shown,      \* shown[h]: the last message written on h
    phase,      \* phase[h]: "subscribing", "serving", "closing", "closed"
    cancelled   \* cancelled[h]: the client went away

vars == <<want, shown, phase, cancelled>>

Init ==
    /\ want \in [Handlers -> Msgs]
    /\ shown = [h \in Handlers |-> Absent]
    /\ phase = [h \in Handlers |-> "subscribing"]
    /\ cancelled = [h \in Handlers |-> FALSE]

(* The cluster changes what some streams should show.                      *)
Change ==
    /\ want' \in [Handlers -> Msgs]
    /\ UNCHANGED <<shown, phase, cancelled>>

(* An open stream writes a new message.  The last subscription's snapshot  *)
(* may be written as the stream starts serving, and the last callback of a *)
(* closing stream may write and close it, in the same step.                *)
Write(h) ==
    /\ phase[h] # "closed"
    /\ \E m \in Msgs \ {shown[h]} : shown' = [shown EXCEPT ![h] = m]
    /\ \/ UNCHANGED phase
       \/ phase[h] = "subscribing" /\ phase' = [phase EXCEPT ![h] = "serving"]
       \/ phase[h] = "closing" /\ phase' = [phase EXCEPT ![h] = "closed"]
    /\ UNCHANGED <<want, cancelled>>

(* A serving stream writes what it should show.                            *)
Converge(h) ==
    /\ phase[h] = "serving"
    /\ shown[h] # want[h]
    /\ shown' = [shown EXCEPT ![h] = want[h]]
    /\ UNCHANGED <<want, phase, cancelled>>

Subscribed(h) ==
    /\ phase[h] = "subscribing"
    /\ phase' = [phase EXCEPT ![h] = "serving"]
    /\ UNCHANGED <<want, shown, cancelled>>

Close(h) ==
    /\ phase[h] \in {"subscribing", "serving"}
    /\ phase' = [phase EXCEPT ![h] = "closing"]
    /\ UNCHANGED <<want, shown, cancelled>>

Finish(h) ==
    /\ phase[h] = "closing"
    /\ phase' = [phase EXCEPT ![h] = "closed"]
    /\ UNCHANGED <<want, shown, cancelled>>

(* The call returns an error before its first message.                    *)
Fail(h) ==
    /\ phase[h] = "subscribing"
    /\ shown[h] = Absent
    /\ phase' = [phase EXCEPT ![h] = "closed"]
    /\ UNCHANGED <<want, shown, cancelled>>

Cancel(h) ==
    /\ ~cancelled[h]
    /\ phase[h] # "closed"
    /\ cancelled' = [cancelled EXCEPT ![h] = TRUE]
    /\ UNCHANGED <<want, shown, phase>>

Next ==
    \/ Change
    \/ \E h \in Handlers : \/ Write(h) \/ Converge(h) \/ Subscribed(h)
                           \/ Close(h) \/ Finish(h) \/ Fail(h) \/ Cancel(h)

(* A serving stream converges, a cancelled stream closes, and a closing    *)
(* stream finishes; the client and the cluster owe nothing.               *)
Spec ==
    Init /\ [][Next]_vars
    /\ \A h \in Handlers : /\ WF_vars(Converge(h))
                           /\ WF_vars(cancelled[h] /\ Close(h))
                           /\ WF_vars(Finish(h))

====
