------------------------ MODULE MC_EndpointProfile ------------------------
(* Two pods, so that an IP can be claimed by several of them; a running    *)
(* and a terminated phase, so that the traffic filter matters.             *)
EXTENDS EndpointProfile, TLC

CONSTANTS pa, pb

MCPods == {pa, pb}

MCPhases == {"Running", "Failed"}

MCSymmetry == Permutations(MCPods)

(* A pod-DNS request never reads the IP indices, the Services on the IP    *)
(* or the pods' phases (getEndpointByHostname reads the Endpoints only),  *)
(* so for it they are fixed to one value: no IP claim, no Service, a      *)
(* running pod.  An IP request starts from every informer view.           *)
MCInit ==
    /\ Init
    /\ req.kind = "hostname" =>
          /\ svcClaims = 0
          /\ \A p \in Pods : /\ ~pods[p].podIP /\ ~pods[p].hostPort
                             /\ pods[p].phase = "Running" /\ ~pods[p].deleting

MCSpec == MCInit /\ [][Next]_vars /\ WF_vars(HandlerStep) /\ WF_vars(Deliver)
=============================================================================
