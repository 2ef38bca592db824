-------------------------- MODULE MC_GetEndpoints --------------------------
(* Two Get streams on one Service with two endpoint addresses.             *)
EXTENDS GetEndpoints

CONSTANTS h1, h2, a1, a2

MCHandlers == {h1, h2}
MCAddrs == {a1, a2}

====
