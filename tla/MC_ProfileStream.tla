------------------------- MODULE MC_ProfileStream -------------------------
(* Model parameters for ProfileStream.  Two profiles, one of which declares *)
(* the port the service annotation may also carry, so that different       *)
(* inputs can merge into the same message.                                 *)
EXTENDS ProfileStream, TLC

CONSTANTS h1, h2, P1, P2

MCProfiles == {P1, P2}
MCProfileOpaque == [p \in MCProfiles |-> IF p = P1 THEN {6379} ELSE {}]
MCPorts == {6379}

(* One stream whose context token names the caller's namespace.           *)
CallerHandlers == {h1}
CallerToken == [h \in CallerHandlers |-> "callerNs"]

(* Two concurrent streams sharing the service's profile watcher: one whose *)
(* token names the caller's namespace and one without a context token.    *)
MixedHandlers == {h1, h2}
MixedToken == [h \in MixedHandlers |-> IF h = h1 THEN "callerNs" ELSE "none"]

(* The caller-token stream's Subscribe calls may fail.                    *)
MixedFailing == {h1}

=============================================================================
