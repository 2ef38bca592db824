-------------------------- MODULE MC_StatSummary --------------------------
(* Requests over every selector kind StatSummary distinguishes, with and   *)
(* without a to/from filter, stats skipped or not, and a valid or invalid  *)
(* label selector.  "all" stands for three resource types, one of each     *)
(* query kind other than policy.                                           *)
EXTENDS StatSummary, TLC

CONSTANTS NilValue

MCAllTypes == <<"deployment", "service", "authority">>

Outbounds ==
    {[kind |-> "none", type |-> NilValue]} \cup
    [kind : {"to", "from"}, type : {"deployment", "service", "all"}]

MCRequests ==
    [selector : {NilValue, "deployment", "service", "authority", "server", "all"},
     outbound : Outbounds,
     skipStats : BOOLEAN,
     selectorValid : BOOLEAN]

=============================================================================
