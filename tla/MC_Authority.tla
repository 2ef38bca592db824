---------------------------- MODULE MC_Authority ----------------------------
(* Labels include "svc", so that a service or namespace named like the     *)
(* suffix is tried; two cluster domains of different lengths; port pieces  *)
(* at and beyond the bounds, with a leading zero, and not numbers.         *)
EXTENDS Authority

MCLabels == {"web", "prod", "svc"}

MCDomains == {<<"cluster", "local">>, <<"local">>}

MCAtoi == ("1" :> 1 @@ "80" :> 80 @@ "65535" :> 65535 @@ "0" :> 0
           @@ "65536" :> 65536 @@ "080" :> 80)

(* Well-formed authorities for every label, instance and domain, and       *)
(* malformed ones: too few or too many labels, a missing "svc", a bad or   *)
(* repeated port.                                                          *)
MCAuthorities ==
    {FormatAuthority(i, n, ns, p, d) :
        i \in MCLabels \cup {""}, n \in MCLabels, ns \in MCLabels,
        p \in {1, 80, 65535}, d \in MCDomains}
    \cup
    [host : {<<"web">>, <<"web", "prod">>, <<"web", "prod", "svc">>,
             <<"web", "prod", "svc", "local">>,
             <<"web", "prod", "svc", "cluster", "local">>,
             <<"web", "web", "prod", "svc", "cluster", "local">>,
             <<"prod", "web", "web", "prod", "svc", "cluster", "local">>},
     ports : {<<>>, <<"80">>, <<"0">>, <<"65536">>, <<"080">>, <<"x">>,
              <<"">>, <<"80", "80">>}]

MCTokens ==
    {[kind |-> "none"]} \cup JsonTokens \cup
    [kind : {"text"}, parts : {<<"ns", "prod">>, <<"ns", "">>, <<"ns">>,
                               <<"web", "prod">>, <<"ns", "prod", "web">>}]
=============================================================================
