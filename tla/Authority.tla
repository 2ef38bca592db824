------------------------------ MODULE Authority ------------------------------
(***************************************************************************)
(* The parsing GetProfile does before it subscribes (server.go):           *)
(* getHostAndPort splits the authority on ':', parseK8sServiceName splits  *)
(* the host on '.' and matches "<svc>.<ns>.svc.<cluster domain>" with an   *)
(* optional instance-ID label in front (hasSuffix), parseContextToken      *)
(* decodes the context token as JSON or the legacy "ns:<namespace>" form,  *)
(* and profileID names the ServiceProfile to watch.                        *)
(*                                                                         *)
(* Text is abstracted to what the splits see: an authority is its host's   *)
(* labels and the ':'-separated pieces after the host; a label and a port  *)
(* piece are strings from small sets; strconv.Atoi is a table.  A context  *)
(* token is either a JSON object, given by which of its fields are present *)
(* and whether each has the right type, or other text given by its        *)
(* ':'-separated pieces.                                                   *)
(***************************************************************************)
EXTENDS Naturals, Sequences, SequencesExt, TLC

CONSTANTS
    Labels,         \* DNS labels a service, namespace or instance may have
    Authorities,    \* [host : Seq(label), ports : Seq(port piece)]
    Tokens,         \* context tokens: [kind |-> "none"] for no token,
                    \* JsonTokens, or [kind |-> "text", parts |-> pieces]
    Domains,        \* cluster domains, as sequences of labels
    Atoi,           \* Atoi[s]: strconv.Atoi of the port pieces that are
                    \* integers; Atoi fails on any other piece
    CallerNs,       \* the namespace a token names
    NodeName        \* the node name a token names

(* A JSON token: which fields it has and whether each decodes ("str") or   *)
(* has the wrong JSON type ("num").                                        *)
JsonTokens == [kind : {"json"}, ns : {"absent", "str", "num"},
               nodeName : {"absent", "str", "num"}]

VARIABLES
    clusterDomain,  \* the server's clusterDomain
    auth,           \* the request's path
    token,          \* the request's context token
    pc,             \* "start" or "parsed"
    result          \* what GetProfile derived from the request

vars == <<clusterDomain, auth, token, pc, result>>

-----------------------------------------------------------------------------
(* Mutant: the port's range is not checked.                               *)
getHostAndPortNoRange(a) ==
    IF Len(a.ports) > 1 THEN [err |-> TRUE]
    ELSE IF Len(a.ports) = 0 THEN [err |-> FALSE, host |-> a.host, port |-> 80]
    ELSE IF a.ports[1] \notin DOMAIN Atoi THEN [err |-> TRUE]
    ELSE [err |-> FALSE, host |-> a.host, port |-> Atoi[a.ports[1]]]

(* strings.Split(authority, ":") then the port: 80 when absent; an error   *)
(* for a second ':' or a port that is not an integer in [1, 65535].        *)
getHostAndPort(a) ==
    IF Len(a.ports) > 1 THEN [err |-> TRUE]
    ELSE IF Len(a.ports) = 0 THEN [err |-> FALSE, host |-> a.host, port |-> 80]
    ELSE IF a.ports[1] \notin DOMAIN Atoi THEN [err |-> TRUE]
    ELSE LET p == Atoi[a.ports[1]]
         IN IF p <= 0 \/ p > 65535 THEN [err |-> TRUE]
            ELSE [err |-> FALSE, host |-> a.host, port |-> p]

(* slice ends with suffix, compared label by label.                        *)
hasSuffix(slice, suffix) ==
    /\ Len(slice) >= Len(suffix)
    /\ \A i \in 1..Len(suffix) : slice[Len(slice) - Len(suffix) + i] = suffix[i]

(* Mutant: the instance-ID branch reads the labels of the service branch.  *)
parseK8sServiceNameShifted(labels, domain) ==
    LET suffix == <<"svc">> \o domain
        n      == Len(labels)
    IN IF ~hasSuffix(labels, suffix) THEN [err |-> TRUE]
       ELSE IF n = 2 + Len(suffix)
       THEN [err |-> FALSE, name |-> labels[1], namespace |-> labels[2], instance |-> ""]
       ELSE IF n = 3 + Len(suffix)
       THEN [err |-> FALSE, name |-> labels[1], namespace |-> labels[2], instance |-> labels[1]]
       ELSE [err |-> TRUE]

(* <service>.<namespace>.svc.<domain> or                                   *)
(* <instance>.<service>.<namespace>.svc.<domain>.                          *)
parseK8sServiceName(labels, domain) ==
    LET suffix == <<"svc">> \o domain
        n      == Len(labels)
    IN IF ~hasSuffix(labels, suffix) THEN [err |-> TRUE]
       ELSE IF n = 2 + Len(suffix)
       THEN [err |-> FALSE, name |-> labels[1], namespace |-> labels[2], instance |-> ""]
       ELSE IF n = 3 + Len(suffix)
       THEN [err |-> FALSE, name |-> labels[2], namespace |-> labels[3], instance |-> labels[1]]
       ELSE [err |-> TRUE]

EmptyToken == [ns |-> "", nodeName |-> ""]

(* json.Unmarshal into contextToken: a field of the wrong JSON type is an  *)
(* error, but the fields that did decode are kept; other text is an error  *)
(* that leaves the token empty.                                            *)
jsonUnmarshal(t) ==
    IF t.kind = "json"
    THEN [err |-> "num" \in {t.ns, t.nodeName},
          tok |-> [ns       |-> IF t.ns = "str" THEN CallerNs ELSE "",
                   nodeName |-> IF t.nodeName = "str" THEN NodeName ELSE ""]]
    ELSE [err |-> TRUE, tok |-> EmptyToken]

(* strings.Split(token, ":"): a JSON object's text splits after "{"key"    *)
(* at each field, so its first piece is never "ns".                        *)
SplitColon(t) ==
    IF t.kind = "json"
    THEN LET fields == (IF t.ns = "absent" THEN 0 ELSE 1)
                       + (IF t.nodeName = "absent" THEN 0 ELSE 1)
         IN <<"{">> \o [i \in 1..fields |-> "json"]
    ELSE t.parts

parseContextToken(t) ==
    LET dec   == jsonUnmarshal(t)
        parts == SplitColon(t)
    IN IF ~dec.err THEN dec.tok
       ELSE IF Len(parts) = 2 /\ parts[1] = "ns"
       THEN [ns |-> parts[2], nodeName |-> ""]
       ELSE dec.tok

(* The namespace of the ProfileID: the token's when it names one.          *)
profileID(svc, tok) == IF tok.ns # "" THEN tok.ns ELSE svc.namespace

-----------------------------------------------------------------------------
Init ==
    /\ clusterDomain \in Domains
    /\ auth \in Authorities
    /\ token \in Tokens
    /\ pc = "start"
    /\ result = [status |-> "none"]

(* GetProfile up to its subscriptions: getHostAndPort, then (for a name)   *)
(* parseK8sServiceName, then, for a service name (no instance ID) with a   *)
(* context token, parseContextToken and profileID for the primary; an      *)
(* error is InvalidArgument.  The pod-DNS path ignores the token.          *)
Parse ==
    /\ pc = "start"
    /\ pc' = "parsed"
    /\ LET hp  == getHostAndPort(auth)
           svc == parseK8sServiceName(hp.host, clusterDomain)
           tok == IF token.kind = "none" THEN EmptyToken ELSE parseContextToken(token)
       IN result' =
            IF hp.err \/ svc.err THEN [status |-> "invalid"]
            ELSE [status |-> "ok", name |-> svc.name, namespace |-> svc.namespace,
                  instance |-> svc.instance, port |-> hp.port,
                  profileNs |-> IF svc.instance = "" THEN profileID(svc, tok) ELSE ""]
    /\ UNCHANGED <<clusterDomain, auth, token>>

Next == Parse

Spec == Init /\ [][Next]_vars

-----------------------------------------------------------------------------
TypeOK ==
    /\ clusterDomain \in Domains
    /\ auth \in Authorities
    /\ token \in Tokens
    /\ pc \in {"start", "parsed"}
    /\ result \in [status : {"none", "invalid"}] \cup
                  [status : {"ok"}, name : Labels, namespace : Labels,
                   instance : Labels \cup {""}, port : 1..65535,
                   profileNs : Labels \cup {CallerNs, ""}]

(* The authority of a service, or of one of its pods when instance # "",   *)
(* as a client writes it: "[<instance>.]<name>.<namespace>.svc.<domain>:    *)
(* <port>", the port in decimal.                                           *)
FormatAuthority(instance, name, namespace, port, domain) ==
    [host  |-> (IF instance = "" THEN <<>> ELSE <<instance>>)
                   \o <<name, namespace, "svc">> \o domain,
     ports |-> <<ToString(port)>>]

(* The specification's round trip for authority parsing: formatting a      *)
(* valid (instance, service, namespace, port) for the server's cluster     *)
(* domain and parsing it with getHostAndPort and parseK8sServiceName gives  *)
(* back the same tuple, whatever the labels are (a namespace or service    *)
(* named "svc" included).                                                  *)
RoundTrip ==
    pc = "parsed" =>
        \A i \in Labels \cup {""}, n \in Labels, ns \in Labels,
           p \in {Atoi[s] : s \in DOMAIN Atoi} \cap 1..65535 :
            auth = FormatAuthority(i, n, ns, p, clusterDomain) =>
                /\ result.status = "ok"
                /\ result.name = n /\ result.namespace = ns
                /\ result.instance = i /\ result.port = p

(* The shape section 4.8 of the specification accepts: at most one ':',   *)
(* a decimal port in [1, 65535], and "<service>.<namespace>", with at most *)
(* one instance-ID label in front, before ".svc.<domain>".                 *)
SpecShape(a, domain) ==
    /\ Len(a.ports) <= 1
    /\ \A k \in DOMAIN a.ports :
          a.ports[k] \in DOMAIN Atoi /\ Atoi[a.ports[k]] \in 1..65535
    /\ \E lead \in {<<l, m>> : l, m \in Labels} \cup {<<k, l, m>> : k, l, m \in Labels} :
          a.host = lead \o <<"svc">> \o domain

(* getHostAndPort and parseK8sServiceName reject every authority outside  *)
(* that shape: too many colons, a port out of range or not a number, too  *)
(* few or too many labels, another cluster domain.                        *)
MalformedRejected ==
    (pc = "parsed" /\ ~SpecShape(auth, clusterDomain)) => result.status = "invalid"

(* Section 4.9: the token's namespace overrides the profile's when the    *)
(* token is valid JSON with an "ns" or the legacy "ns:<namespace>" form;   *)
(* anything else is treated as an empty token.                            *)
SpecTokenNs(t) ==
    CASE t.kind = "json" ->
            IF t.ns = "str" /\ "num" \notin {t.ns, t.nodeName} THEN CallerNs ELSE ""
      [] t.kind = "text" ->
            IF Len(t.parts) = 2 /\ t.parts[1] = "ns" THEN t.parts[2] ELSE ""
      [] OTHER -> ""

(* The profile GetProfile subscribes its primary to is in the namespace    *)
(* the specification's token rule gives.                                   *)
ContextTokenPerSpec ==
    (pc = "parsed" /\ result.status = "ok" /\ result.instance = "") =>
        result.profileNs = IF SpecTokenNs(token) # "" THEN SpecTokenNs(token)
                           ELSE result.namespace

=============================================================================
