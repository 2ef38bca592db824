\* Authority and context-token parsing over every well-formed authority of
\* the label set and a sample of malformed ones.  Parsing is one step, so
\* every behaviour stops: deadlock is not checked.
CONSTANTS
    Labels <- MCLabels
    Domains <- MCDomains
    Atoi <- MCAtoi
    Authorities <- MCAuthorities
    Tokens <- MCTokens
    CallerNs = "caller"
    NodeName = "node"
SPECIFICATION Spec
CHECK_DEADLOCK FALSE
INVARIANTS
    TypeOK
    RoundTrip
    MalformedRejected
