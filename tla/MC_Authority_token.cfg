\* The context token against section 4.9 of the specification: a JSON
\* token with a field of the wrong type is not treated as empty.  Parsing
\* is one step: deadlock is not checked.
CONSTANTS
    Labels <- MCLabels
    Domains <- MCDomains
    Atoi <- MCAtoi
    Authorities <- MCAuthorities
    Tokens <- MCTokens
    CallerNs = "caller"
    NodeName = "node"
SPECIFICATION Spec
CHECK_DEADLOCK FALSE
INVARIANT
    ContextTokenPerSpec
