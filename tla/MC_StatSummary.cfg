\* One StatSummary call over every request shape: validation, the fan-out to
\* one goroutine per resource type, and the receive loop.
CONSTANTS
    NilValue = NilValue
    Nil <- NilValue
    Requests <- MCRequests
    AllTypes <- MCAllTypes

SPECIFICATION Spec

\* One call is modelled: once the handler has answered and its goroutines
\* have sent or are blocked, nothing else happens.
CHECK_DEADLOCK FALSE

INVARIANTS
    TypeOK
    OkResponseComplete

PROPERTIES
    HandlerReturns
