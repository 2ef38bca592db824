\* A query fails while other goroutines are still running: do all the
\* goroutines StatSummary started exit?
CONSTANTS
    NilValue = NilValue
    Nil <- NilValue
    Requests <- MCRequests
    AllTypes <- MCAllTypes

SPECIFICATION Spec

\* One call is modelled: once the handler has answered and its goroutines
\* have sent or are blocked, nothing else happens.
CHECK_DEADLOCK FALSE

PROPERTIES
    NoGoroutineLeak
