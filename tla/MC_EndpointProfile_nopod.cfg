\* The specification says an IP with neither a Service nor a pod gets
\* opaque=false; the code announces the default opaque ports.  Deadlock is
\* not checked: every call ends.
CONSTANTS
    pa = pa
    pb = pb
    Pods <- MCPods
    Phases <- MCPhases
    None = None
    Absent = Absent
    MaxChanges = 1
SYMMETRY MCSymmetry
SPECIFICATION Spec
CHECK_DEADLOCK FALSE
INVARIANT
    NoPodNotOpaque
