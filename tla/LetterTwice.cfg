\* Two requests that want the same letter sent, one process, nothing going wrong.
SPECIFICATION Spec
CONSTANTS
    s1 = s1 s2 = s2 c1 = c1 c2 = c2
    Letters = {1, 2}
    Topics = {order}
    Servers = {s1}
    Callers = {c1, c2}
    None = None
    Configured = {TRUE}
    Retries = 1
    BatchSize = 2
    Operations = {"send"}
    Incidents = {}
    MaxIncidents = 0
CHECK_DEADLOCK FALSE
INVARIANT OneLetterEach
