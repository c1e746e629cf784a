\* Two processes and one letter: crashes, hangs, a database or an answer lost, and the
\* administrator who sends again and clears.
SPECIFICATION FairSpec
CONSTANTS
    s1 = s1 s2 = s2 c1 = c1 c2 = c2
    Letters = {1}
    Topics = {order}
    Servers = {s1, s2}
    Callers = {c1}
    None = None
    Configured = {TRUE}
    Retries = 1
    BatchSize = 1
    Operations = {"send", "force", "clear"}
    Incidents = {"stop", "database", "hang", "answer", "retry"}
    MaxIncidents = 2
INVARIANT DeliveriesAreTrue
PROPERTY EveryLetterSettles
