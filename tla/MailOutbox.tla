----------------------------- MODULE MailOutbox -----------------------------
(***************************************************************************)
(* The mail outbox: MailService writes letters down as rows of mail_outbox *)
(* and MailDispatcher sends them over SMTP.                                *)
(*                                                                         *)
(* A server is one process of the backend with its own dispatcher, which   *)
(* runs at most one drain at a time (`draining').  A caller is one call of *)
(* send() or retryOutboxLetter().  Every database statement and every SMTP *)
(* exchange is one action; what a handler carries from one to the next is  *)
(* in `server' or `caller', and may be stale.                              *)
(*                                                                         *)
(* Time is a flag of the row: `due' says that nextAttemptAt has come, and  *)
(* for a row in SENDING, whose nextAttemptAt is the time it was claimed,   *)
(* that the claim is older than STUCK_AFTER_MS.                            *)
(***************************************************************************)
EXTENDS Integers, FiniteSets

CONSTANTS
    Letters,      \* row ids: numbers, because letters are sent in id order
    Topics,       \* pairs of a kind of letter and an order
    Servers,
    Callers,      \* calls that can be in progress at once (bound)
    None,         \* no topic, no server, no letter
    Configured,   \* whether SMTP_* may be set or unset when a server boots
    Retries,      \* the length of BACKOFF_MS: 5 in the code
    BatchSize,    \* BATCH_SIZE
    Operations,   \* what callers do (workload)
    Incidents,    \* what may go wrong (workload)
    MaxIncidents  \* how often (bound)

VARIABLES
    letter,     \* the mail_outbox table
    server,     \* each process: its dispatcher's drain
    caller,     \* each call in progress
    delivered,  \* history: how often SMTP took each letter
    failures,   \* history: failed attempts at each letter in all
    incidents   \* history: how many incidents there were

vars == <<letter, server, caller, delivered, failures, incidents>>
history == <<delivered, failures, incidents>>

MailStatus == {"PENDING", "SENDING", "SENT", "FAILED", "SKIPPED"}

ASSUME MailAssumption ==
    /\ Letters \subseteq Nat
    /\ None \notin Letters
    /\ IsFiniteSet(Servers)
    /\ IsFiniteSet(Callers)
    /\ Configured \subseteq BOOLEAN
    /\ Retries \in Nat
    /\ BatchSize \in Nat \ {0}
    /\ Operations \subseteq {"send", "force", "clear"}
    /\ Incidents \subseteq {"stop", "database", "answer", "hang", "retry"}
    /\ MaxIncidents \in Nat

\* FREE is an id not given out yet, GONE a deleted row.
Letter ==
    [status : MailStatus \cup {"FREE", "GONE"}, topic : Topics \cup {None},
     forced : BOOLEAN, attempts : Nat, due : BOOLEAN]

Free ==
    [status |-> "FREE", topic |-> None, forced |-> FALSE, attempts |-> 0,
     due |-> FALSE]

Server ==
    [up : BOOLEAN, configured : BOOLEAN,
     at : {"idle", "release", "find", "attempt", "sending", "sent", "failed"},
     batch : SUBSET Letters,        \* the letters of this drain still to do
     attempts : [Letters -> Nat]]   \* ... and their attempts when found

\* A process whose dispatcher is at rest.
AtRest(up, configured) ==
    [up |-> up, configured |-> configured, at |-> "idle", batch |-> {},
     attempts |-> [l \in Letters |-> 0]]

Caller ==
    [at : {"idle", "check", "save", "retry"}, server : Servers \cup {None},
     topic : Topics \cup {None}, forced : BOOLEAN, letter : Letters \cup {None}]

Idle ==
    [at |-> "idle", server |-> None, topic |-> None, forced |-> FALSE,
     letter |-> None]

Exists(l) == letter[l].status \in MailStatus
InState(status) == {l \in Letters : letter[l].status = status}

\* Something goes wrong, or an admin asks for a letter to be sent again.
Incident(kind) ==
    /\ kind \in Incidents
    /\ incidents < MaxIncidents
    /\ incidents' = incidents + 1

\* An UPDATE by id: no effect on a deleted row.
Update(l, row) == letter' = [letter EXCEPT ![l] = IF Exists(l) THEN row ELSE @]

-----------------------------------------------------------------------------
(* MailService *)

Call(c, i, at, topic, forced, l) ==
    /\ caller[c].at = "idle"
    /\ server[i].up
    /\ caller' = [caller EXCEPT ![c] =
            [at |-> at, server |-> i, topic |-> topic, forced |-> forced,
             letter |-> l]]

Return(c) == caller' = [caller EXCEPT ![c] = Idle]

send(c, i, topic) ==
    /\ "send" \in Operations
    /\ Call(c, i, "check", topic, FALSE, None)
    /\ UNCHANGED <<letter, server, history>>

\* options.force: the admin's own letters, apologies and password resets.
sendForced(c, i, topic) ==
    /\ "force" \in Operations
    /\ Call(c, i, "save", topic, TRUE, None)
    /\ UNCHANGED <<letter, server, history>>

alreadySent(topic) ==
    \E l \in InState("PENDING") \cup InState("SENDING") \cup InState("SENT") :
        letter[l].topic = topic

Check(c) ==
    /\ caller[c].at = "check"
    /\ caller' = [caller EXCEPT ![c] =
            IF alreadySent(@.topic) THEN Idle ELSE [@ EXCEPT !.at = "save"]]
    /\ UNCHANGED <<letter, server, history>>

\* drain(), called for a nudge or by the timer: single flight.
drain(process) ==
    IF process.configured /\ process.at = "idle"
    THEN [process EXCEPT !.at = "release"]
    ELSE process

Queue(c, l) ==
    LET i == caller[c].server IN
    /\ caller[c].at = "save"
    /\ letter[l].status = "FREE"
    /\ \A m \in Letters : m < l => letter[m].status # "FREE"
    /\ letter' = [letter EXCEPT ![l] =
            [status |-> IF server[i].configured THEN "PENDING" ELSE "SKIPPED",
             topic |-> caller[c].topic, forced |-> caller[c].forced,
             attempts |-> 0, due |-> TRUE]]
    /\ server' = [server EXCEPT ![i] = drain(@)]
    /\ Return(c)
    /\ UNCHANGED history

\* A letter that cannot be written down is logged and dropped.
QueueFails(c) ==
    /\ caller[c].at \in {"check", "save"}
    /\ Incident("database")
    /\ Return(c)
    /\ UNCHANGED <<letter, server, delivered, failures>>

\* The row is read, and a letter in flight left alone ...
retryOutboxLetter(c, i, l) ==
    /\ Exists(l)
    /\ letter[l].status # "SENDING"
    /\ Incident("retry")
    /\ Call(c, i, "retry", letter[l].topic, TRUE, l)
    /\ UNCHANGED <<letter, server, delivered, failures>>

\* ... then queued again, whatever it has become since.
Requeue(c) ==
    LET l == caller[c].letter IN
    /\ caller[c].at = "retry"
    /\ Update(l, [letter[l] EXCEPT !.status = "PENDING", !.attempts = 0,
                                   !.due = TRUE])
    /\ server' = [server EXCEPT ![caller[c].server] = drain(@)]
    /\ Return(c)
    /\ UNCHANGED history

clearSettledLetters ==
    /\ "clear" \in Operations
    /\ InState("SENT") \cup InState("SKIPPED") # {}
    /\ letter' = [l \in Letters |->
            IF letter[l].status \in {"SENT", "SKIPPED"}
            THEN [letter[l] EXCEPT !.status = "GONE"] ELSE letter[l]]
    /\ UNCHANGED <<server, caller, history>>

-----------------------------------------------------------------------------
(* MailDispatcher *)

Goto(i, at) == server' = [server EXCEPT ![i].at = at]

Tick(i) ==
    /\ server[i].up
    /\ drain(server[i]) # server[i]
    /\ server' = [server EXCEPT ![i] = drain(@)]
    /\ UNCHANGED <<letter, caller, history>>

\* Mutation of Stuck: interrupted letters are left in SENDING.
NeverStuck(row) == FALSE

Stuck(row) == row.status = "SENDING" /\ row.due

releaseStuck(i) ==
    /\ server[i].at = "release"
    /\ letter' = [l \in Letters |->
            IF Stuck(letter[l]) THEN [letter[l] EXCEPT !.status = "PENDING"]
            ELSE letter[l]]
    /\ Goto(i, "find")
    /\ UNCHANGED <<caller, history>>

Due == {l \in InState("PENDING") : letter[l].due}

\* The first BatchSize of them, by id.
runDrain(i) ==
    LET batch == {l \in Due : Cardinality({m \in Due : m < l}) < BatchSize} IN
    /\ server[i].at = "find"
    /\ server' = [server EXCEPT
            ![i].at = IF batch = {} THEN "idle" ELSE "attempt",
            ![i].batch = batch,
            ![i].attempts = [l \in Letters |->
                IF l \in batch THEN letter[l].attempts ELSE 0]]
    /\ UNCHANGED <<letter, caller, history>>

\* The letter this drain is at work on: the first of its batch.
At(i, l) == l \in server[i].batch /\ \A m \in server[i].batch : l <= m

\* On to the next letter of the batch, or the drain is over.
NextLetter(i, l) ==
    server' = [server EXCEPT
        ![i].batch = @ \ {l},
        ![i].attempts[l] = 0,
        ![i].at = IF server[i].batch = {l} THEN "idle" ELSE "attempt"]

\* Mutation of Claimable: the claim is not conditional on the status.
Unconditional(row) == row.status \in MailStatus

Claimable(row) == row.status = "PENDING"

\* attempt(): the claim.
attempt(i, l) ==
    /\ server[i].at = "attempt"
    /\ At(i, l)
    /\ IF Claimable(letter[l])
       THEN /\ letter' = [letter EXCEPT ![l].status = "SENDING", ![l].due = FALSE]
            /\ Goto(i, "sending")
       ELSE NextLetter(i, l) /\ UNCHANGED letter
    /\ UNCHANGED <<caller, history>>

\* The end of sendMail(): SMTP took the letter ...
Accepted(i, l) ==
    /\ server[i].at = "sending"
    /\ At(i, l)
    /\ delivered' = [delivered EXCEPT ![l] = @ + 1]
    /\ Goto(i, "sent")
    /\ UNCHANGED <<letter, caller, failures, incidents>>

Failed(i, l) ==
    /\ failures' = [failures EXCEPT ![l] = @ + 1]
    /\ Goto(i, "failed")

\* ... or did not ...
Rejected(i, l) ==
    /\ server[i].at = "sending"
    /\ At(i, l)
    /\ Failed(i, l)
    /\ UNCHANGED <<letter, caller, delivered, incidents>>

\* ... or did, and the connection broke before it could say so.
AnswerLost(i, l) ==
    /\ server[i].at = "sending"
    /\ At(i, l)
    /\ Incident("answer")
    /\ delivered' = [delivered EXCEPT ![l] = @ + 1]
    /\ Failed(i, l)
    /\ UNCHANGED <<letter, caller>>

MarkSent(i, l) ==
    /\ server[i].at = "sent"
    /\ At(i, l)
    /\ Update(l, [letter[l] EXCEPT !.status = "SENT",
                                   !.attempts = server[i].attempts[l] + 1])
    /\ NextLetter(i, l)
    /\ UNCHANGED <<caller, history>>

\* Mutation of OutOfRetries: the last delay is never used.
OneTooFew(attempts) == attempts >= Retries

\* BACKOFF_MS[attempts - 1] is undefined.
OutOfRetries(attempts) == attempts > Retries

reschedule(i, l) ==
    LET attempts == server[i].attempts[l] + 1 IN
    /\ server[i].at = "failed"
    /\ At(i, l)
    /\ Update(l, IF OutOfRetries(attempts)
                 THEN [letter[l] EXCEPT !.status = "FAILED",
                                        !.attempts = attempts]
                 ELSE [letter[l] EXCEPT !.status = "PENDING",
                                        !.attempts = attempts, !.due = FALSE])
    /\ NextLetter(i, l)
    /\ UNCHANGED <<caller, history>>

\* A statement fails.  Recording a success is inside attempt()'s try, so the
\* letter is rescheduled; anywhere else the whole drain is given up.
DatabaseFails(i) ==
    /\ server[i].at \notin {"idle", "sending", "sent"}
    /\ Incident("database")
    /\ server' = [server EXCEPT ![i] = AtRest(TRUE, @.configured)]
    /\ UNCHANGED <<letter, caller, delivered, failures>>

RecordFails(i, l) ==
    /\ server[i].at = "sent"
    /\ At(i, l)
    /\ Incident("database")
    /\ Failed(i, l)
    /\ UNCHANGED <<letter, caller, delivered>>

\* onModuleInit: SMTP is looked up, and the first drain starts at once.
Boot(i, configured) ==
    /\ ~server[i].up
    /\ server' = [server EXCEPT ![i] = drain(AtRest(TRUE, configured))]
    /\ UNCHANGED <<letter, caller, history>>

\* The process ends, by a crash or a redeployment: nothing enables the
\* shutdown hooks, so onModuleDestroy() does not wait for the drain.
Stop(i) ==
    /\ server[i].up
    /\ Incident("stop")
    /\ server' = [server EXCEPT ![i] = AtRest(FALSE, FALSE)]
    /\ caller' = [c \in Callers |->
            IF caller[c].server = i THEN Idle ELSE caller[c]]
    /\ UNCHANGED <<letter, delivered, failures>>

InFlight(i, l) == server[i].at \in {"sending", "sent", "failed"} /\ At(i, l)

BecomesDue(l) ==
    /\ letter[l].status \in {"PENDING", "SENDING"}
    /\ ~letter[l].due
    /\ letter' = [letter EXCEPT ![l].due = TRUE]
    /\ UNCHANGED <<server, caller, delivered, failures>>

\* A delay is over, or a claim whose drain is gone has grown old.
TimePasses(l) ==
    /\ \A i \in Servers : ~InFlight(i, l)
    /\ BecomesDue(l)
    /\ UNCHANGED incidents

\* A send takes longer than STUCK_AFTER_MS (nodemailer gives up on a silent
\* socket after ten minutes).
Hang(l) ==
    /\ \E i \in Servers : InFlight(i, l)
    /\ BecomesDue(l)
    /\ Incident("hang")

-----------------------------------------------------------------------------
(* Specification *)

Init ==
    /\ letter = [l \in Letters |-> Free]
    /\ server = [i \in Servers |-> AtRest(FALSE, FALSE)]
    /\ caller = [c \in Callers |-> Idle]
    /\ delivered = [l \in Letters |-> 0]
    /\ failures = [l \in Letters |-> 0]
    /\ incidents = 0

Ask(c) ==
    \E i \in Servers :
        \/ \E topic \in Topics : send(c, i, topic) \/ sendForced(c, i, topic)
        \/ \E l \in Letters : retryOutboxLetter(c, i, l)

Answer(c) ==
    \/ Check(c)
    \/ Requeue(c)
    \/ \E l \in Letters : Queue(c, l)

Drain(i) ==
    \/ releaseStuck(i)
    \/ runDrain(i)
    \/ \E l \in Letters :
        \/ attempt(i, l)
        \/ Accepted(i, l) \/ Rejected(i, l)
        \/ MarkSent(i, l) \/ reschedule(i, l)

Trouble(i) ==
    \/ Stop(i)
    \/ DatabaseFails(i)
    \/ \E l \in Letters : AnswerLost(i, l) \/ RecordFails(i, l)

Next ==
    \/ \E c \in Callers : Ask(c) \/ Answer(c) \/ QueueFails(c)
    \/ clearSettledLetters
    \/ \E i \in Servers :
        \/ Tick(i) \/ Drain(i) \/ Trouble(i)
        \/ \E configured \in Configured : Boot(i, configured)
    \/ \E l \in Letters : TimePasses(l) \/ Hang(l)

Spec == Init /\ [][Next]_vars

\* The timer fires, statements and SMTP exchanges end (nodemailer has its own
\* timeouts), delays pass, and Docker restarts the process.
Fairness ==
    /\ \A i \in Servers :
        /\ WF_vars(Tick(i))
        /\ WF_vars(Drain(i))
        /\ WF_vars(\E configured \in Configured : Boot(i, configured))
    /\ \A l \in Letters : WF_vars(TimePasses(l))

FairSpec == Spec /\ Fairness

-----------------------------------------------------------------------------
(* Properties *)

\* The table, the drains and the calls have the shapes given above, and a drain
\* is at work on a letter exactly as long as it has letters left.
TypeOK ==
    /\ letter \in [Letters -> Letter]
    /\ server \in [Servers -> Server]
    /\ \A i \in Servers :
          server[i].batch # {} <=>
              server[i].at \in {"attempt", "sending", "sent", "failed"}
    /\ caller \in [Callers -> Caller]
    /\ delivered \in [Letters -> Nat]
    /\ failures \in [Letters -> Nat]
    /\ incidents \in 0 .. MaxIncidents

\* However many dispatchers race for the table, a letter reaches its reader
\* once, and once more at most for each incident: a crash or a database error
\* in mid-send, an answer SMTP failed to give, a send that hung, an admin
\* asking for it again (the conditional claim in attempt).
NoNeedlessDuplicate == \A l \in Letters : delivered[l] <= 1 + incidents

\* A letter marked as sent was taken by SMTP, and one marked as failed was
\* tried at least as often as the backoff has delays, whatever copies of the row
\* drains carry about and however often an admin asked for it again.  (A retry
\* by hand of a letter that a drain is at work on may get fewer attempts.)
OutcomesAreTrue ==
    /\ \A l \in Letters : letter[l].status = "SENT" => delivered[l] > 0
    /\ \A l \in Letters : letter[l].status = "FAILED" => failures[l] > Retries

\* What the table and the readers' inboxes say of each other: both of the above.
DeliveriesAreTrue == NoNeedlessDuplicate /\ OutcomesAreTrue

\* Every letter written down is eventually sent or given up on (or cleared from
\* the log): none is left in the queue or in SENDING by a crash (releaseStuck).
EveryLetterSettles ==
    \A l \in Letters :
        letter[l].status = "PENDING" ~>
            letter[l].status \in {"SENT", "FAILED", "GONE"}

\* Automatic sends are deduplicated per order and kind: the customer does not
\* get the same letter twice, however the calls that ask for it and the drains
\* that send it are interleaved (alreadySent, and save after it).  Before the
\* first incident only: a letter delivered but not recorded may be given up on,
\* and then no longer counts.
OneLetterEach ==
    \A l, m \in Letters :
        /\ incidents = 0
        /\ l # m /\ letter[l].topic = letter[m].topic
        /\ ~letter[l].forced /\ ~letter[m].forced
        => delivered[l] = 0 \/ delivered[m] = 0

\* No letter is tried more than five times.
FiveAttempts == \A l \in Letters : letter[l].attempts <= 5

\* No receipt is delivered twice because two dispatchers raced for its row.
NobodyGetsItTwice == \A l \in Letters : delivered[l] <= 1

\* A process that is shut down leaves no letter of its own in SENDING.
ShutdownWaits ==
    [][\A i \in Servers : Stop(i) =>
          \A l \in Letters : InFlight(i, l) => letter[l].status # "SENDING"]_vars

-----------------------------------------------------------------------------
(* Inductive invariant, when nothing goes wrong: what MailProofs proves     *)
(* NobodyGetsItTwice from.                                                  *)

\* A letter is in SENDING exactly as long as some drain holds it, its claim is
\* never stale, and no two drains hold it.
HeldInSending ==
    \A l \in Letters :
        /\ letter[l].status = "SENDING"
              => ~letter[l].due /\ \E i \in Servers : InFlight(i, l)
        /\ \A i \in Servers : InFlight(i, l) => letter[l].status = "SENDING"

OneHolder ==
    \A l \in Letters, i, j \in Servers : InFlight(i, l) /\ InFlight(j, l) => i = j

\* A letter was delivered only if it is marked so, or is about to be.
DeliveredOnce ==
    \A l \in Letters :
        /\ delivered[l] <= 1
        /\ letter[l].status \in {"FREE", "PENDING"} => delivered[l] = 0
        /\ \A i \in Servers :
              InFlight(i, l) /\ server[i].at # "sent" => delivered[l] = 0

DownRests == \A i \in Servers : server[i].up \/ server[i] = AtRest(FALSE, FALSE)

NobodyRetries == \A c \in Callers : caller[c].at # "retry"

MailInv ==
    /\ TypeOK
    /\ HeldInSending
    /\ OneHolder
    /\ DeliveredOnce
    /\ DownRests
    /\ NobodyRetries

-----------------------------------------------------------------------------
(* Inductive invariants, whatever goes wrong: what MailProofs proves        *)
(* OutcomesAreTrue and NoNeedlessDuplicate from.                            *)

\* The attempts that rows and drains count were made, and a drain that is to
\* record an outcome has seen it.
CountsAreTrue ==
    \A l \in Letters :
        /\ letter[l].status \notin {"SENT", "GONE"} => letter[l].attempts <= failures[l]
        /\ \A i \in Servers :
            /\ server[i].attempts[l] <= failures[l]
            /\ server[i].at = "failed" /\ At(i, l) => server[i].attempts[l] < failures[l]
            /\ server[i].at = "sent" /\ At(i, l) => delivered[l] > 0

OutcomeInv == TypeOK /\ CountsAreTrue /\ OutcomesAreTrue

\* What may still deliver a letter once without a further incident: its row,
\* if a drain can claim it now or once its claim has grown old; a drain that
\* holds it and has not had SMTP's yes; an admin's retry.
Claims(l) ==
    LET row == letter[l] IN
    IF \/ row.status \in {"FREE", "PENDING"}
       \/ row.status = "SENDING" /\ (row.due \/ \A i \in Servers : ~InFlight(i, l))
    THEN 1 ELSE 0

Holders(l) == {i \in Servers : InFlight(i, l) /\ server[i].at # "sent"}

Retriers(l) == {c \in Callers : caller[c].at = "retry" /\ caller[c].letter = l}

\* Each delivery, made or to come, is the first or has an incident of its own.
Paid ==
    \A l \in Letters :
        delivered[l] + Claims(l) + Cardinality(Holders(l)) + Cardinality(Retriers(l))
            <= 1 + incidents

DuplicateInv == TypeOK /\ DownRests /\ Paid

=============================================================================
