----------------------------- MODULE MailProofs -----------------------------
(***************************************************************************)
(* The types of MailOutbox, and that no number of dispatchers racing for   *)
(* the table delivers a letter twice, as long as nothing goes wrong.       *)
(***************************************************************************)
EXTENDS MailOutbox, FiniteSetTheorems, TLAPS

-----------------------------------------------------------------------------
(* Type correctness *)

\* A dispatcher at rest is well formed.
LEMMA AtRestType ==
    ASSUME NEW up \in BOOLEAN, NEW configured \in BOOLEAN
    PROVE  /\ AtRest(up, configured) \in Server
           /\ AtRest(up, configured).at = "idle"
           /\ AtRest(up, configured).batch = {}
BY DEF AtRest, Server

\* Starting a drain keeps a dispatcher well formed, and gives it no letters.
LEMMA DrainType ==
    ASSUME NEW process \in Server
    PROVE  /\ drain(process) \in Server
           /\ drain(process).batch = process.batch
           /\ \/ drain(process) = process
              \/ process.at = "idle" /\ drain(process).at = "release"
BY DEF drain, Server

\* A call that is over, and a row not given out, are well formed.
LEMMA EmptyTypes == Idle \in Caller /\ Free \in Letter
BY DEF Idle, Caller, Free, Letter, MailStatus

AtWork == {"attempt", "sending", "sent", "failed"}

Batches(s) == s.batch # {} <=> s.at \in AtWork

\* On to the next letter: the drain is at work as long as letters are left.
LEMMA NextLetterType ==
    ASSUME TypeOK, NEW i \in Servers, NEW l \in Letters, At(i, l), NextLetter(i, l)
    PROVE  /\ server' \in [Servers -> Server]
           /\ \A j \in Servers : Batches(server'[j])
<1>1. server[i] \in Server
  BY DEF TypeOK
<1> DEFINE new == [server[i] EXCEPT
                     !.batch = @ \ {l}, !.attempts[l] = 0,
                     !.at = IF server[i].batch = {l} THEN "idle" ELSE "attempt"]
<1>2. new \in Server
  BY <1>1 DEF Server
<1>3. server' = [server EXCEPT ![i] = new]
  BY DEF NextLetter
<1>4. new.batch = server[i].batch \ {l}
      /\ new.at = IF server[i].batch = {l} THEN "idle" ELSE "attempt"
  BY <1>1 DEF Server
<1>5. Batches(new)
  BY <1>4 DEF Batches, AtWork, At
<1> HIDE DEF new
<1> QED
  BY <1>2, <1>3, <1>5 DEF TypeOK, Batches, AtWork

\* A dispatcher, other things being equal, may be replaced by a consistent one.
LEMMA ServerType ==
    ASSUME TypeOK, NEW i \in Servers, NEW new, new \in Server, Batches(new),
           server' = [server EXCEPT ![i] = new]
    PROVE  /\ server' \in [Servers -> Server]
           /\ \A j \in Servers : Batches(server'[j])
BY DEF TypeOK, Batches, AtWork

\* A dispatcher moves on to another stage of the same drain.
LEMMA GotoType ==
    ASSUME TypeOK, NEW i \in Servers, NEW at,
           at \in {"release", "find"} \cup AtWork,
           at \in AtWork <=> server[i].at \in AtWork,
           Goto(i, at)
    PROVE  /\ server' \in [Servers -> Server]
           /\ \A j \in Servers : Batches(server'[j])
<1> DEFINE new == [server[i] EXCEPT !.at = at]
<1>1. new \in Server /\ new.at = at /\ new.batch = server[i].batch
  BY DEF TypeOK, Server, AtWork
<1>2. server' = [server EXCEPT ![i] = new]
  BY DEF Goto
<1>3. Batches(new)
  BY <1>1 DEF TypeOK, Batches, AtWork
<1> HIDE DEF new
<1> QED
  BY <1>1, <1>2, <1>3, ServerType

\* A drain is started, or was already running.
LEMMA NudgeType ==
    ASSUME TypeOK, NEW i \in Servers, server' = [server EXCEPT ![i] = drain(@)]
    PROVE  /\ server' \in [Servers -> Server]
           /\ \A j \in Servers : Batches(server'[j])
<1>1. server[i] \in Server /\ Batches(server[i])
  BY DEF TypeOK, Batches, AtWork
<1>2. drain(server[i]) \in Server /\ Batches(drain(server[i]))
  BY <1>1, DrainType DEF Batches, AtWork
<1> QED
  BY <1>2, ServerType

\* Rows stay rows when their status, attempts or due time change.
LEMMA RowType ==
    ASSUME NEW row \in Letter, NEW status \in MailStatus \cup {"GONE"},
           NEW attempts \in Nat, NEW due \in BOOLEAN
    PROVE  /\ [row EXCEPT !.status = status] \in Letter
           /\ [row EXCEPT !.due = due] \in Letter
           /\ [row EXCEPT !.status = status, !.due = due] \in Letter
           /\ [row EXCEPT !.status = status, !.attempts = attempts] \in Letter
           /\ [row EXCEPT !.status = status, !.attempts = attempts, !.due = due]
                 \in Letter
BY DEF Letter

\* Calls and servers keep their types: every operation of MailService.
LEMMA CallerType ==
    ASSUME TypeOK, NEW c \in Callers, Ask(c) \/ Answer(c) \/ QueueFails(c)
    PROVE  TypeOK'
<1>1. ASSUME NEW i \in Servers, NEW topic \in Topics,
             send(c, i, topic) \/ sendForced(c, i, topic)
      PROVE  TypeOK'
  <2> DEFINE call(at, forced) ==
                [at |-> at, server |-> i, topic |-> topic, forced |-> forced,
                 letter |-> None]
  <2>0. call("check", FALSE) \in Caller /\ call("save", TRUE) \in Caller
    BY DEF Caller
  <2>1. caller' \in [Callers -> Caller]
    BY <1>1, <2>0 DEF TypeOK, send, sendForced, Call
  <2> QED
    BY <1>1, <2>1 DEF TypeOK, send, sendForced, history
<1>2. ASSUME NEW i \in Servers, NEW l \in Letters, retryOutboxLetter(c, i, l)
      PROVE  TypeOK'
  <2>1. letter[l].topic \in Topics \cup {None}
    BY DEF TypeOK, Letter
  <2>2. caller' \in [Callers -> Caller]
    BY <1>2, <2>1 DEF TypeOK, retryOutboxLetter, Call, Caller
  <2>3. incidents' \in 0 .. MaxIncidents
    BY <1>2, MailAssumption DEF TypeOK, retryOutboxLetter, Incident
  <2> QED
    BY <1>2, <2>2, <2>3 DEF TypeOK, retryOutboxLetter
<1>3. CASE Check(c)
  <2>1. caller' \in [Callers -> Caller]
    BY <1>3, EmptyTypes DEF TypeOK, Check, Caller
  <2> QED
    BY <1>3, <2>1 DEF TypeOK, Check, history
<1>4. CASE Requeue(c)
  <2> DEFINE l == caller[c].letter
             i == caller[c].server
  <2>1. letter' \in [Letters -> Letter]
    <3>1. l \in Letters => [letter[l] EXCEPT !.status = "PENDING", !.attempts = 0,
                                            !.due = TRUE] \in Letter
      BY RowType DEF TypeOK, MailStatus
    <3> QED
      BY <1>4, <3>1 DEF Requeue, Update, TypeOK
  <2>2. failures' \in [Letters -> Nat]
    BY <1>4 DEF Requeue, history, TypeOK
  <2>3. /\ server' \in [Servers -> Server]
        /\ \A j \in Servers : Batches(server'[j])
    <3>1. CASE i \in Servers
      BY <1>4, <3>1, NudgeType DEF Requeue
    <3>2. CASE i \notin Servers
      BY <1>4, <3>2 DEF Requeue, TypeOK, Batches, AtWork
    <3> QED
      BY <3>1, <3>2
  <2>4. caller' \in [Callers -> Caller]
    BY <1>4, EmptyTypes DEF Requeue, Return, TypeOK
  <2> QED
    BY <1>4, <2>1, <2>2, <2>3, <2>4 DEF TypeOK, Requeue, history, Batches, AtWork
<1>5. ASSUME NEW l \in Letters, Queue(c, l)
      PROVE  TypeOK'
  <2> DEFINE i == caller[c].server
             row == [status |-> IF server[i].configured THEN "PENDING" ELSE "SKIPPED",
                     topic |-> caller[c].topic, forced |-> caller[c].forced,
                     attempts |-> 0, due |-> TRUE]
  <2>1. row \in Letter
    BY DEF TypeOK, Caller, Letter, MailStatus
  <2>2. letter' \in [Letters -> Letter]
    BY <1>5, <2>1 DEF Queue, TypeOK
  <2>3. /\ server' \in [Servers -> Server]
        /\ \A j \in Servers : Batches(server'[j])
    <3>1. CASE i \in Servers
      BY <1>5, <3>1, NudgeType DEF Queue
    <3>2. CASE i \notin Servers
      BY <1>5, <3>2 DEF Queue, TypeOK, Batches, AtWork
    <3> QED
      BY <3>1, <3>2
  <2>4. caller' \in [Callers -> Caller]
    BY <1>5, EmptyTypes DEF Queue, Return, TypeOK
  <2> QED
    BY <1>5, <2>2, <2>3, <2>4 DEF TypeOK, Queue, history, Batches, AtWork
<1>6. CASE QueueFails(c)
  BY <1>6, EmptyTypes, MailAssumption DEF TypeOK, QueueFails, Return, Incident
<1> QED
  BY <1>1, <1>2, <1>3, <1>4, <1>5, <1>6 DEF Ask, Answer

\* Every step of a drain keeps the types.
LEMMA DrainStepType ==
    ASSUME TypeOK, NEW i \in Servers, Drain(i) \/ Trouble(i)
    PROVE  TypeOK'
<1>0. /\ server[i] \in Server /\ Batches(server[i])
      /\ \A l \in Letters : letter[l] \in Letter
      /\ \A l \in Letters : server[i].attempts[l] \in Nat
  BY DEF TypeOK, Batches, AtWork, Server
<1>1. CASE releaseStuck(i)
  <2>1. letter' \in [Letters -> Letter]
    BY <1>0, <1>1, RowType DEF releaseStuck, MailStatus
  <2>2. /\ server' \in [Servers -> Server]
        /\ \A j \in Servers : Batches(server'[j])
    BY <1>1, GotoType DEF releaseStuck, AtWork
  <2> QED
    BY <1>1, <2>1, <2>2 DEF TypeOK, releaseStuck, history, Batches, AtWork
<1>2. CASE runDrain(i)
  <2> DEFINE batch == {l \in Due : Cardinality({m \in Due : m < l}) < BatchSize}
             new == [server[i] EXCEPT
                !.at = IF batch = {} THEN "idle" ELSE "attempt",
                !.batch = batch,
                !.attempts = [l \in Letters |->
                    IF l \in batch THEN letter[l].attempts ELSE 0]]
  <2>1. batch \subseteq Letters
    BY DEF Due, InState
  <2>2. [l \in Letters |-> IF l \in batch THEN letter[l].attempts ELSE 0]
            \in [Letters -> Nat]
    BY <1>0 DEF Letter
  <2>3. server' = [server EXCEPT ![i] = new]
    BY <1>2 DEF runDrain
  <2> HIDE DEF batch
  <2>4. new \in Server /\ Batches(new)
    BY <1>0, <2>1, <2>2 DEF Server, Batches, AtWork
  <2> HIDE DEF new
  <2>5. /\ server' \in [Servers -> Server]
        /\ \A j \in Servers : Batches(server'[j])
    BY <2>3, <2>4, ServerType
  <2> QED
    BY <1>2, <2>5 DEF TypeOK, runDrain, history, Batches, AtWork
<1>3. ASSUME NEW l \in Letters, attempt(i, l)
      PROVE  TypeOK'
  <2>0. [letter[l] EXCEPT !.status = "SENDING", !.due = FALSE] \in Letter
    BY <1>0, RowType DEF MailStatus
  <2>1. letter' \in [Letters -> Letter]
    BY <1>3, <2>0 DEF attempt, TypeOK
  <2>2. /\ server' \in [Servers -> Server]
        /\ \A j \in Servers : Batches(server'[j])
    BY <1>3, GotoType, NextLetterType DEF attempt, AtWork
  <2> QED
    BY <1>3, <2>1, <2>2 DEF TypeOK, attempt, history, Batches, AtWork
<1>4. ASSUME NEW l \in Letters,
             \/ Accepted(i, l) \/ Rejected(i, l)
             \/ AnswerLost(i, l) \/ RecordFails(i, l)
      PROVE  TypeOK'
  <2>1. /\ server' \in [Servers -> Server]
        /\ \A j \in Servers : Batches(server'[j])
    BY <1>4, GotoType
    DEF Accepted, Rejected, AnswerLost, RecordFails, Failed, AtWork
  <2>2. /\ delivered' \in [Letters -> Nat]
        /\ failures' \in [Letters -> Nat]
        /\ incidents' \in 0 .. MaxIncidents
    BY <1>4, MailAssumption
    DEF Accepted, Rejected, AnswerLost, RecordFails, Failed, Incident, TypeOK
  <2> QED
    BY <1>4, <2>1, <2>2
    DEF TypeOK, Accepted, Rejected, AnswerLost, RecordFails, Batches, AtWork
<1>5. ASSUME NEW l \in Letters, MarkSent(i, l) \/ reschedule(i, l)
      PROVE  TypeOK'
  <2> DEFINE attempts == server[i].attempts[l] + 1
  <2>0. /\ [letter[l] EXCEPT !.status = "SENT", !.attempts = attempts] \in Letter
        /\ [letter[l] EXCEPT !.status = "FAILED", !.attempts = attempts] \in Letter
        /\ [letter[l] EXCEPT !.status = "PENDING", !.attempts = attempts,
                             !.due = FALSE] \in Letter
    <3>1. letter[l] \in Letter /\ attempts \in Nat
      BY <1>0
    <3> HIDE DEF attempts
    <3> QED
      BY <3>1 DEF Letter, MailStatus
  <2>1. letter' \in [Letters -> Letter]
    <3>1. CASE MarkSent(i, l)
      BY <2>0, <3>1 DEF MarkSent, Update, TypeOK
    <3>2. CASE reschedule(i, l)
      BY <2>0, <3>2 DEF reschedule, Update, TypeOK
    <3> QED
      BY <1>5, <3>1, <3>2
  <2>2. /\ server' \in [Servers -> Server]
        /\ \A j \in Servers : Batches(server'[j])
    BY <1>5, NextLetterType DEF MarkSent, reschedule
  <2> QED
    BY <1>5, <2>1, <2>2 DEF TypeOK, MarkSent, reschedule, history, Batches, AtWork
<1>6. CASE Stop(i) \/ DatabaseFails(i)
  <2>1. \E up, configured \in BOOLEAN :
            server' = [server EXCEPT ![i] = AtRest(up, configured)]
    BY <1>0, <1>6 DEF Stop, DatabaseFails, Server
  <2>2. /\ server' \in [Servers -> Server]
        /\ \A j \in Servers : Batches(server'[j])
    BY <2>1, AtRestType, ServerType DEF Batches, AtWork
  <2>3. caller' \in [Callers -> Caller]
    BY <1>6, EmptyTypes DEF Stop, DatabaseFails, TypeOK
  <2>4. incidents' \in 0 .. MaxIncidents
    <3>1. incidents < MaxIncidents /\ incidents' = incidents + 1
      BY <1>6 DEF Stop, DatabaseFails, Incident
    <3> QED
      BY <3>1, MailAssumption DEF TypeOK
  <2> QED
    BY <1>6, <2>2, <2>3, <2>4 DEF TypeOK, Stop, DatabaseFails, Batches, AtWork
<1> QED
  BY <1>1, <1>2, <1>3, <1>4, <1>5, <1>6 DEF Drain, Trouble

\* Every step keeps the types.
LEMMA TypeStep == TypeOK /\ [Next]_vars => TypeOK'
<1> SUFFICES ASSUME TypeOK, [Next]_vars PROVE TypeOK'
  OBVIOUS
<1>1. ASSUME NEW c \in Callers, Ask(c) \/ Answer(c) \/ QueueFails(c)
      PROVE  TypeOK'
  BY <1>1, CallerType
<1>2. CASE clearSettledLetters
  <2>1. letter' \in [Letters -> Letter]
    BY <1>2, RowType DEF clearSettledLetters, TypeOK
  <2> QED
    BY <1>2, <2>1 DEF TypeOK, clearSettledLetters, history
<1>3. ASSUME NEW i \in Servers, Drain(i) \/ Trouble(i)
      PROVE  TypeOK'
  BY <1>3, DrainStepType
<1>4. ASSUME NEW i \in Servers, Tick(i)
      PROVE  TypeOK'
  BY <1>4, NudgeType DEF TypeOK, Tick, history, Batches, AtWork
<1>5. ASSUME NEW i \in Servers, NEW configured \in Configured, Boot(i, configured)
      PROVE  TypeOK'
  <2>1. configured \in BOOLEAN
    BY MailAssumption
  <2> DEFINE new == drain(AtRest(TRUE, configured))
  <2>2. new \in Server /\ Batches(new)
    BY <2>1, AtRestType, DrainType DEF Batches, AtWork
  <2>3. server' = [server EXCEPT ![i] = new]
    BY <1>5 DEF Boot
  <2> HIDE DEF new
  <2>4. /\ server' \in [Servers -> Server]
        /\ \A j \in Servers : Batches(server'[j])
    BY <2>2, <2>3, ServerType
  <2> QED
    BY <1>5, <2>4 DEF TypeOK, Boot, history, Batches, AtWork
<1>6. ASSUME NEW l \in Letters, TimePasses(l) \/ Hang(l)
      PROVE  TypeOK'
  <2>0. [letter[l] EXCEPT !.due = TRUE] \in Letter
    BY DEF TypeOK, Letter
  <2>1. letter' \in [Letters -> Letter]
    BY <1>6, <2>0 DEF TimePasses, Hang, BecomesDue, TypeOK
  <2>2. incidents' \in 0 .. MaxIncidents
    BY <1>6, MailAssumption DEF TimePasses, Hang, Incident, TypeOK
  <2> QED
    BY <1>6, <2>1, <2>2 DEF TypeOK, TimePasses, Hang, BecomesDue
<1>7. CASE UNCHANGED vars
  BY <1>7 DEF TypeOK, vars
<1> QED
  BY <1>1, <1>2, <1>3, <1>4, <1>5, <1>6, <1>7 DEF Next

\* The empty table, with every process down, is well formed.
LEMMA TypeInit == Init => TypeOK
<1> SUFFICES ASSUME Init PROVE TypeOK
  OBVIOUS
<1>1. \A i \in Servers : server[i] \in Server /\ Batches(server[i])
  BY AtRestType DEF Init, Batches, AtWork
<1>2. /\ server \in [Servers -> Server]
      /\ letter \in [Letters -> Letter]
      /\ caller \in [Callers -> Caller]
  BY <1>1, EmptyTypes DEF Init
<1>3. /\ delivered \in [Letters -> Nat]
      /\ failures \in [Letters -> Nat]
      /\ incidents \in 0 .. MaxIncidents
  BY MailAssumption DEF Init
<1> QED
  BY <1>1, <1>2, <1>3 DEF TypeOK, Batches, AtWork

\* The table, the drains and the calls always have their types, and a drain is
\* at work exactly as long as it has letters left.
THEOREM TypeCorrect == Spec => []TypeOK
BY TypeInit, TypeStep, PTL DEF Spec

-----------------------------------------------------------------------------
(* Delivery *)

Delivery == HeldInSending /\ OneHolder /\ DeliveredOnce

\* A step after which every drain holds what it held, and no letter entered or
\* left SENDING or came back to the queue.
LEMMA QuietStep ==
    ASSUME MailInv,
           \A j \in Servers, m \in Letters :
               /\ InFlight(j, m)' <=> InFlight(j, m)
               /\ InFlight(j, m) => server'[j].at = server[j].at,
           UNCHANGED delivered,
           \A m \in Letters :
               \/ letter'[m].status = letter[m].status /\ letter'[m].due = letter[m].due
               \/ /\ letter[m].status # "SENDING" /\ letter'[m].status # "SENDING"
                  /\ letter'[m].status \in {"FREE", "PENDING"}
                        => letter[m].status \in {"FREE", "PENDING"}
    PROVE  Delivery'
<1>1. HeldInSending'
  BY DEF MailInv, HeldInSending
<1>2. OneHolder'
  BY DEF MailInv, OneHolder
<1>3. DeliveredOnce'
  BY DEF MailInv, DeliveredOnce, HeldInSending
<1> QED
  BY <1>1, <1>2, <1>3 DEF Delivery

\* A dispatcher that holds no letter, before and after, changes nobody's hold.
LEMMA NoHold ==
    ASSUME TypeOK, NEW i \in Servers, NEW new, server' = [server EXCEPT ![i] = new],
           server[i].at \notin {"sending", "sent", "failed"},
           new.at \notin {"sending", "sent", "failed"}
    PROVE  \A j \in Servers, m \in Letters :
               /\ InFlight(j, m)' <=> InFlight(j, m)
               /\ InFlight(j, m) => server'[j].at = server[j].at
<1>1. \A j \in Servers : server'[j] = IF j = i THEN new ELSE server[j]
  BY DEF TypeOK
<1> QED
  BY <1>1 DEF InFlight, At

\* Starting a drain changes nobody's hold.
LEMMA NudgeHold ==
    ASSUME TypeOK, NEW i \in Servers, server' = [server EXCEPT ![i] = drain(@)]
    PROVE  \A j \in Servers, m \in Letters :
               /\ InFlight(j, m)' <=> InFlight(j, m)
               /\ InFlight(j, m) => server'[j].at = server[j].at
<1>1. CASE drain(server[i]) = server[i]
  <2>1. server' = server
    BY <1>1 DEF TypeOK
  <2> QED
    BY <2>1 DEF InFlight, At
<1>2. CASE server[i].at = "idle" /\ drain(server[i]).at = "release"
  BY <1>2, NoHold
<1> QED
  BY <1>1, <1>2, DrainType DEF TypeOK

\* A drain is at work on one letter.
LEMMA OneLetter ==
    ASSUME TypeOK, NEW i \in Servers, NEW l \in Letters, NEW m \in Letters,
           At(i, l), At(i, m)
    PROVE  l = m
<1>1. l \in Nat /\ m \in Nat /\ l <= m /\ m <= l
  BY MailAssumption DEF At
<1> QED
  BY <1>1

\* What one drain does leaves the holds of the others alone.
LEMMA OthersHold ==
    ASSUME TypeOK, NEW i \in Servers, NEW new, server' = [server EXCEPT ![i] = new]
    PROVE  \A j \in Servers, m \in Letters : j # i =>
               /\ InFlight(j, m)' <=> InFlight(j, m)
               /\ server'[j].at = server[j].at
<1>1. \A j \in Servers : j # i => server'[j] = server[j]
  BY DEF TypeOK
<1> QED
  BY <1>1 DEF InFlight, At

\* The claim: a letter in the queue comes to be held by one drain.
LEMMA ClaimStep ==
    ASSUME MailInv, NEW i \in Servers, NEW l \in Letters, attempt(i, l)
    PROVE  Delivery'
<1>0. TypeOK
  BY DEF MailInv
<1>1. CASE Claimable(letter[l])
  <2> DEFINE new == [server[i] EXCEPT !.at = "sending"]
  <2>1. /\ server' = [server EXCEPT ![i] = new]
        /\ server'[i].at = "sending"
        /\ server'[i].batch = server[i].batch
    BY <1>0, <1>1 DEF attempt, Goto, TypeOK, Server
  <2> HIDE DEF new
  <2>2. \A m \in Letters : InFlight(i, m)' <=> m = l
    BY <1>0, <2>1, OneLetter DEF attempt, InFlight, At
  <2>3. \A j \in Servers, m \in Letters : j # i =>
            /\ InFlight(j, m)' <=> InFlight(j, m)
            /\ server'[j].at = server[j].at
    BY <1>0, <2>1, OthersHold
  <2>4. \A m \in Letters : ~InFlight(i, m)
    BY DEF attempt, InFlight
  <2>5. \A j \in Servers : ~InFlight(j, l)
    BY <1>1 DEF MailInv, HeldInSending, Claimable
  <2>6. /\ letter'[l].status = "SENDING" /\ ~letter'[l].due
        /\ \A m \in Letters : m # l => letter'[m] = letter[m]
    BY <1>0, <1>1 DEF attempt, TypeOK, Letter
  <2>7. delivered[l] = 0 /\ UNCHANGED delivered
    BY <1>1 DEF attempt, MailInv, DeliveredOnce, Claimable, history
  <2>8. HeldInSending'
    BY <2>2, <2>3, <2>4, <2>6 DEF MailInv, HeldInSending
  <2>9. OneHolder'
    BY <2>2, <2>3, <2>5 DEF MailInv, OneHolder
  <2>10. DeliveredOnce'
    BY <2>2, <2>3, <2>5, <2>6, <2>7 DEF MailInv, DeliveredOnce
  <2> QED
    BY <2>8, <2>9, <2>10 DEF Delivery
<1>2. CASE ~Claimable(letter[l])
  <2> DEFINE new == [server[i] EXCEPT
                !.batch = @ \ {l}, !.attempts[l] = 0,
                !.at = IF server[i].batch = {l} THEN "idle" ELSE "attempt"]
  <2>1. server' = [server EXCEPT ![i] = new]
    BY <1>2 DEF attempt, NextLetter
  <2>2. new.at \notin {"sending", "sent", "failed"}
    BY <1>0 DEF TypeOK, Server
  <2> HIDE DEF new
  <2>3. \A j \in Servers, m \in Letters :
            /\ InFlight(j, m)' <=> InFlight(j, m)
            /\ InFlight(j, m) => server'[j].at = server[j].at
    BY <1>0, <2>1, <2>2, NoHold DEF attempt
  <2> QED
    BY <1>2, <2>3, QuietStep DEF attempt, history
<1> QED
  BY <1>1, <1>2

\* SMTP answers: the letter stays with the drain that holds it.
LEMMA AnswerStep ==
    ASSUME MailInv, NEW i \in Servers, NEW l \in Letters,
           Accepted(i, l) \/ Rejected(i, l)
    PROVE  Delivery'
<1>0. TypeOK
  BY DEF MailInv
<1>1. PICK at \in {"sent", "failed"} :
          /\ Goto(i, at)
          /\ at = "sent" => delivered' = [delivered EXCEPT ![l] = @ + 1]
          /\ at = "failed" => UNCHANGED delivered
  BY DEF Accepted, Rejected, Failed
<1>2. InFlight(i, l) /\ server[i].at = "sending" /\ UNCHANGED letter
  BY DEF Accepted, Rejected, InFlight
<1> DEFINE new == [server[i] EXCEPT !.at = at]
<1>3. /\ server' = [server EXCEPT ![i] = new]
      /\ server'[i].at = at
      /\ server'[i].batch = server[i].batch
  BY <1>0, <1>1 DEF Goto, TypeOK, Server
<1> HIDE DEF new
<1>4. \A m \in Letters : InFlight(i, m)' <=> InFlight(i, m)
  BY <1>2, <1>3 DEF InFlight, At
<1>5. \A j \in Servers, m \in Letters : j # i =>
          /\ InFlight(j, m)' <=> InFlight(j, m)
          /\ server'[j].at = server[j].at
  BY <1>0, <1>3, OthersHold
<1>6. delivered[l] = 0 /\ letter[l].status = "SENDING"
  BY <1>2 DEF MailInv, DeliveredOnce, HeldInSending
<1>7. /\ at = "sent" => delivered'[l] = 1
      /\ at = "failed" => delivered'[l] = 0
      /\ \A m \in Letters : m # l => delivered'[m] = delivered[m]
  BY <1>0, <1>1, <1>6 DEF TypeOK
<1>8. HeldInSending'
  BY <1>2, <1>4, <1>5 DEF MailInv, HeldInSending
<1>9. OneHolder'
  BY <1>4, <1>5 DEF MailInv, OneHolder
<1>10. \A j \in Servers : InFlight(j, l) => j = i
  BY <1>2 DEF MailInv, OneHolder
<1>11. \A m \in Letters : InFlight(i, m) => m = l
  BY <1>0, <1>2, OneLetter DEF InFlight
<1>12. DeliveredOnce'
  BY <1>2, <1>3, <1>4, <1>5, <1>6, <1>7, <1>10, <1>11 DEF MailInv, DeliveredOnce
<1> QED
  BY <1>8, <1>9, <1>12 DEF Delivery

\* The outcome is recorded: the drain lets go of the letter.
LEMMA RecordStep ==
    ASSUME MailInv, NEW i \in Servers, NEW l \in Letters,
           MarkSent(i, l) \/ reschedule(i, l)
    PROVE  Delivery'
<1>0. TypeOK
  BY DEF MailInv
<1>1. /\ InFlight(i, l) /\ NextLetter(i, l) /\ UNCHANGED delivered
      /\ letter[l].status = "SENDING"
  BY DEF MarkSent, reschedule, InFlight, history, MailInv, HeldInSending
<1>2. \A m \in Letters : m # l => letter'[m] = letter[m]
  BY <1>0 DEF MarkSent, reschedule, Update, TypeOK
<1>3. /\ letter'[l].status \in {"SENT", "FAILED", "PENDING"}
      /\ letter'[l].status = "PENDING" => delivered[l] = 0
  <2>1. Exists(l)
    BY <1>1 DEF Exists, MailStatus
  <2>2. CASE MarkSent(i, l)
    BY <1>0, <2>1, <2>2 DEF MarkSent, Update, TypeOK, Letter
  <2>3. CASE reschedule(i, l)
    <3>1. delivered[l] = 0
      BY <1>1, <2>3 DEF reschedule, MailInv, DeliveredOnce
    <3>2. letter'[l].status \in {"FAILED", "PENDING"}
      BY <1>0, <2>1, <2>3 DEF reschedule, Update, TypeOK, Letter
    <3> QED
      BY <3>1, <3>2
  <2> QED
    BY <2>2, <2>3
<1> DEFINE new == [server[i] EXCEPT
              !.batch = @ \ {l}, !.attempts[l] = 0,
              !.at = IF server[i].batch = {l} THEN "idle" ELSE "attempt"]
<1>4. server' = [server EXCEPT ![i] = new] /\ new.at \in {"idle", "attempt"}
  BY <1>0, <1>1 DEF NextLetter, TypeOK, Server
<1> HIDE DEF new
<1>5. server'[i] = new
  BY <1>0, <1>4 DEF TypeOK
<1>6. \A m \in Letters : ~InFlight(i, m)'
  BY <1>4, <1>5 DEF InFlight
<1>7. \A j \in Servers, m \in Letters : j # i =>
          /\ InFlight(j, m)' <=> InFlight(j, m)
          /\ server'[j].at = server[j].at
  BY <1>0, <1>4, OthersHold
<1>8. \A j \in Servers : InFlight(j, l) => j = i
  BY <1>1 DEF MailInv, OneHolder
<1>9. \A m \in Letters : InFlight(i, m) => m = l
  BY <1>0, <1>1, OneLetter DEF InFlight
<1>10. HeldInSending'
  BY <1>2, <1>3, <1>6, <1>7, <1>8, <1>9 DEF MailInv, HeldInSending
<1>11. OneHolder'
  BY <1>6, <1>7 DEF MailInv, OneHolder
<1>12. DeliveredOnce'
  BY <1>1, <1>2, <1>3, <1>6, <1>7 DEF MailInv, DeliveredOnce
<1> QED
  BY <1>10, <1>11, <1>12 DEF Delivery

\* The rest of the invariant: a process that is down is at rest, and no call is
\* in mid-retry.
Quiet == DownRests /\ NobodyRetries

\* A process that is down has no drain to start.
LEMMA NudgeDown ==
    ASSUME TypeOK, DownRests, NEW i \in Servers,
           server' = [server EXCEPT ![i] = drain(@)]
    PROVE  DownRests'
<1>1. \A j \in Servers : server'[j] = IF j = i THEN drain(server[i]) ELSE server[j]
  BY DEF TypeOK
<1>2. ~server[i].up => drain(server[i]) = server[i]
  BY DEF DownRests, AtRest, drain
<1>3. server[i].up => drain(server[i]).up
  BY DEF TypeOK, Server, drain
<1> QED
  BY <1>1, <1>2, <1>3 DEF DownRests

\* A process that is up stays up while its drain moves on.
LEMMA UpStays ==
    ASSUME TypeOK, DownRests, NEW i \in Servers, NEW new, new.up = server[i].up,
           server[i].at # "idle", server' = [server EXCEPT ![i] = new]
    PROVE  DownRests'
<1>1. \A j \in Servers : server'[j] = IF j = i THEN new ELSE server[j]
  BY DEF TypeOK
<1>2. server[i].up
  BY DEF DownRests, AtRest
<1> QED
  BY <1>1, <1>2 DEF DownRests

\* Nothing goes wrong at this step.
Calm == \A kind : ~Incident(kind)

\* That is so when nothing may go wrong, and of a step that counts no incident.
LEMMA CalmSteps ==
    /\ Incidents = {} => Calm
    /\ incidents \in Nat /\ incidents' = incidents => Calm
BY DEF Calm, Incident

\* A call: a letter is at most written down.
LEMMA CallStep ==
    ASSUME Calm, MailInv, NEW c \in Callers,
           Ask(c) \/ Answer(c) \/ QueueFails(c)
    PROVE  Delivery' /\ Quiet'
<1>0. TypeOK /\ DownRests /\ NobodyRetries
  BY DEF MailInv
<1>1. ASSUME NEW i \in Servers, NEW topic \in Topics,
             send(c, i, topic) \/ sendForced(c, i, topic)
      PROVE  Delivery' /\ Quiet'
  <2>1. UNCHANGED <<letter, server, delivered>>
    BY <1>1 DEF send, sendForced, history
  <2>2. Delivery'
    BY <2>1, QuietStep DEF InFlight, At
  <2>3. NobodyRetries'
    BY <1>0, <1>1 DEF send, sendForced, Call, NobodyRetries, TypeOK
  <2> QED
    BY <1>0, <2>1, <2>2, <2>3 DEF Quiet, DownRests
<1>2. ASSUME NEW i \in Servers, NEW l \in Letters
      PROVE  ~retryOutboxLetter(c, i, l)
  BY DEF Calm, retryOutboxLetter
<1>3. CASE Check(c)
  <2>1. UNCHANGED <<letter, server, delivered>>
    BY <1>3 DEF Check, history
  <2>2. Delivery'
    BY <2>1, QuietStep DEF InFlight, At
  <2>3. caller'[c] = Idle \/ caller'[c] = [caller[c] EXCEPT !.at = "save"]
    BY <1>0, <1>3 DEF Check, TypeOK
  <2>4. caller'[c].at # "retry"
    BY <1>0, <2>3 DEF Idle, TypeOK, Caller
  <2>5. \A d \in Callers : d # c => caller'[d] = caller[d]
    BY <1>0, <1>3 DEF Check, TypeOK
  <2> QED
    BY <1>0, <2>1, <2>2, <2>4, <2>5 DEF Quiet, DownRests, NobodyRetries
<1>4. ~Requeue(c)
  BY <1>0 DEF Requeue, NobodyRetries
<1>5. ASSUME NEW l \in Letters, Queue(c, l)
      PROVE  Delivery' /\ Quiet'
  <2> DEFINE i == caller[c].server
  <2>1. ASSUME i \in Servers
        PROVE  /\ \A j \in Servers, m \in Letters :
                      /\ InFlight(j, m)' <=> InFlight(j, m)
                      /\ InFlight(j, m) => server'[j].at = server[j].at
               /\ DownRests'
    <3>1. server' = [server EXCEPT ![i] = drain(@)]
      BY <1>5 DEF Queue
    <3> HIDE DEF i
    <3>2. \A j \in Servers, m \in Letters :
              /\ InFlight(j, m)' <=> InFlight(j, m)
              /\ InFlight(j, m) => server'[j].at = server[j].at
      BY <1>0, <2>1, <3>1, NudgeHold
    <3> QED
      BY <1>0, <2>1, <3>1, <3>2, NudgeDown
  <2>2. ASSUME i \notin Servers
        PROVE  server' = server
    BY <1>0, <1>5, <2>2 DEF Queue, TypeOK
  <2>3. /\ \A j \in Servers, m \in Letters :
              /\ InFlight(j, m)' <=> InFlight(j, m)
              /\ InFlight(j, m) => server'[j].at = server[j].at
        /\ DownRests'
    <3>1. CASE i \in Servers
      BY <2>1, <3>1
    <3>2. CASE server' = server
      BY <1>0, <3>2 DEF InFlight, At, DownRests
    <3> QED
      BY <2>2, <3>1, <3>2
  <2>4. \A m \in Letters :
            \/ letter'[m] = letter[m]
            \/ letter[m].status = "FREE" /\ letter'[m].status \in {"PENDING", "SKIPPED"}
    BY <1>0, <1>5 DEF Queue, TypeOK
  <2>5. Delivery'
    BY <1>5, <2>3, <2>4, QuietStep DEF Queue, history
  <2>6. NobodyRetries'
    BY <1>0, <1>5 DEF Queue, Return, Idle, NobodyRetries, TypeOK
  <2> QED
    BY <2>3, <2>5, <2>6 DEF Quiet
<1>6. ~QueueFails(c)
  BY DEF Calm, QueueFails
<1> QED
  BY <1>1, <1>2, <1>3, <1>4, <1>5, <1>6 DEF Ask, Answer

\* A step of a drain: at most one letter changes hands.
LEMMA DrainStep ==
    ASSUME Calm, MailInv, NEW i \in Servers, Drain(i) \/ Trouble(i)
    PROVE  Delivery' /\ Quiet'
<1>0. TypeOK /\ DownRests /\ NobodyRetries /\ server[i] \in Server
  BY DEF MailInv, TypeOK
<1>1. ~Trouble(i)
  BY DEF Calm, Trouble, Stop, DatabaseFails, AnswerLost, RecordFails
<1>2. UNCHANGED caller
  BY <1>1 DEF Drain, releaseStuck, runDrain, attempt, Accepted, Rejected,
              MarkSent, reschedule
<1>3. \E new : /\ server' = [server EXCEPT ![i] = new]
               /\ new.up = server[i].up
               /\ server[i].at # "idle"
  <2>1. \A at : [server[i] EXCEPT !.at = at].up = server[i].up
    BY <1>0 DEF Server
  <2>2. \A at : Goto(i, at) => server' = [server EXCEPT ![i] = [server[i] EXCEPT !.at = at]]
    BY DEF Goto
  <2>3. CASE releaseStuck(i)
    BY <2>1, <2>2, <2>3 DEF releaseStuck
  <2>4. CASE runDrain(i)
    <3> DEFINE batch == {l \in Due : Cardinality({m \in Due : m < l}) < BatchSize}
               new == [server[i] EXCEPT
                  !.at = IF batch = {} THEN "idle" ELSE "attempt",
                  !.batch = batch,
                  !.attempts = [l \in Letters |->
                      IF l \in batch THEN letter[l].attempts ELSE 0]]
    <3>1. server' = [server EXCEPT ![i] = new] /\ server[i].at # "idle"
      BY <2>4 DEF runDrain
    <3>2. new.up = server[i].up
      BY <1>0 DEF Server
    <3> QED
      BY <3>1, <3>2
  <2>5. ASSUME NEW l \in Letters, NextLetter(i, l), server[i].at # "idle"
        PROVE  \E new : /\ server' = [server EXCEPT ![i] = new]
                        /\ new.up = server[i].up
                        /\ server[i].at # "idle"
    <3> DEFINE new == [server[i] EXCEPT
                  !.batch = @ \ {l}, !.attempts[l] = 0,
                  !.at = IF server[i].batch = {l} THEN "idle" ELSE "attempt"]
    <3>1. server' = [server EXCEPT ![i] = new]
      BY <2>5 DEF NextLetter
    <3>2. new.up = server[i].up
      BY <1>0 DEF Server
    <3> QED
      BY <2>5, <3>1, <3>2
  <2>6. ASSUME NEW l \in Letters,
               \/ attempt(i, l) \/ Accepted(i, l) \/ Rejected(i, l)
               \/ MarkSent(i, l) \/ reschedule(i, l)
        PROVE  \E new : /\ server' = [server EXCEPT ![i] = new]
                        /\ new.up = server[i].up
                        /\ server[i].at # "idle"
    <3>1. /\ \/ NextLetter(i, l)
             \/ \E at : Goto(i, at)
          /\ server[i].at # "idle"
      BY <2>6 DEF attempt, Accepted, Rejected, Failed, MarkSent, reschedule
    <3>2. CASE NextLetter(i, l)
      BY <2>5, <3>1, <3>2
    <3>3. ASSUME NEW at, Goto(i, at)
          PROVE  \E new : /\ server' = [server EXCEPT ![i] = new]
                          /\ new.up = server[i].up
                          /\ server[i].at # "idle"
      <4> DEFINE new == [server[i] EXCEPT !.at = at]
      <4>1. server' = [server EXCEPT ![i] = new] /\ new.up = server[i].up
        BY <2>1, <2>2, <3>3
      <4> HIDE DEF new
      <4> QED
        BY <3>1, <4>1
    <3> QED
      BY <3>1, <3>2, <3>3
  <2> QED
    BY <1>1, <2>3, <2>4, <2>6 DEF Drain
<1>4. Quiet'
  BY <1>0, <1>2, <1>3, UpStays DEF Quiet, NobodyRetries
<1>5. CASE releaseStuck(i)
  <2>1. \A m \in Letters : ~Stuck(letter[m])
    BY DEF Stuck, MailInv, HeldInSending
  <2>2. \A m \in Letters : letter'[m] = letter[m]
    BY <1>5, <2>1 DEF releaseStuck
  <2> DEFINE new == [server[i] EXCEPT !.at = "find"]
  <2>3. server' = [server EXCEPT ![i] = new] /\ new.at = "find"
    BY <1>0, <1>5 DEF releaseStuck, Goto, Server
  <2> HIDE DEF new
  <2>4. \A j \in Servers, m \in Letters :
            /\ InFlight(j, m)' <=> InFlight(j, m)
            /\ InFlight(j, m) => server'[j].at = server[j].at
    BY <1>0, <1>5, <2>3, NoHold DEF releaseStuck
  <2> QED
    BY <1>4, <1>5, <2>2, <2>4, QuietStep DEF releaseStuck, history
<1>6. CASE runDrain(i)
  <2> DEFINE batch == {l \in Due : Cardinality({m \in Due : m < l}) < BatchSize}
             new == [server[i] EXCEPT
                !.at = IF batch = {} THEN "idle" ELSE "attempt",
                !.batch = batch,
                !.attempts = [l \in Letters |->
                    IF l \in batch THEN letter[l].attempts ELSE 0]]
  <2>1. server' = [server EXCEPT ![i] = new] /\ server[i].at = "find"
    BY <1>6 DEF runDrain
  <2>2. new.at \in {"idle", "attempt"}
    BY <1>0 DEF Server
  <2> HIDE DEF new
  <2>3. \A j \in Servers, m \in Letters :
            /\ InFlight(j, m)' <=> InFlight(j, m)
            /\ InFlight(j, m) => server'[j].at = server[j].at
    BY <1>0, <2>1, <2>2, NoHold
  <2> QED
    BY <1>4, <1>6, <2>3, QuietStep DEF runDrain, history
<1>7. ASSUME NEW l \in Letters,
             \/ attempt(i, l) \/ Accepted(i, l) \/ Rejected(i, l)
             \/ MarkSent(i, l) \/ reschedule(i, l)
      PROVE  Delivery'
  BY <1>7, ClaimStep, AnswerStep, RecordStep
<1> QED
  BY <1>1, <1>4, <1>5, <1>6, <1>7 DEF Drain

\* Without incidents every step keeps the invariant.
LEMMA MailStep == ASSUME Calm, MailInv, [Next]_vars PROVE MailInv'
<1>0. TypeOK /\ DownRests /\ NobodyRetries
  BY DEF MailInv
<1>1. ASSUME NEW c \in Callers, Ask(c) \/ Answer(c) \/ QueueFails(c)
      PROVE  Delivery' /\ Quiet'
  BY <1>1, CallStep
<1>2. ASSUME clearSettledLetters
      PROVE  Delivery' /\ Quiet'
  <2>1. \A m \in Letters :
            \/ letter'[m] = letter[m]
            \/ letter[m].status \in {"SENT", "SKIPPED"} /\ letter'[m].status = "GONE"
    BY <1>0, <1>2 DEF clearSettledLetters, TypeOK, Letter
  <2>2. UNCHANGED <<server, caller, delivered>>
    BY <1>2 DEF clearSettledLetters, history
  <2>3. Delivery'
    BY <2>1, <2>2, QuietStep DEF InFlight, At
  <2> QED
    BY <1>0, <2>2, <2>3 DEF Quiet, DownRests, NobodyRetries
<1>3. ASSUME NEW i \in Servers, Drain(i) \/ Trouble(i)
      PROVE  Delivery' /\ Quiet'
  BY <1>3, DrainStep
<1>4. ASSUME NEW i \in Servers, Tick(i)
      PROVE  Delivery' /\ Quiet'
  <2>1. /\ server' = [server EXCEPT ![i] = drain(@)]
        /\ UNCHANGED <<letter, caller, delivered>>
    BY <1>4 DEF Tick, history
  <2>2. \A j \in Servers, m \in Letters :
            /\ InFlight(j, m)' <=> InFlight(j, m)
            /\ InFlight(j, m) => server'[j].at = server[j].at
    BY <1>0, <2>1, NudgeHold
  <2> QED
    BY <1>0, <2>1, <2>2, QuietStep, NudgeDown DEF Quiet, NobodyRetries
<1>5. ASSUME NEW i \in Servers, NEW configured \in Configured, Boot(i, configured)
      PROVE  Delivery' /\ Quiet'
  <2> DEFINE new == drain(AtRest(TRUE, configured))
  <2>1. /\ server' = [server EXCEPT ![i] = new]
        /\ UNCHANGED <<letter, caller, delivered>>
    BY <1>5 DEF Boot, history
  <2>2. server[i].at = "idle"
    BY <1>0, <1>5 DEF Boot, DownRests, AtRest
  <2>3. new.at \in {"idle", "release"} /\ new.up
    BY DEF drain, AtRest
  <2> HIDE DEF new
  <2>4. \A j \in Servers, m \in Letters :
            /\ InFlight(j, m)' <=> InFlight(j, m)
            /\ InFlight(j, m) => server'[j].at = server[j].at
    BY <1>0, <2>1, <2>2, <2>3, NoHold
  <2>5. Delivery'
    BY <2>1, <2>4, QuietStep
  <2>6. DownRests'
    BY <1>0, <2>1, <2>3 DEF DownRests, TypeOK
  <2> QED
    BY <1>0, <2>1, <2>5, <2>6 DEF Quiet, NobodyRetries
<1>6. ASSUME NEW l \in Letters, TimePasses(l) \/ Hang(l)
      PROVE  Delivery' /\ Quiet'
  <2>1. TimePasses(l)
    BY <1>6 DEF Calm, Hang
  <2>2. letter[l].status # "SENDING"
    BY <2>1 DEF TimePasses, MailInv, HeldInSending
  <2>3. /\ letter'[l].status = letter[l].status
        /\ \A m \in Letters : m # l => letter'[m] = letter[m]
    BY <1>0, <2>1 DEF TimePasses, BecomesDue, TypeOK, Letter
  <2>4. UNCHANGED <<server, caller, delivered>>
    BY <2>1 DEF TimePasses, BecomesDue
  <2>5. Delivery'
    BY <2>2, <2>3, <2>4, QuietStep DEF InFlight, At
  <2> QED
    BY <1>0, <2>4, <2>5 DEF Quiet, DownRests, NobodyRetries
<1>7. ASSUME UNCHANGED vars
      PROVE  Delivery' /\ Quiet'
  BY <1>7 DEF MailInv, Delivery, Quiet, HeldInSending, OneHolder, DeliveredOnce,
              DownRests, NobodyRetries, InFlight, At, vars
<1>8. Delivery' /\ Quiet'
  BY <1>1, <1>2, <1>3, <1>4, <1>5, <1>6, <1>7 DEF Next
<1> QED
  BY <1>0, <1>8, TypeStep DEF MailInv, Delivery, Quiet

LEMMA MailInit == Init => MailInv
<1> SUFFICES ASSUME Init PROVE MailInv
  OBVIOUS
<1>1. TypeOK
  BY TypeInit
<1>2. /\ \A i \in Servers : server[i] = AtRest(FALSE, FALSE)
      /\ \A l \in Letters : letter[l].status = "FREE" /\ delivered[l] = 0
      /\ \A c \in Callers : caller[c].at = "idle"
  BY DEF Init, Free, Idle
<1>3. \A i \in Servers : server[i].at = "idle"
  BY <1>2 DEF AtRest
<1>4. \A i \in Servers, l \in Letters : ~InFlight(i, l)
  BY <1>3 DEF InFlight
<1>5. HeldInSending /\ OneHolder /\ DeliveredOnce
  BY <1>2, <1>4 DEF HeldInSending, OneHolder, DeliveredOnce
<1>6. DownRests /\ NobodyRetries
  BY <1>2 DEF DownRests, NobodyRetries
<1> QED
  BY <1>1, <1>5, <1>6 DEF MailInv

\* Without crashes, broken connections, sends that hang and letters sent again
\* by hand, the letter in SENDING is always held by exactly one dispatcher and
\* was not delivered before it was claimed, whatever the number of dispatchers.
THEOREM MailInvariant == ASSUME Incidents = {} PROVE Spec => []MailInv
<1>1. MailInv /\ [Next]_vars => MailInv'
  BY CalmSteps, MailStep
<1> QED
  BY <1>1, MailInit, PTL DEF Spec

\* Without incidents nobody gets the same letter twice: the conditional claim of
\* attempt() is enough, for any number of dispatchers, letters and callers.
THEOREM NobodyGetsItTwiceAlways ==
    ASSUME Incidents = {} PROVE Spec => []NobodyGetsItTwice
<1>1. MailInv => NobodyGetsItTwice
  BY DEF MailInv, DeliveredOnce, NobodyGetsItTwice
<1> QED
  BY <1>1, MailInvariant, PTL

-----------------------------------------------------------------------------
(* Outcomes, whatever goes wrong *)

\* A drain that may go on as s: it has seen what it is to record.
Seen(s) ==
    \A l \in Letters :
        /\ s.attempts[l] <= failures[l]
        /\ s.at = "failed" /\ l \in s.batch /\ (\A m \in s.batch : l <= m) =>
              s.attempts[l] < failures[l]
        /\ s.at = "sent" /\ l \in s.batch /\ (\A m \in s.batch : l <= m) =>
              delivered[l] > 0

\* A row of a letter that its history bears out.
BorneOut(row, l) ==
    /\ row.status \notin {"SENT", "GONE"} => row.attempts <= failures[l]
    /\ row.status = "SENT" => delivered[l] > 0
    /\ row.status = "FAILED" => failures[l] > Retries

\* The invariant, one drain and one row at a time.
LEMMA OutcomesSplit ==
    CountsAreTrue /\ OutcomesAreTrue <=>
        /\ \A i \in Servers : Seen(server[i])
        /\ \A l \in Letters : BorneOut(letter[l], l)
BY DEF CountsAreTrue, OutcomesAreTrue, Seen, BorneOut, At

\* History only grows: what it bore out, it bears out.
LEMMA HistoryGrows ==
    ASSUME TypeOK, [Next]_vars
    PROVE  /\ \A l \in Letters : delivered[l] <= delivered'[l] /\ failures[l] <= failures'[l]
           /\ incidents <= incidents'
<1>0. /\ \A l \in Letters : delivered[l] \in Nat /\ failures[l] \in Nat
      /\ delivered \in [Letters -> Nat] /\ failures \in [Letters -> Nat]
      /\ incidents \in Nat
  BY MailAssumption DEF TypeOK
<1>1. ASSUME NEW i \in Servers, NEW l \in Letters,
             Accepted(i, l) \/ Rejected(i, l) \/ AnswerLost(i, l) \/ RecordFails(i, l)
      PROVE  /\ \A m \in Letters : delivered[m] <= delivered'[m] /\ failures[m] <= failures'[m]
             /\ incidents <= incidents'
  BY <1>0, <1>1 DEF Accepted, Rejected, AnswerLost, RecordFails, Failed, Incident
<1>2. ASSUME UNCHANGED <<delivered, failures>>, incidents' \in {incidents, incidents + 1}
      PROVE  /\ \A m \in Letters : delivered[m] <= delivered'[m] /\ failures[m] <= failures'[m]
             /\ incidents <= incidents'
  BY <1>0, <1>2
<1>3. ASSUME NEW c \in Callers, Ask(c) \/ Answer(c) \/ QueueFails(c)
      PROVE  UNCHANGED <<delivered, failures>> /\ incidents' \in {incidents, incidents + 1}
  BY <1>3 DEF Ask, Answer, QueueFails, send, sendForced, retryOutboxLetter, Check, Requeue,
              Queue, Incident, history
<1>4. CASE clearSettledLetters \/ UNCHANGED vars
  BY <1>2, <1>4 DEF clearSettledLetters, vars, history
<1>5. ASSUME NEW i \in Servers,
             \/ Tick(i) \/ Stop(i) \/ DatabaseFails(i) \/ releaseStuck(i) \/ runDrain(i)
             \/ \E configured \in Configured : Boot(i, configured)
             \/ \E l \in Letters : attempt(i, l) \/ MarkSent(i, l) \/ reschedule(i, l)
      PROVE  UNCHANGED <<delivered, failures>> /\ incidents' \in {incidents, incidents + 1}
  BY <1>5 DEF Tick, Stop, DatabaseFails, releaseStuck, runDrain, Boot, attempt, MarkSent,
              reschedule, Incident, history
<1>6. ASSUME NEW l \in Letters, TimePasses(l) \/ Hang(l)
      PROVE  UNCHANGED <<delivered, failures>> /\ incidents' \in {incidents, incidents + 1}
  BY <1>6 DEF TimePasses, Hang, BecomesDue, Incident
<1> QED
  BY <1>1, <1>2, <1>3, <1>4, <1>5, <1>6 DEF Next, Drain, Trouble

\* It is enough to look at the drains and the rows that change.
LEMMA OutcomesKept ==
    ASSUME OutcomeInv, TypeOK', [Next]_vars,
           \A i \in Servers : server'[i] = server[i] \/ Seen(server[i])',
           \A l \in Letters : letter'[l] = letter[l] \/ BorneOut(letter[l], l)'
    PROVE  CountsAreTrue' /\ OutcomesAreTrue'
<1>0. /\ \A i \in Servers : Seen(server[i]) /\ server[i].attempts \in [Letters -> Nat]
      /\ \A l \in Letters : BorneOut(letter[l], l) /\ letter[l].attempts \in Nat
      /\ \A l \in Letters : delivered[l] \in Nat /\ failures[l] \in Nat
      /\ \A l \in Letters : delivered'[l] \in Nat /\ failures'[l] \in Nat
      /\ \A l \in Letters : delivered[l] <= delivered'[l] /\ failures[l] <= failures'[l]
  BY OutcomesSplit, HistoryGrows DEF OutcomeInv, TypeOK, Server, Letter
<1>1. ASSUME NEW i \in Servers PROVE Seen(server[i])'
  <2>1. CASE server'[i] = server[i]
    BY <1>0, <2>1 DEF Seen
  <2> QED BY <2>1
<1>2. ASSUME NEW l \in Letters PROVE BorneOut(letter[l], l)'
  <2>1. CASE letter'[l] = letter[l]
    BY <1>0, <2>1, MailAssumption DEF BorneOut
  <2> QED BY <2>1
<1>3. CountsAreTrue' /\ OutcomesAreTrue' <=>
        /\ \A i \in Servers : Seen(server[i])'
        /\ \A l \in Letters : BorneOut(letter[l], l)'
  BY DEF CountsAreTrue, OutcomesAreTrue, Seen, BorneOut, At
<1> QED BY <1>1, <1>2, <1>3

\* A drain that has nothing to record.
LEMMA NothingToRecord ==
    ASSUME TypeOK', NEW i \in Servers,
           \A l \in Letters : server'[i].attempts[l] <= failures'[l],
           server'[i].at \notin {"sent", "failed"}
    PROVE  Seen(server[i])'
BY DEF Seen

\* The calls: a letter that is written down, or queued again, was not tried yet.
LEMMA CallOutcomes ==
    ASSUME OutcomeInv, TypeOK', NEW c \in Callers, Ask(c) \/ Answer(c) \/ QueueFails(c)
    PROVE  CountsAreTrue' /\ OutcomesAreTrue'
<1>0. TypeOK /\ [Next]_vars
  BY DEF OutcomeInv, Next
<1>1. \A i \in Servers :
         \/ server'[i] = server[i]
         \/ server[i].at = "idle" /\ server'[i] = [server[i] EXCEPT !.at = "release"]
  <2> DEFINE Kept == \A i \in Servers :
         \/ server'[i] = server[i]
         \/ server[i].at = "idle" /\ server'[i] = [server[i] EXCEPT !.at = "release"]
  <2>1. CASE UNCHANGED server
    BY <2>1
  <2>2. ASSUME NEW j, server' = [server EXCEPT ![j] = drain(@)]
        PROVE  Kept
    BY <1>0, <2>2 DEF drain, TypeOK
  <2>3. CASE Ask(c) \/ QueueFails(c) \/ Check(c)
    BY <2>1, <2>3 DEF Ask, QueueFails, send, sendForced, retryOutboxLetter, Check
  <2>4. CASE Requeue(c)
    BY <2>2, <2>4 DEF Requeue
  <2>5. CASE \E l \in Letters : Queue(c, l)
    BY <2>2, <2>5 DEF Queue
  <2> QED BY <2>1, <2>3, <2>4, <2>5 DEF Answer
<1>2. ASSUME NEW i \in Servers PROVE server'[i] = server[i] \/ Seen(server[i])'
  <2>1. CASE server'[i] = [server[i] EXCEPT !.at = "release"]
    <3>1. server'[i].at = "release" /\ server'[i].attempts = server[i].attempts
      BY <1>0, <2>1 DEF TypeOK, Server
    <3>2. \A l \in Letters :
             /\ server[i].attempts[l] <= failures[l] /\ failures[l] <= failures'[l]
             /\ server[i].attempts[l] \in Nat /\ failures[l] \in Nat /\ failures'[l] \in Nat
      BY <1>0, HistoryGrows DEF OutcomeInv, CountsAreTrue, TypeOK, Server
    <3> QED BY <3>1, <3>2, NothingToRecord
  <2> QED BY <1>1, <2>1
<1>3. ASSUME NEW l \in Letters PROVE letter'[l] = letter[l] \/ BorneOut(letter[l], l)'
  <2>1. \/ letter'[l] = letter[l]
        \/ letter'[l].attempts = 0 /\ letter'[l].status \in {"PENDING", "SKIPPED"}
    <3>1. letter \in [Letters -> Letter] /\ letter[l] \in Letter
      BY <1>0 DEF TypeOK
    <3>2. CASE Ask(c) \/ QueueFails(c) \/ Check(c)
      BY <3>2 DEF Ask, QueueFails, send, sendForced, retryOutboxLetter, Check
    <3>3. CASE Requeue(c)
      BY <3>1, <3>3 DEF Requeue, Update, Letter
    <3>4. ASSUME NEW m \in Letters, Queue(c, m)
          PROVE  \/ letter'[l] = letter[l]
                 \/ letter'[l].attempts = 0 /\ letter'[l].status \in {"PENDING", "SKIPPED"}
      BY <3>1, <3>4 DEF Queue
    <3> QED BY <3>2, <3>3, <3>4 DEF Answer
  <2>2. failures'[l] \in Nat
    BY DEF TypeOK
  <2> QED BY <2>1, <2>2 DEF BorneOut
<1> QED BY <1>0, <1>2, <1>3, OutcomesKept

\* The drains: an attempt is counted before it is recorded.
LEMMA DrainOutcomes ==
    ASSUME OutcomeInv, TypeOK', NEW i \in Servers, Drain(i) \/ Trouble(i)
    PROVE  CountsAreTrue' /\ OutcomesAreTrue'
<1> DEFINE Goal == CountsAreTrue' /\ OutcomesAreTrue'
<1>0. /\ TypeOK /\ [Next]_vars
      /\ server[i] \in Server /\ Seen(server[i])
      /\ \A l \in Letters : letter[l] \in Letter /\ BorneOut(letter[l], l)
      /\ \A l \in Letters : failures[l] \in Nat /\ failures'[l] \in Nat
      /\ \A l \in Letters : delivered[l] \in Nat /\ delivered'[l] \in Nat
      /\ \A l \in Letters : server[i].attempts[l] \in Nat /\ letter[l].attempts \in Nat
      /\ \A l \in Letters : delivered[l] <= delivered'[l] /\ failures[l] <= failures'[l]
  <2>1. TypeOK /\ [Next]_vars
    BY DEF OutcomeInv, Next
  <2> QED BY <2>1, OutcomesSplit, HistoryGrows DEF OutcomeInv, TypeOK, Server, Letter
<1>1. ASSUME NEW new, server' = [server EXCEPT ![i] = new], Seen(server[i])',
             \A l \in Letters : letter'[l] = letter[l] \/ BorneOut(letter[l], l)'
      PROVE  Goal
  <2>1. \A j \in Servers : server'[j] = server[j] \/ Seen(server[j])'
    BY <1>0, <1>1 DEF TypeOK
  <2> QED BY <1>0, <1>1, <2>1, OutcomesKept
\* A drain that starts over, or goes on to the next letter.
<1>2. ASSUME NEW new, server' = [server EXCEPT ![i] = new],
             new.at \notin {"sent", "failed"},
             \A l \in Letters : new.attempts[l] = 0 \/ new.attempts[l] = server[i].attempts[l]
      PROVE  Seen(server[i])'
  <2>1. server'[i] = new
    BY <1>0, <1>2 DEF TypeOK
  <2>2. \A l \in Letters : server'[i].attempts[l] <= failures'[l]
    BY <1>0, <1>2, <2>1 DEF Seen
  <2> QED BY <1>2, <2>1, <2>2, NothingToRecord
<1>3. ASSUME NEW l \in Letters, NextLetter(i, l)
      PROVE  \E new : server' = [server EXCEPT ![i] = new] /\ Seen(server[i])'
  <2> DEFINE new == [server[i] EXCEPT
                !.batch = @ \ {l}, !.attempts[l] = 0,
                !.at = IF server[i].batch = {l} THEN "idle" ELSE "attempt"]
  <2>1. server' = [server EXCEPT ![i] = new]
    BY <1>3 DEF NextLetter
  <2>2. /\ new.at \notin {"sent", "failed"}
        /\ \A m \in Letters : new.attempts[m] = 0 \/ new.attempts[m] = server[i].attempts[m]
    BY <1>0 DEF Server
  <2> HIDE DEF new
  <2> QED BY <1>2, <2>1, <2>2
<1>4. ASSUME NEW at, Goto(i, at)
      PROVE  /\ server' = [server EXCEPT ![i] = [server[i] EXCEPT !.at = at]]
             /\ server'[i].at = at /\ server'[i].batch = server[i].batch
             /\ server'[i].attempts = server[i].attempts
  BY <1>0, <1>4 DEF Goto, Server, TypeOK
<1>5. CASE releaseStuck(i)
  <2>1. \A l \in Letters : BorneOut(letter[l], l)'
    <3>1. \A l \in Letters :
             \/ letter'[l] = letter[l]
             \/ /\ letter[l].status = "SENDING"
                /\ letter'[l] = [letter[l] EXCEPT !.status = "PENDING"]
      <4>1. letter' = [l \in Letters |->
                IF Stuck(letter[l]) THEN [letter[l] EXCEPT !.status = "PENDING"] ELSE letter[l]]
        BY <1>5 DEF releaseStuck
      <4>2. \A l \in Letters : Stuck(letter[l]) => letter[l].status = "SENDING"
        BY DEF Stuck
      <4> SUFFICES ASSUME NEW l \in Letters
                   PROVE  \/ letter'[l] = letter[l]
                          \/ /\ letter[l].status = "SENDING"
                             /\ letter'[l] = [letter[l] EXCEPT !.status = "PENDING"]
        OBVIOUS
      <4>3. CASE Stuck(letter[l])
        BY <4>1, <4>2, <4>3
      <4>4. CASE ~Stuck(letter[l])
        BY <4>1, <4>4
      <4> QED BY <4>3, <4>4
    <3>2. UNCHANGED <<delivered, failures>>
      BY <1>5 DEF releaseStuck, history
    <3>3. ASSUME NEW l \in Letters PROVE BorneOut(letter[l], l)'
      <4>1. \/ letter'[l] = letter[l]
            \/ /\ letter[l].status = "SENDING" /\ letter'[l].status = "PENDING"
               /\ letter'[l].attempts = letter[l].attempts
        BY <1>0, <3>1 DEF Letter
      <4> QED BY <1>0, <3>2, <4>1 DEF BorneOut
    <3> QED BY <3>3
  <2>2. Seen(server[i])'
    <3>1. Goto(i, "find")
      BY <1>5 DEF releaseStuck
    <3> DEFINE new == [server[i] EXCEPT !.at = "find"]
    <3>2. new.at = "find" /\ new.attempts = server[i].attempts
      BY <1>0 DEF Server
    <3>3. server' = [server EXCEPT ![i] = new]
      BY <1>4, <3>1
    <3> HIDE DEF new
    <3> QED BY <1>2, <3>2, <3>3
  <2> QED BY <1>1, <1>4, <1>5, <2>1, <2>2 DEF releaseStuck
<1>6. CASE runDrain(i)
  <2> DEFINE batch == {l \in Due : Cardinality({m \in Due : m < l}) < BatchSize}
             new == [server[i] EXCEPT
                !.at = IF batch = {} THEN "idle" ELSE "attempt",
                !.batch = batch,
                !.attempts = [l \in Letters |->
                    IF l \in batch THEN letter[l].attempts ELSE 0]]
  <2>1. server' = [server EXCEPT ![i] = new] /\ UNCHANGED <<letter, failures>>
    BY <1>6 DEF runDrain, history
  <2>2. \A l \in batch : letter[l].status = "PENDING"
    BY DEF Due, InState
  <2> HIDE DEF batch
  <2>3. /\ new.at \notin {"sent", "failed"}
        /\ \A l \in Letters : new.attempts[l] <= failures[l]
    <3>1. new.at = (IF batch = {} THEN "idle" ELSE "attempt")
      BY <1>0 DEF Server
    <3>2. new.attempts = [l \in Letters |-> IF l \in batch THEN letter[l].attempts ELSE 0]
      BY <1>0 DEF Server
    <3>3. \A l \in batch : l \in Letters => letter[l].attempts <= failures[l]
      BY <1>0, <2>2 DEF BorneOut
    <3> QED BY <1>0, <3>1, <3>2, <3>3
  <2> HIDE DEF new
  <2>4. server'[i] = new
    BY <1>0, <2>1 DEF TypeOK
  <2>5. Seen(server[i])'
    BY <2>1, <2>3, <2>4, NothingToRecord
  <2> QED BY <1>1, <2>1, <2>5
<1>7. ASSUME NEW l \in Letters, attempt(i, l)
      PROVE  Goal
  <2>1. \A m \in Letters : letter'[m] = letter[m] \/ BorneOut(letter[m], m)'
    <3>1. \A m \in Letters :
             \/ letter'[m] = letter[m]
             \/ /\ letter[m].status = "PENDING" /\ letter'[m].status = "SENDING"
                /\ letter'[m].attempts = letter[m].attempts
      BY <1>0, <1>7 DEF attempt, Claimable, TypeOK, Letter
    <3> QED BY <1>0, <3>1 DEF BorneOut
  <2>2. CASE Goto(i, "sending")
    BY <1>0, <1>1, <1>2, <1>4, <2>1, <2>2
  <2>3. CASE NextLetter(i, l)
    BY <1>1, <1>3, <2>1, <2>3
  <2> QED BY <1>7, <2>2, <2>3 DEF attempt
<1>8. ASSUME NEW l \in Letters, Accepted(i, l)
      PROVE  Goal
  <2>1. At(i, l) /\ Goto(i, "sent") /\ delivered'[l] > 0 /\ UNCHANGED <<letter, failures>>
    BY <1>0, <1>8 DEF Accepted, TypeOK
  <2>2. \A m \in Letters : At(i, m) => m = l
    BY <1>0, <2>1, OneLetter
  <2>3. Seen(server[i])'
    BY <1>0, <1>4, <2>1, <2>2 DEF Seen, At
  <2> QED BY <1>1, <1>4, <2>1, <2>3
<1>9. ASSUME NEW l \in Letters, Rejected(i, l) \/ AnswerLost(i, l) \/ RecordFails(i, l)
      PROVE  Goal
  <2>1. /\ At(i, l) /\ Goto(i, "failed") /\ UNCHANGED letter
        /\ failures'[l] = failures[l] + 1
    BY <1>0, <1>9 DEF Rejected, AnswerLost, RecordFails, Failed, TypeOK
  <2>2. \A m \in Letters : At(i, m) => m = l
    BY <1>0, <2>1, OneLetter
  <2>3. \A m \in Letters : server[i].attempts[m] <= failures[m]
    BY <1>0 DEF Seen
  <2>4. Seen(server[i])'
    BY <1>0, <1>4, <2>1, <2>2, <2>3 DEF Seen, At
  <2> QED BY <1>1, <1>4, <2>1, <2>4
<1>10. ASSUME NEW l \in Letters, MarkSent(i, l) \/ reschedule(i, l)
       PROVE  Goal
  <2>1. NextLetter(i, l) /\ At(i, l) /\ UNCHANGED <<delivered, failures>>
    BY <1>10 DEF MarkSent, reschedule, history
  <2>2. \A m \in Letters : m # l => letter'[m] = letter[m]
    BY <1>0, <1>10 DEF MarkSent, reschedule, Update, TypeOK
  <2>3. CASE MarkSent(i, l)
    <3>1. delivered[l] > 0
      BY <1>0, <2>1, <2>3 DEF MarkSent, Seen, At
    <3>2. letter'[l] = letter[l] \/ letter'[l].status = "SENT"
      BY <1>0, <2>3 DEF MarkSent, Update, TypeOK, Letter
    <3>3. letter'[l] = letter[l] \/ BorneOut(letter[l], l)'
      BY <2>1, <3>1, <3>2 DEF BorneOut
    <3> QED BY <1>1, <1>3, <2>1, <2>2, <3>3
  <2>4. CASE reschedule(i, l)
    <3>0. PICK attempts \in Nat : attempts = server[i].attempts[l] + 1
      BY <1>0
    <3>1. attempts <= failures[l]
      BY <1>0, <2>1, <2>4, <3>0 DEF reschedule, Seen, At
    <3>2. \/ letter'[l] = letter[l]
          \/ /\ letter'[l].attempts = attempts
             /\ letter'[l].status \in {"PENDING", "FAILED"}
             /\ letter'[l].status = "FAILED" => attempts > Retries
      BY <1>0, <2>4, <3>0 DEF reschedule, Update, OutOfRetries, TypeOK, Letter
    <3>3. letter'[l] = letter[l] \/ BorneOut(letter[l], l)'
      BY <1>0, <2>1, <3>1, <3>2, MailAssumption DEF BorneOut
    <3> QED BY <1>1, <1>3, <2>1, <2>2, <3>3
  <2> QED BY <1>10, <2>3, <2>4
<1>11. CASE Stop(i) \/ DatabaseFails(i)
  <2>1. /\ UNCHANGED letter
        /\ \E up, configured : server' = [server EXCEPT ![i] = AtRest(up, configured)]
    BY <1>11 DEF Stop, DatabaseFails
  <2>2. PICK up, configured : server' = [server EXCEPT ![i] = AtRest(up, configured)]
    BY <2>1
  <2>3. PICK new : new = AtRest(up, configured)
    OBVIOUS
  <2>4. /\ new.at \notin {"sent", "failed"}
        /\ \A l \in Letters : new.attempts[l] = 0
    BY <2>3 DEF AtRest
  <2>5. server' = [server EXCEPT ![i] = new]
    BY <2>2, <2>3
  <2>6. Seen(server[i])'
    BY <1>2, <2>4, <2>5
  <2> QED BY <1>1, <2>1, <2>5, <2>6
<1> QED
  BY <1>5, <1>6, <1>7, <1>8, <1>9, <1>10, <1>11 DEF Drain, Trouble

\* Every step keeps the outcomes true.
LEMMA OutcomeStep == OutcomeInv /\ [Next]_vars => OutcomeInv'
<1> SUFFICES ASSUME OutcomeInv, [Next]_vars PROVE OutcomeInv'
  OBVIOUS
<1>0. TypeOK /\ TypeOK'
  BY TypeStep DEF OutcomeInv
<1>1. \A l \in Letters : letter[l] \in Letter /\ failures'[l] \in Nat
  BY <1>0 DEF TypeOK
<1>2. CASE clearSettledLetters
  <2>1. \A l \in Letters : letter'[l] = letter[l] \/ letter'[l].status = "GONE"
    BY <1>1, <1>2 DEF clearSettledLetters, Letter
  <2>2. \A l \in Letters : letter'[l] = letter[l] \/ BorneOut(letter[l], l)'
    BY <2>1 DEF BorneOut
  <2>3. UNCHANGED server
    BY <1>2 DEF clearSettledLetters
  <2> QED BY <1>0, <2>2, <2>3, OutcomesKept DEF OutcomeInv
<1>3. ASSUME NEW l \in Letters, TimePasses(l) \/ Hang(l)
      PROVE  OutcomeInv'
  <2>1. \A m \in Letters : letter'[m] = letter[m] \/
           letter'[m] = [letter[m] EXCEPT !.due = TRUE]
    BY <1>0, <1>3 DEF TimePasses, Hang, BecomesDue, TypeOK
  <2>2. UNCHANGED <<server, delivered, failures>>
    BY <1>3 DEF TimePasses, Hang, BecomesDue
  <2>3. \A m \in Letters : BorneOut(letter[m], m)
    BY OutcomesSplit DEF OutcomeInv
  <2>4. \A m \in Letters : BorneOut(letter[m], m)'
    BY <1>1, <2>1, <2>2, <2>3 DEF BorneOut, Letter
  <2> QED BY <1>0, <2>2, <2>4, OutcomesKept DEF OutcomeInv
<1>4. ASSUME NEW i \in Servers, Tick(i) \/ \E configured \in Configured : Boot(i, configured)
      PROVE  OutcomeInv'
  <2>1. UNCHANGED <<letter, failures>>
    BY <1>4 DEF Tick, Boot, history
  <2>2. \A l \in Letters : server[i].attempts[l] <= failures[l] /\ 0 <= failures[l]
    BY <1>0 DEF OutcomeInv, CountsAreTrue, TypeOK
  <2>3. ASSUME NEW s \in {server[i]} \cup {AtRest(TRUE, configured) : configured \in Configured},
               s.at = "idle",
               server' = [server EXCEPT ![i] = drain(s)]
        PROVE  Seen(server[i])'
    <3>1. server'[i] = drain(s) /\ server[i] \in Server
      BY <1>0, <2>3 DEF TypeOK
    <3>2. drain(s).attempts = s.attempts /\ drain(s).at \in {"idle", "release"}
      BY <2>3, <3>1 DEF drain, AtRest, Server
    <3>3. \A l \in Letters : s.attempts[l] <= failures[l]
      BY <2>2 DEF AtRest
    <3> QED BY <1>0, <2>1, <3>1, <3>2, <3>3, NothingToRecord
  <2>4. \/ UNCHANGED server
        \/ Seen(server[i])' /\ \A j \in Servers : j # i => server'[j] = server[j]
    <3>1. CASE Tick(i)
      <4>1. server[i].at = "idle" /\ server' = [server EXCEPT ![i] = drain(server[i])]
        BY <3>1 DEF Tick, drain
      <4> QED BY <1>0, <2>3, <4>1 DEF TypeOK
    <3>2. ASSUME NEW configured \in Configured, Boot(i, configured)
          PROVE  Seen(server[i])' /\ \A j \in Servers : j # i => server'[j] = server[j]
      <4>1. AtRest(TRUE, configured).at = "idle"
        BY DEF AtRest
      <4> QED BY <1>0, <2>3, <3>2, <4>1 DEF Boot, TypeOK
    <3> QED BY <1>4, <3>1, <3>2
  <2> QED BY <1>0, <2>1, <2>4, OutcomesKept DEF OutcomeInv
<1>5. CASE UNCHANGED vars
  BY <1>0, <1>5, OutcomesKept DEF OutcomeInv, vars
<1>6. ASSUME CountsAreTrue' /\ OutcomesAreTrue' PROVE OutcomeInv'
  BY <1>0, <1>6 DEF OutcomeInv
<1> QED
  BY <1>0, <1>2, <1>3, <1>4, <1>5, <1>6, CallOutcomes, DrainOutcomes DEF Next

\* What the log says of a letter is so, whatever crashes, database errors, hung
\* sends and retries by hand drains meet.  (mail.dispatcher.ts:162-220.)
THEOREM OutcomesAlwaysTrue == Spec => []OutcomesAreTrue
<1>1. Init => OutcomeInv
  <2> SUFFICES ASSUME Init PROVE OutcomeInv
    OBVIOUS
  <2>1. \A i \in Servers : server[i].at = "idle" /\ \A l \in Letters : server[i].attempts[l] = 0
    BY DEF Init, AtRest
  <2>2. \A l \in Letters :
           letter[l].status = "FREE" /\ letter[l].attempts = 0 /\ failures[l] = 0
    BY DEF Init, Free
  <2>3. \A i \in Servers : Seen(server[i])
    BY <2>1, <2>2 DEF Seen
  <2>4. \A l \in Letters : BorneOut(letter[l], l)
    BY <2>2 DEF BorneOut
  <2> QED
    BY <2>3, <2>4, TypeInit, OutcomesSplit DEF OutcomeInv
<1>2. OutcomeInv => OutcomesAreTrue
  BY DEF OutcomeInv
<1> QED
  BY <1>1, <1>2, OutcomeStep, PTL DEF Spec

-----------------------------------------------------------------------------
(* Deliveries, whatever goes wrong *)

\* The letter's holders and retriers are finitely many.
LEMMA Countable ==
    ASSUME NEW l \in Letters
    PROVE  /\ IsFiniteSet(Holders(l)) /\ Cardinality(Holders(l)) \in Nat
           /\ IsFiniteSet(Retriers(l)) /\ Cardinality(Retriers(l)) \in Nat
           /\ IsFiniteSet(Holders(l)') /\ Cardinality(Holders(l)') \in Nat
           /\ IsFiniteSet(Retriers(l)') /\ Cardinality(Retriers(l)') \in Nat
           /\ Claims(l) \in {0, 1} /\ Claims(l)' \in {0, 1}
<1>1. /\ Holders(l) \subseteq Servers /\ Retriers(l) \subseteq Callers
      /\ Holders(l)' \subseteq Servers /\ Retriers(l)' \subseteq Callers
  BY DEF Holders, Retriers
<1>2. /\ IsFiniteSet(Holders(l)) /\ IsFiniteSet(Retriers(l))
      /\ IsFiniteSet(Holders(l)') /\ IsFiniteSet(Retriers(l)')
  BY <1>1, MailAssumption, FS_Subset
<1> QED BY <1>2, FS_CardinalityType DEF Claims

\* A set that gains or loses one member, or loses some.
LEMMA CountedByOne ==
    ASSUME NEW S, NEW T, IsFiniteSet(S), IsFiniteSet(T), NEW x
    PROVE  /\ T \subseteq S => Cardinality(T) <= Cardinality(S)
           /\ T \subseteq S \cup {x} => Cardinality(T) <= Cardinality(S) + 1
           /\ x \in S /\ T \subseteq S \ {x} => Cardinality(T) + 1 <= Cardinality(S)
<1>0. Cardinality(S) \in Nat /\ Cardinality(T) \in Nat
  BY FS_CardinalityType
<1>1. ASSUME T \subseteq S PROVE Cardinality(T) <= Cardinality(S)
  BY <1>1, FS_Subset
<1>2. ASSUME T \subseteq S \cup {x} PROVE Cardinality(T) <= Cardinality(S) + 1
  <2>1. IsFiniteSet(S \cup {x}) /\ Cardinality(S \cup {x}) <= Cardinality(S) + 1
    BY <1>0, FS_AddElement
  <2>2. Cardinality(T) <= Cardinality(S \cup {x}) /\ Cardinality(S \cup {x}) \in Nat
    BY <1>2, <2>1, FS_Subset, FS_CardinalityType
  <2> QED BY <1>0, <2>1, <2>2
<1>3. ASSUME x \in S, T \subseteq S \ {x} PROVE Cardinality(T) + 1 <= Cardinality(S)
  <2>1. IsFiniteSet(S \ {x}) /\ Cardinality(S \ {x}) = Cardinality(S) - 1
    BY <1>3, FS_RemoveElement
  <2>2. Cardinality(T) <= Cardinality(S \ {x}) /\ Cardinality(S \ {x}) \in Nat
    BY <1>3, <2>1, FS_Subset, FS_CardinalityType
  <2> QED BY <1>0, <2>1, <2>2
<1> QED BY <1>1, <1>2, <1>3

\* What a letter has cost and may still cost.
Cost(l) == delivered[l] + Claims(l) + Cardinality(Holders(l)) + Cardinality(Retriers(l))

\* A step that costs a letter nothing, or no more than the incident it is.
Affordable(l) == Cost(l)' + incidents <= Cost(l) + incidents'

\* It is enough that each letter's cost is covered.
LEMMA PaidKept ==
    ASSUME TypeOK, TypeOK', Paid, \A l \in Letters : Affordable(l)
    PROVE  Paid'
<1>1. incidents \in Nat /\ incidents' \in Nat
  BY MailAssumption DEF TypeOK
<1> SUFFICES ASSUME NEW l \in Letters
             PROVE  delivered'[l] + Claims(l)' + Cardinality(Holders(l)')
                      + Cardinality(Retriers(l)') <= 1 + incidents'
  BY DEF Paid
<1>2. /\ Claims(l) \in {0, 1} /\ Claims(l)' \in {0, 1}
      /\ Cardinality(Holders(l)) \in Nat /\ Cardinality(Holders(l)') \in Nat
      /\ Cardinality(Retriers(l)) \in Nat /\ Cardinality(Retriers(l)') \in Nat
      /\ delivered[l] \in Nat /\ delivered'[l] \in Nat
  BY Countable DEF TypeOK
<1>3. /\ delivered[l] + Claims(l) + Cardinality(Holders(l)) + Cardinality(Retriers(l))
            <= 1 + incidents
      /\ delivered'[l] + Claims(l)' + Cardinality(Holders(l)') + Cardinality(Retriers(l)')
            + incidents
         <= delivered[l] + Claims(l) + Cardinality(Holders(l)) + Cardinality(Retriers(l))
            + incidents'
  BY DEF Paid, Affordable, Cost
<1> QED BY <1>1, <1>2, <1>3

\* By how much the parts of a letter's cost grow at most, and what is paid.
Delivers(l, k) == delivered'[l] - delivered[l] <= k
Gains(l, k) == Claims(l)' - Claims(l) <= k
Holds(l, k) == Cardinality(Holders(l)') - Cardinality(Holders(l)) <= k
Asks(l, k) == Cardinality(Retriers(l)') - Cardinality(Retriers(l)) <= k
Pays(k) == k <= incidents' - incidents

\* The price list: what one part gains another one loses, or an incident pays for.
LEMMA Prices ==
    ASSUME TypeOK, TypeOK', NEW l \in Letters
    PROVE  /\ Delivers(l, 0) /\ Gains(l, 0) /\ Holds(l, 0) /\ Asks(l, 0) /\ Pays(0)
              => Affordable(l)
           /\ Delivers(l, 0) /\ Gains(l, 1) /\ Holds(l, 0) /\ Asks(l, -1) /\ Pays(0)
              => Affordable(l)
           /\ Delivers(l, 0) /\ Gains(l, 0) /\ Holds(l, 0) /\ Asks(l, 1) /\ Pays(1)
              => Affordable(l)
           /\ Delivers(l, 0) /\ Gains(l, -1) /\ Holds(l, 1) /\ Asks(l, 0) /\ Pays(0)
              => Affordable(l)
           /\ Delivers(l, 1) /\ Gains(l, 0) /\ Holds(l, -1) /\ Asks(l, 0) /\ Pays(0)
              => Affordable(l)
           /\ Delivers(l, 1) /\ Gains(l, 0) /\ Holds(l, 0) /\ Asks(l, 0) /\ Pays(1)
              => Affordable(l)
           /\ Delivers(l, 0) /\ Gains(l, 0) /\ Holds(l, 1) /\ Asks(l, 0) /\ Pays(1)
              => Affordable(l)
           /\ Delivers(l, 0) /\ Gains(l, 1) /\ Holds(l, -1) /\ Asks(l, 0) /\ Pays(0)
              => Affordable(l)
           /\ Delivers(l, 0) /\ Gains(l, 1) /\ Holds(l, 0) /\ Asks(l, 0) /\ Pays(1)
              => Affordable(l)
<1>1. PICK i, i2, d, d2, c, c2, h, h2, r, r2 :
          /\ i = incidents /\ i2 = incidents'
          /\ d = delivered[l] /\ d2 = delivered'[l]
          /\ c = Claims(l) /\ c2 = Claims(l)'
          /\ h = Cardinality(Holders(l)) /\ h2 = Cardinality(Holders(l)')
          /\ r = Cardinality(Retriers(l)) /\ r2 = Cardinality(Retriers(l)')
  OBVIOUS
<1>2. i \in Nat /\ i2 \in Nat /\ d \in Nat /\ d2 \in Nat
  BY <1>1, MailAssumption DEF TypeOK
<1>3. c \in Nat /\ c2 \in Nat /\ h \in Nat /\ h2 \in Nat /\ r \in Nat /\ r2 \in Nat
  BY <1>1, Countable
<1>4. Affordable(l) <=> d2 + c2 + h2 + r2 + i <= d + c + h + r + i2
  BY <1>1 DEF Affordable, Cost
<1>5. /\ \A k : Delivers(l, k) <=> d2 - d <= k
      /\ \A k : Gains(l, k) <=> c2 - c <= k
      /\ \A k : Holds(l, k) <=> h2 - h <= k
      /\ \A k : Asks(l, k) <=> r2 - r <= k
      /\ \A k : Pays(k) <=> k <= i2 - i
  BY <1>1 DEF Delivers, Gains, Holds, Asks, Pays
<1> QED BY <1>2, <1>3, <1>4, <1>5

\* A letter's holders, and those who are to retry it, counted.
LEMMA Counts ==
    ASSUME NEW l \in Letters, NEW x
    PROVE  /\ Holders(l)' \subseteq Holders(l) => Holds(l, 0)
           /\ Holders(l)' \subseteq Holders(l) \cup {x} => Holds(l, 1)
           /\ x \in Holders(l) /\ Holders(l)' \subseteq Holders(l) \ {x} => Holds(l, -1)
           /\ Retriers(l)' \subseteq Retriers(l) => Asks(l, 0)
           /\ Retriers(l)' \subseteq Retriers(l) \cup {x} => Asks(l, 1)
           /\ x \in Retriers(l) /\ Retriers(l)' \subseteq Retriers(l) \ {x} => Asks(l, -1)
<1>1. PICK h, h2, r, r2 : h = Holders(l) /\ h2 = Holders(l)' /\ r = Retriers(l) /\ r2 = Retriers(l)'
  OBVIOUS
<1>2. PICK ch, ch2, cr, cr2 : /\ ch = Cardinality(h) /\ ch2 = Cardinality(h2)
                              /\ cr = Cardinality(r) /\ cr2 = Cardinality(r2)
  OBVIOUS
<1>3. /\ IsFiniteSet(h) /\ IsFiniteSet(h2) /\ IsFiniteSet(r) /\ IsFiniteSet(r2)
      /\ ch \in Nat /\ ch2 \in Nat /\ cr \in Nat /\ cr2 \in Nat
  BY <1>1, <1>2, Countable
<1>4. /\ h2 \subseteq h => ch2 <= ch
      /\ h2 \subseteq h \cup {x} => ch2 <= ch + 1
      /\ x \in h /\ h2 \subseteq h \ {x} => ch2 + 1 <= ch
  BY <1>2, <1>3, CountedByOne
<1>5. /\ r2 \subseteq r => cr2 <= cr
      /\ r2 \subseteq r \cup {x} => cr2 <= cr + 1
      /\ x \in r /\ r2 \subseteq r \ {x} => cr2 + 1 <= cr
  BY <1>2, <1>3, CountedByOne
<1>6. /\ \A k : Holds(l, k) <=> ch2 - ch <= k
      /\ \A k : Asks(l, k) <=> cr2 - cr <= k
  BY <1>1, <1>2 DEF Holds, Asks
<1>7. /\ ch2 <= ch => Holds(l, 0)
      /\ ch2 <= ch + 1 => Holds(l, 1)
      /\ ch2 + 1 <= ch => Holds(l, -1)
      /\ cr2 <= cr => Asks(l, 0)
      /\ cr2 <= cr + 1 => Asks(l, 1)
      /\ cr2 + 1 <= cr => Asks(l, -1)
  BY <1>3, <1>6
<1> QED BY <1>1, <1>4, <1>5, <1>7

\* A claim is worth one at most.
LEMMA ClaimsCount ==
    ASSUME NEW l \in Letters
    PROVE  /\ Gains(l, 1)
           /\ Claims(l)' = Claims(l) \/ Claims(l)' = 0 \/ Claims(l) = 1 => Gains(l, 0)
           /\ Claims(l) = 1 /\ Claims(l)' = 0 => Gains(l, -1)
<1>1. PICK c, c2 : c = Claims(l) /\ c2 = Claims(l)'
  OBVIOUS
<1>2. c \in {0, 1} /\ c2 \in {0, 1}
  BY <1>1, Countable
<1>3. \A k : Gains(l, k) <=> c2 - c <= k
  BY <1>1 DEF Gains
<1> QED BY <1>1, <1>2, <1>3

\* Nobody lays hold of the letter or lets go of it, nobody is to retry it.
SameHold(l) ==
    \A j \in Servers :
        /\ InFlight(j, l)' <=> InFlight(j, l)
        /\ InFlight(j, l) => server'[j].at = server[j].at

SameRetriers(l) == Retriers(l)' \subseteq Retriers(l)

LEMMA SameParts ==
    ASSUME NEW l \in Letters
    PROVE  /\ SameHold(l) => Holds(l, 0)
           /\ SameRetriers(l) => Asks(l, 0)
           /\ /\ \A j \in Servers : InFlight(j, l)' <=> InFlight(j, l)
              /\ letter'[l].status = letter[l].status
              /\ letter'[l].due = letter[l].due
              => Gains(l, 0)
<1>1. ASSUME SameHold(l) PROVE Holds(l, 0)
  <2>1. Holders(l)' \subseteq Holders(l)
    BY <1>1 DEF SameHold, Holders
  <2> QED BY <2>1, Counts
<1>2. ASSUME SameRetriers(l) PROVE Asks(l, 0)
  BY <1>2, Counts DEF SameRetriers
<1>3. ASSUME \A j \in Servers : InFlight(j, l)' <=> InFlight(j, l),
             letter'[l].status = letter[l].status, letter'[l].due = letter[l].due
      PROVE  Gains(l, 0)
  <2>1. Claims(l)' = Claims(l)
    BY <1>3 DEF Claims
  <2> QED BY <2>1, ClaimsCount
<1> QED BY <1>1, <1>2, <1>3

\* What does not change delivers nothing, and costs nothing.
LEMMA NothingDelivered ==
    ASSUME TypeOK, NEW l \in Letters
    PROVE  delivered'[l] = delivered[l] => Delivers(l, 0)
<1>1. delivered[l] \in Nat
  BY DEF TypeOK
<1> QED BY <1>1 DEF Delivers

LEMMA Payments ==
    ASSUME TypeOK, TypeOK'
    PROVE  /\ incidents <= incidents' => Pays(0)
           /\ incidents' = incidents + 1 => Pays(1) /\ incidents <= incidents'
           /\ UNCHANGED incidents => Pays(0)
<1>1. incidents \in Nat /\ incidents' \in Nat
  BY MailAssumption DEF TypeOK
<1>2. PICK i, i2 : i = incidents /\ i2 = incidents'
  OBVIOUS
<1>3. /\ i \in Nat /\ i2 \in Nat
      /\ \A k : Pays(k) <=> k <= i2 - i
  BY <1>1, <1>2 DEF Pays
<1>4. /\ i <= i2 => Pays(0)
      /\ i2 = i + 1 => Pays(1) /\ i <= i2
      /\ i2 = i => Pays(0)
  BY <1>3
<1> QED BY <1>2, <1>4

\* A step that leaves holds and history alone may only take a claim away.
LEMMA QuietCost ==
    ASSUME TypeOK, TypeOK', NEW l \in Letters, SameHold(l), SameRetriers(l),
           delivered'[l] = delivered[l], incidents <= incidents',
           \/ letter'[l].status = letter[l].status /\ letter'[l].due = letter[l].due
           \/ Claims(l)' = 0
           \/ Claims(l) = 1
    PROVE  Affordable(l)
<1>1. Gains(l, 0)
  BY SameParts, ClaimsCount DEF SameHold
<1>2. Delivers(l, 0) /\ Pays(0) /\ Holds(l, 0) /\ Asks(l, 0)
  BY NothingDelivered, Payments, SameParts
<1> QED BY <1>1, <1>2, Prices

\* The calls: an admin's retry is an incident, and gives its claim on.
LEMMA CallCost ==
    ASSUME TypeOK, TypeOK', NEW c \in Callers, Ask(c) \/ Answer(c) \/ QueueFails(c),
           NEW l \in Letters
    PROVE  Affordable(l)
<1>0. /\ incidents \in Nat /\ incidents' \in Nat /\ delivered[l] \in Nat
      /\ incidents <= incidents' /\ delivered'[l] = delivered[l] /\ Delivers(l, 0)
      /\ \A d \in Callers : caller[d] \in Caller
  <2>1. incidents <= incidents'
    BY HistoryGrows DEF Next
  <2>2. UNCHANGED delivered
    BY DEF Ask, Answer, QueueFails, send, sendForced, retryOutboxLetter, Check, Requeue,
           Queue, history
  <2>3. /\ incidents \in Nat /\ incidents' \in Nat /\ delivered[l] \in Nat
        /\ \A d \in Callers : caller[d] \in Caller
    BY MailAssumption DEF TypeOK
  <2>4. delivered'[l] = delivered[l]
    BY <2>2
  <2> QED BY <2>1, <2>3, <2>4, NothingDelivered
<1>1. SameHold(l) /\ Holds(l, 0)
  <2>1. ASSUME UNCHANGED server PROVE SameHold(l)
    BY <2>1 DEF SameHold, InFlight, At
  <2>2. ASSUME NEW i \in Servers, server' = [server EXCEPT ![i] = drain(@)]
        PROVE  SameHold(l)
    BY <2>2, NudgeHold DEF SameHold
  <2>3. \/ UNCHANGED server
        \/ \E i \in Servers : server' = [server EXCEPT ![i] = drain(@)]
    <3>1. ASSUME NEW i, server' = [server EXCEPT ![i] = drain(@)], i \notin Servers
          PROVE  UNCHANGED server
      BY <3>1 DEF TypeOK
    <3> QED
      BY <3>1 DEF Ask, Answer, QueueFails, send, sendForced, retryOutboxLetter, Check,
                  Requeue, Queue
  <2> QED BY <2>1, <2>2, <2>3, SameParts
<1>2. ASSUME NEW i \in Servers, NEW topic \in Topics,
             send(c, i, topic) \/ sendForced(c, i, topic)
      PROVE  SameRetriers(l)
  BY <1>0, <1>2 DEF send, sendForced, Call, SameRetriers, Retriers, TypeOK
<1>3. CASE Check(c) \/ QueueFails(c) \/ \E m \in Letters : Queue(c, m)
  <2>1. /\ caller'[c].at # "retry"
        /\ \A d \in Callers : d # c => caller'[d] = caller[d]
    BY <1>0, <1>3 DEF Check, QueueFails, Queue, Return, Idle, TypeOK, Caller
  <2>2. SameRetriers(l)
    BY <2>1 DEF SameRetriers, Retriers
  <2>3. \/ letter'[l] = letter[l]
        \/ Claims(l) = 1
    BY <1>3 DEF Check, QueueFails, Queue, Claims, TypeOK
  <2> QED BY <1>0, <1>1, <2>2, <2>3, QuietCost
<1>4. CASE Requeue(c)
  <2>1. /\ caller[c].at = "retry" /\ caller'[c].at = "idle"
        /\ \A d \in Callers : d # c => caller'[d] = caller[d]
        /\ caller[c].letter # l => letter'[l] = letter[l]
    BY <1>4 DEF Requeue, Return, Idle, Update, TypeOK
  <2>2. CASE caller[c].letter # l
    <3>1. SameRetriers(l)
      BY <2>1 DEF SameRetriers, Retriers
    <3> QED BY <1>0, <1>1, <2>1, <2>2, <3>1, QuietCost
  <2>3. CASE caller[c].letter = l
    <3>1. c \in Retriers(l) /\ Retriers(l)' \subseteq Retriers(l) \ {c}
      BY <2>1, <2>3 DEF Retriers
    <3>2. Asks(l, -1) /\ Gains(l, 1) /\ Pays(0)
      BY <1>0, <3>1, Counts, ClaimsCount, Payments
    <3> QED BY <1>0, <1>1, <3>2, Prices
  <2> QED BY <2>2, <2>3
<1>5. ASSUME NEW i \in Servers, NEW m \in Letters, retryOutboxLetter(c, i, m)
      PROVE  Affordable(l)
  <2>1. /\ UNCHANGED letter /\ incidents' = incidents + 1
        /\ \A d \in Callers : d # c => caller'[d] = caller[d]
    BY <1>0, <1>5 DEF retryOutboxLetter, Call, Incident, TypeOK
  <2>2. Retriers(l)' \subseteq Retriers(l) \cup {c}
    BY <2>1 DEF Retriers
  <2>3. Asks(l, 1) /\ Pays(1)
    BY <2>1, <2>2, Counts, Payments
  <2>4. Gains(l, 0)
    BY <1>1, <2>1, SameParts DEF SameHold
  <2> QED BY <1>0, <1>1, <2>3, <2>4, Prices
<1>6. ASSUME NEW i \in Servers, NEW topic \in Topics,
             send(c, i, topic) \/ sendForced(c, i, topic)
      PROVE  Affordable(l)
  <2>1. UNCHANGED letter
    BY <1>6 DEF send, sendForced
  <2> QED BY <1>0, <1>1, <1>2, <1>6, <2>1, QuietCost
<1> QED BY <1>3, <1>4, <1>5, <1>6 DEF Ask, Answer

\* A drain that held letters no longer does: a claim comes back at most.
LEMMA LetGo ==
    ASSUME TypeOK, NEW i \in Servers, NEW new, server' = [server EXCEPT ![i] = new],
           new.at \notin {"sending", "sent", "failed"}, NEW l \in Letters
    PROVE  /\ Holds(l, 0)
           /\ i \in Holders(l) => Holds(l, -1)
<1>1. server'[i] = new /\ \A j \in Servers : j # i => server'[j] = server[j]
  BY DEF TypeOK
<1>2. Holders(l)' \subseteq Holders(l) \ {i}
  BY <1>1 DEF Holders, InFlight, At
<1>3. Holders(l)' \subseteq Holders(l)
  BY <1>2
<1> QED BY <1>2, <1>3, Counts

\* A drain that moves to another stage of one letter leaves the other ones.
LEMMA OthersSame ==
    ASSUME TypeOK, NEW i \in Servers, NEW l \in Letters, At(i, l), NEW new,
           server' = [server EXCEPT ![i] = new],
           \/ new.batch = server[i].batch
           \/ new.at \notin {"sending", "sent", "failed"},
           NEW m \in Letters, m # l
    PROVE  SameHold(m)
<1>1. server'[i] = new /\ \A j \in Servers : j # i => server'[j] = server[j]
  BY DEF TypeOK
<1>2. ~At(i, m)
  BY OneLetter
<1> QED BY <1>1, <1>2 DEF SameHold, InFlight, At

\* The drains: a claim becomes a hold, a hold a delivery or a claim again, and
\* whatever breaks in between is an incident.
LEMMA DrainCost ==
    ASSUME TypeOK, TypeOK', NEW i \in Servers, Drain(i) \/ Trouble(i), NEW m \in Letters
    PROVE  Affordable(m)
<1>0. /\ server[i] \in Server /\ letter[m] \in Letter
      /\ incidents \in Nat /\ incidents' \in Nat /\ incidents <= incidents'
      /\ delivered \in [Letters -> Nat] /\ delivered[m] \in Nat /\ delivered'[m] \in Nat
      /\ Claims(m) \in {0, 1} /\ Claims(m)' \in {0, 1}
  <2>1. incidents <= incidents'
    BY HistoryGrows DEF Next
  <2> QED BY <2>1, Countable, MailAssumption DEF TypeOK
<1>1. ASSUME UNCHANGED caller
      PROVE  /\ SameRetriers(m)
             /\ Asks(m, 0)
  <2>1. SameRetriers(m)
    BY <1>1 DEF SameRetriers, Retriers
  <2> QED BY <2>1, SameParts
<1>2. ASSUME NEW at, Goto(i, at)
      PROVE  \E new : /\ server' = [server EXCEPT ![i] = new]
                      /\ new = server'[i] /\ new.at = at /\ new.batch = server[i].batch
                      /\ \A j \in Servers : j # i => server'[j] = server[j]
  <2>1. /\ server' = [server EXCEPT ![i] = [server[i] EXCEPT !.at = at]]
        /\ [server[i] EXCEPT !.at = at].at = at
        /\ [server[i] EXCEPT !.at = at].batch = server[i].batch
    BY <1>0, <1>2 DEF Goto, Server
  <2> QED BY <2>1 DEF TypeOK
<1>3. ASSUME NEW l \in Letters, NextLetter(i, l)
      PROVE  \E new : server' = [server EXCEPT ![i] = new] /\ new.at \in {"idle", "attempt"}
  <2> DEFINE new == [server[i] EXCEPT
                !.batch = @ \ {l}, !.attempts[l] = 0,
                !.at = IF server[i].batch = {l} THEN "idle" ELSE "attempt"]
  <2>1. server' = [server EXCEPT ![i] = new]
    BY <1>3 DEF NextLetter
  <2>2. new.at \in {"idle", "attempt"}
    BY <1>0 DEF Server
  <2> HIDE DEF new
  <2> QED BY <2>1, <2>2
<1>4. ASSUME NEW new, server' = [server EXCEPT ![i] = new],
             server[i].at \notin {"sending", "sent", "failed"},
             new.at \notin {"sending", "sent", "failed"}
      PROVE  SameHold(m)
  BY <1>4, NoHold DEF SameHold
<1>5. CASE releaseStuck(i)
  <2>1. SameHold(m)
    BY <1>2, <1>4, <1>5 DEF releaseStuck
  <2>2. letter'[m] = letter[m] \/ Claims(m) = 1
    BY <1>5 DEF releaseStuck, Stuck, Claims
  <2> QED BY <1>0, <1>1, <1>5, <2>1, <2>2, QuietCost DEF releaseStuck, history
<1>6. CASE runDrain(i)
  <2> DEFINE batch == {l \in Due : Cardinality({k \in Due : k < l}) < BatchSize}
             new == [server[i] EXCEPT
                !.at = IF batch = {} THEN "idle" ELSE "attempt",
                !.batch = batch,
                !.attempts = [l \in Letters |->
                    IF l \in batch THEN letter[l].attempts ELSE 0]]
  <2>1. server' = [server EXCEPT ![i] = new] /\ server[i].at = "find"
    BY <1>6 DEF runDrain
  <2>2. new.at \in {"idle", "attempt"}
    BY <1>0 DEF Server
  <2> HIDE DEF new
  <2>3. SameHold(m)
    BY <1>4, <2>1, <2>2
  <2> QED BY <1>0, <1>1, <1>6, <2>3, QuietCost DEF runDrain, history
<1>7. ASSUME NEW l \in Letters, attempt(i, l)
      PROVE  Affordable(m)
  <2>0. At(i, l) /\ server[i].at = "attempt" /\ UNCHANGED <<caller, delivered, incidents>>
    BY <1>7 DEF attempt, history
  <2>1. CASE Claimable(letter[l]) /\ m = l
    <3>1. /\ letter[m].status = "PENDING" /\ letter'[m].status = "SENDING" /\ ~letter'[m].due
          /\ Goto(i, "sending")
      BY <1>0, <1>7, <2>1 DEF attempt, Claimable, TypeOK, Letter
    <3>2. server'[i].at = "sending" /\ server'[i].batch = server[i].batch
          /\ \A j \in Servers : j # i => server'[j] = server[j]
      BY <1>2, <3>1
    <3>3. InFlight(i, m)'
      BY <2>0, <2>1, <3>2 DEF InFlight, At
    <3>4. Gains(m, -1)
      <4>1. Claims(m) = 1 /\ Claims(m)' = 0
        BY <3>1, <3>3 DEF Claims
      <4> QED BY <4>1, ClaimsCount
    <3>5. Holders(m)' \subseteq Holders(m) \cup {i}
      BY <3>2 DEF Holders, InFlight, At
    <3>6. Holds(m, 1) /\ Delivers(m, 0) /\ Pays(0)
      BY <2>0, <3>5, Counts, NothingDelivered, Payments
    <3> QED BY <1>1, <2>0, <3>4, <3>6, Prices
  <2>2. CASE Claimable(letter[l]) /\ m # l
    <3>1. Goto(i, "sending") /\ letter'[m] = letter[m]
      BY <1>7, <2>2 DEF attempt, TypeOK
    <3>2. SameHold(m)
      BY <1>2, <2>0, <2>2, <3>1, OthersSame
    <3> QED BY <1>0, <1>1, <2>0, <3>1, <3>2, QuietCost
  <2>3. CASE ~Claimable(letter[l])
    <3>1. NextLetter(i, l) /\ UNCHANGED letter
      BY <1>7, <2>3 DEF attempt
    <3>2. SameHold(m)
      BY <1>3, <1>4, <2>0, <3>1
    <3> QED BY <1>0, <1>1, <2>0, <3>1, <3>2, QuietCost
  <2> QED BY <2>1, <2>2, <2>3
<1>8. ASSUME NEW l \in Letters, NEW at \in {"sent", "failed"}, Goto(i, at), At(i, l),
             server[i].at \in {"sending", "sent"}, UNCHANGED <<letter, caller>>, m = l
      PROVE  /\ Gains(m, 0) /\ Holds(m, 1)
             /\ server[i].at = "sending" => Holds(m, 0)
             /\ server[i].at = "sending" /\ at = "sent" => Holds(m, -1)
  <2>1. /\ server'[i].at = at /\ server'[i].batch = server[i].batch
        /\ \A j \in Servers : j # i => server'[j] = server[j]
    BY <1>2, <1>8
  <2>2. \A j \in Servers : InFlight(j, m)' <=> InFlight(j, m)
    BY <1>8, <2>1 DEF InFlight, At
  <2>3. Gains(m, 0)
    BY <1>8, <2>2, SameParts
  <2>4. Holders(m)' \subseteq Holders(m) \cup {i}
    BY <2>1 DEF Holders, InFlight, At
  <2>5. ASSUME server[i].at = "sending"
        PROVE  i \in Holders(m) /\ (at = "sent" => i \notin Holders(m)')
    BY <1>8, <2>1, <2>5 DEF Holders, InFlight, At
  <2>6. ASSUME server[i].at = "sending" PROVE Holders(m)' \subseteq Holders(m)
    BY <2>4, <2>5, <2>6
  <2>7. ASSUME server[i].at = "sending", at = "sent"
        PROVE  i \in Holders(m) /\ Holders(m)' \subseteq Holders(m) \ {i}
    BY <2>5, <2>6, <2>7
  <2> QED BY <2>3, <2>4, <2>6, <2>7, Counts
<1>9. ASSUME NEW l \in Letters,
             Accepted(i, l) \/ Rejected(i, l) \/ AnswerLost(i, l) \/ RecordFails(i, l)
      PROVE  Affordable(m)
  <2>1. PICK at \in {"sent", "failed"} :
            /\ Goto(i, at) /\ At(i, l) /\ server[i].at \in {"sending", "sent"}
            /\ UNCHANGED <<letter, caller>>
            /\ \A k \in Letters : k # l => delivered'[k] = delivered[k]
            /\ \/ /\ server[i].at = "sending" /\ at = "sent"
                  /\ delivered'[l] = delivered[l] + 1
                  /\ UNCHANGED incidents
               \/ /\ server[i].at = "sending" /\ at = "failed"
                  /\ delivered'[l] = delivered[l]
                  /\ UNCHANGED incidents
               \/ /\ server[i].at = "sending" /\ at = "failed"
                  /\ delivered'[l] = delivered[l] + 1
                  /\ incidents' = incidents + 1
               \/ /\ server[i].at = "sent" /\ at = "failed"
                  /\ delivered'[l] = delivered[l]
                  /\ incidents' = incidents + 1
    BY <1>0, <1>9 DEF Accepted, Rejected, AnswerLost, RecordFails, Failed, Incident
  <2>2. CASE m # l
    <3>1. SameHold(m)
      BY <1>2, <2>1, <2>2, OthersSame
    <3> QED BY <1>0, <1>1, <2>1, <2>2, <3>1, QuietCost
  <2>3. CASE m = l
    <3>1. /\ Gains(m, 0) /\ Holds(m, 1)
          /\ server[i].at = "sending" => Holds(m, 0)
          /\ server[i].at = "sending" /\ at = "sent" => Holds(m, -1)
      BY <1>8, <2>1, <2>3
    <3>2. Asks(m, 0)
      BY <1>1, <2>1
    <3>3. /\ delivered'[m] = delivered[m] => Delivers(m, 0)
          /\ delivered'[m] = delivered[m] + 1 => Delivers(m, 1)
      BY <1>0, NothingDelivered DEF Delivers
    <3> QED BY <2>1, <2>3, <3>1, <3>2, <3>3, Payments, Prices
  <2> QED BY <2>2, <2>3
<1>10. ASSUME NEW l \in Letters, MarkSent(i, l) \/ reschedule(i, l)
       PROVE  Affordable(m)
  <2>1. /\ NextLetter(i, l) /\ At(i, l) /\ UNCHANGED <<caller, delivered, incidents>>
        /\ m # l => letter'[m] = letter[m]
    BY <1>10 DEF MarkSent, reschedule, Update, history, TypeOK
  <2>2. PICK new : server' = [server EXCEPT ![i] = new] /\ new.at \in {"idle", "attempt"}
    BY <1>3, <2>1
  <2>3. CASE m # l
    <3>1. SameHold(m)
      BY <2>1, <2>2, <2>3, OthersSame
    <3> QED BY <1>0, <1>1, <2>1, <2>3, <3>1, QuietCost
  <2>4. CASE m = l /\ MarkSent(i, l)
    <3>1. \/ letter'[m].status = "SENT"
          \/ letter'[m] = letter[m] /\ letter[m].status \notin MailStatus
      <4>1. CASE Exists(m)
        <5>1. letter'[m] = [letter[m] EXCEPT !.status = "SENT",
                                             !.attempts = server[i].attempts[m] + 1]
          BY <2>4, <4>1 DEF MarkSent, Update, TypeOK
        <5>2. letter'[m].status = "SENT"
          BY <1>0, <5>1 DEF Letter
        <5> QED BY <5>2
      <4>2. CASE ~Exists(m)
        <5>1. letter'[m] = letter[m]
          BY <2>4, <4>2 DEF MarkSent, Update, TypeOK
        <5> QED BY <4>2, <5>1 DEF Exists
      <4> QED BY <4>1, <4>2
    <3>2. Gains(m, 0)
      <4>1. CASE letter'[m].status = "SENT"
        <5>1. Claims(m)' = 0
          BY <4>1 DEF Claims
        <5> QED BY <5>1, ClaimsCount
      <4>2. CASE letter'[m] = letter[m] /\ letter[m].status = "FREE"
        <5>1. Claims(m) = 1
          BY <4>2 DEF Claims
        <5> QED BY <5>1, ClaimsCount
      <4>3. CASE letter'[m] = letter[m] /\ letter[m].status = "GONE"
        <5>1. Claims(m)' = 0
          BY <4>3 DEF Claims
        <5> QED BY <5>1, ClaimsCount
      <4> QED BY <1>0, <3>1, <4>1, <4>2, <4>3 DEF Letter, MailStatus
    <3>3. Holds(m, 0) /\ Delivers(m, 0) /\ Pays(0)
      BY <2>1, <2>2, LetGo, NothingDelivered, Payments
    <3> QED BY <1>1, <2>1, <3>2, <3>3, Prices
  <2>5. CASE m = l /\ reschedule(i, l)
    <3>1. i \in Holders(m)
      BY <2>5 DEF reschedule, Holders, InFlight
    <3>2. Holds(m, -1) /\ Gains(m, 1) /\ Delivers(m, 0) /\ Pays(0)
      BY <2>1, <2>2, <3>1, LetGo, ClaimsCount, NothingDelivered, Payments
    <3> QED BY <1>1, <2>1, <3>2, Prices
  <2> QED BY <1>10, <2>3, <2>4, <2>5
<1>11. CASE Stop(i) \/ DatabaseFails(i)
  <2>1. /\ UNCHANGED <<letter, delivered>> /\ incidents' = incidents + 1
        /\ \E up, configured : server' = [server EXCEPT ![i] = AtRest(up, configured)]
    <3>1. CASE Stop(i)
      BY <3>1 DEF Stop, Incident
    <3>2. CASE DatabaseFails(i)
      BY <3>2 DEF DatabaseFails, Incident
    <3> QED BY <1>11, <3>1, <3>2
  <2>2. PICK new : server' = [server EXCEPT ![i] = new] /\ new.at = "idle"
    <3>1. PICK up, configured : server' = [server EXCEPT ![i] = AtRest(up, configured)]
      BY <2>1
    <3>2. AtRest(up, configured).at = "idle"
      BY DEF AtRest
    <3> QED BY <3>1, <3>2
  <2>3. Holds(m, 0)
    BY <2>2, LetGo
  <2>4. SameRetriers(m)
    <3>1. \A c \in Callers : caller'[c] = caller[c] \/ caller'[c] = Idle
      <4>1. CASE Stop(i)
        BY <4>1 DEF Stop
      <4>2. CASE DatabaseFails(i)
        BY <4>2 DEF DatabaseFails
      <4> QED BY <1>11, <4>1, <4>2
    <3>2. Idle.at = "idle"
      BY DEF Idle
    <3> QED BY <3>1, <3>2 DEF SameRetriers, Retriers
  <2>5. Gains(m, 1) /\ Asks(m, 0) /\ Delivers(m, 0) /\ Pays(1)
    BY <2>1, <2>4, ClaimsCount, SameParts, NothingDelivered, Payments
  <2> QED BY <2>3, <2>5, Prices
<1> QED
  BY <1>5, <1>6, <1>7, <1>9, <1>10, <1>11 DEF Drain, Trouble

\* A process that is down is at rest, whatever stopped it.
LEMMA DownStep ==
    ASSUME TypeOK, DownRests, [Next]_vars
    PROVE  DownRests'
<1>1. ASSUME NEW i \in Servers, NEW new, server' = [server EXCEPT ![i] = new],
             new.up \/ new = AtRest(FALSE, FALSE)
      PROVE  DownRests'
  <2>1. \A j \in Servers : server'[j] = IF j = i THEN new ELSE server[j]
    BY <1>1 DEF TypeOK
  <2> QED BY <1>1, <2>1 DEF DownRests
<1>2. ASSUME UNCHANGED server PROVE DownRests'
  BY <1>2 DEF DownRests
<1>3. ASSUME NEW i, server' = [server EXCEPT ![i] = drain(@)]
      PROVE  DownRests'
  <2>1. CASE i \in Servers
    BY <1>3, <2>1, NudgeDown
  <2>2. CASE i \notin Servers
    BY <1>2, <1>3, <2>2 DEF TypeOK
  <2> QED BY <2>1, <2>2
<1>4. ASSUME NEW c \in Callers, Ask(c) \/ Answer(c) \/ QueueFails(c)
      PROVE  DownRests'
  BY <1>2, <1>3, <1>4 DEF Ask, Answer, QueueFails, send, sendForced, retryOutboxLetter,
                          Check, Requeue, Queue
<1>5. CASE clearSettledLetters \/ UNCHANGED vars
  BY <1>2, <1>5 DEF clearSettledLetters, vars
<1>6. ASSUME NEW l \in Letters, TimePasses(l) \/ Hang(l) PROVE DownRests'
  BY <1>2, <1>6 DEF TimePasses, Hang, BecomesDue
<1>7. ASSUME NEW i \in Servers, Tick(i) PROVE DownRests'
  BY <1>3, <1>7 DEF Tick
<1>8. ASSUME NEW i \in Servers, NEW configured, Boot(i, configured) PROVE DownRests'
  <2>1. drain(AtRest(TRUE, configured)).up
    BY DEF drain, AtRest
  <2> QED BY <1>1, <1>8, <2>1 DEF Boot
<1>9. ASSUME NEW i \in Servers, Stop(i) PROVE DownRests'
  BY <1>1, <1>9 DEF Stop
<1>10. ASSUME NEW i \in Servers, DatabaseFails(i) PROVE DownRests'
  <2>1. AtRest(TRUE, server[i].configured).up
    BY DEF AtRest
  <2> QED BY <1>1, <1>10, <2>1 DEF DatabaseFails
<1>11. ASSUME NEW i \in Servers, server[i].at # "idle",
              \/ \E at : Goto(i, at)
              \/ \E l \in Letters : NextLetter(i, l)
              \/ runDrain(i)
       PROVE  DownRests'
  <2>1. server[i].up /\ server[i] \in Server
    BY <1>11 DEF DownRests, AtRest, TypeOK
  <2>2. ASSUME NEW at, Goto(i, at) PROVE DownRests'
    <3>1. [server[i] EXCEPT !.at = at].up
      BY <2>1 DEF Server
    <3> QED BY <1>1, <2>2, <3>1 DEF Goto
  <2>3. ASSUME NEW l \in Letters, NextLetter(i, l) PROVE DownRests'
    <3> DEFINE new == [server[i] EXCEPT
                  !.batch = @ \ {l}, !.attempts[l] = 0,
                  !.at = IF server[i].batch = {l} THEN "idle" ELSE "attempt"]
    <3>1. new.up
      BY <2>1 DEF Server
    <3>2. server' = [server EXCEPT ![i] = new]
      BY <2>3 DEF NextLetter
    <3> QED BY <1>1, <3>1, <3>2
  <2>4. CASE runDrain(i)
    <3> DEFINE batch == {l \in Due : Cardinality({m \in Due : m < l}) < BatchSize}
               new == [server[i] EXCEPT
                  !.at = IF batch = {} THEN "idle" ELSE "attempt",
                  !.batch = batch,
                  !.attempts = [l \in Letters |->
                      IF l \in batch THEN letter[l].attempts ELSE 0]]
    <3>1. new.up
      BY <2>1 DEF Server
    <3>2. server' = [server EXCEPT ![i] = new]
      BY <2>4 DEF runDrain
    <3> QED BY <1>1, <3>1, <3>2
  <2> QED BY <1>11, <2>2, <2>3, <2>4
<1>12. ASSUME NEW i \in Servers, Drain(i) PROVE DownRests'
  <2>1. server[i].at # "idle"
    BY <1>12 DEF Drain, releaseStuck, runDrain, attempt, Accepted, Rejected, MarkSent,
                 reschedule
  <2> QED
    BY <1>11, <1>12, <2>1 DEF Drain, releaseStuck, attempt, Accepted, Rejected, Failed,
                              MarkSent, reschedule
<1>13. ASSUME NEW i \in Servers, NEW l \in Letters, AnswerLost(i, l) \/ RecordFails(i, l)
       PROVE  DownRests'
  <2>1. server[i].at # "idle"
    BY <1>13 DEF AnswerLost, RecordFails
  <2> QED
    BY <1>11, <1>13, <2>1 DEF AnswerLost, RecordFails, Failed
<1> QED
  BY <1>4, <1>5, <1>6, <1>7, <1>8, <1>9, <1>10, <1>12, <1>13 DEF Next, Trouble

\* Every delivery stays the first one, or has its incident.
LEMMA DuplicateStep == DuplicateInv /\ [Next]_vars => DuplicateInv'
<1> SUFFICES ASSUME DuplicateInv, [Next]_vars PROVE DuplicateInv'
  OBVIOUS
<1>0. /\ TypeOK /\ TypeOK' /\ DownRests /\ DownRests' /\ Paid
      /\ incidents \in Nat /\ incidents' \in Nat /\ incidents <= incidents'
  <2>1. TypeOK /\ TypeOK'
    BY TypeStep DEF DuplicateInv
  <2> QED BY <2>1, DownStep, HistoryGrows, MailAssumption DEF DuplicateInv, TypeOK
<1> SUFFICES ASSUME NEW m \in Letters PROVE Affordable(m)
  BY <1>0, PaidKept DEF DuplicateInv
<1>1. ASSUME UNCHANGED server PROVE SameHold(m)
  BY <1>1 DEF SameHold, InFlight, At
<1>2. ASSUME UNCHANGED caller PROVE SameRetriers(m)
  BY <1>2 DEF SameRetriers, Retriers
<1>3. CASE clearSettledLetters
  <2>1. letter'[m] = letter[m] \/ letter'[m].status = "GONE"
    BY <1>0, <1>3 DEF clearSettledLetters, TypeOK, Letter
  <2>2. letter'[m] = letter[m] \/ Claims(m)' = 0
    BY <2>1 DEF Claims
  <2>3. SameHold(m) /\ SameRetriers(m) /\ UNCHANGED delivered
    BY <1>1, <1>2, <1>3 DEF clearSettledLetters, history
  <2> QED BY <1>0, <2>2, <2>3, QuietCost
<1>4. ASSUME NEW i \in Servers, Tick(i) PROVE Affordable(m)
  <2>1. /\ server' = [server EXCEPT ![i] = drain(@)]
        /\ UNCHANGED <<letter, caller, delivered>>
    BY <1>4 DEF Tick, history
  <2>2. SameHold(m)
    BY <1>0, <2>1, NudgeHold DEF SameHold
  <2> QED BY <1>0, <1>2, <2>1, <2>2, QuietCost
<1>5. ASSUME NEW i \in Servers, NEW configured, Boot(i, configured) PROVE Affordable(m)
  <2> DEFINE new == drain(AtRest(TRUE, configured))
  <2>1. /\ server' = [server EXCEPT ![i] = new] /\ server[i].at = "idle"
        /\ UNCHANGED <<letter, caller, delivered>>
    BY <1>0, <1>5 DEF Boot, history, DownRests, AtRest
  <2>2. new.at \in {"idle", "release"}
    BY DEF drain, AtRest
  <2> HIDE DEF new
  <2>3. SameHold(m)
    BY <1>0, <2>1, <2>2, NoHold DEF SameHold
  <2> QED BY <1>0, <1>2, <2>1, <2>3, QuietCost
<1>6. ASSUME NEW l \in Letters, TimePasses(l) \/ Hang(l) PROVE Affordable(m)
  <2>0. /\ UNCHANGED <<server, caller, delivered>> /\ SameHold(m) /\ SameRetriers(m)
        /\ m # l => letter'[m] = letter[m]
    BY <1>0, <1>1, <1>2, <1>6 DEF TimePasses, Hang, BecomesDue, TypeOK
  <2>1. CASE m # l
    BY <1>0, <2>0, <2>1, QuietCost
  <2>2. CASE m = l /\ TimePasses(l)
    <3>1. Claims(m) = 1
      BY <2>2 DEF TimePasses, BecomesDue, Claims
    <3> QED BY <1>0, <2>0, <3>1, QuietCost
  <2>3. CASE Hang(l)
    <3>1. incidents' = incidents + 1
      BY <2>3 DEF Hang, Incident
    <3>2. /\ Gains(m, 1) /\ Delivers(m, 0) /\ Pays(1)
          /\ Holds(m, 0) /\ Asks(m, 0)
      BY <1>0, <2>0, <3>1, ClaimsCount, NothingDelivered, Payments, SameParts
    <3> QED BY <1>0, <3>2, Prices
  <2> QED BY <1>6, <2>1, <2>2, <2>3
<1>7. CASE UNCHANGED vars
  BY <1>0, <1>1, <1>2, <1>7, QuietCost DEF vars
<1> QED
  BY <1>0, <1>3, <1>4, <1>5, <1>6, <1>7, CallCost, DrainCost DEF Next

\* Nobody gets a letter more often than once and once more for each incident:
\* a crash or a database error in mid-send, an answer SMTP failed to give, a
\* send that hung, a retry by hand.  (mail.dispatcher.ts:102-220.)
THEOREM DuplicatesAlwaysPaid == Spec => []NoNeedlessDuplicate
<1>1. Init => DuplicateInv
  <2> SUFFICES ASSUME Init PROVE DuplicateInv
    OBVIOUS
  <2>1. DownRests /\ TypeOK
    BY TypeInit DEF Init, DownRests
  <2>2. ASSUME NEW l \in Letters
        PROVE  delivered[l] + Claims(l) + Cardinality(Holders(l)) + Cardinality(Retriers(l))
                 <= 1 + incidents
    <3>1. Holders(l) = {} /\ Retriers(l) = {}
      BY DEF Init, Holders, Retriers, InFlight, AtRest, Idle
    <3> QED BY <3>1, Countable, FS_EmptySet DEF Init
  <2> QED BY <2>1, <2>2 DEF DuplicateInv, Paid
<1>2. DuplicateInv => NoNeedlessDuplicate
  <2> SUFFICES ASSUME DuplicateInv, NEW l \in Letters PROVE delivered[l] <= 1 + incidents
    BY DEF NoNeedlessDuplicate
  <2>1. delivered[l] \in Nat /\ incidents \in Nat
    BY MailAssumption DEF DuplicateInv, TypeOK
  <2> QED BY <2>1, Countable DEF DuplicateInv, Paid
<1> QED
  BY <1>1, <1>2, DuplicateStep, PTL DEF Spec

\* The outbox's table and its readers' inboxes agree, whatever goes wrong.
THEOREM DeliveriesAlwaysTrue == Spec => []DeliveriesAreTrue
<1>1. NoNeedlessDuplicate /\ OutcomesAreTrue => DeliveriesAreTrue
  BY DEF DeliveriesAreTrue
<1> QED BY <1>1, DuplicatesAlwaysPaid, OutcomesAlwaysTrue, PTL

=============================================================================
