---------------------------- MODULE ExchangeRate ----------------------------
(***************************************************************************)
(* The cached exchange rate (ExchangeRateService.getUsdToUahRate) and the  *)
(* deadline of the calls it makes (common/http.util).  The rate is the     *)
(* moment at which the bank published it, so a larger one is a newer one.  *)
(***************************************************************************)
EXTENDS Integers

CONSTANTS
    Calls,             \* requests that need the rate at the same time (bound)
    CACHE_TTL_MS,
    RETRY_BACKOFF_MS,
    DEFAULT_TIMEOUT_MS,
    MaxTime            \* when the run ends (bound)

VARIABLES now, lastKnownRate, fetchedAt, lastAttemptAt, call

vars == <<now, lastKnownRate, fetchedAt, lastAttemptAt, call>>

ASSUME ExchangeRateAssumption ==
    /\ {CACHE_TTL_MS, RETRY_BACKOFF_MS, DEFAULT_TIMEOUT_MS, MaxTime} \subseteq Nat
    /\ DEFAULT_TIMEOUT_MS < RETRY_BACKOFF_MS
    /\ RETRY_BACKOFF_MS <= CACHE_TTL_MS

-----------------------------------------------------------------------------

Fallback == 0

Idle == [at |-> "idle", since |-> 0, rate |-> Fallback]

\* The clock of a real machine: 1970 is long over, so nothing is fresh.
Init ==
    /\ now = 1
    /\ lastKnownRate = Fallback
    /\ fetchedAt = 1 - CACHE_TTL_MS
    /\ lastAttemptAt = 1 - RETRY_BACKOFF_MS
    /\ call = [c \in Calls |-> Idle]

isFresh == now - fetchedAt < CACHE_TTL_MS
attemptedRecently == now - lastAttemptAt < RETRY_BACKOFF_MS

\* Mutation of getUsdToUahRate: the attempt is noted when it is over.
NoteLater(c) ==
    /\ call[c].at = "idle"
    /\ ~isFresh
    /\ ~attemptedRecently
    /\ call' = [call EXCEPT ![c] = [at |-> "asking", since |-> now, rate |-> Fallback]]
    /\ UNCHANGED <<now, lastKnownRate, fetchedAt, lastAttemptAt>>

\* Whoever finds the rate fresh, or somebody on the way to the bank, is answered
\* at once; the others ask the bank.
getUsdToUahRate(c) ==
    /\ call[c].at = "idle"
    /\ ~isFresh
    /\ ~attemptedRecently
    /\ lastAttemptAt' = now
    /\ call' = [call EXCEPT ![c] = [at |-> "asking", since |-> now, rate |-> Fallback]]
    /\ UNCHANGED <<now, lastKnownRate, fetchedAt>>

BankAnswers(c) ==
    /\ call[c].at = "asking"
    /\ call' = [call EXCEPT ![c].at = "answered", ![c].rate = now]
    /\ UNCHANGED <<now, lastKnownRate, fetchedAt, lastAttemptAt>>

\* The answer is here and has a rate.
Refresh(c) ==
    /\ call[c].at = "answered"
    /\ lastKnownRate' = call[c].rate
    /\ fetchedAt' = now
    /\ call' = [call EXCEPT ![c] = Idle]
    /\ UNCHANGED <<now, lastAttemptAt>>

\* An error, an answer without a rate, or the deadline: the last rate is kept.
Fail(c) ==
    /\ call[c].at # "idle"
    /\ call' = [call EXCEPT ![c] = Idle]
    /\ UNCHANGED <<now, lastKnownRate, fetchedAt, lastAttemptAt>>

\* fetchWithTimeout(): no call is still under way when its deadline has passed.
Tick ==
    /\ now < MaxTime
    /\ \A c \in Calls : call[c].at # "idle" => now < call[c].since + DEFAULT_TIMEOUT_MS
    /\ now' = now + 1
    /\ UNCHANGED <<lastKnownRate, fetchedAt, lastAttemptAt, call>>

Restart ==
    /\ lastKnownRate' = Fallback
    /\ fetchedAt' = now - CACHE_TTL_MS
    /\ lastAttemptAt' = now - RETRY_BACKOFF_MS
    /\ call' = [c \in Calls |-> Idle]
    /\ UNCHANGED now

Next ==
    \/ \E c \in Calls : getUsdToUahRate(c) \/ BankAnswers(c) \/ Refresh(c) \/ Fail(c)
    \/ Tick
    \/ Restart

Spec == Init /\ [][Next]_vars

-----------------------------------------------------------------------------
(* Properties. *)

TypeOK ==
    /\ now \in Nat
    /\ lastKnownRate \in 0 .. now
    /\ fetchedAt \in Int
    /\ lastAttemptAt \in Int
    /\ call \in [Calls -> [at : {"idle", "asking", "answered"}, since : Nat, rate : Nat]]

\* However many pages ask for it at once, one request at most is on its way to
\* the bank.  The moment of the attempt is what keeps the others back, and the
\* deadline is what makes it enough.  (exchange-rate.service.ts:27-30.)
OneAtATime ==
    \A c, d \in Calls : call[c].at # "idle" /\ call[d].at # "idle" => c = d

\* What OneAtATime rests on.
RateInv ==
    /\ TypeOK
    /\ lastAttemptAt <= now
    /\ \A c \in Calls : call[c].at # "idle" =>
        /\ call[c].since = lastAttemptAt
        /\ now <= call[c].since + DEFAULT_TIMEOUT_MS
        /\ call[c].rate <= now
        /\ call[c].at = "answered" => lastKnownRate <= call[c].rate
    /\ OneAtATime
=============================================================================
