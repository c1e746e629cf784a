----------------------------- MODULE RateLimit -----------------------------
(***************************************************************************)
(* The counters of the support websocket (SupportRateLimitService): one    *)
(* fixed window per socket and one per address.  Both are consumed by      *)
(* every message; a timer sweeps the windows that are over, and a socket   *)
(* that closes takes its window along.                                     *)
(***************************************************************************)
EXTENDS Integers, FiniteSets, Functions

CONSTANTS
    Sockets,       \* the sockets of one address, opened and closed at will
    SocketLimit,
    AddressLimit,
    WindowMs,      \* the length of both windows
    Burst,         \* how many messages are tried in a window (bound)
    MaxTime        \* when the run ends (bound)

VARIABLES
    now,
    sockets,  \* the window of each socket that has one
    address,  \* the window of the address, or none
    allowed   \* history: how many messages were let through at each moment

vars == <<now, sockets, address, allowed>>

RateLimitAssumption ==
    /\ {SocketLimit, AddressLimit, WindowMs, MaxTime} \subseteq Nat \ {0}
    /\ Burst \in Nat

Times == 1 .. MaxTime

NoWindow == [count |-> 0, resetAt |-> 0]

Init ==
    /\ now = 1
    /\ sockets = [s \in Sockets |-> NoWindow]
    /\ address = NoWindow
    /\ allowed = [t \in Times |-> 0]

-----------------------------------------------------------------------------
(* allowMessage() *)

Consumed(window) ==
    IF window.resetAt <= now THEN [count |-> 1, resetAt |-> now + WindowMs]
    ELSE [window EXCEPT !.count = @ + 1]

\* A window that has just begun lets its first message through.
Ok(window, limit) == window.resetAt <= now \/ window.count + 1 <= limit

allowMessage(s) ==
    /\ Consumed(address).count <= Burst
    /\ sockets' = [sockets EXCEPT ![s] = Consumed(@)]
    /\ address' = Consumed(address)
    /\ allowed' = IF Ok(sockets[s], SocketLimit) /\ Ok(address, AddressLimit)
                  THEN [allowed EXCEPT ![now] = @ + 1] ELSE allowed
    /\ UNCHANGED now

releaseSocket(s) ==
    /\ sockets[s] # NoWindow
    /\ sockets' = [sockets EXCEPT ![s] = NoWindow]
    /\ UNCHANGED <<now, address, allowed>>

\* Mutation of Swept: a sweep starts everybody afresh.
SweptAll(window) == NoWindow

Swept(window) == IF window.resetAt <= now THEN NoWindow ELSE window

sweep ==
    /\ sockets' = [s \in Sockets |-> Swept(sockets[s])]
    /\ address' = Swept(address)
    /\ <<sockets, address>>' # <<sockets, address>>
    /\ UNCHANGED <<now, allowed>>

Tick ==
    /\ now < MaxTime
    /\ now' = now + 1
    /\ UNCHANGED <<sockets, address, allowed>>

Next ==
    \/ \E s \in Sockets : allowMessage(s)
    \/ \E s \in Sockets : releaseSocket(s)
    \/ sweep
    \/ Tick

Spec == Init /\ [][Next]_vars

-----------------------------------------------------------------------------
(* Properties. *)

\* How many messages were let through from one moment to another.
Sent(from, to) == SumFunctionOnSet(allowed, {t \in Times : from <= t /\ t <= to})

\* However its messages are spread over sockets that open and close, and
\* whenever the timer sweeps, an address gets fewer than two limits through in
\* any stretch as long as a window: the windows are fixed, not sliding, so one
\* limit alone is not what holds.  (support-rate-limit.service.ts:7-11, 33-38.)
FloodIsBounded ==
    \A t \in Times : Sent(t - WindowMs + 1, t) < 2 * AddressLimit

-----------------------------------------------------------------------------
(* The inductive invariant: what a window that has begun at `start', or is *)
(* over, says of the messages let through.                                 *)

\* One fewer than the limit after the first message of a window.
Running(start) ==
    /\ address.count >= 1
    /\ Sent(start, now) <= address.count /\ Sent(start, now) <= AddressLimit
    /\ Sent(start + 1, now) < address.count /\ Sent(start + 1, now) < AddressLimit
    /\ Sent(start - WindowMs + 1, start - 1) < AddressLimit

Over ==
    /\ allowed[now] = 0
    /\ Sent(now - WindowMs + 1, now) < AddressLimit

LimitInv ==
    /\ now \in Times /\ allowed \in [Times -> Nat]
    /\ address \in [count : Nat, resetAt : Nat]
    /\ address.resetAt <= now + WindowMs
    /\ \A t \in Times : t > now => allowed[t] = 0
    /\ IF address.resetAt <= now THEN Over ELSE Running(address.resetAt - WindowMs)
    /\ FloodIsBounded
=============================================================================
