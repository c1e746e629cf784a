--------------------------- MODULE ServicesProofs ---------------------------
(***************************************************************************)
(* Theorems about the services that share no state: the rate limit, the    *)
(* sign-in with what the guest had, the settings and the linked chats, and *)
(* the exchange rate; for any requests, sockets, works, accounts and chats.*)
(*                                                                         *)
(* MCServices puts the services side by side; which of them a behaviour is *)
(* about never changes, and what is not at work stays as it is.  So each   *)
(* part has an inductive invariant of its own, proved of the module's      *)
(* Next, and its theorem says of MCSpec what the run checks of it.         *)
(***************************************************************************)
EXTENDS MCServices, DataLemmas

-----------------------------------------------------------------------------
(* The rate limit.  A window that is open has let fewer than its limit      *)
(* through since its first message, and the stretch before it fewer than    *)
(* the limit: together less than two limits.                                *)

LEMMA TimesFinite == IsFiniteSet(Limit!Times)
<1>1. MaxMoment \in Int
  BY ServicesAssumption DEF Limit!RateLimitAssumption
<1> QED BY <1>1, FS_Interval DEF Limit!Times

Stretch(a, b) == {t \in Limit!Times : a <= t /\ t <= b}

\* What f sums up to over a stretch of time.
Through(f, a, b) == SumFunctionOnSet(f, Stretch(a, b))

LEMMA SameSums == \A f, T : Limit!SumFunctionOnSet(f, T) = SumFunctionOnSet(f, T)
BY DEF Limit!SumFunctionOnSet, Limit!FoldFunctionOnSet, Limit!MapThenFoldSet,
       SumFunctionOnSet, FoldFunctionOnSet, MapThenFoldSet

LEMMA SentIsThrough == \A a, b : Limit!Sent(a, b) = Through(allowed, a, b)
BY SameSums DEF Limit!Sent, Through, Stretch

LEMMA SentWillBeThrough == \A a, b : Limit!Sent(a, b)' = Through(allowed', a, b)
BY SameSums DEF Limit!Sent, Through, Stretch, Limit!Times

\* A longer stretch lets no less through, two stretches that overlap no less
\* than what they cover, and a stretch in which nothing was sent, nothing.
LEMMA ThroughFacts ==
    ASSUME NEW f \in [Limit!Times -> Nat]
    PROVE  /\ \A a, b \in Int : Through(f, a, b) \in Nat
           /\ \A a, b, c, d \in Int : c <= a /\ b <= d => Through(f, a, b) <= Through(f, c, d)
           /\ \A a, b, c, d \in Int :
                c <= b + 1 => Through(f, a, d) <= Through(f, a, b) + Through(f, c, d)
           /\ \A a, b \in Int :
                (\A t \in Stretch(a, b) : f[t] = 0) => Through(f, a, b) = 0
<1>1. IsFiniteSet(Limit!Times)
  BY TimesFinite
<1>2. \A a, b \in Int : Stretch(a, b) \in SUBSET Limit!Times
  BY DEF Stretch
<1>3. \A a, b \in Int : Through(f, a, b) \in Nat
  BY <1>1, <1>2, SumTakesOut DEF Through
<1>4. ASSUME NEW a \in Int, NEW b \in Int, NEW c \in Int, NEW d \in Int, c <= a, b <= d
      PROVE  Through(f, a, b) <= Through(f, c, d)
  <2>1. Stretch(a, b) \in SUBSET Stretch(c, d)
    BY <1>4 DEF Stretch, Limit!Times
  <2>2. Stretch(c, d) \in SUBSET Limit!Times
    BY <1>2
  <2>3. SumFunctionOnSet(f, Stretch(a, b)) <= SumFunctionOnSet(f, Stretch(c, d))
    BY <1>1, <2>1, <2>2, SumOfLess
  <2> QED BY <2>3 DEF Through
<1>5. ASSUME NEW a \in Int, NEW b \in Int, NEW c \in Int, NEW d \in Int, c <= b + 1
      PROVE  Through(f, a, d) <= Through(f, a, b) + Through(f, c, d)
  <2>1. Stretch(a, d) \subseteq Stretch(a, b) \cup Stretch(c, d)
    BY <1>5 DEF Stretch, Limit!Times
  <2>2. /\ Stretch(a, b) \in SUBSET Limit!Times /\ Stretch(c, d) \in SUBSET Limit!Times
        /\ Stretch(a, d) \in SUBSET Limit!Times
    BY <1>2
  <2> QED BY <1>1, <2>1, <2>2, SumOfParts DEF Through
<1>6. ASSUME NEW a \in Int, NEW b \in Int,
             \A t \in Stretch(a, b) : f[t] = 0
      PROVE  Through(f, a, b) = 0
  <2>1. Stretch(a, b) \in SUBSET Limit!Times
    BY <1>2
  <2> QED BY <1>1, <1>6, <2>1, SumOfZeros DEF Through
<1> QED BY <1>3, <1>4, <1>5, <1>6

\* One message more counts in every stretch that its moment is in.
LEMMA OneMoreThrough ==
    ASSUME NEW f \in [Limit!Times -> Nat], NEW t \in Limit!Times, NEW a \in Int, NEW b \in Int
    PROVE  Through([f EXCEPT ![t] = @ + 1], a, b)
             = Through(f, a, b) + (IF a <= t /\ t <= b THEN 1 ELSE 0)
<1>1. IsFiniteSet(Limit!Times)
  BY TimesFinite
<1>2. PICK g : g = [f EXCEPT ![t] = @ + 1]
  OBVIOUS
<1>3. g \in [Limit!Times -> Nat] /\ \A x \in Limit!Times : g[x] = f[x] + (IF x = t THEN 1 ELSE 0)
  BY <1>2
<1>4. Stretch(a, b) \in SUBSET Limit!Times /\ (t \in Stretch(a, b) <=> a <= t /\ t <= b)
  BY DEF Stretch
<1>5. Through(g, a, b) = Through(f, a, b) + (IF t \in Stretch(a, b) THEN 1 ELSE 0)
  BY <1>1, <1>3, <1>4, SumOfOneMore DEF Through
<1> QED BY <1>2, <1>4, <1>5

\* What LimitInv says of what f lets through, with the clock at t and the
\* window w of the address.
Runs(f, t, count, start) ==
    /\ count >= 1
    /\ Through(f, start, t) <= count /\ Through(f, start, t) <= AddressLimit
    /\ Through(f, start + 1, t) < count /\ Through(f, start + 1, t) < AddressLimit
    /\ Through(f, start - WindowMs + 1, start - 1) < AddressLimit

Accounted(f, t, w) ==
    /\ f \in [Limit!Times -> Nat]
    /\ \A u \in Limit!Times : u > t => f[u] = 0
    /\ IF w.resetAt <= t
       THEN f[t] = 0 /\ Through(f, t - WindowMs + 1, t) < AddressLimit
       ELSE Runs(f, t, w.count, w.resetAt - WindowMs)

Bounded(f) ==
    \A u \in Limit!Times : Through(f, u - WindowMs + 1, u) < 2 * AddressLimit

Clocked(t, w) ==
    /\ t \in Limit!Times
    /\ w \in [count : Nat, resetAt : Nat]
    /\ w.resetAt <= t + WindowMs

LEMMA LimitInvSays == Limit!LimitInv <=> Clocked(moment, address) /\ Accounted(allowed, moment, address)
                                /\ Bounded(allowed)
BY SentIsThrough DEF Limit!LimitInv, Limit!Over, Limit!Running, Limit!FloodIsBounded,
   Clocked, Accounted, Runs, Bounded

LEMMA LimitInvWillSay ==
    Limit!LimitInv' <=> Clocked(moment, address)' /\ Accounted(allowed, moment, address)' /\ Bounded(allowed)'
BY SentWillBeThrough DEF Limit!LimitInv, Limit!Over, Limit!Running, Limit!FloodIsBounded,
   Clocked, Accounted, Runs, Bounded, Limit!Times

\* The windows have a length, and the limit lets somebody through.
LEMMA LimitTypes == AddressLimit \in Nat \ {0} /\ WindowMs \in Nat \ {0} /\ MaxMoment \in Nat \ {0}
BY ServicesAssumption DEF Limit!RateLimitAssumption

\* What is accounted for now bounds every stretch that ends now or later.
LEMMA BoundedFromNow ==
    ASSUME NEW f, NEW t, NEW w, Clocked(t, w), Accounted(f, t, w),
           NEW u \in Limit!Times, u >= t
    PROVE  Through(f, u - WindowMs + 1, u) < 2 * AddressLimit
<1> DEFINE start == w.resetAt - WindowMs
           W == WindowMs
           Sum(a, b) == Through(f, a, b)
<1>1. /\ W \in Nat \ {0} /\ AddressLimit \in Nat \ {0} /\ u \in Int /\ t \in Int
      /\ start \in Int /\ start <= t
  BY LimitTypes DEF Clocked, Limit!Times
<1>2. f \in [Limit!Times -> Nat]
  BY DEF Accounted
<1>3. Sum(t + 1, u) = 0
  <2>1. \A x \in Stretch(t + 1, u) : f[x] = 0
    BY DEF Accounted, Clocked, Stretch, Limit!Times
  <2> QED BY <1>1, <1>2, <2>1, ThroughFacts
<1> HIDE DEF start, W, Sum
<1>4. CASE w.resetAt <= t
  <2>1. Sum(t - W + 1, t) < AddressLimit
    BY <1>4 DEF Accounted, Sum, W
  <2>2. Sum(t - W + 1, u) <= Sum(t - W + 1, t) + Sum(t + 1, u)
    BY <1>1, <1>2, ThroughFacts DEF Sum
  <2>3. Sum(u - W + 1, u) <= Sum(t - W + 1, u)
    BY <1>1, <1>2, ThroughFacts DEF Sum
  <2>4. /\ Sum(u - W + 1, u) \in Nat /\ Sum(t - W + 1, u) \in Nat
        /\ Sum(t - W + 1, t) \in Nat
    BY <1>1, <1>2, ThroughFacts DEF Sum
  <2>5. Sum(u - W + 1, u) < 2 * AddressLimit
    BY <1>1, <1>3, <2>1, <2>2, <2>3, <2>4
  <2> QED BY <2>5 DEF Sum, W
<1>5. CASE ~(w.resetAt <= t)
  <2>1. Sum(start, t) <= AddressLimit /\ Sum(start - W + 1, start - 1) < AddressLimit
    BY <1>5 DEF Accounted, Runs, Sum, W, start
  <2>2. Sum(start - W + 1, u) <= Sum(start - W + 1, start - 1) + Sum(start, u)
    BY <1>1, <1>2, ThroughFacts DEF Sum
  <2>3. Sum(start, u) <= Sum(start, t) + Sum(t + 1, u)
    BY <1>1, <1>2, ThroughFacts DEF Sum
  <2>4. Sum(u - W + 1, u) <= Sum(start - W + 1, u)
    BY <1>1, <1>2, ThroughFacts DEF Sum
  <2>5. /\ Sum(u - W + 1, u) \in Nat /\ Sum(start - W + 1, u) \in Nat /\ Sum(start, u) \in Nat
        /\ Sum(start, t) \in Nat /\ Sum(start - W + 1, start - 1) \in Nat
    BY <1>1, <1>2, ThroughFacts DEF Sum
  <2>6. Sum(u - W + 1, u) < 2 * AddressLimit
    BY <1>1, <1>3, <2>1, <2>2, <2>3, <2>4, <2>5
  <2> QED BY <2>6 DEF Sum, W
<1> QED BY <1>4, <1>5

LEMMA LimitInit == Limit!Init => Limit!LimitInv
<1> SUFFICES ASSUME Limit!Init PROVE Limit!LimitInv
  OBVIOUS
<1>1. /\ moment = 1 /\ moment \in Limit!Times /\ address = [count |-> 0, resetAt |-> 0]
      /\ allowed \in [Limit!Times -> Nat] /\ \A t \in Limit!Times : allowed[t] = 0
  BY LimitTypes DEF Limit!Init, Limit!NoWindow, Limit!Times
<1>2. \A a, b \in Int : Through(allowed, a, b) = 0
  BY <1>1, ThroughFacts DEF Stretch
<1>3. Clocked(moment, address) /\ Accounted(allowed, moment, address)
  BY <1>1, <1>2, LimitTypes DEF Clocked, Accounted
<1>4. Bounded(allowed)
  BY <1>2, LimitTypes DEF Bounded, Limit!Times
<1> QED BY <1>3, <1>4, LimitInvSays

\* A message begins a window, or is one more of the window that runs; it is
\* let through only when the limit allows it.
LEMMA MessageStep ==
    ASSUME Limit!LimitInv, NEW s \in Sockets, Limit!allowMessage(s)
    PROVE  Limit!LimitInv'
<1> DEFINE W == WindowMs
           L == AddressLimit
           start == address.resetAt - W
           Sum(a, b) == Through(allowed, a, b)
<1>1. Clocked(moment, address) /\ Accounted(allowed, moment, address) /\ Bounded(allowed)
  BY LimitInvSays
<1>2. /\ W \in Nat \ {0} /\ L \in Nat \ {0} /\ moment \in Int /\ start \in Int
      /\ moment \in Limit!Times /\ address.resetAt \in Nat /\ address.count \in Nat
      /\ start <= moment /\ allowed \in [Limit!Times -> Nat]
  BY <1>1, LimitTypes DEF Clocked, Accounted, Limit!Times
<1>3. moment' = moment /\ address' = Limit!Consumed(address)
  BY DEF Limit!allowMessage
<1>4. PICK through \in BOOLEAN :
        /\ allowed' = IF through THEN [allowed EXCEPT ![moment] = @ + 1] ELSE allowed
        /\ through => address.resetAt <= moment \/ address.count + 1 <= L
  BY DEF Limit!allowMessage, Limit!Ok
<1>5. allowed' \in [Limit!Times -> Nat]
  BY <1>2, <1>4
<1>6. \A u \in Limit!Times : allowed'[u] = allowed[u] + (IF through /\ u = moment THEN 1 ELSE 0)
  BY <1>2, <1>4
<1>7. ASSUME NEW a \in Int, NEW b \in Int
      PROVE  /\ Sum(a, b) \in Nat /\ Through(allowed', a, b) \in Nat
             /\ Through(allowed', a, b) <= Sum(a, b) + 1
             /\ (~through \/ b < moment \/ moment < a) => Through(allowed', a, b) = Sum(a, b)
  <2>1. Sum(a, b) \in Nat
    BY <1>2, ThroughFacts
  <2>2. CASE through
    <3>1. allowed' = [allowed EXCEPT ![moment] = @ + 1]
      BY <1>4, <2>2
    <3>2. Through(allowed', a, b) = Sum(a, b) + (IF a <= moment /\ moment <= b THEN 1 ELSE 0)
      BY <1>2, <3>1, OneMoreThrough
    <3> QED BY <1>2, <2>1, <2>2, <3>2
  <2>3. CASE ~through
    BY <1>4, <2>1, <2>3
  <2> QED BY <2>2, <2>3
<1>8. \A u \in Limit!Times : u > moment => allowed'[u] = 0
  BY <1>1, <1>2, <1>6 DEF Accounted, Limit!Times
<1> HIDE DEF W, Sum
<1>10. Clocked(moment', address') /\ Accounted(allowed', moment', address')
  <2>1. CASE address.resetAt <= moment
    <3>0. moment - W + 1 \in Int /\ moment - 1 \in Int /\ moment - 1 < moment
      BY <1>2
    <3>1. address' = [count |-> 1, resetAt |-> moment + W]
      BY <1>3, <2>1 DEF Limit!Consumed, W
    <3>2. allowed[moment] = 0 /\ Sum(moment - W + 1, moment) < L
      BY <1>1, <2>1 DEF Accounted, Sum, W
    <3>3. Sum(moment, moment) = 0 /\ Sum(moment + 1, moment) = 0
      <4>1. (\A x \in Stretch(moment, moment) : allowed[x] = 0)
            /\ \A x \in Stretch(moment + 1, moment) : allowed[x] = 0
        BY <1>2, <3>2 DEF Stretch, Limit!Times
      <4> QED BY <1>2, <4>1, ThroughFacts DEF Sum
    <3>4. Sum(moment - W + 1, moment - 1) <= Sum(moment - W + 1, moment)
      BY <1>2, ThroughFacts DEF Sum
    <3>5. Sum(moment - W + 1, moment) \in Nat /\ Sum(moment - W + 1, moment - 1) \in Nat
      BY <1>2, <1>7, <3>0
    <3>6. Through(allowed', moment, moment) \in Nat /\ Through(allowed', moment, moment) <= 1
      BY <1>2, <1>7, <3>3
    <3>7. Through(allowed', moment + 1, moment) = 0
      BY <1>2, <1>7, <3>3
    <3>8. Through(allowed', moment - W + 1, moment - 1) < L
      <4>1. Through(allowed', moment - W + 1, moment - 1) = Sum(moment - W + 1, moment - 1)
        BY <1>2, <1>7, <3>0
      <4> QED BY <1>2, <3>2, <3>4, <3>5, <4>1
    <3>9. Runs(allowed', moment, 1, moment)
      BY <1>2, <3>6, <3>7, <3>8 DEF Runs, W
    <3>10. /\ moment + W - WindowMs = moment /\ ~(moment + W <= moment) /\ moment + W \in Nat
           /\ address'.resetAt = moment + W /\ address'.count = 1
           /\ address'.resetAt - WindowMs = moment
      BY <1>2, <3>1 DEF W, Limit!Times
    <3>11. Accounted(allowed', moment, address')
      BY <1>5, <1>8, <3>9, <3>10 DEF Accounted
    <3> QED BY <1>2, <1>3, <3>1, <3>10, <3>11 DEF Clocked, W
  <2>2. CASE ~(address.resetAt <= moment)
    <3>1. address' = [address EXCEPT !.count = @ + 1]
      BY <1>3, <2>2 DEF Limit!Consumed
    <3>2. address'.count = address.count + 1 /\ address'.resetAt = address.resetAt
          /\ address' \in [count : Nat, resetAt : Nat]
      BY <1>1, <3>1 DEF Clocked
    <3>3. Runs(allowed, moment, address.count, start)
      BY <1>1, <2>2 DEF Accounted, W
    <3>4. through => address.count + 1 <= L
      BY <1>4, <2>2
    <3> HIDE DEF start
    <3>5. /\ Through(allowed', start, moment) <= address.count + 1
          /\ Through(allowed', start, moment) <= L
      <4>1. /\ Sum(start, moment) \in Nat /\ Through(allowed', start, moment) \in Nat
            /\ Through(allowed', start, moment) <= Sum(start, moment) + 1
            /\ ~through => Through(allowed', start, moment) = Sum(start, moment)
        BY <1>2, <1>7
      <4>2. Sum(start, moment) <= address.count /\ Sum(start, moment) <= L
        BY <3>3 DEF Runs, Sum
      <4> QED BY <1>2, <3>4, <4>1, <4>2
    <3>6. /\ Through(allowed', start + 1, moment) < address.count + 1
          /\ Through(allowed', start + 1, moment) < L
      <4>1. /\ Sum(start + 1, moment) \in Nat /\ Through(allowed', start + 1, moment) \in Nat
            /\ Through(allowed', start + 1, moment) <= Sum(start + 1, moment) + 1
            /\ ~through => Through(allowed', start + 1, moment) = Sum(start + 1, moment)
        <5>1. start + 1 \in Int
          BY <1>2
        <5> QED BY <1>2, <1>7, <5>1
      <4>2. Sum(start + 1, moment) < address.count /\ Sum(start + 1, moment) < L
        BY <3>3 DEF Runs, Sum
      <4> QED BY <1>2, <3>4, <4>1, <4>2
    <3>7. Through(allowed', start - W + 1, start - 1) < L
      <4>1. start - W + 1 \in Int /\ start - 1 \in Int /\ start - 1 < moment
        BY <1>2
      <4>2. Through(allowed', start - W + 1, start - 1) = Sum(start - W + 1, start - 1)
        BY <1>2, <1>7, <4>1
      <4>3. Sum(start - W + 1, start - 1) < L
        BY <3>3 DEF Runs, Sum, W
      <4> QED BY <4>2, <4>3
    <3>8. Runs(allowed', moment, address.count + 1, start)
      BY <1>2, <3>3, <3>5, <3>6, <3>7 DEF Runs, W
    <3>9. Accounted(allowed', moment, address')
      BY <1>5, <1>8, <2>2, <3>2, <3>8 DEF Accounted, start, W
    <3> QED BY <1>1, <1>3, <3>2, <3>9 DEF Clocked
  <2> QED BY <2>1, <2>2
<1>11. Bounded(allowed)'
  <2> SUFFICES ASSUME NEW u \in Limit!Times
               PROVE  Through(allowed', u - WindowMs + 1, u) < 2 * AddressLimit
    BY DEF Bounded, Limit!Times
  <2>1. CASE u < moment
    <3>1. u \in Int /\ u - WindowMs + 1 \in Int
      BY <1>2 DEF Limit!Times, W
    <3>2. Through(allowed', u - WindowMs + 1, u) = Sum(u - WindowMs + 1, u)
      BY <1>2, <1>7, <2>1, <3>1
    <3> QED BY <1>1, <3>2 DEF Bounded, Sum
  <2>2. CASE u >= moment
    BY <1>3, <1>10, <2>2, BoundedFromNow
  <2> QED BY <1>2, <2>1, <2>2 DEF Limit!Times
<1> QED BY <1>10, <1>11, LimitInvWillSay

\* A window that is over stays over when it is swept.
LEMMA SweepStep ==
    ASSUME Limit!LimitInv, Limit!sweep
    PROVE  Limit!LimitInv'
<1>1. Clocked(moment, address) /\ Accounted(allowed, moment, address) /\ Bounded(allowed)
  BY LimitInvSays
<1>2. moment' = moment /\ allowed' = allowed /\ address' = Limit!Swept(address)
  BY DEF Limit!sweep
<1>3. moment \in Nat /\ WindowMs \in Nat
  BY <1>1, LimitTypes DEF Clocked, Limit!Times
<1>4. CASE address.resetAt <= moment
  <2>1. address' = [count |-> 0, resetAt |-> 0]
    BY <1>2, <1>4 DEF Limit!Swept, Limit!NoWindow
  <2>2. Clocked(moment, address')
    BY <1>1, <1>3, <2>1 DEF Clocked
  <2>3. Accounted(allowed, moment, address')
    BY <1>1, <1>3, <1>4, <2>1 DEF Accounted
  <2> QED BY <1>1, <1>2, <2>2, <2>3, LimitInvWillSay
<1>5. CASE ~(address.resetAt <= moment)
  BY <1>1, <1>2, <1>5, LimitInvWillSay DEF Limit!Swept
<1> QED BY <1>4, <1>5

\* Time passes: a window that ends leaves what it let through after its first
\* message, which is less than the limit.
LEMMA MomentStep ==
    ASSUME Limit!LimitInv, Limit!Tick
    PROVE  Limit!LimitInv'
<1> DEFINE next == moment + 1
           start == address.resetAt - WindowMs
           Sum(a, b) == Through(allowed, a, b)
<1>1. Clocked(moment, address) /\ Accounted(allowed, moment, address) /\ Bounded(allowed)
  BY LimitInvSays
<1>2. moment' = next /\ allowed' = allowed /\ address' = address /\ moment < MaxMoment
  BY DEF Limit!Tick
<1>3. /\ moment \in Nat /\ next \in Limit!Times /\ WindowMs \in Nat \ {0} /\ start \in Int
      /\ allowed \in [Limit!Times -> Nat] /\ AddressLimit \in Nat \ {0}
      /\ address.resetAt \in Nat /\ address.count \in Nat /\ next \in Int
  BY <1>1, <1>2, LimitTypes DEF Clocked, Accounted, Limit!Times
<1>4. allowed[next] = 0 /\ \A u \in Limit!Times : u > next => allowed[u] = 0
  BY <1>1, <1>3 DEF Accounted, Limit!Times
<1>5. ASSUME NEW a \in Int
      PROVE  /\ Sum(a, moment) \in Nat /\ Sum(a, next) \in Nat
             /\ Sum(a, next) <= Sum(a, moment)
  <2>1. \A x \in Stretch(next, next) : allowed[x] = 0
    BY <1>3, <1>4 DEF Stretch, Limit!Times
  <2>2. Sum(next, next) = 0
    BY <1>3, <2>1, ThroughFacts
  <2>3. Sum(a, next) <= Sum(a, moment) + Sum(next, next)
    BY <1>3, ThroughFacts
  <2>4. Sum(a, moment) \in Nat /\ Sum(a, next) \in Nat
    BY <1>3, ThroughFacts
  <2> HIDE DEF Sum
  <2> QED BY <2>2, <2>3, <2>4
<1>6. Clocked(next, address)
  BY <1>1, <1>3 DEF Clocked
<1> HIDE DEF Sum
<1>7. Accounted(allowed, next, address)
  <2>1. CASE address.resetAt <= moment
    <3>1. Sum(moment - WindowMs + 1, moment) < AddressLimit
      BY <1>1, <2>1 DEF Accounted, Sum
    <3>2. Sum(next - WindowMs + 1, next) <= Sum(moment - WindowMs + 1, next)
      BY <1>3, ThroughFacts DEF Sum
    <3>3. /\ Sum(moment - WindowMs + 1, next) <= Sum(moment - WindowMs + 1, moment)
          /\ Sum(moment - WindowMs + 1, next) \in Nat
          /\ Sum(moment - WindowMs + 1, moment) \in Nat
      BY <1>3, <1>5
    <3>4. Sum(next - WindowMs + 1, next) \in Nat
      BY <1>3, <1>5
    <3>5. Sum(next - WindowMs + 1, next) < AddressLimit
      BY <1>3, <3>1, <3>2, <3>3, <3>4
    <3>6. address.resetAt <= next
      BY <1>3, <2>1
    <3> QED BY <1>3, <1>4, <3>5, <3>6 DEF Accounted, Sum
  <2>2. CASE ~(address.resetAt <= moment)
    <3>1. Runs(allowed, moment, address.count, start)
      BY <1>1, <2>2 DEF Accounted
    <3>2. /\ Sum(start, next) <= Sum(start, moment) /\ Sum(start + 1, next) <= Sum(start + 1, moment)
          /\ {Sum(start, next), Sum(start, moment), Sum(start + 1, next), Sum(start + 1, moment)}
               \subseteq Nat
      BY <1>3, <1>5
    <3>3. CASE address.resetAt = next
      <4>1. next - WindowMs + 1 = start + 1
        BY <3>3
      <4>2. Sum(start + 1, moment) < AddressLimit
        BY <3>1 DEF Runs, Sum
      <4>3. Sum(next - WindowMs + 1, next) < AddressLimit
        BY <1>3, <3>2, <4>1, <4>2
      <4>4. address.resetAt <= next
        BY <1>3, <3>3
      <4> QED BY <1>3, <1>4, <4>3, <4>4 DEF Accounted, Sum
    <3>4. CASE address.resetAt # next
      <4>1. ~(address.resetAt <= next)
        BY <1>3, <2>2, <3>4
      <4>2. Runs(allowed, next, address.count, start)
        <5>1. /\ Sum(start, next) <= address.count /\ Sum(start, next) <= AddressLimit
              /\ Sum(start + 1, next) < address.count /\ Sum(start + 1, next) < AddressLimit
          <6>1. /\ Sum(start, moment) <= address.count /\ Sum(start, moment) <= AddressLimit
                /\ Sum(start + 1, moment) < address.count /\ Sum(start + 1, moment) < AddressLimit
            BY <3>1 DEF Runs, Sum
          <6> HIDE DEF next, start
          <6> QED BY <1>3, <3>2, <6>1
        <5> QED BY <3>1, <5>1 DEF Runs, Sum
      <4> QED BY <1>3, <1>4, <4>1, <4>2 DEF Accounted
    <3> QED BY <3>3, <3>4
  <2> QED BY <2>1, <2>2
<1> QED BY <1>1, <1>2, <1>6, <1>7, LimitInvWillSay

LEMMA LimitNext == Limit!LimitInv /\ [Limit!Next]_limits => Limit!LimitInv'
<1> SUFFICES ASSUME Limit!LimitInv, [Limit!Next]_limits PROVE Limit!LimitInv'
  OBVIOUS
<1>1. CASE UNCHANGED limits \/ \E s \in Sockets : Limit!releaseSocket(s)
  <2>1. moment' = moment /\ address' = address /\ allowed' = allowed
    BY <1>1 DEF limits, Limit!releaseSocket
  <2> QED BY <2>1, LimitInvSays, LimitInvWillSay
<1> QED BY <1>1, MessageStep, SweepStep, MomentStep DEF Limit!Next

\* The inductive invariant: what the window that is open has let through, and
\* the stretch before it.  (support-rate-limit.service.ts:44-71.)
LEMMA LimitsInvariant == MCSpec => [](part = "limits" => Limit!LimitInv)
<1> DEFINE Inv == part = "limits" => Limit!LimitInv
<1>1. MCInit => Inv
  BY LimitInit DEF MCInit
<1>2. Inv /\ [MCNext]_all => Inv'
  <2> SUFFICES ASSUME Inv, [MCNext]_all PROVE Inv'
    OBVIOUS
  <2>1. part' = part /\ (part = "limits" => [Limit!Next]_limits)
    <3>1. CASE UNCHANGED all
      BY <3>1 DEF all, limits
    <3>2. CASE MCNext
      BY <3>2 DEF MCNext, RateStep, CatalogueStep, LinksStep, SignInStep, LimitStep,
        Rows!Tables
    <3> QED BY <3>1, <3>2
  <2> QED BY <2>1, LimitNext
<1> HIDE DEF Inv
<1>3. MCSpec => []Inv
  BY <1>1, <1>2, PTL DEF MCSpec
<1> QED BY <1>3 DEF Inv

\* Whatever sockets it opens and whenever the timer sweeps, an address gets
\* fewer than two limits of messages through in any stretch as long as a window.
\* (support-rate-limit.service.ts:33-38.)
THEOREM FloodAlwaysBounded == MCSpec => []FloodIsBounded
<1>1. (part = "limits" => Limit!LimitInv) => FloodIsBounded
  BY DEF FloodIsBounded, Limit!LimitInv
<1> QED BY <1>1, LimitsInvariant, PTL

-----------------------------------------------------------------------------
(* What a guest takes into the account: one merge finds the guest's lines, *)
(* and hands each over or adds it to the account's own before it removes   *)
(* it.                                                                     *)

LEMMA LineNames ==
    /\ \A p \in Paintings : Guest!OfGuest(p) \in Guest!Lines /\ Guest!OfAccount(p) \in Guest!Lines
    /\ \A p, q : /\ Guest!OfGuest(p) # Guest!OfAccount(q)
                 /\ Guest!OfGuest(p) = Guest!OfGuest(q) => p = q
                 /\ Guest!OfAccount(p) = Guest!OfAccount(q) => p = q
                 /\ Guest!OfGuest(p)[2] = p /\ Guest!OfAccount(p)[2] = p
    /\ \A l \in Guest!Lines : /\ l[2] \in Paintings
                              /\ l = Guest!OfGuest(l[2]) \/ l = Guest!OfAccount(l[2])
BY DEF Guest!Lines, Guest!Carts, Guest!OfGuest, Guest!OfAccount

\* The lines of a painting are the guest's and the account's.
LEMMA InCart ==
    ASSUME NEW p \in Paintings, NEW cart, NEW l
    PROVE  l \in Guest!In(cart, p) <=> /\ l \in {Guest!OfGuest(p), Guest!OfAccount(p)}
                                       /\ line[l].in = cart
BY LineNames DEF Guest!In

LEMMA InCartThen ==
    ASSUME NEW p \in Paintings, NEW cart, NEW l
    PROVE  l \in Guest!In(cart, p)' <=> /\ l \in {Guest!OfGuest(p), Guest!OfAccount(p)}
                                        /\ line'[l].in = cart
BY LineNames DEF Guest!In, Guest!Lines, Guest!Carts

\* A line in the guest's cart is the guest's own.
LEMMA GuestsOwn ==
    ASSUME \A p \in Paintings : Guest!Placed(p), NEW l \in Guest!GuestLines
    PROVE  /\ l \in Guest!Lines /\ line[l].in = "guest"
           /\ l[2] \in Paintings /\ l = Guest!OfGuest(l[2])
BY LineNames DEF Guest!GuestLines, Guest!Placed

LEMMA NotMergingIsWork == Guest!NotMerging \in Guest!Work
BY DEF Guest!NotMerging, Guest!Work

\* Steps of the page, and of the gallery: the lines stay, and the merges.
LEMMA PageStep ==
    ASSUME Guest!CartInv, ~overlapped,
           UNCHANGED <<line, first, broken, merge, token>>,
           amount' \in [Paintings -> Nat], way' \in [Ways -> Guest!Stages],
           \A w \in Ways : way'[w] = "claimOrders" => merge[w].at = "none"
    PROVE  Guest!CartInv'
<1>1. /\ Guest!CartType /\ Guest!OneMerge /\ \A w \in Ways : Guest!Merges(merge[w])
      /\ \A p \in Paintings : Guest!Placed(p) /\ (~broken => Guest!Counted(p))
      /\ ~token => Guest!GuestLines = {}
  BY DEF Guest!CartInv
<1>2. Guest!CartType' /\ Guest!OneMerge'
  BY <1>1 DEF Guest!CartType, Guest!OneMerge, Guest!Lines, Guest!Carts, Guest!Stages, Guest!Work, Guest!Nowhere
<1>3. Guest!GuestLines' = Guest!GuestLines /\ \A c, p : Guest!In(c, p)' = Guest!In(c, p)
  BY DEF Guest!GuestLines, Guest!In, Guest!Lines, Guest!Carts
<1>4. ASSUME NEW p \in Paintings PROVE Guest!Placed(p)' /\ (~broken' => Guest!Counted(p)')
  BY <1>1, <1>3 DEF Guest!Placed, Guest!Counted, Guest!Had, Guest!OfGuest, Guest!OfAccount, Guest!Carts
<1>5. \A w \in Ways : Guest!Merges(merge[w])'
  BY <1>1, <1>3 DEF Guest!Merges, Guest!OfAccount
<1> QED BY <1>1, <1>2, <1>3, <1>4, <1>5 DEF Guest!CartInv

LEMMA CartUnfolds ==
    ASSUME Guest!CartInv, ~overlapped
    PROVE  /\ Guest!CartType /\ Guest!OneMerge /\ \A w \in Ways : Guest!Merges(merge[w])
           /\ \A p \in Paintings : Guest!Placed(p) /\ (~broken => Guest!Counted(p))
           /\ ~token => Guest!GuestLines = {}
BY DEF Guest!CartInv

\* A step of the one merge there is, and of the page that waits for it.
LEMMA ServedStep ==
    ASSUME Guest!CartInv, ~overlapped, NEW w \in Ways,
           merge[w].at # "none" \/ way[w] = "claimOrders",
           \A v \in Ways \ {w} : merge[v].at = "none",
           NEW q \in Guest!Work, merge' = [merge EXCEPT ![w] = q],
           UNCHANGED <<amount, first, broken>>, way' \in [Ways -> Guest!Stages],
           \A v \in Ways : way'[v] = "claimOrders" => way[v] = "claimOrders" /\ v # w,
           line' \in [Guest!Lines -> [in : Guest!Carts \cup {"none"}, quantity : Nat]],
           Guest!Merges(q)', ~token' => Guest!GuestLines' = {},
           \A p \in Paintings : Guest!Placed(p)' /\ (~broken => Guest!Counted(p)')
    PROVE  Guest!CartInv'
<1>1. Guest!CartType /\ Guest!OneMerge
  BY CartUnfolds
<1>2. Guest!CartType'
  BY <1>1 DEF Guest!CartType, Guest!Lines, Guest!Carts, Guest!Stages, Guest!Work, Guest!Nowhere
<1>3. \A v \in Ways : merge'[v] = IF v = w THEN q ELSE merge[v]
  BY <1>1 DEF Guest!CartType
<1>4. Guest!OneMerge'
  BY <1>1, <1>3 DEF Guest!OneMerge
<1>5. ASSUME NEW v \in Ways PROVE Guest!Merges(merge[v])'
  <2>1. CASE v = w
    BY <1>3, <2>1 DEF Guest!Merges
  <2>2. CASE v # w
    BY <1>3, <2>2 DEF Guest!Merges
  <2> QED BY <2>1, <2>2
<1> QED BY <1>2, <1>4, <1>5 DEF Guest!CartInv

\* ... when it leaves the lines as they are.
LEMMA QuietCart ==
    ASSUME Guest!CartInv, ~overlapped, NEW w \in Ways,
           merge[w].at # "none" \/ way[w] = "claimOrders", merge[w].at # "remove",
           \A v \in Ways \ {w} : merge[v].at = "none",
           NEW q \in Guest!Work, merge' = [merge EXCEPT ![w] = q], q.at # "remove",
           UNCHANGED <<line, amount, first, broken>>, way' \in [Ways -> Guest!Stages],
           \A v \in Ways : way'[v] = "claimOrders" => way[v] = "claimOrders" /\ v # w,
           Guest!Merges(q), ~token' => Guest!GuestLines = {}
    PROVE  Guest!CartInv'
<1>1. /\ Guest!CartType /\ Guest!OneMerge
      /\ \A p \in Paintings : Guest!Placed(p) /\ (~broken => Guest!Counted(p))
  BY CartUnfolds
<1>2. Guest!GuestLines' = Guest!GuestLines /\ \A c, p : Guest!In(c, p)' = Guest!In(c, p)
  BY DEF Guest!GuestLines, Guest!In, Guest!Lines, Guest!Carts
<1>3. \A v \in Ways : merge'[v] = IF v = w THEN q ELSE merge[v]
  BY <1>1 DEF Guest!CartType
<1>4. ASSUME NEW p \in Paintings PROVE Guest!Placed(p)' /\ (~broken => Guest!Counted(p)')
  <2>1. Guest!Placed(p)'
    BY <1>1 DEF Guest!Placed, Guest!Had, Guest!OfGuest, Guest!OfAccount, Guest!Carts
  <2>2. ASSUME ~broken PROVE Guest!Counted(p)'
    <3>1. Guest!Counted(p)
      BY <1>1, <2>2
    <3>2. \A v \in Ways : merge[v].at # "remove"
      OBVIOUS
    <3> QED BY <1>2, <3>1, <3>2 DEF Guest!Counted, Guest!OfGuest, Guest!OfAccount
  <2> QED BY <2>1, <2>2
<1>5. Guest!Merges(q)'
  BY <1>2 DEF Guest!Merges, Guest!OfAccount
<1>6. line' \in [Guest!Lines -> [in : Guest!Carts \cup {"none"}, quantity : Nat]]
  BY <1>1 DEF Guest!CartType
<1>7. ~token' => Guest!GuestLines' = {}
  BY <1>2
<1> QED BY <1>4, <1>5, <1>6, <1>7, ServedStep

\* Where a merge is at work, no other is.
LEMMA Alone ==
    ASSUME Guest!CartInv, ~overlapped, NEW w \in Ways, merge[w].at # "none"
    PROVE  /\ \A v \in Ways \ {w} : merge[v].at = "none"
           /\ way[w] # "claimOrders"
           /\ merge[w] \in Guest!Work /\ Guest!Merges(merge[w])
BY CartUnfolds DEF Guest!OneMerge, Guest!CartType

LEMMA SignInStarts ==
    ASSUME Guest!CartInv, ~overlapped', NEW w \in Ways,
           Guest!finishSignIn(w) \/ Guest!mergeFails(w) \/ Guest!claimGuestChat(w)
             \/ Guest!navigate(w)
    PROVE  Guest!CartInv'
<1>1. ~overlapped /\ Guest!CartType /\ Guest!OneMerge
  BY CartUnfolds DEF Guest!finishSignIn, Guest!mergeFails, Guest!claimGuestChat, Guest!navigate
<1>2. \E at \in Guest!Stages :
        /\ way' = [way EXCEPT ![w] = at]
        /\ at = "claimOrders" => merge[w].at = "none"
        /\ UNCHANGED <<line, amount, first, broken, merge, token>>
  BY DEF Guest!finishSignIn, Guest!mergeFails, Guest!claimGuestChat, Guest!navigate,
         Guest!Claim, Guest!Stages, Guest!tables
<1>3. way' \in [Ways -> Guest!Stages] /\ amount' \in [Paintings -> Nat]
  BY <1>1, <1>2 DEF Guest!CartType
<1>4. \A v \in Ways : way'[v] = "claimOrders" => merge[v].at = "none"
  BY <1>1, <1>2 DEF Guest!CartType, Guest!OneMerge
<1> QED BY <1>1, <1>2, <1>3, <1>4, PageStep

LEMMA MergeStarts ==
    ASSUME Guest!CartInv, ~overlapped', NEW w \in Ways, Guest!claimGuestOrders(w)
    PROVE  Guest!CartInv'
<1>1. PICK heard \in BOOLEAN :
        /\ way[w] = "claimOrders" /\ way' = [way EXCEPT ![w] = "merge"]
        /\ UNCHANGED <<line, amount, token, first, broken>>
        /\ merge' = IF heard THEN [merge EXCEPT ![w].at = "find"] ELSE merge
        /\ ~overlapped
        /\ heard => \A v \in Ways \ {w} : merge[v].at = "none"
  BY DEF Guest!claimGuestOrders, Guest!Claim
<1>2. Guest!CartType /\ Guest!OneMerge
  BY <1>1, CartUnfolds
<1>3. /\ way' \in [Ways -> Guest!Stages]
      /\ \A v \in Ways : way'[v] = "claimOrders" => way[v] = "claimOrders" /\ v # w
      /\ amount' \in [Paintings -> Nat]
  BY <1>1, <1>2 DEF Guest!CartType, Guest!Stages
<1>4. CASE ~heard
  <2>1. \A v \in Ways : way'[v] = "claimOrders" => merge[v].at = "none"
    BY <1>2, <1>3 DEF Guest!OneMerge
  <2> QED BY <1>1, <1>3, <1>4, <2>1, PageStep
<1>5. CASE heard
  <2>1. PICK q : q = [merge[w] EXCEPT !.at = "find"]
    OBVIOUS
  <2>2. q \in Guest!Work /\ q.at = "find"
    BY <1>2, <2>1 DEF Guest!CartType, Guest!Work
  <2>3. merge' = [merge EXCEPT ![w] = q]
    BY <1>1, <1>2, <1>5, <2>1 DEF Guest!CartType
  <2>4. Guest!Merges(q)
    BY <2>2 DEF Guest!Merges
  <2>5. merge[w].at = "none"
    BY <1>1, <1>2 DEF Guest!OneMerge
  <2>6. ~token' => Guest!GuestLines = {}
    BY <1>1, CartUnfolds
  <2> QED BY <1>1, <1>3, <1>5, <2>2, <2>3, <2>4, <2>5, <2>6, QuietCart
<1> QED BY <1>4, <1>5

LEMMA MergeAnswered ==
    ASSUME Guest!CartInv, ~overlapped', NEW w \in Ways,
           Guest!mergeSucceeds(w) \/ Guest!answer(w) \/ Guest!drop(w)
    PROVE  Guest!CartInv'
<1>1. /\ ~overlapped /\ merge[w].at \in {"next", "answer"} /\ merge[w].at # "none"
      /\ UNCHANGED <<line, amount, first, broken>>
  BY DEF Guest!mergeSucceeds, Guest!answer, Guest!drop, Guest!tables
<1>2. /\ Guest!CartType /\ Guest!OneMerge /\ Guest!Merges(merge[w])
      /\ \A v \in Ways \ {w} : merge[v].at = "none"
      /\ way[w] # "claimOrders"
  BY <1>1, Alone, CartUnfolds
<1>3. /\ way' \in [Ways -> Guest!Stages]
      /\ \A v \in Ways : way'[v] = "claimOrders" => way[v] = "claimOrders" /\ v # w
  BY <1>2 DEF Guest!CartType, Guest!Stages, Guest!mergeSucceeds, Guest!answer, Guest!drop,
              Guest!browser
<1>4. Guest!GuestLines = {}
  BY <1>2 DEF Guest!Merges, Guest!mergeSucceeds, Guest!answer, Guest!drop
<1>5. PICK q \in {Guest!NotMerging, [Guest!NotMerging EXCEPT !.at = "answer"]} :
        merge' = [merge EXCEPT ![w] = q]
  BY DEF Guest!mergeSucceeds, Guest!answer, Guest!drop
<1>6. q \in Guest!Work /\ q.at \in {"none", "answer"}
  BY DEF Guest!NotMerging, Guest!Work
<1>7. Guest!Merges(q)
  BY <1>4, <1>6 DEF Guest!Merges
<1> QED BY <1>1, <1>2, <1>3, <1>4, <1>5, <1>6, <1>7, QuietCart

LEMMA MergeFinds ==
    ASSUME Guest!CartInv, ~overlapped', NEW w \in Ways, Guest!find(w)
    PROVE  Guest!CartInv'
<1>1. /\ ~overlapped /\ merge[w].at = "find" /\ merge[w].at # "none"
      /\ UNCHANGED <<line, amount, first, broken, way, token>>
  BY DEF Guest!find, Guest!tables, Guest!browser
<1>2. /\ Guest!CartType /\ Guest!OneMerge /\ Guest!Merges(merge[w])
      /\ \A v \in Ways \ {w} : merge[v].at = "none"
      /\ way[w] # "claimOrders"
      /\ \A p \in Paintings : Guest!Placed(p)
      /\ ~token => Guest!GuestLines = {}
  BY <1>1, Alone, CartUnfolds
<1>3. PICK q : q = [merge[w] EXCEPT !.at = "next", !.todo = Guest!GuestLines,
                                    !.found = [l \in Guest!Lines |-> line[l].quantity]]
  OBVIOUS
<1>4. merge' = [merge EXCEPT ![w] = q]
  BY <1>2, <1>3 DEF Guest!find, Guest!CartType
<1>5. /\ q.at = "next" /\ q.todo = Guest!GuestLines /\ q \in Guest!Work
      /\ q.found = [l \in Guest!Lines |-> line[l].quantity]
  BY <1>2, <1>3 DEF Guest!CartType, Guest!Work, Guest!GuestLines
<1>6. \A l \in Guest!GuestLines : q.found[l] = first[l]
  <2> SUFFICES ASSUME NEW l \in Guest!GuestLines PROVE q.found[l] = first[l]
    OBVIOUS
  <2>1. l \in Guest!Lines /\ line[l].in = "guest" /\ l[2] \in Paintings /\ l = Guest!OfGuest(l[2])
    BY <1>2, GuestsOwn
  <2> QED BY <1>2, <1>5, <2>1 DEF Guest!Placed
<1>7. Guest!Merges(q)
  BY <1>5, <1>6 DEF Guest!Merges
<1>8. /\ way' \in [Ways -> Guest!Stages]
      /\ \A v \in Ways : way'[v] = "claimOrders" => way[v] = "claimOrders" /\ v # w
  BY <1>1, <1>2 DEF Guest!CartType
<1> QED BY <1>1, <1>2, <1>4, <1>5, <1>7, <1>8, QuietCart

\* The account's line is the only one the guest's can be added to, and without
\* a crash it is still as it was at first.
LEMMA MergeLooks ==
    ASSUME Guest!CartInv, ~overlapped', NEW w \in Ways, Guest!findExisting(w)
    PROVE  Guest!CartInv'
<1> DEFINE m == merge[w]
<1>1. /\ ~overlapped /\ m.at = "next" /\ m.at # "none"
      /\ UNCHANGED <<line, amount, first, broken, way, token>>
  BY DEF Guest!findExisting, Guest!tables, Guest!browser
<1>2. /\ Guest!CartType /\ Guest!OneMerge /\ Guest!Merges(m) /\ m \in Guest!Work
      /\ \A v \in Ways \ {w} : merge[v].at = "none"
      /\ way[w] # "claimOrders"
      /\ \A p \in Paintings : Guest!Placed(p) /\ (~broken => Guest!Counted(p))
      /\ ~token => Guest!GuestLines = {}
  BY <1>1, Alone, CartUnfolds
<1>3. PICK l \in m.todo :
        IF Guest!In("account", l[2]) # {}
        THEN \E e \in Guest!In("account", l[2]) :
               merge' = [merge EXCEPT
                   ![w].at = "save", ![w].item = l, ![w].existing = e,
                   ![w].sum = Guest!Minimum(line[e].quantity + m.found[l], amount[l[2]])]
        ELSE merge' = [merge EXCEPT ![w].at = "save", ![w].item = l, ![w].existing = l]
  BY DEF Guest!findExisting
<1>4. /\ m.todo = Guest!GuestLines /\ l \in Guest!GuestLines
      /\ \A x \in m.todo : m.found[x] = first[x]
  BY <1>1, <1>2, <1>3 DEF Guest!Merges
<1>5. l \in Guest!Lines /\ line[l].in = "guest" /\ l[2] \in Paintings /\ l = Guest!OfGuest(l[2])
  BY <1>2, <1>4, GuestsOwn
<1>6. /\ way' \in [Ways -> Guest!Stages]
      /\ \A v \in Ways : way'[v] = "claimOrders" => way[v] = "claimOrders" /\ v # w
  BY <1>1, <1>2 DEF Guest!CartType
<1>7. CASE Guest!In("account", l[2]) # {}
  <2>1. PICK e \in Guest!In("account", l[2]) :
          merge' = [merge EXCEPT
              ![w].at = "save", ![w].item = l, ![w].existing = e,
              ![w].sum = Guest!Minimum(line[e].quantity + m.found[l], amount[l[2]])]
    BY <1>3, <1>7
  <2>2. e = Guest!OfAccount(l[2]) /\ line[e].in = "account" /\ e \in Guest!Lines
    BY <1>5, InCart, LineNames
  <2>3. /\ line[e].quantity \in Nat /\ m.found[l] = first[l] /\ first[l] \in Nat /\ first[e] \in Nat
        /\ amount[l[2]] \in Nat
    BY <1>2, <1>3, <1>4, <1>5, <2>2 DEF Guest!CartType
  <2>4. PICK sum : sum = Guest!Minimum(line[e].quantity + m.found[l], amount[l[2]])
    OBVIOUS
  <2>5. sum \in Nat /\ sum <= line[e].quantity + first[l]
    BY <2>3, <2>4 DEF Guest!Minimum
  <2>6. ~broken => line[e].quantity <= first[e]
    BY <1>1, <1>2, <1>5, <2>2 DEF Guest!Counted
  <2>7. ~broken => sum <= first[l] + first[e]
    BY <2>3, <2>5, <2>6
  <2>8. PICK q : q = [m EXCEPT !.at = "save", !.item = l, !.existing = e, !.sum = sum]
    OBVIOUS
  <2>9. merge' = [merge EXCEPT ![w] = q]
    BY <1>2, <2>1, <2>4, <2>8 DEF Guest!CartType
  <2>10. /\ q.at = "save" /\ q.item = l /\ q.existing = e /\ q.sum = sum /\ q.todo = m.todo
         /\ q.found = m.found /\ q \in Guest!Work
    BY <1>2, <1>5, <2>2, <2>5, <2>8 DEF Guest!Work
  <2>11. e # l
    BY <1>5, <2>2
  <2>12. Guest!Merges(q)
    BY <1>3, <1>4, <2>2, <2>7, <2>10, <2>11 DEF Guest!Merges
  <2> QED BY <1>1, <1>2, <1>6, <2>9, <2>10, <2>12, QuietCart
<1>8. CASE Guest!In("account", l[2]) = {}
  <2>1. PICK q : q = [m EXCEPT !.at = "save", !.item = l, !.existing = l]
    OBVIOUS
  <2>2. merge' = [merge EXCEPT ![w] = q]
    BY <1>2, <1>3, <1>8, <2>1 DEF Guest!CartType
  <2>3. /\ q.at = "save" /\ q.item = l /\ q.existing = l /\ q.todo = m.todo
        /\ q.found = m.found /\ q \in Guest!Work
    BY <1>2, <1>5, <2>1 DEF Guest!Work
  <2>4. Guest!Merges(q)
    BY <1>3, <1>4, <1>8, <2>3 DEF Guest!Merges
  <2> QED BY <1>1, <1>2, <1>6, <2>2, <2>3, <2>4, QuietCart
<1> QED BY <1>7, <1>8

\* The guest's line is handed over: the account has none, so the key lets it.
LEMMA LineHandedOver ==
    ASSUME Guest!CartInv, ~overlapped', NEW w \in Ways, Guest!handOver(w)
    PROVE  Guest!CartInv'
<1> DEFINE m == merge[w]
           l == m.item
           p == l[2]
<1>1. /\ ~overlapped /\ m.at = "save" /\ m.at # "none" /\ m.existing = m.item
      /\ UNCHANGED <<amount, first, broken, way, token>>
  BY DEF Guest!handOver, Guest!browser
<1>2. /\ Guest!CartType /\ Guest!OneMerge /\ Guest!Merges(m) /\ m \in Guest!Work
      /\ \A v \in Ways \ {w} : merge[v].at = "none"
      /\ way[w] # "claimOrders"
      /\ \A x \in Paintings : Guest!Placed(x) /\ (~broken => Guest!Counted(x))
      /\ ~token => Guest!GuestLines = {}
  BY <1>1, Alone, CartUnfolds
<1>3. /\ m.todo = Guest!GuestLines /\ l \in Guest!GuestLines /\ m.found[l] = first[l]
      /\ \A x \in m.todo : m.found[x] = first[x]
      /\ Guest!In("account", p) = {}
  BY <1>1, <1>2 DEF Guest!Merges
<1>4. l \in Guest!Lines /\ line[l].in = "guest" /\ p \in Paintings /\ l = Guest!OfGuest(p)
  BY <1>2, <1>3, GuestsOwn
<1>5. line' = [line EXCEPT ![l] = [in |-> "account", quantity |-> first[l]]]
  BY <1>3 DEF Guest!handOver
<1>6. PICK q : q = [m EXCEPT !.at = "next", !.todo = @ \ {l}]
  OBVIOUS
<1>7. merge' = [merge EXCEPT ![w] = q]
  BY <1>2, <1>3, <1>6 DEF Guest!handOver, Guest!CartType
<1>8. q.at = "next" /\ q.todo = m.todo \ {l} /\ q.found = m.found /\ q \in Guest!Work
  BY <1>2, <1>6 DEF Guest!Work
<1>9. /\ \A x \in Guest!Lines : x # l => line'[x] = line[x]
      /\ line'[l].in = "account" /\ line'[l].quantity = first[l]
      /\ line' \in [Guest!Lines -> [in : Guest!Carts \cup {"none"}, quantity : Nat]]
      /\ first[l] \in Nat
  BY <1>2, <1>4, <1>5 DEF Guest!CartType, Guest!Carts
<1>10. Guest!GuestLines' = Guest!GuestLines \ {l}
  BY <1>4, <1>9 DEF Guest!GuestLines, Guest!Lines, Guest!Carts
<1>11. Guest!Merges(q)'
  BY <1>3, <1>8, <1>10, <1>1 DEF Guest!Merges
<1>12. line[Guest!OfAccount(p)].in = "none"
  BY <1>2, <1>3, <1>4, InCart DEF Guest!Placed
<1>13. ASSUME NEW x \in Paintings PROVE Guest!Placed(x)' /\ (~broken => Guest!Counted(x)')
  <2>1. CASE x # p
    <3>1. /\ line'[Guest!OfGuest(x)] = line[Guest!OfGuest(x)]
          /\ line'[Guest!OfAccount(x)] = line[Guest!OfAccount(x)]
      BY <1>4, <1>9, <2>1, LineNames
    <3>2. Guest!Placed(x)'
      BY <1>1, <1>2, <3>1 DEF Guest!Placed, Guest!Had, Guest!OfGuest, Guest!OfAccount
    <3>3. ASSUME ~broken PROVE Guest!Counted(x)'
      <4>1. Guest!Counted(x)
        BY <1>2, <3>3
      <4>2. \A v \in Ways : merge[v].at # "remove"
        BY <1>1, <1>2
      <4>3. \A y : y \in Guest!In("account", x)' <=> y \in Guest!In("account", x)
        BY <3>1, InCart, InCartThen
      <4> QED BY <1>1, <3>1, <4>1, <4>2, <4>3, InCart DEF Guest!Counted, Guest!OfGuest, Guest!OfAccount
    <3> QED BY <3>2, <3>3
  <2>2. CASE x = p
    <3>1. /\ line'[Guest!OfGuest(x)].in = "account" /\ line'[Guest!OfGuest(x)].quantity = first[l]
          /\ line'[Guest!OfAccount(x)].in = "none" /\ l = Guest!OfGuest(x)
      BY <1>4, <1>9, <1>12, <2>2, LineNames
    <3>2. Guest!Placed(x)'
      BY <3>1 DEF Guest!Placed, Guest!OfGuest, Guest!OfAccount
    <3>3. first[Guest!OfGuest(x)] \in Nat /\ first[Guest!OfAccount(x)] \in Nat
      BY <1>2, LineNames DEF Guest!CartType
    <3>4. Guest!Counted(x)'
      BY <1>1, <3>1, <3>3, InCartThen DEF Guest!Counted, Guest!OfGuest, Guest!OfAccount
    <3> QED BY <3>2, <3>4
  <2> QED BY <2>1, <2>2
<1>14. /\ way' \in [Ways -> Guest!Stages]
       /\ \A v \in Ways : way'[v] = "claimOrders" => way[v] = "claimOrders" /\ v # w
  BY <1>1, <1>2 DEF Guest!CartType
<1>15. ~token' => Guest!GuestLines' = {}
  BY <1>1, <1>2, <1>10
<1> QED BY <1>1, <1>2, <1>7, <1>8, <1>9, <1>11, <1>13, <1>14, <1>15, ServedStep

\* The guest's line has been added to the account's own.
LEMMA LineAdded ==
    ASSUME Guest!CartInv, ~overlapped', NEW w \in Ways, Guest!saveExisting(w)
    PROVE  Guest!CartInv'
<1> DEFINE m == merge[w]
           l == m.item
           p == l[2]
           e == Guest!OfAccount(p)
<1>1. /\ ~overlapped /\ m.at = "save" /\ m.at # "none" /\ m.existing # m.item
      /\ UNCHANGED <<amount, first, broken, way, token>>
  BY DEF Guest!saveExisting, Guest!browser
<1>2. /\ Guest!CartType /\ Guest!OneMerge /\ Guest!Merges(m) /\ m \in Guest!Work
      /\ \A v \in Ways \ {w} : merge[v].at = "none"
      /\ way[w] # "claimOrders"
      /\ \A x \in Paintings : Guest!Placed(x) /\ (~broken => Guest!Counted(x))
      /\ ~token => Guest!GuestLines = {}
  BY <1>1, Alone, CartUnfolds
<1>3. /\ m.todo = Guest!GuestLines /\ l \in Guest!GuestLines
      /\ \A x \in m.todo : m.found[x] = first[x]
      /\ m.existing = e /\ line[e].in = "account"
      /\ ~broken => m.sum <= first[l] + first[e]
  BY <1>1, <1>2 DEF Guest!Merges
<1>4. /\ l \in Guest!Lines /\ line[l].in = "guest" /\ p \in Paintings /\ l = Guest!OfGuest(p)
      /\ e \in Guest!Lines /\ e # l
  BY <1>2, <1>3, GuestsOwn, LineNames
<1>5. line' = [line EXCEPT ![e] = [in |-> "account", quantity |-> m.sum]] /\ m.sum \in Nat
  BY <1>2, <1>3 DEF Guest!saveExisting, Guest!Work
<1>6. PICK q : q = [m EXCEPT !.at = "remove"]
  OBVIOUS
<1>7. merge' = [merge EXCEPT ![w] = q]
  BY <1>2, <1>6 DEF Guest!saveExisting, Guest!CartType
<1>8. /\ q.at = "remove" /\ q.todo = m.todo /\ q.found = m.found /\ q.item = l /\ q \in Guest!Work
  BY <1>2, <1>6 DEF Guest!Work
<1>9. /\ \A x \in Guest!Lines : x # e => line'[x] = line[x]
      /\ line'[e].in = "account" /\ line'[e].quantity = m.sum
      /\ line' \in [Guest!Lines -> [in : Guest!Carts \cup {"none"}, quantity : Nat]]
  BY <1>2, <1>4, <1>5 DEF Guest!CartType, Guest!Carts
<1>10. Guest!GuestLines' = Guest!GuestLines
  BY <1>3, <1>4, <1>9 DEF Guest!GuestLines, Guest!Lines, Guest!Carts
<1>11. Guest!Merges(q)'
  <2>1. line'[Guest!OfAccount(q.item[2])].in = "account"
    BY <1>8, <1>9
  <2> QED BY <1>1, <1>3, <1>8, <1>10, <2>1 DEF Guest!Merges, Guest!OfAccount
<1>12. merge'[w] = q
  BY <1>2, <1>7 DEF Guest!CartType
<1>13. ASSUME NEW x \in Paintings PROVE Guest!Placed(x)' /\ (~broken => Guest!Counted(x)')
  <2>1. CASE x # p
    <3>1. /\ line'[Guest!OfGuest(x)] = line[Guest!OfGuest(x)]
          /\ line'[Guest!OfAccount(x)] = line[Guest!OfAccount(x)]
      BY <1>4, <1>9, <2>1, LineNames
    <3>2. Guest!Placed(x)'
      BY <1>1, <1>2, <3>1 DEF Guest!Placed, Guest!Had, Guest!OfGuest, Guest!OfAccount
    <3>3. ASSUME ~broken PROVE Guest!Counted(x)'
      <4>1. Guest!Counted(x)
        BY <1>2, <3>3
      <4>2. \A v \in Ways : merge[v].at # "remove"
        BY <1>1, <1>2
      <4>3. \A y : y \in Guest!In("account", x)' <=> y \in Guest!In("account", x)
        BY <3>1, InCart, InCartThen
      <4> QED BY <1>1, <3>1, <4>1, <4>2, <4>3, InCart DEF Guest!Counted, Guest!OfGuest, Guest!OfAccount
    <3> QED BY <3>2, <3>3
  <2>2. CASE x = p
    <3>1. /\ line'[Guest!OfGuest(x)] = line[Guest!OfGuest(x)] /\ line[Guest!OfGuest(x)].in = "guest"
          /\ line'[Guest!OfAccount(x)].in = "account" /\ line'[Guest!OfAccount(x)].quantity = m.sum
          /\ l = Guest!OfGuest(x) /\ e = Guest!OfAccount(x)
      BY <1>4, <1>9, <2>2
    <3>2. Guest!Placed(x)'
      BY <1>1, <1>2, <3>1 DEF Guest!Placed, Guest!Had, Guest!OfGuest, Guest!OfAccount
    <3>3. ASSUME ~broken PROVE Guest!Counted(x)'
      <4>1. \A y : y \in Guest!In("account", x)' => y = Guest!OfAccount(x)
        BY <3>1, InCartThen
      <4>2. \A y \in Guest!In("account", x)' :
              line'[y].quantity <= first[Guest!OfGuest(x)] + first[Guest!OfAccount(x)]
        BY <1>3, <3>1, <3>3, <4>1
      <4>3. ~\A v \in Ways : ~(merge'[v].at = "remove" /\ merge'[v].item = Guest!OfGuest(x))
        BY <1>8, <1>12, <3>1
      <4> QED BY <1>1, <4>2, <4>3 DEF Guest!Counted, Guest!OfGuest, Guest!OfAccount
    <3> QED BY <3>2, <3>3
  <2> QED BY <2>1, <2>2
<1>14. /\ way' \in [Ways -> Guest!Stages]
       /\ \A v \in Ways : way'[v] = "claimOrders" => way[v] = "claimOrders" /\ v # w
  BY <1>1, <1>2 DEF Guest!CartType
<1>15. ~token' => Guest!GuestLines' = {}
  BY <1>1, <1>2, <1>10
<1> QED BY <1>1, <1>2, <1>7, <1>8, <1>9, <1>11, <1>13, <1>14, <1>15, ServedStep

\* ... and is removed by its id: the account's line stays.
LEMMA LineRemoved ==
    ASSUME Guest!CartInv, ~overlapped', NEW w \in Ways, Guest!removeGuestItem(w)
    PROVE  Guest!CartInv'
<1> DEFINE m == merge[w]
           l == m.item
           p == l[2]
<1>1. /\ ~overlapped /\ m.at = "remove" /\ m.at # "none"
      /\ UNCHANGED <<amount, first, broken, way, token>>
  BY DEF Guest!removeGuestItem, Guest!browser
<1>2. /\ Guest!CartType /\ Guest!OneMerge /\ Guest!Merges(m) /\ m \in Guest!Work
      /\ \A v \in Ways \ {w} : merge[v].at = "none"
      /\ way[w] # "claimOrders"
      /\ \A x \in Paintings : Guest!Placed(x) /\ (~broken => Guest!Counted(x))
      /\ ~token => Guest!GuestLines = {}
  BY <1>1, Alone, CartUnfolds
<1>3. /\ m.todo = Guest!GuestLines /\ l \in Guest!GuestLines
      /\ \A x \in m.todo : m.found[x] = first[x]
      /\ line[Guest!OfAccount(p)].in = "account"
  BY <1>1, <1>2 DEF Guest!Merges
<1>4. l \in Guest!Lines /\ line[l].in = "guest" /\ p \in Paintings /\ l = Guest!OfGuest(p)
  BY <1>2, <1>3, GuestsOwn
<1>5. line' = [line EXCEPT ![l] = [in |-> "none", quantity |-> 0]]
  BY DEF Guest!removeGuestItem
<1>6. PICK q : q = [m EXCEPT !.at = "next", !.todo = @ \ {l}]
  OBVIOUS
<1>7. merge' = [merge EXCEPT ![w] = q]
  BY <1>2, <1>6 DEF Guest!removeGuestItem, Guest!CartType
<1>8. q.at = "next" /\ q.todo = m.todo \ {l} /\ q.found = m.found /\ q \in Guest!Work
  BY <1>2, <1>6 DEF Guest!Work
<1>9. /\ \A x \in Guest!Lines : x # l => line'[x] = line[x]
      /\ line'[l].in = "none"
      /\ line' \in [Guest!Lines -> [in : Guest!Carts \cup {"none"}, quantity : Nat]]
  BY <1>2, <1>4, <1>5 DEF Guest!CartType, Guest!Carts
<1>10. Guest!GuestLines' = Guest!GuestLines \ {l}
  BY <1>4, <1>9 DEF Guest!GuestLines, Guest!Lines, Guest!Carts
<1>11. Guest!Merges(q)'
  BY <1>3, <1>8, <1>10, <1>1 DEF Guest!Merges
<1>12. ASSUME NEW x \in Paintings PROVE Guest!Placed(x)' /\ (~broken => Guest!Counted(x)')
  <2>1. CASE x # p
    <3>1. /\ line'[Guest!OfGuest(x)] = line[Guest!OfGuest(x)]
          /\ line'[Guest!OfAccount(x)] = line[Guest!OfAccount(x)]
      BY <1>4, <1>9, <2>1, LineNames
    <3>2. Guest!Placed(x)'
      BY <1>1, <1>2, <3>1 DEF Guest!Placed, Guest!Had, Guest!OfGuest, Guest!OfAccount
    <3>3. ASSUME ~broken PROVE Guest!Counted(x)'
      <4>1. Guest!Counted(x)
        BY <1>2, <3>3
      <4>2. \A v \in Ways : ~(merge[v].at = "remove" /\ merge[v].item = Guest!OfGuest(x))
        BY <1>2, <1>4, <2>1, LineNames
      <4>3. \A y : y \in Guest!In("account", x)' <=> y \in Guest!In("account", x)
        BY <3>1, InCart, InCartThen
      <4> QED BY <1>1, <3>1, <4>1, <4>2, <4>3, InCart DEF Guest!Counted, Guest!OfGuest, Guest!OfAccount
    <3> QED BY <3>2, <3>3
  <2>2. CASE x = p
    <3>1. /\ line'[Guest!OfGuest(x)].in = "none"
          /\ line'[Guest!OfAccount(x)] = line[Guest!OfAccount(x)]
          /\ line[Guest!OfAccount(x)].in = "account"
      BY <1>3, <1>4, <1>9, <2>2, LineNames
    <3>2. Guest!Placed(x)'
      BY <3>1 DEF Guest!Placed, Guest!OfGuest, Guest!OfAccount
    <3>3. ASSUME ~broken PROVE Guest!Counted(x)'
      <4>1. \A y : y \in Guest!In("account", x)' =>
                    /\ y = Guest!OfAccount(x) /\ y \in Guest!In("account", x)
        BY <3>1, InCart, InCartThen
      <4> QED BY <1>1, <1>2, <3>1, <3>3, <4>1 DEF Guest!Counted, Guest!OfGuest, Guest!OfAccount
    <3> QED BY <3>2, <3>3
  <2> QED BY <2>1, <2>2
<1>13. /\ way' \in [Ways -> Guest!Stages]
       /\ \A v \in Ways : way'[v] = "claimOrders" => way[v] = "claimOrders" /\ v # w
  BY <1>1, <1>2 DEF Guest!CartType
<1>14. ~token' => Guest!GuestLines' = {}
  BY <1>1, <1>2, <1>10
<1> QED BY <1>1, <1>2, <1>7, <1>8, <1>9, <1>11, <1>12, <1>13, <1>14, ServedStep

LEMMA CartInit == Guest!Init => Guest!CartInv
<1> SUFFICES ASSUME Guest!Init PROVE Guest!CartInv
  OBVIOUS
<1>1. /\ line \in [Guest!Lines -> [in : Guest!Carts \cup {"none"}, quantity : Nat]]
      /\ first \in [Guest!Lines -> Nat] /\ amount \in [Paintings -> Nat]
  BY ServicesAssumption DEF Guest!Init, Guest!SignInAssumption
<1>2. /\ \A l \in Guest!Lines : /\ line[l].in \in {l[1], "none"}
                                /\ (line[l].in = "none" <=> line[l].quantity = 0)
                                /\ first[l] = line[l].quantity
      /\ token = TRUE /\ \A w \in Ways : way[w] = "out" /\ merge[w] = Guest!NotMerging
  BY DEF Guest!Init
<1>3. Guest!CartType
  BY <1>1, NotMergingIsWork DEF Guest!Init, Guest!CartType, Guest!Stages
<1>4. Guest!NotMerging.at = "none"
  BY DEF Guest!NotMerging
<1>5. Guest!OneMerge /\ \A w \in Ways : Guest!Merges(merge[w])
  BY <1>2, <1>4 DEF Guest!OneMerge, Guest!Merges
<1>6. ASSUME NEW p \in Paintings PROVE Guest!Placed(p) /\ Guest!Counted(p)
  <2>1. /\ Guest!OfGuest(p) \in Guest!Lines /\ Guest!OfAccount(p) \in Guest!Lines
        /\ line[Guest!OfGuest(p)].in \in {"guest", "none"}
        /\ line[Guest!OfAccount(p)].in \in {"account", "none"}
    BY <1>2, LineNames DEF Guest!OfGuest, Guest!OfAccount
  <2>2. \A l \in {Guest!OfGuest(p), Guest!OfAccount(p)} :
          first[l] \in Nat /\ first[l] = line[l].quantity /\ (first[l] > 0 => line[l].in # "none")
    BY <1>1, <1>2, <2>1
  <2>3. Guest!Placed(p)
    BY <2>1, <2>2 DEF Guest!Placed, Guest!Had, Guest!Carts, Guest!OfGuest, Guest!OfAccount
  <2>4. \A l \in Guest!In("account", p) : l = Guest!OfAccount(p)
    BY <2>1, InCart
  <2>5. Guest!Counted(p)
    BY <2>2, <2>4 DEF Guest!Counted
  <2> QED BY <2>3, <2>5
<1> QED BY <1>2, <1>3, <1>5, <1>6 DEF Guest!CartInv

\* A crash leaves the lines as they are, and nothing that is counted on.
LEMMA MergeBreaks ==
    ASSUME Guest!CartInv, ~overlapped', Guest!Crash
    PROVE  Guest!CartInv'
<1>1. /\ ~overlapped /\ broken' = TRUE /\ merge' = [w \in Ways |-> Guest!NotMerging]
      /\ UNCHANGED <<line, amount, first, way, token>>
  BY DEF Guest!Crash, Guest!tables, Guest!browser
<1>2. /\ Guest!CartType /\ \A p \in Paintings : Guest!Placed(p)
      /\ ~token => Guest!GuestLines = {}
  BY <1>1, CartUnfolds
<1>3. Guest!NotMerging.at = "none"
  BY DEF Guest!NotMerging
<1>4. Guest!CartType'
  BY <1>1, <1>2, NotMergingIsWork DEF Guest!CartType, Guest!Lines, Guest!Carts, Guest!Stages,
     Guest!Work, Guest!Nowhere
<1>5. Guest!OneMerge' /\ \A w \in Ways : Guest!Merges(merge[w])'
  BY <1>1, <1>3 DEF Guest!OneMerge, Guest!Merges
<1>6. \A p \in Paintings : Guest!Placed(p)'
  BY <1>1, <1>2 DEF Guest!Placed, Guest!Had, Guest!OfGuest, Guest!OfAccount, Guest!Carts
<1>7. Guest!GuestLines' = Guest!GuestLines
  BY <1>1 DEF Guest!GuestLines, Guest!Lines, Guest!Carts
<1> QED BY <1>1, <1>2, <1>4, <1>5, <1>6, <1>7 DEF Guest!CartInv

LEMMA CartStep == Guest!CartInv /\ [Guest!Next]_signIn => Guest!CartInv'
<1> SUFFICES ASSUME Guest!CartInv, [Guest!Next]_signIn PROVE Guest!CartInv'
  OBVIOUS
<1>1. CASE overlapped'
  BY <1>1 DEF Guest!CartInv
<1> SUFFICES ASSUME ~overlapped' PROVE Guest!CartInv'
  BY <1>1
<1>2. CASE Guest!CloseTab \/ UNCHANGED signIn
               \/ \E p \in Paintings, n \in 0 .. MaxAmount : Guest!SetAmount(p, n)
  <2>1. ~overlapped /\ UNCHANGED <<line, first, broken, merge, token>>
    BY <1>2 DEF signIn, Guest!CloseTab, Guest!SetAmount, Guest!tables, Guest!browser
  <2>2. Guest!CartType /\ Guest!OneMerge
    BY <2>1, CartUnfolds
  <2>3. amount' \in [Paintings -> Nat]
    BY <1>2, <2>2, ServicesAssumption DEF signIn, Guest!CloseTab, Guest!SetAmount, Guest!tables,
       Guest!CartType, Guest!SignInAssumption
  <2>4. way' \in [Ways -> Guest!Stages] /\ \A w \in Ways : way'[w] = "claimOrders" => way[w] = "claimOrders"
    BY <1>2, <2>2 DEF signIn, Guest!CloseTab, Guest!SetAmount, Guest!browser,
       Guest!CartType, Guest!Stages
  <2> QED BY <2>1, <2>2, <2>3, <2>4, PageStep DEF Guest!OneMerge
<1>3. ASSUME NEW w \in Ways, Guest!finishSignIn(w) \/ Guest!Proceed(w) \/ Guest!Serve(w)
      PROVE  Guest!CartInv'
  BY <1>3, SignInStarts, MergeStarts, MergeAnswered, MergeFinds, MergeLooks, LineHandedOver,
     LineAdded, LineRemoved DEF Guest!Proceed, Guest!Serve
<1> QED BY <1>2, <1>3, MergeBreaks DEF Guest!Next

\* The inductive invariant: where the lines of each work are, and how far the
\* merge that may be under way has come with it.  (cart.service.ts:133-159.)
LEMMA CartInvariant == MCSpec => [](part = "signIn" => Guest!CartInv)
<1> DEFINE Inv == part = "signIn" => Guest!CartInv
<1>1. MCInit => Inv
  BY CartInit DEF MCInit
<1>2. Inv /\ [MCNext]_all => Inv'
  <2> SUFFICES ASSUME Inv, [MCNext]_all PROVE Inv'
    OBVIOUS
  <2>1. part' = part /\ (part = "signIn" => [Guest!Next]_signIn)
    <3>1. CASE UNCHANGED all
      BY <3>1 DEF all, signIn
    <3>2. CASE MCNext
      BY <3>2 DEF MCNext, RateStep, CatalogueStep, LinksStep, SignInStep, LimitStep,
        Rows!Tables
    <3> QED BY <3>1, <3>2
  <2> QED BY <2>1, CartStep
<1> HIDE DEF Inv
<1>3. MCSpec => []Inv
  BY <1>1, <1>2, PTL DEF MCSpec
<1> QED BY <1>3 DEF Inv

\* Whatever ways to sign in, lost answers, sales and crashes there are: no work
\* of either cart is lost, none is counted twice, and the guest's token is kept
\* for as long as a line is found by it.  (cart.service.ts:133-159.)
THEOREM CartAlwaysFollows == MCSpec => []CartFollows
<1>1. Guest!CartInv => Guest!CartFollows
  <2> SUFFICES ASSUME Guest!CartInv, ~overlapped PROVE Guest!CartFollows
    BY DEF Guest!CartFollows
  <2>1. /\ \A p \in Paintings : Guest!Placed(p) /\ (~broken => Guest!Counted(p))
        /\ ~token => Guest!GuestLines = {}
    BY CartUnfolds
  <2>2. ASSUME NEW p \in Paintings
        PROVE  /\ Guest!Had(p) => Guest!In("guest", p) \cup Guest!In("account", p) # {}
               /\ ~broken => \A l \in Guest!In("account", p) :
                    line[l].quantity <= first[<<"guest", p>>] + first[<<"account", p>>]
    <3>1. Guest!Had(p) => \E l : l \in Guest!In("guest", p) \cup Guest!In("account", p)
      <4>1. SUFFICES ASSUME Guest!Had(p)
                     PROVE  \E l : l \in Guest!In("guest", p) \cup Guest!In("account", p)
        OBVIOUS
      <4>2. /\ line[Guest!OfGuest(p)].in # "none" \/ line[Guest!OfAccount(p)].in # "none"
            /\ line[Guest!OfAccount(p)].in \in {"account", "none"}
        BY <2>1, <4>1 DEF Guest!Placed
      <4>3. line[Guest!OfGuest(p)].in \in {"guest", "account", "none"}
        BY CartUnfolds, LineNames DEF Guest!CartType, Guest!Carts
      <4> QED BY <4>2, <4>3, InCart
    <3>2. ~broken => \A l \in Guest!In("account", p) :
            line[l].quantity <= first[<<"guest", p>>] + first[<<"account", p>>]
      BY <2>1 DEF Guest!Counted, Guest!OfGuest, Guest!OfAccount
    <3> QED BY <3>1, <3>2
  <2> QED BY <2>1, <2>2 DEF Guest!CartFollows
<1> QED BY <1>1, CartInvariant, PTL DEF CartFollows

-----------------------------------------------------------------------------
(* Codes link once.  Most steps bring no news of a code k: nobody has it   *)
(* who did not have it before.                                             *)

\* What the step makes of one call, as far as the code k goes: it may have
\* read the code in the settings, or copied the one it has generated.
QuietCall(s, k) ==
    /\ Chat!Takes(s, k)' => Chat!Takes(s, k) /\ request'[s].user = request[s].user
    /\ Chat!Sends(s, k)' => Chat!Sends(s, k) /\ request'[s].chat = request[s].chat
    /\ Chat!Generates(s, k)' => Chat!Generates(s, k)
    /\ Chat!Writes(s, k)' =>
        \/ Chat!Writes(s, k) /\ (request[s].late => request'[s].late)
        \/ Chat!Generates(s, k)
        \/ Chat!InSettings(k)
    /\ Chat!Redeems(s, k)' => Chat!Redeems(s, k) \/ Chat!InSettings(k)
    /\ request'[s].code = k =>
        request[s].code = k /\ (Chat!Binds(s)' => Chat!Binds(s) \/ Chat!InSettings(k))
    /\ Chat!Sends(s, k) /\ request[s].at = "drop" =>
        \/ Chat!Sends(s, k)' /\ request'[s].at = "drop" /\ request'[s].chat = request[s].chat
        \/ pending'[request[s].chat] # k
        \/ k \in raced'

NoNews(k) ==
    /\ \A u \in Users : codeOf'[u] = k => codeOf[u] = k
    /\ \A c \in Chats : pending'[c] = k => pending[c] = k
    /\ Chat!InSettings(k)' =>
        \/ Chat!InSettings(k)
        \/ \E s \in Chat!Processes : /\ Chat!Writes(s, k) /\ request'[s].op = "none"
                                     /\ request[s].late => k \in raced'
    /\ Chat!IsBound(k)' => Chat!IsBound(k)
    /\ k \in raced => k \in raced'
    /\ \A s \in Chat!Processes : QuietCall(s, k)

LEMMA NoNewsOfSides ==
    ASSUME NEW k, NoNews(k), Chat!OneSide(k)
    PROVE  Chat!OneSide(k)'
<1>1. Chat!OfAccount(k)' => Chat!OfAccount(k)
  BY DEF NoNews, QuietCall, Chat!OfAccount, Chat!Processes
<1>2. Chat!OfChat(k)' => Chat!OfChat(k)
  BY DEF NoNews, QuietCall, Chat!OfChat, Chat!Processes
<1>3. Chat!OfArtist(k)' => Chat!OfArtist(k)
  BY DEF NoNews, QuietCall, Chat!OfArtist, Chat!Processes
<1> QED BY <1>1, <1>2, <1>3 DEF Chat!OneSide

LEMMA NoNewsOfFresh ==
    ASSUME NEW k, NoNews(k), Chat!Fresh(k)
    PROVE  Chat!Fresh(k)'
<1>1. Chat!OfAccount(k)' => Chat!OfAccount(k)
  BY DEF NoNews, QuietCall, Chat!OfAccount, Chat!Processes
<1>2. Chat!OfChat(k)' => Chat!OfChat(k)
  BY DEF NoNews, QuietCall, Chat!OfChat, Chat!Processes
<1>3. Chat!OfArtist(k)' => Chat!OfArtist(k)
  BY DEF NoNews, QuietCall, Chat!OfArtist, Chat!Processes
<1> QED BY <1>1, <1>2, <1>3 DEF Chat!Fresh, NoNews, QuietCall, Chat!Processes

LEMMA NoNewsOfOwners ==
    ASSUME NEW k, NoNews(k), Chat!OneOwner(k)
    PROVE  Chat!OneOwner(k)'
<1>1. ASSUME NEW r \in Chat!Processes, Chat!Generates(r, k)'
      PROVE  /\ ~Chat!InSettings(k)'
             /\ \A s \in Chat!Processes :
                  ~Chat!Redeems(s, k)' /\ (Chat!Generates(s, k)' \/ Chat!Writes(s, k)' => s = r)
  <2>1. Chat!Generates(r, k)
    BY <1>1 DEF NoNews, QuietCall
  <2>2. /\ ~Chat!InSettings(k)
        /\ \A s \in Chat!Processes :
             ~Chat!Redeems(s, k) /\ (Chat!Generates(s, k) \/ Chat!Writes(s, k) => s = r)
    BY <2>1 DEF Chat!OneOwner
  <2>3. ~Chat!InSettings(k)'
    BY <1>1, <2>2 DEF NoNews, Chat!Generates
  <2>4. ASSUME NEW s \in Chat!Processes
        PROVE  ~Chat!Redeems(s, k)' /\ (Chat!Generates(s, k)' \/ Chat!Writes(s, k)' => s = r)
    BY <2>2 DEF NoNews, QuietCall
  <2> QED BY <2>3, <2>4
<1>2. ASSUME NEW r \in Chat!Processes
      PROVE  /\ Chat!Takes(r, k)' => \A u \in Users : codeOf'[u] = k => u = request'[r].user
             /\ Chat!Sends(r, k)' => \A c \in Chats : pending'[c] = k => c = request'[r].chat
  <2>1. QuietCall(r, k)
    BY DEF NoNews
  <2> QED BY <2>1 DEF NoNews, QuietCall, Chat!OneOwner
<1>3. /\ \A u, v \in Users : codeOf'[u] = k /\ codeOf'[v] = k => u = v
      /\ \A c, d \in Chats : pending'[c] = k /\ pending'[d] = k => c = d
  BY DEF NoNews, Chat!OneOwner
<1>4. \A r \in Chat!Processes :
        /\ (Chat!Takes(r, k) => \A u \in Users : codeOf[u] = k => u = request[r].user)'
        /\ (Chat!Sends(r, k) => \A c \in Chats : pending[c] = k => c = request[r].chat)'
        /\ (Chat!Generates(r, k) =>
             /\ ~Chat!InSettings(k)
             /\ \A s \in Chat!Processes :
                  ~Chat!Redeems(s, k) /\ (Chat!Generates(s, k) \/ Chat!Writes(s, k) => s = r))'
  BY <1>1, <1>2 DEF Chat!Processes
<1> QED BY <1>3, <1>4 DEF Chat!OneOwner, Chat!Processes

LEMMA NoNewsOfHands ==
    ASSUME NEW k, NoNews(k), Chat!OneHand(k)
    PROVE  Chat!OneHand(k)'
BY DEF NoNews, QuietCall, Chat!OneHand, Chat!Processes

LEMMA NoNewsOfSpent ==
    ASSUME NEW k, NoNews(k), Chat!Spent(k)
    PROVE  Chat!Spent(k)'
BY DEF NoNews, QuietCall, Chat!Spent, Chat!Processes

LEMMA NoNewsIsSafe ==
    ASSUME NEW k, NoNews(k), Chat!Safe(k)
    PROVE  Chat!Safe(k)'
BY NoNewsOfSides, NoNewsOfOwners, NoNewsOfHands, NoNewsOfSpent DEF Chat!Safe

\* The invariant after a step, put together from what it says of each code.
LEMMA CodesAreSafe ==
    ASSUME Chat!CodesInv, Chat!LinksType', Chat!OneTimeCodes',
           \A r \in Chat!Processes : Chat!Shaped(r, request'[r]),
           issued' \in Nat, issued <= issued',
           \A k \in Chat!Codes : NoNews(k) \/ (k <= issued' /\ Chat!Safe(k)')
    PROVE  Chat!CodesInv'
<1>1. \A k \in Chat!Codes : k \in Nat
  BY DEF Chat!Codes
<1>2. issued \in Nat
  BY DEF Chat!CodesInv, Chat!LinksType
<1>3. ASSUME NEW k \in Chat!Codes PROVE (Chat!Safe(k) /\ (k > issued => Chat!Fresh(k)))'
  <2>1. CASE NoNews(k)
    BY <1>1, <1>2, <2>1, NoNewsIsSafe, NoNewsOfFresh DEF Chat!CodesInv
  <2>2. CASE k <= issued' /\ Chat!Safe(k)'
    BY <1>1, <2>2
  <2> QED BY <2>1, <2>2
<1>4. \A r \in Chat!Processes : Chat!Shaped(r, request[r])'
  BY DEF Chat!Shaped
<1> QED BY <1>3, <1>4 DEF Chat!CodesInv, Chat!Processes, Chat!Codes

LEMMA BlankCall ==
    /\ Chat!Default \in Chat!Row /\ Chat!Default.code = 0
    /\ Chat!Idle \in Chat!Call /\ \A r : Chat!Shaped(r, Chat!Idle)
    /\ Chat!Idle.op = "none" /\ Chat!Idle.at = "idle" /\ Chat!Idle.code = 0
    /\ Chat!Idle.set = Chat!Default /\ Chat!Idle.row = Chat!Default /\ Chat!Idle.late = FALSE
    /\ Chat!Idle.sends = {}
BY ServicesAssumption DEF Chat!LinksAssumption, Chat!Default, Chat!Row, Chat!Idle, Chat!Call,
   Chat!Shaped, Chat!Columns

LEMMA CodesAre == \A k : k \in Chat!Codes <=> k \in Nat /\ 1 <= k /\ k <= MaxCodes
BY ServicesAssumption DEF Chat!Codes, Chat!LinksAssumption

\* Nobody but the clock and the settings touches the others' calls.
LEMMA SameCallQuiet ==
    ASSUME NEW s, NEW k, request[s] \in Chat!Call,
           request'[s] = request[s] \/ request'[s] = [request[s] EXCEPT !.late = TRUE]
    PROVE  QuietCall(s, k)
<1>1. /\ request'[s].op = request[s].op /\ request'[s].at = request[s].at
      /\ request'[s].user = request[s].user /\ request'[s].chat = request[s].chat
      /\ request'[s].code = request[s].code /\ request'[s].row = request[s].row
      /\ request'[s].set = request[s].set /\ (request[s].late => request'[s].late)
  BY DEF Chat!Call
<1> QED BY <1>1 DEF QuietCall, Chat!Takes, Chat!Sends, Chat!Generates, Chat!Writes, Chat!Redeems,
        Chat!Binds

\* A call that has just begun and has no code, or is over.
LEMMA NewCallQuiet ==
    ASSUME NEW s, NEW k \in Chat!Codes, NEW q, request'[s] = q, q.code = 0,
           q.op \in {"none", "update", "faq", "reset", "read", "start"}, q.at # "save",
           Chat!Sends(s, k) /\ request[s].at = "drop" => pending'[request[s].chat] # k \/ k \in raced'
    PROVE  QuietCall(s, k)
BY CodesAre DEF QuietCall, Chat!Takes, Chat!Sends, Chat!Generates, Chat!Writes, Chat!Redeems, Chat!Binds

\* The settings have been read: a copy of them is changed, or the call is over.
LEMMA ReadShaped ==
    ASSUME NEW s \in Chat!Processes, request \in [Chat!Processes -> Chat!Call],
           Chat!Shaped(s, request[s]), request[s].at \in {"get", "insert", "overwrite"},
           NEW saved \in Chat!Row, request'[s] = Chat!WithRow(s, saved)[s], request'[s] # Chat!Idle
    PROVE  /\ request'[s].at = "save" /\ request'[s].late = request[s].late
           /\ \A field \in {"op", "user", "chat", "code", "set", "sends"} :
                request'[s][field] = request[s][field]
           /\ request'[s].row.code =
                IF "code" \in request[s].sends THEN request[s].set.code ELSE saved.code
           /\ request[s].op = "redeem" => request[s].code # 0 /\ saved.code = request[s].code
           /\ request'[s] \in Chat!Call /\ Chat!Shaped(s, request'[s])
<1> DEFINE q == request[s]
           edited == Chat!Edited(q, saved)
<1>1. /\ edited \in Chat!Row
      /\ edited.code = IF "code" \in q.sends THEN q.set.code ELSE saved.code
  BY DEF Chat!Edited, Chat!Row, Chat!Call, Chat!Columns, Chat!Default
<1>2. /\ q.op = "redeem" => q.code # 0 /\ saved.code = q.code
      /\ q.op # "read"
      /\ request'[s] = [q EXCEPT !.at = "save", !.row = edited]
  BY DEF Chat!WithRow
<1> HIDE DEF edited
<1>3. /\ request'[s].at = "save" /\ request'[s].row = edited /\ request'[s].op = q.op
      /\ request'[s].user = q.user /\ request'[s].chat = q.chat /\ request'[s].code = q.code
      /\ request'[s].set = q.set /\ request'[s].sends = q.sends /\ request'[s].late = q.late
      /\ request'[s] \in Chat!Call
  BY <1>1, <1>2 DEF Chat!Call
<1>4. Chat!Shaped(s, request'[s])
  BY <1>1, <1>2, <1>3 DEF Chat!Shaped
<1> QED BY <1>1, <1>2, <1>3, <1>4

LEMMA ReadQuiet ==
    ASSUME NEW s \in Chat!Processes, request \in [Chat!Processes -> Chat!Call],
           Chat!Shaped(s, request[s]), request[s].at \in {"get", "insert", "overwrite"},
           NEW saved \in Chat!Row, request'[s] = Chat!WithRow(s, saved)[s],
           NEW k \in Chat!Codes, saved.code = k => Chat!InSettings(k)
    PROVE  QuietCall(s, k)
<1>1. CASE request'[s] = Chat!Idle
  BY <1>1, BlankCall, NewCallQuiet DEF Chat!Sends
<1>2. CASE request'[s] # Chat!Idle
  <2>1. /\ request'[s].at = "save" /\ request'[s].op = request[s].op
        /\ request'[s].user = request[s].user /\ request'[s].chat = request[s].chat
        /\ request'[s].code = request[s].code /\ request'[s].set = request[s].set
        /\ request'[s].row.code =
                IF "code" \in request[s].sends THEN request[s].set.code ELSE saved.code
        /\ request[s].op = "redeem" => request[s].code # 0 /\ saved.code = request[s].code
    BY <1>2, ReadShaped
  <2>2. Chat!Writes(s, k)' => Chat!Generates(s, k) \/ Chat!InSettings(k)
    BY <2>1, CodesAre DEF Chat!Writes, Chat!Generates, Chat!Shaped
  <2>3. request'[s].code = k =>
          request[s].code = k /\ (Chat!Binds(s)' => Chat!Binds(s) \/ Chat!InSettings(k))
    BY <2>1 DEF Chat!Binds
  <2>4. Chat!Redeems(s, k)' => Chat!InSettings(k)
    BY <2>1 DEF Chat!Redeems
  <2> QED BY <2>1, <2>2, <2>3, <2>4 DEF QuietCall, Chat!Takes, Chat!Sends, Chat!Generates
<1> QED BY <1>1, <1>2

\* The others' calls are as they were, or have a copy that is an old one now.
Others(r) ==
    /\ request' \in [Chat!Processes -> Chat!Call]
    /\ \A s \in Chat!Processes : s # r =>
        request'[s] = request[s] \/ request'[s] = [request[s] EXCEPT !.late = TRUE]

LEMMA OneCall ==
    ASSUME Chat!LinksType, NEW r \in Chat!Processes, NEW q \in Chat!Call,
           request' = [request EXCEPT ![r] = q]
    PROVE  Others(r) /\ request'[r] = q
BY DEF Others, Chat!LinksType

LEMMA OthersQuiet ==
    ASSUME Chat!LinksType, NEW r, Others(r), NEW s \in Chat!Processes, s # r, NEW k
    PROVE  QuietCall(s, k)
BY SameCallQuiet DEF Others, Chat!LinksType

LEMMA OthersShaped ==
    ASSUME Chat!LinksType, NEW r, Others(r), NEW s \in Chat!Processes, s # r,
           Chat!Shaped(s, request[s])
    PROVE  Chat!Shaped(s, request'[s])
<1>1. request[s] \in Chat!Call
  BY DEF Chat!LinksType
<1>2. /\ request'[s].op = request[s].op /\ request'[s].at = request[s].at
      /\ request'[s].user = request[s].user /\ request'[s].chat = request[s].chat
      /\ request'[s].code = request[s].code /\ request'[s].row = request[s].row
      /\ request'[s].set = request[s].set /\ request'[s].sends = request[s].sends
  BY <1>1 DEF Others, Chat!Call
<1> QED BY <1>2 DEF Chat!Shaped

\* A step of one call that brings no news of any code.
LEMMA QuietLinks ==
    ASSUME Chat!CodesInv, NEW r \in Chat!Processes, Others(r), Chat!Shaped(r, request'[r]),
           codeOf' \in [Users -> 0 .. MaxCodes], \A u \in Users : codeOf'[u] \in {codeOf[u], 0},
           pending' \in [Chats -> 0 .. MaxCodes], \A c \in Chats : pending'[c] \in {pending[c], 0},
           UNCHANGED <<issued, live, bound>>, settings' \in {settings, Chat!Default},
           raced \subseteq raced', \A k \in Chat!Codes : QuietCall(r, k)
    PROVE  Chat!CodesInv'
<1>1. Chat!LinksType /\ \A s \in Chat!Processes : Chat!Shaped(s, request[s])
  BY DEF Chat!CodesInv
<1>2. Chat!LinksType'
  BY <1>1, BlankCall DEF Chat!LinksType, Others, Chat!Processes, Chat!Call, Chat!Row, Chat!Columns,
     Chat!Default, Chat!NoRow
<1>3. \A s \in Chat!Processes : Chat!Shaped(s, request'[s])
  BY <1>1, OthersShaped
<1>4. ASSUME NEW k \in Chat!Codes PROVE NoNews(k)
  <2>1. \A s \in Chat!Processes : QuietCall(s, k)
    BY <1>1, OthersQuiet
  <2>2. Chat!InSettings(k)' => Chat!InSettings(k)
    BY CodesAre, BlankCall DEF Chat!InSettings
  <2>3. Chat!IsBound(k)' => Chat!IsBound(k)
    BY DEF Chat!IsBound
  <2> QED BY <2>1, <2>2, <2>3, CodesAre DEF NoNews
<1>5. Chat!OneTimeCodes'
  BY DEF Chat!CodesInv, Chat!OneTimeCodes
<1>6. issued' \in Nat /\ issued <= issued'
  BY <1>1 DEF Chat!LinksType
<1> QED BY <1>2, <1>3, <1>4, <1>5, <1>6, CodesAreSafe

\* A call that asks for the settings.
LEMMA AskStep ==
    ASSUME Chat!CodesInv, NEW r \in Chat!Processes, NEW op, NEW sends, NEW set,
           Chat!AskSettings(r, op, sends, set),
           op \in {"update", "faq", "reset", "read"}, sends \in SUBSET Chat!Columns,
           set \in Chat!Row, set.code = 0,
           UNCHANGED <<codeOf, pending, live, issued, bound, raced>>
    PROVE  Chat!CodesInv'
<1>1. Chat!LinksType
  BY DEF Chat!CodesInv
<1>2. PICK q : q = [Chat!Idle EXCEPT !.op = op, !.at = "get", !.sends = sends, !.set = set]
  OBVIOUS
<1>3. /\ q \in Chat!Call /\ q.op = op /\ q.at = "get" /\ q.code = 0 /\ q.set = set
      /\ q.sends = sends
  BY <1>2, BlankCall DEF Chat!Call, Chat!Idle
<1>4. request' = [request EXCEPT ![r] = q] /\ UNCHANGED settings /\ request[r].at = "idle"
  BY <1>2 DEF Chat!AskSettings
<1>5. Others(r) /\ request'[r] = q
  BY <1>1, <1>3, <1>4, OneCall
<1>6. Chat!Shaped(r, q)
  BY <1>3 DEF Chat!Shaped
<1>7. \A k \in Chat!Codes : QuietCall(r, k)
  BY <1>3, <1>4, <1>5, NewCallQuiet
<1>8. /\ codeOf' \in [Users -> 0 .. MaxCodes] /\ \A u \in Users : codeOf'[u] \in {codeOf[u], 0}
      /\ pending' \in [Chats -> 0 .. MaxCodes] /\ \A c \in Chats : pending'[c] \in {pending[c], 0}
      /\ settings' \in {settings, Chat!Default} /\ raced \subseteq raced'
  BY <1>1, <1>4 DEF Chat!LinksType
<1> QED BY <1>5, <1>6, <1>7, <1>8, QuietLinks

\* The call goes on with the row, or creates it; what is read is in the settings.
LEMMA RowStep ==
    ASSUME Chat!CodesInv, NEW r \in Chat!Processes,
           Chat!findRow(r) \/ Chat!createDefaultRow(r) \/ Chat!insertRow(r) \/ Chat!overwriteRow(r)
    PROVE  Chat!CodesInv'
<1>1. Chat!LinksType /\ Chat!Shaped(r, request[r]) /\ request[r] \in Chat!Call
  BY DEF Chat!CodesInv, Chat!LinksType
<1>2. UNCHANGED <<codeOf, pending, live, issued, bound, raced>>
      /\ settings' \in {settings, Chat!Default}
  BY DEF Chat!findRow, Chat!createDefaultRow, Chat!insertRow, Chat!overwriteRow,
     Chat!accountsUnchanged, Chat!codesUnchanged, Chat!historyUnchanged
<1>3. SUFFICES Others(r) /\ Chat!Shaped(r, request'[r]) /\ \A k \in Chat!Codes : QuietCall(r, k)
  <2>1. /\ codeOf' \in [Users -> 0 .. MaxCodes] /\ \A u \in Users : codeOf'[u] \in {codeOf[u], 0}
        /\ pending' \in [Chats -> 0 .. MaxCodes] /\ \A c \in Chats : pending'[c] \in {pending[c], 0}
        /\ raced \subseteq raced'
    BY <1>1, <1>2 DEF Chat!LinksType
  <2> QED BY <1>2, <2>1, QuietLinks
<1>4. ASSUME NEW at \in {"create", "insert", "overwrite"}, Chat!Go(r, at),
             request[r].at \in {"get", "create"}
      PROVE  Others(r) /\ Chat!Shaped(r, request'[r]) /\ \A k \in Chat!Codes : QuietCall(r, k)
  <2>1. PICK q : q = [request[r] EXCEPT !.at = at]
    OBVIOUS
  <2>2. /\ q \in Chat!Call /\ q.at = at /\ q.op = request[r].op /\ q.user = request[r].user
        /\ q.chat = request[r].chat /\ q.code = request[r].code /\ q.set = request[r].set
        /\ q.sends = request[r].sends /\ q.row = request[r].row
    BY <1>1, <2>1 DEF Chat!Call
  <2>3. request' = [request EXCEPT ![r] = q]
    BY <1>1, <1>4, <2>1 DEF Chat!Go, Chat!LinksType
  <2>4. Others(r) /\ request'[r] = q
    BY <1>1, <2>2, <2>3, OneCall
  <2>5. Chat!Shaped(r, q)
    BY <1>1, <1>4, <2>2 DEF Chat!Shaped
  <2>6. \A k \in Chat!Codes : QuietCall(r, k)
    BY <1>4, <2>2, <2>4 DEF QuietCall, Chat!Takes, Chat!Sends, Chat!Generates, Chat!Writes,
       Chat!Redeems, Chat!Binds
  <2> QED BY <2>4, <2>5, <2>6
<1>5. ASSUME NEW saved \in Chat!Row, \A k \in Chat!Codes : saved.code = k => Chat!InSettings(k),
             request[r].at \in {"get", "insert", "overwrite"},
             request'[r] = Chat!WithRow(r, saved)[r]
      PROVE  Chat!Shaped(r, request'[r]) /\ request'[r] \in Chat!Call
             /\ \A k \in Chat!Codes : QuietCall(r, k)
  <2>1. request'[r] \in Chat!Call /\ Chat!Shaped(r, request'[r])
    <3>1. CASE request'[r] = Chat!Idle
      BY <3>1, BlankCall
    <3>2. CASE request'[r] # Chat!Idle
      BY <1>1, <1>5, <3>2, ReadShaped DEF Chat!LinksType
    <3> QED BY <3>1, <3>2
  <2>2. ASSUME NEW k \in Chat!Codes PROVE QuietCall(r, k)
    BY <1>1, <1>5, ReadQuiet DEF Chat!LinksType
  <2> QED BY <2>1, <2>2
<1>6. \A saved : Chat!WithRow(r, saved) = [request EXCEPT ![r] = Chat!WithRow(r, saved)[r]]
  BY <1>1 DEF Chat!WithRow, Chat!LinksType
<1>7. ASSUME NEW saved \in Chat!Row, \A k \in Chat!Codes : saved.code = k => Chat!InSettings(k),
             request[r].at \in {"get", "insert"}, request' = Chat!WithRow(r, saved)
      PROVE  Others(r) /\ Chat!Shaped(r, request'[r]) /\ \A k \in Chat!Codes : QuietCall(r, k)
  <2>1. /\ Chat!Shaped(r, request'[r]) /\ request'[r] \in Chat!Call
        /\ \A k \in Chat!Codes : QuietCall(r, k)
    BY <1>5, <1>7
  <2>2. request' = [request EXCEPT ![r] = request'[r]]
    BY <1>6, <1>7
  <2> QED BY <1>1, <2>1, <2>2, OneCall
<1>8. CASE Chat!findRow(r)
  <2>1. CASE settings = Chat!NoRow
    BY <1>4, <1>8, <2>1 DEF Chat!findRow
  <2>2. CASE settings # Chat!NoRow
    <3>1. settings \in Chat!Row /\ request[r].at = "get" /\ request' = Chat!WithRow(r, settings)
      BY <1>1, <1>8, <2>2 DEF Chat!findRow, Chat!LinksType
    <3>2. \A k \in Chat!Codes : settings.code = k => Chat!InSettings(k)
      BY <2>2 DEF Chat!InSettings
    <3> QED BY <1>7, <3>1, <3>2
  <2> QED BY <2>1, <2>2
<1>9. CASE Chat!createDefaultRow(r)
  BY <1>4, <1>9 DEF Chat!createDefaultRow
<1>10. CASE Chat!insertRow(r)
  <2>1. PICK saved : saved = settings' 
    OBVIOUS
  <2>2. saved \in Chat!Row /\ \A k \in Chat!Codes : saved.code = k => Chat!InSettings(k)
    BY <1>1, <1>10, <2>1, BlankCall, CodesAre DEF Chat!insertRow, Chat!InSettings, Chat!LinksType
  <2> QED BY <1>7, <1>10, <2>1, <2>2 DEF Chat!insertRow
<1>11. CASE Chat!overwriteRow(r)
  <2>1. \A k \in Chat!Codes : Chat!Default.code = k => Chat!InSettings(k)
    BY BlankCall, CodesAre
  <2>2. PICK calls : calls = Chat!WithRow(r, Chat!Default)
    OBVIOUS
  <2>3. \A s \in Chat!Processes : s # r => calls[s] = request[s]
    BY <1>1, <1>6, <2>2 DEF Chat!LinksType
  <2>4. request' = [s \in Chat!Processes |->
          IF s # r /\ calls[s].at \in {"save", "overwrite"}
          THEN [calls[s] EXCEPT !.late = TRUE] ELSE calls[s]]
    BY <1>11, <2>2 DEF Chat!overwriteRow, Chat!Outdated
  <2>5. request'[r] = calls[r]
    BY <2>4
  <2>6. /\ Chat!Shaped(r, request'[r]) /\ request'[r] \in Chat!Call
        /\ \A k \in Chat!Codes : QuietCall(r, k)
    BY <1>5, <1>11, <2>1, <2>2, <2>5, BlankCall DEF Chat!overwriteRow
  <2>7. \A s \in Chat!Processes : s # r =>
          request'[s] = request[s] \/ request'[s] = [request[s] EXCEPT !.late = TRUE]
    BY <2>3, <2>4
  <2>8. ASSUME NEW s \in Chat!Processes, s # r PROVE request'[s] \in Chat!Call
    <3>1. request[s] \in Chat!Call
      BY <1>1 DEF Chat!LinksType
    <3>2. [request[s] EXCEPT !.late = TRUE] \in Chat!Call
      BY <3>1 DEF Chat!Call
    <3> QED BY <2>7, <2>8, <3>1, <3>2
  <2>9. request' \in [Chat!Processes -> Chat!Call]
    BY <2>4, <2>6, <2>8
  <2> QED BY <2>6, <2>7, <2>9 DEF Others
<1> QED BY <1>8, <1>9, <1>10, <1>11

\* Somebody else's call is what it was, to every code.
LEMMA OthersSame ==
    ASSUME Chat!LinksType, NEW r, Others(r), NEW s \in Chat!Processes, s # r
    PROVE  /\ \A k : /\ Chat!Takes(s, k)' <=> Chat!Takes(s, k)
                     /\ Chat!Sends(s, k)' <=> Chat!Sends(s, k)
                     /\ Chat!Generates(s, k)' <=> Chat!Generates(s, k)
                     /\ Chat!Writes(s, k)' <=> Chat!Writes(s, k)
                     /\ Chat!Redeems(s, k)' <=> Chat!Redeems(s, k)
           /\ Chat!Binds(s)' <=> Chat!Binds(s)
           /\ request'[s].user = request[s].user /\ request'[s].chat = request[s].chat
           /\ request'[s].code = request[s].code /\ request'[s].at = request[s].at
           /\ request[s].late => request'[s].late
<1>1. request[s] \in Chat!Call
  BY DEF Chat!LinksType
<1>2. /\ request'[s].op = request[s].op /\ request'[s].at = request[s].at
      /\ request'[s].user = request[s].user /\ request'[s].chat = request[s].chat
      /\ request'[s].code = request[s].code /\ request'[s].row = request[s].row
      /\ request'[s].set = request[s].set /\ (request[s].late => request'[s].late)
  BY <1>1 DEF Others, Chat!Call
<1> QED BY <1>2 DEF Chat!Takes, Chat!Sends, Chat!Generates, Chat!Writes, Chat!Redeems, Chat!Binds

\* A step with news of one code x.
LEMMA NewsOfOne ==
    ASSUME Chat!CodesInv, NEW r \in Chat!Processes, Others(r), Chat!Shaped(r, request'[r]),
           Chat!LinksType', issued <= issued', Chat!OneTimeCodes',
           NEW x, x \in Chat!Codes => x <= issued' /\ Chat!Safe(x)',
           \A k \in Chat!Codes : k # x => NoNews(k)
    PROVE  Chat!CodesInv'
<1>1. Chat!LinksType /\ \A s \in Chat!Processes : Chat!Shaped(s, request[s])
  BY DEF Chat!CodesInv
<1>2. \A s \in Chat!Processes : Chat!Shaped(s, request'[s])
  BY <1>1, OthersShaped
<1>3. issued' \in Nat
  BY DEF Chat!LinksType
<1> QED BY <1>2, <1>3, CodesAreSafe

LEMMA BoundWith ==
    ASSUME NEW x, NEW y, NEW z, bound' = bound \cup {<<x, y, z>>}
    PROVE  \A k : Chat!IsBound(k)' <=> Chat!IsBound(k) \/ k = x
<1> DEFINE new == <<x, y, z>>
<1>1. new[1] = x /\ new \in bound'
  OBVIOUS
<1>2. \A b : b \in bound' <=> b \in bound \/ b = new
  OBVIOUS
<1> HIDE DEF new
<1> QED BY <1>1, <1>2 DEF Chat!IsBound

LEMMA OnceMore ==
    ASSUME Chat!CodesInv, NEW x, NEW y, NEW z, bound' = bound \cup {<<x, y, z>>},
           Chat!IsBound(x) => x \in raced, raced \subseteq raced'
    PROVE  Chat!OneTimeCodes'
<1> DEFINE new == <<x, y, z>>
<1>1. new[1] = x /\ \A b : b \in bound' <=> b \in bound \/ b = new
  OBVIOUS
<1> HIDE DEF new
<1>2. ASSUME NEW a \in bound', NEW b \in bound', a[1] = b[1]
      PROVE  a = b \/ a[1] \in raced'
  BY <1>1, <1>2 DEF Chat!CodesInv, Chat!OneTimeCodes, Chat!IsBound
<1> QED BY <1>2 DEF Chat!OneTimeCodes

\* A copy of the settings is saved: with a code only if it had read or
\* generated it, and what was redeemed is gone from it.
LEMMA SaveStep ==
    ASSUME Chat!CodesInv, NEW r \in Chat!Processes, Chat!save(r)
    PROVE  Chat!CodesInv'
<1> DEFINE q == request[r]
<1>0. PICK x : x = IF q.op = "redeem" THEN q.code ELSE 0
  OBVIOUS
<1>1. /\ Chat!LinksType /\ Chat!Shaped(r, q) /\ q \in Chat!Call /\ q.at = "save"
      /\ \A k \in Chat!Codes : Chat!Safe(k) /\ (k > issued => Chat!Fresh(k))
  BY DEF Chat!CodesInv, Chat!LinksType, Chat!save
<1>2. /\ settings' = q.row /\ UNCHANGED <<codeOf, pending, live, issued>>
      /\ bound' = IF q.op = "redeem" THEN bound \cup {<<q.code, Chat!Admin, q.chat>>} ELSE bound
      /\ raced' = IF q.late THEN raced \cup ({q.row.code} \ {0}) ELSE raced
  BY DEF Chat!save, Chat!accountsUnchanged, Chat!codesUnchanged
<1>3. Others(r) /\ request'[r] = Chat!Idle
        /\ \A s \in Chat!Processes : s # r /\ request[s].at = "save" => request'[s].late
  <2>1. PICK calls : calls = [request EXCEPT ![r] = Chat!Idle]
    OBVIOUS
  <2>2. \A s \in Chat!Processes : calls[s] = IF s = r THEN Chat!Idle ELSE request[s]
    BY <1>1, <2>1 DEF Chat!LinksType
  <2>3. request' = [s \in Chat!Processes |->
          IF s # r /\ calls[s].at \in {"save", "overwrite"}
          THEN [calls[s] EXCEPT !.late = TRUE] ELSE calls[s]]
    BY <2>1 DEF Chat!save, Chat!Outdated
  <2>4. request'[r] = Chat!Idle
    BY <2>2, <2>3
  <2>5. ASSUME NEW s \in Chat!Processes, s # r
        PROVE  /\ request'[s] = request[s] \/ request'[s] = [request[s] EXCEPT !.late = TRUE]
               /\ request'[s] \in Chat!Call /\ (request[s].at = "save" => request'[s].late)
    <3>1. request[s] \in Chat!Call
      BY <1>1 DEF Chat!LinksType
    <3>2. [request[s] EXCEPT !.late = TRUE] \in Chat!Call /\ [request[s] EXCEPT !.late = TRUE].late
      BY <3>1 DEF Chat!Call
    <3>3. request'[s] = IF request[s].at \in {"save", "overwrite"}
                        THEN [request[s] EXCEPT !.late = TRUE] ELSE request[s]
      BY <2>2, <2>3, <2>5
    <3> QED BY <3>1, <3>2, <3>3
  <2>6. request' \in [Chat!Processes -> Chat!Call]
    BY <2>3, <2>4, <2>5, BlankCall
  <2> QED BY <2>4, <2>5, <2>6 DEF Others
<1>4. \A k \in Chat!Codes : k \in raced => k \in raced'
  BY <1>2, CodesAre
<1>5. Chat!LinksType'
  BY <1>1, <1>2, <1>3 DEF Chat!LinksType, Others, Chat!Call, Chat!Row, Chat!Processes, Chat!Columns,
     Chat!Default, Chat!NoRow
<1>6. ASSUME NEW k \in Chat!Codes, k # x PROVE NoNews(k)
  <2>1. QuietCall(r, k)
    BY <1>1, <1>3, BlankCall, NewCallQuiet DEF Chat!Sends, Chat!Shaped
  <2>2. \A s \in Chat!Processes : QuietCall(s, k)
    BY <1>1, <1>3, <2>1, OthersQuiet
  <2>3. Chat!InSettings(k)' => Chat!Writes(r, k) /\ (q.late => k \in raced')
    BY <1>1, <1>2, CodesAre DEF Chat!InSettings, Chat!Writes
  <2>4. Chat!IsBound(k)' => Chat!IsBound(k)
    <3>1. CASE q.op = "redeem"
      BY <1>0, <1>2, <1>6, <3>1, BoundWith
    <3>2. CASE q.op # "redeem"
      BY <1>2, <3>2 DEF Chat!IsBound
    <3> QED BY <3>1, <3>2
  <2> QED BY <1>2, <1>3, <1>4, <2>2, <2>3, <2>4, BlankCall DEF NoNews
<1>7. Chat!OneTimeCodes' /\ (x \in Chat!Codes => x <= issued' /\ Chat!Safe(x)')
  <2>1. CASE q.op # "redeem"
    BY <1>0, <1>2, <2>1, CodesAre DEF Chat!CodesInv, Chat!OneTimeCodes
  <2>2. CASE q.op = "redeem"
    <3>1. x = q.code /\ x \in Chat!Codes /\ q.row.code = 0 /\ Chat!Redeems(r, x) /\ Chat!Binds(r)
      BY <1>0, <1>1, <2>2, ServicesAssumption DEF Chat!Shaped, Chat!Call, Chat!Redeems, Chat!Binds, Chat!Codes,
         Chat!LinksAssumption
    <3>2. Chat!Safe(x) /\ x <= issued /\ x # 0
      BY <1>1, <3>1, CodesAre DEF Chat!Fresh, Chat!LinksType
    <3>3. ~Chat!OfAccount(x) /\ ~Chat!OfChat(x)
      BY <3>1, <3>2 DEF Chat!Safe, Chat!OneSide, Chat!OfArtist
    <3>a. ASSUME NEW s \in Chat!Processes
          PROVE  /\ Chat!Takes(s, x)' => Chat!Takes(s, x)
                 /\ Chat!Sends(s, x)' => Chat!Sends(s, x)
                 /\ Chat!Generates(s, x)' => Chat!Generates(s, x)
                 /\ Chat!Writes(s, x)' => request'[s].late
                 /\ request'[s].code = x => s # r /\ request[s].code = x
      <4>1. CASE s = r
        BY <1>3, <3>2, <4>1, BlankCall DEF Chat!Takes, Chat!Sends, Chat!Generates, Chat!Writes
      <4>2. CASE s # r
        <5>1. Chat!Writes(s, x) => request'[s].late
          BY <1>3, <4>2 DEF Chat!Writes
        <5> QED BY <1>1, <1>3, <4>2, <5>1, OthersSame
      <4> QED BY <4>1, <4>2
    <3>4. /\ \A s \in Chat!Processes : ~Chat!Takes(s, x)' /\ ~Chat!Sends(s, x)'
          /\ \A u \in Users : codeOf'[u] # x
          /\ \A c \in Chats : pending'[c] # x
      BY <1>2, <3>3, <3>a DEF Chat!OfAccount, Chat!OfChat
    <3>5. \A s \in Chat!Processes : ~Chat!Generates(s, x)'
      BY <3>1, <3>2, <3>a DEF Chat!Safe, Chat!OneOwner
    <3>6. x \notin raced' => \A s \in Chat!Processes : request'[s].code # x
      BY <1>4, <3>1, <3>2, <3>a DEF Chat!Safe, Chat!OneHand
    <3>7. ~Chat!InSettings(x)'
      BY <1>2, <3>1, <3>2 DEF Chat!InSettings
    <3>8. \A s \in Chat!Processes : Chat!Writes(s, x)' => request'[s].late
      BY <3>a
    <3>9. Chat!OneSide(x)'
      <4>1. ~Chat!OfAccount(x)'
        BY <3>4 DEF Chat!OfAccount, Chat!Processes
      <4>2. ~Chat!OfChat(x)'
        BY <3>4 DEF Chat!OfChat, Chat!Processes
      <4> QED BY <4>1, <4>2 DEF Chat!OneSide
    <3>10. Chat!OneOwner(x)'
      BY <3>4, <3>5 DEF Chat!OneOwner, Chat!Processes
    <3>11. Chat!OneHand(x)'
      BY <3>6 DEF Chat!OneHand, Chat!Processes
    <3>12. Chat!Spent(x)'
      BY <3>4, <3>5, <3>6, <3>7, <3>8 DEF Chat!Spent, Chat!Processes
    <3>13. Chat!IsBound(x) => x \in raced
      BY <3>1, <3>2 DEF Chat!Safe, Chat!Spent
    <3>14. bound' = bound \cup {<<x, Chat!Admin, q.chat>>}
      BY <1>2, <2>2, <3>1
    <3>15. Chat!OneTimeCodes'
      BY <1>2, <3>13, <3>14, OnceMore
    <3> QED BY <1>2, <3>2, <3>9, <3>10, <3>11, <3>12, <3>15 DEF Chat!Safe
  <2> QED BY <2>1, <2>2
<1> QED BY <1>1, <1>2, <1>3, <1>5, <1>6, <1>7, BlankCall, NewsOfOne DEF Chat!LinksType

\* What an issue leaves in the state before it: the new code is nobody's.
LEMMA NewCode ==
    ASSUME Chat!CodesInv, Chat!Issue
    PROVE  /\ issued + 1 \in Chat!Codes /\ Chat!Fresh(issued + 1) /\ Chat!Safe(issued + 1)
           /\ issued' \in 0 .. MaxCodes /\ issued <= issued' /\ issued + 1 <= issued'
           /\ live' \subseteq 1 .. issued'
<1>1. Chat!LinksType
  BY DEF Chat!CodesInv
<1>2. issued + 1 \in Chat!Codes /\ issued' = issued + 1 /\ issued \in 0 .. MaxCodes
      /\ live' = live \cup {issued + 1} /\ live \subseteq 1 .. issued
  BY <1>1, CodesAre, ServicesAssumption DEF Chat!Issue, Chat!LinksType, Chat!LinksAssumption
<1>3. MaxCodes \in Nat
  BY ServicesAssumption DEF Chat!LinksAssumption
<1>4. /\ issued' \in 0 .. MaxCodes /\ issued <= issued' /\ issued + 1 <= issued'
      /\ live' \subseteq 1 .. issued' /\ issued + 1 > issued
  BY <1>2, <1>3, CodesAre
<1>5. Chat!Fresh(issued + 1) /\ Chat!Safe(issued + 1)
  BY <1>2, <1>4 DEF Chat!CodesInv
<1> QED BY <1>2, <1>4, <1>5

\* What is new and has one holder is safe.
LEMMA NewIsSafe ==
    ASSUME NEW x, Chat!Fresh(x), ~Chat!IsBound(x)',
           \A s \in Chat!Processes : /\ ~Chat!Takes(s, x)' /\ ~Chat!Sends(s, x)'
                                     /\ ~Chat!Writes(s, x)' /\ ~Chat!Redeems(s, x)'
                                     /\ request'[s].code # x,
           ~Chat!InSettings(x)',
           NEW here, NEW at,
           \A u \in Users : codeOf'[u] = x => here = "account" /\ u = at,
           \A c \in Chats : pending'[c] = x => here = "chat" /\ c = at,
           \A s \in Chat!Processes : Chat!Generates(s, x)' => here = "artist" /\ s = at
    PROVE  Chat!Safe(x)'
<1>1. Chat!OneSide(x)'
  <2>1. Chat!OfAccount(x)' => here = "account"
    BY DEF Chat!OfAccount, Chat!Processes
  <2>2. Chat!OfChat(x)' => here = "chat"
    BY DEF Chat!OfChat, Chat!Processes
  <2>3. Chat!OfArtist(x)' => here = "artist"
    BY DEF Chat!OfArtist, Chat!Processes
  <2> QED BY <2>1, <2>2, <2>3 DEF Chat!OneSide
<1>2. Chat!OneOwner(x)'
  BY DEF Chat!OneOwner, Chat!Processes
<1>3. Chat!OneHand(x)'
  BY DEF Chat!OneHand, Chat!Processes
<1>4. Chat!Spent(x)'
  BY DEF Chat!Spent
<1> QED BY <1>1, <1>2, <1>3, <1>4 DEF Chat!Safe

LEMMA AccountCodeStep ==
    ASSUME Chat!CodesInv, NEW u \in Users, Chat!generateTelegramLinkCode(u)
    PROVE  Chat!CodesInv'
<1>1. PICK x : x = issued + 1
  OBVIOUS
<1>2. Chat!LinksType /\ Chat!CodesInv /\ Chat!Issue /\ Bot \in Chat!Processes
      /\ Chat!Shaped(Bot, request[Bot])
  BY DEF Chat!CodesInv, Chat!generateTelegramLinkCode, Chat!Processes
<1>3. /\ x \in Chat!Codes /\ Chat!Fresh(x) /\ issued' \in 0 .. MaxCodes /\ issued <= issued'
      /\ x <= issued' /\ live' \subseteq 1 .. issued' /\ x \in 0 .. MaxCodes
  BY <1>1, <1>2, NewCode, CodesAre, ServicesAssumption DEF Chat!LinksAssumption
<1>4. /\ codeOf' = [codeOf EXCEPT ![u] = x]
      /\ UNCHANGED <<pending, settings, request, bound, raced>>
  BY <1>1 DEF Chat!generateTelegramLinkCode, Chat!historyUnchanged
<1>5. /\ codeOf' \in [Users -> 0 .. MaxCodes] /\ \A v \in Users : codeOf'[v] = IF v = u THEN x ELSE codeOf[v]
  BY <1>2, <1>3, <1>4 DEF Chat!LinksType
<1>6. Chat!LinksType'
  BY <1>2, <1>3, <1>4, <1>5 DEF Chat!LinksType, Chat!Processes, Chat!Call, Chat!Row, Chat!Columns,
     Chat!Default, Chat!NoRow
<1>7. Others(Bot) /\ Chat!Shaped(Bot, request'[Bot])
  BY <1>2, <1>4 DEF Others, Chat!LinksType
<1>8. ASSUME NEW k \in Chat!Codes, k # x PROVE NoNews(k)
  <2>1. \A s \in Chat!Processes : QuietCall(s, k)
    BY <1>2, <1>4, SameCallQuiet DEF Chat!LinksType
  <2>2. /\ Chat!InSettings(k)' => Chat!InSettings(k)
        /\ Chat!IsBound(k)' => Chat!IsBound(k)
    BY <1>4 DEF Chat!InSettings, Chat!IsBound
  <2> QED BY <1>4, <1>5, <1>8, <2>1, <2>2 DEF NoNews
<1>9. Chat!Safe(x)'
  <2>1. /\ ~Chat!IsBound(x)' /\ ~Chat!InSettings(x)'
        /\ \A c \in Chats : pending'[c] # x
        /\ \A s \in Chat!Processes :
             /\ ~Chat!Takes(s, x)' /\ ~Chat!Sends(s, x)' /\ ~Chat!Generates(s, x)'
             /\ ~Chat!Writes(s, x)' /\ ~Chat!Redeems(s, x)' /\ request'[s].code # x
    BY <1>3, <1>4 DEF Chat!Fresh, Chat!OfAccount, Chat!OfChat, Chat!OfArtist, Chat!IsBound,
       Chat!InSettings, Chat!Takes, Chat!Sends, Chat!Generates, Chat!Writes, Chat!Redeems
  <2>2. \A v \in Users : codeOf'[v] = x => v = u
    BY <1>3, <1>5 DEF Chat!Fresh, Chat!OfAccount
  <2> QED BY <1>3, <2>1, <2>2, NewIsSafe
<1>10. Chat!OneTimeCodes'
  BY <1>4 DEF Chat!CodesInv, Chat!OneTimeCodes
<1> QED BY <1>2, <1>3, <1>6, <1>7, <1>8, <1>9, <1>10, NewsOfOne

LEMMA ChatCodeStep ==
    ASSUME Chat!CodesInv, Chat!savePendingLink
    PROVE  Chat!CodesInv'
<1> DEFINE c == request[Bot].chat
<1>1. PICK x : x = issued + 1
  OBVIOUS
<1>2. Chat!LinksType /\ Chat!CodesInv /\ Chat!Issue /\ Bot \in Chat!Processes
      /\ Chat!Shaped(Bot, request[Bot]) /\ request[Bot].at = "issue"
  BY DEF Chat!CodesInv, Chat!savePendingLink, Chat!Processes
<1>3. /\ x \in Chat!Codes /\ Chat!Fresh(x) /\ issued' \in 0 .. MaxCodes /\ issued <= issued'
      /\ x <= issued' /\ live' \subseteq 1 .. issued' /\ x \in 0 .. MaxCodes
  BY <1>1, <1>2, NewCode, CodesAre, ServicesAssumption DEF Chat!LinksAssumption
<1>4. /\ pending' = [pending EXCEPT ![c] = x] /\ c \in Chats
      /\ UNCHANGED <<codeOf, settings, bound, raced>>
      /\ request' = [request EXCEPT ![Bot] = Chat!Idle]
  BY <1>1, <1>2 DEF Chat!savePendingLink, Chat!historyUnchanged, Chat!Done, Chat!Shaped
<1>5. /\ pending' \in [Chats -> 0 .. MaxCodes]
      /\ \A d \in Chats : pending'[d] = IF d = c THEN x ELSE pending[d]
  BY <1>2, <1>3, <1>4 DEF Chat!LinksType
<1>6. Others(Bot) /\ request'[Bot] = Chat!Idle
  BY <1>2, <1>4, BlankCall, OneCall
<1>7. Chat!LinksType'
  BY <1>2, <1>3, <1>4, <1>5, <1>6 DEF Others, Chat!LinksType, Chat!Processes, Chat!Call, Chat!Row,
     Chat!Columns, Chat!Default, Chat!NoRow
<1>8. ASSUME NEW k \in Chat!Codes, k # x PROVE NoNews(k)
  <2>1. QuietCall(Bot, k)
    BY <1>2, <1>6, BlankCall, NewCallQuiet
  <2>2. \A s \in Chat!Processes : QuietCall(s, k)
    BY <1>2, <1>6, <2>1, OthersQuiet
  <2>3. /\ Chat!InSettings(k)' => Chat!InSettings(k)
        /\ Chat!IsBound(k)' => Chat!IsBound(k)
    BY <1>4 DEF Chat!InSettings, Chat!IsBound
  <2> QED BY <1>4, <1>5, <1>8, <2>2, <2>3 DEF NoNews
<1>9. Chat!Safe(x)'
  <2>1. /\ ~Chat!IsBound(x)' /\ ~Chat!InSettings(x)' /\ \A u \in Users : codeOf'[u] # x
        /\ \A s \in Chat!Processes :
             /\ ~Chat!Takes(s, x) /\ ~Chat!Sends(s, x) /\ ~Chat!Generates(s, x)
             /\ ~Chat!Writes(s, x) /\ ~Chat!Redeems(s, x) /\ request[s].code # x
    BY <1>3, <1>4 DEF Chat!Fresh, Chat!OfAccount, Chat!OfChat, Chat!OfArtist, Chat!IsBound,
       Chat!InSettings
  <2>2. ASSUME NEW s \in Chat!Processes
        PROVE  /\ ~Chat!Takes(s, x)' /\ ~Chat!Sends(s, x)' /\ ~Chat!Generates(s, x)'
               /\ ~Chat!Writes(s, x)' /\ ~Chat!Redeems(s, x)' /\ request'[s].code # x
    <3>1. CASE s = Bot
      BY <1>3, <1>6, <3>1, BlankCall, CodesAre DEF Chat!Takes, Chat!Sends, Chat!Generates, Chat!Writes,
         Chat!Redeems
    <3>2. CASE s # Bot
      BY <1>2, <1>6, <2>1, <3>2, OthersSame
    <3> QED BY <3>1, <3>2
  <2>3. \A d \in Chats : pending'[d] = x => d = c
    BY <1>3, <1>5 DEF Chat!Fresh, Chat!OfChat
  <2> QED BY <1>3, <2>1, <2>2, <2>3, NewIsSafe
<1>10. Chat!OneTimeCodes'
  BY <1>4 DEF Chat!CodesInv, Chat!OneTimeCodes
<1> QED BY <1>2, <1>3, <1>6, <1>7, <1>8, <1>9, <1>10, BlankCall, NewsOfOne

LEMMA ArtistCodeStep ==
    ASSUME Chat!CodesInv, NEW r \in Requests, Chat!generateAdminTelegramLinkCode(r),
           UNCHANGED <<codeOf, pending, bound, raced>>
    PROVE  Chat!CodesInv'
<1>1. PICK x : x = issued + 1
  OBVIOUS
<1>2. Chat!LinksType /\ Chat!CodesInv /\ Chat!Issue /\ r \in Chat!Processes
      /\ request[r].at = "idle"
  BY DEF Chat!CodesInv, Chat!generateAdminTelegramLinkCode, Chat!AskSettings, Chat!Processes
<1>3. /\ x \in Chat!Codes /\ Chat!Fresh(x) /\ issued' \in 0 .. MaxCodes /\ issued <= issued'
      /\ x <= issued' /\ live' \subseteq 1 .. issued' /\ x \in 0 .. MaxCodes
  BY <1>1, <1>2, NewCode, CodesAre, ServicesAssumption DEF Chat!LinksAssumption
<1>4. PICK set : set = [Chat!Default EXCEPT !.code = x]
  OBVIOUS
<1>5. set \in Chat!Row /\ set.code = x
  BY <1>3, <1>4, BlankCall DEF Chat!Row, Chat!Default
<1>6. PICK q : q = [Chat!Idle EXCEPT !.op = "generate", !.at = "get", !.sends = {"code"}, !.set = set]
  OBVIOUS
<1>7. /\ q \in Chat!Call /\ q.op = "generate" /\ q.at = "get" /\ q.code = 0 /\ q.set = set
      /\ q.sends = {"code"}
  BY <1>5, <1>6, BlankCall DEF Chat!Call, Chat!Idle, Chat!Columns, Chat!Default
<1>8. request' = [request EXCEPT ![r] = q] /\ UNCHANGED settings
  BY <1>1, <1>4, <1>6 DEF Chat!generateAdminTelegramLinkCode, Chat!AskSettings
<1>9. Others(r) /\ request'[r] = q /\ Chat!Shaped(r, q)
  BY <1>2, <1>7, <1>8, OneCall DEF Chat!Shaped
<1>10. Chat!LinksType'
  BY <1>2, <1>3, <1>8, <1>9 DEF Others, Chat!LinksType, Chat!Processes, Chat!Call, Chat!Row,
     Chat!Columns, Chat!Default, Chat!NoRow
<1>11. ASSUME NEW k \in Chat!Codes, k # x PROVE NoNews(k)
  <2>1. QuietCall(r, k)
    BY <1>2, <1>5, <1>7, <1>9, <1>11, CodesAre DEF QuietCall, Chat!Takes, Chat!Sends, Chat!Generates,
       Chat!Writes, Chat!Redeems, Chat!Binds
  <2>2. \A s \in Chat!Processes : QuietCall(s, k)
    BY <1>2, <1>9, <2>1, OthersQuiet
  <2>3. /\ Chat!InSettings(k)' => Chat!InSettings(k)
        /\ Chat!IsBound(k)' => Chat!IsBound(k)
    BY <1>8 DEF Chat!InSettings, Chat!IsBound
  <2> QED BY <2>2, <2>3 DEF NoNews
<1>12. Chat!Safe(x)'
  <2>1. /\ ~Chat!IsBound(x)' /\ ~Chat!InSettings(x)' /\ \A u \in Users : codeOf'[u] # x
        /\ \A c \in Chats : pending'[c] # x
        /\ \A s \in Chat!Processes :
             /\ ~Chat!Takes(s, x) /\ ~Chat!Sends(s, x) /\ ~Chat!Generates(s, x)
             /\ ~Chat!Writes(s, x) /\ ~Chat!Redeems(s, x) /\ request[s].code # x
    BY <1>3, <1>8 DEF Chat!Fresh, Chat!OfAccount, Chat!OfChat, Chat!OfArtist, Chat!IsBound,
       Chat!InSettings
  <2>2. ASSUME NEW s \in Chat!Processes
        PROVE  /\ ~Chat!Takes(s, x)' /\ ~Chat!Sends(s, x)' /\ ~Chat!Writes(s, x)'
               /\ ~Chat!Redeems(s, x)' /\ request'[s].code # x
               /\ Chat!Generates(s, x)' => s = r
    <3>1. CASE s = r
      BY <1>3, <1>7, <1>9, <3>1, CodesAre DEF Chat!Takes, Chat!Sends, Chat!Writes, Chat!Redeems
    <3>2. CASE s # r
      BY <1>2, <1>9, <2>1, <3>2, OthersSame
    <3> QED BY <3>1, <3>2
  <2> QED BY <1>3, <2>1, <2>2, NewIsSafe
<1>13. Chat!OneTimeCodes'
  BY DEF Chat!CodesInv, Chat!OneTimeCodes
<1> QED BY <1>2, <1>3, <1>9, <1>10, <1>11, <1>12, <1>13, NewsOfOne

\* The statements of a redemption that change no code's place.
LEMMA CheckStep ==
    ASSUME Chat!CodesInv, NEW r \in Chat!Processes, Chat!findByTelegramChatId(r) \/ Chat!drop(r)
    PROVE  Chat!CodesInv'
<1>1. Chat!LinksType /\ Chat!Shaped(r, request[r]) /\ request[r] \in Chat!Call
  BY DEF Chat!CodesInv, Chat!LinksType
<1>2. UNCHANGED <<codeOf, settings, live, issued, bound, raced>>
  BY DEF Chat!findByTelegramChatId, Chat!drop, Chat!accountsUnchanged, Chat!codesUnchanged,
     Chat!historyUnchanged
<1>3. codeOf' \in [Users -> 0 .. MaxCodes] /\ \A u \in Users : codeOf'[u] \in {codeOf[u], 0}
  BY <1>1, <1>2 DEF Chat!LinksType
<1>4. CASE Chat!findByTelegramChatId(r)
  <2>1. PICK at \in {"link", "drop"} : Chat!Go(r, at)
    BY <1>4 DEF Chat!findByTelegramChatId
  <2>2. PICK q : q = [request[r] EXCEPT !.at = at]
    OBVIOUS
  <2>3. /\ q \in Chat!Call /\ q.at = at /\ q.op = request[r].op /\ q.user = request[r].user
        /\ q.chat = request[r].chat /\ q.code = request[r].code /\ q.set = request[r].set
        /\ q.sends = request[r].sends /\ q.row = request[r].row
    BY <1>1, <2>2 DEF Chat!Call
  <2>4. request[r].at = "check" /\ request[r].op = "link" /\ UNCHANGED pending
    BY <1>1, <1>4 DEF Chat!findByTelegramChatId, Chat!Shaped, Chat!accountsUnchanged
  <2>5. request' = [request EXCEPT ![r] = q]
    BY <1>1, <2>1, <2>2 DEF Chat!Go, Chat!LinksType
  <2>6. Others(r) /\ request'[r] = q
    BY <1>1, <2>3, <2>5, OneCall
  <2>7. Chat!Shaped(r, q)
    BY <1>1, <2>3, <2>4 DEF Chat!Shaped
  <2>8. \A k \in Chat!Codes : QuietCall(r, k)
    BY <2>3, <2>4, <2>6 DEF QuietCall, Chat!Takes, Chat!Sends, Chat!Generates, Chat!Writes,
       Chat!Redeems, Chat!Binds
  <2>9. pending' \in [Chats -> 0 .. MaxCodes] /\ \A c \in Chats : pending'[c] \in {pending[c], 0}
    BY <1>1, <2>4 DEF Chat!LinksType
  <2> QED BY <1>2, <1>3, <2>6, <2>7, <2>8, <2>9, QuietLinks
<1>5. CASE Chat!drop(r)
  <2> DEFINE q == request[r]
  <2>1. /\ request' = [request EXCEPT ![r] = Chat!Idle] /\ q.op = "link" /\ q.chat \in Chats
        /\ pending' = [pending EXCEPT ![q.chat] = IF @ = q.code THEN 0 ELSE @]
    BY <1>1, <1>5 DEF Chat!drop, Chat!Done, Chat!Shaped
  <2>2. Others(r) /\ request'[r] = Chat!Idle
    BY <1>1, <2>1, BlankCall, OneCall
  <2>3. /\ pending' \in [Chats -> 0 .. MaxCodes] /\ \A c \in Chats : pending'[c] \in {pending[c], 0}
        /\ pending[q.chat] = q.code => pending'[q.chat] = 0
        /\ pending[q.chat] # q.code => pending'[q.chat] = pending[q.chat]
    BY <1>1, <2>1, ServicesAssumption DEF Chat!LinksType, Chat!LinksAssumption
  <2>4. ASSUME NEW k \in Chat!Codes PROVE QuietCall(r, k)
    <3>1. Chat!Sends(r, k) => pending'[q.chat] # k
      BY <2>3, CodesAre DEF Chat!Sends
    <3> QED BY <2>2, <3>1, BlankCall, NewCallQuiet
  <2> QED BY <1>2, <1>3, <2>2, <2>3, <2>4, BlankCall, QuietLinks
<1> QED BY <1>4, <1>5

\* What a code's hands are after a step of r's: the others' are as before.
LEMMA OthersHands ==
    ASSUME Chat!LinksType, NEW r \in Chat!Processes, Others(r), NEW x,
           Chat!Safe(x), UNCHANGED settings,
           Chat!Takes(r, x)' => Chat!OfAccount(x), Chat!Sends(r, x)' => Chat!OfChat(x),
           ~Chat!Generates(r, x)', ~Chat!Writes(r, x)', ~Chat!Redeems(r, x)',
           \A u \in Users : codeOf'[u] = x => codeOf[u] = x,
           \A c \in Chats : pending'[c] = x => pending[c] = x
    PROVE  /\ Chat!OneSide(x)'
           /\ Chat!OfAccount(x)' => Chat!OfAccount(x)
           /\ Chat!OfChat(x)' => Chat!OfChat(x)
           /\ Chat!OfArtist(x)' => Chat!OfArtist(x)
<1>1. \A s \in Chat!Processes :
        /\ Chat!Takes(s, x)' => Chat!Takes(s, x) \/ Chat!OfAccount(x)
        /\ Chat!Sends(s, x)' => Chat!Sends(s, x) \/ Chat!OfChat(x)
        /\ Chat!Generates(s, x)' => Chat!Generates(s, x)
        /\ Chat!Writes(s, x)' => Chat!Writes(s, x)
        /\ Chat!Redeems(s, x)' => Chat!Redeems(s, x)
  BY OthersSame
<1>2. Chat!OfAccount(x)' => Chat!OfAccount(x)
  BY <1>1 DEF Chat!OfAccount, Chat!Processes
<1>3. Chat!OfChat(x)' => Chat!OfChat(x)
  BY <1>1 DEF Chat!OfChat, Chat!Processes
<1>4. Chat!OfArtist(x)' => Chat!OfArtist(x)
  BY <1>1 DEF Chat!OfArtist, Chat!Processes, Chat!InSettings
<1> QED BY <1>2, <1>3, <1>4 DEF Chat!Safe, Chat!OneSide

\* A user types a chat's code in: the code is in hand from now on.
LEMMA PendingCodeStep ==
    ASSUME Chat!CodesInv, NEW r \in Requests, NEW u \in Users, NEW x \in Chat!Codes,
           Chat!redeemTelegramPendingCode(r, u, x)
    PROVE  Chat!CodesInv'
<1>1. /\ Chat!LinksType /\ r \in Chat!Processes /\ request[r].at = "idle"
      /\ Chat!Safe(x) /\ x \in 0 .. MaxCodes /\ x # 0
      /\ UNCHANGED <<codeOf, pending, settings, live, issued, bound>>
  BY CodesAre, ServicesAssumption DEF Chat!CodesInv, Chat!redeemTelegramPendingCode, Chat!Processes,
     Chat!accountsUnchanged, Chat!codesUnchanged, Chat!LinksAssumption
<1>2. PICK c \in Chats :
        /\ pending[c] = x
        /\ request' = [request EXCEPT ![r] =
             [Chat!Idle EXCEPT !.op = "link", !.at = "check", !.user = u, !.chat = c, !.code = x]]
  BY DEF Chat!redeemTelegramPendingCode
<1>3. PICK q : q = [Chat!Idle EXCEPT !.op = "link", !.at = "check", !.user = u, !.chat = c, !.code = x]
  OBVIOUS
<1>4. /\ q \in Chat!Call /\ q.op = "link" /\ q.at = "check" /\ q.user = u /\ q.chat = c
      /\ q.code = x /\ q.set.code = 0
  BY <1>1, <1>3, BlankCall DEF Chat!Call, Chat!Idle
<1>5. Others(r) /\ request'[r] = q /\ Chat!Shaped(r, q)
  BY <1>1, <1>2, <1>3, <1>4, OneCall DEF Chat!Shaped
<1>6. raced' = IF \E s \in Chat!Processes : s # r /\ request[s].code = x
              THEN raced \cup {x} ELSE raced
  BY <1>1 DEF Chat!redeemTelegramPendingCode, Chat!Shares
<1>7. x <= issued
  BY <1>1, <1>2, CodesAre DEF Chat!CodesInv, Chat!Fresh, Chat!OfChat, Chat!LinksType
<1>8. Chat!LinksType'
  BY <1>1, <1>5 DEF Others, Chat!LinksType, Chat!Processes, Chat!Call, Chat!Row, Chat!Columns,
     Chat!Default, Chat!NoRow
<1>9. ASSUME NEW k \in Chat!Codes, k # x PROVE NoNews(k)
  <2>1. QuietCall(r, k)
    BY <1>1, <1>4, <1>5, <1>9 DEF QuietCall, Chat!Takes, Chat!Sends, Chat!Generates, Chat!Writes,
       Chat!Redeems, Chat!Binds
  <2>2. \A s \in Chat!Processes : QuietCall(s, k)
    BY <1>1, <1>5, <2>1, OthersQuiet
  <2>3. /\ Chat!InSettings(k)' => Chat!InSettings(k)
        /\ Chat!IsBound(k)' => Chat!IsBound(k)
    BY <1>1 DEF Chat!InSettings, Chat!IsBound
  <2> QED BY <1>1, <1>6, <2>2, <2>3 DEF NoNews
<1>10. /\ Chat!OfChat(x) /\ ~Chat!OfAccount(x) /\ ~Chat!OfArtist(x)
  BY <1>1, <1>2 DEF Chat!OfChat, Chat!Safe, Chat!OneSide
<1>11. /\ ~Chat!Takes(r, x)' /\ Chat!Sends(r, x)' /\ ~Chat!Generates(r, x)' /\ ~Chat!Writes(r, x)'
       /\ ~Chat!Redeems(r, x)'
  BY <1>4, <1>5 DEF Chat!Takes, Chat!Sends, Chat!Generates, Chat!Writes, Chat!Redeems
<1>12. Chat!OneSide(x)' /\ ~Chat!OfAccount(x)' /\ ~Chat!OfArtist(x)'
  BY <1>1, <1>5, <1>10, <1>11, OthersHands
<1>13. /\ \A s \in Chat!Processes : ~Chat!Takes(s, x)' /\ ~Chat!Generates(s, x)' /\ ~Chat!Writes(s, x)'
       /\ \A v \in Users : codeOf'[v] # x
       /\ ~Chat!InSettings(x)'
  BY <1>12 DEF Chat!OfAccount, Chat!OfArtist, Chat!Processes
<1>14. \A d \in Chats : pending[d] = x => d = c
  BY <1>1, <1>2 DEF Chat!Safe, Chat!OneOwner
<1>15. Chat!OneOwner(x)'
  <2>1. ASSUME NEW s \in Chat!Processes, Chat!Sends(s, x)', NEW d \in Chats, pending'[d] = x
        PROVE  d = request'[s].chat
    <3>1. CASE s = r
      BY <1>1, <1>4, <1>5, <1>14, <2>1, <3>1
    <3>2. CASE s # r
      BY <1>1, <1>5, <2>1, <3>2, OthersSame DEF Chat!Safe, Chat!OneOwner
    <3> QED BY <3>1, <3>2
  <2> QED BY <1>1, <1>13, <1>14, <2>1 DEF Chat!OneOwner, Chat!Processes
<1>16. ASSUME x \notin raced' PROVE \A s \in Chat!Processes : request'[s].code = x => s = r
  BY <1>1, <1>5, <1>6, <1>16, OthersSame
<1>17. Chat!OneHand(x)'
  BY <1>16 DEF Chat!OneHand, Chat!Processes
<1>18. Chat!IsBound(x) => x \in raced'
  <2>1. ASSUME Chat!IsBound(x), x \notin raced' PROVE FALSE
    <3>1. PICK s \in Chat!Processes : Chat!Sends(s, x) /\ request[s].at = "drop"
      BY <1>1, <1>2, <1>6, <2>1 DEF Chat!Safe, Chat!Spent
    <3> QED BY <1>1, <1>6, <2>1, <3>1 DEF Chat!Sends
  <2> QED BY <2>1
<1>19. Chat!Spent(x)'
  BY <1>1, <1>18 DEF Chat!Spent, Chat!IsBound
<1>20. Chat!OneTimeCodes'
  BY <1>1, <1>6 DEF Chat!CodesInv, Chat!OneTimeCodes
<1>21. issued' \in Nat /\ issued <= issued' /\ x <= issued'
  BY <1>1, <1>7 DEF Chat!LinksType
<1> QED BY <1>1, <1>5, <1>8, <1>9, <1>12, <1>15, <1>17, <1>19, <1>20, <1>21, NewsOfOne DEF Chat!Safe

\* The account is linked: the code that did it is spent, its row still there.
LEMMA LinkStep ==
    ASSUME Chat!CodesInv, NEW r \in Chat!Processes, Chat!link(r)
    PROVE  Chat!CodesInv'
<1> DEFINE q == request[r]
<1>1. /\ Chat!LinksType /\ Chat!Shaped(r, q) /\ q \in Chat!Call /\ q.op = "link" /\ q.at = "link"
      /\ UNCHANGED <<codeOf, pending, settings, live, issued, raced>>
  BY DEF Chat!CodesInv, Chat!LinksType, Chat!link, Chat!codesUnchanged
<1>2. PICK x : x = q.code
  OBVIOUS
<1>3. /\ x \in Chat!Codes /\ Chat!Safe(x) /\ Chat!Sends(r, x) /\ Chat!Binds(r)
      /\ bound' = bound \cup {<<x, q.user, q.chat>>}
  <2>1. x \in Chat!Codes
    BY <1>1, <1>2, CodesAre, ServicesAssumption DEF Chat!Shaped, Chat!Call, Chat!LinksAssumption
  <2> QED BY <1>1, <1>2, <2>1 DEF Chat!CodesInv, Chat!Sends, Chat!Binds, Chat!link
<1>4. x <= issued
  BY <1>1, <1>2, <1>3, CodesAre DEF Chat!CodesInv, Chat!Fresh, Chat!LinksType
<1>5. PICK n : n = [request[r] EXCEPT !.at = "drop"]
  OBVIOUS
<1>6. /\ n \in Chat!Call /\ n.at = "drop" /\ n.op = "link" /\ n.user = q.user
      /\ n.chat = q.chat /\ n.code = x /\ n.set = q.set
      /\ n.sends = q.sends /\ n.row = q.row
  BY <1>1, <1>2, <1>5 DEF Chat!Call
<1>7. request' = [request EXCEPT ![r] = n]
  BY <1>1, <1>5 DEF Chat!link, Chat!Go, Chat!LinksType
<1>8. Others(r) /\ request'[r] = n /\ Chat!Shaped(r, n)
  BY <1>1, <1>2, <1>6, <1>7, OneCall DEF Chat!Shaped
<1>9. Chat!LinksType'
  BY <1>1, <1>8 DEF Others, Chat!LinksType, Chat!Processes, Chat!Call, Chat!Row, Chat!Columns,
     Chat!Default, Chat!NoRow
<1>10. ASSUME NEW k \in Chat!Codes, k # x PROVE NoNews(k)
  <2>1. QuietCall(r, k)
    BY <1>1, <1>2, <1>6, <1>8, <1>10 DEF QuietCall, Chat!Takes, Chat!Sends, Chat!Generates,
       Chat!Writes, Chat!Redeems, Chat!Binds
  <2>2. \A s \in Chat!Processes : QuietCall(s, k)
    BY <1>1, <1>8, <2>1, OthersQuiet
  <2>3. /\ Chat!InSettings(k)' => Chat!InSettings(k)
        /\ Chat!IsBound(k)' => Chat!IsBound(k)
    BY <1>1, <1>3, <1>10, BoundWith DEF Chat!InSettings
  <2> QED BY <1>1, <2>2, <2>3 DEF NoNews
<1>11. /\ Chat!OfChat(x) /\ ~Chat!OfAccount(x) /\ ~Chat!OfArtist(x)
  BY <1>3 DEF Chat!OfChat, Chat!Safe, Chat!OneSide
<1>12. /\ ~Chat!Takes(r, x)' /\ Chat!Sends(r, x)' /\ ~Chat!Generates(r, x)' /\ ~Chat!Writes(r, x)'
       /\ ~Chat!Redeems(r, x)'
  BY <1>6, <1>8 DEF Chat!Takes, Chat!Sends, Chat!Generates, Chat!Writes, Chat!Redeems
<1>13. Chat!OneSide(x)' /\ ~Chat!OfAccount(x)' /\ ~Chat!OfArtist(x)'
  BY <1>1, <1>3, <1>8, <1>11, <1>12, OthersHands
<1>14. /\ \A s \in Chat!Processes : ~Chat!Takes(s, x)' /\ ~Chat!Generates(s, x)' /\ ~Chat!Writes(s, x)'
       /\ \A v \in Users : codeOf'[v] # x
       /\ ~Chat!InSettings(x)'
  BY <1>13 DEF Chat!OfAccount, Chat!OfArtist, Chat!Processes
<1>15. \A c \in Chats : pending[c] = x => c = q.chat
  BY <1>3 DEF Chat!Safe, Chat!OneOwner
<1>16. \A c, d \in Chats : pending'[c] = x /\ pending'[d] = x => c = d
  BY <1>1, <1>15
<1>17. Chat!OneOwner(x)'
  <2>1. ASSUME NEW s \in Chat!Processes, Chat!Sends(s, x)', NEW d \in Chats, pending'[d] = x
        PROVE  d = request'[s].chat
    <3>1. CASE s = r
      BY <1>1, <1>6, <1>8, <1>15, <2>1, <3>1
    <3>2. CASE s # r
      BY <1>1, <1>3, <1>8, <2>1, <3>2, OthersSame DEF Chat!Safe, Chat!OneOwner
    <3> QED BY <3>1, <3>2
  <2> QED BY <1>14, <1>16, <2>1 DEF Chat!OneOwner, Chat!Processes
<1>18. ASSUME x \notin raced PROVE \A s \in Chat!Processes : request'[s].code = x => s = r
  BY <1>1, <1>2, <1>3, <1>8, <1>18, OthersSame DEF Chat!Safe, Chat!OneHand
<1>19. Chat!OneHand(x)'
  BY <1>1, <1>18 DEF Chat!OneHand, Chat!Processes
<1>20. Chat!IsBound(x) => x \in raced
  BY <1>2, <1>3 DEF Chat!Safe, Chat!Spent
<1>21. ~Chat!Binds(r)'
  BY <1>6, <1>8 DEF Chat!Binds
<1>22. \A c \in Chats : pending'[c] = x => Chat!Sends(r, x)' /\ request'[r].at = "drop" /\ request'[r].chat = c
  BY <1>1, <1>6, <1>8, <1>12, <1>15
<1>23. Chat!Spent(x)'
  BY <1>1, <1>14, <1>18, <1>21, <1>22 DEF Chat!Spent, Chat!Processes
<1>24. Chat!OneTimeCodes'
  BY <1>1, <1>3, <1>20, OnceMore
<1>25. issued <= issued' /\ x <= issued'
  BY <1>1, <1>4 DEF Chat!LinksType
<1> QED BY <1>8, <1>9, <1>10, <1>13, <1>17, <1>19, <1>23, <1>24, <1>25, NewsOfOne DEF Chat!Safe

\* A code comes with /start: it is in the bot's hands from now on.
LEMMA StartWithStep ==
    ASSUME Chat!CodesInv, NEW c \in Chats, NEW x \in Chat!Codes, Chat!startWith(c, x)
    PROVE  Chat!CodesInv'
<1>1. /\ Chat!LinksType /\ Bot \in Chat!Processes /\ request[Bot].at = "idle"
      /\ Chat!Safe(x) /\ x \in 0 .. MaxCodes /\ x # 0 /\ x \in 1 .. issued
      /\ UNCHANGED <<codeOf, pending, settings, live, issued, bound>>
  BY CodesAre, ServicesAssumption DEF Chat!CodesInv, Chat!startWith, Chat!Processes,
     Chat!accountsUnchanged, Chat!codesUnchanged, Chat!LinksAssumption
<1>2. PICK n :
        /\ n \in Chat!Call /\ n.chat = c /\ n.code = x /\ n.set.code = 0
        /\ request' = [request EXCEPT ![Bot] = n]
        /\ \/ n.op = "bind" /\ n.at = "bind" /\ n.user \in Users /\ codeOf[n.user] = x
           \/ n.op = "redeem" /\ n.at = "get" /\ "code" \in n.sends
  <2> DEFINE q == [Chat!Idle EXCEPT !.chat = c, !.code = x]
             owners == {u \in Users : codeOf[u] = x /\ x \in live}
             owner == CHOOSE u \in owners : TRUE
             binding == [q EXCEPT !.op = "bind", !.at = "bind", !.user = owner]
             set == [Chat!Default EXCEPT !.chat = c]
             redeeming == [q EXCEPT !.op = "redeem", !.at = "get", !.sends = {"chat", "code"}, !.set = set]
  <2>1. request' = [request EXCEPT ![Bot] = IF owners # {} THEN binding ELSE redeeming]
    BY DEF Chat!startWith
  <2>2. q \in Chat!Call /\ q.chat = c /\ q.code = x /\ q.set = Chat!Default /\ q.sends = {}
    BY <1>1, BlankCall DEF Chat!Call, Chat!Idle
  <2>3. set \in Chat!Row /\ set.code = 0
    BY BlankCall DEF Chat!Row, Chat!Default
  <2>4. CASE owners # {}
    <3>1. owner \in Users /\ codeOf[owner] = x
      BY <2>4
    <3> HIDE DEF owner, q
    <3>2. /\ binding \in Chat!Call /\ binding.chat = c /\ binding.code = x
          /\ binding.set = Chat!Default /\ binding.op = "bind" /\ binding.at = "bind"
          /\ binding.user = owner
      BY <2>2, <3>1 DEF Chat!Call
    <3> HIDE DEF binding
    <3>3. request' = [request EXCEPT ![Bot] = binding]
      BY <2>1, <2>4
    <3> QED BY <3>1, <3>2, <3>3, BlankCall
  <2>5. CASE owners = {}
    <3> HIDE DEF set, q
    <3>2. /\ redeeming \in Chat!Call /\ redeeming.chat = c /\ redeeming.code = x
          /\ redeeming.set = set /\ redeeming.op = "redeem" /\ redeeming.at = "get"
          /\ redeeming.sends = {"chat", "code"}
      BY <2>2, <2>3 DEF Chat!Call, Chat!Columns, Chat!Default
    <3> HIDE DEF redeeming
    <3>3. request' = [request EXCEPT ![Bot] = redeeming]
      BY <2>1, <2>5
    <3> QED BY <2>3, <3>2, <3>3
  <2> QED BY <2>4, <2>5
<1>3. Others(Bot) /\ request'[Bot] = n /\ Chat!Shaped(Bot, n)
  BY <1>1, <1>2, OneCall DEF Chat!Shaped
<1>4. raced' = IF \E s \in Chat!Processes : s # Bot /\ request[s].code = x
              THEN raced \cup {x} ELSE raced
  BY <1>1 DEF Chat!startWith, Chat!Shares
<1>5. Chat!LinksType'
  BY <1>1, <1>3 DEF Others, Chat!LinksType, Chat!Processes, Chat!Call, Chat!Row, Chat!Columns,
     Chat!Default, Chat!NoRow
<1>6. ASSUME NEW k \in Chat!Codes, k # x PROVE NoNews(k)
  <2>1. QuietCall(Bot, k)
    BY <1>1, <1>2, <1>3, <1>6 DEF QuietCall, Chat!Takes, Chat!Sends, Chat!Generates, Chat!Writes,
       Chat!Redeems, Chat!Binds, Chat!Shaped
  <2>2. \A s \in Chat!Processes : QuietCall(s, k)
    BY <1>1, <1>3, <2>1, OthersQuiet
  <2>3. /\ Chat!InSettings(k)' => Chat!InSettings(k)
        /\ Chat!IsBound(k)' => Chat!IsBound(k)
    BY <1>1 DEF Chat!InSettings, Chat!IsBound
  <2> QED BY <1>1, <1>4, <2>2, <2>3 DEF NoNews
<1>7. /\ ~Chat!Sends(Bot, x)' /\ ~Chat!Generates(Bot, x)' /\ ~Chat!Writes(Bot, x)'
      /\ ~Chat!Redeems(Bot, x)'
  BY <1>2, <1>3 DEF Chat!Sends, Chat!Generates, Chat!Writes, Chat!Redeems
<1>8. Chat!Takes(Bot, x)' => codeOf[request'[Bot].user] = x /\ request'[Bot].user \in Users
  BY <1>2, <1>3 DEF Chat!Takes
<1>9. Chat!OneSide(x)'
  <2>1. Chat!Takes(Bot, x)' => Chat!OfAccount(x)
    BY <1>8 DEF Chat!OfAccount
  <2> QED BY <1>1, <1>3, <1>7, <2>1, OthersHands
<1>10. ASSUME NEW s \in Chat!Processes
      PROVE  /\ Chat!Takes(s, x)' => \A u \in Users : codeOf'[u] = x => u = request'[s].user
             /\ Chat!Sends(s, x)' => \A d \in Chats : pending'[d] = x => d = request'[s].chat
             /\ Chat!Generates(s, x)' => Chat!Generates(s, x)
             /\ Chat!Redeems(s, x)' => Chat!Redeems(s, x)
             /\ Chat!Writes(s, x)' => Chat!Writes(s, x) /\ (request[s].late => request'[s].late)
             /\ Chat!Sends(s, x) => /\ s # Bot /\ Chat!Sends(s, x)'
                                    /\ request'[s].chat = request[s].chat
                                    /\ request'[s].at = request[s].at
  <2>1. CASE s = Bot
    <3>1. ~Chat!Sends(Bot, x)
      BY <1>1 DEF Chat!Sends, Chat!CodesInv, Chat!Shaped
    <3>2. Chat!Takes(Bot, x)' => \A u \in Users : codeOf'[u] = x => u = request'[Bot].user
      BY <1>1, <1>8 DEF Chat!Safe, Chat!OneOwner
    <3> QED BY <1>7, <2>1, <3>1, <3>2
  <2>2. CASE s # Bot
    <3>1. /\ Chat!Takes(s, x) => \A u \in Users : codeOf[u] = x => u = request[s].user
          /\ Chat!Sends(s, x) => \A d \in Chats : pending[d] = x => d = request[s].chat
      BY <1>1 DEF Chat!Safe, Chat!OneOwner
    <3> QED BY <1>1, <1>3, <2>2, <3>1, OthersSame
  <2> QED BY <2>1, <2>2
<1>11. Chat!OneOwner(x)'
  <2>1. /\ \A u, v \in Users : codeOf'[u] = x /\ codeOf'[v] = x => u = v
        /\ \A d, e \in Chats : pending'[d] = x /\ pending'[e] = x => d = e
    BY <1>1 DEF Chat!Safe, Chat!OneOwner
  <2>2. ASSUME NEW r \in Chat!Processes, Chat!Generates(r, x)'
        PROVE  /\ ~Chat!InSettings(x)'
               /\ \A s \in Chat!Processes :
                    ~Chat!Redeems(s, x)' /\ (Chat!Generates(s, x)' \/ Chat!Writes(s, x)' => s = r)
    <3>1. /\ ~Chat!InSettings(x)
          /\ \A s \in Chat!Processes :
               ~Chat!Redeems(s, x) /\ (Chat!Generates(s, x) \/ Chat!Writes(s, x) => s = r)
      BY <1>1, <1>10, <2>2 DEF Chat!Safe, Chat!OneOwner
    <3>2. ~Chat!InSettings(x)'
      BY <1>1, <3>1 DEF Chat!InSettings
    <3> QED BY <1>10, <3>1, <3>2
  <2>3. \A r \in Chat!Processes :
          /\ Chat!Takes(r, x)' => \A u \in Users : codeOf'[u] = x => u = request'[r].user
          /\ Chat!Sends(r, x)' => \A d \in Chats : pending'[d] = x => d = request'[r].chat
          /\ Chat!Generates(r, x)' =>
               /\ ~Chat!InSettings(x)'
               /\ \A s \in Chat!Processes :
                    ~Chat!Redeems(s, x)' /\ (Chat!Generates(s, x)' \/ Chat!Writes(s, x)' => s = r)
    BY <1>10, <2>2
  <2> QED BY <2>1, <2>3 DEF Chat!OneOwner, Chat!Processes
<1>12. ASSUME x \notin raced' PROVE \A s \in Chat!Processes : request'[s].code = x => s = Bot
  BY <1>1, <1>3, <1>4, <1>12, OthersSame
<1>13. Chat!OneHand(x)'
  BY <1>12 DEF Chat!OneHand, Chat!Processes
<1>14. Chat!Spent(x)'
  <2>1. SUFFICES ASSUME Chat!IsBound(x)', x \notin raced' PROVE
          /\ \A u \in Users : codeOf'[u] # x
          /\ ~Chat!InSettings(x)'
          /\ \A d \in Chats : pending'[d] # x
          /\ \A r \in Chat!Processes :
              /\ ~Chat!Generates(r, x)'
              /\ Chat!Writes(r, x)' => request'[r].late
              /\ request'[r].code = x => ~Chat!Binds(r)'
    BY DEF Chat!Spent, Chat!Processes
  <2>2. Chat!IsBound(x) /\ x \notin raced
    BY <1>1, <1>4, <2>1 DEF Chat!IsBound
  <2>3. /\ \A u \in Users : codeOf[u] # x
        /\ ~Chat!InSettings(x)
        /\ \A d \in Chats : pending[d] = x => \E s \in Chat!Processes : Chat!Sends(s, x)
        /\ \A r \in Chat!Processes :
              /\ ~Chat!Generates(r, x)
              /\ Chat!Writes(r, x) => request[r].late
    BY <1>1, <2>2 DEF Chat!Safe, Chat!Spent
  <2>4. ~Chat!InSettings(x)'
    BY <1>1, <2>3 DEF Chat!InSettings
  <2>5. \A s \in Chat!Processes : ~Chat!Sends(s, x)
    BY <1>10, <2>1, <1>4 DEF Chat!Sends
  <2>6. ~Chat!Binds(Bot)'
    BY <1>2, <1>3, <2>3 DEF Chat!Binds
  <2>7. \A r \in Chat!Processes : /\ ~Chat!Generates(r, x)'
                                  /\ Chat!Writes(r, x)' => request'[r].late
    BY <1>10, <2>3
  <2>8. \A r \in Chat!Processes : request'[r].code = x => ~Chat!Binds(r)'
    BY <1>12, <2>1, <2>6
  <2> QED BY <1>1, <2>3, <2>4, <2>5, <2>7, <2>8
<1>15. Chat!OneTimeCodes'
  BY <1>1, <1>4 DEF Chat!CodesInv, Chat!OneTimeCodes
<1>16. issued <= issued' /\ x <= issued'
  BY <1>1 DEF Chat!LinksType
<1> QED BY <1>1, <1>3, <1>5, <1>6, <1>9, <1>11, <1>13, <1>14, <1>15, <1>16, NewsOfOne DEF Chat!Safe

\* The account's code has come: it is spent and gone from its column.
LEMMA BindStep ==
    ASSUME Chat!CodesInv, Chat!bind
    PROVE  Chat!CodesInv'
<1> DEFINE q == request[Bot]
<1>1. /\ Chat!LinksType /\ Bot \in Chat!Processes /\ Chat!Shaped(Bot, q) /\ q \in Chat!Call
      /\ q.op = "bind" /\ q.at = "bind" /\ q.user \in Users
      /\ UNCHANGED <<pending, settings, live, issued, raced>>
  BY DEF Chat!CodesInv, Chat!LinksType, Chat!bind, Chat!codesUnchanged, Chat!Processes, Chat!Shaped
<1>2. PICK x : x = q.code
  OBVIOUS
<1>3. /\ x \in Chat!Codes /\ Chat!Safe(x) /\ Chat!Takes(Bot, x) /\ Chat!Binds(Bot)
      /\ bound' = bound \cup {<<x, q.user, q.chat>>}
      /\ codeOf' = [codeOf EXCEPT ![q.user] = 0]
  <2>1. x \in Chat!Codes
    BY <1>1, <1>2, CodesAre, ServicesAssumption DEF Chat!Shaped, Chat!Call, Chat!LinksAssumption
  <2> QED BY <1>1, <1>2, <2>1 DEF Chat!CodesInv, Chat!Takes, Chat!Binds, Chat!bind
<1>4. x <= issued
  BY <1>1, <1>2, <1>3, CodesAre DEF Chat!CodesInv, Chat!Fresh, Chat!LinksType
<1>5. /\ codeOf' \in [Users -> 0 .. MaxCodes]
      /\ \A u \in Users : codeOf'[u] = IF u = q.user THEN 0 ELSE codeOf[u]
  BY <1>1, <1>3, ServicesAssumption DEF Chat!LinksType, Chat!LinksAssumption
<1>6. request' = [request EXCEPT ![Bot] = Chat!Idle]
  BY DEF Chat!bind, Chat!Done
<1>7. Others(Bot) /\ request'[Bot] = Chat!Idle
  BY <1>1, <1>6, BlankCall, OneCall
<1>8. Chat!LinksType'
  BY <1>1, <1>5, <1>7 DEF Others, Chat!LinksType, Chat!Processes, Chat!Call, Chat!Row, Chat!Columns,
     Chat!Default, Chat!NoRow
<1>9. ASSUME NEW k \in Chat!Codes, k # x PROVE NoNews(k)
  <2>1. QuietCall(Bot, k)
    BY <1>1, <1>7, BlankCall, NewCallQuiet DEF Chat!Sends
  <2>2. \A s \in Chat!Processes : QuietCall(s, k)
    BY <1>1, <1>7, <2>1, OthersQuiet
  <2>3. /\ Chat!InSettings(k)' => Chat!InSettings(k)
        /\ Chat!IsBound(k)' => Chat!IsBound(k)
    BY <1>1, <1>3, <1>9, BoundWith DEF Chat!InSettings
  <2> QED BY <1>1, <1>5, <2>2, <2>3, CodesAre DEF NoNews
<1>10. ~Chat!OfChat(x) /\ ~Chat!OfArtist(x)
  BY <1>1, <1>3 DEF Chat!OfAccount, Chat!Safe, Chat!OneSide
<1>11. /\ ~Chat!Takes(Bot, x)' /\ ~Chat!Sends(Bot, x)' /\ ~Chat!Generates(Bot, x)'
       /\ ~Chat!Writes(Bot, x)' /\ ~Chat!Redeems(Bot, x)'
  BY <1>7, BlankCall DEF Chat!Takes, Chat!Sends, Chat!Generates, Chat!Writes, Chat!Redeems
<1>12. x # 0
  BY <1>3, CodesAre
<1>13. Chat!OneSide(x)' /\ ~Chat!OfChat(x)' /\ ~Chat!OfArtist(x)'
  BY <1>1, <1>3, <1>5, <1>7, <1>10, <1>11, <1>12, OthersHands
<1>14. /\ \A s \in Chat!Processes : ~Chat!Sends(s, x)' /\ ~Chat!Generates(s, x)' /\ ~Chat!Writes(s, x)'
       /\ \A c \in Chats : pending'[c] # x
       /\ ~Chat!InSettings(x)'
  BY <1>13 DEF Chat!OfChat, Chat!OfArtist, Chat!Processes
<1>15. \A u \in Users : codeOf'[u] # x
  BY <1>1, <1>3, <1>5, <1>12 DEF Chat!Safe, Chat!OneOwner
<1>16. Chat!OneOwner(x)'
  BY <1>14, <1>15 DEF Chat!OneOwner, Chat!Processes
<1>17. ASSUME x \notin raced, NEW s \in Chat!Processes PROVE request'[s].code # x
  BY <1>1, <1>2, <1>3, <1>7, <1>12, <1>17, BlankCall, OthersSame DEF Chat!Safe, Chat!OneHand
<1>18. Chat!OneHand(x)'
  BY <1>1, <1>17 DEF Chat!OneHand, Chat!Processes
<1>19. Chat!IsBound(x) => x \in raced
  BY <1>1, <1>2, <1>3 DEF Chat!Safe, Chat!Spent
<1>20. Chat!Spent(x)'
  BY <1>1, <1>14, <1>15, <1>17 DEF Chat!Spent, Chat!Processes
<1>21. Chat!OneTimeCodes'
  BY <1>1, <1>3, <1>19, OnceMore
<1>22. issued <= issued' /\ x <= issued'
  BY <1>1, <1>4 DEF Chat!LinksType
<1> QED BY <1>1, <1>7, <1>8, <1>9, <1>13, <1>16, <1>18, <1>20, <1>21, <1>22, BlankCall, NewsOfOne
        DEF Chat!Safe

\* A chat starts, an account forgets its link, text is for support: no code moves.
LEMMA OwnStep ==
    ASSUME Chat!CodesInv,
           \/ \E u \in Users : Chat!resetTelegramLink(u)
           \/ \E c \in Chats : Chat!start(c) \/ Chat!support(c)
           \/ UNCHANGED links
    PROVE  Chat!CodesInv'
<1>1. /\ Chat!LinksType /\ Bot \in Chat!Processes /\ Chat!Shaped(Bot, request[Bot])
      /\ MaxCodes \in Nat
  BY ServicesAssumption DEF Chat!CodesInv, Chat!Processes, Chat!LinksAssumption
<1>2. UNCHANGED <<settings, live, issued, bound, raced>>
  BY DEF links, Chat!resetTelegramLink, Chat!start, Chat!support, Chat!accountsUnchanged,
     Chat!codesUnchanged, Chat!historyUnchanged
<1>3. CASE \E c \in Chats : Chat!start(c)
  <2>1. PICK c \in Chats : Chat!start(c)
    BY <1>3
  <2>2. PICK q : q = [Chat!Idle EXCEPT !.op = "start", !.at = "issue", !.chat = c]
    OBVIOUS
  <2>3. /\ q \in Chat!Call /\ q.op = "start" /\ q.at = "issue" /\ q.chat = c /\ q.code = 0
        /\ q.set = Chat!Default
    BY <2>2, BlankCall DEF Chat!Call, Chat!Idle
  <2>4. /\ request' = [request EXCEPT ![Bot] = q] /\ request[Bot].at = "idle" /\ UNCHANGED codeOf
        /\ pending' = [pending EXCEPT ![c] = 0]
    BY <2>1, <2>2 DEF Chat!start
  <2>5. Others(Bot) /\ request'[Bot] = q /\ Chat!Shaped(Bot, q)
    BY <1>1, <2>3, <2>4, BlankCall, OneCall DEF Chat!Shaped
  <2>6. \A k \in Chat!Codes : QuietCall(Bot, k)
    BY <2>3, <2>4, <2>5, NewCallQuiet
  <2>7. /\ codeOf' \in [Users -> 0 .. MaxCodes] /\ \A u \in Users : codeOf'[u] \in {codeOf[u], 0}
        /\ pending' \in [Chats -> 0 .. MaxCodes] /\ \A d \in Chats : pending'[d] \in {pending[d], 0}
    BY <1>1, <2>4 DEF Chat!LinksType
  <2> QED BY <1>1, <1>2, <2>5, <2>6, <2>7, QuietLinks
<1>4. CASE UNCHANGED request
  <2>1. Others(Bot) /\ Chat!Shaped(Bot, request'[Bot])
    BY <1>1, <1>4 DEF Others, Chat!LinksType
  <2>2. \A k \in Chat!Codes : QuietCall(Bot, k)
    BY <1>1, <1>4, SameCallQuiet DEF Chat!LinksType
  <2>3. CASE \E u \in Users : Chat!resetTelegramLink(u)
    <3>1. UNCHANGED pending /\ \E u \in Users : codeOf' = [codeOf EXCEPT ![u] = 0]
      BY <2>3 DEF Chat!resetTelegramLink
    <3>2. /\ codeOf' \in [Users -> 0 .. MaxCodes] /\ \A u \in Users : codeOf'[u] \in {codeOf[u], 0}
          /\ pending' \in [Chats -> 0 .. MaxCodes] /\ \A d \in Chats : pending'[d] \in {pending[d], 0}
      BY <1>1, <3>1 DEF Chat!LinksType
    <3> QED BY <1>1, <1>2, <2>1, <2>2, <3>2, QuietLinks
  <2>4. CASE UNCHANGED <<codeOf, pending>>
    <3>1. /\ codeOf' \in [Users -> 0 .. MaxCodes] /\ \A u \in Users : codeOf'[u] \in {codeOf[u], 0}
          /\ pending' \in [Chats -> 0 .. MaxCodes] /\ \A d \in Chats : pending'[d] \in {pending[d], 0}
      BY <1>1, <2>4 DEF Chat!LinksType
    <3> QED BY <1>1, <1>2, <2>1, <2>2, <3>1, QuietLinks
  <2>5. CASE \E c \in Chats : Chat!start(c)
    BY <1>3, <2>5
  <2> QED BY <2>3, <2>4, <2>5 DEF links, Chat!support, Chat!accountsUnchanged
<1> QED BY <1>3, <1>4 DEF links, Chat!resetTelegramLink, Chat!support

\* Ten minutes pass; or the process ends, and every code in hand is raced.
LEMMA ClockStep ==
    ASSUME Chat!CodesInv, (\E code \in Chat!Codes : Chat!Expire(code)) \/ Chat!Restart
    PROVE  Chat!CodesInv'
<1>1. /\ Chat!LinksType /\ \A s \in Chat!Processes : Chat!Shaped(s, request[s])
  BY DEF Chat!CodesInv
<1>2. UNCHANGED <<codeOf, pending, settings, issued, bound>> /\ raced \subseteq raced'
      /\ live' \subseteq live
  BY DEF Chat!Expire, Chat!Restart, Chat!accountsUnchanged, Chat!codesUnchanged, Chat!historyUnchanged
<1>3. ASSUME NEW s \in Chat!Processes
      PROVE  /\ request'[s] \in Chat!Call /\ Chat!Shaped(s, request'[s])
             /\ \A k \in Chat!Codes : QuietCall(s, k)
  <2>1. CASE \E code \in Chat!Codes : Chat!Expire(code)
    <3>1. request' = request
      BY <2>1 DEF Chat!Expire
    <3> QED BY <1>1, <3>1, SameCallQuiet DEF Chat!LinksType
  <2>2. CASE Chat!Restart
    <3>1. request'[s] = Chat!Idle /\ (request[s].code # 0 => request[s].code \in raced')
      BY <2>2 DEF Chat!Restart
    <3> QED BY <3>1, BlankCall, NewCallQuiet, CodesAre DEF Chat!Sends
  <2> QED BY <2>1, <2>2
<1>4. request' \in [Chat!Processes -> Chat!Call]
  BY <1>1, <1>3 DEF Chat!Expire, Chat!Restart, Chat!LinksType
<1>5. Chat!LinksType'
  BY <1>1, <1>2, <1>4 DEF Chat!LinksType, Chat!Processes, Chat!Call, Chat!Row, Chat!Columns,
     Chat!Default, Chat!NoRow
<1>6. ASSUME NEW k \in Chat!Codes PROVE NoNews(k)
  BY <1>2, <1>3 DEF NoNews, Chat!InSettings, Chat!IsBound
<1>7. Chat!OneTimeCodes'
  BY <1>2 DEF Chat!CodesInv, Chat!OneTimeCodes
<1>8. issued' \in Nat /\ issued <= issued'
  BY <1>1, <1>2 DEF Chat!LinksType
<1> QED BY <1>3, <1>5, <1>6, <1>7, <1>8, CodesAreSafe

\* What the requests of the site ask the settings for.
LEMMA SiteAskStep ==
    ASSUME Chat!CodesInv, NEW r \in Requests, Chat!Asks(r)
    PROVE  Chat!CodesInv'
<1>1. UNCHANGED <<codeOf, pending, bound, raced>> /\ r \in Chat!Processes
  BY DEF Chat!Asks, Chat!accountsUnchanged, Chat!historyUnchanged, Chat!Processes
<1>2. CASE Chat!generateAdminTelegramLinkCode(r)
  BY <1>1, <1>2, ArtistCodeStep
<1>3. CASE (Chat!resetAdminTelegramLink(r) \/ Chat!readSettings(r)) /\ UNCHANGED <<live, issued>>
  BY <1>1, <1>3, BlankCall, AskStep DEF Chat!resetAdminTelegramLink, Chat!readSettings, Chat!Columns,
     Chat!Default
<1>4. ASSUME NEW text \in {x1}, Chat!update(r, text) \/ Chat!editFaq(r, text),
             UNCHANGED <<live, issued>>
      PROVE  Chat!CodesInv'
  <2>1. PICK form : form = [Chat!Default EXCEPT !.form = text]
    OBVIOUS
  <2>2. PICK faq : faq = [Chat!Default EXCEPT !.faq = text]
    OBVIOUS
  <2>3. form \in Chat!Row /\ form.code = 0 /\ faq \in Chat!Row /\ faq.code = 0
    BY <2>1, <2>2, BlankCall DEF Chat!Row, Chat!Default
  <2>4. {"form"} \in SUBSET Chat!Columns /\ {"faq"} \in SUBSET Chat!Columns
    BY DEF Chat!Columns, Chat!Default
  <2>5. \/ Chat!AskSettings(r, "update", {"form"}, form)
        \/ Chat!AskSettings(r, "faq", {"faq"}, faq)
    BY <1>4, <2>1, <2>2 DEF Chat!update, Chat!editFaq
  <2> QED BY <1>1, <1>4, <2>3, <2>4, <2>5, AskStep
<1> QED BY <1>2, <1>3, <1>4 DEF Chat!Asks, Chat!codesUnchanged

LEMMA LinksNext == Chat!CodesInv /\ [Chat!Next]_links => Chat!CodesInv'
<1> SUFFICES ASSUME Chat!CodesInv, [Chat!Next]_links PROVE Chat!CodesInv'
  OBVIOUS
<1>1. ASSUME NEW r \in Chat!Processes, Chat!Step(r) PROVE Chat!CodesInv'
  BY <1>1, RowStep, SaveStep, CheckStep, LinkStep DEF Chat!Step
<1>2. ASSUME NEW c \in Chats, Chat!relay(c) PROVE Chat!CodesInv'
  BY <1>2, AskStep, BlankCall DEF Chat!relay, Chat!readSettings, Chat!accountsUnchanged,
     Chat!codesUnchanged, Chat!historyUnchanged, Chat!Processes
<1>3. CASE Chat!BotStep
  BY <1>2, <1>3, ChatCodeStep, BindStep, OwnStep, StartWithStep DEF Chat!BotStep
<1> QED BY <1>1, <1>3, SiteAskStep, PendingCodeStep, AccountCodeStep, OwnStep, ClockStep DEF Chat!Next

LEMMA LinksInit == Chat!Init => Chat!CodesInv
<1> SUFFICES ASSUME Chat!Init PROVE Chat!CodesInv
  OBVIOUS
<1>1. /\ \A r \in Chat!Processes : request[r] = Chat!Idle /\ Chat!Shaped(r, request[r])
      /\ settings \in {Chat!NoRow, Chat!Default} /\ bound = {} /\ MaxCodes \in Nat
      /\ \A u \in Users : codeOf[u] = 0
      /\ \A c \in Chats : pending[c] = 0
  BY BlankCall, ServicesAssumption DEF Chat!Init, Chat!LinksAssumption
<1>2. Chat!LinksType
  BY <1>1, BlankCall DEF Chat!LinksType, Chat!Init
<1>3. ASSUME NEW k \in Chat!Codes PROVE Chat!Safe(k) /\ Chat!Fresh(k)
  <2>1. /\ ~Chat!IsBound(k) /\ ~Chat!InSettings(k)
        /\ \A u \in Users : codeOf[u] # k
        /\ \A c \in Chats : pending[c] # k
        /\ \A r \in Chat!Processes :
             /\ ~Chat!Takes(r, k) /\ ~Chat!Sends(r, k) /\ ~Chat!Generates(r, k)
             /\ ~Chat!Writes(r, k) /\ ~Chat!Redeems(r, k) /\ request[r].code # k
    BY <1>1, BlankCall, CodesAre DEF Chat!IsBound, Chat!InSettings, Chat!Takes, Chat!Sends,
       Chat!Generates, Chat!Writes, Chat!Redeems
  <2> QED BY <2>1 DEF Chat!Safe, Chat!Fresh, Chat!OneSide, Chat!OneOwner, Chat!OneHand, Chat!Spent,
          Chat!OfAccount, Chat!OfChat, Chat!OfArtist
<1>4. Chat!OneTimeCodes
  BY <1>1 DEF Chat!OneTimeCodes
<1> QED BY <1>1, <1>2, <1>3, <1>4 DEF Chat!CodesInv

\* The inductive invariant: whose each code is, in whose hands, and that it is
\* gone once it has linked.  (telegram.service.ts:117-141,
\* users.service.ts:90-116, settings.service.ts:183-207.)
LEMMA CodesInvariant == MCSpec => [](part \in {"settings", "accounts"} => Chat!CodesInv)
<1> DEFINE Inv == part \in {"settings", "accounts"} => Chat!CodesInv
<1>1. MCInit => Inv
  BY LinksInit DEF MCInit
<1>2. Inv /\ [MCNext]_all => Inv'
  <2> SUFFICES ASSUME Inv, [MCNext]_all PROVE Inv'
    OBVIOUS
  <2>1. part' = part /\ (part \in {"settings", "accounts"} => [Chat!Next]_links)
    <3>1. CASE UNCHANGED all
      BY <3>1 DEF all, links
    <3>2. CASE LinksStep
      <4>1. Chat!Next
        BY <3>2 DEF LinksStep, ArtistStep, AccountStep, Chat!Next, Chat!BotStep, Chat!Processes,
          Chat!Codes
      <4> QED BY <3>2, <4>1 DEF LinksStep
    <3>3. CASE MCNext /\ ~LinksStep
      BY <3>3 DEF MCNext, RateStep, CatalogueStep, SignInStep, LimitStep, Rows!Tables
    <3> QED BY <3>1, <3>2, <3>3
  <2> QED BY <2>1, LinksNext
<1> HIDE DEF Inv
<1>3. MCSpec => []Inv
  BY <1>1, <1>2, PTL DEF MCSpec
<1> QED BY <1>3 DEF Inv

\* For any accounts, chats and requests of the site: a code links once, but for
\* one that two had in hand together, that a crash cut short, or that an
\* overlapping save of the settings brought back.  (telegram.service.ts:117-141,
\* users.service.ts:90-116, settings.service.ts:183-207.)
THEOREM CodesAlwaysLinkOnce == MCSpec => []OneTimeCodes
<1>1. (part \in {"settings", "accounts"} => Chat!CodesInv) => OneTimeCodes
  BY DEF OneTimeCodes, Chat!CodesInv
<1> QED BY <1>1, CodesInvariant, PTL

-----------------------------------------------------------------------------
(* The exchange rate.  A call that is on its way is the one whose start was *)
(* noted last, and its deadline has not passed; a second one may begin only *)
(* when the backoff since that start is over, later than the deadline.      *)

USE ExchangeRateAssumption

\* What RateInv says of one call.
OnItsWay(q) ==
    q.at # "idle" =>
        /\ q.since = lastAttemptAt
        /\ now <= q.since + DEFAULT_TIMEOUT_MS
        /\ q.rate <= now
        /\ q.at = "answered" => lastKnownRate <= q.rate

CallType == [at : {"idle", "asking", "answered"}, since : Nat, rate : Nat]

LEMMA RateInit == Init => RateInv
BY DEF Init, RateInv, TypeOK, OneAtATime, Idle, Fallback

\* A request for the rate goes to the bank: every other call is over.
LEMMA RateAsked ==
    ASSUME RateInv, NEW c \in Calls, getUsdToUahRate(c)
    PROVE  RateInv'
<1>0. PICK q : q = [at |-> "asking", since |-> now, rate |-> Fallback]
  OBVIOUS
<1>1. /\ now - lastAttemptAt >= RETRY_BACKOFF_MS
      /\ lastAttemptAt' = now /\ call' = [call EXCEPT ![c] = q]
      /\ UNCHANGED <<now, lastKnownRate, fetchedAt>>
  BY <1>0 DEF getUsdToUahRate, attemptedRecently, RateInv, TypeOK
<1>2. \A d \in Calls : call[d].at = "idle"
  BY <1>1 DEF RateInv, TypeOK
<1>3. q \in CallType /\ q.since = now /\ q.rate = 0 /\ q.at = "asking"
  BY <1>0 DEF RateInv, TypeOK, CallType, Fallback
<1>4. TypeOK'
  BY <1>1, <1>3 DEF RateInv, TypeOK, CallType
<1>5. \A d \in Calls : call'[d] = IF d = c THEN q ELSE call[d]
  BY <1>1 DEF RateInv, TypeOK
<1>6. \A d \in Calls : d # c => call'[d].at = "idle"
  BY <1>2, <1>5
<1>7. call'[c] = q /\ now' = now
  BY <1>1, <1>5
<1>8. OnItsWay(q)'
  BY <1>1, <1>3 DEF OnItsWay, RateInv, TypeOK
<1> QED BY <1>1, <1>3, <1>4, <1>6, <1>7, <1>8 DEF RateInv, OneAtATime, OnItsWay, TypeOK

\* One call goes on, or ends; the moment of the attempt stays.
LEMMA RateCall ==
    ASSUME RateInv, NEW c \in Calls, call[c].at # "idle",
           NEW q \in CallType, call' = [call EXCEPT ![c] = q],
           UNCHANGED <<now, lastAttemptAt>>,
           lastKnownRate' \in 0 .. now, fetchedAt' \in Int, OnItsWay(q)'
    PROVE  RateInv'
<1>1. \A d \in Calls : call'[d] = IF d = c THEN q ELSE call[d]
  BY DEF RateInv, TypeOK
<1>2. \A d \in Calls : d # c => call'[d].at = "idle"
  BY <1>1 DEF RateInv, OneAtATime
<1>3. TypeOK'
  BY DEF RateInv, TypeOK, CallType
<1> QED BY <1>1, <1>2, <1>3 DEF RateInv, OneAtATime, OnItsWay

LEMMA RateTick ==
    ASSUME RateInv, Tick
    PROVE  RateInv'
<1>1. /\ \A c \in Calls : call[c].at # "idle" => now < call[c].since + DEFAULT_TIMEOUT_MS
      /\ now' = now + 1 /\ UNCHANGED <<lastKnownRate, fetchedAt, lastAttemptAt, call>>
  BY DEF Tick
<1>2. TypeOK'
  BY <1>1 DEF RateInv, TypeOK
<1>3. \A c \in Calls : call[c].since \in Nat /\ call[c].rate \in Nat
  BY DEF RateInv, TypeOK
<1> QED BY <1>1, <1>2, <1>3 DEF RateInv, TypeOK, OneAtATime

LEMMA RateRestart ==
    ASSUME RateInv, Restart
    PROVE  RateInv'
BY DEF Restart, RateInv, TypeOK, OneAtATime, Idle, Fallback

LEMMA RateNext == RateInv /\ [Next]_vars => RateInv'
<1> SUFFICES ASSUME RateInv, [Next]_vars PROVE RateInv'
  OBVIOUS
<1>1. ASSUME NEW c \in Calls, getUsdToUahRate(c) PROVE RateInv'
  BY <1>1, RateAsked
<1>2. ASSUME NEW c \in Calls, BankAnswers(c) PROVE RateInv'
  <2>0. PICK q : q = [call[c] EXCEPT !.at = "answered", !.rate = now]
    OBVIOUS
  <2>1. /\ call[c].at = "asking" /\ call' = [call EXCEPT ![c] = q]
        /\ UNCHANGED <<now, lastKnownRate, fetchedAt, lastAttemptAt>>
    BY <1>2, <2>0 DEF BankAnswers, RateInv, TypeOK
  <2>2. /\ q \in CallType /\ q.at = "answered" /\ q.rate = now /\ q.since = call[c].since
    BY <2>0 DEF RateInv, TypeOK, CallType
  <2>3. OnItsWay(q)'
    BY <2>1, <2>2 DEF OnItsWay, RateInv, TypeOK
  <2> QED BY <2>1, <2>2, <2>3, RateCall DEF RateInv, TypeOK
<1>3. ASSUME NEW c \in Calls, Refresh(c) PROVE RateInv'
  <2>1. /\ call[c].at = "answered" /\ lastKnownRate' = call[c].rate /\ fetchedAt' = now
        /\ call' = [call EXCEPT ![c] = Idle] /\ UNCHANGED <<now, lastAttemptAt>>
    BY <1>3 DEF Refresh
  <2>2. call[c].rate \in 0 .. now
    BY <2>1 DEF RateInv, TypeOK
  <2>3. Idle \in CallType /\ OnItsWay(Idle)'
    BY DEF Idle, Fallback, CallType, OnItsWay
  <2>4. call[c].at # "idle" /\ lastKnownRate' \in 0 .. now /\ fetchedAt' \in Int
    BY <2>1, <2>2 DEF RateInv, TypeOK
  <2> QED BY <2>1, <2>3, <2>4, RateCall
<1>4. ASSUME NEW c \in Calls, Fail(c) PROVE RateInv'
  <2>1. Idle \in CallType /\ OnItsWay(Idle)'
    BY DEF Idle, Fallback, CallType, OnItsWay
  <2> QED BY <1>4, <2>1, RateCall DEF Fail, RateInv, TypeOK
<1>5. CASE UNCHANGED vars
  BY <1>5 DEF vars, RateInv, TypeOK, OneAtATime
<1> QED BY <1>1, <1>2, <1>3, <1>4, <1>5, RateTick, RateRestart DEF Next

\* The inductive invariant: what keeps a second request from the bank.
\* (exchange-rate.service.ts:23-44.)
THEOREM RateInvariant == Spec => []RateInv
BY RateInit, RateNext, PTL DEF Spec

\* However many requests need the rate, one at most asks the bank.
\* (exchange-rate.service.ts:27-30.)
THEOREM AlwaysOneAtATime == Spec => []OneAtATime
<1>1. RateInv => OneAtATime
  BY DEF RateInv
<1> QED BY <1>1, RateInvariant, PTL

-----------------------------------------------------------------------------
(* The catalogue.  A row is changed only by a request that is known to be   *)
(* at it (Changes), or it is a new one.  Requests that are at one row make  *)
(* it raced (Apart).  So the copy that an update carries is the row for as  *)
(* long as the row is not raced (Current), and the series that is given its *)
(* works stays empty for as long as its request is alone (Released).        *)

LEMMA TablesAre ==
    Rows!Tables = {"painting", "series", "material", "technique", "review", "news", "giveaway"}
BY DEF Rows!Tables, Rows!ServiceOf

LEMMA NothingIsARow ==
    /\ MaxId \in Nat /\ Rows!Ids \subseteq Nat /\ 0 \notin Rows!Ids
    /\ None \notin Rows!Ids /\ Rows!Absent \notin Rows!Row
BY ServicesAssumption DEF Rows!CatalogueAssumption, Rows!Ids, Rows!Absent, Rows!Row

LEMMA ChangesAreRows ==
    ASSUME NEW q \in Rows!Request, Rows!Shaped(q)
    PROVE  /\ Rows!Changes(q) \subseteq Rows!Tables \X Rows!Ids
           /\ q.at = "idle" => Rows!Changes(q) = {}
BY TablesAre, NothingIsARow DEF Rows!Changes, Rows!Request, Rows!Shaped, Rows!Row

LEMMA RemovalChanges ==
    ASSUME NEW q, q.op = "remove"
    PROVE  /\ <<q.table, q.id>> \in Rows!Changes(q)
           /\ q.table = "series" => \A i \in Rows!Ids : <<"painting", i>> \in Rows!Changes(q)
<1>1. CASE q.table = "series"
  <2>1. Rows!Changes(q) = {<<"series", q.id>>} \cup {<<"painting", i>> : i \in Rows!Ids}
    BY <1>1 DEF Rows!Changes
  <2> QED BY <1>1, <2>1
<1>2. CASE q.table # "series"
  <2>1. Rows!Changes(q) = {<<q.table, q.id>>}
    BY <1>2 DEF Rows!Changes
  <2> QED BY <1>2, <2>1
<1> QED BY <1>1, <1>2

LEMMA IdleEdit ==
    ASSUME NEW q, NEW done \in BOOLEAN, q = [Rows!Idle EXCEPT !.done = done]
    PROVE  /\ q \in Rows!Request /\ q.op = "none" /\ q.at = "idle" /\ q.done = done /\ q.alone
           /\ Rows!Shaped(q) /\ Rows!Changes(q) = {}
BY TablesAre DEF Rows!Idle, Rows!Request, Rows!Shaped, Rows!Changes

\* Which rows the step of a request changes.
Moves(q) ==
    \A t \in Rows!Tables, i \in Rows!Ids :
        row'[t][i] # row[t][i] =>
            \/ <<t, i>> \in Rows!Changes(q)
            \/ /\ row[t][i] = Rows!Absent
               /\ row'[t][i].series # None =>
                    <<"series", row'[t][i].series>> \in Rows!Changes(q)

IdsGrow ==
    /\ issuedIds' \in [Rows!Tables -> 0 .. MaxId]
    /\ \A t \in Rows!Tables : issuedIds[t] <= issuedIds'[t]

LEMMA OthersKeepTheirCopies ==
    ASSUME Rows!EditsInv, NEW r \in Requests, NEW s \in Requests, r # s,
           UNCHANGED racedRows, Moves(editing[r]), IdsGrow
    PROVE  \A q : q = editing[s] => Rows!Current(q)' /\ Rows!Released(q)'
<1> SUFFICES ASSUME NEW q, q = editing[s] PROVE Rows!Current(q)' /\ Rows!Released(q)'
  OBVIOUS
<1>1. /\ q \in Rows!Request /\ Rows!Shaped(q) /\ Rows!Current(q) /\ Rows!Released(q)
  BY DEF Rows!EditsInv, Rows!TypeOK
<1>2. /\ Rows!Changes(q) \cap Rows!Changes(editing[r]) \subseteq racedRows
      /\ q.alone => Rows!Changes(q) \cap Rows!Changes(editing[r]) = {}
  BY DEF Rows!EditsInv, Rows!Apart
<1>3. Rows!Current(q)'
  <2>0. ASSUME q.op = "update" PROVE q.id <= issuedIds'[q.table]
    <3>0. q.id <= issuedIds[q.table]
      BY <1>1, <2>0 DEF Rows!Current
    <3>a. q.table \in Rows!Tables /\ q.id \in Rows!Ids \cup {0}
      BY <1>1 DEF Rows!Request
    <3>b. q.id \in Int
      <4>1. CASE q.id = 0
        BY <4>1
      <4>2. CASE q.id \in Rows!Ids
        BY <4>2 DEF Rows!Ids
      <4> QED BY <3>a, <4>1, <4>2
    <3>1. q.table \in Rows!Tables /\ q.id \in Int /\ q.id <= issuedIds[q.table]
      BY <3>a, <3>b, <3>0
    <3>2. issuedIds[q.table] \in Int /\ issuedIds'[q.table] \in Int
      BY <3>1 DEF IdsGrow, Rows!EditsInv, Rows!TypeOK
    <3> QED BY <3>1, <3>2 DEF IdsGrow
  <2> SUFFICES ASSUME q.op = "update", <<q.table, q.id>> \notin racedRows
               PROVE  /\ Rows!Exists(q.table, q.id)'
                      /\ \A c \in Rows!Columns \ q.sends : q.entity[c] = row'[q.table][q.id][c]
    BY <2>0 DEF Rows!Current
  <2>1. /\ Rows!Exists(q.table, q.id)
        /\ \A c \in Rows!Columns \ q.sends : q.entity[c] = row[q.table][q.id][c]
    BY <1>1 DEF Rows!Current
  <2>2. q.table \in Rows!Tables /\ q.id \in Rows!Ids
    BY <1>1 DEF Rows!Request, Rows!Shaped
  <2>3. <<q.table, q.id>> \in Rows!Changes(q)
    BY DEF Rows!Changes
  <2>4. row'[q.table][q.id] = row[q.table][q.id]
    BY <1>2, <2>1, <2>2, <2>3 DEF Moves, Rows!Exists
  <2> QED BY <2>1, <2>4 DEF Rows!Exists
<1>4. Rows!Released(q)'
  <2> SUFFICES ASSUME q.op = "setPaintings", q.at = "write", q.alone PROVE Rows!Works(q.id)' = {}
    BY DEF Rows!Released
  <2>1. Rows!Works(q.id) = {} /\ q.id \in Rows!Ids
    BY <1>1 DEF Rows!Released, Rows!Shaped, Rows!Request
  <2>2. /\ <<"series", q.id>> \in Rows!Changes(q)
        /\ \A i \in Rows!Ids : <<"painting", i>> \in Rows!Changes(q)
    BY DEF Rows!Changes
  <2>3. ASSUME NEW i \in Rows!Ids, Rows!Exists("painting", i)', row'["painting"][i].series = q.id
        PROVE  FALSE
    <3>1. "painting" \in Rows!Tables /\ q.id # None
      BY <2>1, TablesAre, NothingIsARow
    <3>2. row'["painting"][i] # row["painting"][i]
      BY <2>1, <2>3 DEF Rows!Works, Rows!IdsOf, Rows!Exists
    <3> QED BY <1>2, <2>2, <2>3, <3>1, <3>2 DEF Moves
  <2> QED BY <2>3 DEF Rows!Works, Rows!IdsOf
<1> QED BY <1>3, <1>4

\* A step of one request, which goes on as q.
LEMMA OneEdit ==
    ASSUME Rows!EditsInv, NEW r \in Requests, NEW q \in Rows!Request,
           editing' = [editing EXCEPT ![r] = q], UNCHANGED racedRows, Moves(editing[r]),
           row' \in [Rows!Tables -> [Rows!Ids -> Rows!Row \cup {Rows!Absent}]],
           IdsGrow, used' \subseteq Rows!Tables \X Rows!Ids,
           \A t \in Rows!Tables : \A i \in Rows!IdsOf(t)' : i <= issuedIds'[t],
           Rows!Changes(q) = {} \/ Rows!Changes(q) = Rows!Changes(editing[r]),
           q.alone => editing[r].alone \/ Rows!Changes(q) = {},
           Rows!Shaped(q), Rows!Current(q)', Rows!Released(q)'
    PROVE  Rows!EditsInv'
<1>1. /\ editing' \in [Requests -> Rows!Request] /\ editing'[r] = q
      /\ \A s \in Requests : s # r => editing'[s] = editing[s]
  BY DEF Rows!EditsInv, Rows!TypeOK
<1>2. Rows!TypeOK'
  BY <1>1 DEF Rows!EditsInv, Rows!TypeOK, IdsGrow
<1>3. ASSUME NEW s \in Requests
      PROVE  (Rows!Shaped(editing[s]) /\ Rows!Current(editing[s]) /\ Rows!Released(editing[s]))'
  <2>1. CASE s = r
    BY <1>1, <2>1
  <2>2. CASE s # r
    <3>1. PICK u : u = editing[s]
      OBVIOUS
    <3>2. Rows!Shaped(u) /\ Rows!Current(u)' /\ Rows!Released(u)'
      BY <2>2, <3>1, OthersKeepTheirCopies DEF Rows!EditsInv
    <3>3. u = editing'[s]
      BY <1>1, <2>2, <3>1
    <3> QED BY <3>2, <3>3
  <2> QED BY <2>1, <2>2
<1>4. Rows!Apart'
  BY <1>1 DEF Rows!EditsInv, Rows!Apart
<1> QED BY <1>2, <1>3, <1>4 DEF Rows!EditsInv

\* A request is answered.
LEMMA EditEnds ==
    ASSUME Rows!EditsInv, NEW r \in Requests, NEW done \in BOOLEAN, Rows!Answer(r, done),
           UNCHANGED racedRows, Moves(editing[r]),
           row' \in [Rows!Tables -> [Rows!Ids -> Rows!Row \cup {Rows!Absent}]],
           IdsGrow, used' \subseteq Rows!Tables \X Rows!Ids,
           \A t \in Rows!Tables : \A i \in Rows!IdsOf(t)' : i <= issuedIds'[t]
    PROVE  Rows!EditsInv'
<1>1. PICK q : q = [Rows!Idle EXCEPT !.done = done]
  OBVIOUS
<1>2. editing' = [editing EXCEPT ![r] = q]
  BY <1>1 DEF Rows!Answer
<1>3. /\ q \in Rows!Request /\ q.op = "none" /\ Rows!Shaped(q) /\ Rows!Changes(q) = {}
  BY <1>1, IdleEdit
<1>4. Rows!Current(q)' /\ Rows!Released(q)'
  BY <1>3 DEF Rows!Current, Rows!Released
<1> QED BY <1>2, <1>3, <1>4, OneEdit

\* Nothing is changed but the request.
LEMMA QuietEnds ==
    ASSUME Rows!EditsInv, NEW r \in Requests, NEW done \in BOOLEAN, Rows!Answer(r, done),
           UNCHANGED <<row, issuedIds, used, racedRows>>
    PROVE  Rows!EditsInv'
<1>1. /\ row' \in [Rows!Tables -> [Rows!Ids -> Rows!Row \cup {Rows!Absent}]]
      /\ IdsGrow /\ used' \subseteq Rows!Tables \X Rows!Ids
      /\ \A t \in Rows!Tables : \A i \in Rows!IdsOf(t)' : i <= issuedIds'[t]
  BY DEF Rows!EditsInv, Rows!TypeOK, Rows!IdsOf, Rows!Exists, IdsGrow
<1>2. Moves(editing[r])
  BY DEF Moves
<1> QED BY <1>1, <1>2, EditEnds

\* A request begins, and whoever is at its rows hears of it.
LEMMA EditBegins ==
    ASSUME Rows!EditsInv, NEW r \in Requests, NEW q \in Rows!Request, Rows!Begin(r, q),
           UNCHANGED <<row, issuedIds, used>>, Rows!Shaped(q), q.at # "idle",
           q.op = "update" =>
                /\ q.id <= issuedIds[q.table] /\ Rows!Exists(q.table, q.id)
                /\ \A c \in Rows!Columns \ q.sends : q.entity[c] = row[q.table][q.id][c],
           q.op = "setPaintings" => q.at = "release"
    PROVE  Rows!EditsInv'
<1>1. PICK n : n = [q EXCEPT !.alone = Rows!Together(q) = {}]
  OBVIOUS
<1>2. /\ n \in Rows!Request /\ n.op = q.op /\ n.at = q.at /\ n.id = q.id /\ n.table = q.table
      /\ n.entity = q.entity /\ n.sends = q.sends /\ n.alone = (Rows!Together(q) = {})
  BY <1>1 DEF Rows!Request
<1>3. Rows!Changes(n) = Rows!Changes(q) /\ Rows!Shaped(n)
  BY <1>2 DEF Rows!Changes, Rows!Shaped
<1>4. editing \in [Requests -> Rows!Request]
  BY DEF Rows!EditsInv, Rows!TypeOK
<1>5. editing[r].at = "idle" /\ Rows!Changes(editing[r]) = {}
  BY <1>4, ChangesAreRows DEF Rows!Begin, Rows!EditsInv
<1>6. ASSUME NEW s \in Requests, s # r
      PROVE  /\ editing'[s] \in Rows!Request
             /\ Rows!Changes(editing'[s]) = Rows!Changes(editing[s])
             /\ editing'[s].alone => editing[s].alone /\ s \notin Rows!Together(q)
             /\ Rows!Shaped(editing'[s])
             /\ editing'[s].op = editing[s].op /\ editing'[s].at = editing[s].at
             /\ editing'[s].id = editing[s].id /\ editing'[s].table = editing[s].table
             /\ editing'[s].sends = editing[s].sends /\ editing'[s].entity = editing[s].entity
  <2>1. PICK o : o = editing[s]
    OBVIOUS
  <2>2. o \in Rows!Request /\ Rows!Shaped(o)
    BY <1>4, <2>1 DEF Rows!EditsInv
  <2>3. CASE s \notin Rows!Together(q)
    <3>1. editing'[s] = o
      BY <1>6, <2>1, <2>3 DEF Rows!Begin
    <3> QED BY <2>1, <2>2, <2>3, <3>1
  <2>4. CASE s \in Rows!Together(q)
    <3>1. PICK m : m = [o EXCEPT !.alone = FALSE]
      OBVIOUS
    <3>2. /\ m \in Rows!Request /\ m.op = o.op /\ m.at = o.at /\ m.id = o.id /\ m.table = o.table
          /\ m.entity = o.entity /\ m.sends = o.sends /\ m.alone = FALSE
      BY <2>2, <3>1 DEF Rows!Request
    <3>3. Rows!Changes(m) = Rows!Changes(o) /\ Rows!Shaped(m)
      BY <2>2, <3>2 DEF Rows!Changes, Rows!Shaped
    <3>4. editing'[s] = m
      BY <1>6, <2>1, <2>4, <3>1 DEF Rows!Begin
    <3> QED BY <2>1, <3>2, <3>3, <3>4
  <2> QED BY <2>3, <2>4
<1>7. editing'[r] = n
  BY <1>1 DEF Rows!Begin
<1>8. /\ racedRows \subseteq racedRows'
      /\ racedRows' \subseteq Rows!Tables \X Rows!Ids
      /\ \A s \in Rows!Together(q) : Rows!Changes(q) \cap Rows!Changes(editing[s]) \subseteq racedRows'
  <2>1. Rows!Changes(q) \subseteq Rows!Tables \X Rows!Ids
    BY ChangesAreRows
  <2>2. racedRows' = racedRows \cup
          UNION {Rows!Changes(q) \cap Rows!Changes(editing[o]) : o \in Rows!Together(q)}
    BY DEF Rows!Begin
  <2>3. racedRows \subseteq Rows!Tables \X Rows!Ids
    BY DEF Rows!EditsInv, Rows!TypeOK
  <2> QED BY <2>1, <2>2, <2>3
<1>9. Rows!TypeOK'
  <2>1. editing' \in [Requests -> Rows!Request]
    <3>1. \A s \in Requests : editing'[s] \in Rows!Request
      BY <1>2, <1>6, <1>7
    <3>2. editing' = [s \in Requests |-> editing'[s]]
      BY DEF Rows!Begin
    <3> QED BY <3>1, <3>2
  <2> QED BY <1>8, <2>1 DEF Rows!EditsInv, Rows!TypeOK, Rows!IdsOf, Rows!Exists
<1>10. \A s \in Requests :
          s \notin Rows!Together(q) => Rows!Changes(q) \cap Rows!Changes(editing[s]) = {}
  BY <1>4, ChangesAreRows DEF Rows!Together, Rows!Running, Rows!EditsInv
<1>11. Rows!Apart'
  <2> SUFFICES ASSUME NEW a \in Requests, NEW b \in Requests, a # b
               PROVE  LET both == Rows!Changes(editing'[a]) \cap Rows!Changes(editing'[b])
                      IN both \subseteq racedRows' /\ (editing'[a].alone => both = {})
    BY DEF Rows!Apart
  <2>1. CASE a = r
    BY <1>2, <1>3, <1>6, <1>7, <1>8, <1>10, <2>1
  <2>2. CASE b = r
    BY <1>3, <1>6, <1>7, <1>8, <1>10, <2>2
  <2>3. CASE a # r /\ b # r
    <3>1. LET both == Rows!Changes(editing[a]) \cap Rows!Changes(editing[b])
          IN both \subseteq racedRows /\ (editing[a].alone => both = {})
      BY DEF Rows!EditsInv, Rows!Apart
    <3> QED BY <1>6, <1>8, <2>3, <3>1
  <2> QED BY <2>1, <2>2, <2>3
<1>12. ASSUME NEW s \in Requests
       PROVE  (Rows!Shaped(editing[s]) /\ Rows!Current(editing[s]) /\ Rows!Released(editing[s]))'
  <2>1. CASE s = r
    BY <1>2, <1>3, <1>7, <2>1 DEF Rows!Current, Rows!Released, Rows!Exists
  <2>2. CASE s # r
    <3>1. Rows!Current(editing[s]) /\ Rows!Released(editing[s])
      BY DEF Rows!EditsInv
    <3>2. Rows!Current(editing[s])'
      BY <1>6, <1>8, <2>2, <3>1 DEF Rows!Current, Rows!Exists
    <3>3. Rows!Released(editing[s])'
      BY <1>6, <2>2, <3>1 DEF Rows!Released, Rows!Works, Rows!IdsOf, Rows!Exists
    <3> QED BY <1>6, <2>2, <3>2, <3>3
  <2> QED BY <2>1, <2>2
<1> QED BY <1>9, <1>11, <1>12 DEF Rows!EditsInv
-----------------------------------------------------------------------------
(* The steps of a request. *)

LEMMA RowFields ==
    ASSUME NEW e \in Rows!Row, NEW s \in Rows!Ids \cup {None}, NEW f, f = [e EXCEPT !.series = s]
    PROVE  f \in Rows!Row /\ f.name = e.name /\ f.text = e.text /\ f.series = s
BY DEF Rows!Row

LEMMA SeriesIsLeft ==
    ASSUME Rows!TypeOK, NEW s \in Rows!Ids, NEW w, w = Rows!WithoutSeries(s)
    PROVE  /\ w \in [Rows!Ids -> Rows!Row \cup {Rows!Absent}]
           /\ \A i \in Rows!Ids :
                /\ w[i] = Rows!Absent <=> row["painting"][i] = Rows!Absent
                /\ w[i].name = row["painting"][i].name /\ w[i].text = row["painting"][i].text
                /\ w[i].series # s
<1>1. \A i \in Rows!Ids : row["painting"][i] \in Rows!Row \cup {Rows!Absent}
  BY TablesAre DEF Rows!TypeOK
<1>2. ASSUME NEW i \in Rows!Ids
      PROVE  /\ w[i] \in Rows!Row \cup {Rows!Absent}
             /\ w[i] = Rows!Absent <=> row["painting"][i] = Rows!Absent
             /\ w[i].name = row["painting"][i].name /\ w[i].text = row["painting"][i].text
             /\ w[i].series # s
  <2>1. CASE i \in Rows!Works(s)
    <3>1. PICK e \in Rows!Row : e = row["painting"][i]
      BY <1>1, <2>1 DEF Rows!Works, Rows!IdsOf, Rows!Exists
    <3>2. w[i] = [e EXCEPT !.series = None]
      BY <2>1, <3>1 DEF Rows!WithoutSeries
    <3> QED BY <3>1, <3>2, RowFields, NothingIsARow
  <2>2. CASE i \notin Rows!Works(s)
    <3>1. w[i] = row["painting"][i]
      BY <2>2 DEF Rows!WithoutSeries
    <3>2. Rows!Absent.series # s
      BY NothingIsARow DEF Rows!Absent
    <3> QED BY <1>1, <2>2, <3>1, <3>2 DEF Rows!Works, Rows!IdsOf, Rows!Exists
  <2> QED BY <2>1, <2>2
<1> QED BY <1>2 DEF Rows!WithoutSeries

LEMMA SameIds ==
    ASSUME Rows!TypeOK, UNCHANGED issuedIds
    PROVE  IdsGrow
BY DEF Rows!TypeOK, IdsGrow

\* Only the request that is answered has something to say of its works.
LEMMA OthersSayNothing ==
    ASSUME NEW r \in Requests, NEW q, Rows!TypeOK, editing' = [editing EXCEPT ![r] = q],
           \A s \in Rows!Ids :
               editing[r].op = "setPaintings" /\ editing[r].alone /\ editing[r].id = s
                 /\ q.at = "idle" /\ q.done =>
                   Rows!Works(s)' = editing[r].works \cap Rows!IdsOf("painting")
    PROVE  Rows!LeavesThese
<1> SUFFICES ASSUME NEW o \in Requests, NEW s \in Rows!Ids, Rows!Running(o),
                    editing'[o].at = "idle", editing'[o].done, editing[o].op = "setPaintings",
                    editing[o].alone, editing[o].id = s
             PROVE  Rows!Works(s)' = editing[o].works \cap Rows!IdsOf("painting")
  BY DEF Rows!LeavesThese
<1>1. editing \in [Requests -> Rows!Request]
  BY DEF Rows!TypeOK
<1>2. o = r
  BY <1>1 DEF Rows!Running
<1>3. editing'[o] = q
  BY <1>1, <1>2
<1> QED BY <1>2, <1>3

LEMMA RowsKeep ==
    ASSUME UNCHANGED row
    PROVE  Rows!KeepsEdits
BY DEF Rows!KeepsEdits

\* One row is written, with what the request carries.
LEMMA WriteKeeps ==
    ASSUME Rows!EditsInv, NEW r \in Requests, NEW t \in Rows!Tables, t = editing[r].table,
           NEW i \in Rows!Ids, NEW e \in Rows!Row, Rows!Write(r, i, e),
           UNCHANGED <<used, racedRows>>, editing[r].op \in {"create", "update"},
           IdsGrow, i <= issuedIds'[t],
           \/ <<t, i>> \in Rows!Changes(editing[r])
           \/ /\ row[t][i] = Rows!Absent
              /\ e.series # None => <<"series", e.series>> \in Rows!Changes(editing[r]),
           t \in {"news", "giveaway"} \/ <<t, i>> \notin racedRows =>
               /\ ~Rows!Exists(t, i) => i > issuedIds[t]
               /\ Rows!Exists(t, i) =>
                    \A c \in Rows!Columns :
                        e[c] # row[t][i][c] => Rows!MayChange(r, t, i, c)
    PROVE  Rows!EditsInv' /\ Rows!LeavesEdits
<1>1. /\ row \in [Rows!Tables -> [Rows!Ids -> Rows!Row \cup {Rows!Absent}]]
      /\ issuedIds \in [Rows!Tables -> 0 .. MaxId]
      /\ \A u \in Rows!Tables : \A j \in Rows!IdsOf(u) : j <= issuedIds[u]
      /\ used \subseteq Rows!Tables \X Rows!Ids /\ editing \in [Requests -> Rows!Request]
  BY DEF Rows!EditsInv, Rows!TypeOK
<1>2. PICK done \in BOOLEAN :
        /\ Rows!Answer(r, done)
        /\ row' = IF done THEN [row EXCEPT ![t][i] = e] ELSE row
  BY DEF Rows!Write
<1>3. PICK w : w = [row[t] EXCEPT ![i] = e]
  OBVIOUS
<1>4. /\ w \in [Rows!Ids -> Rows!Row \cup {Rows!Absent}] /\ w[i] = e
      /\ \A j \in Rows!Ids : j # i => w[j] = row[t][j]
  BY <1>1, <1>3
<1>5. done => row' = [row EXCEPT ![t] = w]
  BY <1>2, <1>3
<1>6. /\ row' \in [Rows!Tables -> [Rows!Ids -> Rows!Row \cup {Rows!Absent}]]
      /\ \A u \in Rows!Tables, j \in Rows!Ids :
            row'[u][j] # row[u][j] => u = t /\ j = i /\ row'[u][j] = e
  BY <1>1, <1>2, <1>4, <1>5
<1>7. \A u \in Rows!Tables : \A j \in Rows!IdsOf(u)' : j <= issuedIds'[u]
  <2> SUFFICES ASSUME NEW u \in Rows!Tables, NEW j \in Rows!Ids, row'[u][j] # Rows!Absent
               PROVE  j <= issuedIds'[u]
    BY DEF Rows!IdsOf, Rows!Exists
  <2>1. CASE row'[u][j] = row[u][j]
    <3>1. j <= issuedIds[u]
      BY <1>1, <2>1 DEF Rows!IdsOf, Rows!Exists
    <3>2. issuedIds[u] \in Int /\ issuedIds'[u] \in Int /\ j \in Int
      BY <1>1, NothingIsARow DEF IdsGrow
    <3> QED BY <3>1, <3>2 DEF IdsGrow
  <2>2. CASE row'[u][j] # row[u][j]
    BY <1>6, <2>2
  <2> QED BY <2>1, <2>2
<1>8. Moves(editing[r])
  BY <1>6 DEF Moves
<1>9. Rows!EditsInv'
  BY <1>1, <1>2, <1>6, <1>7, <1>8, EditEnds
<1>10. Rows!KeepsEdits
  <2> SUFFICES ASSUME NEW u \in Rows!Tables, NEW j \in Rows!Ids, row'[u][j] # row[u][j],
                      u \in {"news", "giveaway"} \/ <<u, j>> \notin racedRows
               PROVE  /\ ~Rows!Exists(u, j) /\ j <= issuedIds[u] => row'[u][j] = Rows!Absent
                      /\ \A c \in Rows!Columns :
                          row[u][j] # Rows!Absent /\ row'[u][j] # Rows!Absent
                            /\ row'[u][j][c] # row[u][j][c] =>
                                \E s \in Requests : Rows!MayChange(s, u, j, c)
    BY DEF Rows!KeepsEdits
  <2>1. u = t /\ j = i /\ row'[u][j] = e
    BY <1>6
  <2>2. issuedIds[t] \in Int /\ i \in Int
    BY <1>1, NothingIsARow
  <2>3. ~(~Rows!Exists(u, j) /\ j <= issuedIds[u])
    BY <2>1, <2>2
  <2> QED BY <2>1, <2>3 DEF Rows!Exists
<1>11. Rows!LeavesThese
  <2>1. PICK q : q = [Rows!Idle EXCEPT !.done = done]
    OBVIOUS
  <2> QED BY <2>1, <1>2, OthersSayNothing DEF Rows!Answer, Rows!EditsInv
<1> QED BY <1>9, <1>10, <1>11 DEF Rows!LeavesEdits

LEMMA InsertKeeps ==
    ASSUME Rows!EditsInv, NEW r \in Requests, Rows!insert(r)
    PROVE  Rows!EditsInv' /\ Rows!LeavesEdits
<1>1. PICK q : q = editing[r]
  OBVIOUS
<1>2. q \in Rows!Request /\ Rows!Shaped(q) /\ q.op = "create"
  BY <1>1 DEF Rows!insert, Rows!EditsInv, Rows!TypeOK
<1>3. PICK t : t = q.table
  OBVIOUS
<1>4. PICK i : i = issuedIds[t] + 1
  OBVIOUS
<1>5. t \in Rows!Tables /\ issuedIds \in [Rows!Tables -> 0 .. MaxId] /\ q.entity \in Rows!Row
  BY <1>2, <1>3 DEF Rows!EditsInv, Rows!TypeOK, Rows!Request, Rows!Shaped
<1>6. /\ issuedIds[t] < MaxId /\ issuedIds' = [issuedIds EXCEPT ![t] = @ + 1]
      /\ Rows!Write(r, i, q.entity) /\ UNCHANGED <<used, racedRows>>
  BY <1>1, <1>3, <1>4 DEF Rows!insert
<1>7. i \in Rows!Ids
  BY <1>4, <1>5, <1>6, NothingIsARow DEF Rows!Ids
<1>8. issuedIds' \in [Rows!Tables -> 0 .. MaxId] /\ i <= issuedIds'[t]
  BY <1>4, <1>5, <1>6, NothingIsARow
<1>9. IdsGrow
  BY <1>5, <1>6, <1>8, NothingIsARow DEF IdsGrow
<1>10. row[t][i] = Rows!Absent /\ i > issuedIds[t]
  <2>1. \A j \in Rows!IdsOf(t) : j <= issuedIds[t]
    BY <1>5 DEF Rows!EditsInv, Rows!TypeOK
  <2>2. i > issuedIds[t] /\ ~(i <= issuedIds[t])
    BY <1>4, <1>5, NothingIsARow
  <2> QED BY <1>7, <2>1, <2>2 DEF Rows!IdsOf, Rows!Exists
<1>11. q.entity.series # None => <<"series", q.entity.series>> \in Rows!Changes(q)
  BY <1>2 DEF Rows!Changes
<1> QED BY <1>1, <1>2, <1>3, <1>5, <1>6, <1>7, <1>8, <1>9, <1>10, <1>11, WriteKeeps
        DEF Rows!Exists

LEMMA SaveKeeps ==
    ASSUME Rows!EditsInv, NEW r \in Requests, Rows!save(r)
    PROVE  Rows!EditsInv' /\ Rows!LeavesEdits
<1>1. PICK q : q = editing[r]
  OBVIOUS
<1>2. q \in Rows!Request /\ Rows!Shaped(q) /\ q.op = "update" /\ q.at = "write" /\ Rows!Current(q)
  BY <1>1 DEF Rows!save, Rows!EditsInv, Rows!TypeOK
<1>3. q.table \in Rows!Tables /\ q.id \in Rows!Ids /\ q.entity \in Rows!Row
  BY <1>2 DEF Rows!Request, Rows!Shaped
<1>4. Rows!Write(r, q.id, q.entity) /\ UNCHANGED <<issuedIds, used, racedRows>>
  BY <1>1 DEF Rows!save
<1>5. q.table \notin {"news", "giveaway"}
  BY <1>1 DEF Rows!save, Rows!ServiceOf, Rows!NewsService, Rows!GiveawaysService, Rows!Service
<1>6. <<q.table, q.id>> \in Rows!Changes(q)
  BY <1>2 DEF Rows!Changes
<1>7. Rows!Running(r)
  BY <1>1, <1>2 DEF Rows!Running
<1>8. PICK t \in Rows!Tables, i \in Rows!Ids : t = q.table /\ i = q.id
  BY <1>3
<1>9. ASSUME <<t, i>> \notin racedRows
      PROVE  /\ Rows!Exists(t, i)
             /\ \A c \in Rows!Columns : q.entity[c] # row[t][i][c] => Rows!MayChange(r, t, i, c)
  BY <1>1, <1>2, <1>7, <1>8, <1>9 DEF Rows!Current, Rows!MayChange
<1>10. IdsGrow /\ i <= issuedIds'[t]
  BY <1>2, <1>4, <1>8, SameIds DEF Rows!Current, Rows!EditsInv
<1> QED BY <1>1, <1>2, <1>3, <1>4, <1>5, <1>6, <1>8, <1>9, <1>10, WriteKeeps

\* A step that only ends the request or moves it on.
LEMMA QuietSays ==
    ASSUME Rows!EditsInv, NEW r \in Requests, NEW q, editing' = [editing EXCEPT ![r] = q],
           UNCHANGED row, editing[r].op = "setPaintings" /\ q.at = "idle" => ~q.done
    PROVE  Rows!LeavesEdits
BY RowsKeep, OthersSayNothing DEF Rows!LeavesEdits, Rows!EditsInv

LEMMA RefuseKeeps ==
    ASSUME Rows!EditsInv, NEW r \in Requests, Rows!Answer(r, FALSE),
           UNCHANGED <<row, issuedIds, used, racedRows>>
    PROVE  Rows!EditsInv' /\ Rows!LeavesEdits
<1>1. PICK q : q = [Rows!Idle EXCEPT !.done = FALSE]
  OBVIOUS
<1>2. Rows!LeavesEdits
  BY <1>1, IdleEdit, QuietSays DEF Rows!Answer
<1> QED BY <1>2, QuietEnds

LEMMA BeginKeeps ==
    ASSUME Rows!EditsInv, NEW r \in Requests, NEW q \in Rows!Request, Rows!Begin(r, q),
           UNCHANGED row, q.at # "idle"
    PROVE  Rows!LeavesEdits
<1>1. ASSUME NEW s \in Requests, Rows!Running(s) PROVE editing'[s].at # "idle"
  <2>1. editing[s].at # "idle" /\ editing[r].at = "idle"
    BY <1>1 DEF Rows!Running, Rows!Begin
  <2>2. PICK o \in Rows!Request : o = editing[s]
    BY DEF Rows!EditsInv, Rows!TypeOK
  <2>3. editing'[s] = o \/ editing'[s] = [o EXCEPT !.alone = FALSE]
    BY <2>1, <2>2 DEF Rows!Begin
  <2>4. [o EXCEPT !.alone = FALSE].at = o.at
    BY DEF Rows!Request
  <2> QED BY <2>1, <2>2, <2>3, <2>4
<1> QED BY <1>1, RowsKeep DEF Rows!LeavesEdits, Rows!LeavesThese

LEMMA PatchKeeps ==
    ASSUME Rows!EditsInv, NEW r \in Requests, Rows!patch(r)
    PROVE  Rows!EditsInv' /\ Rows!LeavesEdits
<1>1. PICK q : q = editing[r]
  OBVIOUS
<1>2. q \in Rows!Request /\ Rows!Shaped(q) /\ q.op = "update" /\ q.at = "write" /\ Rows!Current(q)
  BY <1>1 DEF Rows!patch, Rows!EditsInv, Rows!TypeOK
<1>3. PICK t \in Rows!Tables, i \in Rows!Ids : t = q.table /\ i = q.id
  BY <1>2 DEF Rows!Request, Rows!Shaped
<1>4. q.entity \in Rows!Row
  BY <1>2 DEF Rows!Shaped
<1>5. PICK old : old = row[t][i]
  OBVIOUS
<1>6. old \in Rows!Row \cup {Rows!Absent}
  BY <1>3, <1>5 DEF Rows!EditsInv, Rows!TypeOK
<1>7. CASE old = Rows!Absent
  BY <1>1, <1>3, <1>5, <1>7, RefuseKeeps DEF Rows!patch
<1>8. CASE old # Rows!Absent
  <2>1. PICK e : e = [c \in Rows!Columns |-> IF c \in q.sends THEN q.entity[c] ELSE old[c]]
    OBVIOUS
  <2>2. old \in Rows!Row
    BY <1>6, <1>8
  <2>3. e \in Rows!Row
    BY <1>4, <2>1, <2>2 DEF Rows!Row, Rows!Columns
  <2>4. Rows!Write(r, i, e) /\ UNCHANGED <<issuedIds, used, racedRows>>
    BY <1>1, <1>3, <1>5, <1>8, <2>1 DEF Rows!patch
  <2>5. <<t, i>> \in Rows!Changes(q)
    BY <1>2, <1>3 DEF Rows!Changes
  <2>6. Rows!Exists(t, i)
    BY <1>5, <1>8 DEF Rows!Exists
  <2>7. \A c \in Rows!Columns : e[c] # row[t][i][c] => Rows!MayChange(r, t, i, c)
    BY <1>1, <1>2, <1>3, <1>5, <2>1 DEF Rows!MayChange, Rows!Running
  <2>8. IdsGrow /\ i <= issuedIds'[t]
    BY <1>2, <1>3, <2>4, SameIds DEF Rows!Current, Rows!EditsInv
  <2> QED BY <1>1, <1>2, <1>3, <2>3, <2>4, <2>5, <2>6, <2>7, <2>8, WriteKeeps
<1> QED BY <1>7, <1>8

LEMMA LookUpKeeps ==
    ASSUME Rows!EditsInv, NEW r \in Requests, Rows!lookUp(r)
    PROVE  Rows!EditsInv' /\ Rows!LeavesEdits
<1>1. PICK q : q = editing[r]
  OBVIOUS
<1>2. /\ q \in Rows!Request /\ Rows!Shaped(q) /\ q.at = "lookUp" /\ Rows!Current(q)
      /\ UNCHANGED <<row, issuedIds, used, racedRows>>
  BY <1>1 DEF Rows!lookUp, Rows!EditsInv, Rows!TypeOK
<1>3. CASE Rows!Answer(r, FALSE)
  BY <1>2, <1>3, RefuseKeeps
<1>4. CASE Rows!Go(r, "write")
  <2>1. PICK n : n = [q EXCEPT !.at = "write"]
    OBVIOUS
  <2>2. /\ n \in Rows!Request /\ n.at = "write" /\ n.op = q.op /\ n.id = q.id /\ n.table = q.table
        /\ n.entity = q.entity /\ n.sends = q.sends /\ n.alone = q.alone
    BY <1>2, <2>1 DEF Rows!Request
  <2>3. editing' = [editing EXCEPT ![r] = n]
    BY <1>1, <1>4, <2>1 DEF Rows!Go
  <2>4. q.op = "update"
    BY <1>2 DEF Rows!Shaped, Rows!Request
  <2>5. Rows!Shaped(n) /\ Rows!Changes(n) = Rows!Changes(q)
    BY <1>2, <2>2, <2>4 DEF Rows!Shaped, Rows!Changes
  <2>6. Rows!Current(n)' /\ Rows!Released(n)'
    <3>1. Rows!Released(n)'
      BY <2>2, <2>4 DEF Rows!Released
    <3>2. /\ q.id <= issuedIds'[q.table]
          /\ <<q.table, q.id>> \notin racedRows' =>
                /\ Rows!Exists(q.table, q.id)'
                /\ \A c \in Rows!Columns \ q.sends : q.entity[c] = row'[q.table][q.id][c]
      BY <1>2, <2>4 DEF Rows!Current, Rows!Exists
    <3> QED BY <2>2, <3>1, <3>2 DEF Rows!Current
  <2>7. Moves(editing[r]) /\ IdsGrow
    BY <1>2, SameIds DEF Moves, Rows!EditsInv
  <2>8. /\ row' \in [Rows!Tables -> [Rows!Ids -> Rows!Row \cup {Rows!Absent}]]
        /\ used' \subseteq Rows!Tables \X Rows!Ids
        /\ \A t \in Rows!Tables : \A i \in Rows!IdsOf(t)' : i <= issuedIds'[t]
    BY <1>2 DEF Rows!EditsInv, Rows!TypeOK, Rows!IdsOf, Rows!Exists
  <2>9. Rows!EditsInv'
    BY <1>1, <1>2, <2>2, <2>3, <2>5, <2>6, <2>7, <2>8, OneEdit
  <2> QED BY <1>2, <2>2, <2>3, <2>9, QuietSays
<1> QED BY <1>3, <1>4 DEF Rows!lookUp

-----------------------------------------------------------------------------
(* The steps that change the paintings of a series. *)

\* The paintings of a series are written, and maybe one row besides.
LEMMA PaintingsMove ==
    ASSUME Rows!EditsInv, NEW w \in [Rows!Ids -> Rows!Row \cup {Rows!Absent}],
           row' = [row EXCEPT !["painting"] = w],
           \A i \in Rows!Ids :
                /\ w[i] = Rows!Absent <=> row["painting"][i] = Rows!Absent
                /\ w[i].name = row["painting"][i].name /\ w[i].text = row["painting"][i].text,
           NEW r \in Requests, Rows!Running(r), editing[r].table = "series",
           editing[r].op # "update",
           \A i \in Rows!Ids : <<"painting", i>> \in Rows!Changes(editing[r])
    PROVE  /\ row' \in [Rows!Tables -> [Rows!Ids -> Rows!Row \cup {Rows!Absent}]]
           /\ Moves(editing[r]) /\ Rows!KeepsEdits
           /\ \A t \in Rows!Tables : Rows!IdsOf(t)' = Rows!IdsOf(t)
<1>1. row \in [Rows!Tables -> [Rows!Ids -> Rows!Row \cup {Rows!Absent}]]
  BY DEF Rows!EditsInv, Rows!TypeOK
<1>2. /\ row' \in [Rows!Tables -> [Rows!Ids -> Rows!Row \cup {Rows!Absent}]]
      /\ row'["painting"] = w /\ \A t \in Rows!Tables : t # "painting" => row'[t] = row[t]
  BY <1>1, TablesAre
<1>3. Moves(editing[r])
  BY <1>2 DEF Moves
<1>4. Rows!KeepsEdits
  <2> SUFFICES ASSUME NEW t \in Rows!Tables, NEW i \in Rows!Ids, row'[t][i] # row[t][i]
               PROVE  /\ ~Rows!Exists(t, i) => row'[t][i] = Rows!Absent
                      /\ \A c \in Rows!Columns :
                          row'[t][i][c] # row[t][i][c] => Rows!MayChange(r, t, i, c)
    BY DEF Rows!KeepsEdits
  <2>1. t = "painting" /\ row'[t][i] = w[i]
    BY <1>2
  <2>2. ASSUME NEW c \in Rows!Columns, row'[t][i][c] # row[t][i][c]
        PROVE  c = "series"
    <3>1. w[i]["name"] = row["painting"][i]["name"] /\ w[i]["text"] = row["painting"][i]["text"]
      OBVIOUS
    <3> QED BY <2>1, <2>2, <3>1 DEF Rows!Columns
  <2> QED BY <2>1, <2>2 DEF Rows!MayChange, Rows!Exists
<1>5. \A t \in Rows!Tables : Rows!IdsOf(t)' = Rows!IdsOf(t)
  BY <1>2 DEF Rows!IdsOf, Rows!Exists
<1> QED BY <1>2, <1>3, <1>4, <1>5

LEMMA ReleaseKeeps ==
    ASSUME Rows!EditsInv, NEW r \in Requests, Rows!release(r)
    PROVE  Rows!EditsInv' /\ Rows!LeavesEdits
<1>1. PICK q : q = editing[r]
  OBVIOUS
<1>2. /\ q \in Rows!Request /\ Rows!Shaped(q) /\ q.at = "release" /\ Rows!Go(r, "write")
      /\ UNCHANGED <<issuedIds, used, racedRows>>
  BY <1>1 DEF Rows!release, Rows!EditsInv, Rows!TypeOK
<1>3. /\ q.op \in {"remove", "setPaintings"} /\ q.table = "series" /\ q.id \in Rows!Ids
      /\ Rows!Running(r)
  BY <1>1, <1>2 DEF Rows!Shaped, Rows!Request, Rows!Running
<1>4. PICK s \in Rows!Ids : s = q.id
  BY <1>3
<1>5. PICK w : w = Rows!WithoutSeries(s)
  OBVIOUS
<1>6. row' = [row EXCEPT !["painting"] = w]
  BY <1>1, <1>4, <1>5 DEF Rows!release
<1>7. /\ w \in [Rows!Ids -> Rows!Row \cup {Rows!Absent}]
      /\ \A i \in Rows!Ids :
            /\ w[i] = Rows!Absent <=> row["painting"][i] = Rows!Absent
            /\ w[i].name = row["painting"][i].name /\ w[i].text = row["painting"][i].text
            /\ w[i].series # s
  BY <1>5, SeriesIsLeft DEF Rows!EditsInv
<1>8. \A i \in Rows!Ids : <<"painting", i>> \in Rows!Changes(q)
  <2>1. CASE q.op = "remove"
    BY <1>3, <2>1, RemovalChanges
  <2>2. CASE q.op = "setPaintings"
    BY <2>2 DEF Rows!Changes
  <2> QED BY <1>3, <2>1, <2>2
<1>9. /\ row' \in [Rows!Tables -> [Rows!Ids -> Rows!Row \cup {Rows!Absent}]]
      /\ Moves(editing[r]) /\ Rows!KeepsEdits
      /\ \A t \in Rows!Tables : Rows!IdsOf(t)' = Rows!IdsOf(t)
  BY <1>1, <1>3, <1>6, <1>7, <1>8, PaintingsMove
<1>10. PICK n : n = [q EXCEPT !.at = "write"]
  OBVIOUS
<1>11. /\ n \in Rows!Request /\ n.at = "write" /\ n.op = q.op /\ n.id = q.id /\ n.table = q.table
       /\ n.entity = q.entity /\ n.sends = q.sends /\ n.alone = q.alone
  BY <1>2, <1>10 DEF Rows!Request
<1>12. editing' = [editing EXCEPT ![r] = n]
  BY <1>1, <1>2, <1>10 DEF Rows!Go
<1>13. Rows!Shaped(n) /\ Rows!Changes(n) = Rows!Changes(q)
  BY <1>2, <1>3, <1>11 DEF Rows!Shaped, Rows!Changes
<1>14. Rows!Current(n)'
  BY <1>3, <1>11 DEF Rows!Current
<1>15. Rows!Released(n)'
  <2>1. Rows!Works(s)' = {}
    BY <1>6, <1>7, TablesAre DEF Rows!Works, Rows!IdsOf, Rows!EditsInv, Rows!TypeOK
  <2> QED BY <1>4, <1>11, <2>1 DEF Rows!Released
<1>16. IdsGrow /\ used' \subseteq Rows!Tables \X Rows!Ids
  BY <1>2, SameIds DEF Rows!EditsInv, Rows!TypeOK
<1>17. \A t \in Rows!Tables : \A i \in Rows!IdsOf(t)' : i <= issuedIds'[t]
  BY <1>2, <1>9 DEF Rows!EditsInv, Rows!TypeOK
<1>18. Rows!EditsInv'
  BY <1>1, <1>2, <1>9, <1>11, <1>12, <1>13, <1>14, <1>15, <1>16, <1>17, OneEdit
<1>19. Rows!LeavesThese
  BY <1>11, <1>12, OthersSayNothing DEF Rows!EditsInv
<1> QED BY <1>9, <1>18, <1>19 DEF Rows!LeavesEdits

LEMMA AssignKeeps ==
    ASSUME Rows!EditsInv, NEW r \in Requests, Rows!assign(r)
    PROVE  Rows!EditsInv' /\ Rows!LeavesEdits
<1>1. PICK q : q = editing[r]
  OBVIOUS
<1>2. /\ q \in Rows!Request /\ Rows!Shaped(q) /\ Rows!Released(q)
      /\ q.op = "setPaintings" /\ q.at = "write"
      /\ UNCHANGED <<issuedIds, used, racedRows>>
  BY <1>1 DEF Rows!assign, Rows!EditsInv, Rows!TypeOK
<1>3. q.table = "series" /\ q.id \in Rows!Ids /\ Rows!Running(r)
  BY <1>1, <1>2 DEF Rows!Shaped, Rows!Request, Rows!Running
<1>4. PICK s \in Rows!Ids : s = q.id
  BY <1>3
<1>5. CASE ~Rows!Exists("series", s)
  <2>1. Rows!Answer(r, FALSE) /\ UNCHANGED row
    <3>1. Rows!Answer(r, Rows!Exists("series", s)) /\ UNCHANGED row
      BY <1>1, <1>4, <1>5 DEF Rows!assign
    <3>2. Rows!Exists("series", s) = FALSE
      BY <1>5 DEF Rows!Exists
    <3> QED BY <3>1, <3>2
  <2> QED BY <1>2, <2>1, RefuseKeeps
<1>6. CASE Rows!Exists("series", s)
  <2>1. PICK moved : moved = q.works \cap Rows!IdsOf("painting")
    OBVIOUS
  <2>2. PICK old : old = row["painting"]
    OBVIOUS
  <2>3. PICK w : w = [i \in Rows!Ids |-> IF i \in moved THEN [old[i] EXCEPT !.series = s]
                                                        ELSE old[i]]
    OBVIOUS
  <2>4. row' = [row EXCEPT !["painting"] = w]
    <3>1. row' = [row EXCEPT !["painting"] =
                    [i \in Rows!Ids |-> IF i \in moved THEN [@[i] EXCEPT !.series = s] ELSE @[i]]]
      BY <1>1, <1>4, <1>6, <2>1 DEF Rows!assign
    <3> QED BY <2>2, <2>3, <3>1
  <2>5. old \in [Rows!Ids -> Rows!Row \cup {Rows!Absent}]
    BY <2>2, TablesAre DEF Rows!EditsInv, Rows!TypeOK
  <2>6. ASSUME NEW i \in Rows!Ids
        PROVE  /\ w[i] \in Rows!Row \cup {Rows!Absent}
               /\ w[i] = Rows!Absent <=> old[i] = Rows!Absent
               /\ w[i].name = old[i].name /\ w[i].text = old[i].text
               /\ i \in moved => w[i].series = s
               /\ i \notin moved => w[i] = old[i]
    <3>1. CASE i \in moved
      <4>1. PICK e \in Rows!Row : e = old[i]
        BY <2>1, <2>2, <2>5, <3>1 DEF Rows!IdsOf, Rows!Exists
      <4>2. w[i] = [e EXCEPT !.series = s]
        BY <2>3, <3>1, <4>1
      <4> QED BY <3>1, <4>1, <4>2, RowFields, NothingIsARow
    <3>2. CASE i \notin moved
      BY <2>3, <2>5, <3>2
    <3> QED BY <3>1, <3>2
  <2>7. w \in [Rows!Ids -> Rows!Row \cup {Rows!Absent}]
    BY <2>3, <2>6
  <2>8. \A i \in Rows!Ids : <<"painting", i>> \in Rows!Changes(q)
    BY <1>2 DEF Rows!Changes
  <2>9. /\ row' \in [Rows!Tables -> [Rows!Ids -> Rows!Row \cup {Rows!Absent}]]
        /\ Moves(editing[r]) /\ Rows!KeepsEdits
        /\ \A t \in Rows!Tables : Rows!IdsOf(t)' = Rows!IdsOf(t)
    BY <1>1, <1>2, <1>3, <2>2, <2>4, <2>6, <2>7, <2>8, PaintingsMove
  <2>10. IdsGrow /\ used' \subseteq Rows!Tables \X Rows!Ids
    BY <1>2, SameIds DEF Rows!EditsInv, Rows!TypeOK
  <2>11. \A t \in Rows!Tables : \A i \in Rows!IdsOf(t)' : i <= issuedIds'[t]
    BY <1>2, <2>9 DEF Rows!EditsInv, Rows!TypeOK
  <2>12. Rows!Answer(r, TRUE)
    <3>1. Rows!Answer(r, Rows!Exists("series", s))
      BY <1>1, <1>4 DEF Rows!assign
    <3>2. Rows!Exists("series", s) = TRUE
      BY <1>6 DEF Rows!Exists
    <3> QED BY <3>1, <3>2
  <2>13. Rows!EditsInv'
    BY <1>2, <2>9, <2>10, <2>11, <2>12, EditEnds
  <2>14. q.alone => Rows!Works(s)' = moved
    <3> SUFFICES ASSUME q.alone PROVE Rows!Works(s)' = moved
      OBVIOUS
    <3>1. Rows!Works(s) = {}
      BY <1>2, <1>4 DEF Rows!Released
    <3>2. row'["painting"] = w
      BY <2>4, TablesAre DEF Rows!EditsInv, Rows!TypeOK
    <3>3. Rows!IdsOf("painting")' = Rows!IdsOf("painting")
      BY <2>9, TablesAre
    <3>4. Rows!Works(s)' = {i \in Rows!IdsOf("painting") : w[i].series = s}
      BY <3>2, <3>3 DEF Rows!Works
    <3>5. Rows!IdsOf("painting") \subseteq Rows!Ids
      BY DEF Rows!IdsOf
    <3>6. \A i \in Rows!IdsOf("painting") : old[i].series # s
      BY <2>2, <3>1 DEF Rows!Works
    <3> QED BY <2>1, <2>6, <3>4, <3>5, <3>6
  <2>15. Rows!LeavesThese
    <3>1. PICK n : n = [Rows!Idle EXCEPT !.done = TRUE]
      OBVIOUS
    <3>2. editing' = [editing EXCEPT ![r] = n]
      BY <2>12, <3>1 DEF Rows!Answer
    <3>3. ASSUME NEW z \in Rows!Ids, editing[r].alone, editing[r].id = z
          PROVE  Rows!Works(z)' = editing[r].works \cap Rows!IdsOf("painting")
      <4>1. z = s /\ q.alone
        BY <1>1, <1>4, <3>3
      <4> QED BY <1>1, <2>1, <2>14, <4>1
    <3> QED BY <3>2, <3>3, OthersSayNothing DEF Rows!EditsInv
  <2> QED BY <2>9, <2>13, <2>15 DEF Rows!LeavesEdits
<1> QED BY <1>5, <1>6

LEMMA DeleteKeeps ==
    ASSUME Rows!EditsInv, NEW r \in Requests, Rows!delete(r)
    PROVE  Rows!EditsInv' /\ Rows!LeavesEdits
<1>1. PICK q : q = editing[r]
  OBVIOUS
<1>2. /\ q \in Rows!Request /\ Rows!Shaped(q) /\ q.op = "remove" /\ q.at = "write"
      /\ UNCHANGED <<issuedIds, used, racedRows>>
  BY <1>1 DEF Rows!delete, Rows!EditsInv, Rows!TypeOK
<1>3. PICK t \in Rows!Tables, i \in Rows!Ids : t = q.table /\ i = q.id
  BY <1>2 DEF Rows!Shaped, Rows!Request
<1>4. <<t, i>> \in Rows!Changes(q) /\ Rows!Running(r)
  BY <1>1, <1>2, <1>3, RemovalChanges DEF Rows!Running
<1>5. CASE <<t, i>> \in used
  <2>1. Rows!Answer(r, FALSE) /\ UNCHANGED row
    BY <1>1, <1>3, <1>5 DEF Rows!delete
  <2> QED BY <1>2, <2>1, RefuseKeeps
<1>6. CASE <<t, i>> \notin used
  <2>1. Rows!Answer(r, TRUE)
    BY <1>1, <1>3, <1>6 DEF Rows!delete
  <2>2. IdsGrow /\ used' \subseteq Rows!Tables \X Rows!Ids
    BY <1>2, SameIds DEF Rows!EditsInv, Rows!TypeOK
  <2>3. /\ row \in [Rows!Tables -> [Rows!Ids -> Rows!Row \cup {Rows!Absent}]]
        /\ \A u \in Rows!Tables : \A j \in Rows!IdsOf(u) : j <= issuedIds[u]
    BY DEF Rows!EditsInv, Rows!TypeOK
  <2>4. Rows!LeavesThese
    <3>1. PICK n : n = [Rows!Idle EXCEPT !.done = TRUE]
      OBVIOUS
    <3>2. editing' = [editing EXCEPT ![r] = n]
      BY <2>1, <3>1 DEF Rows!Answer
    <3> QED BY <1>1, <1>2, <3>2, OthersSayNothing DEF Rows!EditsInv
  <2>5. SUFFICES /\ row' \in [Rows!Tables -> [Rows!Ids -> Rows!Row \cup {Rows!Absent}]]
                 /\ Moves(q) /\ Rows!KeepsEdits
                 /\ \A u \in Rows!Tables : Rows!IdsOf(u)' \subseteq Rows!IdsOf(u)
    BY <1>1, <1>2, <2>1, <2>2, <2>3, <2>4, EditEnds DEF Rows!LeavesEdits
  <2>6. CASE t # "series"
    <3>1. row' = [row EXCEPT ![t][i] = Rows!Absent]
      BY <1>1, <1>3, <1>6, <2>6 DEF Rows!delete
    <3>2. PICK w : w = [row[t] EXCEPT ![i] = Rows!Absent]
      OBVIOUS
    <3>3. row' = [row EXCEPT ![t] = w]
      BY <3>1, <3>2
    <3>4. /\ w \in [Rows!Ids -> Rows!Row \cup {Rows!Absent}] /\ w[i] = Rows!Absent
          /\ \A j \in Rows!Ids : j # i => w[j] = row[t][j]
      BY <2>3, <3>2
    <3>5. /\ row' \in [Rows!Tables -> [Rows!Ids -> Rows!Row \cup {Rows!Absent}]]
          /\ \A u \in Rows!Tables, j \in Rows!Ids :
                row'[u][j] # row[u][j] => u = t /\ j = i /\ row'[u][j] = Rows!Absent
      BY <2>3, <3>3, <3>4
    <3>6. Moves(q)
      BY <1>4, <3>5 DEF Moves
    <3>7. Rows!KeepsEdits
      BY <3>5 DEF Rows!KeepsEdits
    <3>8. \A u \in Rows!Tables : Rows!IdsOf(u)' \subseteq Rows!IdsOf(u)
      BY <3>5 DEF Rows!IdsOf, Rows!Exists
    <3> QED BY <3>5, <3>6, <3>7, <3>8
  <2>7. CASE t = "series"
    <3>1. PICK w : w = Rows!WithoutSeries(i)
      OBVIOUS
    <3>2. row' = [row EXCEPT !["series"][i] = Rows!Absent, !["painting"] = w]
      BY <1>1, <1>3, <1>6, <2>7, <3>1 DEF Rows!delete
    <3>3. PICK v : v = [row["series"] EXCEPT ![i] = Rows!Absent]
      OBVIOUS
    <3>4. /\ v \in [Rows!Ids -> Rows!Row \cup {Rows!Absent}] /\ v[i] = Rows!Absent
          /\ \A j \in Rows!Ids : j # i => v[j] = row["series"][j]
      BY <2>3, <3>3, TablesAre
    <3>5. /\ w \in [Rows!Ids -> Rows!Row \cup {Rows!Absent}]
          /\ \A j \in Rows!Ids :
                /\ w[j] = Rows!Absent <=> row["painting"][j] = Rows!Absent
                /\ w[j].name = row["painting"][j].name /\ w[j].text = row["painting"][j].text
      BY <3>1, SeriesIsLeft DEF Rows!EditsInv
    <3>6. row' = [row EXCEPT !["series"] = v, !["painting"] = w]
      BY <3>2, <3>3
    <3>7. /\ row' \in [Rows!Tables -> [Rows!Ids -> Rows!Row \cup {Rows!Absent}]]
          /\ row'["series"] = v /\ row'["painting"] = w
          /\ \A u \in Rows!Tables : u \notin {"series", "painting"} => row'[u] = row[u]
      BY <2>3, <3>4, <3>5, <3>6, TablesAre
    <3>8. \A j \in Rows!Ids : <<"painting", j>> \in Rows!Changes(q)
      BY <1>2, <1>3, <2>7, RemovalChanges
    <3>9. Moves(q)
      BY <1>4, <2>7, <3>4, <3>7, <3>8 DEF Moves
    <3>10. Rows!KeepsEdits
      <4> SUFFICES ASSUME NEW u \in Rows!Tables, NEW j \in Rows!Ids, row'[u][j] # row[u][j]
                   PROVE  /\ ~Rows!Exists(u, j) => row'[u][j] = Rows!Absent
                          /\ row'[u][j] # Rows!Absent =>
                                \A c \in Rows!Columns :
                                    row'[u][j][c] # row[u][j][c] => Rows!MayChange(r, u, j, c)
        BY DEF Rows!KeepsEdits
      <4>1. CASE u = "series"
        BY <3>4, <3>7, <4>1
      <4>2. CASE u = "painting"
        <5>1. ASSUME NEW c \in Rows!Columns, row'[u][j][c] # row[u][j][c]
              PROVE  c = "series"
          <6>1. w[j]["name"] = row["painting"][j]["name"] /\ w[j]["text"] = row["painting"][j]["text"]
            BY <3>5
          <6> QED BY <3>7, <4>2, <5>1, <6>1 DEF Rows!Columns
        <5>2. editing[r].table = "series" /\ editing[r].op # "update"
          BY <1>1, <1>2, <1>3, <2>7
        <5> QED BY <1>4, <3>5, <3>7, <4>2, <5>1, <5>2 DEF Rows!MayChange, Rows!Exists
      <4>3. CASE u \notin {"series", "painting"}
        BY <3>7, <4>3
      <4> QED BY <4>1, <4>2, <4>3
    <3>11. \A u \in Rows!Tables : Rows!IdsOf(u)' \subseteq Rows!IdsOf(u)
      BY <3>4, <3>5, <3>7 DEF Rows!IdsOf, Rows!Exists
    <3> QED BY <3>7, <3>9, <3>10, <3>11
  <2> QED BY <2>6, <2>7
<1> QED BY <1>5, <1>6

-----------------------------------------------------------------------------
(* The requests that begin. *)

\* What is refused, and what begins with what it was sent.
LEMMA RefusedAtOnce ==
    ASSUME Rows!EditsInv, NEW r \in Requests, Rows!Refuse(r), UNCHANGED <<row, issuedIds, used>>
    PROVE  Rows!EditsInv' /\ Rows!LeavesEdits
BY RefuseKeeps DEF Rows!Refuse

LEMMA CreateKeeps ==
    ASSUME Rows!EditsInv, NEW r \in Requests, NEW t \in Rows!Tables, NEW e \in Rows!Row,
           Rows!create(r, t, e)
    PROVE  Rows!EditsInv' /\ Rows!LeavesEdits
<1>1. PICK q : q = [Rows!Idle EXCEPT !.op = "create", !.at = "write", !.table = t, !.entity = e]
  OBVIOUS
<1>2. /\ q \in Rows!Request /\ q.op = "create" /\ q.at = "write" /\ q.entity = e
  BY <1>1 DEF Rows!Idle, Rows!Request
<1>3. Rows!Shaped(q)
  BY <1>2 DEF Rows!Shaped
<1>4. UNCHANGED <<row, issuedIds, used>> /\ (Rows!Refuse(r) \/ Rows!Begin(r, q))
  BY <1>1 DEF Rows!create
<1>5. CASE Rows!Begin(r, q)
  BY <1>2, <1>3, <1>4, <1>5, EditBegins, BeginKeeps
<1> QED BY <1>4, <1>5, RefusedAtOnce

LEMMA UpdateKeeps ==
    ASSUME Rows!EditsInv, NEW r \in Requests, NEW t \in Rows!Tables, NEW i \in Rows!Ids,
           NEW sends \in SUBSET Rows!Columns, NEW e \in Rows!Row,
           Rows!update(r, t, i, sends, e)
    PROVE  Rows!EditsInv' /\ Rows!LeavesEdits
<1>1. UNCHANGED <<row, issuedIds, used>> /\ i <= issuedIds[t]
  BY DEF Rows!update
<1>2. CASE ~Rows!Exists(t, i)
  BY <1>1, <1>2, RefusedAtOnce DEF Rows!update
<1>3. CASE Rows!Exists(t, i)
  <2>1. PICK f : f = [c \in Rows!Columns |-> IF c \in sends THEN e[c] ELSE row[t][i][c]]
    OBVIOUS
  <2>2. PICK q : q = [Rows!Idle EXCEPT !.op = "update", !.table = t, !.id = i, !.sends = sends,
                                       !.entity = f]
    OBVIOUS
  <2>3. PICK old \in Rows!Row : old = row[t][i]
    BY <1>3 DEF Rows!EditsInv, Rows!TypeOK, Rows!Exists
  <2>4. f \in Rows!Row
    BY <2>1, <2>3 DEF Rows!Row, Rows!Columns
  <2>5. /\ q \in Rows!Request /\ q.op = "update" /\ q.id = i /\ q.table = t /\ q.sends = sends
        /\ q.entity = f
    BY <2>2, <2>4 DEF Rows!Idle, Rows!Request
  <2>6. PICK at \in {"lookUp", "write"} : Rows!Begin(r, [q EXCEPT !.at = at])
    BY <1>3, <2>1, <2>2 DEF Rows!update
  <2>7. PICK n : n = [q EXCEPT !.at = at]
    OBVIOUS
  <2>8. /\ n \in Rows!Request /\ n.op = "update" /\ n.id = i /\ n.table = t /\ n.sends = sends
        /\ n.entity = f /\ n.at = at
    BY <2>5, <2>7 DEF Rows!Request
  <2>9. Rows!Shaped(n) /\ n.at # "idle"
    BY <2>4, <2>8, NothingIsARow DEF Rows!Shaped
  <2>10. \A c \in Rows!Columns \ n.sends : n.entity[c] = row[n.table][n.id][c]
    BY <2>1, <2>8
  <2>11. Rows!Begin(r, n)
    BY <2>6, <2>7
  <2> QED BY <1>1, <1>3, <2>8, <2>9, <2>10, <2>11, EditBegins, BeginKeeps
<1> QED BY <1>2, <1>3

LEMMA RemoveKeeps ==
    ASSUME Rows!EditsInv, NEW r \in Requests, NEW t \in Rows!Tables, NEW i \in Rows!Ids,
           Rows!remove(r, t, i)
    PROVE  Rows!EditsInv' /\ Rows!LeavesEdits
<1>1. UNCHANGED <<row, issuedIds, used>>
  BY DEF Rows!remove
<1>2. CASE ~Rows!Exists(t, i)
  BY <1>1, <1>2, RefusedAtOnce DEF Rows!remove
<1>3. CASE Rows!Exists(t, i)
  <2>1. PICK at : at = IF t = "series" THEN "release" ELSE "write"
    OBVIOUS
  <2>2. PICK q : q = [Rows!Idle EXCEPT !.op = "remove", !.table = t, !.id = i]
    OBVIOUS
  <2>3. q \in Rows!Request /\ q.op = "remove" /\ q.id = i /\ q.table = t
    BY <2>2 DEF Rows!Idle, Rows!Request
  <2>4. PICK n : n = [q EXCEPT !.at = at]
    OBVIOUS
  <2>5. n \in Rows!Request /\ n.op = "remove" /\ n.id = i /\ n.table = t /\ n.at = at
    BY <2>1, <2>3, <2>4 DEF Rows!Request
  <2>6. Rows!Begin(r, n)
    BY <1>3, <2>1, <2>2, <2>4 DEF Rows!remove
  <2>7. Rows!Shaped(n) /\ n.at # "idle"
    BY <2>1, <2>5, NothingIsARow DEF Rows!Shaped
  <2> QED BY <1>1, <2>5, <2>6, <2>7, EditBegins, BeginKeeps
<1> QED BY <1>2, <1>3

LEMMA SetPaintingsKeeps ==
    ASSUME Rows!EditsInv, NEW r \in Requests, NEW s \in Rows!Ids, NEW works \in SUBSET Rows!Ids,
           Rows!setPaintings(r, s, works)
    PROVE  Rows!EditsInv' /\ Rows!LeavesEdits
<1>1. PICK q : q = [Rows!Idle EXCEPT !.op = "setPaintings", !.at = "release", !.table = "series",
                                     !.id = s, !.works = works]
  OBVIOUS
<1>2. /\ q \in Rows!Request /\ q.op = "setPaintings" /\ q.at = "release" /\ q.table = "series"
      /\ q.id = s
  BY <1>1, TablesAre DEF Rows!Idle, Rows!Request
<1>3. Rows!Shaped(q)
  BY <1>2, NothingIsARow DEF Rows!Shaped
<1>4. UNCHANGED <<row, issuedIds, used>> /\ (Rows!Refuse(r) \/ Rows!Begin(r, q))
  BY <1>1 DEF Rows!setPaintings
<1>5. CASE Rows!Begin(r, q)
  BY <1>2, <1>3, <1>4, <1>5, EditBegins, BeginKeeps
<1> QED BY <1>4, <1>5, RefusedAtOnce

LEMMA UseKeeps ==
    ASSUME Rows!EditsInv, NEW t \in Rows!Tables, NEW i \in Rows!Ids, Rows!Use(t, i)
    PROVE  Rows!EditsInv' /\ Rows!LeavesEdits
<1>1. used' \subseteq Rows!Tables \X Rows!Ids /\ UNCHANGED <<row, issuedIds, editing, racedRows>>
  BY DEF Rows!Use, Rows!EditsInv, Rows!TypeOK
<1>2. Rows!TypeOK' /\ Rows!Apart'
  BY <1>1 DEF Rows!EditsInv, Rows!TypeOK, Rows!Apart, Rows!IdsOf, Rows!Exists
<1>3. ASSUME NEW s \in Requests
      PROVE  (Rows!Shaped(editing[s]) /\ Rows!Current(editing[s]) /\ Rows!Released(editing[s]))'
  <2>1. Rows!Shaped(editing[s]) /\ Rows!Current(editing[s]) /\ Rows!Released(editing[s])
    BY DEF Rows!EditsInv
  <2> QED BY <1>1, <2>1 DEF Rows!Current, Rows!Released, Rows!Works, Rows!IdsOf, Rows!Exists
<1>4. Rows!LeavesEdits
  BY <1>1, RowsKeep DEF Rows!LeavesEdits, Rows!LeavesThese, Rows!Running
<1> QED BY <1>2, <1>3, <1>4 DEF Rows!EditsInv

LEMMA CrashKeeps ==
    ASSUME Rows!EditsInv, Rows!Crash
    PROVE  Rows!EditsInv' /\ Rows!LeavesEdits
<1>1. PICK q : q = Rows!Idle
  OBVIOUS
<1>2. /\ q \in Rows!Request /\ q.op = "none" /\ q.at = "idle" /\ q.done = FALSE
      /\ Rows!Shaped(q) /\ Rows!Changes(q) = {}
  BY <1>1, TablesAre DEF Rows!Idle, Rows!Request, Rows!Shaped, Rows!Changes
<1>3. editing' = [s \in Requests |-> q] /\ UNCHANGED <<row, issuedIds, used, racedRows>>
  BY <1>1 DEF Rows!Crash
<1>4. Rows!TypeOK'
  BY <1>2, <1>3 DEF Rows!EditsInv, Rows!TypeOK, Rows!IdsOf, Rows!Exists
<1>5. \A s \in Requests :
        (Rows!Shaped(editing[s]) /\ Rows!Current(editing[s]) /\ Rows!Released(editing[s]))'
  BY <1>2, <1>3 DEF Rows!Current, Rows!Released
<1>6. Rows!Apart'
  BY <1>2, <1>3 DEF Rows!Apart
<1>7. Rows!LeavesEdits
  BY <1>2, <1>3, RowsKeep DEF Rows!LeavesEdits, Rows!LeavesThese
<1> QED BY <1>4, <1>5, <1>6, <1>7 DEF Rows!EditsInv

LEMMA EditStepKeeps ==
    ASSUME Rows!EditsInv, NEW r \in Requests, Rows!Step(r)
    PROVE  Rows!EditsInv' /\ Rows!LeavesEdits
BY InsertKeeps, LookUpKeeps, SaveKeeps, PatchKeeps, DeleteKeeps, ReleaseKeeps, AssignKeeps
   DEF Rows!Step

-----------------------------------------------------------------------------
(* The settings.  A copy that nobody has saved over is the row, but for     *)
(* what the call is there to change (Timely).                               *)

LEMMA SavedIsThere == Chat!NoRow \notin Chat!Row
BY DEF Chat!NoRow, Chat!Row

\* A call goes on, and not to the save.
LEMMA MovedOn ==
    ASSUME Chat!LinksType, Chat!TimelyInv, NEW r \in Chat!Processes, NEW q, q.at # "save",
           request' = [request EXCEPT ![r] = q], UNCHANGED settings
    PROVE  Chat!TimelyInv' /\ Chat!LeavesSettings
<1>1. ASSUME NEW s \in Chat!Processes PROVE Chat!Timely(request[s])'
  <2>1. CASE s = r
    BY <2>1 DEF Chat!Timely, Chat!LinksType
  <2>2. CASE s # r
    <3>1. request'[s] = request[s] /\ Chat!Timely(request[s])
      BY <2>2 DEF Chat!TimelyInv
    <3> QED BY <3>1 DEF Chat!Timely
  <2> QED BY <2>1, <2>2
<1> QED BY <1>1 DEF Chat!TimelyInv, Chat!LeavesSettings

LEMMA WentOn ==
    ASSUME Chat!LinksType, Chat!TimelyInv, NEW r \in Chat!Processes, NEW at, at # "save",
           Chat!Go(r, at), UNCHANGED settings
    PROVE  Chat!TimelyInv' /\ Chat!LeavesSettings
<1>1. PICK q : q = [request[r] EXCEPT !.at = at]
  OBVIOUS
<1>2. request[r] \in Chat!Call
  BY DEF Chat!LinksType
<1>3. q.at # "save"
  BY <1>1, <1>2 DEF Chat!Call
<1>4. request' = [request EXCEPT ![r] = q]
  BY <1>1 DEF Chat!Go, Chat!LinksType
<1> QED BY <1>3, <1>4, MovedOn

LEMMA QuietSettings ==
    ASSUME Chat!TimelyInv, UNCHANGED <<settings, request>>
    PROVE  Chat!TimelyInv' /\ Chat!LeavesSettings
<1>1. ASSUME NEW s \in Chat!Processes PROVE Chat!Timely(request[s])'
  <2>1. Chat!Timely(request[s])
    BY DEF Chat!TimelyInv
  <2> QED BY <2>1 DEF Chat!Timely
<1> QED BY <1>1 DEF Chat!TimelyInv, Chat!LeavesSettings

\* What a call has once it has the row.
LEMMA CopyIsTaken ==
    ASSUME Chat!LinksType, NEW r \in Chat!Processes, NEW saved,
           NEW calls, calls = Chat!WithRow(r, saved)
    PROVE  \E q : /\ calls = [request EXCEPT ![r] = q]
                  /\ q.at \in {"idle", "save"}
                  /\ q.at = "save" =>
                        \A c \in Chat!Columns \ q.sends : q.row[c] = saved[c]
<1>1. PICK p : p = request[r]
  OBVIOUS
<1>2. p \in Chat!Call
  BY <1>1 DEF Chat!LinksType
<1>3. CASE calls = [request EXCEPT ![r] = Chat!Idle]
  BY <1>3, BlankCall
<1>4. CASE calls = [request EXCEPT ![r].at = "save", ![r].row = Chat!Edited(p, saved)]
  <2>1. PICK edited : edited = Chat!Edited(p, saved)
    OBVIOUS
  <2>2. PICK q : q = [p EXCEPT !.at = "save", !.row = edited]
    OBVIOUS
  <2>3. q.at = "save" /\ q.row = edited /\ q.sends = p.sends
    BY <1>2, <2>2 DEF Chat!Call
  <2>4. calls = [request EXCEPT ![r] = q]
    BY <1>1, <1>4, <2>1, <2>2 DEF Chat!LinksType
  <2>5. \A c \in Chat!Columns \ p.sends : edited[c] = saved[c]
    BY <2>1 DEF Chat!Edited
  <2> QED BY <2>3, <2>4, <2>5
<1> QED BY <1>1, <1>3, <1>4 DEF Chat!WithRow

\* The row is there, or comes with this step.
LEMMA CopyStep ==
    ASSUME Chat!LinksType, Chat!TimelyInv, NEW r \in Chat!Processes, NEW saved \in Chat!Row,
           request' = Chat!WithRow(r, saved), settings' = saved,
           settings \in {Chat!NoRow, saved}
    PROVE  Chat!TimelyInv' /\ Chat!LeavesSettings
<1>1. PICK q : /\ request' = [request EXCEPT ![r] = q]
               /\ q.at \in {"idle", "save"}
               /\ q.at = "save" => \A c \in Chat!Columns \ q.sends : q.row[c] = saved[c]
  BY CopyIsTaken
<1>2. saved # Chat!NoRow
  BY SavedIsThere
<1>3. ASSUME NEW s \in Chat!Processes PROVE Chat!Timely(request[s])'
  <2>1. CASE s = r
    <3>1. request'[s] = q
      BY <1>1, <2>1 DEF Chat!LinksType
    <3> QED BY <1>1, <1>2, <3>1 DEF Chat!Timely
  <2>2. CASE s # r
    <3>1. request'[s] = request[s] /\ Chat!Timely(request[s])
      BY <1>1, <2>2 DEF Chat!TimelyInv
    <3> QED BY <1>2, <3>1 DEF Chat!Timely
  <2> QED BY <2>1, <2>2
<1> QED BY <1>3 DEF Chat!TimelyInv, Chat!LeavesSettings

\* What is saved makes the others' copies old ones.
LEMMA SavedOver ==
    ASSUME Chat!LinksType, NEW r \in Chat!Processes, NEW calls, NEW q,
           calls = [request EXCEPT ![r] = q], request' = Chat!Outdated(calls, r),
           q.at \in {"idle", "save"}, settings' \in Chat!Row,
           q.at = "save" => \A c \in Chat!Columns \ q.sends : q.row[c] = settings'[c]
    PROVE  Chat!TimelyInv'
<1>1. settings' # Chat!NoRow
  BY SavedIsThere
<1>2. ASSUME NEW s \in Chat!Processes PROVE Chat!Timely(request[s])'
  <2>1. CASE s = r
    <3>1. calls[s] = q
      BY <2>1 DEF Chat!LinksType
    <3>2. request'[s] = q
      BY <2>1, <3>1 DEF Chat!Outdated
    <3> QED BY <1>1, <3>2 DEF Chat!Timely
  <2>2. CASE s # r
    <3>1. PICK o \in Chat!Call : o = request[s]
      BY DEF Chat!LinksType
    <3>2. calls[s] = o
      BY <2>2, <3>1 DEF Chat!LinksType
    <3>3. request'[s] = IF o.at \in {"save", "overwrite"} THEN [o EXCEPT !.late = TRUE] ELSE o
      <4>1. request'[s] = IF s # r /\ calls[s].at \in {"save", "overwrite"}
                          THEN [calls[s] EXCEPT !.late = TRUE] ELSE calls[s]
        BY DEF Chat!Outdated
      <4> QED BY <2>2, <3>2, <4>1
    <3>4. [o EXCEPT !.late = TRUE].late
      BY DEF Chat!Call
    <3> QED BY <3>3, <3>4 DEF Chat!Timely
  <2> QED BY <2>1, <2>2
<1> QED BY <1>2 DEF Chat!TimelyInv

LEMMA OverwriteKeeps ==
    ASSUME Chat!LinksType, NEW r \in Chat!Processes, Chat!overwriteRow(r)
    PROVE  Chat!TimelyInv' /\ Chat!LeavesSettings
<1>1. PICK calls : calls = Chat!WithRow(r, Chat!Default)
  OBVIOUS
<1>2. PICK q : /\ calls = [request EXCEPT ![r] = q]
               /\ q.at \in {"idle", "save"}
               /\ q.at = "save" => \A c \in Chat!Columns \ q.sends : q.row[c] = Chat!Default[c]
  BY <1>1, CopyIsTaken
<1>3. /\ request' = Chat!Outdated(calls, r) /\ settings' = Chat!Default
      /\ request[r].at = "overwrite"
  BY <1>1 DEF Chat!overwriteRow
<1>4. Chat!TimelyInv'
  BY <1>2, <1>3, SavedOver, BlankCall
<1> QED BY <1>3, <1>4 DEF Chat!LeavesSettings

LEMMA CopySaved ==
    ASSUME Chat!LinksType, Chat!TimelyInv, NEW r \in Chat!Processes, Chat!save(r)
    PROVE  Chat!TimelyInv' /\ Chat!LeavesSettings
<1>1. PICK calls : calls = [request EXCEPT ![r] = Chat!Idle]
  OBVIOUS
<1>2. PICK q \in Chat!Call : q = request[r]
  BY DEF Chat!LinksType
<1>3. request' = Chat!Outdated(calls, r) /\ settings' = q.row /\ q.at = "save" /\ q.row \in Chat!Row
  BY <1>1, <1>2 DEF Chat!save, Chat!Call
<1>4. Chat!TimelyInv'
  BY <1>1, <1>3, SavedOver, BlankCall
<1>5. Chat!Timely(q)
  BY <1>2 DEF Chat!TimelyInv
<1> QED BY <1>2, <1>3, <1>4, <1>5 DEF Chat!LeavesSettings, Chat!Timely

LEMMA SettingsStep ==
    ASSUME Chat!LinksType, Chat!TimelyInv, NEW r \in Chat!Processes, Chat!Step(r)
    PROVE  Chat!TimelyInv' /\ Chat!LeavesSettings
<1>1. CASE Chat!findRow(r)
  <2>1. UNCHANGED settings
    BY <1>1 DEF Chat!findRow
  <2>2. CASE settings = Chat!NoRow
    BY <1>1, <2>1, <2>2, WentOn DEF Chat!findRow
  <2>3. CASE settings # Chat!NoRow
    <3>1. PICK saved \in Chat!Row : saved = settings
      BY <2>3 DEF Chat!LinksType
    <3>2. request' = Chat!WithRow(r, saved)
      BY <1>1, <2>3, <3>1 DEF Chat!findRow
    <3> QED BY <2>1, <3>1, <3>2, CopyStep
  <2> QED BY <2>2, <2>3
<1>2. CASE Chat!createDefaultRow(r)
  <2>1. PICK at : at = IF settings = Chat!NoRow THEN "insert" ELSE "overwrite"
    OBVIOUS
  <2>2. Chat!Go(r, at) /\ at # "save" /\ UNCHANGED settings
    BY <1>2, <2>1 DEF Chat!createDefaultRow
  <2> QED BY <2>2, WentOn
<1>3. CASE Chat!insertRow(r)
  <2>1. PICK saved : saved = settings'
    OBVIOUS
  <2>2. saved \in Chat!Row /\ settings \in {Chat!NoRow, saved} /\ request' = Chat!WithRow(r, saved)
    BY <1>3, <2>1, BlankCall DEF Chat!insertRow, Chat!LinksType
  <2> QED BY <2>1, <2>2, CopyStep
<1>4. CASE Chat!findByTelegramChatId(r)
  <2>1. PICK at \in {"link", "drop"} : Chat!Go(r, at)
    BY <1>4 DEF Chat!findByTelegramChatId
  <2>2. UNCHANGED settings
    BY <1>4 DEF Chat!findByTelegramChatId
  <2> QED BY <2>1, <2>2, WentOn
<1>5. CASE Chat!link(r)
  BY <1>5, WentOn DEF Chat!link
<1>6. CASE Chat!drop(r)
  BY <1>6, MovedOn, BlankCall DEF Chat!drop, Chat!Done
<1> QED BY <1>1, <1>2, <1>3, <1>4, <1>5, <1>6, OverwriteKeeps, CopySaved DEF Chat!Step

LEMMA SettingsAsked ==
    ASSUME Chat!LinksType, Chat!TimelyInv, NEW r \in Chat!Processes, NEW op, NEW sends, NEW set,
           Chat!AskSettings(r, op, sends, set)
    PROVE  Chat!TimelyInv' /\ Chat!LeavesSettings
<1>1. PICK q : q = [Chat!Idle EXCEPT !.op = op, !.at = "get", !.sends = sends, !.set = set]
  OBVIOUS
<1>2. q.at = "get"
  BY <1>1 DEF Chat!Idle
<1>3. request' = [request EXCEPT ![r] = q] /\ UNCHANGED settings
  BY <1>1 DEF Chat!AskSettings
<1> QED BY <1>2, <1>3, MovedOn

LEMMA CodeAsked ==
    ASSUME Chat!LinksType, Chat!TimelyInv, NEW r \in Requests, NEW u \in Users, NEW code,
           Chat!redeemTelegramPendingCode(r, u, code)
    PROVE  Chat!TimelyInv' /\ Chat!LeavesSettings
<1>1. PICK c \in Chats : request' = [request EXCEPT ![r] =
        [Chat!Idle EXCEPT !.op = "link", !.at = "check", !.user = u, !.chat = c, !.code = code]]
  BY DEF Chat!redeemTelegramPendingCode
<1>2. PICK q : q = [Chat!Idle EXCEPT !.op = "link", !.at = "check", !.user = u, !.chat = c,
                                     !.code = code]
  OBVIOUS
<1>3. q.at = "check"
  BY <1>2 DEF Chat!Idle
<1>4. request' = [request EXCEPT ![r] = q] /\ UNCHANGED settings /\ r \in Chat!Processes
  BY <1>1, <1>2 DEF Chat!redeemTelegramPendingCode, Chat!Processes
<1> QED BY <1>3, <1>4, MovedOn

LEMMA BotSteps ==
    ASSUME Chat!LinksType, Chat!TimelyInv, Chat!BotStep
    PROVE  Chat!TimelyInv' /\ Chat!LeavesSettings
<1>0. Bot \in Chat!Processes
  BY DEF Chat!Processes
<1>1. CASE Chat!savePendingLink
  BY <1>0, <1>1, MovedOn, BlankCall DEF Chat!savePendingLink, Chat!Done
<1>2. CASE Chat!bind
  BY <1>0, <1>2, MovedOn, BlankCall DEF Chat!bind, Chat!Done
<1>3. ASSUME NEW c \in Chats, Chat!start(c)
      PROVE  Chat!TimelyInv' /\ Chat!LeavesSettings
  <2>1. PICK q : q = [Chat!Idle EXCEPT !.op = "start", !.at = "issue", !.chat = c]
    OBVIOUS
  <2>2. q.at = "issue"
    BY <2>1 DEF Chat!Idle
  <2>3. request' = [request EXCEPT ![Bot] = q] /\ UNCHANGED settings
    BY <1>3, <2>1 DEF Chat!start
  <2> QED BY <1>0, <2>2, <2>3, MovedOn
<1>4. ASSUME NEW c \in Chats, Chat!support(c)
      PROVE  Chat!TimelyInv' /\ Chat!LeavesSettings
  BY <1>4, QuietSettings DEF Chat!support
<1>5. ASSUME NEW c \in Chats, Chat!relay(c)
      PROVE  Chat!TimelyInv' /\ Chat!LeavesSettings
  BY <1>0, <1>5, SettingsAsked DEF Chat!relay, Chat!readSettings
<1>6. ASSUME NEW c \in Chats, NEW code \in Chat!Codes, Chat!startWith(c, code)
      PROVE  Chat!TimelyInv' /\ Chat!LeavesSettings
  <2>1. PICK p : p = [Chat!Idle EXCEPT !.chat = c, !.code = code]
    OBVIOUS
  <2>2. PICK owners : owners = {u \in Users : codeOf[u] = code /\ code \in live}
    OBVIOUS
  <2>3. PICK q : q = IF owners # {}
                     THEN [p EXCEPT !.op = "bind", !.at = "bind", !.user = CHOOSE u \in owners : TRUE]
                     ELSE [p EXCEPT !.op = "redeem", !.at = "get", !.sends = {"chat", "code"},
                                    !.set = [Chat!Default EXCEPT !.chat = c]]
    OBVIOUS
  <2>4. q.at \in {"bind", "get"}
    <3>1. CASE owners # {}
      BY <2>1, <2>3, <3>1 DEF Chat!Idle
    <3>2. CASE owners = {}
      BY <2>1, <2>3, <3>2 DEF Chat!Idle
    <3> QED BY <3>1, <3>2
  <2>5. request' = [request EXCEPT ![Bot] = q] /\ UNCHANGED settings
    BY <1>6, <2>1, <2>2, <2>3 DEF Chat!startWith
  <2> QED BY <1>0, <2>4, <2>5, MovedOn
<1> QED BY <1>1, <1>2, <1>3, <1>4, <1>5, <1>6 DEF Chat!BotStep

LEMMA SettingsNext ==
    ASSUME Chat!LinksType, Chat!TimelyInv, Chat!Next
    PROVE  Chat!TimelyInv' /\ Chat!LeavesSettings
<1>1. ASSUME NEW r \in Requests, Chat!Asks(r)
      PROVE  Chat!TimelyInv' /\ Chat!LeavesSettings
  <2>1. r \in Chat!Processes
    BY DEF Chat!Processes
  <2> QED BY <1>1, <2>1, SettingsAsked DEF Chat!Asks, Chat!update, Chat!editFaq, Chat!readSettings,
          Chat!resetAdminTelegramLink, Chat!generateAdminTelegramLinkCode
<1>2. ASSUME NEW u \in Users, Chat!generateTelegramLinkCode(u) \/ Chat!resetTelegramLink(u)
      PROVE  Chat!TimelyInv' /\ Chat!LeavesSettings
  BY <1>2, QuietSettings DEF Chat!generateTelegramLinkCode, Chat!resetTelegramLink
<1>3. ASSUME NEW code, Chat!Expire(code)
      PROVE  Chat!TimelyInv' /\ Chat!LeavesSettings
  BY <1>3, QuietSettings DEF Chat!Expire
<1>4. CASE Chat!Restart
  <2>1. \A s \in Chat!Processes : request'[s] = Chat!Idle
    BY <1>4 DEF Chat!Restart
  <2>2. \A s \in Chat!Processes : Chat!Timely(request[s])'
    BY <2>1, BlankCall DEF Chat!Timely
  <2>3. UNCHANGED settings
    BY <1>4 DEF Chat!Restart
  <2> QED BY <2>2, <2>3 DEF Chat!TimelyInv, Chat!LeavesSettings
<1> QED BY <1>1, <1>2, <1>3, <1>4, SettingsStep, CodeAsked, BotSteps DEF Chat!Next

LEMMA EditsInit ==
    ASSUME NEW rows, rows \in {Rows!NoRows, Hung}, Rows!Init(rows)
    PROVE  Rows!EditsInv
<1>1. PICK two : two = [i \in Rows!Ids |->
            CASE i = 1 -> [name |-> n1, text |-> x1, series |-> None]
              [] i = 2 -> [name |-> n2, text |-> x1, series |-> None]
              [] OTHER -> Rows!Absent]
  OBVIOUS
<1>2. /\ [name |-> n1, text |-> x1, series |-> None] \in Rows!Row
      /\ [name |-> n2, text |-> x1, series |-> None] \in Rows!Row
  BY ServicesAssumption DEF Rows!Row
<1>3. /\ two \in [Rows!Ids -> Rows!Row \cup {Rows!Absent}]
      /\ \A i \in Rows!Ids : two[i] # Rows!Absent <=> i \in {1, 2}
  <2>1. ASSUME NEW i \in Rows!Ids
        PROVE  /\ two[i] \in Rows!Row \cup {Rows!Absent}
               /\ two[i] # Rows!Absent <=> i \in {1, 2}
    <3>1. CASE i = 1
      BY <1>1, <1>2, <3>1, NothingIsARow
    <3>2. CASE i = 2
      BY <1>1, <1>2, <3>2, NothingIsARow
    <3>3. CASE i \notin {1, 2}
      BY <1>1, <3>3
    <3> QED BY <3>1, <3>2, <3>3
  <2> QED BY <1>1, <2>1
<1>4. /\ rows \in [Rows!Tables -> [Rows!Ids -> Rows!Row \cup {Rows!Absent}]]
      /\ \A t \in Rows!Tables : \A i \in Rows!Ids :
            rows[t][i] # Rows!Absent => t \in {"painting", "series"} /\ rows = Hung
      /\ rows = Hung => rows["painting"] = two /\ rows["series"] = two
  <2>1. Rows!NoRows \in [Rows!Tables -> [Rows!Ids -> Rows!Row \cup {Rows!Absent}]]
    BY DEF Rows!NoRows
  <2>2. \A t \in Rows!Tables : \A i \in Rows!Ids : Rows!NoRows[t][i] = Rows!Absent
    BY DEF Rows!NoRows
  <2>3. Hung = [Rows!NoRows EXCEPT !["painting"] = two, !["series"] = two]
    BY <1>1 DEF Hung
  <2>4. /\ Hung \in [Rows!Tables -> [Rows!Ids -> Rows!Row \cup {Rows!Absent}]]
        /\ Hung["painting"] = two /\ Hung["series"] = two
        /\ \A t \in Rows!Tables : t \notin {"painting", "series"} => Hung[t] = Rows!NoRows[t]
    BY <1>3, <2>1, <2>3, TablesAre
  <2> QED BY <2>1, <2>2, <2>4
<1>5. ASSUME NEW t \in Rows!Tables
      PROVE  \E n \in 0 .. MaxId : \A i \in Rows!Ids : rows[t][i] # Rows!Absent <=> i <= n
  <2>1. CASE \A i \in Rows!Ids : rows[t][i] = Rows!Absent
    <3>1. \A i \in Rows!Ids : ~(i <= 0)
      BY ServicesAssumption DEF Rows!CatalogueAssumption, Rows!Ids
    <3>2. 0 \in 0 .. MaxId
      BY NothingIsARow
    <3> QED BY <2>1, <3>1, <3>2
  <2>2. CASE ~\A i \in Rows!Ids : rows[t][i] = Rows!Absent
    <3>1. t \in {"painting", "series"} /\ rows[t] = two
      BY <1>4, <2>2
    <3>2. CASE MaxId >= 2
      <4>1. \A i \in Rows!Ids : i \in {1, 2} <=> i <= 2
        BY NothingIsARow DEF Rows!Ids
      <4>2. \A i \in Rows!Ids : rows[t][i] # Rows!Absent <=> i <= 2
        BY <1>3, <3>1, <4>1
      <4>3. 2 \in 0 .. MaxId
        BY <3>2, NothingIsARow
      <4> QED BY <4>2, <4>3
    <3>3. CASE MaxId < 2
      <4>1. \A i \in Rows!Ids : i \in {1, 2} /\ i <= MaxId
        BY <3>3, NothingIsARow DEF Rows!Ids
      <4>2. \A i \in Rows!Ids : rows[t][i] # Rows!Absent <=> i <= MaxId
        BY <1>3, <3>1, <4>1
      <4>3. MaxId \in 0 .. MaxId
        BY NothingIsARow
      <4> QED BY <4>2, <4>3
    <3> QED BY <3>2, <3>3, NothingIsARow
  <2> QED BY <2>1, <2>2
<1>6. /\ issuedIds \in [Rows!Tables -> 0 .. MaxId]
      /\ \A t \in Rows!Tables : \A i \in Rows!Ids : row[t][i] # Rows!Absent => i <= issuedIds[t]
  <2>1. row = rows
    BY DEF Rows!Init
  <2>2. ASSUME NEW t \in Rows!Tables
        PROVE  /\ issuedIds[t] \in 0 .. MaxId
               /\ \A i \in Rows!Ids : row[t][i] # Rows!Absent => i <= issuedIds[t]
    <3>1. issuedIds[t] = CHOOSE n \in 0 .. MaxId :
                            \A i \in Rows!Ids : rows[t][i] # Rows!Absent <=> i <= n
      BY DEF Rows!Init
    <3> QED BY <1>5, <2>1, <3>1
  <2>3. issuedIds = [t \in Rows!Tables |-> issuedIds[t]]
    BY DEF Rows!Init
  <2> QED BY <2>2, <2>3
<1>7. PICK q : q = Rows!Idle
  OBVIOUS
<1>8. /\ q \in Rows!Request /\ q.op = "none" /\ q.at = "idle"
      /\ Rows!Shaped(q) /\ Rows!Changes(q) = {}
  BY <1>7, TablesAre DEF Rows!Idle, Rows!Request, Rows!Shaped, Rows!Changes
<1>9. editing = [s \in Requests |-> q] /\ row = rows /\ used = {} /\ racedRows = {}
  BY <1>7 DEF Rows!Init
<1>10. Rows!TypeOK
  BY <1>4, <1>6, <1>8, <1>9 DEF Rows!TypeOK, Rows!IdsOf, Rows!Exists
<1>11. \A s \in Requests :
          Rows!Shaped(editing[s]) /\ Rows!Current(editing[s]) /\ Rows!Released(editing[s])
  BY <1>8, <1>9 DEF Rows!Current, Rows!Released
<1>12. Rows!Apart
  BY <1>8, <1>9 DEF Rows!Apart
<1> QED BY <1>10, <1>11, <1>12 DEF Rows!EditsInv

\* What the run asks of the catalogue is what anybody may ask.
LEMMA CatalogueKeeps ==
    ASSUME Rows!EditsInv, CatalogueStep
    PROVE  Rows!EditsInv' /\ Rows!LeavesEdits
<1>1. \A name \in Names, text \in Texts, series \in Rows!Ids \cup {None} :
        [name |-> name, text |-> text, series |-> series] \in Rows!Row
  BY DEF Rows!Row
<1>2. n1 \in Names /\ x1 \in Texts
  BY ServicesAssumption
<1>3. {"name"} \subseteq Rows!Columns /\ {"text"} \subseteq Rows!Columns
      /\ {"series"} \subseteq Rows!Columns
  BY DEF Rows!Columns
<1>4. part \in Rows!Tables /\ 1 .. MaxId = Rows!Ids
  BY DEF CatalogueStep, Rows!Ids
<1>5. ASSUME NEW r \in Requests, Hang(r)
      PROVE  Rows!EditsInv' /\ Rows!LeavesEdits
  <2>1. ASSUME NEW i \in Rows!Ids, NEW s \in Rows!Ids \cup {None},
               Rows!update(r, "painting", i, {"series"}, [name |-> n1, text |-> x1, series |-> s])
        PROVE  Rows!EditsInv' /\ Rows!LeavesEdits
    <3>1. PICK e \in Rows!Row : e = [name |-> n1, text |-> x1, series |-> s]
      BY <1>1, <1>2
    <3> QED BY <1>3, <2>1, <3>1, UpdateKeeps, TablesAre
  <2> QED BY <1>5, <2>1, TablesAre, RemoveKeeps, SetPaintingsKeeps, EditStepKeeps DEF Hang
<1>6. ASSUME NEW r \in Requests, Edit(r)
      PROVE  Rows!EditsInv' /\ Rows!LeavesEdits
  <2>1. ASSUME NEW name \in Names, NEW series \in IF part = "painting" THEN {None, 1} ELSE {None},
               Rows!create(r, part, [name |-> name, text |-> x1, series |-> series])
        PROVE  Rows!EditsInv' /\ Rows!LeavesEdits
    <3>1. 1 \in Rows!Ids
      <4>1. issuedIds[part] < MaxId /\ issuedIds[part] \in 0 .. MaxId
        BY <1>4, <2>1 DEF Rows!create, Rows!EditsInv, Rows!TypeOK
      <4> QED BY <4>1, NothingIsARow DEF Rows!Ids
    <3>2. PICK e \in Rows!Row : e = [name |-> name, text |-> x1, series |-> series]
      BY <1>1, <1>2, <3>1
    <3> QED BY <1>4, <2>1, <3>2, CreateKeeps
  <2>2. ASSUME NEW i \in 1 .. MaxId, NEW name \in Names,
               Rows!update(r, part, i, {"name"}, [name |-> name, text |-> x1, series |-> None])
        PROVE  Rows!EditsInv' /\ Rows!LeavesEdits
    <3>1. PICK e \in Rows!Row : e = [name |-> name, text |-> x1, series |-> None]
      BY <1>1, <1>2
    <3> QED BY <1>3, <1>4, <2>2, <3>1, UpdateKeeps
  <2>3. ASSUME NEW i \in 1 .. MaxId, NEW text \in Texts,
               Rows!update(r, part, i, {"text"}, [name |-> n1, text |-> text, series |-> None])
        PROVE  Rows!EditsInv' /\ Rows!LeavesEdits
    <3>1. PICK e \in Rows!Row : e = [name |-> n1, text |-> text, series |-> None]
      BY <1>1, <1>2
    <3> QED BY <1>3, <1>4, <2>3, <3>1, UpdateKeeps
  <2> QED BY <1>4, <1>6, <2>1, <2>2, <2>3, RemoveKeeps, EditStepKeeps DEF Edit
<1> QED BY <1>4, <1>5, <1>6, UseKeeps, CrashKeeps DEF CatalogueStep

LEMMA SameEdits ==
    ASSUME Rows!EditsInv, UNCHANGED catalogue
    PROVE  Rows!EditsInv'
<1>1. UNCHANGED <<row, issuedIds, used, editing, racedRows>>
  BY DEF catalogue
<1>2. Rows!TypeOK' /\ Rows!Apart'
  BY <1>1 DEF Rows!EditsInv, Rows!TypeOK, Rows!Apart, Rows!IdsOf, Rows!Exists
<1>3. ASSUME NEW s \in Requests
      PROVE  (Rows!Shaped(editing[s]) /\ Rows!Current(editing[s]) /\ Rows!Released(editing[s]))'
  <2>1. Rows!Shaped(editing[s]) /\ Rows!Current(editing[s]) /\ Rows!Released(editing[s])
    BY DEF Rows!EditsInv
  <2> QED BY <1>1, <2>1 DEF Rows!Current, Rows!Released, Rows!Works, Rows!IdsOf, Rows!Exists
<1> QED BY <1>2, <1>3 DEF Rows!EditsInv

\* For any tables, rows, requests and admins: what one admin has saved stays
\* until that column is sent again, what was removed stays removed, a series
\* has the works it was given, and whoever saves the settings leaves alone what
\* they did not set out to change - but for what two were at together.
\* (paintings.service.ts, series.service.ts:243-257, news.service.ts:39-57,
\* giveaways.service.ts:97-116, settings.service.ts:143-145.)
THEOREM EditsAlwaysStay == MCSpec => EditsStay
<1> DEFINE Codes == part \in {"settings", "accounts"} => Chat!CodesInv
           Inv == /\ part \in Rows!Tables => Rows!EditsInv
                  /\ part \in {"settings", "accounts"} => Chat!TimelyInv
           Kept == /\ part \in Rows!Tables => Rows!LeavesEdits
                   /\ part \in {"settings", "accounts"} => Chat!LeavesSettings
<1>0. Rows!Tables \cap {"settings", "accounts"} = {}
  BY TablesAre
<1>1. MCInit => Inv
  <2> SUFFICES ASSUME MCInit PROVE Inv
    OBVIOUS
  <2>1. part \in Rows!Tables => Rows!EditsInv
    BY EditsInit DEF MCInit
  <2>2. ASSUME part \in {"settings", "accounts"} PROVE Chat!TimelyInv
    <3>1. Chat!Init
      BY <2>2 DEF MCInit
    <3> QED BY <3>1, BlankCall DEF Chat!Init, Chat!TimelyInv, Chat!Timely
  <2> QED BY <2>1, <2>2
<1>2. Codes /\ Inv /\ [MCNext]_all => Inv' /\ [Kept]_all
  <2> SUFFICES ASSUME Codes, Inv, [MCNext]_all PROVE Inv' /\ [Kept]_all
    OBVIOUS
  <2>1. CASE UNCHANGED all
    <3>1. part' = part /\ UNCHANGED catalogue /\ UNCHANGED <<settings, request>>
      BY <2>1 DEF all, links
    <3> QED BY <2>1, <3>1, SameEdits, QuietSettings
  <2>2. CASE CatalogueStep
    <3>1. part' = part /\ part \in Rows!Tables
      BY <2>2 DEF CatalogueStep
    <3> QED BY <1>0, <2>2, <3>1, CatalogueKeeps
  <2>3. CASE LinksStep
    <3>1. part' = part /\ part \in {"settings", "accounts"}
      BY <2>3 DEF LinksStep
    <3>2. Chat!Next
      BY <2>3 DEF LinksStep, ArtistStep, AccountStep, Chat!Next, Chat!BotStep, Chat!Processes,
        Chat!Codes
    <3>3. Chat!LinksType /\ Chat!TimelyInv
      BY <3>1 DEF Chat!CodesInv
    <3> QED BY <1>0, <3>1, <3>2, <3>3, SettingsNext
  <2>4. CASE MCNext /\ ~CatalogueStep /\ ~LinksStep
    <3>1. part' = part /\ part \in {"rate", "signIn", "limits"}
      BY <2>4 DEF MCNext, RateStep, SignInStep, LimitStep
    <3> QED BY <3>1, TablesAre
  <2> QED BY <2>1, <2>2, <2>3, <2>4
<1>3. MCSpec => []Codes
  BY CodesInvariant
<1>4. EditsStay <=> [][Kept]_all
  BY PTL DEF EditsStay
<1> HIDE DEF Codes, Inv, Kept
<1> QED BY <1>1, <1>2, <1>3, <1>4, PTL DEF MCSpec

=============================================================================
