-------------------------- MODULE TokenBucket_proofs --------------------------
(***************************************************************************)
(* Proofs about the rate limit, for any capacity, window and skew of the   *)
(* callers' clocks and any rounding of the refills within the module's     *)
(* assumption: no more is granted than the budget, and Retry-After is long *)
(* enough.                                                                 *)
(*                                                                         *)
(* The products of the bucket's arithmetic are taken apart by the lemmas   *)
(* of the first section; what is left is linear.                           *)
(***************************************************************************)
EXTENDS TokenBucket, TLAPS

(* Products.                                                               *)

LEMMA Distribute ==
  ASSUME NEW a \in Int, NEW b \in Int, NEW c \in Int
  PROVE  /\ (a + b) * c = a * c + b * c
         /\ (a - b) * c = a * c - b * c
         /\ c * (a + b) = c * a + c * b
         /\ c * (a - b) = c * a - c * b
         /\ a * c = c * a /\ a * c \in Int
  OBVIOUS

LEMMA Monotone ==
  ASSUME NEW a \in Int, NEW b \in Int, a <= b, NEW c \in Nat
  PROVE  a * c <= b * c
  OBVIOUS

LEMMA Nothing == \A a \in Int : 0 * a = 0 /\ a * 0 = 0
  OBVIOUS

\* Rounding up to whole units of c.
LEMMA RoundedUp ==
  ASSUME NEW n \in Int, NEW c \in Nat \ {0}
  PROVE  Ceil(n, c) \in Int /\ Ceil(n, c) * c >= n /\ Ceil(n, c) * c <= n + c - 1
<1> DEFINE x == n + c - 1
<1>1. x \in Int /\ x \div c \in Int /\ x % c \in 0 .. c - 1
  OBVIOUS
<1>2. x = c * (x \div c) + (x % c)
  OBVIOUS
<1>3. Ceil(n, c) = x \div c
  BY DEF Ceil
<1>4. (x \div c) * c = c * (x \div c)
  BY <1>1
<1>5. QED
  BY <1>1, <1>2, <1>3, <1>4

LEMMA Cancel ==
  ASSUME NEW a \in Int, NEW b \in Int, NEW c \in Nat \ {0}, a * c < b * c
  PROVE  a < b
<1>1. b <= a => b * c <= a * c
  BY Monotone
<1>2. a * c \in Int /\ b * c \in Int
  OBVIOUS
<1>3. QED
  BY <1>1, <1>2

\* The same for the bucket's constants.
LEMMA Constants ==
  /\ Capacity \in Nat \ {0} /\ Window \in Nat \ {0} /\ Second \in Nat \ {0} /\ Skew \in Nat
  /\ Rounding \in Nat /\ Token \in Nat /\ Rate \in Nat \ {0} /\ Full \in Nat
  /\ Full >= Token /\ Full = Window * Rate /\ (Window + 3) * Rounding <= Rate
  /\ Slow \in Nat /\ Slow = Rate - Rounding
  /\ Fast \in Nat /\ Fast = Rate + Rounding /\ Skew * Fast \in Nat
<1>1. /\ Capacity \in Nat \ {0} /\ Window \in Nat \ {0} /\ Second \in Nat \ {0} /\ Skew \in Nat
      /\ Grain \in Nat \ {0} /\ Rounding \in Nat /\ Rounding * (Window + 3) <= Rate
  BY ConstantsAssumption DEF Rate
<1>2. \A a, b \in Nat \ {0} : a * b \in Nat \ {0}
  OBVIOUS
<1>3. Token \in Nat \ {0} /\ Rate \in Nat \ {0}
  BY <1>1, <1>2 DEF Token, Rate
<1>4. Full \in Nat /\ 1 * Token <= Capacity * Token
  BY <1>1, <1>3, Monotone DEF Full
<1>5. Capacity * (Window * Grain) = Window * (Capacity * Grain)
  BY <1>1
<1>6. (Window + 3) * Rounding = Rounding * (Window + 3)
  BY <1>1
<1>7. Rounding <= Rate
  <2>1. 1 * Rounding <= (Window + 3) * Rounding
    BY <1>1, Monotone
  <2>2. (Window + 3) * Rounding \in Nat
    BY <1>1
  <2>3. QED
    BY <1>1, <1>3, <1>6, <2>1, <2>2
<1>8. Slow \in Nat /\ Fast \in Nat
  BY <1>1, <1>3, <1>7 DEF Slow, Fast
<1>9. Skew * Fast \in Nat
  BY <1>1, <1>8
<1>10. QED
  BY <1>1, <1>3, <1>4, <1>5, <1>6, <1>8, <1>9 DEF Full, Token, Rate, Slow, Fast
-----------------------------------------------------------------------------
(* Types.                                                                  *)

LEMMA TimeFacts ==
  ASSUME TypeOK, NEW c \in Clocks
  PROVE  /\ c \in Nat /\ now <= c /\ c <= now + Skew
         /\ Time(c) \in Nat /\ c <= Time(c) /\ Time(c) <= now + Skew
         /\ at # Never => at \in Nat /\ at <= Time(c)
  BY Constants DEF TypeOK, Clocks, Time, Never

\* A refill that rounds at all takes a millisecond or more, whose rates make up for it.
LEMMA RefilledFacts ==
  ASSUME TypeOK, NEW c \in Clocks, at # Never, NEW f \in Refilled(c)
  PROVE  /\ f \in Nat
         /\ tokens + (Time(c) - at) * Slow <= f /\ f <= tokens + (Time(c) - at) * Fast
<1> DEFINE e == Time(c) - at
<1>1. Time(c) \in Nat /\ at \in Nat /\ e \in Nat /\ tokens \in Nat
  BY TimeFacts DEF TypeOK
<1>2. CASE Time(c) = at
  <2>1. f = tokens /\ e = 0
    BY <1>1, <1>2 DEF Refilled
  <2>2. 0 * Slow = 0 /\ 0 * Fast = 0
    BY Constants
  <2>3. QED
    BY <1>1, <2>1, <2>2
<1>3. CASE Time(c) # at
  <2>1. PICK r \in -Rounding .. Rounding : f = tokens + e * Rate + r
    BY <1>3 DEF Refilled
  <2>2. e >= 1
    BY <1>1, <1>3
  <2> HIDE DEF e
  <2>3. e * Fast = e * Rate + e * Rounding /\ e * Slow = e * Rate - e * Rounding
    BY <1>1, Constants, Distribute
  <2>4. 1 * Rounding <= e * Rounding
    BY <1>1, <2>2, Constants, Monotone
  <2>5. e * Rate \in Nat /\ e * Rounding \in Nat /\ e * Slow \in Nat
    BY <1>1, Constants
  <2>6. QED
    BY <1>1, <2>1, <2>3, <2>4, <2>5, Constants DEF e
<1>4. QED
  BY <1>2, <1>3

\* What the bucket holds at the time of a call.
LEMMA FilledFacts ==
  ASSUME TypeOK, NEW c \in Clocks, NEW f \in Filled(c)
  PROVE  /\ f \in 0 .. Full
         /\ at = Never => f = Full
         /\ at # Never => /\ f <= tokens + (Time(c) - at) * Fast
                          /\ f = Full \/ tokens + (Time(c) - at) * Slow <= f
<1>1. CASE at = Never
  BY <1>1, Constants DEF Filled
<1>2. CASE at # Never
  <2>1. PICK r \in Refilled(c) : f = IF r > Full THEN Full ELSE r
    BY <1>2 DEF Filled
  <2>2. /\ r \in Nat
        /\ tokens + (Time(c) - at) * Slow <= r /\ r <= tokens + (Time(c) - at) * Fast
    BY <1>2, RefilledFacts
  <2>3. (Time(c) - at) * Slow \in Int /\ (Time(c) - at) * Fast \in Int /\ tokens \in Nat
    BY <1>2, TimeFacts, Constants DEF TypeOK
  <2>4. QED
    BY <1>2, <2>1, <2>2, <2>3, Constants
<1>3. QED
  BY <1>1, <1>2

LEMMA StoresTypes ==
  ASSUME TypeOK, NEW c \in Clocks, NEW left \in 0 .. Full, Stores(c, left), UNCHANGED <<now, mark>>,
         spent' \in Nat, expiries' \in Nat, promise' \in Nat \cup {Never}
  PROVE  TypeOK' /\ at' # Never
  BY TimeFacts, Constants DEF Stores, TypeOK, Never

LEMMA TypeInit == Init => TypeOK
  BY Constants, ConstantsAssumption DEF Init, TypeOK, Never

\* How long a refused caller is told to stay away: at most a millisecond longer than an empty
\* bucket of one token takes.
LEMMA RetryFacts ==
  ASSUME TypeOK, NEW f \in 0 .. Full, NEW ms \in RetryMs(f)
  PROVE  /\ ms \in Int /\ ms * Rate >= Token - f - Rounding /\ ms <= Window + 1
         /\ RetryAfter(ms) \in Nat /\ RetryAfter(ms) * Second \in Nat /\ RetryAfter(ms) * Second >= ms
<1>1. PICK m \in Token - f - Rounding .. Token - f + Rounding : ms = Ceil(m, Rate)
  BY DEF RetryMs
<1>2. m \in Int /\ m >= Token - f - Rounding /\ m <= Token + Rounding
  BY <1>1, Constants
<1>3. ms \in Int /\ ms * Rate >= m /\ ms * Rate <= m + Rate - 1
  BY <1>1, <1>2, RoundedUp, Constants
<1>4. ms < Window + 2
  <2>1. (Window + 2) * Rate = Full + 2 * Rate
    BY Constants, Distribute
  <2>2. Rounding <= Rate
    BY Constants
  <2>3. ms * Rate \in Int /\ (Window + 2) * Rate \in Int
    BY <1>3, Constants
  <2>4. ms * Rate < (Window + 2) * Rate
    BY <1>2, <1>3, <2>1, <2>2, <2>3, Constants
  <2>5. QED
    BY <1>3, <2>4, Cancel, Constants
<1> DEFINE s == Ceil(ms, Second)
<1>5. s \in Int /\ s * Second >= ms
  BY <1>3, RoundedUp, Constants
<1> HIDE DEF s
<1>6. RetryAfter(ms) = IF s < 1 THEN 1 ELSE s
  BY DEF RetryAfter, s
<1>7. RetryAfter(ms) \in Nat /\ s <= RetryAfter(ms)
  BY <1>5, <1>6
<1>8. s * Second <= RetryAfter(ms) * Second
  BY <1>5, <1>7, Monotone, Constants
<1>9. RetryAfter(ms) * Second \in Nat /\ s * Second \in Int /\ ms * Rate \in Int
  BY <1>3, <1>5, <1>7, Constants
<1>10. ms * Rate >= Token - f - Rounding
  BY <1>2, <1>3, <1>9, Constants
<1>11. QED
  BY <1>3, <1>4, <1>5, <1>7, <1>8, <1>9, <1>10, Constants

LEMMA TypeNext == TypeOK /\ [Next]_vars => TypeOK'
<1> SUFFICES ASSUME TypeOK, [Next]_vars PROVE TypeOK'
  OBVIOUS
<1>1. CASE Tick
  BY <1>1, Constants DEF Tick, TypeOK, Never
<1>2. CASE Mark
  BY <1>2 DEF Mark, TypeOK
<1>3. ASSUME NEW c \in Clocks, NEW f \in Filled(c), Grant(c, f) PROVE TypeOK'
  <2>1. f - Token \in 0 .. Full
    BY <1>3, FilledFacts, Constants DEF Grant, Grants
  <2>2. spent' \in Nat
    BY <1>3, Constants DEF Grant, TypeOK
  <2>3. QED
    BY <1>3, <2>1, <2>2, StoresTypes DEF Grant, TypeOK
<1>4. ASSUME NEW c \in Clocks, NEW f \in Filled(c), Refuse(c, f) PROVE TypeOK'
  <2>1. f \in 0 .. Full
    BY FilledFacts
  <2>2. promise' \in Nat \cup {Never}
    <3>1. \A ms \in RetryMs(f) : RetryAfter(ms) * Second \in Nat
      BY <2>1, RetryFacts
    <3>2. \A ms \in RetryMs(f) : now + RetryAfter(ms) * Second + Skew \in Nat
      BY <3>1, Constants DEF TypeOK
    <3>3. QED
      BY <1>4, <3>2 DEF Refuse, TypeOK
  <2>3. QED
    BY <1>4, <2>1, <2>2, StoresTypes DEF Refuse, TypeOK
<1>5. CASE UNCHANGED vars
  BY <1>5 DEF vars, TypeOK
<1>6. QED
  BY <1>1, <1>2, <1>3, <1>4, <1>5 DEF Next
-----------------------------------------------------------------------------
(* What is granted stays within the budget.                                *)

\* What the bucket can still give to the fastest clock.
Reserve == tokens + (now + Skew - at) * Fast
Most    == Full + Skew * Fast

LEMMA WithinIs ==
  ASSUME TypeOK
  PROVE  Within <=> spent + Most <= Budget \/ (at # Never /\ spent + Reserve <= Budget)
<1>1. spent \in Nat /\ tokens \in Nat /\ Full \in Nat /\ Skew * Fast \in Nat
  BY Constants DEF TypeOK
<1>2. spent + Full + Skew * Fast = spent + Most
  BY <1>1 DEF Most
<1>3. at # Never => spent + tokens + (now + Skew - at) * Fast = spent + Reserve
  <2> SUFFICES ASSUME at # Never PROVE spent + tokens + (now + Skew - at) * Fast = spent + Reserve
    OBVIOUS
  <2>1. (now + Skew - at) * Fast \in Int
    BY Constants DEF TypeOK
  <2>2. QED
    BY <1>1, <2>1 DEF Reserve
<1>4. QED
  BY <1>2, <1>3 DEF Within

LEMMA WithinLater ==
  ASSUME TypeOK', spent' + Most <= Budget' \/ (at' # Never /\ spent' + Reserve' <= Budget')
  PROVE  Within'
<1>1. spent' \in Nat /\ tokens' \in Nat /\ Full \in Nat /\ Skew * Fast \in Nat
  BY Constants DEF TypeOK
<1>2. spent' + Full + Skew * Fast = spent' + Most
  BY <1>1 DEF Most
<1>3. ASSUME at' # Never
      PROVE  spent' + tokens' + (now' + Skew - at') * Fast = spent' + Reserve'
  <2>1. (now' + Skew - at') * Fast \in Int
    BY <1>3, Constants DEF TypeOK
  <2>2. QED
    BY <1>1, <2>1 DEF Reserve
<1>4. QED
  BY <1>2, <1>3 DEF Within

\* The budget of e milliseconds and k deletions, term by term.
LEMMA BudgetOf ==
  ASSUME NEW e \in Nat, NEW k \in Nat
  PROVE  /\ Full + Fast * (e + Skew * (1 + k)) = Most + e * Fast + (Skew * Fast) * k
         /\ Most \in Nat /\ e * Fast \in Nat /\ (Skew * Fast) * k \in Nat
<1>1. Skew * (1 + k) = Skew + Skew * k /\ Skew * k \in Nat
  BY Constants, Distribute
<1>2. Fast * (e + Skew * (1 + k)) = Fast * e + (Fast * Skew + Fast * (Skew * k))
  BY <1>1, Constants, Distribute
<1>3. Fast * (Skew * k) = (Skew * Fast) * k
  BY Constants
<1>4. Fast * e = e * Fast /\ Fast * Skew = Skew * Fast
  BY Constants, Distribute
<1>5. /\ e * Fast \in Nat /\ (Skew * Fast) * k \in Nat
      /\ Skew * Fast \in Nat /\ Full \in Nat
  BY Constants
<1>6. QED
  BY <1>2, <1>3, <1>4, <1>5 DEF Most

LEMMA BudgetSplit ==
  ASSUME TypeOK
  PROVE  /\ Budget = Most + (now - mark) * Fast + (Skew * Fast) * expiries
         /\ Most \in Nat /\ (now - mark) * Fast \in Nat /\ (Skew * Fast) * expiries \in Nat
<1>1. now - mark \in Nat /\ expiries \in Nat
  BY DEF TypeOK
<1>2. QED
  BY <1>1, BudgetOf DEF Budget

\* A call takes w units, or none, from what the bucket can give.
LEMMA CallStaysWithin ==
  ASSUME TypeOK, TypeOK', Within, NEW c \in Clocks, NEW f \in Filled(c), NEW w \in Nat, Stores(c, f - w),
         spent' = spent + w, UNCHANGED <<now, mark, expiries>>
  PROVE  Within'
<1> DEFINE T == Time(c)
           D == (now + Skew - T) * Fast
           G == (T - at) * Fast
<1>1. /\ T \in Nat /\ now <= T /\ T <= now + Skew /\ now \in Nat
      /\ at # Never => at \in Nat /\ at <= T
  BY TimeFacts DEF TypeOK
<1>2. at' = T /\ tokens' = f - w /\ at' # Never
  BY <1>1 DEF Stores, Never
<1>3. D \in Nat /\ D <= Skew * Fast
  BY <1>1, Constants, Monotone
<1>4. at # Never => G \in Nat /\ G + D = (now + Skew - at) * Fast
  <2> SUFFICES ASSUME at # Never PROVE G \in Nat /\ G + D = (now + Skew - at) * Fast
    OBVIOUS
  <2>1. T - at \in Nat /\ now + Skew - T \in Nat /\ (T - at) + (now + Skew - T) = now + Skew - at
    BY <1>1, Constants
  <2>2. G + D = ((T - at) + (now + Skew - T)) * Fast
    BY <2>1, Constants, Distribute
  <2>3. QED
    BY <2>1, <2>2, Constants
<1>5. Reserve' = f - w + D
  BY <1>2 DEF Reserve
<1>6. /\ f \in 0 .. Full
      /\ at = Never => f = Full
      /\ at # Never => f <= tokens + G
  BY FilledFacts
<1>7. at # Never => Reserve = tokens + (G + D)
  BY <1>4 DEF Reserve
<1> HIDE DEF T, D, G
<1>8. f + D <= Most /\ (at # Never => f + D <= Reserve)
  BY <1>3, <1>4, <1>6, <1>7, Constants DEF Most, TypeOK
<1>9. spent + Most <= Budget \/ (at # Never /\ spent + Reserve <= Budget)
  BY WithinIs
<1>10. spent + (f + D) <= Budget
  BY <1>3, <1>4, <1>6, <1>7, <1>8, <1>9, BudgetSplit, Constants DEF Most, TypeOK
<1>11. Budget' = Budget /\ spent' + Reserve' = spent + (f + D)
  BY <1>3, <1>5, <1>6 DEF Budget, TypeOK
<1>12. QED
  BY <1>2, <1>10, <1>11, WithinLater

\* Time refills what the budget grows by; what a deletion brings back, the idle window has
\* refilled but for one millisecond and the skew.
LEMMA TimeStaysWithin ==
  ASSUME TypeOK, TypeOK', Within, Tick
  PROVE  Within'
<1>1. now' = now + 1 /\ UNCHANGED <<mark, spent>>
  BY DEF Tick
<1>2. now - mark \in Nat /\ now' - mark = (now - mark) + 1 /\ expiries \in Nat /\ spent \in Nat
  BY <1>1 DEF TypeOK
<1>3. (now' - mark) * Fast = (now - mark) * Fast + Fast
  BY <1>2, Constants, Distribute
<1>4. spent + Most <= Budget \/ (at # Never /\ spent + Reserve <= Budget)
  BY WithinIs
<1>5. CASE UNCHANGED <<tokens, at, expiries>>
  <2>1. Budget' = Full + Fast * ((now' - mark) + Skew * (1 + expiries))
    BY <1>1, <1>5 DEF Budget
  <2>2. Budget' = Most + (now' - mark) * Fast + (Skew * Fast) * expiries
    BY <1>2, <2>1, BudgetOf
  <2>3. Budget' = Budget + Fast /\ Budget \in Int
    BY <1>2, <1>3, <2>2, BudgetSplit, Constants
  <2>4. at # Never => Reserve' = Reserve + Fast /\ Reserve \in Int
    <3> SUFFICES ASSUME at # Never PROVE Reserve' = Reserve + Fast /\ Reserve \in Int
      OBVIOUS
    <3>1. now + Skew - at \in Int /\ now' + Skew - at = (now + Skew - at) + 1
      BY <1>1, Constants DEF TypeOK
    <3>2. (now' + Skew - at) * Fast = (now + Skew - at) * Fast + Fast
      BY <3>1, Constants, Distribute
    <3>3. (now + Skew - at) * Fast \in Int /\ tokens \in Int
      BY <3>1, Constants DEF TypeOK
    <3>4. QED
      BY <1>5, <3>2, <3>3, Constants DEF Reserve
  <2>5. spent' + Most <= Budget' \/ (at' # Never /\ spent' + Reserve' <= Budget')
    BY <1>1, <1>2, <1>4, <1>5, <2>3, <2>4, BudgetSplit, Constants
  <2>6. QED
    BY <2>5, WithinLater
<1>6. CASE at # Never /\ expires <= now' /\ expiries' = expiries + 1
  <2>1. Budget' = Full + Fast * ((now' - mark) + Skew * (1 + (expiries + 1)))
    BY <1>1, <1>6 DEF Budget
  <2>2. Budget' = Most + (now' - mark) * Fast + (Skew * Fast) * (expiries + 1)
    BY <1>2, <2>1, BudgetOf
  <2>3. (Skew * Fast) * (expiries + 1) = (Skew * Fast) * expiries + Skew * Fast
    BY <1>2, Constants
  <2>4. Budget' = Budget + Fast + Skew * Fast /\ Budget \in Int
    BY <1>2, <1>3, <2>2, <2>3, BudgetSplit, Constants
  <2>5. Reserve \in Int /\ Full <= Reserve + Fast
    <3>1. now + Skew - at \in Int /\ Window - 1 <= now + Skew - at /\ tokens \in Nat
      BY <1>1, <1>6, Constants DEF TypeOK
    <3>2. (Window - 1) * Fast <= (now + Skew - at) * Fast
      BY <3>1, Constants, Monotone
    <3>3. (Window - 1) * Fast = (Window - 1) * Rate + (Window - 1) * Rounding
      BY Constants, Distribute
    <3>4. (Window - 1) * Rate = Full - Rate /\ (Window - 1) * Rounding \in Nat
      BY Constants, Distribute
    <3>5. (now + Skew - at) * Fast \in Int
      BY <3>1, Constants
    <3>6. QED
      BY <3>1, <3>2, <3>3, <3>4, <3>5, Constants DEF Reserve
  <2>6. spent + Most <= Budget'
    BY <1>2, <1>4, <2>4, <2>5, BudgetSplit, Constants DEF Most
  <2>7. QED
    BY <1>1, <2>6, WithinLater
<1>7. QED
  BY <1>5, <1>6 DEF Tick

\* An observer begins with a bucket that is full at most.
LEMMA MarkStartsWithin ==
  ASSUME TypeOK', spent' = 0, mark' = now', expiries' = 0
  PROVE  Within'
<1>1. now' - mark' = 0
  <2>1. now' \in Nat /\ mark' = now'
    BY DEF TypeOK
  <2>2. \A n \in Nat : n - n = 0
    OBVIOUS
  <2>3. now' - now' = 0
    BY <2>1, <2>2
  <2>4. QED
    BY <2>1, <2>3
<1>2. Budget' = Full + Fast * (0 + Skew * (1 + 0))
  BY <1>1 DEF Budget
<1>3. Budget' = Most + 0 * Fast + (Skew * Fast) * 0
  BY <1>2, BudgetOf
<1>4. Most \in Nat /\ 0 * Fast = 0 /\ (Skew * Fast) * 0 = 0
  BY Constants, Nothing DEF Most
<1>5. QED
  BY <1>3, <1>4, WithinLater

LEMMA WithinNext ==
  ASSUME TypeOK, TypeOK', Within, [Next]_vars
  PROVE  Within'
<1>1. CASE Mark
  BY <1>1, MarkStartsWithin DEF Mark
<1>2. ASSUME NEW c \in Clocks, NEW f \in Filled(c), Grant(c, f) PROVE Within'
  BY <1>2, CallStaysWithin, Constants DEF Grant
<1>3. ASSUME NEW c \in Clocks, NEW f \in Filled(c), Refuse(c, f) PROVE Within'
  <2>1. f - 0 = f /\ spent' = spent + 0
    BY <1>3, FilledFacts DEF Refuse, TypeOK
  <2>2. QED
    BY <1>3, <2>1, CallStaysWithin DEF Refuse
<1>4. CASE UNCHANGED vars
  BY <1>4 DEF vars, Within, Budget
<1>5. QED
  BY <1>1, <1>2, <1>3, <1>4, TimeStaysWithin DEF Next
-----------------------------------------------------------------------------
(* Retry-After is long enough.                                             *)

\* A refused caller's token will have been refilled a millisecond after Retry-After, whatever
\* the refills until then lose by rounding.
LEMMA RefuseKeepsPromise ==
  ASSUME TypeOK, Promised, NEW c \in Clocks, NEW f \in Filled(c), Refuse(c, f)
  PROVE  Promised'
<1> DEFINE T == Time(c)
<1>1. /\ T \in Nat /\ now \in Nat /\ T <= now + Skew /\ at' = T /\ tokens' = f
      /\ f \in 0 .. Full /\ f < Token /\ f # Full /\ tokens \in Nat
  BY TimeFacts, FilledFacts, Constants DEF Refuse, Grants, Stores, TypeOK
<1>2. at # Never /\ at \in Nat /\ T - at \in Nat /\ tokens + (T - at) * Slow <= f
  BY <1>1, TimeFacts, FilledFacts
<1>3. CASE promise' = promise /\ promise # Never
  <2>1. tokens + (promise + 1 - at) * Slow >= Token /\ promise \in Nat
    BY <1>2, <1>3 DEF Promised, TypeOK
  <2>2. (promise + 1 - at) * Slow = (T - at) * Slow + (promise + 1 - T) * Slow
    <3>1. promise + 1 - at = (T - at) + (promise + 1 - T) /\ promise + 1 - T \in Int /\ T - at \in Int
      BY <1>1, <1>2, <2>1
    <3>2. QED
      BY <3>1, Constants, Distribute
  <2>3. (T - at) * Slow \in Int /\ (promise + 1 - T) * Slow \in Int
    BY <1>1, <1>2, <2>1, Constants
  <2>4. tokens' + (promise + 1 - T) * Slow >= Token
    BY <1>1, <1>2, <2>1, <2>2, <2>3, Constants
  <2>5. QED
    BY <1>1, <1>3, <2>4 DEF Promised
<1>4. ASSUME NEW ms \in RetryMs(f), promise' = now + RetryAfter(ms) * Second + Skew
      PROVE  Promised'
  <2>1. /\ ms \in Int /\ ms * Rate >= Token - f - Rounding /\ ms <= Window + 1
        /\ RetryAfter(ms) * Second \in Nat /\ RetryAfter(ms) * Second >= ms
    BY <1>1, RetryFacts
  <2> DEFINE wait == promise' + 1 - T
  <2>2. wait \in Int /\ ms + 1 <= wait
    BY <1>1, <1>4, <2>1, Constants
  <2> HIDE DEF wait
  <2>3. (ms + 1) * Slow <= wait * Slow
    BY <2>1, <2>2, Monotone, Constants
  <2>4. (ms + 1) * Slow = (ms * Rate + Rate) - (ms + 1) * Rounding
    <3>1. (ms + 1) * Slow = (ms + 1) * Rate - (ms + 1) * Rounding
      BY <2>1, Constants, Distribute
    <3>2. (ms + 1) * Rate = ms * Rate + Rate
      BY <2>1, Constants, Distribute
    <3>3. QED
      BY <3>1, <3>2
  <2>5. (ms + 1) * Rounding <= Rate - Rounding
    <3>1. (ms + 1) * Rounding <= (Window + 2) * Rounding
      BY <2>1, Monotone, Constants
    <3>2. (Window + 2) * Rounding = (Window + 3) * Rounding - Rounding
      BY Constants, Distribute
    <3>3. (ms + 1) * Rounding \in Int /\ (Window + 3) * Rounding \in Int
      BY <2>1, Constants
    <3>4. QED
      BY <3>1, <3>2, <3>3, Constants
  <2>6. /\ ms * Rate \in Int /\ (ms + 1) * Rounding \in Int
        /\ (ms + 1) * Slow \in Int /\ wait * Slow \in Int
    BY <2>1, <2>2, Constants
  <2>7. tokens' + wait * Slow >= Token
    BY <1>1, <2>1, <2>3, <2>4, <2>5, <2>6, Constants
  <2>8. QED
    BY <1>1, <2>7 DEF Promised, wait
<1>5. QED
  BY <1>3, <1>4 DEF Refuse, Promised

LEMMA PromisedNext ==
  ASSUME TypeOK, Promised, [Next]_vars
  PROVE  Promised'
<1>1. CASE Tick
  BY <1>1 DEF Tick, Promised
<1>2. CASE Mark \/ UNCHANGED vars
  BY <1>2 DEF Mark, vars, Promised
<1>3. CASE \E c \in Clocks : \E f \in Filled(c) : Grant(c, f)
  BY <1>3 DEF Grant, Promised
<1>4. QED
  BY <1>1, <1>2, <1>3, RefuseKeepsPromise DEF Next
-----------------------------------------------------------------------------
(* The invariant.                                                          *)

\* The bucket, its grants and its promises keep the invariant.
THEOREM InvariantHolds == Spec => []IInv
<1>1. Init => IInv
  <2> SUFFICES ASSUME Init PROVE IInv
    OBVIOUS
  <2>1. TypeOK
    BY TypeInit
  <2>2. Budget = Full + Fast * (0 + Skew * (1 + 0)) /\ spent = 0
    BY DEF Init, Budget
  <2>3. Budget = Most + 0 * Fast + (Skew * Fast) * 0
    BY <2>2, BudgetOf
  <2>4. Most \in Nat /\ 0 * Fast = 0 /\ (Skew * Fast) * 0 = 0
    BY Constants, Nothing DEF Most
  <2>5. Within
    BY <2>1, <2>2, <2>3, <2>4, WithinIs
  <2>6. QED
    BY <2>1, <2>5 DEF IInv, Init, Promised
<1>2. IInv /\ [Next]_vars => IInv'
  <2> SUFFICES ASSUME IInv, [Next]_vars PROVE IInv'
    OBVIOUS
  <2>1. TypeOK'
    BY TypeNext DEF IInv
  <2>2. QED
    BY <2>1, WithinNext, PromisedNext DEF IInv
<1>3. QED
  BY <1>1, <1>2, PTL DEF Spec

\* However the callers' clocks differ, the grants of any interval stay within a full bucket and
\* the interval's refill, stretched by the skew (BUCKET_SCRIPT).
THEOREM GrantsAreBounded == Spec => []GrantsBounded
<1>1. IInv => GrantsBounded
  <2> SUFFICES ASSUME IInv PROVE spent <= Budget
    BY DEF GrantsBounded
  <2>1. spent + Most <= Budget \/ (at # Never /\ spent + Reserve <= Budget)
    BY WithinIs DEF IInv
  <2>2. Most \in Nat /\ Budget \in Int /\ spent \in Nat
    BY BudgetSplit DEF IInv, TypeOK
  <2>3. at # Never => Reserve \in Nat
    <3> SUFFICES ASSUME at # Never PROVE Reserve \in Nat
      OBVIOUS
    <3>1. now + Skew - at \in Nat /\ tokens \in Nat
      BY Constants DEF IInv, TypeOK
    <3>2. (now + Skew - at) * Fast \in Nat
      BY <3>1, Constants
    <3>3. QED
      BY <3>1, <3>2 DEF Reserve
  <2>4. QED
    BY <2>1, <2>2, <2>3
<1>2. QED
  BY <1>1, InvariantHolds, PTL

\* Who comes back a millisecond after Retry-After is let in, unless somebody else took the
\* token, although each refill until then may be rounded down (enforce_limit).
THEOREM RetryIsEnough == Spec => []RetrySuffices
<1>1. IInv => RetrySuffices
  <2> SUFFICES ASSUME IInv, promise # Never, now > promise, NEW c \in Clocks, NEW f \in Filled(c)
               PROVE  f >= Token
    BY DEF RetrySuffices, Grants
  <2>1. CASE at = Never \/ f = Full
    BY <2>1, FilledFacts, Constants DEF IInv
  <2>2. CASE at # Never /\ f # Full
    <3>1. /\ promise \in Nat /\ at \in Nat /\ Time(c) \in Nat /\ now \in Nat /\ now <= Time(c)
          /\ tokens \in Nat
      BY <2>2, TimeFacts DEF IInv, TypeOK
    <3>2. promise + 1 - at \in Int /\ Time(c) - at \in Int /\ promise + 1 - at <= Time(c) - at
      BY <3>1
    <3>3. (promise + 1 - at) * Slow <= (Time(c) - at) * Slow
      BY <3>2, Monotone, Constants
    <3>4. tokens + (promise + 1 - at) * Slow >= Token
      BY <2>2 DEF IInv, Promised
    <3>5. (promise + 1 - at) * Slow \in Int /\ (Time(c) - at) * Slow \in Int
      BY <3>2, Constants
    <3>6. f \in Nat /\ tokens + (Time(c) - at) * Slow <= f
      BY <2>2, FilledFacts, Constants DEF IInv
    <3>7. QED
      BY <3>1, <3>3, <3>4, <3>5, <3>6, Constants
  <2>3. QED
    BY <2>1, <2>2
<1>2. QED
  BY <1>1, InvariantHolds, PTL
=============================================================================
