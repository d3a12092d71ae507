---------------------------- MODULE TokenBucket ----------------------------
(***************************************************************************)
(* The rate limit of one subject and scope: a token bucket that a Redis    *)
(* script refills and takes from, with the caller's pod clock.  Pod clocks *)
(* differ, and Redis deletes the bucket by its own clock when nobody has   *)
(* called for a window.                                                    *)
(*                                                                         *)
(* The script computes in double precision.  A token is counted here as    *)
(* Window * Grain units, with a Grain, a power of two, so fine that every  *)
(* double of the script is a whole number of them; a computation whose     *)
(* result a double does not hold is off by at most Rounding units, in      *)
(* either direction.  Taking a token is exact, and the 17 digits that the  *)
(* hash keeps lose nothing.                                                *)
(***************************************************************************)
EXTENDS Integers

CONSTANTS
  Capacity,  \* tokens of a full bucket
  Window,    \* milliseconds in which an empty one fills up
  Second,    \* milliseconds of a second of Retry-After, 1000
  Grain,     \* units of what a millisecond refills, by token of the capacity
  Rounding,  \* units that a computation may be off
  Skew,      \* environment: a pod's clock is at most so far ahead of the slowest
  MaxTime    \* bound of the clock

\* The last one holds for the code's limits with room to spare: doubles of a few dozen tokens
\* are off by less than 2^-46 of one, Rounding is at most Window * Grain of that, and the square
\* of the longest window, 3,600,000 ms, times 2^-46 is less than one.
ASSUME ConstantsAssumption ==
  /\ Capacity \in Nat \ {0} /\ Window \in Nat \ {0} /\ Second \in Nat \ {0}
  /\ Grain \in Nat \ {0} /\ Rounding \in Nat
  /\ Skew \in Nat /\ MaxTime \in Nat
  /\ Rounding * (Window + 3) <= Capacity * Grain

VARIABLES
  now,       \* the slowest clock, and that of Redis
  tokens,    \* 'tokens' of the bucket's hash, in units
  at,        \* 'at', Never if there is no key
  expires,   \* when Redis deletes the key
  mark,      \* history: when counting began
  spent,     \* ... the units granted since
  expiries,  \* ... and how often the key was deleted
  promise    \* history: from when on a refused caller counts on its token, or Never

vars == <<now, tokens, at, expires, mark, spent, expiries, promise>>

Never == -1
Token == Window * Grain    \* 1
Rate  == Capacity * Grain  \* capacity / window
Full  == Capacity * Token  \* capacity

\* Clocks that pods may read.
Clocks == now .. now + Skew

Init ==
  /\ now = 0 /\ tokens = Full /\ at = Never /\ expires = 0
  /\ mark = 0 /\ spent = 0 /\ expiries = 0 /\ promise = Never
-----------------------------------------------------------------------------
\* A caller's clock that is behind the bucket's last one counts as that one.
Time(c) == IF at # Never /\ c < at THEN at ELSE c

\* What adding the refill may come to: exact if there is none.
Refilled(c) ==
  IF Time(c) = at THEN {tokens}
                  ELSE {tokens + (Time(c) - at) * Rate + e : e \in -Rounding .. Rounding}

\* Mutation: the bucket overflows.
Filled_Overflowing(c) == IF at = Never THEN {Full} ELSE Refilled(c)
Filled(c) == IF at = Never THEN {Full} ELSE {IF f > Full THEN Full ELSE f : f \in Refilled(c)}

Grants(f) == f >= Token

\* Rounding up to whole units of d.
Ceil(n, d) == (n + d - 1) \div d

\* The milliseconds until a token is there; what is missing may round, but not to nothing ...
RetryMs(f) == {Ceil(m, Rate) : m \in {n \in Token - f - Rounding .. Token - f + Rounding : n > 0}}

\* Mutation: the seconds are rounded down.
RetryAfter_Down(ms) == LET s == ms \div Second IN IF s < 1 THEN 1 ELSE s
\* ... and as Retry-After tells them: in seconds, at least one.
RetryAfter(ms) == LET s == Ceil(ms, Second) IN IF s < 1 THEN 1 ELSE s

\* HSET and PEXPIRE end the script.
Stores(c, left) == tokens' = left /\ at' = Time(c) /\ expires' = now + Window

Grant(c, f) ==
  /\ Grants(f)
  /\ Stores(c, f - Token)
  /\ spent' = spent + Token
  /\ promise' = Never
  /\ UNCHANGED <<now, mark, expiries>>

\* RATE_LIMITED; a caller we watch will be back after Retry-After, give or take the clocks.
Refuse(c, f) ==
  /\ ~ Grants(f)
  /\ Stores(c, f)
  /\ promise' \in {promise} \cup {now + RetryAfter(ms) * Second + Skew : ms \in RetryMs(f)}
  /\ UNCHANGED <<now, mark, spent, expiries>>

\* Time passes; Redis deletes a bucket that nobody asked for a window long.
Tick ==
  /\ now < MaxTime /\ now' = now + 1
  /\ IF at # Never /\ expires <= now'
     THEN tokens' = Full /\ at' = Never /\ expires' = 0 /\ expiries' = expiries + 1
     ELSE UNCHANGED <<tokens, at, expires, expiries>>
  /\ UNCHANGED <<mark, spent, promise>>

\* An observer begins to count.
Mark ==
  /\ mark' = now /\ spent' = 0 /\ expiries' = 0
  /\ UNCHANGED <<now, tokens, at, expires, promise>>

Next == Tick \/ Mark \/ \E c \in Clocks : \E f \in Filled(c) : Grant(c, f) \/ Refuse(c, f)

Spec == Init /\ [][Next]_vars
-----------------------------------------------------------------------------
\* The bucket is never overdrawn and never more than full, and its clock is never ahead of
\* the fastest pod's.
TypeOK ==
  /\ now \in Nat /\ tokens \in 0 .. Full
  /\ at \in Nat \cup {Never} /\ (at # Never => at <= expires - Window + Skew)
  /\ expires \in Nat /\ expires <= now + Window
  /\ (at = Never => tokens = Full)
  /\ mark \in 0 .. now /\ spent \in Nat /\ expiries \in Nat
  /\ promise \in Nat \cup {Never}

\* What a millisecond refills at most, and at least: a call that refills rounds once.
Fast == Rate + Rounding
Slow == Rate - Rounding

\* What may be granted since the mark.
Budget == Full + Fast * ((now - mark) + Skew * (1 + expiries))

\* In any interval, however the callers' clocks differ and the refills are rounded, no more is
\* granted than a full bucket and what refills in the interval, stretched by the skew once at
\* its start and once each time the idle bucket was deleted (BUCKET_SCRIPT).
GrantsBounded == spent <= Budget

\* Who was refused and comes back a millisecond after Retry-After, and as much later as clocks
\* may differ, is let in, unless somebody else took the token (enforce_limit); the millisecond
\* makes up for refills that were rounded down meanwhile.
RetrySuffices ==
  promise # Never /\ now > promise => \A c \in Clocks : \A f \in Filled(c) : Grants(f)
-----------------------------------------------------------------------------
(* What makes both inductive; the proofs in TokenBucket_proofs are about it. *)

\* What was granted and what the bucket can still give to the fastest clock are within the
\* budget; a bucket that is full, or deleted, can give the skew's refill on top.
Within ==
  \/ spent + Full + Skew * Fast <= Budget
  \/ at # Never /\ spent + tokens + (now + Skew - at) * Fast <= Budget

\* A millisecond after a caller was told to be back, a token will have been refilled.
Promised == promise # Never /\ at # Never => tokens + (promise + 1 - at) * Slow >= Token

IInv == TypeOK /\ Within /\ Promised
=============================================================================
