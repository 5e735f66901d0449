------------------------------- MODULE Backoff -------------------------------
(***************************************************************************)
(* The waits between the reconnects of the ingest client (Client.Run,      *)
(* backoffDuration).  Durations are signed machine integers; their width   *)
(* and the cap on the shift are parameters so that TLC can go all the way  *)
(* around (64 and 30 in the code).                                         *)
(***************************************************************************)
EXTENDS Integers

CONSTANTS Width,      \* bits of a time.Duration
          MaxShift,
          Bases, Maxes,             \* configured BackoffBase and BackoffMax
          DefaultBase, DefaultMax,  \* for settings of zero or less
          MaxAttempts  \* bound: failed cycles in a row

\* 1 << n.
Pow2[n \in 0..Width] == IF n = 0 THEN 1 ELSE 2 * Pow2[n - 1]

\* What a time.Duration can hold.
ASSUME BackoffAssumption ==
    /\ Width \in Nat /\ MaxShift \in 0..(Width - 2)
    /\ \A d \in Bases \cup Maxes \cup {DefaultBase, DefaultMax} : d \in Int /\ d < Pow2[Width - 1]
    /\ DefaultBase > 0 /\ DefaultMax > 0

VARIABLES
    base, maxDelay,  \* the configuration
    attempt,         \* Run's counter
    delay,           \* the capped delay, before jitter
    wait,            \* the wait with jitter; 0 before the first
    outage           \* history: cycles since the stream was last open

backoffVars == <<base, maxDelay, attempt, delay, wait, outage>>

Wrap(x) == ((x + Pow2[Width - 1]) % Pow2[Width]) - Pow2[Width - 1]

BaseDelay == IF base <= 0 THEN DefaultBase ELSE base
MaxDelay  == IF maxDelay <= 0 THEN DefaultMax ELSE maxDelay

Smaller(a, b) == IF a <= b THEN a ELSE b

BackoffInit ==
    /\ base \in Bases /\ maxDelay \in Maxes
    /\ attempt = 0 /\ delay = 0 /\ wait = 0 /\ outage = 0

\* Variant: a product that has become negative is taken for short.
CappedDelay_NoSignCheck(n) ==
    LET d == Wrap(BaseDelay * Pow2[Smaller(n - 1, MaxShift)])
    IN  IF d > MaxDelay THEN MaxDelay ELSE d

\* The delay of the n-th attempt before jitter.
CappedDelay(n) ==
    LET d == Wrap(BaseDelay * Pow2[Smaller(n - 1, MaxShift)])
    IN  IF d <= 0 \/ d > MaxDelay THEN MaxDelay ELSE d

\* A stream that was open starts afresh.
NextAttempt(connected) == (IF connected THEN 0 ELSE attempt) + 1

\* A cycle ends, after its stream was open or without, and Run waits: half
\* the delay and up to as much again.
CycleEnds(connected) ==
    /\ attempt < MaxAttempts \/ connected
    /\ attempt' = NextAttempt(connected)
    /\ delay' = CappedDelay(attempt')
    /\ wait' \in {delay' \div 2, 2 * (delay' \div 2)}
    /\ outage' = IF connected THEN 1 ELSE outage + 1
    /\ UNCHANGED <<base, maxDelay>>

BackoffNext == \E connected \in BOOLEAN : CycleEnds(connected)

BackoffSpec == BackoffInit /\ [][BackoffNext]_backoffVars

-----------------------------------------------------------------------------
(* Properties.                                                             *)

\* The product fits into a duration, or comes out negative and is noticed.
\* Beyond 2^(Width - MaxShift), 17 seconds in the code, it can come around to a
\* positive number again and pass for a short delay (backoffDuration: the cap
\* on the shift "guards the 1<<shift multiply below from overflowing", which
\* it does not do; the check of the sign does, for smaller bases).
NotComeAround(product) == product < Pow2[Width - 1] \/ BaseDelay < Pow2[Width - MaxShift]

\* No wait is negative or longer than the maximum, whatever the configuration.
\* And while the backend stays away the waits double until they are the maximum
\* and stay there, jitter apart, unless the base is so large that the product
\* comes around: none of them falls back to a short one, however long the
\* outage lasts and even where base << shift does not fit (Run resets the
\* counter only after an open stream).
OutageBacksOff ==
    attempt > 0 => LET product == BaseDelay * Pow2[Smaller(outage - 1, MaxShift)]
                   IN  /\ delay \in 1..MaxDelay
                       /\ wait \in (delay \div 2)..delay
                       /\ NotComeAround(product) => delay = Smaller(product, MaxDelay)
=============================================================================
