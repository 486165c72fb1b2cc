------------------------------- MODULE RateLimit -------------------------------
(* The limiter internal/mcp puts before its tools and internal/api before a    *)
(* login (internal/ratelimit/ratelimit.go).  Allow holds the mutex throughout, *)
(* so a call is one step.  The clock is the monotonic reading of time.Now.     *)
EXTENDS Integers, Sequences

CONSTANTS
  Keys,
  Configured,        \* the per-minute number each key's limiter was built with
  DefaultPerMinute,
  Window,            \* the minute, in clock ticks
  MaxClock,          \* bound: the clock stops
  NoWindow

ASSUME ConfiguredIsInt == Configured \in [Keys -> Int]
ASSUME DefaultIsPositive == DefaultPerMinute \in Nat \ {0}
ASSUME WindowIsPositive == Window \in Nat \ {0}
ASSUME MaxClockIsNat == MaxClock \in Nat
ASSUME NoWindowIsNone == NoWindow \notin [start : Nat, count : Nat]

VARIABLES
  clock,
  windows,     \* counters, with NoWindow for a key never seen
  admitted     \* history: when each call of a key was let through

limiterVars == <<clock, windows, admitted>>

\* NewRateLimiter
PerMin(key) == IF Configured[key] <= 0 THEN DefaultPerMinute ELSE Configured[key]

LimiterInit ==
  /\ clock = 0
  /\ windows = [key \in Keys |-> NoWindow]
  /\ admitted = [key \in Keys |-> << >>]

Opens(key) == windows[key] # NoWindow => clock - windows[key].start >= Window

\* Mutant: one call too many in a window.
AdmitsOneMore(key) == ~Opens(key) => windows[key].count <= PerMin(key)

Admits(key) == ~Opens(key) => windows[key].count < PerMin(key)

\* Allow, when it returns true.
Admit(key) ==
  /\ Admits(key)
  /\ windows' = [windows EXCEPT ![key] =
       IF Opens(key) THEN [start |-> clock, count |-> 1]
       ELSE [start |-> @.start, count |-> @.count + 1]]
  /\ admitted' = [admitted EXCEPT ![key] = Append(@, clock)]
  /\ UNCHANGED clock

\* ... and when it returns false.
Refuse(key) == ~Admits(key) /\ UNCHANGED limiterVars

Tick ==
  /\ clock < MaxClock
  /\ clock' = clock + 1
  /\ UNCHANGED <<windows, admitted>>

LimiterNext == (\E key \in Keys : Admit(key) \/ Refuse(key)) \/ Tick

LimiterSpec == LimiterInit /\ [][LimiterNext]_limiterVars

LimiterTypeOK ==
  /\ clock \in 0..MaxClock
  /\ windows \in [Keys -> [start : Nat, count : Nat] \cup {NoWindow}]
  /\ admitted \in [Keys -> Seq(Nat)]

\* ratelimit.go:67-69: a caller timed at a window's edge bursts twice, "never
\* more than double the configured rate": of 2P + 1 calls let through one after
\* the other, the last is a whole window after the first.
BurstBound ==
  \A key \in Keys : \A i \in DOMAIN admitted[key] :
    i + 2 * PerMin(key) \in DOMAIN admitted[key] =>
      admitted[key][i + 2 * PerMin(key)] - admitted[key][i] >= Window

===============================================================================
