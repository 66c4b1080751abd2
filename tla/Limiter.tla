------------------------------- MODULE Limiter ------------------------------
(***************************************************************************)
(* The per-source token bucket that limits ICMP replies (internal/         *)
(* pmtunotify, Limiter).  Tokens are counted in units of a fraction of a   *)
(* token, and time in ticks in which a bucket gains Rate units.            *)
(***************************************************************************)
EXTENDS Integers, FiniteSets, Sequences, Functions

CONSTANTS
  Sources,       \* inner source addresses
  Unit,          \* units per token
  Rate,          \* units gained per tick
  Burst,         \* tokens of a full bucket
  SoftCap,       \* tracked sources before a sweep makes room (1024)
  SweepStride,   \* calls between two sweeps (128)
  CapIdle,       \* ticks idle before the sweep for room reaps (1 s)
  SweepIdle,     \* ticks idle before the periodic sweep reaps (10 s)
  MaxTime,       \* bound: ticks
  MaxCalls       \* bound: calls

ASSUME LimiterAssumption ==
  /\ {Unit, Rate, Burst, SoftCap, SweepStride} \subseteq Nat \ {0}
  /\ {CapIdle, SweepIdle, MaxTime, MaxCalls} \subseteq Nat

VARIABLES
  now,
  buckets,   \* tracked sources: tokens and time of the last call
  tick,      \* calls since the last sweep
  calls,
  log        \* history: times at which each source was allowed a reply

limiterVars == <<now, buckets, tick, calls, log>>

LimiterInit ==
  /\ now = 0 /\ buckets = <<>> /\ tick = 0 /\ calls = 0
  /\ log = [s \in Sources |-> <<>>]

Least(S) == CHOOSE x \in S : \A y \in S : x <= y

(* Mutant of Reapable: an idle source is reaped with its debt.             *)
ReapableIdle(bs, idle) == {s \in DOMAIN bs : now - bs[s].last > idle}

(* sweepLocked: idle sources whose bucket is full.                         *)
Reapable(bs, idle) ==
  {s \in DOMAIN bs : now - bs[s].last > idle /\ bs[s].tokens >= Burst * Unit}

sweepLocked(bs, idle) == Restrict(bs, DOMAIN bs \ Reapable(bs, idle))

(* A new source starts full; a known one has gained tokens since.          *)
Refilled(s) ==
  IF s \in DOMAIN buckets
  THEN Least({Burst * Unit, buckets[s].tokens + (now - buckets[s].last) * Rate})
  ELSE Burst * Unit

Roomy(s) ==
  IF s \notin DOMAIN buckets /\ Cardinality(DOMAIN buckets) >= SoftCap
  THEN sweepLocked(buckets, CapIdle) ELSE buckets

SweepDue == tick + 1 >= SweepStride

(* Allow(s) at time now.                                                   *)
Allow(s) ==
  LET known == [x \in DOMAIN Roomy(s) \cup {s} |->
                  IF x = s THEN [tokens |-> Refilled(s), last |-> now]
                           ELSE Roomy(s)[x]]
      kept  == IF SweepDue THEN sweepLocked(known, SweepIdle) ELSE known
      ok    == Refilled(s) >= Unit
  IN  /\ calls < MaxCalls /\ calls' = calls + 1
      /\ tick' = IF SweepDue THEN 0 ELSE tick + 1
      /\ buckets' = IF ok THEN [kept EXCEPT ![s].tokens = @ - Unit] ELSE kept
      /\ log' = IF ok THEN [log EXCEPT ![s] = Append(@, now)] ELSE log
      /\ UNCHANGED now

Elapse ==
  /\ now < MaxTime
  /\ now' = now + 1
  /\ UNCHANGED <<buckets, tick, calls, log>>

LimiterNext == Elapse \/ \E s \in Sources : Allow(s)

LimiterSpec == LimiterInit /\ [][LimiterNext]_limiterVars

-----------------------------------------------------------------------------
(* Clock, buckets and log have their types; a bucket holds at most a burst.*)
LimiterTypeOK ==
  /\ now \in 0 .. MaxTime /\ tick \in 0 .. SweepStride - 1 /\ calls \in 0 .. MaxCalls
  /\ DOMAIN buckets \subseteq Sources
  /\ \A s \in DOMAIN buckets : buckets[s] \in [tokens : 0 .. Burst * Unit, last : 0 .. now]
  /\ log \in [Sources -> Seq(0 .. now)]

(* "A per-source token bucket prevents an oversized burst from provoking   *)
(* an ICMP storm" (pmtunotify.go:8): in every interval a source is allowed *)
(* at most a burst and what the rate adds, whatever is reaped in between,  *)
(* and no bucket holds more than a burst.                                  *)
RateBounded ==
  /\ LimiterTypeOK
  /\ \A s \in Sources : \A i, j \in DOMAIN log[s] :
       i <= j => (j - i + 1) * Unit <= Burst * Unit + (log[s][j] - log[s][i]) * Rate

(* "Idle entries are reaped opportunistically" (pmtunotify.go:229): a      *)
(* sweep drops a source that has been idle for longer than SweepIdle.      *)
IdleReaped ==
  [][SweepDue /\ calls' # calls =>
       \A s \in DOMAIN buckets' : now - buckets'[s].last <= SweepIdle]_limiterVars
=============================================================================
