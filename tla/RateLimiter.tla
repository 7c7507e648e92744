------------------------------- MODULE RateLimiter -------------------------------
(***************************************************************************)
(* The token bucket that the clones of one engine share.  A request reads  *)
(* the clock, waits for the bucket's lock, refills the bucket up to what   *)
(* it has read, and takes a token or is told how long to sleep.  Nothing   *)
(* queues: whoever comes first after the refill takes the token.           *)
(*                                                                         *)
(* The bucket is measured in ticks: it earns one in each tick, and a token *)
(* is Period of them.                                                      *)
(***************************************************************************)
EXTENDS Integers

CONSTANTS
  Callers,        (* tasks that send requests                              *)
  Burst,          (* tokens the bucket holds, the configured ones at least *)
  Period,         (* ticks that earn a token                               *)
  Limited,        (* FALSE: the configured rate is not positive            *)
  MaxLag,         (* bound: ticks between reading the clock and the lock   *)
  MaxStarts,      (* bound: requests of a caller                           *)
  MaxIdle,        (* bound on the clock while nobody has to sleep          *)
  MaxClock        (* bound on the clock                                    *)

ASSUME RateAssumption ==
  /\ Burst \in Nat /\ Period \in Nat \ {0} /\ Limited \in BOOLEAN
  /\ MaxLag \in Nat /\ MaxStarts \in Nat /\ MaxIdle \in Nat /\ MaxClock \in Nat

VARIABLES
  clock,
  tokens,         (* of the bucket, in ticks                               *)
  lastRefill,     (* the clock the bucket is refilled up to                *)
  phase,          (* where a caller is                                     *)
  read,           (* the clock it has read, or the one it sleeps until     *)
  started,        (* requests it has been let to start                     *)
  cancelled,      (* callers whose run is cancelled                        *)
  window          (* history: since when, and the ticks spent since then   *)

rateVars == <<clock, tokens, lastRefill, phase, read, started, cancelled, window>>

Full == (IF Burst = 0 THEN 1 ELSE Burst) * Period
Least(a, b) == IF a <= b THEN a ELSE b

Phases == {"ready", "reading", "sleeping", "refused"}

RateInit ==
  /\ clock = 0 /\ tokens = Full /\ lastRefill = 0
  /\ phase = [c \in Callers |-> "ready"] /\ read = [c \in Callers |-> 0]
  /\ started = [c \in Callers |-> 0] /\ cancelled = {}
  /\ window = [since |-> 0, spent |-> 0]

\* A caller reads the clock before it has the lock.
ReadClock(c) ==
  /\ phase[c] = "ready" /\ started[c] < MaxStarts /\ c \notin cancelled
  /\ phase' = [phase EXCEPT ![c] = "reading"] /\ read' = [read EXCEPT ![c] = clock]
  /\ UNCHANGED <<clock, tokens, lastRefill, started, cancelled, window>>

Refilled(now) ==
  IF ~Limited THEN Full
  ELSE IF now <= lastRefill THEN tokens ELSE Least(tokens + now - lastRefill, Full)

\* mutant: a clock read before the last refill sets it back
RefilledToBack(now) == now

RefilledTo(now) == IF Limited /\ now <= lastRefill THEN lastRefill ELSE now

Spend(c) ==
  /\ Refilled(read[c]) >= Period
  /\ tokens' = Refilled(read[c]) - Period
  /\ phase' = [phase EXCEPT ![c] = "ready"] /\ started' = [started EXCEPT ![c] = @ + 1]
  /\ window' = [window EXCEPT !.spent = @ + Period]
  /\ UNCHANGED read

\* The sleep starts now, whenever the clock was read.
Sleep(c) ==
  /\ Refilled(read[c]) < Period
  /\ tokens' = Refilled(read[c])
  /\ phase' = [phase EXCEPT ![c] = "sleeping"]
  /\ read' = [read EXCEPT ![c] = clock + Period - Refilled(read[c])]
  /\ UNCHANGED <<started, window>>

Acquire(c) ==
  /\ phase[c] = "reading"
  /\ lastRefill' = RefilledTo(read[c])
  /\ Spend(c) \/ Sleep(c)
  /\ UNCHANGED <<clock, cancelled>>

\* After its sleep a caller starts over.
Wake(c) ==
  /\ phase[c] = "sleeping" /\ c \notin cancelled /\ clock >= read[c]
  /\ phase' = [phase EXCEPT ![c] = "ready"]
  /\ UNCHANGED <<clock, tokens, lastRefill, read, started, cancelled, window>>

\* mutant: a sleep is not cut short by a cancellation
RefuseReady(c) ==
  /\ phase[c] = "ready" /\ c \in cancelled
  /\ phase' = [phase EXCEPT ![c] = "refused"]
  /\ UNCHANGED <<clock, tokens, lastRefill, read, started, cancelled, window>>

\* A cancelled run is refused before it reads the clock and while it sleeps, but
\* not while it waits for the lock.
Refuse(c) ==
  /\ phase[c] \in {"ready", "sleeping"} /\ c \in cancelled
  /\ phase' = [phase EXCEPT ![c] = "refused"]
  /\ UNCHANGED <<clock, tokens, lastRefill, read, started, cancelled, window>>

Cancel(c) ==
  /\ cancelled' = cancelled \union {c}
  /\ UNCHANGED <<clock, tokens, lastRefill, phase, read, started, window>>

Tick ==
  /\ clock < MaxClock
  /\ clock < MaxIdle \/ \E c \in Callers : phase[c] = "sleeping" /\ clock < read[c]
  /\ \A c \in Callers : phase[c] = "reading" => clock - read[c] < MaxLag
  /\ clock' = clock + 1
  /\ UNCHANGED <<tokens, lastRefill, phase, read, started, cancelled, window>>

\* An observer starts to count.
Observe ==
  /\ window' = [since |-> clock, spent |-> 0]
  /\ UNCHANGED <<clock, tokens, lastRefill, phase, read, started, cancelled>>

Step(c) == ReadClock(c) \/ Acquire(c) \/ Wake(c) \/ Refuse(c)

RateNext == Tick \/ Observe \/ \E c \in Callers : Step(c) \/ Cancel(c)

RateSpec == RateInit /\ [][RateNext]_rateVars

-----------------------------------------------------------------------------
BucketTypeOK ==
  /\ clock \in Nat /\ tokens \in Nat /\ lastRefill \in Nat
  /\ phase \in [Callers -> Phases] /\ read \in [Callers -> Nat] /\ started \in [Callers -> Nat]
  /\ cancelled \subseteq Callers /\ window \in [since : Nat, spent : Nat]

\* Requests per second means that in any stretch of time, whenever it starts and
\* however late the callers come with the clocks they read, no more requests start
\* than a full bucket and what that stretch earns.
AnyWindow ==
  Limited => window.spent <= Full + (clock - window.since) + MaxLag

\* The bucket never holds more than the burst, and is never refilled from the
\* future.
BucketBounded == tokens <= Full /\ lastRefill <= clock

\* With the finitely many requests of the others in its way, a caller that has come
\* to ask starts all of its requests or has been cancelled.
EveryRequestStarts ==
  \A c \in Callers : phase[c] \in {"reading", "sleeping"} ~> started[c] = MaxStarts \/ c \in cancelled

\* A cancelled caller does not stay asleep, or in wait for anything else.
CancelReleases ==
  \A c \in Callers : c \in cancelled ~> phase[c] \in {"refused", "ready"}

\* The bucket's books are right at every moment and over any stretch of time.
RateKept == BucketTypeOK /\ BucketBounded /\ AnyWindow

\* Every request gets its turn, and a cancelled caller is let go.
NobodySleepsOn == EveryRequestStarts /\ CancelReleases
=============================================================================
