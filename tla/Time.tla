-------------------------------- MODULE Time --------------------------------
(***************************************************************************)
(* dispatch_time_t (time.c): an unsigned 64-bit word that holds a time of  *)
(* the absolute clock if it is positive as a signed one, minus a time of   *)
(* the wall clock if it is negative, 0 for now and -1 for ever.  HALF      *)
(* stands for 2^63.  The absolute clock counts nanoseconds, as on x86.     *)
(***************************************************************************)
EXTENDS Integers

CONSTANT HALF
ASSUME HalfAssumption == HALF \in Nat /\ HALF > 3

MOD == 2 * HALF
Words == 0..MOD - 1                 \* uint64_t
Signed == -HALF..HALF - 1           \* int64_t
FOREVER == MOD - 1                  \* DISPATCH_TIME_FOREVER

\* Arithmetic modulo 2^64 on results that are off by at most one turn, and the
\* cast to int64_t.
Wrap(x) == IF x < 0 THEN x + MOD ELSE IF x >= MOD THEN x - MOD ELSE x
AsSigned(x) == IF x >= HALF THEN x - MOD ELSE x

\* Bug: the boundary is off by one: the result can be FOREVER.
WallTimeBug(inval, delta) ==
    LET t == Wrap(inval - delta) IN
    IF delta >= 0 THEN IF AsSigned(t) >= 0 THEN FOREVER ELSE t
    ELSE IF AsSigned(t) > -1 THEN MOD - 2 ELSE t

\* dispatch_time on a time of the wall clock ...
WallTime(inval, delta) ==
    LET t == Wrap(inval - delta) IN
    IF delta >= 0 THEN IF AsSigned(t) >= 0 THEN FOREVER ELSE t
    ELSE IF AsSigned(t) >= -1 THEN MOD - 2 ELSE t

\* ... and of the absolute clock.
MachTime(inval, delta) ==
    LET t == Wrap(inval + delta) IN
    IF delta >= 0 THEN IF AsSigned(t) <= 0 THEN FOREVER ELSE t
    ELSE IF AsSigned(t) < 1 THEN 1 ELSE t

DispatchTime(inval, delta, now) ==
    IF inval = FOREVER THEN FOREVER
    ELSE IF AsSigned(inval) < 0 THEN WallTime(inval, delta)
    ELSE MachTime(IF inval = 0 THEN now ELSE inval, delta)

\* dispatch_walltime; nsec is the time given, or the clock.
DispatchWalltime(nsec, delta) ==
    LET t == AsSigned(Wrap(nsec + delta)) IN
    IF t <= 1 THEN IF delta >= 0 THEN FOREVER ELSE MOD - 2 ELSE Wrap(-t)

\* _dispatch_timeout: how long to wait until a time, now being the clock it is on.
Timeout(when, now) ==
    IF when = FOREVER THEN FOREVER
    ELSE IF when = 0 THEN 0
    ELSE LET t == IF AsSigned(when) < 0 THEN -AsSigned(when) ELSE when
         IN IF now >= t THEN 0 ELSE t - now

VARIABLES when, start, now, moved   \* a time, what it was made of, the clock
timeVars == <<when, start, now, moved>>

Clocks == 2..HALF - 1               \* the clocks are past their first instant
TimeInit ==
    /\ now \in Clocks /\ start \in Words /\ moved = 0
    /\ when = start

\* A program moves a time by delta.
Move(delta) ==
    /\ moved = 0
    /\ when' = DispatchTime(when, delta, now)
    /\ moved' = delta
    /\ UNCHANGED <<start, now>>

TimeNext == \E delta \in Signed \ {0} : Move(delta)
TimeSpec == TimeInit /\ [][TimeNext]_timeVars

\* The nanoseconds a word stands for on its clock, and the last time there is.
Nanoseconds(t, n) ==
    IF t = 0 THEN n ELSE IF AsSigned(t) < 0 THEN -AsSigned(t) ELSE t
OnWall(t) == AsSigned(t) < 0

(* Adding to a time saturates and never wraps, which is what the tests on  *)
(* signs in dispatch_time are for: the result is exact if the clock can    *)
(* represent it, for ever if it is too late, the first instant of the same *)
(* clock if it is too early, and for ever stays for ever.                  *)
TimeSaturates ==
    LET sum == Nanoseconds(start, now) + moved
        first == IF OnWall(start) THEN 2 ELSE 1
        last == IF OnWall(start) THEN HALF ELSE HALF - 1
    IN moved # 0 =>
         IF start = FOREVER THEN when = FOREVER
         ELSE IF sum > last THEN when = FOREVER
         ELSE /\ when # FOREVER /\ when # 0 /\ (OnWall(when) <=> OnWall(start))
              /\ Nanoseconds(when, now) = IF sum < first THEN first ELSE sum

(* A delay made into a time, of either clock, is the delay that            *)
(* _dispatch_timeout finds when it is asked at once; a negative one is     *)
(* over and one past the end of the clock lasts for ever.                  *)
DelayHonoured ==
    LET delay == IF moved < 0 THEN 0 ELSE IF now + moved > HALF - 1 THEN FOREVER ELSE moved
    IN moved # 0 =>
         /\ start = 0 => Timeout(when, now) = delay
         /\ Timeout(DispatchWalltime(now, moved), now) = delay

(* dispatch_time, dispatch_walltime and _dispatch_timeout keep both.       *)
TimeSound == TimeSaturates /\ DelayHonoured
=============================================================================
