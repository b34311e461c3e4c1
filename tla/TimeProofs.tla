----------------------------- MODULE TimeProofs -----------------------------
(***************************************************************************)
(* dispatch_time saturates and delays are honoured, for every width of the *)
(* word.  The inductive invariant says that a time that was moved is       *)
(* DispatchTime of what it was made of.                                    *)
(***************************************************************************)
EXTENDS Time, TLAPS

TimeTypeOK ==
    /\ now \in Clocks /\ start \in Words /\ moved \in Signed
    /\ when = IF moved = 0 THEN start ELSE DispatchTime(start, moved, now)

(* dispatch_time on the wall clock: exact, first or last.                  *)
LEMMA WallTimeSaturates ==
    ASSUME NEW s \in Words, NEW d \in Signed, s >= HALF, s # FOREVER, d # 0
    PROVE  LET t == -AsSigned(s) + d IN
           IF t > HALF THEN WallTime(s, d) = FOREVER
           ELSE /\ WallTime(s, d) \in HALF..MOD - 2
                /\ -AsSigned(WallTime(s, d)) = IF t < 2 THEN 2 ELSE t
BY HalfAssumption DEF Words, Signed, FOREVER, MOD, WallTime, Wrap, AsSigned

(* dispatch_time on the absolute clock: exact, first or last.              *)
LEMMA MachTimeSaturates ==
    ASSUME NEW s \in 1..HALF - 1, NEW d \in Signed, d # 0
    PROVE  IF s + d > HALF - 1 THEN MachTime(s, d) = FOREVER
           ELSE /\ MachTime(s, d) \in 1..HALF - 1
                /\ MachTime(s, d) = IF s + d < 1 THEN 1 ELSE s + d
BY HalfAssumption DEF Signed, FOREVER, MOD, MachTime, Wrap, AsSigned

(* dispatch_walltime of the clock and _dispatch_timeout of its result.     *)
LEMMA WalltimeDelay ==
    ASSUME NEW n \in Clocks, NEW d \in Signed, d # 0
    PROVE  Timeout(DispatchWalltime(n, d), n) =
             IF d < 0 THEN 0 ELSE IF n + d > HALF - 1 THEN FOREVER ELSE d
PROOF
<1> USE HalfAssumption
<1>0. n \in 2..HALF - 1 /\ d \in -HALF..HALF - 1
  BY DEF Clocks, Signed
<1>1. CASE n + d > HALF - 1
  <2>1. AsSigned(Wrap(n + d)) <= 1 /\ d >= 0
    BY <1>0, <1>1 DEF AsSigned, Wrap, MOD
  <2>2. DispatchWalltime(n, d) = FOREVER
    BY <2>1 DEF DispatchWalltime
  <2> QED BY <1>0, <1>1, <2>1, <2>2 DEF Timeout
<1>2. CASE n + d <= 1
  <2>1. AsSigned(Wrap(n + d)) = n + d /\ d < 0
    BY <1>0, <1>2 DEF AsSigned, Wrap, MOD
  <2>2. DispatchWalltime(n, d) = MOD - 2
    BY <1>0, <1>2, <2>1 DEF DispatchWalltime
  <2>3. AsSigned(MOD - 2) = -2 /\ MOD - 2 # FOREVER /\ MOD - 2 # 0
    BY DEF AsSigned, MOD, FOREVER
  <2> QED BY <1>0, <2>1, <2>2, <2>3 DEF Timeout
<1>3. CASE n + d > 1 /\ n + d <= HALF - 1
  <2>1. AsSigned(Wrap(n + d)) = n + d
    BY <1>0, <1>3 DEF AsSigned, Wrap, MOD
  <2>2. DispatchWalltime(n, d) = MOD - (n + d)
    BY <1>0, <1>3, <2>1 DEF DispatchWalltime, Wrap, MOD
  <2>3. /\ AsSigned(MOD - (n + d)) = -(n + d)
        /\ MOD - (n + d) # FOREVER /\ MOD - (n + d) # 0
    BY <1>0, <1>3 DEF AsSigned, MOD, FOREVER
  <2> QED BY <1>0, <1>3, <2>2, <2>3 DEF Timeout
<1> QED BY <1>0, <1>1, <1>2, <1>3

(* The invariant implies both properties of dispatch_time.                 *)
LEMMA TimeTypeImpliesSound == TimeTypeOK => TimeSound
PROOF
<1> SUFFICES ASSUME TimeTypeOK, moved # 0 PROVE TimeSound
  BY DEF TimeSound, TimeSaturates, DelayHonoured
<1> USE HalfAssumption
<1>0. /\ now \in Clocks /\ start \in Words /\ moved \in Signed
      /\ when = DispatchTime(start, moved, now)
  BY DEF TimeTypeOK
<1>1. TimeSaturates
  <2>1. CASE start = FOREVER
    BY <1>0, <2>1 DEF TimeSaturates, DispatchTime
  <2>2. CASE start # FOREVER /\ start >= HALF
    <3>1. AsSigned(start) < 0 /\ start # 0
      BY <1>0, <2>2 DEF AsSigned, Words, MOD
    <3>2. when = WallTime(start, moved)
      BY <1>0, <2>2, <3>1 DEF DispatchTime
    <3>3. LET t == -AsSigned(start) + moved IN
          IF t > HALF THEN when = FOREVER
          ELSE /\ when \in HALF..MOD - 2
               /\ -AsSigned(when) = IF t < 2 THEN 2 ELSE t
      BY <1>0, <2>2, <3>2, WallTimeSaturates
    <3> QED
      BY <1>0, <2>2, <3>1, <3>3
         DEF TimeSaturates, Nanoseconds, OnWall, AsSigned, FOREVER, MOD, Words, Signed
  <2>3. CASE start < HALF
    <3> DEFINE s == IF start = 0 THEN now ELSE start
    <3>1. s \in 1..HALF - 1 /\ ~(AsSigned(start) < 0) /\ start # FOREVER
      BY <1>0, <2>3 DEF AsSigned, Words, Clocks, FOREVER, MOD
    <3>2. when = MachTime(s, moved)
      BY <1>0, <3>1 DEF DispatchTime
    <3>3. IF s + moved > HALF - 1 THEN when = FOREVER
          ELSE /\ when \in 1..HALF - 1
               /\ when = IF s + moved < 1 THEN 1 ELSE s + moved
      BY <1>0, <3>1, <3>2, MachTimeSaturates
    <3> QED
      BY <1>0, <2>3, <3>1, <3>3
         DEF TimeSaturates, Nanoseconds, OnWall, AsSigned, FOREVER, MOD, Words, Signed
  <2> QED BY <1>0, <2>1, <2>2, <2>3 DEF Words, MOD
<1>2. DelayHonoured
  <2>1. start = 0 => Timeout(when, now) =
          IF moved < 0 THEN 0 ELSE IF now + moved > HALF - 1 THEN FOREVER ELSE moved
    <3> SUFFICES ASSUME start = 0
                 PROVE Timeout(when, now) =
                   IF moved < 0 THEN 0 ELSE IF now + moved > HALF - 1 THEN FOREVER ELSE moved
      OBVIOUS
    <3>1. when = MachTime(now, moved)
      BY <1>0 DEF DispatchTime, FOREVER, MOD, AsSigned
    <3>2. now \in 1..HALF - 1
      BY <1>0 DEF Clocks
    <3>3. IF now + moved > HALF - 1 THEN when = FOREVER
          ELSE /\ when \in 1..HALF - 1
               /\ when = IF now + moved < 1 THEN 1 ELSE now + moved
      BY <1>0, <3>1, <3>2, MachTimeSaturates
    <3> QED BY <1>0, <3>2, <3>3 DEF Timeout, FOREVER, MOD, AsSigned, Signed
  <2> QED BY <1>0, <2>1, WalltimeDelay DEF DelayHonoured
<1> QED BY <1>1, <1>2 DEF TimeSound

(* Every reachable time of dispatch_time saturates and honours its delay,  *)
(* whatever the width of the word.                                         *)
THEOREM TimeSafe == TimeSpec => []TimeSound
PROOF
<1>1. TimeInit => TimeTypeOK
  BY HalfAssumption DEF TimeInit, TimeTypeOK, Signed
<1>2. TimeTypeOK /\ [TimeNext]_timeVars => TimeTypeOK'
  <2> SUFFICES ASSUME TimeTypeOK, [TimeNext]_timeVars PROVE TimeTypeOK'
    OBVIOUS
  <2>1. ASSUME NEW delta \in Signed \ {0}, Move(delta) PROVE TimeTypeOK'
    BY <2>1 DEF TimeTypeOK, Move
  <2>2. CASE UNCHANGED timeVars
    BY <2>2 DEF TimeTypeOK, timeVars
  <2> QED BY <2>1, <2>2 DEF TimeNext
<1> QED BY <1>1, <1>2, TimeTypeImpliesSound, PTL DEF TimeSpec
=============================================================================
