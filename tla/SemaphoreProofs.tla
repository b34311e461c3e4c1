------------------------- MODULE SemaphoreProofs -------------------------
(***************************************************************************)
(* Proofs about Semaphore for every set of threads, every initial value    *)
(* and every maximum.  WakeupsConserved is inductive by itself; that the   *)
(* object outlives its users follows from it and from an exact count of    *)
(* the references: when the creator has released its own, no thread waits, *)
(* so no signal is on its way to the futex.                                *)
(***************************************************************************)
EXTENDS Semaphore, FiniteSetTheorems, TLAPS

\* Signallers that hold the reference taken by _dispatch_semaphore_signal_slow.
Holding == At({"post", "release"})

\* The reference count, one less than the references as in the code.
RefsExact ==
    /\ do_ref_cnt = Cardinality(Holding) - (IF owned THEN 0 ELSE 1)
    /\ freed <=> do_ref_cnt = -1

OwnerLast == ~owned => Waiting = {}

IInv == TypeOK /\ WakeupsConserved /\ RefsExact /\ OwnerLast

\* The two halves of TypeOK: the flags, and the rest.
FlagTypes ==
    /\ bounded \in [Thread -> BOOLEAN]
    /\ owned \in BOOLEAN
    /\ freed \in BOOLEAN
    /\ crashed \in BOOLEAN
WordTypes ==
    /\ dsema_value \in Int /\ dsema_value <= LONG_MAX
    /\ ksem \in Nat
    /\ pc \in [Thread -> Label]
    /\ do_ref_cnt \in Int
    /\ signals \in 0..MaxSignals
    /\ taken \in Nat

-----------------------------------------------------------------------------
(* Sets of threads *)

\* Every set of threads has a cardinality.
LEMMA ThreadSets == ASSUME NEW S \in SUBSET Thread
                    PROVE  IsFiniteSet(S) /\ Cardinality(S) \in Nat
  BY ThreadAssumption, FS_Subset, FS_CardinalityType

\* A thread that joins a set it was not in.
LEMMA Joins == ASSUME NEW S \in SUBSET Thread, NEW t \in Thread \ S
               PROVE  Cardinality(S \cup {t}) = Cardinality(S) + 1
  BY ThreadSets, FS_AddElement

\* A thread that leaves a set it was in.
LEMMA Leaves == ASSUME NEW S \in SUBSET Thread, NEW t \in S
                PROVE  Cardinality(S \ {t}) = Cardinality(S) - 1
  BY ThreadSets, FS_RemoveElement

\* A set is empty when it has no member.
LEMMA NoMember == ASSUME NEW S \in SUBSET Thread
                  PROVE  Cardinality(S) = 0 <=> S = {}
  BY ThreadSets, FS_EmptySet

\* The sets of the invariants have cardinalities.
LEMMA SetTypes ==
  /\ Waiting \in SUBSET Thread /\ InFlight \in SUBSET Thread /\ Holding \in SUBSET Thread
  /\ Cardinality(Waiting) \in Nat /\ Cardinality(InFlight) \in Nat /\ Cardinality(Holding) \in Nat
  <1>1. Waiting \in SUBSET Thread /\ InFlight \in SUBSET Thread /\ Holding \in SUBSET Thread
    BY DEF Waiting, InFlight, Holding, At
  <1> QED
    BY <1>1, ThreadSets

\* Without waiters there is no signal on its way, and no permit in the futex.
LEMMA NoWaiters == ASSUME IInv, Waiting = {}
                   PROVE  InFlight = {} /\ ksem = 0
  <1>1. Cardinality(Waiting) = 0
    BY NoMember, SetTypes
  <1>2. Deficit >= 0 /\ Deficit \in Int
    BY DEF IInv, TypeOK, Deficit
  <1>3. ksem = 0 /\ Cardinality(InFlight) = 0
    BY <1>1, <1>2, SetTypes DEF IInv, TypeOK, WakeupsConserved
  <1> QED
    BY <1>3, NoMember, SetTypes

\* Once the object is freed nobody is inside its functions.
LEMMA FreedIdle == ASSUME IInv, freed PROVE ~owned /\ \A t \in Thread : pc[t] = "idle"
  <1>1. ~owned /\ Cardinality(Holding) = 0
    BY SetTypes DEF IInv, RefsExact
  <1>2. Waiting = {} /\ Holding = {}
    BY <1>1, NoMember, SetTypes DEF IInv, OwnerLast
  <1>3. InFlight = {}
    BY <1>2, NoWaiters
  <1> QED
    BY <1>1, <1>2, <1>3 DEF IInv, TypeOK, Waiting, Holding, InFlight, At, Label

-----------------------------------------------------------------------------
(* The initial state *)

\* A new semaphore has no waiter and one reference.
LEMMA InitIInv == Init => IInv
  <1> SUFFICES ASSUME Init PROVE IInv
    OBVIOUS
  <1>1. Waiting = {} /\ InFlight = {} /\ Holding = {}
    BY DEF Init, Waiting, InFlight, Holding, At
  <1>2. WordTypes
    BY ValueAssumption, BoundAssumption DEF Init, WordTypes, Label
  <1>3. FlagTypes
    BY Zenon DEF Init, FlagTypes
  <1>4. TypeOK
    BY <1>2, <1>3 DEF TypeOK, WordTypes, FlagTypes
  <1>5. WakeupsConserved
    BY <1>1, FS_EmptySet, ValueAssumption DEF Init, WakeupsConserved, Deficit
  <1>6. RefsExact /\ OwnerLast
    BY <1>1, FS_EmptySet DEF Init, RefsExact, OwnerLast
  <1> QED
    BY <1>4, <1>5, <1>6 DEF IInv

-----------------------------------------------------------------------------
(* The flags *)

\* No step spoils a flag.
LEMMA StepFlags == ASSUME TypeOK, [Next]_vars PROVE FlagTypes'
  <1> USE DEF TypeOK, FlagTypes
  <1>1. CASE UNCHANGED vars
    BY <1>1 DEF vars
  <1>2. ASSUME NEW t \in Thread, Call(t) PROVE FlagTypes'
    <2>1. CASE Signal(t)
      BY <2>1, Zenon DEF Signal
    <2>2. ASSUME NEW timeout \in DOMAIN SlowPath, Wait(t, timeout) PROVE FlagTypes'
      <3>1. bounded' \in [Thread -> BOOLEAN]
        BY <2>2, Zenon DEF Wait
      <3> QED
        BY <2>2, <3>1, Zenon DEF Wait
    <2> QED
      BY <1>2, <2>1, <2>2 DEF Call
  <1>3. ASSUME NEW t \in Thread, Step(t) PROVE FlagTypes'
    <2>1. CASE SignalRetain(t) \/ SignalPost(t) \/ TimedWaitExpires(t)
      BY <2>1, Zenon DEF SignalRetain, SignalPost, TimedWaitExpires
    <2>2. CASE SignalRelease(t)
      BY <2>2, Zenon DEF SignalRelease, Release
    <2>3. CASE TimedWaitWoken(t) \/ SemWait(t)
      BY <2>3, Zenon DEF TimedWaitWoken, SemWait, TakeKernelPermit, Return
    <2>4. CASE Undo(t)
      BY <2>4, Zenon DEF Undo, Return
    <2> QED
      BY <1>3, <2>1, <2>2, <2>3, <2>4 DEF Step
  <1>4. CASE ReleaseOwner
    BY <1>4, Zenon DEF ReleaseOwner, Release
  <1> QED
    BY <1>1, <1>2, <1>3, <1>4 DEF Next

-----------------------------------------------------------------------------
(* Each action preserves the rest of the invariant. *)

Rest == WordTypes /\ WakeupsConserved /\ RefsExact /\ OwnerLast

\* A signal increments the counter: either nobody waits, or it owes a post.
LEMMA SignalRest == ASSUME IInv, NEW t \in Thread, Signal(t) PROVE Rest'
  <1> USE DEF IInv, TypeOK
  <1>1. CASE dsema_value = LONG_MAX
    BY <1>1 DEF Signal, Rest, WordTypes, WakeupsConserved, RefsExact, OwnerLast, Deficit,
                InFlight, Holding, Waiting, At
  <1>2. CASE dsema_value # LONG_MAX
    <2>1. WordTypes'
      BY <1>2, ValueAssumption, BoundAssumption DEF Signal, WordTypes, Goto, Label
    <2>2. Waiting' = Waiting /\ Holding' = Holding
      BY <1>2 DEF Signal, Goto, Waiting, Holding, At, Label
    <2>3. RefsExact' /\ OwnerLast'
      BY <2>2 DEF Signal, RefsExact, OwnerLast
    <2>4. WakeupsConserved'
      <3>1. CASE dsema_value + 1 > 0
        <4>1. InFlight' = InFlight
          BY <1>2, <3>1 DEF Signal, Goto, InFlight, At, Label
        <4> QED
          BY <1>2, <2>2, <3>1, <4>1 DEF Signal, WakeupsConserved, Deficit
      <3>2. CASE ~(dsema_value + 1 > 0)
        <4>1. InFlight' = InFlight \cup {t} /\ t \notin InFlight
          BY <1>2, <3>2 DEF Signal, Goto, InFlight, At, Label
        <4>2. Cardinality(InFlight') = Cardinality(InFlight) + 1
          BY <4>1, SetTypes, Joins
        <4> QED
          BY <1>2, <2>2, <3>2, <4>2, SetTypes DEF Signal, WakeupsConserved, Deficit
      <3> QED
        BY <3>1, <3>2
    <2> QED
      BY <2>1, <2>3, <2>4 DEF Rest
  <1> QED
    BY <1>1, <1>2

\* The reference of _dispatch_semaphore_signal_slow.
LEMMA SignalRetainRest == ASSUME IInv, NEW t \in Thread, SignalRetain(t) PROVE Rest'
  <1> USE DEF IInv, TypeOK
  <1>1. WordTypes'
    BY DEF SignalRetain, WordTypes, Goto, Label
  <1>2. Waiting' = Waiting /\ InFlight' = InFlight /\ Holding' = Holding \cup {t} /\ t \notin Holding
    BY DEF SignalRetain, Goto, Waiting, InFlight, Holding, At, Label
  <1>3. Cardinality(Holding') = Cardinality(Holding) + 1
    BY <1>2, SetTypes, Joins
  <1>4. ~freed
    BY FreedIdle DEF SignalRetain
  <1>5. RefsExact'
    BY <1>3, <1>4, SetTypes DEF SignalRetain, RefsExact
  <1> QED
    BY <1>1, <1>2, <1>5 DEF Rest, SignalRetain, WakeupsConserved, OwnerLast, Deficit

\* The wakeup moves from the signaller to the futex.
LEMMA SignalPostRest == ASSUME IInv, NEW t \in Thread, SignalPost(t) PROVE Rest'
  <1> USE DEF IInv, TypeOK
  <1>1. WordTypes'
    BY DEF SignalPost, WordTypes, Goto, Label
  <1>2. Waiting' = Waiting /\ Holding' = Holding /\ InFlight' = InFlight \ {t} /\ t \in InFlight
    BY DEF SignalPost, Goto, Waiting, InFlight, Holding, At, Label
  <1>3. Cardinality(InFlight') = Cardinality(InFlight) - 1
    BY <1>2, SetTypes, Leaves
  <1>4. WakeupsConserved'
    BY <1>2, <1>3, SetTypes DEF SignalPost, WakeupsConserved, Deficit
  <1> QED
    BY <1>1, <1>2, <1>4 DEF Rest, SignalPost, RefsExact, OwnerLast

\* The signaller's reference goes; the object with it if it was the last.
LEMMA SignalReleaseRest == ASSUME IInv, NEW t \in Thread, SignalRelease(t) PROVE Rest'
  <1> USE DEF IInv, TypeOK
  <1>1. WordTypes'
    BY DEF SignalRelease, Release, WordTypes, Goto, Label
  <1>2. Waiting' = Waiting /\ InFlight' = InFlight /\ Holding' = Holding \ {t} /\ t \in Holding
    BY DEF SignalRelease, Goto, Waiting, InFlight, Holding, At, Label
  <1>3. Cardinality(Holding') = Cardinality(Holding) - 1
    BY <1>2, SetTypes, Leaves
  <1>4. ~freed
    BY FreedIdle DEF SignalRelease
  <1>5. RefsExact'
    <2>1. do_ref_cnt' = do_ref_cnt - 1 /\ owned' = owned
      BY DEF SignalRelease, Release
    <2>2. freed' <=> do_ref_cnt = 0
      BY <1>4, Zenon DEF SignalRelease, Release
    <2>3. do_ref_cnt = 0 <=> do_ref_cnt' = -1
      BY <2>1
    <2>4. do_ref_cnt' = Cardinality(Holding') - (IF owned' THEN 0 ELSE 1)
      BY <1>3, <2>1, SetTypes DEF RefsExact
    <2> QED
      BY <2>2, <2>3, <2>4, Zenon DEF RefsExact
  <1> QED
    BY <1>1, <1>2, <1>5 DEF Rest, SignalRelease, WakeupsConserved, OwnerLast, Deficit

\* The creator's reference goes when no thread waits.
LEMMA ReleaseOwnerRest == ASSUME IInv, ReleaseOwner PROVE Rest'
  <1> USE DEF IInv, TypeOK
  <1>1. WordTypes'
    BY DEF ReleaseOwner, Release, WordTypes
  <1>2. Waiting' = Waiting /\ InFlight' = InFlight /\ Holding' = Holding
    BY DEF ReleaseOwner, Waiting, InFlight, Holding, At
  <1>3. ~freed
    BY FreedIdle DEF ReleaseOwner
  <1>4. RefsExact'
    <2>1. do_ref_cnt' = do_ref_cnt - 1 /\ owned /\ owned' = FALSE
      BY DEF ReleaseOwner, Release
    <2>2. freed' <=> do_ref_cnt = 0
      BY <1>3, Zenon DEF ReleaseOwner, Release
    <2>3. do_ref_cnt = 0 <=> do_ref_cnt' = -1
      BY <2>1
    <2>4. do_ref_cnt' = Cardinality(Holding') - (IF owned' THEN 0 ELSE 1)
      BY <1>2, <2>1, SetTypes DEF RefsExact
    <2> QED
      BY <2>2, <2>3, <2>4, Zenon DEF RefsExact
  <1> QED
    BY <1>1, <1>2, <1>4 DEF Rest, ReleaseOwner, WakeupsConserved, OwnerLast, Deficit

\* A wait decrements the counter and enters the slow path when it is owed.
LEMMA WaitRest ==
  ASSUME IInv, NEW t \in Thread, NEW timeout \in DOMAIN SlowPath, Wait(t, timeout) PROVE Rest'
  <1> USE DEF IInv, TypeOK
  <1>1. SlowPath[timeout] \in {"sem_wait", "undo", "timedwait"}
    BY DEF SlowPath
  <1>2. WordTypes'
    BY <1>1, ValueAssumption DEF Wait, WordTypes, Goto, Label
  <1>3. InFlight' = InFlight /\ Holding' = Holding
    BY <1>1 DEF Wait, Goto, InFlight, Holding, At, Label
  <1>4. RefsExact' /\ OwnerLast'
    BY <1>3 DEF Wait, RefsExact, OwnerLast
  <1>5. WakeupsConserved'
    <2>1. CASE dsema_value - 1 >= 0
      <3>1. Waiting' = Waiting
        BY <2>1 DEF Wait, Goto, Waiting, At, Label
      <3> QED
        BY <1>3, <2>1, <3>1 DEF Wait, WakeupsConserved, Deficit
    <2>2. CASE ~(dsema_value - 1 >= 0)
      <3>1. Waiting' = Waiting \cup {t} /\ t \notin Waiting
        BY <1>1, <2>2 DEF Wait, Goto, Waiting, At, Label
      <3>2. Cardinality(Waiting') = Cardinality(Waiting) + 1
        BY <3>1, SetTypes, Joins
      <3> QED
        BY <1>3, <2>2, <3>2, SetTypes DEF Wait, WakeupsConserved, Deficit
    <2> QED
      BY <2>1, <2>2
  <1> QED
    BY <1>2, <1>4, <1>5 DEF Rest

\* A waiter leaves with a permit of the futex.
LEMMA TakeKernelPermitRest ==
  ASSUME IInv, NEW t \in Thread, pc[t] \in {"timedwait", "sem_wait"}, TakeKernelPermit(t) PROVE Rest'
  <1> USE DEF IInv, TypeOK, TakeKernelPermit, Return, Goto
  <1>1. WordTypes'
    BY DEF WordTypes, Label
  <1>2. InFlight' = InFlight /\ Holding' = Holding /\ Waiting' = Waiting \ {t} /\ t \in Waiting
    BY DEF Waiting, InFlight, Holding, At, Label
  <1>3. Cardinality(Waiting') = Cardinality(Waiting) - 1
    BY <1>2, SetTypes, Leaves
  <1>4. WakeupsConserved'
    BY <1>2, <1>3, SetTypes DEF WakeupsConserved, Deficit
  <1> QED
    BY <1>1, <1>2, <1>4 DEF Rest, RefsExact, OwnerLast

\* A timeout takes the decrement back, or has to drain the wakeup.
LEMMA UndoRest == ASSUME IInv, NEW t \in Thread, Undo(t) PROVE Rest'
  <1> USE DEF IInv, TypeOK
  <1>1. WordTypes'
    BY ValueAssumption DEF Undo, Return, Goto, WordTypes, Label
  <1>2. InFlight' = InFlight /\ Holding' = Holding
    BY DEF Undo, Return, Goto, InFlight, Holding, At, Label
  <1>3. CASE dsema_value < 0
    <2>1. Waiting' = Waiting \ {t} /\ t \in Waiting
      BY <1>3 DEF Undo, Return, Goto, Waiting, At, Label
    <2>2. Cardinality(Waiting') = Cardinality(Waiting) - 1
      BY <2>1, SetTypes, Leaves
    <2>3. WakeupsConserved'
      BY <1>2, <1>3, <2>2, SetTypes DEF Undo, WakeupsConserved, Deficit
    <2> QED
      BY <1>1, <1>2, <2>1, <2>3 DEF Rest, Undo, RefsExact, OwnerLast
  <1>4. CASE ~(dsema_value < 0)
    <2>1. Waiting' = Waiting
      BY <1>4 DEF Undo, Goto, Waiting, At, Label
    <2> QED
      BY <1>1, <1>2, <1>4, <2>1 DEF Rest, Undo, RefsExact, OwnerLast, WakeupsConserved, Deficit
  <1> QED
    BY <1>3, <1>4

\* An expired timeout only moves its thread.
LEMMA TimedWaitExpiresRest == ASSUME IInv, NEW t \in Thread, TimedWaitExpires(t) PROVE Rest'
  <1> USE DEF IInv, TypeOK, TimedWaitExpires, Goto
  <1>1. WordTypes'
    BY DEF WordTypes, Label
  <1>2. InFlight' = InFlight /\ Holding' = Holding /\ Waiting' = Waiting
    BY DEF Waiting, InFlight, Holding, At, Label
  <1> QED
    BY <1>1, <1>2 DEF Rest, RefsExact, OwnerLast, WakeupsConserved, Deficit

-----------------------------------------------------------------------------
(* The invariant is inductive. *)

\* Every step of every thread, and the creator's release, preserves it.
LEMMA NextIInv == IInv /\ [Next]_vars => IInv'
  <1> SUFFICES ASSUME IInv, [Next]_vars PROVE IInv'
    OBVIOUS
  <1>1. FlagTypes'
    BY StepFlags DEF IInv
  <1>2. Rest'
    <2>1. CASE UNCHANGED vars
      BY <2>1 DEF vars, IInv, TypeOK, Rest, WordTypes, WakeupsConserved, RefsExact, OwnerLast,
                  Deficit, Waiting, InFlight, Holding, At
    <2>2. ASSUME NEW t \in Thread, Call(t) PROVE Rest'
      BY <2>2, SignalRest, WaitRest DEF Call
    <2>3. ASSUME NEW t \in Thread, Step(t) PROVE Rest'
      <3>1. CASE SignalRetain(t)
        BY <3>1, SignalRetainRest
      <3>2. CASE SignalPost(t)
        BY <3>2, SignalPostRest
      <3>3. CASE SignalRelease(t)
        BY <3>3, SignalReleaseRest
      <3>4. CASE TimedWaitWoken(t)
        BY <3>4, TakeKernelPermitRest DEF TimedWaitWoken
      <3>5. CASE TimedWaitExpires(t)
        BY <3>5, TimedWaitExpiresRest
      <3>6. CASE Undo(t)
        BY <3>6, UndoRest
      <3>7. CASE SemWait(t)
        BY <3>7, TakeKernelPermitRest DEF SemWait
      <3> QED
        BY <2>3, <3>1, <3>2, <3>3, <3>4, <3>5, <3>6, <3>7 DEF Step
    <2>4. CASE ReleaseOwner
      BY <2>4, ReleaseOwnerRest
    <2> QED
      BY <2>1, <2>2, <2>3, <2>4, SMTT(30) DEF Next
  <1>3. TypeOK'
    BY <1>1, <1>2 DEF FlagTypes, Rest, WordTypes, TypeOK
  <1> QED
    BY <1>2, <1>3 DEF IInv, Rest

\* It holds in every reachable state.
LEMMA Invariant == Spec => []IInv
  BY InitIInv, NextIInv, PTL DEF Spec

\* The counter never passes LONG_MAX and the futex never has a negative count.
THEOREM SemaphoreTypes == Spec => []TypeOK
  BY Invariant, PTL DEF IInv

\* The waiters of the slow path are those owed by the counter plus those whose
\* wakeup is in the futex or on its way.
THEOREM SemaphoreConservesWakeups == Spec => []WakeupsConserved
  BY Invariant, PTL DEF IInv

\* dispatch_semaphore_signal never touches a freed semaphore.
THEOREM SemaphoreOutlivesUsers == Spec => []NoUseAfterFree
  <1>1. IInv => NoUseAfterFree
    BY FreedIdle DEF NoUseAfterFree
  <1> QED
    BY <1>1, Invariant, PTL

-----------------------------------------------------------------------------
(* Refinement *)

\* A new semaphore has Orig permits.
LEMMA InitAbstract == Init => Abstract!Init
  <1> SUFFICES ASSUME Init PROVE Abstract!Init
    OBVIOUS
  <1>1. Waiting = {} /\ InFlight = {}
    BY DEF Init, Waiting, InFlight, At
  <1>2. Permits = Orig
    BY <1>1, FS_EmptySet, ValueAssumption DEF Init, Permits, Surplus
  <1> QED
    BY <1>1, <1>2 DEF Init, Abstract!Init

\* A signal makes one permit, in the counter or on its way to the futex.
LEMMA SignalAbstract ==
  ASSUME IInv, NEW t \in Thread, Signal(t) PROVE Abstract!Next \/ UNCHANGED Abstract!absVars
  <1> USE DEF IInv, TypeOK
  <1>1. Waiting' = Waiting
    BY DEF Signal, Goto, Waiting, At, Label
  <1>2. CASE dsema_value = LONG_MAX
    <2>1. Permits' = Permits
      BY <1>2 DEF Signal, Permits, Surplus, InFlight, At
    <2> QED
      BY <1>1, <1>2, <2>1 DEF Signal, Abstract!absVars
  <1>3. CASE dsema_value # LONG_MAX
    <2>1. Permits' = Permits + 1
      <3>1. CASE dsema_value + 1 > 0
        <4>1. InFlight' = InFlight
          BY <1>3, <3>1 DEF Signal, Goto, InFlight, At, Label
        <4> QED
          BY <1>3, <3>1, <4>1, SetTypes, SMTT(30) DEF Signal, Permits, Surplus
      <3>2. CASE ~(dsema_value + 1 > 0)
        <4>1. InFlight' = InFlight \cup {t} /\ t \notin InFlight
          BY <1>3, <3>2 DEF Signal, Goto, InFlight, At, Label
        <4>2. Cardinality(InFlight') = Cardinality(InFlight) + 1
          BY <4>1, SetTypes, Joins
        <4> QED
          BY <1>3, <3>2, <4>2, SetTypes DEF Signal, Permits, Surplus
      <3> QED
        BY <3>1, <3>2
    <2>2. Abstract!Signal
      BY <1>1, <1>3, <2>1 DEF Signal, Abstract!Signal
    <2> QED
      BY <2>2 DEF Abstract!Next
  <1> QED
    BY <1>2, <1>3

\* A wait takes a permit of the counter, or blocks.
LEMMA WaitAbstract ==
  ASSUME IInv, NEW t \in Thread, NEW timeout \in DOMAIN SlowPath, Wait(t, timeout)
  PROVE  Abstract!Next
  <1> USE DEF IInv, TypeOK
  <1>1. SlowPath[timeout] \in {"sem_wait", "undo", "timedwait"}
    BY DEF SlowPath
  <1>2. InFlight' = InFlight
    BY <1>1 DEF Wait, Goto, InFlight, At, Label
  <1>3. CASE dsema_value - 1 >= 0
    <2>1. Waiting' = Waiting
      BY <1>3 DEF Wait, Goto, Waiting, At, Label
    <2>2. Permits' = Permits - 1 /\ Permits > 0
      BY <1>2, <1>3, SetTypes DEF Wait, Permits, Surplus
    <2>3. Abstract!TakeNow
      BY <1>3, <2>1, <2>2 DEF Wait, Abstract!TakeNow, Abstract!TakePermit
    <2> QED
      BY <2>3 DEF Abstract!Next
  <1>4. CASE ~(dsema_value - 1 >= 0)
    <2>1. Waiting' = Waiting \cup {t} /\ t \notin Waiting
      BY <1>1, <1>4 DEF Wait, Goto, Waiting, At, Label
    <2>2. Permits' = Permits
      BY <1>2, <1>4, SetTypes DEF Wait, Permits, Surplus
    <2>3. Abstract!Block(t)
      BY <1>4, <2>1, <2>2 DEF Wait, Abstract!Block
    <2> QED
      BY <2>3, SMTT(30) DEF Abstract!Next
  <1> QED
    BY <1>3, <1>4

\* A waiter that is woken takes a permit.
LEMMA TakeAbstract ==
  ASSUME IInv, NEW t \in Thread, pc[t] \in {"timedwait", "sem_wait"}, TakeKernelPermit(t)
  PROVE  Abstract!Next
  <1> USE DEF IInv, TypeOK
  <1>1. InFlight' = InFlight /\ Waiting' = Waiting \ {t} /\ t \in Waiting
    BY DEF TakeKernelPermit, Return, Goto, Waiting, InFlight, At, Label
  <1>2. Permits' = Permits - 1 /\ Permits > 0
    BY <1>1, SetTypes DEF TakeKernelPermit, Permits, Surplus
  <1>3. Abstract!Take(t)
    BY <1>1, <1>2 DEF TakeKernelPermit, Abstract!Take, Abstract!TakePermit
  <1> QED
    BY <1>3 DEF Abstract!Next

\* A timeout gives up without a permit, or goes on waiting.
LEMMA UndoAbstract ==
  ASSUME IInv, NEW t \in Thread, Undo(t) PROVE Abstract!Next \/ UNCHANGED Abstract!absVars
  <1> USE DEF IInv, TypeOK
  <1>1. InFlight' = InFlight
    BY DEF Undo, Return, Goto, InFlight, At, Label
  <1>2. Permits' = Permits
    BY <1>1, SetTypes DEF Undo, Permits, Surplus
  <1>3. CASE dsema_value < 0
    <2>1. Waiting' = Waiting \ {t} /\ t \in Waiting
      BY <1>3 DEF Undo, Return, Goto, Waiting, At, Label
    <2>2. Abstract!GiveUp(t)
      BY <1>2, <2>1 DEF Undo, Abstract!GiveUp
    <2> QED
      BY <2>2 DEF Abstract!Next
  <1>4. CASE ~(dsema_value < 0)
    <2>1. Waiting' = Waiting
      BY <1>4 DEF Undo, Goto, Waiting, At, Label
    <2> QED
      BY <1>2, <2>1 DEF Undo, Abstract!absVars
  <1> QED
    BY <1>3, <1>4

\* Every step is a step of the abstract semaphore, or invisible to it.
LEMMA StepAbstract ==
  ASSUME IInv, [Next]_vars PROVE Abstract!Next \/ UNCHANGED Abstract!absVars
  <1> USE DEF IInv, TypeOK
  <1>1. CASE UNCHANGED vars
    BY <1>1 DEF vars, Abstract!absVars, Permits, Surplus, InFlight, Waiting, At
  <1>2. ASSUME NEW t \in Thread, Call(t) PROVE Abstract!Next \/ UNCHANGED Abstract!absVars
    BY <1>2, SignalAbstract, WaitAbstract DEF Call
  <1>3. ASSUME NEW t \in Thread, Step(t) PROVE Abstract!Next \/ UNCHANGED Abstract!absVars
    <2>1. CASE SignalRetain(t)
      BY <2>1 DEF SignalRetain, Goto, Abstract!absVars, Permits, Surplus, InFlight, Waiting, At, Label
    <2>2. CASE SignalPost(t)
      <3>1. Waiting' = Waiting /\ InFlight' = InFlight \ {t} /\ t \in InFlight
        BY <2>2 DEF SignalPost, Goto, Waiting, InFlight, At, Label
      <3>2. Cardinality(InFlight') = Cardinality(InFlight) - 1
        BY <3>1, SetTypes, Leaves
      <3>3. Permits' = Permits
        BY <2>2, <3>2, SetTypes DEF SignalPost, Permits, Surplus
      <3> QED
        BY <2>2, <3>1, <3>3 DEF SignalPost, Abstract!absVars
    <2>3. CASE SignalRelease(t)
      BY <2>3 DEF SignalRelease, Goto, Abstract!absVars, Permits, Surplus, InFlight, Waiting, At, Label
    <2>4. CASE TimedWaitWoken(t) \/ SemWait(t)
      BY <2>4, TakeAbstract DEF TimedWaitWoken, SemWait
    <2>5. CASE TimedWaitExpires(t)
      BY <2>5 DEF TimedWaitExpires, Goto, Abstract!absVars, Permits, Surplus, InFlight, Waiting, At, Label
    <2>6. CASE Undo(t)
      BY <2>6, UndoAbstract
    <2> QED
      BY <1>3, <2>1, <2>2, <2>3, <2>4, <2>5, <2>6, SMTT(30) DEF Step
  <1>4. CASE ReleaseOwner
    BY <1>4 DEF ReleaseOwner, Abstract!absVars, Permits, Surplus, InFlight, Waiting, At
  <1> QED
    BY <1>1, <1>2, <1>3, <1>4 DEF Next

\* dispatch_semaphore_t implements the abstract counting semaphore: a wait
\* that returns 0 took one permit of one signal or of the initial value, and
\* one that times out took none, although it may race with a signal.
THEOREM SemaphoreImplementsCounting == Spec => ImplementsSemaphore
  <1>1. IInv /\ [Next]_vars => [Abstract!Next]_(Abstract!absVars)
    BY StepAbstract
  <1> QED
    BY <1>1, InitAbstract, Invariant, PTL DEF Spec, ImplementsSemaphore, Abstract!Spec
==========================================================================
