--------------------------- MODULE FutexProofs ---------------------------
(***************************************************************************)
(* Proofs about Futex for every set of threads, every maximum and every    *)
(* number of signals.  The invariant is inductive as a whole: the waiter   *)
(* count is what tells a signal that there is a sleeper, and so what makes *)
(* the signal a rescuer of NoLostWakeup.                                   *)
(***************************************************************************)
EXTENDS Futex, FiniteSetTheorems, TLAPS

Counted == At({"futex_wait", "asleep", "sub"})
IInv == TypeOK /\ NWaitersExact /\ NoLostWakeup

\* The two halves of TypeOK: the flags, and the rest.
FlagTypes == timed \in [Thread -> BOOLEAN] /\ crashed \in BOOLEAN
WordTypes ==
    /\ dfx_value \in 0..VALUE_MAX
    /\ dfx_nwaiters \in Nat
    /\ pc \in [Thread -> Label]
    /\ errno \in [Thread -> Errno]
    /\ signals \in 0..MaxSignals
    /\ taken \in Nat

-----------------------------------------------------------------------------
(* Sets of threads are finite, and a step moves few threads. *)

\* Every set of threads has a cardinality.
LEMMA ThreadSets == ASSUME NEW S \in SUBSET Thread
                    PROVE  IsFiniteSet(S) /\ Cardinality(S) \in Nat
  BY ThreadAssumption, FS_Subset, FS_CardinalityType

\* A thread that joins a set it was not in.
LEMMA Joins == ASSUME NEW S \in SUBSET Thread, NEW t \in Thread \ S
               PROVE  Cardinality(S \cup {t}) = Cardinality(S) + 1
  BY ThreadSets, FS_AddElement

\* A thread that leaves a set it was in.
LEMMA Leaves == ASSUME NEW S \in SUBSET Thread, NEW t \in S
                PROVE  Cardinality(S \ {t}) = Cardinality(S) - 1 /\ Cardinality(S) > 0
  <1>1. IsFiniteSet(S) /\ Cardinality(S) \in Nat
    BY ThreadSets
  <1>2. Cardinality(S \ {t}) = Cardinality(S) - 1
    BY <1>1, FS_RemoveElement, Zenon
  <1>3. Cardinality(S \ {t}) \in Nat
    BY ThreadSets
  <1> QED
    BY <1>1, <1>2, <1>3

\* A set that grows has no fewer members.
LEMMA Grows == ASSUME NEW S \in SUBSET Thread, NEW T \in SUBSET Thread, S \subseteq T
               PROVE  Cardinality(S) <= Cardinality(T)
  BY ThreadSets, FS_Subset

\* The sets of the invariants are sets of threads.
LEMMA SetTypes == Counted \in SUBSET Thread /\ Rescuers \in SUBSET Thread /\ Sleepers \in SUBSET Thread
  BY DEF Counted, Rescuers, Sleepers, At

\* A sleeper is counted, so that a signal sees the count positive.
LEMMA SleeperCounted == ASSUME TypeOK, NWaitersExact, Sleepers # {}
                        PROVE  dfx_nwaiters > 0
  <1>1. PICK s \in Sleepers : TRUE
    OBVIOUS
  <1>2. s \in Counted
    BY DEF Counted, Sleepers, At
  <1>3. Cardinality(Counted) > 0
    BY <1>2, SetTypes, Leaves, Zenon
  <1> QED
    BY <1>3 DEF NWaitersExact, Counted

-----------------------------------------------------------------------------
(* The initial state *)

\* Nobody is counted, and nobody sleeps, when the futex is created.
LEMMA InitIInv == Init => IInv
  <1> SUFFICES ASSUME Init PROVE IInv
    OBVIOUS
  <1>1. Counted = {} /\ Sleepers = {}
    BY DEF Init, Counted, Sleepers, At
  <1>2. TypeOK
    <2>1. WordTypes
      BY BoundAssumption DEF Init, WordTypes, Label, Errno
    <2>2. FlagTypes
      BY Zenon DEF Init, FlagTypes
    <2> QED
      BY <2>1, <2>2 DEF TypeOK, WordTypes, FlagTypes
  <1>3. NWaitersExact
    BY <1>1, FS_EmptySet DEF Init, NWaitersExact, Counted
  <1> QED
    BY <1>1, <1>2, <1>3 DEF IInv, NoLostWakeup

-----------------------------------------------------------------------------
(* The flags *)

\* No step of _dispatch_futex_wait or _dispatch_futex_signal spoils a flag.
LEMMA StepFlags == ASSUME TypeOK, [Next]_vars PROVE FlagTypes'
  <1> USE DEF TypeOK, FlagTypes
  <1>1. CASE UNCHANGED vars
    BY <1>1 DEF vars
  <1>2. CASE Next
    <2>1. PICK t \in Thread : Call(t) \/ Step(t) \/ Disturb(t)
      BY <1>2 DEF Next
    <2>2. CASE Signal(t)
      BY <2>2, Zenon DEF Signal
    <2>3. CASE Wait(t)
      <3>1. PICK b \in BOOLEAN : timed' = [timed EXCEPT ![t] = b]
        BY <2>3, Zenon DEF Wait
      <3>2. crashed' = crashed
        BY <2>3, Zenon DEF Wait, TryWait
      <3>3. timed' \in [Thread -> BOOLEAN]
        BY <3>1, Zenon
      <3> QED
        BY <3>2, <3>3, Zenon
    <2>4. CASE Step(t)
      BY <2>4, Zenon DEF Step, Wake, WaitAgain, Loop, AddWaiter, FutexWait, SubWaiter, Retry, TryWait
    <2>5. CASE Disturb(t)
      BY <2>5, Zenon DEF Disturb, SleepEnds
    <2> QED
      BY <2>1, <2>2, <2>3, <2>4, <2>5 DEF Call
  <1> QED
    BY <1>1, <1>2

-----------------------------------------------------------------------------
(* Each action preserves the rest of the invariant. *)

Rest == WordTypes /\ NWaitersExact /\ NoLostWakeup

\* A signal that sees a waiter becomes a rescuer itself.
LEMMA SignalRest == ASSUME IInv, NEW t \in Thread, Signal(t) PROVE Rest'
  <1> USE DEF IInv, TypeOK
  <1>1. CASE dfx_value = VALUE_MAX
    BY <1>1 DEF Signal, Rest, WordTypes, NWaitersExact, NoLostWakeup, Rescuers, Sleepers, At
  <1>2. CASE dfx_value # VALUE_MAX
    <2>1. WordTypes'
      BY <1>2, BoundAssumption DEF Signal, WordTypes, Goto, Label
    <2>2. Counted' = Counted /\ Sleepers' = Sleepers
      BY <1>2 DEF Signal, Goto, Counted, Sleepers, At, Label
    <2>3. NWaitersExact'
      BY <1>2, <2>2 DEF Signal, NWaitersExact, Counted
    <2>4. NoLostWakeup'
      <3> SUFFICES ASSUME Sleepers # {} PROVE dfx_value' <= Cardinality(Rescuers')
        BY <2>2 DEF NoLostWakeup
      <3>1. dfx_nwaiters > 0
        BY SleeperCounted
      <3>2. Rescuers' = Rescuers \cup {t} /\ t \notin Rescuers
        BY <1>2, <3>1 DEF Signal, Goto, Rescuers, Label, Errno
      <3>3. Cardinality(Rescuers') = Cardinality(Rescuers) + 1
        BY <3>2, SetTypes, Joins
      <3>4. Cardinality(Rescuers) \in Nat
        BY SetTypes, ThreadSets
      <3> QED
        BY <1>2, <3>3, <3>4 DEF Signal, NoLostWakeup
    <2> QED
      BY <2>1, <2>3, <2>4 DEF Rest
  <1> QED
    BY <1>1, <1>2

\* The woken sleeper replaces its waker among the rescuers.
LEMMA WakeRest == ASSUME IInv, NEW t \in Thread, Wake(t) PROVE Rest'
  <1> USE DEF IInv, TypeOK
  <1>1. CASE Sleepers = {}
    <2>1. WordTypes'
      BY <1>1 DEF Wake, WordTypes, Goto, Label
    <2>2. Counted' = Counted /\ Sleepers' = {}
      BY <1>1 DEF Wake, Goto, Counted, Sleepers, At, Label
    <2> QED
      BY <1>1, <2>1, <2>2 DEF Rest, Wake, NWaitersExact, NoLostWakeup, Counted
  <1>2. CASE Sleepers # {}
    <2>1. PICK s \in Sleepers : /\ pc' = [pc EXCEPT ![t] = "idle", ![s] = "sub"]
                                /\ errno' = [errno EXCEPT ![s] = "0"]
      BY <1>2 DEF Wake
    <2>2. s \in Thread /\ pc[s] = "asleep" /\ pc[t] = "wake" /\ s # t
      BY DEF Sleepers, At, Wake
    <2>3. UNCHANGED <<dfx_value, dfx_nwaiters, signals, taken>>
      BY DEF Wake
    <2>4. WordTypes'
      BY <2>1, <2>2, <2>3 DEF WordTypes, Label, Errno
    <2>5. Counted' = Counted
      BY <2>1, <2>2 DEF Counted, At, Label
    <2>6. Rescuers' = (Rescuers \ {t}) \cup {s} /\ t \in Rescuers /\ s \notin Rescuers \ {t}
      BY <2>1, <2>2 DEF Rescuers, Label, Errno
    <2>7. Cardinality(Rescuers \ {t}) = Cardinality(Rescuers) - 1
      BY <2>6, SetTypes, Leaves
    <2>8. Cardinality(Rescuers') = Cardinality(Rescuers \ {t}) + 1
      <3>1. Rescuers \ {t} \in SUBSET Thread /\ s \in Thread \ (Rescuers \ {t})
        BY <2>2, <2>6, SetTypes
      <3> QED
        BY <2>6, <3>1, Joins
    <2>9. Cardinality(Rescuers) \in Nat
      BY SetTypes, ThreadSets
    <2>10. dfx_value <= Cardinality(Rescuers)
      BY <1>2 DEF NoLostWakeup
    <2>11. NoLostWakeup'
      BY <2>3, <2>7, <2>8, <2>9, <2>10 DEF NoLostWakeup
    <2> QED
      BY <2>3, <2>4, <2>5, <2>11 DEF Rest, NWaitersExact, Counted
  <1> QED
    BY <1>1, <1>2

\* A thread that finds no permit, or takes one.  When it fails the value is 0,
\* and when it succeeds one permit and at most one rescuer are gone.
LEMMA TryWaitRest ==
  ASSUME IInv, NEW t \in Thread, NEW success \in {"idle"}, NEW failure \in {"loop", "add", "enter"},
         pc[t] \in {"idle", "enter", "loop", "retry"}, TryWait(t, success, failure)
  PROVE  Rest'
  <1> USE DEF IInv, TypeOK
  <1>1. WordTypes'
    <2>1. dfx_value' \in 0..VALUE_MAX /\ taken' \in Nat
      BY BoundAssumption DEF TryWait
    <2>2. pc' \in [Thread -> Label]
      BY DEF TryWait, Goto, Label
    <2> QED
      BY <2>1, <2>2 DEF TryWait, WordTypes
  <1>2. Counted' = Counted /\ Sleepers' = Sleepers
    BY DEF TryWait, Goto, Counted, Sleepers, At, Label
  <1>3. Cardinality(Rescuers') \in Nat /\ Cardinality(Rescuers) \in Nat
    <2>1. Rescuers' \in SUBSET Thread
      BY DEF Rescuers
    <2> QED
      BY <2>1, SetTypes, ThreadSets
  <1>4. CASE dfx_value = 0
    BY <1>1, <1>2, <1>3, <1>4 DEF Rest, TryWait, NWaitersExact, NoLostWakeup, Counted
  <1>5. CASE dfx_value > 0
    <2>1. Rescuers' = Rescuers \ {t}
      BY <1>5 DEF TryWait, Goto, Rescuers, Label, Errno
    <2>2. Cardinality(Rescuers') >= Cardinality(Rescuers) - 1
      <3>1. CASE t \in Rescuers
        BY <2>1, <3>1, <1>3, SetTypes, Leaves
      <3>2. CASE t \notin Rescuers
        <4>1. Rescuers' = Rescuers
          BY <2>1, <3>2
        <4> QED
          BY <4>1, <1>3
      <3> QED
        BY <3>1, <3>2
    <2> QED
      BY <1>1, <1>2, <1>3, <1>5, <2>2 DEF Rest, TryWait, NWaitersExact, NoLostWakeup, Counted
  <1> QED
    BY <1>4, <1>5

\* Around the system call: who is counted, and who looks at the value again.
LEMMA AddWaiterRest == ASSUME IInv, NEW t \in Thread, AddWaiter(t) PROVE Rest'
  <1> USE DEF IInv, TypeOK
  <1>1. WordTypes'
    BY DEF AddWaiter, Goto, WordTypes, Label
  <1>2. Counted' = Counted \cup {t} /\ t \notin Counted
    BY DEF AddWaiter, Goto, Counted, At, Label
  <1>3. Cardinality(Counted') = Cardinality(Counted) + 1
    BY <1>2, SetTypes, Joins
  <1>4. Sleepers' = Sleepers /\ Rescuers' = Rescuers
    BY DEF AddWaiter, Goto, Sleepers, Rescuers, At, Label
  <1> QED
    BY <1>1, <1>3, <1>4 DEF Rest, AddWaiter, NWaitersExact, NoLostWakeup, Counted

\* A thread falls asleep only when the value is 0.
LEMMA FutexWaitRest == ASSUME IInv, NEW t \in Thread, FutexWait(t) PROVE Rest'
  <1> USE DEF IInv, TypeOK
  <1>1. WordTypes'
    BY DEF FutexWait, Goto, WordTypes, Label, Errno
  <1>2. Counted' = Counted
    BY DEF FutexWait, Goto, Counted, At, Label
  <1>3. Rescuers' \in SUBSET Thread /\ Cardinality(Rescuers') \in Nat
    <2>1. Rescuers' \in SUBSET Thread
      BY DEF Rescuers
    <2> QED
      BY <2>1, ThreadSets
  <1>4. NoLostWakeup'
    <2>1. CASE dfx_value = 0
      BY <1>3, <2>1 DEF FutexWait, NoLostWakeup
    <2>2. CASE dfx_value # 0
      <3>1. Sleepers' = Sleepers /\ Rescuers \subseteq Rescuers'
        BY <2>2 DEF FutexWait, Goto, Sleepers, Rescuers, At, Label, Errno
      <3>2. Cardinality(Rescuers) <= Cardinality(Rescuers') /\ Cardinality(Rescuers) \in Nat
        BY <1>3, <3>1, SetTypes, Grows, ThreadSets
      <3> QED
        BY <1>3, <3>1, <3>2 DEF FutexWait, NoLostWakeup
    <2> QED
      BY <2>1, <2>2
  <1> QED
    BY <1>1, <1>2, <1>4 DEF Rest, FutexWait, NWaitersExact, Counted

\* A sleep that ends early adds a rescuer, or nobody sleeps less.
LEMMA SleepEndsRest ==
  ASSUME IInv, NEW t \in Thread, NEW why \in {"EINTR", "ETIMEDOUT"}, SleepEnds(t, why) PROVE Rest'
  <1> USE DEF IInv, TypeOK
  <1>1. WordTypes'
    BY DEF SleepEnds, Goto, WordTypes, Label, Errno
  <1>2. Counted' = Counted
    BY DEF SleepEnds, Goto, Counted, At, Label
  <1>3. Sleepers # {} /\ Rescuers \subseteq Rescuers'
    BY DEF SleepEnds, Goto, Sleepers, Rescuers, At, Label, Errno
  <1>4. Rescuers' \in SUBSET Thread
    BY DEF Rescuers
  <1>5. /\ Cardinality(Rescuers) <= Cardinality(Rescuers')
        /\ Cardinality(Rescuers) \in Nat /\ Cardinality(Rescuers') \in Nat
    BY <1>3, <1>4, SetTypes, Grows, ThreadSets
  <1> QED
    BY <1>1, <1>2, <1>3, <1>5 DEF Rest, SleepEnds, NWaitersExact, NoLostWakeup, Counted

\* After the call a thread that was not timed out goes on as a rescuer.
LEMMA SubWaiterRest == ASSUME IInv, NEW t \in Thread, SubWaiter(t) PROVE Rest'
  <1> USE DEF IInv, TypeOK
  <1>1. Counted' = Counted \ {t} /\ t \in Counted
    BY DEF SubWaiter, Goto, Counted, At, Label, Errno
  <1>2. Cardinality(Counted') = Cardinality(Counted) - 1 /\ Cardinality(Counted) > 0
    BY <1>1, SetTypes, Leaves
  <1>3. dfx_nwaiters = Cardinality(Counted)
    BY DEF NWaitersExact, Counted
  <1>4. WordTypes'
    <2>1. dfx_nwaiters' \in Nat
      BY <1>2, <1>3 DEF SubWaiter
    <2>2. pc' \in [Thread -> Label]
      BY DEF SubWaiter, Goto, Label, Errno
    <2> QED
      BY <2>1, <2>2, Zenon DEF SubWaiter, WordTypes, Errno
  <1>5. Sleepers' = Sleepers /\ Rescuers' = Rescuers
    BY DEF SubWaiter, Goto, Sleepers, Rescuers, At, Label, Errno
  <1> QED
    BY <1>2, <1>3, <1>4, <1>5 DEF Rest, SubWaiter, NWaitersExact, NoLostWakeup, Counted

-----------------------------------------------------------------------------
(* The invariant is inductive. *)

\* Every step of every thread preserves the invariant.
LEMMA NextIInv == IInv /\ [Next]_vars => IInv'
  <1> SUFFICES ASSUME IInv, [Next]_vars PROVE IInv'
    OBVIOUS
  <1>1. FlagTypes'
    BY StepFlags DEF IInv
  <1>2. Rest'
    <2>1. CASE UNCHANGED vars
      BY <2>1 DEF vars, IInv, TypeOK, Rest, WordTypes, NWaitersExact, NoLostWakeup, Rescuers, Sleepers, At
    <2>2. CASE Next
      <3>1. PICK t \in Thread : Call(t) \/ Step(t) \/ Disturb(t)
        BY <2>2 DEF Next
      <3>2. CASE Signal(t)
        BY <3>2, SignalRest
      <3>3. CASE Wait(t)
        BY <3>3, TryWaitRest DEF Wait
      <3>4. CASE Wake(t)
        BY <3>4, WakeRest
      <3>5. CASE WaitAgain(t)
        BY <3>5, TryWaitRest DEF WaitAgain
      <3>6. CASE Loop(t)
        BY <3>6, TryWaitRest DEF Loop
      <3>7. CASE AddWaiter(t)
        BY <3>7, AddWaiterRest
      <3>8. CASE FutexWait(t)
        BY <3>8, FutexWaitRest
      <3>9. CASE SubWaiter(t)
        BY <3>9, SubWaiterRest
      <3>10. CASE Retry(t)
        BY <3>10, TryWaitRest DEF Retry
      <3>11. CASE Disturb(t)
        BY <3>11, SleepEndsRest DEF Disturb
      <3> QED
        BY <3>1, <3>2, <3>3, <3>4, <3>5, <3>6, <3>7, <3>8, <3>9, <3>10, <3>11 DEF Call, Step
    <2> QED
      BY <2>1, <2>2
  <1>3. TypeOK'
    BY <1>1, <1>2 DEF FlagTypes, Rest, WordTypes, TypeOK
  <1> QED
    BY <1>2, <1>3 DEF IInv, Rest

\* It holds in every reachable state.
LEMMA Invariant == Spec => []IInv
  BY InitIInv, NextIInv, PTL DEF Spec

\* The words of the futex keep their types; the value stays between 0 and
\* DISPATCH_FUTEX_VALUE_MAX.
THEOREM FutexTypes == Spec => []TypeOK
  BY Invariant, PTL DEF IInv

\* The high half of the word counts the threads around FUTEX_WAIT, whatever
\* the order of signals, timeouts and interrupted sleeps.
THEOREM FutexCountsWaiters == Spec => []NWaitersExact
  BY Invariant, PTL DEF IInv

\* No permit is left in the word under a sleeper without a thread that will
\* take it or wake the sleeper up.
THEOREM FutexLosesNoWakeup == Spec => []NoLostWakeup
  BY Invariant, PTL DEF IInv

-----------------------------------------------------------------------------
(* Refinement *)

\* A new futex is a semaphore without permits.
LEMMA InitAbstract == Init => Abstract!Init
  BY DEF Init, Abstract!Init, Waiting, At

\* A try of _dispatch_futex_trywait by a thread inside its wait: it takes a
\* permit and returns, or it is still inside.
LEMMA TryWaitAbstract ==
  ASSUME IInv, NEW t \in Thread, NEW failure \in {"loop", "add", "enter"},
         pc[t] \in {"enter", "loop", "retry"}, TryWait(t, "idle", failure)
  PROVE  Abstract!Next \/ UNCHANGED Abstract!absVars
  <1> USE DEF IInv, TypeOK
  <1>1. CASE dfx_value > 0
    <2>1. Waiting' = Waiting \ {t} /\ t \in Waiting
      BY <1>1 DEF TryWait, Goto, Waiting, At, Label
    <2>2. Abstract!Take(t)
      BY <1>1, <2>1 DEF TryWait, Abstract!Take, Abstract!TakePermit
    <2> QED
      BY <2>2 DEF Abstract!Next
  <1>2. CASE ~(dfx_value > 0)
    <2>1. Waiting' = Waiting
      BY <1>2 DEF TryWait, Goto, Waiting, At, Label
    <2> QED
      BY <1>2, <2>1 DEF TryWait, Abstract!absVars
  <1> QED
    BY <1>1, <1>2

\* Every step is a step of the abstract semaphore, or invisible to it.
LEMMA StepAbstract ==
  ASSUME IInv, [Next]_vars PROVE Abstract!Next \/ UNCHANGED Abstract!absVars
  <1> USE DEF IInv, TypeOK
  <1>1. CASE UNCHANGED vars
    BY <1>1 DEF vars, Abstract!absVars, Waiting, At
  <1>2. CASE Next
    <2>1. PICK t \in Thread : Call(t) \/ Step(t) \/ Disturb(t)
      BY <1>2 DEF Next
    <2>2. CASE Signal(t)
      <3>1. Waiting' = Waiting
        BY <2>2 DEF Signal, Goto, Waiting, At, Label
      <3>2. CASE dfx_value = VALUE_MAX
        BY <2>2, <3>1, <3>2 DEF Signal, Abstract!absVars
      <3>3. CASE dfx_value # VALUE_MAX
        BY <2>2, <3>1, <3>3 DEF Signal, Abstract!Next, Abstract!Signal
      <3> QED
        BY <3>2, <3>3
    <2>3. CASE Wait(t)
      <3>1. CASE dfx_value > 0
        <4>1. Waiting' = Waiting
          BY <2>3, <3>1 DEF Wait, TryWait, Goto, Waiting, At, Label
        <4> QED
          BY <2>3, <3>1, <4>1 DEF Wait, TryWait, Abstract!Next, Abstract!TakeNow, Abstract!TakePermit
      <3>2. CASE ~(dfx_value > 0)
        <4>1. Waiting' = Waiting \cup {t} /\ t \notin Waiting
          BY <2>3, <3>2 DEF Wait, TryWait, Goto, Waiting, At, Label
        <4>2. Abstract!Block(t)
          BY <2>3, <3>2, <4>1 DEF Wait, TryWait, Abstract!Block
        <4> QED
          BY <4>2 DEF Abstract!Next
      <3> QED
        BY <3>1, <3>2
    <2>4. CASE Wake(t)
      <3>1. Waiting' = Waiting
        BY <2>4 DEF Wake, Goto, Sleepers, Waiting, At, Label
      <3> QED
        BY <2>4, <3>1 DEF Wake, Abstract!absVars
    <2>5. CASE WaitAgain(t)
      BY <2>5, TryWaitAbstract DEF WaitAgain
    <2>6. CASE Loop(t)
      BY <2>6, TryWaitAbstract DEF Loop
    <2>7. CASE AddWaiter(t)
      BY <2>7 DEF AddWaiter, Goto, Waiting, At, Label, Abstract!absVars
    <2>8. CASE FutexWait(t)
      BY <2>8 DEF FutexWait, Goto, Waiting, At, Label, Abstract!absVars
    <2>9. CASE SubWaiter(t)
      <3>1. UNCHANGED <<dfx_value, signals, taken>>
        BY <2>9 DEF SubWaiter
      <3>2. CASE errno[t] = "ETIMEDOUT"
        <4>1. Waiting' = Waiting \ {t} /\ t \in Waiting
          BY <2>9, <3>2 DEF SubWaiter, Goto, Waiting, At, Label
        <4>2. Abstract!GiveUp(t)
          BY <3>1, <4>1 DEF Abstract!GiveUp
        <4> QED
          BY <4>2 DEF Abstract!Next
      <3>3. CASE errno[t] # "ETIMEDOUT"
        <4>1. Waiting' = Waiting
          BY <2>9, <3>3 DEF SubWaiter, Goto, Waiting, At, Label, Errno
        <4> QED
          BY <3>1, <4>1 DEF Abstract!absVars
      <3> QED
        BY <3>2, <3>3
    <2>10. CASE Retry(t)
      BY <2>10, TryWaitAbstract DEF Retry
    <2>11. CASE Disturb(t)
      BY <2>11 DEF Disturb, SleepEnds, Goto, Waiting, At, Label, Abstract!absVars
    <2> QED
      BY <2>1, <2>2, <2>3, <2>4, <2>5, <2>6, <2>7, <2>8, <2>9, <2>10, <2>11, SMTT(30) DEF Call, Step
  <1> QED
    BY <1>1, <1>2

\* The futex implements the abstract counting semaphore: every wait that
\* returns 0 took one permit of one signal, and a timeout took none.
THEOREM FutexImplementsSemaphore == Spec => ImplementsSemaphore
  <1>1. IInv /\ [Next]_vars => [Abstract!Next]_(Abstract!absVars)
    BY StepAbstract
  <1> QED
    BY <1>1, InitAbstract, Invariant, PTL DEF Spec, ImplementsSemaphore, Abstract!Spec
==========================================================================
