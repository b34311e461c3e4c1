---------------------------- MODULE Semaphore ----------------------------
(***************************************************************************)
(* dispatch_semaphore_t: a counter in user space (dsema_value) in front of *)
(* a kernel-backed semaphore (dsema_futex).  The counter alone serves the  *)
(* uncontended calls; a negative counter is minus the number of threads    *)
(* that have to be woken through the futex.  The futex is taken by its     *)
(* specification (CountingSemaphore, which Futex implements): `ksem` holds *)
(* its permits, and a timed wait on it may expire at any moment.           *)
(* The object's life is modelled too: the creator's reference, the         *)
(* reference that _dispatch_semaphore_signal_slow takes, and the dispose.  *)
(***************************************************************************)
EXTENDS Integers, FiniteSets

CONSTANTS Thread,      \* the threads that use the semaphore
          Orig,        \* the value the semaphore is created with
          LONG_MAX,    \* the largest value of dsema_value
          MaxSignals   \* bound of the model: calls of dispatch_semaphore_signal

ASSUME ThreadAssumption == IsFiniteSet(Thread)
ASSUME ValueAssumption == Orig \in Nat /\ LONG_MAX \in Nat /\ Orig <= LONG_MAX
ASSUME BoundAssumption == MaxSignals \in Nat

VARIABLES dsema_value,
          ksem,         \* permits of dsema_futex
          pc,           \* where each thread is, "idle" outside the functions
          bounded,      \* whether its wait has a timeout other than FOREVER
          owned,        \* the creator has not released its reference
          do_ref_cnt,   \* internal references minus one, as in the code
          freed,        \* the object was disposed of
          crashed,      \* a DISPATCH_CLIENT_CRASH was executed
          signals,      \* calls of dispatch_semaphore_signal that incremented the value
          taken         \* calls of dispatch_semaphore_wait that have returned 0

vars == <<dsema_value, ksem, pc, bounded, owned, do_ref_cnt, freed, crashed, signals, taken>>

Label == {"idle", "signal_slow", "post", "release", "timedwait", "undo", "sem_wait"}

TypeOK ==
    /\ dsema_value \in Int /\ dsema_value <= LONG_MAX
    /\ ksem \in Nat
    /\ pc \in [Thread -> Label]
    /\ bounded \in [Thread -> BOOLEAN]
    /\ owned \in BOOLEAN
    /\ do_ref_cnt \in Int
    /\ freed \in BOOLEAN
    /\ crashed \in BOOLEAN
    /\ signals \in 0..MaxSignals
    /\ taken \in Nat

At(labels) == {t \in Thread : pc[t] \in labels}

\* The threads inside _dispatch_semaphore_wait_slow.
Waiting == At({"timedwait", "undo", "sem_wait"})

Init ==
    /\ dsema_value = Orig
    /\ ksem = 0
    /\ pc = [t \in Thread |-> "idle"]
    /\ bounded = [t \in Thread |-> FALSE]
    /\ owned = TRUE
    /\ do_ref_cnt = 0
    /\ freed = FALSE
    /\ crashed = FALSE
    /\ signals = 0
    /\ taken = 0

Goto(t, label) == pc' = [pc EXCEPT ![t] = label]

-----------------------------------------------------------------------------
(* _dispatch_release and _dispatch_semaphore_dispose *)

\* Dropping the last reference disposes of the object, which crashes when
\* the waits are not balanced by signals.
Release ==
    /\ do_ref_cnt' = do_ref_cnt - 1
    /\ freed' = (freed \/ do_ref_cnt = 0)
    /\ crashed' = (crashed \/ (do_ref_cnt = 0 /\ dsema_value < Orig))

\* The creator's dispatch_release.  Every caller of wait holds a reference of
\* its own until the call returns, so the creator's is the last of those.
ReleaseOwner ==
    /\ owned /\ Waiting = {}
    /\ owned' = FALSE
    /\ Release
    /\ UNCHANGED <<dsema_value, ksem, pc, bounded, signals, taken>>

-----------------------------------------------------------------------------
(* dispatch_semaphore_signal and _dispatch_semaphore_signal_slow *)

\* Bug: the comparison is off by one, and a waiter that made the value
\* negative is not woken.
SignalOffByOneBug(t) ==
    /\ pc[t] = "idle" /\ signals < MaxSignals /\ (owned \/ Waiting # {})
    /\ dsema_value < LONG_MAX
    /\ signals' = signals + 1
    /\ dsema_value' = dsema_value + 1
    /\ Goto(t, IF dsema_value + 1 >= 0 THEN "idle" ELSE "signal_slow")
    /\ UNCHANGED <<ksem, bounded, owned, do_ref_cnt, freed, crashed, taken>>

\* The caller relies on the creator's reference or on that of a waiter.  The
\* increment of LONG_MAX wraps to LONG_MIN and stops the process at once, so
\* the wrapped value itself is never seen.
Signal(t) ==
    /\ pc[t] = "idle"
    /\ signals < MaxSignals
    /\ owned \/ Waiting # {}
    /\ IF dsema_value = LONG_MAX
       THEN crashed' = TRUE /\ UNCHANGED <<dsema_value, pc, signals>>
       ELSE /\ dsema_value' = dsema_value + 1
            /\ signals' = signals + 1
            /\ Goto(t, IF dsema_value + 1 > 0 THEN "idle" ELSE "signal_slow")
            /\ UNCHANGED crashed
    /\ UNCHANGED <<ksem, bounded, owned, do_ref_cnt, freed, taken>>

\* Bug: no reference is taken, since a waiter holds one.
SignalRetainMissingBug(t) ==
    /\ pc[t] = "signal_slow"
    /\ Goto(t, "post")
    /\ UNCHANGED <<dsema_value, ksem, bounded, owned, do_ref_cnt, freed, crashed, signals, taken>>

SignalRetain(t) ==
    /\ pc[t] = "signal_slow"
    /\ do_ref_cnt' = do_ref_cnt + 1
    /\ Goto(t, "post")
    /\ UNCHANGED <<dsema_value, ksem, bounded, owned, freed, crashed, signals, taken>>

SignalPost(t) ==
    /\ pc[t] = "post"
    /\ ksem' = ksem + 1
    /\ Goto(t, "release")
    /\ UNCHANGED <<dsema_value, bounded, owned, do_ref_cnt, freed, crashed, signals, taken>>

SignalRelease(t) ==
    /\ pc[t] = "release"
    /\ Release
    /\ Goto(t, "idle")
    /\ UNCHANGED <<dsema_value, ksem, bounded, owned, signals, taken>>

-----------------------------------------------------------------------------
(* dispatch_semaphore_wait and _dispatch_semaphore_wait_slow *)

\* What a wait does after a failed decrement, by its timeout.
SlowPath == [FOREVER |-> "sem_wait", NOW |-> "undo", LATER |-> "timedwait"]

Wait(t, timeout) ==
    /\ pc[t] = "idle"
    /\ owned
    /\ dsema_value' = dsema_value - 1
    /\ Goto(t, IF dsema_value - 1 >= 0 THEN "idle" ELSE SlowPath[timeout])
    /\ bounded' = [bounded EXCEPT ![t] = dsema_value - 1 < 0 /\ timeout # "FOREVER"]
    /\ taken' = IF dsema_value - 1 >= 0 THEN taken + 1 ELSE taken
    /\ UNCHANGED <<ksem, owned, do_ref_cnt, freed, crashed, signals>>

\* The call returns.
Return(t) == Goto(t, "idle") /\ bounded' = [bounded EXCEPT ![t] = FALSE]

TakeKernelPermit(t) ==
    /\ ksem > 0
    /\ ksem' = ksem - 1
    /\ taken' = taken + 1
    /\ Return(t)
    /\ UNCHANGED <<dsema_value, owned, do_ref_cnt, freed, crashed, signals>>

\* The timed wait on the futex is woken ...
TimedWaitWoken(t) == pc[t] = "timedwait" /\ TakeKernelPermit(t)

\* ... or its timeout expires.
TimedWaitExpires(t) ==
    /\ pc[t] = "timedwait"
    /\ Goto(t, "undo")
    /\ UNCHANGED <<dsema_value, ksem, bounded, owned, do_ref_cnt, freed, crashed, signals, taken>>

\* Bug: the decrement is taken back even when a signal has already answered it.
UndoAlwaysBug(t) ==
    /\ pc[t] = "undo"
    /\ dsema_value' = dsema_value + 1
    /\ Return(t)
    /\ UNCHANGED <<ksem, owned, do_ref_cnt, freed, crashed, signals, taken>>

\* Bug: a timeout returns without taking the decrement back.
UndoMissingBug(t) ==
    /\ pc[t] = "undo"
    /\ Return(t)
    /\ UNCHANGED <<dsema_value, ksem, owned, do_ref_cnt, freed, crashed, signals, taken>>

\* Take the decrement back and return a timeout, unless a signal raced with
\* the timeout: then its wakeup has to be drained.
Undo(t) ==
    /\ pc[t] = "undo"
    /\ IF dsema_value < 0
       THEN dsema_value' = dsema_value + 1 /\ Return(t)
       ELSE Goto(t, "sem_wait") /\ UNCHANGED <<dsema_value, bounded>>
    /\ UNCHANGED <<ksem, owned, do_ref_cnt, freed, crashed, signals, taken>>

\* _dispatch_futex_wait without a timeout.
SemWait(t) == pc[t] = "sem_wait" /\ TakeKernelPermit(t)

-----------------------------------------------------------------------------
Step(t) ==
    /\ ~crashed
    /\ \/ SignalRetain(t)
       \/ SignalPost(t)
       \/ SignalRelease(t)
       \/ TimedWaitWoken(t)
       \/ TimedWaitExpires(t)
       \/ Undo(t)
       \/ SemWait(t)

Call(t) == ~crashed /\ (Signal(t) \/ \E timeout \in DOMAIN SlowPath : Wait(t, timeout))

Next == (\E t \in Thread : Call(t) \/ Step(t)) \/ (~crashed /\ ReleaseOwner)

Spec == Init /\ [][Next]_vars

\* Threads keep running, and a clock reaches every timeout.
FairSpec == Spec /\ \A t \in Thread : WF_vars(Step(t))

-----------------------------------------------------------------------------
(* Properties *)

Deficit == IF dsema_value < 0 THEN -dsema_value ELSE 0
Surplus == IF dsema_value > 0 THEN dsema_value ELSE 0

\* Signallers that have incremented the counter and not yet posted the futex.
InFlight == At({"signal_slow", "post"})

\* Conservation of wakeups, the invariant the slow paths rest on: the threads
\* inside _dispatch_semaphore_wait_slow are exactly those still owed by a
\* negative counter plus those whose wakeup is in the futex or on its way,
\* also when a timeout races with a signal.
WakeupsConserved == Cardinality(Waiting) = Deficit + ksem + Cardinality(InFlight)

\* The object is not freed under a signaller: until it has taken its own
\* reference a waiter is still inside its call, as the comment in
\* _dispatch_semaphore_signal_slow claims, and afterwards the reference count
\* keeps the object.
NoUseAfterFree == freed => \A t \in Thread : pc[t] = "idle"

\* Once the signals balance the waits (the counter is not negative), every
\* thread blocked in the untimed wait of the slow path returns, unless a
\* further wait competes with it (or the process crashes).  Of threads that
\* only poll this cannot be said: two of them may keep taking back each
\* other's decrement and leave the futex's permit where it is.
Blocked == At({"sem_wait"})
BalancedWaitersReturn ==
    (dsema_value >= 0 /\ Blocked # {}) ~> (dsema_value < 0 \/ Blocked = {} \/ crashed)

Permits == Surplus + ksem + Cardinality(InFlight)

\* The semaphore implements the abstract one: a wait returns success for
\* exactly one permit, a timeout takes none, and no signal is lost.
Abstract == INSTANCE CountingSemaphore
            WITH Initial <- Orig, permits <- Permits, waiting <- Waiting
ImplementsSemaphore == Abstract!Spec

\* What man/dispatch_semaphore_create.3 says of dispatch_semaphore_wait
\* ("returns zero upon success and non-zero after the timeout expires"): a
\* wait with a timeout, DISPATCH_TIME_NOW included, returns.
TimedWaitReturns == \A t \in Thread : bounded[t] ~> (~bounded[t] \/ crashed)
==========================================================================
