------------------------------ MODULE Futex ------------------------------
(***************************************************************************)
(* dispatch_futex_t: the counting semaphore of the Linux build             *)
(* (CMakeLists.txt sets USE_FUTEX_SEM).  One 64-bit word holds the value   *)
(* (low 32 bits) and the number of threads around the futex system call    *)
(* (high 32 bits); every step below is one atomic operation on that word   *)
(* or one system call.  A load followed by a compare-and-swap on the whole *)
(* word that is retried until it succeeds is one atomic step.              *)
(* The callers' loops `while (ret == -1 && errno == EINTR)` around         *)
(* _dispatch_futex_wait are part of the wait.                              *)
(***************************************************************************)
EXTENDS Integers, FiniteSets

CONSTANTS Thread,      \* the threads that share the futex
          VALUE_MAX,   \* DISPATCH_FUTEX_VALUE_MAX
          MaxSignals   \* bound of the model: calls of _dispatch_futex_signal

ASSUME ThreadAssumption == IsFiniteSet(Thread)
ASSUME BoundAssumption == VALUE_MAX \in Nat /\ MaxSignals \in Nat

VARIABLES dfx_value,     \* low half of dfx_data
          dfx_nwaiters,  \* high half of dfx_data
          pc,            \* where each thread is, "idle" outside the functions
          timed,         \* whether its wait has a timeout
          errno,         \* what its last FUTEX_WAIT returned, "0" for success
          crashed,       \* DISPATCH_CRASH was executed: the process is gone
          signals,       \* calls of _dispatch_futex_signal that incremented the value
          taken          \* waits that have returned 0

vars == <<dfx_value, dfx_nwaiters, pc, timed, errno, crashed, signals, taken>>

Label == {"idle", "wake", "enter", "loop", "add", "futex_wait", "asleep", "sub", "retry"}
Errno == {"0", "EWOULDBLOCK", "EINTR", "ETIMEDOUT"}

TypeOK ==
    /\ dfx_value \in 0..VALUE_MAX
    /\ dfx_nwaiters \in Nat
    /\ pc \in [Thread -> Label]
    /\ timed \in [Thread -> BOOLEAN]
    /\ errno \in [Thread -> Errno]
    /\ crashed \in BOOLEAN
    /\ signals \in 0..MaxSignals
    /\ taken \in Nat

At(labels) == {t \in Thread : pc[t] \in labels}
Sleepers == At({"asleep"})

Init ==
    /\ dfx_value = 0
    /\ dfx_nwaiters = 0
    /\ pc = [t \in Thread |-> "idle"]
    /\ timed = [t \in Thread |-> FALSE]
    /\ errno = [t \in Thread |-> "0"]
    /\ crashed = FALSE
    /\ signals = 0
    /\ taken = 0

Goto(t, label) == pc' = [pc EXCEPT ![t] = label]

-----------------------------------------------------------------------------
(* _dispatch_futex_signal *)

\* Bug: only the signal that makes the value positive wakes a sleeper.
SignalWakesOnceBug(t) ==
    /\ pc[t] = "idle" /\ signals < MaxSignals /\ dfx_value # VALUE_MAX
    /\ signals' = signals + 1
    /\ dfx_value' = dfx_value + 1
    /\ Goto(t, IF dfx_nwaiters > 0 /\ dfx_value = 0 THEN "wake" ELSE "idle")
    /\ UNCHANGED <<dfx_nwaiters, timed, errno, crashed, taken>>

\* The increment reads the number of waiters in the same atomic operation.
Signal(t) ==
    /\ pc[t] = "idle"
    /\ signals < MaxSignals
    /\ IF dfx_value = VALUE_MAX
       THEN crashed' = TRUE /\ UNCHANGED <<dfx_value, pc, signals>>
       ELSE /\ dfx_value' = dfx_value + 1
            /\ signals' = signals + 1
            /\ Goto(t, IF dfx_nwaiters > 0 THEN "wake" ELSE "idle")
            /\ UNCHANGED crashed
    /\ UNCHANGED <<dfx_nwaiters, timed, errno, taken>>

\* FUTEX_WAKE of one sleeper; which one is the kernel's choice.
Wake(t) ==
    /\ pc[t] = "wake"
    /\ IF Sleepers = {}
       THEN Goto(t, "idle") /\ UNCHANGED errno
       ELSE \E s \in Sleepers :
                /\ pc' = [pc EXCEPT ![t] = "idle", ![s] = "sub"]
                /\ errno' = [errno EXCEPT ![s] = "0"]
    /\ UNCHANGED <<dfx_value, dfx_nwaiters, timed, crashed, signals, taken>>

-----------------------------------------------------------------------------
(* _dispatch_futex_wait and _dispatch_futex_wait_slow *)

\* _dispatch_futex_trywait: decrement the value if it is positive.
TryWait(t, success, failure) ==
    /\ IF dfx_value > 0
       THEN dfx_value' = dfx_value - 1 /\ taken' = taken + 1 /\ Goto(t, success)
       ELSE Goto(t, failure) /\ UNCHANGED <<dfx_value, taken>>
    /\ UNCHANGED <<dfx_nwaiters, errno, crashed, signals>>

\* Entry of _dispatch_futex_wait, with or without a timeout.
Wait(t) ==
    /\ pc[t] = "idle"
    /\ \E b \in BOOLEAN : timed' = [timed EXCEPT ![t] = b]
    /\ TryWait(t, "idle", "loop")

\* The caller's loop calls _dispatch_futex_wait again after EINTR.
WaitAgain(t) == pc[t] = "enter" /\ TryWait(t, "idle", "loop") /\ UNCHANGED timed

\* The condition of the loop in _dispatch_futex_wait_slow (the spinning
\* before it only reads).
Loop(t) == pc[t] = "loop" /\ TryWait(t, "idle", "add") /\ UNCHANGED timed

AddWaiter(t) ==
    /\ pc[t] = "add"
    /\ dfx_nwaiters' = dfx_nwaiters + 1
    /\ Goto(t, "futex_wait")
    /\ UNCHANGED <<dfx_value, timed, errno, crashed, signals, taken>>

\* Bug: the system call does not compare the value with the expected 0.
FutexWaitUncomparedBug(t) ==
    /\ pc[t] = "futex_wait"
    /\ Goto(t, "asleep")
    /\ UNCHANGED <<dfx_value, dfx_nwaiters, timed, errno, crashed, signals, taken>>

\* FUTEX_WAIT with the expected value 0: the kernel compares the value and
\* queues the thread in one atomic step.
FutexWait(t) ==
    /\ pc[t] = "futex_wait"
    /\ IF dfx_value = 0
       THEN Goto(t, "asleep") /\ UNCHANGED errno
       ELSE Goto(t, "sub") /\ errno' = [errno EXCEPT ![t] = "EWOULDBLOCK"]
    /\ UNCHANGED <<dfx_value, dfx_nwaiters, timed, crashed, signals, taken>>

\* The sleep ends without a FUTEX_WAKE: a signal handler ran, or the
\* timeout of a timed wait expired.
SleepEnds(t, why) ==
    /\ pc[t] = "asleep"
    /\ why = "ETIMEDOUT" => timed[t]
    /\ Goto(t, "sub")
    /\ errno' = [errno EXCEPT ![t] = why]
    /\ UNCHANGED <<dfx_value, dfx_nwaiters, timed, crashed, signals, taken>>

\* Bug: a timed wait that fails with EWOULDBLOCK reports a timeout and
\* leaves its waiter count behind.
SubWaiterLeakBug(t) ==
    /\ pc[t] = "sub"
    /\ dfx_nwaiters' = IF errno[t] = "EWOULDBLOCK" /\ timed[t]
                       THEN dfx_nwaiters ELSE dfx_nwaiters - 1
    /\ Goto(t, IF errno[t] = "0" \/ (errno[t] = "EWOULDBLOCK" /\ ~timed[t])
               THEN "loop" ELSE "idle")
    /\ errno' = [errno EXCEPT ![t] = "0"]
    /\ UNCHANGED <<dfx_value, timed, crashed, signals, taken>>

\* The decrement after the system call, and the switch on its result: a
\* timeout returns to the caller, EINTR makes the caller call again.
SubWaiter(t) ==
    /\ pc[t] = "sub"
    /\ dfx_nwaiters' = dfx_nwaiters - 1
    /\ Goto(t, CASE errno[t] = "0" -> "loop"
                 [] errno[t] = "EWOULDBLOCK" -> IF timed[t] THEN "retry" ELSE "loop"
                 [] errno[t] = "EINTR" -> "enter"
                 [] errno[t] = "ETIMEDOUT" -> "idle")
    /\ errno' = [errno EXCEPT ![t] = "0"]
    /\ UNCHANGED <<dfx_value, timed, crashed, signals, taken>>

\* Bug: the result of the second try is not looked at.
RetryIgnoredBug(t) ==
    /\ pc[t] = "retry"
    /\ dfx_value' = IF dfx_value > 0 THEN dfx_value - 1 ELSE dfx_value
    /\ Goto(t, "enter")
    /\ UNCHANGED <<dfx_nwaiters, timed, errno, crashed, signals, taken>>

\* EWOULDBLOCK in a timed wait: one more try, then EINTR so that the caller
\* recomputes the timeout.
Retry(t) == pc[t] = "retry" /\ TryWait(t, "idle", "enter") /\ UNCHANGED timed

-----------------------------------------------------------------------------
\* The steps a thread takes inside the functions without waiting for anyone.
Step(t) ==
    /\ ~crashed
    /\ \/ Wake(t)
       \/ WaitAgain(t)
       \/ Loop(t)
       \/ AddWaiter(t)
       \/ FutexWait(t)
       \/ SubWaiter(t)
       \/ Retry(t)

Call(t) == ~crashed /\ (Signal(t) \/ Wait(t))

Disturb(t) == ~crashed /\ \E why \in {"EINTR", "ETIMEDOUT"} : SleepEnds(t, why)

Next == \E t \in Thread : Call(t) \/ Step(t) \/ Disturb(t)

Spec == Init /\ [][Next]_vars

\* The operating system keeps running every thread that can run.
FairSpec == Spec /\ \A t \in Thread : WF_vars(Step(t))

-----------------------------------------------------------------------------
(* Properties *)

\* The high half of the word counts exactly the threads between the
\* increment and the decrement around FUTEX_WAIT, so a later signal neither
\* misses a sleeper nor issues system calls for threads long gone.
NWaitersExact == dfx_nwaiters = Cardinality(At({"futex_wait", "asleep", "sub"}))

\* The threads that will look at the value again without further help.
Rescuers == {t \in Thread : \/ pc[t] \in {"wake", "loop", "enter", "retry"}
                            \/ pc[t] = "sub" /\ errno[t] # "ETIMEDOUT"}

\* No lost wakeup: while a thread sleeps in FUTEX_WAIT, every permit in the
\* word is matched by a thread that is about to take one or to wake a
\* sleeper.  This is what the atomic "increment and read the waiter count"
\* of _dispatch_futex_signal and the compare inside FUTEX_WAIT are for.
NoLostWakeup == Sleepers # {} => dfx_value <= Cardinality(Rescuers)

\* A permit that is available while a thread sleeps is taken: the value
\* returns to 0 or nobody sleeps any more (or the process has crashed on
\* the overflow check).
SleeperServed == (dfx_value > 0 /\ Sleepers # {}) ~> (dfx_value = 0 \/ Sleepers = {} \/ crashed)

\* The futex implements a counting semaphore: what a wait returns
\* with is one permit of one signal; a timeout takes none.
Waiting == At({"enter", "loop", "add", "futex_wait", "asleep", "sub", "retry"})
Abstract == INSTANCE CountingSemaphore
            WITH Initial <- 0, permits <- dfx_value, waiting <- Waiting
ImplementsSemaphore == Abstract!Spec
==========================================================================
