------------------------ MODULE CountingSemaphore ------------------------
(***************************************************************************)
(* What every semaphore of the library promises its callers, whichever way *)
(* it is implemented: one signal makes one permit, a caller that returns   *)
(* with success took exactly one, and a caller that gives up (a timeout)   *)
(* took none.  dispatch_semaphore_t (Semaphore) and the futex word under   *)
(* it (Futex) are both shown to implement this specification.              *)
(***************************************************************************)
EXTENDS Integers

CONSTANTS Thread,    \* the threads that use the semaphore
          Initial    \* the number of permits it is created with

VARIABLES permits,   \* permits that nobody has taken
          waiting,   \* the threads inside a wait that has not returned
          signals,   \* the signals so far
          taken      \* the waits that have returned with success

absVars == <<permits, waiting, signals, taken>>

Init == permits = Initial /\ waiting = {} /\ signals = 0 /\ taken = 0

Signal ==
    /\ permits' = permits + 1
    /\ signals' = signals + 1
    /\ UNCHANGED <<waiting, taken>>

TakePermit ==
    /\ permits > 0
    /\ permits' = permits - 1
    /\ taken' = taken + 1
    /\ UNCHANGED signals

\* A wait that finds a permit at once.
TakeNow == TakePermit /\ UNCHANGED waiting

\* A wait that does not: the thread is inside the call until Take or GiveUp.
Block(t) ==
    /\ t \notin waiting
    /\ waiting' = waiting \cup {t}
    /\ UNCHANGED <<permits, signals, taken>>

Take(t) == t \in waiting /\ TakePermit /\ waiting' = waiting \ {t}

GiveUp(t) ==
    /\ t \in waiting
    /\ waiting' = waiting \ {t}
    /\ UNCHANGED <<permits, signals, taken>>

Next ==
    \/ Signal
    \/ TakeNow
    \/ \E t \in Thread : Block(t) \/ Take(t) \/ GiveUp(t)

Spec == Init /\ [][Next]_absVars
==========================================================================
