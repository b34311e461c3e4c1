------------------------------- MODULE Once ------------------------------
(***************************************************************************)
(* dispatch_once_f: the predicate is NULL, then a stack of waiters, then   *)
(* DISPATCH_ONCE_DONE.  A waiter is a structure on the stack frame of the  *)
(* thread that waits (dow), here named by that thread; the first one, the  *)
(* bottom of the stack, is that of the thread that runs the function.      *)
(* A waiter sleeps on the semaphore of its thread                          *)
(* (_dispatch_get_thread_semaphore), whose permits are in thread_sema.     *)
(***************************************************************************)
EXTENDS Integers

CONSTANTS Thread,
          NULL,   \* the null pointer
          DONE    \* DISPATCH_ONCE_DONE

ASSUME PointerAssumption == NULL # DONE /\ NULL \notin Thread /\ DONE \notin Thread

VARIABLES vval,         \* *val: NULL, a waiter or DONE
          dow_next,     \* the link of each thread's waiter
          thread_sema,  \* permits of each thread's semaphore
          tmp, sema,    \* local variables of each thread
          pc,
          runs,         \* how often the function was called
          finished      \* the function has returned

vars == <<vval, dow_next, thread_sema, tmp, sema, pc, runs, finished>>

Label == {"idle", "callout", "publish", "walk", "signal", "load", "push", "link", "wait"}
Pointer == Thread \cup {NULL, DONE}

TypeOK ==
    /\ vval \in Pointer
    /\ dow_next \in [Thread -> Pointer]
    /\ thread_sema \in [Thread -> Nat]
    /\ tmp \in [Thread -> Pointer]
    /\ sema \in [Thread -> Pointer]
    /\ pc \in [Thread -> Label]
    /\ runs \in Nat
    /\ finished \in BOOLEAN

Init ==
    /\ vval = NULL
    /\ dow_next = [t \in Thread |-> NULL]
    /\ thread_sema = [t \in Thread |-> 0]
    /\ tmp = [t \in Thread |-> NULL]
    /\ sema = [t \in Thread |-> NULL]
    /\ pc = [t \in Thread |-> "idle"]
    /\ runs = 0
    /\ finished = FALSE

Goto(t, label) == pc' = [pc EXCEPT ![t] = label]

\* The stack frame, and with it the waiter, is gone when the call returns.
Return(t) ==
    /\ Goto(t, "idle")
    /\ dow_next' = [dow_next EXCEPT ![t] = NULL]
    /\ tmp' = [tmp EXCEPT ![t] = NULL]

-----------------------------------------------------------------------------
\* Bug: the predicate is stored and not compared first.
CallStoreBug(t) ==
    /\ pc[t] = "idle" /\ vval # DONE
    /\ vval' = t
    /\ Goto(t, "callout")
    /\ UNCHANGED <<dow_next, thread_sema, tmp, sema, runs, finished>>

\* A call that does not find the predicate DONE (the inline wrapper tests it).
Call(t) ==
    /\ pc[t] = "idle"
    /\ vval # DONE
    /\ IF vval = NULL THEN vval' = t /\ Goto(t, "callout")
                      ELSE Goto(t, "load") /\ UNCHANGED vval
    /\ UNCHANGED <<dow_next, thread_sema, tmp, sema, runs, finished>>

Callout(t) ==
    /\ pc[t] = "callout"
    /\ Goto(t, "publish")
    /\ runs' = runs + 1
    /\ finished' = TRUE
    /\ UNCHANGED <<vval, dow_next, thread_sema, tmp, sema>>

Publish(t) ==
    /\ pc[t] = "publish"
    /\ tmp' = [tmp EXCEPT ![t] = vval]
    /\ vval' = DONE
    /\ Goto(t, "walk")
    /\ UNCHANGED <<dow_next, thread_sema, sema, runs, finished>>

\* The end of the list: the runner's own waiter.
WalkEnd(t) ==
    /\ pc[t] = "walk"
    /\ tmp[t] = t
    /\ Return(t)
    /\ UNCHANGED <<vval, thread_sema, sema, runs, finished>>

\* Read the semaphore and the link of a waiter, once the link is set ...
Walk(t) ==
    /\ pc[t] = "walk" /\ tmp[t] # t
    /\ dow_next[tmp[t]] # NULL
    /\ sema' = [sema EXCEPT ![t] = tmp[t]]
    /\ tmp' = [tmp EXCEPT ![t] = dow_next[tmp[t]]]
    /\ Goto(t, "signal")
    /\ UNCHANGED <<vval, dow_next, thread_sema, runs, finished>>

\* ... and signal it: from here on its stack frame may be gone.
Signal(t) ==
    /\ pc[t] = "signal"
    /\ thread_sema' = [thread_sema EXCEPT ![sema[t]] = @ + 1]
    /\ sema' = [sema EXCEPT ![t] = NULL]
    /\ Goto(t, "walk")
    /\ UNCHANGED <<vval, dow_next, tmp, runs, finished>>

-----------------------------------------------------------------------------
Load(t) ==
    /\ pc[t] = "load"
    /\ IF vval = DONE
       THEN Return(t)
       ELSE Goto(t, "push") /\ tmp' = [tmp EXCEPT ![t] = vval] /\ UNCHANGED dow_next
    /\ UNCHANGED <<vval, thread_sema, sema, runs, finished>>

\* Bug: the waiter is stored without a compare-and-swap.
PushStoreBug(t) ==
    /\ pc[t] = "push"
    /\ vval' = t
    /\ Goto(t, "link")
    /\ UNCHANGED <<dow_next, thread_sema, tmp, sema, runs, finished>>

Push(t) ==
    /\ pc[t] = "push"
    /\ IF vval = tmp[t] THEN vval' = t /\ Goto(t, "link")
                        ELSE Goto(t, "load") /\ UNCHANGED vval
    /\ UNCHANGED <<dow_next, thread_sema, tmp, sema, runs, finished>>

Link(t) ==
    /\ pc[t] = "link"
    /\ dow_next' = [dow_next EXCEPT ![t] = tmp[t]]
    /\ Goto(t, "wait")
    /\ UNCHANGED <<vval, thread_sema, tmp, sema, runs, finished>>

\* Bug: the waiter polls the predicate and does not wait for its signal.
WaitPollsBug(t) ==
    /\ pc[t] = "wait" /\ vval = DONE
    /\ Goto(t, "load")
    /\ UNCHANGED <<vval, dow_next, thread_sema, tmp, sema, runs, finished>>

Wait(t) ==
    /\ pc[t] = "wait"
    /\ thread_sema[t] > 0
    /\ thread_sema' = [thread_sema EXCEPT ![t] = @ - 1]
    /\ Goto(t, "load")
    /\ UNCHANGED <<vval, dow_next, tmp, sema, runs, finished>>

-----------------------------------------------------------------------------
Step(t) ==
    \/ Callout(t) \/ Publish(t) \/ WalkEnd(t) \/ Walk(t) \/ Signal(t)
    \/ Load(t) \/ Push(t) \/ Link(t) \/ Wait(t)

Next == \E t \in Thread : Call(t) \/ Step(t)

Spec == Init /\ [][Next]_vars

\* Threads keep running, and the function returns.
FairSpec == Spec /\ \A t \in Thread : WF_vars(Step(t))

-----------------------------------------------------------------------------
(* Properties *)

\* The function is called at most once, and a caller that finds or makes the
\* predicate DONE does so after the function has returned.
RunsOnce == runs <= 1 /\ (vval = DONE => finished)

\* The runner reads and signals the waiters of threads that are still inside
\* their call: none has returned, and freed its waiter, before it is
\* signalled.
WaitersAlive ==
    \A t \in Thread :
        /\ pc[t] = "walk" => tmp[t] = t \/ (tmp[t] \in Thread /\ pc[tmp[t]] \in {"link", "wait"})
        /\ pc[t] = "signal" => sema[t] \in Thread /\ pc[sema[t]] = "wait"

\* A thread's semaphore is signalled once for each wait: it has no permit
\* left when its next user takes it.
SemaphoreClean ==
    \A t \in Thread : thread_sema[t] <= IF pc[t] = "wait" THEN 1 ELSE 0

\* Every caller returns.
CallersReturn == \A t \in Thread : pc[t] # "idle" ~> pc[t] = "idle"
==========================================================================
