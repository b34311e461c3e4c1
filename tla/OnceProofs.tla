---------------------------- MODULE OnceProofs ---------------------------
(***************************************************************************)
(* Proofs about Once for every set of threads.  The stack of waiters is    *)
(* described without reachability: the successor of a waiter on the stack  *)
(* is on the stack or is the runner, no two have the same successor, and   *)
(* none has the top as its successor.  So whatever the runner pops is a    *)
(* waiter, and what remains is still a stack.                              *)
(***************************************************************************)
EXTENDS Once, TLAPS

Runners == {t \in Thread : pc[t] \in {"callout", "publish", "walk", "signal"}}
Walkers == {t \in Thread : pc[t] \in {"walk", "signal"}}

\* The waiters that the runner has not yet removed from the stack.
Stacked == {t \in Thread : \/ pc[t] = "link"
                           \/ /\ pc[t] = "wait" /\ thread_sema[t] = 0
                              /\ \A u \in Thread : sema[u] # t}

\* Who runs the function, and how far it is.
Control ==
    /\ vval = NULL => runs = 0 /\ \A t \in Thread : pc[t] = "idle"
    /\ vval \in Thread => \E r \in Thread : pc[r] \in {"callout", "publish"}
    /\ vval = DONE => runs <= 1 /\ finished
    /\ \A t, u \in Runners : t = u
    /\ \A t \in Thread : pc[t] = "callout" => vval \in Thread /\ runs = 0
    /\ \A t \in Thread : pc[t] = "publish" => vval \in Thread /\ runs <= 1 /\ finished
    /\ \A t \in Walkers : vval = DONE

\* The local variables of a waiter, its link and its semaphore.
Locals ==
    \A t \in Thread :
        /\ pc[t] = "push" => tmp[t] \in Thread
        /\ pc[t] \in {"push", "link"} => dow_next[t] = NULL
        /\ pc[t] = "load" /\ vval # DONE => dow_next[t] = NULL
        /\ pc[t] = "idle" => dow_next[t] = NULL
        /\ pc[t] = "wait" => dow_next[t] = tmp[t]
        /\ thread_sema[t] > 0 => thread_sema[t] = 1 /\ pc[t] = "wait" /\ vval = DONE
        /\ pc[t] # "signal" => sema[t] = NULL
        /\ pc[t] = "signal" => sema[t] \in Thread /\ pc[sema[t]] = "wait" /\ thread_sema[sema[t]] = 0

\* The stack, from *val or from the runner's tmp down to the runner.
Stack ==
    /\ vval \in Thread => vval \in Stacked \cup Runners
    /\ \A r \in Walkers : tmp[r] \in Stacked \cup {r}
    /\ \A t \in Stacked : tmp[t] \in Stacked \cup Runners
    /\ \A t, u \in Stacked : t # u => tmp[t] # tmp[u]
    /\ \A t \in Stacked : tmp[t] # vval
    /\ \A t \in Stacked, r \in Walkers : tmp[t] # tmp[r]

IInv == TypeOK /\ Control /\ Locals /\ Stack

Words ==
    /\ vval \in Pointer
    /\ dow_next \in [Thread -> Pointer]
    /\ thread_sema \in [Thread -> Nat]
    /\ tmp \in [Thread -> Pointer]
    /\ sema \in [Thread -> Pointer]
    /\ pc \in [Thread -> Label]
    /\ runs \in Nat

Rest == Words /\ Control /\ Locals /\ Stack

-----------------------------------------------------------------------------
(* The initial state and the flag *)

\* Before the first call nobody is on the stack.
LEMMA InitIInv == Init => IInv
  <1> SUFFICES ASSUME Init PROVE IInv
    OBVIOUS
  <1>1. Words
    BY DEF Init, Words, Pointer, Label
  <1>2. finished \in BOOLEAN
    BY Zenon DEF Init
  <1>3. Runners = {} /\ Walkers = {} /\ Stacked = {}
    BY DEF Init, Runners, Walkers, Stacked
  <1>4. Control
    BY <1>3, PointerAssumption DEF Init, Control
  <1>5. Locals
    <2>1. \A t \in Thread : pc[t] = "idle" /\ dow_next[t] = NULL /\ thread_sema[t] = 0 /\ sema[t] = NULL
      BY Zenon DEF Init
    <2>2. ~(0 > 0)
      OBVIOUS
    <2> QED
      BY <2>1, <2>2, Zenon DEF Locals
  <1>6. Stack
    BY <1>3, PointerAssumption DEF Init, Stack
  <1> QED
    BY <1>1, <1>2, <1>4, <1>5, <1>6 DEF IInv, TypeOK, Words

\* Only the return of the function changes the flag.
LEMMA StepFinished == ASSUME TypeOK, [Next]_vars PROVE finished' \in BOOLEAN
  <1>1. CASE UNCHANGED vars
    BY <1>1 DEF TypeOK, vars
  <1>2. CASE Next
    BY <1>2, Zenon DEF TypeOK, Next, Step, Call, Callout, Publish, WalkEnd, Walk, Signal, Load, Push, Link, Wait
  <1> QED
    BY <1>1, <1>2

-----------------------------------------------------------------------------
(* Each action preserves the rest. *)

\* The first caller makes itself the bottom of the stack.
LEMMA CallRest == ASSUME IInv, NEW t \in Thread, Call(t) PROVE Rest'
  <1> USE DEF IInv, TypeOK
  <1>1. Words'
    BY DEF Call, Goto, Words, Pointer, Label
  <1>2. CASE vval = NULL
    <2>1. \A u \in Thread : pc[u] = "idle"
      BY <1>2 DEF Control
    <2>2. pc' = [pc EXCEPT ![t] = "callout"] /\ vval' = t /\ UNCHANGED <<dow_next, thread_sema, tmp, sema, runs, finished>>
      BY <1>2 DEF Call, Goto
    <2>3. Runners' = {t} /\ Walkers' = {} /\ Stacked' = {}
      BY <2>1, <2>2 DEF Runners, Walkers, Stacked
    <2>4. Control'
      BY <1>2, <2>1, <2>2, <2>3, PointerAssumption DEF Control
    <2>5. Locals'
      BY <1>2, <2>1, <2>2, PointerAssumption DEF Locals
    <2>6. Stack'
      BY <2>2, <2>3 DEF Stack
    <2> QED
      BY <1>1, <2>4, <2>5, <2>6 DEF Rest
  <1>3. CASE vval # NULL
    <2>1. pc[t] = "idle" /\ vval # DONE /\ pc' = [pc EXCEPT ![t] = "load"]
          /\ UNCHANGED <<vval, dow_next, thread_sema, tmp, sema, runs, finished>>
      BY <1>3 DEF Call, Goto
    <2>2. Runners' = Runners /\ Walkers' = Walkers /\ Stacked' = Stacked
      BY <2>1 DEF Runners, Walkers, Stacked
    <2>3. Control'
      BY <1>3, <2>1, <2>2 DEF Control
    <2>4. Locals'
      BY <1>3, <2>1 DEF Locals
    <2>5. Stack'
      BY <2>1, <2>2 DEF Stack
    <2> QED
      BY <1>1, <2>3, <2>4, <2>5 DEF Rest
  <1> QED
    BY <1>2, <1>3

\* The function runs.
LEMMA CalloutRest == ASSUME IInv, NEW t \in Thread, Callout(t) PROVE Rest'
  <1> USE DEF IInv, TypeOK
  <1>1. Words'
    BY DEF Callout, Goto, Words, Label
  <1>2. pc[t] = "callout" /\ pc' = [pc EXCEPT ![t] = "publish"] /\ runs' = runs + 1 /\ finished'
        /\ UNCHANGED <<vval, dow_next, thread_sema, tmp, sema>>
    BY DEF Callout, Goto
  <1>3. Runners' = Runners /\ Walkers' = Walkers /\ Stacked' = Stacked /\ t \in Runners
    BY <1>2 DEF Runners, Walkers, Stacked
  <1>4. vval \in Thread /\ runs = 0
    BY <1>2 DEF Control
  <1>5. Control'
    BY <1>2, <1>3, <1>4, PointerAssumption DEF Control, Runners
  <1>6. Locals'
    BY <1>2 DEF Locals
  <1>7. Stack'
    BY <1>2, <1>3 DEF Stack
  <1> QED
    BY <1>1, <1>5, <1>6, <1>7 DEF Rest

\* DONE is published, and the runner owns the stack.
LEMMA PublishRest == ASSUME IInv, NEW t \in Thread, Publish(t) PROVE Rest'
  <1> USE DEF IInv, TypeOK
  <1>1. Words'
    BY DEF Publish, Goto, Words, Label, Pointer
  <1>2. pc[t] = "publish" /\ pc' = [pc EXCEPT ![t] = "walk"] /\ vval' = DONE /\ tmp' = [tmp EXCEPT ![t] = vval]
        /\ UNCHANGED <<dow_next, thread_sema, sema, runs, finished>>
    BY DEF Publish, Goto
  <1>3. Runners' = Runners /\ Stacked' = Stacked /\ t \in Runners /\ t \notin Stacked
    BY <1>2 DEF Runners, Stacked
  <1>4. Runners = {t}
    BY <1>3 DEF Control
  <1>5. Walkers' = {t}
    BY <1>2, <1>4 DEF Walkers, Runners
  <1>6. vval \in Thread /\ runs <= 1 /\ finished
    BY <1>2 DEF Control
  <1>7. Control'
    BY <1>2, <1>3, <1>4, <1>5, <1>6, PointerAssumption DEF Control, Runners
  <1>8. Locals'
    BY <1>2, SMTT(30) DEF Locals
  <1>9. Stack'
    BY <1>2, <1>3, <1>4, <1>5, <1>6, PointerAssumption DEF Stack, Stacked
  <1> QED
    BY <1>1, <1>7, <1>8, <1>9 DEF Rest

\* The runner returns; nobody on the stack refers to it.
LEMMA WalkEndRest == ASSUME IInv, NEW t \in Thread, WalkEnd(t) PROVE Rest'
  <1> USE DEF IInv, TypeOK
  <1>1. Words'
    BY DEF WalkEnd, Return, Goto, Words, Label, Pointer
  <1>2. pc[t] = "walk" /\ tmp[t] = t /\ pc' = [pc EXCEPT ![t] = "idle"]
        /\ dow_next' = [dow_next EXCEPT ![t] = NULL] /\ tmp' = [tmp EXCEPT ![t] = NULL]
        /\ UNCHANGED <<vval, thread_sema, sema, runs, finished>>
    BY DEF WalkEnd, Return, Goto
  <1>3. Runners = {t} /\ Walkers = {t}
    BY <1>2 DEF Control, Runners, Walkers
  <1>4. Runners' = {} /\ Walkers' = {} /\ Stacked' = Stacked /\ t \notin Stacked
    BY <1>2, <1>3 DEF Runners, Walkers, Stacked
  <1>5. vval = DONE
    BY <1>3 DEF Control
  <1>6. Control'
    BY <1>2, <1>4, <1>5, PointerAssumption DEF Control, Walkers, Runners
  <1>7. Locals'
    BY <1>2, SMTT(30) DEF Locals
  <1>8. Stack'
    BY <1>2, <1>3, <1>4, <1>5, PointerAssumption DEF Stack, Stacked
  <1> QED
    BY <1>1, <1>6, <1>7, <1>8 DEF Rest

\* The top of the stack is removed: it is a waiter whose link is set.
LEMMA WalkRest == ASSUME IInv, NEW t \in Thread, Walk(t) PROVE Rest'
  <1> USE DEF IInv, TypeOK
  <1>1. t \in Walkers /\ t \in Runners
    BY DEF Walk, Walkers, Runners
  <1>2. Runners = {t} /\ Walkers = {t} /\ vval = DONE
    BY <1>1 DEF Control, Runners, Walkers
  <1>3. PICK u \in Thread : u = tmp[t] /\ u \in Stacked /\ u # t
    BY <1>1 DEF Walk, Stack, Stacked
  <1>4. dow_next[u] # NULL /\ pc[u] = "wait" /\ thread_sema[u] = 0 /\ dow_next[u] = tmp[u]
    BY <1>3 DEF Walk, Locals, Stacked
  <1>5. pc[t] = "walk" /\ pc' = [pc EXCEPT ![t] = "signal"] /\ sema' = [sema EXCEPT ![t] = u]
        /\ tmp' = [tmp EXCEPT ![t] = tmp[u]] /\ UNCHANGED <<vval, dow_next, thread_sema, runs, finished>>
    BY <1>3, <1>4 DEF Walk, Goto
  <1>6. Words'
    BY <1>3, <1>5 DEF Words, Label, Pointer
  <1>7. Runners' = {t} /\ Walkers' = {t}
    BY <1>2, <1>5 DEF Runners, Walkers
  <1>8. Stacked' = Stacked \ {u}
    <2>1. sema[t] = NULL
      BY <1>5 DEF Locals
    <2> QED
      BY <1>3, <1>4, <1>5, <2>1, PointerAssumption DEF Stacked
  <1>9. Control'
    BY <1>2, <1>5, <1>7, PointerAssumption DEF Control, Runners, Walkers
  <1>10. Locals'
    BY <1>3, <1>4, <1>5 DEF Locals
  <1>11. tmp[u] # u
    BY <1>1, <1>3, SMTT(30) DEF Stack
  <1>12. Stack'
    <2>1. t \notin Stacked
      BY <1>5 DEF Stacked
    <2> QED
      BY <1>1, <1>2, <1>3, <1>5, <1>7, <1>8, <1>11, <2>1, PointerAssumption, SMTT(30) DEF Stack, Stacked
  <1> QED
    BY <1>6, <1>9, <1>10, <1>12 DEF Rest

\* The waiter is signalled: from now on it may return.
LEMMA SignalRest == ASSUME IInv, NEW t \in Thread, Signal(t) PROVE Rest'
  <1> USE DEF IInv, TypeOK
  <1>1. PICK u \in Thread : u = sema[t] /\ pc[u] = "wait" /\ thread_sema[u] = 0
    BY DEF Signal, Locals
  <1>2. pc[t] = "signal" /\ pc' = [pc EXCEPT ![t] = "walk"] /\ sema' = [sema EXCEPT ![t] = NULL]
        /\ thread_sema' = [thread_sema EXCEPT ![u] = 1] /\ UNCHANGED <<vval, dow_next, tmp, runs, finished>>
    BY <1>1 DEF Signal, Goto
  <1>3. Words'
    BY <1>1, <1>2 DEF Words, Label, Pointer
  <1>4. Runners' = Runners /\ Walkers' = Walkers /\ t \in Walkers /\ t \in Runners
    BY <1>2 DEF Runners, Walkers
  <1>5. vval = DONE
    BY <1>4 DEF Control
  <1>6. Stacked' = Stacked
    <2>1. u \notin Stacked
      BY <1>1 DEF Stacked
    <2> QED
      BY <1>1, <1>2, <2>1, PointerAssumption DEF Stacked
  <1>7. Control'
    BY <1>2, <1>4, <1>5, PointerAssumption DEF Control, Walkers, Runners
  <1>8. Locals'
    <2> SUFFICES ASSUME NEW w \in Thread PROVE Locals!(w)'
      BY DEF Locals
    <2>1. pc[w] = "signal" => w = t
      BY <1>2 DEF Control, Runners
    <2> QED
      BY <1>1, <1>2, <1>5, <2>1, SMTT(30) DEF Locals
  <1>9. Stack'
    BY <1>2, <1>4, <1>6 DEF Stack
  <1> QED
    BY <1>3, <1>7, <1>8, <1>9 DEF Rest

\* A caller reads the predicate; it is on nobody's stack.
LEMMA LoadRest == ASSUME IInv, NEW t \in Thread, Load(t) PROVE Rest'
  <1> USE DEF IInv, TypeOK
  <1>1. Words'
    BY DEF Load, Return, Goto, Words, Label, Pointer
  <1>2. pc[t] = "load" /\ UNCHANGED <<vval, thread_sema, sema, runs, finished>> /\ vval # NULL
    BY DEF Load, Control
  <1>3. /\ pc' = [pc EXCEPT ![t] = IF vval = DONE THEN "idle" ELSE "push"]
        /\ tmp' = [tmp EXCEPT ![t] = IF vval = DONE THEN NULL ELSE vval]
        /\ dow_next' = IF vval = DONE THEN [dow_next EXCEPT ![t] = NULL] ELSE dow_next
    BY DEF Load, Return, Goto
  <1>4. Runners' = Runners /\ Walkers' = Walkers /\ Stacked' = Stacked
        /\ t \notin Runners /\ t \notin Walkers /\ t \notin Stacked
    BY <1>2, <1>3 DEF Runners, Walkers, Stacked
  <1>5. Control'
    BY <1>2, <1>3, <1>4 DEF Control
  <1>6. Locals'
    BY <1>2, <1>3, SMTT(30) DEF Locals, Pointer
  <1>7. Stack'
    BY <1>2, <1>3, <1>4 DEF Stack, Stacked, Walkers
  <1> QED
    BY <1>1, <1>5, <1>6, <1>7 DEF Rest

\* The new top has the old top as its successor, which nobody else has.
LEMMA PushRest == ASSUME IInv, NEW t \in Thread, Push(t) PROVE Rest'
  <1> USE DEF IInv, TypeOK
  <1>1. Words'
    BY DEF Push, Goto, Words, Label, Pointer
  <1>2. pc[t] = "push" /\ tmp[t] \in Thread /\ dow_next[t] = NULL
    BY DEF Push, Locals
  <1>3. UNCHANGED <<dow_next, thread_sema, tmp, sema, runs, finished>>
    BY DEF Push
  <1>4. CASE vval = tmp[t]
    <2>1. vval' = t /\ pc' = [pc EXCEPT ![t] = "link"]
      BY <1>4 DEF Push, Goto
    <2>2. /\ Runners' = Runners /\ Walkers' = Walkers /\ Stacked' = Stacked \cup {t}
          /\ t \notin Runners /\ t \notin Stacked
      BY <1>2, <1>3, <2>1 DEF Runners, Walkers, Stacked
    <2>3. Walkers = {}
      BY <1>2, <1>4, PointerAssumption DEF Control
    <2>4. Control'
      BY <1>2, <1>3, <1>4, <2>1, <2>2, <2>3, PointerAssumption DEF Control
    <2>5. Locals'
      BY <1>2, <1>3, <1>4, <2>1, PointerAssumption DEF Locals
    <2>6. vval \in Stacked \cup Runners
      BY <1>2, <1>4 DEF Stack
    <2>7. Stack'
      BY <1>2, <1>3, <1>4, <2>1, <2>2, <2>3, <2>6 DEF Stack
    <2> QED
      BY <1>1, <2>4, <2>5, <2>7 DEF Rest
  <1>5. CASE vval # tmp[t]
    <2>1. vval' = vval /\ pc' = [pc EXCEPT ![t] = "load"]
      BY <1>5 DEF Push, Goto
    <2>2. Runners' = Runners /\ Walkers' = Walkers /\ Stacked' = Stacked
      BY <1>2, <1>3, <2>1 DEF Runners, Walkers, Stacked
    <2>3. Control'
      BY <1>2, <1>3, <2>1, <2>2 DEF Control
    <2>4. Locals'
      BY <1>2, <1>3, <2>1 DEF Locals
    <2>5. Stack'
      BY <1>3, <2>1, <2>2 DEF Stack
    <2> QED
      BY <1>1, <2>3, <2>4, <2>5 DEF Rest
  <1> QED
    BY <1>4, <1>5

\* Setting the link publishes the successor that tmp already names.
LEMMA LinkRest == ASSUME IInv, NEW t \in Thread, Link(t) PROVE Rest'
  <1> USE DEF IInv, TypeOK
  <1>1. Words'
    BY DEF Link, Goto, Words, Label, Pointer
  <1>2. pc[t] = "link" /\ pc' = [pc EXCEPT ![t] = "wait"] /\ dow_next' = [dow_next EXCEPT ![t] = tmp[t]]
        /\ UNCHANGED <<vval, thread_sema, tmp, sema, runs, finished>>
    BY DEF Link, Goto
  <1>3. thread_sema[t] = 0
    BY <1>2 DEF Locals
  <1>4. \A u \in Thread : sema[u] # t
    BY <1>2, PointerAssumption DEF Locals
  <1>5. Runners' = Runners /\ Walkers' = Walkers
    BY <1>2 DEF Runners, Walkers
  <1>6. Stacked' = Stacked
    BY <1>2, <1>3, <1>4 DEF Stacked
  <1>7. Control'
    BY <1>2, <1>5, PointerAssumption DEF Control
  <1>8. Locals'
    BY <1>2, <1>3, <1>4 DEF Locals
  <1>9. Stack'
    BY <1>2, <1>5, <1>6 DEF Stack
  <1> QED
    BY <1>1, <1>7, <1>8, <1>9 DEF Rest

\* A waiter that takes its permit has been removed from the stack.
LEMMA WaitRest == ASSUME IInv, NEW t \in Thread, Wait(t) PROVE Rest'
  <1> USE DEF IInv, TypeOK
  <1>1. pc[t] = "wait" /\ thread_sema[t] = 1 /\ vval = DONE
    BY DEF Wait, Locals
  <1>2. pc' = [pc EXCEPT ![t] = "load"] /\ thread_sema' = [thread_sema EXCEPT ![t] = 0]
        /\ UNCHANGED <<vval, dow_next, tmp, sema, runs, finished>>
    BY <1>1 DEF Wait, Goto
  <1>3. Words'
    BY <1>2 DEF Words, Label, Pointer
  <1>4. \A u \in Thread : sema[u] # t
    BY <1>1, PointerAssumption DEF Locals
  <1>5. Runners' = Runners /\ Walkers' = Walkers /\ Stacked' = Stacked
    BY <1>1, <1>2 DEF Runners, Walkers, Stacked
  <1>6. Control'
    BY <1>1, <1>2, <1>5, PointerAssumption, SMTT(30) DEF Control
  <1>7. Locals'
    <2> SUFFICES ASSUME NEW w \in Thread PROVE Locals!(w)'
      BY DEF Locals
    <2>1. CASE w = t
      BY <1>1, <1>2, <2>1 DEF Locals
    <2>2. CASE w # t
      BY <1>1, <1>2, <1>4, <2>2 DEF Locals
    <2> QED
      BY <2>1, <2>2, SMTT(30)
  <1>8. Stack'
    BY <1>1, <1>2, <1>5 DEF Stack
  <1> QED
    BY <1>3, <1>6, <1>7, <1>8 DEF Rest

-----------------------------------------------------------------------------
(* The theorems *)

\* The invariant is inductive.
LEMMA NextIInv == IInv /\ [Next]_vars => IInv'
  <1> SUFFICES ASSUME IInv, [Next]_vars PROVE IInv'
    OBVIOUS
  <1>1. finished' \in BOOLEAN
    BY StepFinished, SMTT(30) DEF IInv
  <1>2. CASE UNCHANGED vars
    BY <1>2 DEF IInv, TypeOK, Control, Locals, Stack, Stacked, Runners, Walkers, vars
  <1>3. CASE Next
    <2>1. PICK t \in Thread : Call(t) \/ Step(t)
      BY <1>3 DEF Next
    <2>2. Rest'
      BY <2>1, CallRest, CalloutRest, PublishRest, WalkEndRest, WalkRest, SignalRest, LoadRest,
         PushRest, LinkRest, WaitRest DEF Step
    <2> QED
      BY <1>1, <2>2 DEF IInv, TypeOK, Rest, Words
  <1> QED
    BY <1>2, <1>3

\* The invariant holds in every state dispatch_once_f reaches.
LEMMA Invariant == Spec => []IInv
  BY InitIInv, NextIInv, PTL DEF Spec

\* Every variable of dispatch_once_f keeps its type; in particular no
\* semaphore is taken below zero.
THEOREM OnceTypes == Spec => []TypeOK
  <1>1. IInv => TypeOK
    BY DEF IInv
  <1> QED
    BY <1>1, Invariant, PTL

\* dispatch_once_f calls the function at most once, and the predicate is
\* DONE only after the function has returned, for any number of threads.
THEOREM OnceRunsOnce == Spec => []RunsOnce
  <1>1. IInv => RunsOnce
    BY PointerAssumption, SMTT(30) DEF IInv, TypeOK, Control, RunsOnce, Pointer, Runners
  <1> QED
    BY <1>1, Invariant, PTL

\* The walk of dispatch_once_f over the stack of waiters reads and signals
\* only waiters whose stack frames still exist.
THEOREM OnceWaitersAlive == Spec => []WaitersAlive
  <1>1. IInv => WaitersAlive
    BY Zenon DEF IInv, TypeOK, Locals, Stack, Stacked, Walkers, WaitersAlive
  <1> QED
    BY <1>1, Invariant, PTL

\* The semaphore that dispatch_once_f returns to its thread has no permit
\* left over.
THEOREM OnceSemaphoreClean == Spec => []SemaphoreClean
  <1>1. IInv => SemaphoreClean
    <2> SUFFICES ASSUME IInv, NEW t \in Thread
                 PROVE  thread_sema[t] <= IF pc[t] = "wait" THEN 1 ELSE 0
      BY Zenon DEF SemaphoreClean
    <2>1. thread_sema[t] \in Nat
      BY DEF IInv, TypeOK
    <2>2. thread_sema[t] > 0 => thread_sema[t] = 1 /\ pc[t] = "wait"
      BY DEF IInv, Locals
    <2> QED
      BY <2>1, <2>2
  <1> QED
    BY <1>1, Invariant, PTL
==========================================================================
