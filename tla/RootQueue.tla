---------------------------- MODULE RootQueue ----------------------------
(***************************************************************************)
(* A global root queue and the threads that drain it: _dispatch_queue_push *)
(* and _dispatch_queue_push_list on the clients' side;                     *)
(* _dispatch_queue_wakeup_global, _dispatch_queue_concurrent_drain_one and *)
(* the worker threads on the other.  Every step is one atomic operation,   *)
(* load or store on the words that threads share: the list of items        *)
(* (dq_items_head, dq_items_tail, do_next), dgq_pending and                *)
(* dgq_thread_pool_size.  The thread mediator is a dispatch semaphore      *)
(* (module Semaphore), kept here as its value and the futex posts that     *)
(* wait for a thread.                                                      *)
(*                                                                         *)
(* Each client pushes one list of items; a list of one item is             *)
(* _dispatch_queue_push.                                                   *)
(***************************************************************************)
EXTENDS Integers, Sequences, SequencesExt

CONSTANTS Clients,      \* threads that push, once each
          Batch,        \* the list each one pushes: disjoint, non-empty sequences
          Workers,      \* bound of the model: worker threads alive at one time
          PoolSize,     \* the initial dgq_thread_pool_size
          Kworkqueue,   \* dgq_kworkqueue is set: the kernel supplies the threads
          NULL, MEDIATOR

Items == UNION {Range(Batch[c]) : c \in Clients}
Actors == Clients \cup Workers

VARIABLES dq_items_head, dq_items_tail, do_next,
          pool_size,     \* dgq_thread_pool_size
          dsema_value,   \* of dgq_thread_mediator
          posts,         \* its futex wakeups that no waiter has taken
          pending,       \* dgq_pending
          requests,      \* threads asked of the kernel that have not started
          th,            \* each thread's program counter and local variables
          pushed,        \* the items in the order of the exchanges on the tail
          taken          \* the items in the order in which drain_one takes them

list == <<dq_items_head, dq_items_tail, do_next>>
supply == <<pool_size, dsema_value, posts, pending, requests>>
history == <<pushed, taken>>
vars == <<list, supply, th, history>>

\* The caller has linked the items of its list; do_next of the last is NULL.
Linked(i) ==
    LET b == Batch[CHOOSE c \in Clients : i \in Range(Batch[c])]
        k == CHOOSE k \in DOMAIN b : b[k] = i
    IN IF k < Len(b) THEN b[k + 1] ELSE NULL

Init ==
    /\ dq_items_head = NULL /\ dq_items_tail = NULL
    /\ do_next = [i \in Items |-> Linked(i)]
    /\ pool_size = PoolSize /\ dsema_value = 0 /\ posts = 0
    /\ pending = 0 /\ requests = 0
    /\ th = [a \in Actors |-> [pc |-> IF a \in Clients THEN "push" ELSE "none",
                               item |-> NULL, next |-> NULL, cont |-> "none"]]
    /\ pushed = <<>> /\ taken = <<>>

Goto(a, pc) == th' = [th EXCEPT ![a].pc = pc]

Return(a) == th' = [th EXCEPT ![a].pc = th[a].cont, ![a].cont = "none"]

\* Call _dispatch_queue_wakeup_global, then go on to cont.
Wakeup(a, cont) == th' = [th EXCEPT ![a].pc = "wakeup", ![a].cont = cont]

(***************************************************************************)
(* _dispatch_queue_push_list: exchange the tail; link the previous one, or *)
(* write the head and wake a worker up.                                    *)
(***************************************************************************)
PushTail(c) ==
    /\ th[c].pc = "push"
    /\ dq_items_tail' = Last(Batch[c])
    /\ th' = [th EXCEPT ![c].pc = IF dq_items_tail = NULL THEN "head" ELSE "link",
                        ![c].item = dq_items_tail]
    /\ pushed' = pushed \o Batch[c]
    /\ UNCHANGED <<dq_items_head, do_next, supply, taken>>

PushLink(c) ==
    /\ th[c].pc = "link"
    /\ do_next' = [do_next EXCEPT ![th[c].item] = Head(Batch[c])]
    /\ Goto(c, "done")
    /\ UNCHANGED <<dq_items_head, dq_items_tail, supply, history>>

PushHead(c) ==
    /\ th[c].pc = "head"
    /\ dq_items_head' = Head(Batch[c])
    /\ Wakeup(c, "done")
    /\ UNCHANGED <<dq_items_tail, do_next, supply, history>>

(***************************************************************************)
(* _dispatch_queue_wakeup_global2 and _dispatch_queue_wakeup_global_slow.  *)
(* With a kernel workqueue at most one request is pending; with the pool a *)
(* parked worker is signalled, or a thread created while the pool allows.  *)
(***************************************************************************)
Requested(a) == IF a \in Clients THEN Len(Batch[a]) ELSE 1

WakeupNothing(a) ==
    /\ th[a].pc = "wakeup"
    /\ dq_items_tail = NULL
    /\ Return(a)
    /\ UNCHANGED <<list, supply, history>>

WakeupBegin(a) ==
    /\ th[a].pc = "wakeup"
    /\ dq_items_tail # NULL
    /\ Goto(a, IF Kworkqueue THEN "request" ELSE "signal")
    /\ UNCHANGED <<list, supply, history>>

WakeupRequest(a) ==
    /\ th[a].pc = "request"
    /\ IF pending = 0
       THEN pending' = Requested(a) /\ requests' = requests + Requested(a)
       ELSE UNCHANGED <<pending, requests>>
    /\ Return(a)
    /\ UNCHANGED <<list, pool_size, dsema_value, posts, history>>

\* Bug: a signal for which nobody waited counts as a wakeup.
WakeupSignalBug(a) ==
    /\ th[a].pc = "signal"
    /\ dsema_value' = dsema_value + 1
    /\ posts' = IF dsema_value < 0 THEN posts + 1 ELSE posts
    /\ IF dsema_value <= 0 THEN Return(a) ELSE Goto(a, "spawn")
    /\ UNCHANGED <<list, pool_size, pending, requests, history>>

\* dispatch_semaphore_signal(dgq_thread_mediator): true when a waiter was owed it.
WakeupSignal(a) ==
    /\ th[a].pc = "signal"
    /\ dsema_value' = dsema_value + 1
    /\ posts' = IF dsema_value < 0 THEN posts + 1 ELSE posts
    /\ IF dsema_value < 0 THEN Return(a) ELSE Goto(a, "spawn")
    /\ UNCHANGED <<list, pool_size, pending, requests, history>>

WakeupSpawn(a) ==
    /\ th[a].pc = "spawn"
    /\ \/ /\ pool_size = 0
          /\ Return(a)
          /\ UNCHANGED pool_size
       \/ /\ pool_size > 0
          /\ pool_size' = pool_size - 1
          /\ \E w \in Workers :
               /\ th[w].pc = "none"
               /\ th' = [th EXCEPT ![a].pc = th[a].cont, ![a].cont = "none",
                                   ![w].pc = "drain"]
    /\ UNCHANGED <<list, dsema_value, posts, pending, requests, history>>

(***************************************************************************)
(* _dispatch_queue_concurrent_drain_one.  The mediator value in the head   *)
(* is the lock of whoever took the head item.                              *)
(***************************************************************************)
DrainTakeHead(w) ==
    /\ th[w].pc = "drain"
    /\ dq_items_head' = MEDIATOR
    /\ th' = [th EXCEPT ![w].item = IF dq_items_head = MEDIATOR THEN NULL ELSE dq_items_head,
                        ![w].pc = CASE dq_items_head = NULL -> "restore"
                                    [] dq_items_head = MEDIATOR -> "contend"
                                    [] OTHER -> "next"]
    /\ UNCHANGED <<dq_items_tail, do_next, supply, history>>

DrainRestore(w) ==
    /\ th[w].pc = "restore"
    /\ dq_items_head' = IF dq_items_head = MEDIATOR THEN NULL ELSE dq_items_head
    /\ Goto(w, "empty")
    /\ UNCHANGED <<dq_items_tail, do_next, supply, history>>

\* Spin while another thread has the lock, and give up after a while.
DrainContend(w) ==
    /\ th[w].pc = "contend"
    /\ \/ dq_items_head # MEDIATOR /\ Goto(w, "drain")
       \/ dq_items_head = MEDIATOR /\ Wakeup(w, "empty")
    /\ UNCHANGED <<list, supply, history>>

DrainNext(w) ==
    /\ th[w].pc = "next"
    /\ th' = [th EXCEPT ![w].next = do_next[th[w].item],
                        ![w].pc = IF do_next[th[w].item] = NULL THEN "clear" ELSE "advance"]
    /\ UNCHANGED <<list, supply, history>>

DrainClearHead(w) ==
    /\ th[w].pc = "clear"
    /\ dq_items_head' = NULL
    /\ Goto(w, "tail")
    /\ UNCHANGED <<dq_items_tail, do_next, supply, history>>

DrainClearTail(w) ==
    /\ th[w].pc = "tail"
    /\ \/ /\ dq_items_tail = th[w].item
          /\ dq_items_tail' = NULL
          /\ taken' = Append(taken, th[w].item)
          /\ Goto(w, "run")
       \/ /\ dq_items_tail # th[w].item
          /\ Goto(w, "await")
          /\ UNCHANGED <<dq_items_tail, taken>>
    /\ UNCHANGED <<dq_items_head, do_next, supply, pushed>>

DrainAwaitNext(w) ==
    /\ th[w].pc = "await"
    /\ do_next[th[w].item] # NULL
    /\ th' = [th EXCEPT ![w].next = do_next[th[w].item], ![w].pc = "advance"]
    /\ UNCHANGED <<list, supply, history>>

DrainAdvance(w) ==
    /\ th[w].pc = "advance"
    /\ dq_items_head' = th[w].next
    /\ taken' = Append(taken, th[w].item)
    /\ Wakeup(w, "run")
    /\ UNCHANGED <<dq_items_tail, do_next, supply, pushed>>

(***************************************************************************)
(* The worker: _dispatch_worker_thread4 runs items until drain_one returns *)
(* none.  A workqueue thread (_dispatch_worker_thread2 and 3) then returns *)
(* to the kernel; a pool thread waits on the mediator, and leaves the pool *)
(* when the wait times out.                                                *)
(***************************************************************************)
WorkerStart(w) ==
    /\ th[w].pc = "none"
    /\ requests > 0
    /\ requests' = requests - 1
    /\ pending' = pending - 1
    /\ Goto(w, "drain")
    /\ UNCHANGED <<list, pool_size, dsema_value, posts, history>>

WorkerRun(w) ==
    /\ th[w].pc = "run"
    /\ th' = [th EXCEPT ![w].pc = "drain", ![w].item = NULL, ![w].next = NULL]
    /\ UNCHANGED <<list, supply, history>>

WorkerEmpty(w) ==
    /\ th[w].pc = "empty"
    /\ \/ /\ Kworkqueue
          /\ Goto(w, "none")
          /\ UNCHANGED dsema_value
       \/ /\ ~Kworkqueue
          /\ dsema_value' = dsema_value - 1
          /\ Goto(w, IF dsema_value > 0 THEN "drain" ELSE "wait")
    /\ UNCHANGED <<list, pool_size, posts, pending, requests, history>>

WorkerWoken(w) ==
    /\ th[w].pc = "wait"
    /\ posts > 0
    /\ posts' = posts - 1
    /\ Goto(w, "drain")
    /\ UNCHANGED <<list, pool_size, dsema_value, pending, requests, history>>

\* The timeout is taken back from the value unless a signal got there first.
WorkerTimeout(w) ==
    /\ th[w].pc = "wait"
    /\ dsema_value < 0
    /\ dsema_value' = dsema_value + 1
    /\ Goto(w, "leave")
    /\ UNCHANGED <<list, pool_size, posts, pending, requests, history>>

WorkerLeave(w) ==
    /\ th[w].pc = "leave"
    /\ pool_size' = pool_size + 1
    /\ Goto(w, "recheck")
    /\ UNCHANGED <<list, dsema_value, posts, pending, requests, history>>

WorkerRecheck(w) ==
    /\ th[w].pc = "recheck"
    /\ IF dq_items_tail # NULL THEN Wakeup(w, "none") ELSE Goto(w, "none")
    /\ UNCHANGED <<list, supply, history>>

Push(c) == PushTail(c) \/ PushLink(c) \/ PushHead(c)

WakeupGlobal(a) ==
    \/ WakeupNothing(a) \/ WakeupBegin(a) \/ WakeupRequest(a)
    \/ WakeupSignal(a) \/ WakeupSpawn(a)

DrainOne(w) ==
    \/ DrainTakeHead(w) \/ DrainRestore(w) \/ DrainContend(w) \/ DrainNext(w)
    \/ DrainClearHead(w) \/ DrainClearTail(w) \/ DrainAwaitNext(w) \/ DrainAdvance(w)

Worker(w) ==
    \/ WorkerStart(w) \/ WorkerRun(w) \/ WorkerEmpty(w) \/ WorkerWoken(w)
    \/ WorkerTimeout(w) \/ WorkerLeave(w) \/ WorkerRecheck(w)

Next ==
    \/ \E c \in Clients : Push(c)
    \/ \E a \in Actors : WakeupGlobal(a)
    \/ \E w \in Workers : DrainOne(w) \/ Worker(w)

Spec == Init /\ [][Next]_vars

(* No item is lost, run twice or overtaken: workers that race for the head *)
(* (_dispatch_queue_concurrent_drain_one) take the items one by one in the *)
(* order of the exchanges on the tail.                                     *)
TakenInPushOrder == IsPrefix(taken, pushed)

(* When every push is complete and every worker is parked or gone, with no *)
(* wakeup or request under way, nothing is left on the list: the wakeups   *)
(* sent, the pool's size and the second look at the tail of a worker that  *)
(* timed out suffice.                                                      *)
NoItemStranded ==
    (/\ \A c \in Clients : th[c].pc \in {"push", "done"}
     /\ \A w \in Workers : th[w].pc \in {"none", "wait"}
     /\ posts = 0 /\ requests = 0)
    => Len(taken) = Len(pushed) /\ dq_items_tail = NULL

(* The root queue keeps both.                                              *)
RootQueueSound == TakenInPushOrder /\ NoItemStranded
==========================================================================
