---------------------------- MODULE MainQueue ----------------------------
(***************************************************************************)
(* The main queue on Linux.  While the program runs its own loop, a push   *)
(* makes an eventfd readable (_dispatch_queue_wakeup_main) and the main    *)
(* thread calls dispatch_main_queue_drain_np, which runs what it finds in  *)
(* front of a marker of its own (_dispatch_main_queue_drain).  Once the    *)
(* main thread calls dispatch_main, _dispatch_queue_cleanup2 unlocks the   *)
(* queue, which from then on goes to its target like any serial queue, and *)
(* closes the eventfd.                                                     *)
(*                                                                         *)
(* The worker that drains the queue after that is module Queue's; it is    *)
(* kept here as far as it takes the items and unlocks the queue.           *)
(***************************************************************************)
EXTENDS Naturals, Sequences

CONSTANTS Clients,     \* threads that submit one block each to the main queue
          NULL, MARKER

Items == Clients \cup {MARKER}    \* the block of each client is named after it

VARIABLES dq_items_head, dq_items_tail, do_next,
          locked,      \* do_suspend_cnt is DISPATCH_OBJECT_SUSPEND_LOCK, else 0
          on_target,   \* the queue is on the list of its target queue
          eventfd,     \* main_q_eventfd: "quiet", "readable" or -1 ("closed")
          client,      \* each client: its step and the tail it replaced
          main,        \* the main thread: its step, dc and next_dc
          worker,      \* the same, of the worker that invokes the queue
          ran          \* the blocks that ran, in order

list == <<dq_items_head, dq_items_tail, do_next>>
state == <<locked, on_target>>
vars == <<list, state, eventfd, client, main, worker, ran>>

Init ==
    /\ dq_items_head = NULL /\ dq_items_tail = NULL
    /\ do_next = [i \in Items |-> NULL]
    /\ locked = TRUE /\ on_target = FALSE /\ eventfd = "quiet"
    /\ client = [c \in Clients |-> [pc |-> "push", prev |-> NULL]]
    /\ main = [pc |-> "loop", dc |-> NULL, next |-> NULL]
    /\ worker = [pc |-> "idle", dc |-> NULL, next |-> NULL]
    /\ ran = <<>>

(***************************************************************************)
(* _dispatch_queue_push and the wakeup of whoever makes the list non-empty.*)
(***************************************************************************)
ClientTail(c) ==
    /\ client[c].pc = "push"
    /\ dq_items_tail' = c
    /\ client' = [client EXCEPT ![c] =
         [pc |-> IF dq_items_tail = NULL THEN "head" ELSE "link", prev |-> dq_items_tail]]
    /\ UNCHANGED <<dq_items_head, do_next, state, eventfd, main, worker, ran>>

ClientLink(c) ==
    /\ client[c].pc = "link"
    /\ do_next' = [do_next EXCEPT ![client[c].prev] = c]
    /\ client' = [client EXCEPT ![c] = [pc |-> "done", prev |-> NULL]]
    /\ UNCHANGED <<dq_items_head, dq_items_tail, state, eventfd, main, worker, ran>>

ClientHead(c) ==
    /\ client[c].pc = "head"
    /\ dq_items_head' = c
    /\ client' = [client EXCEPT ![c].pc = "wakeup"]
    /\ UNCHANGED <<dq_items_tail, do_next, state, eventfd, main, worker, ran>>

\* _dispatch_wakeup: lock the queue and push it on its target, or poke the eventfd.
ClientWakeup(c) ==
    /\ client[c].pc = "wakeup"
    /\ IF dq_items_tail # NULL /\ ~locked
       THEN locked' = TRUE /\ on_target' = TRUE
       ELSE UNCHANGED state
    /\ client' = [client EXCEPT ![c].pc =
         IF dq_items_tail # NULL /\ locked THEN "test" ELSE "done"]
    /\ UNCHANGED <<list, eventfd, main, worker, ran>>

\* _dispatch_queue_wakeup_main
ClientTest(c) ==
    /\ client[c].pc = "test"
    /\ client' = [client EXCEPT ![c].pc = IF eventfd = "closed" THEN "done" ELSE "write"]
    /\ UNCHANGED <<list, state, eventfd, main, worker, ran>>

EventfdWrite ==
    /\ eventfd' = IF eventfd = "closed" THEN "closed" ELSE "readable"

ClientWrite(c) ==
    /\ client[c].pc = "write"
    /\ EventfdWrite
    /\ client' = [client EXCEPT ![c].pc = "done"]
    /\ UNCHANGED <<list, state, main, worker, ran>>

(***************************************************************************)
(* dispatch_main_queue_drain_np and _dispatch_main_queue_drain.  The main  *)
(* thread's loop may call it at any time.                                  *)
(***************************************************************************)
MainGoto(pc) == main' = [main EXCEPT !.pc = pc]

MainDrain ==
    /\ main.pc = "loop"
    /\ dq_items_tail # NULL
    /\ MainGoto("read")
    /\ UNCHANGED <<list, state, eventfd, client, worker, ran>>

MainRead ==
    /\ main.pc = "read"
    /\ eventfd' = "quiet"
    /\ MainGoto("mark")
    /\ UNCHANGED <<list, state, client, worker, ran>>

MainMark ==
    /\ main.pc = "mark"
    /\ dq_items_tail' = MARKER
    /\ do_next' = [do_next EXCEPT ![MARKER] = NULL]
    /\ main' = [pc |-> "marklink", dc |-> dq_items_tail, next |-> NULL]
    /\ UNCHANGED <<dq_items_head, state, eventfd, client, worker, ran>>

\* The list was not empty when the drain began, and only this thread empties it.
MainMarkLink ==
    /\ main.pc = "marklink"
    /\ do_next' = [do_next EXCEPT ![main.dc] = MARKER]
    /\ MainGoto("take")
    /\ UNCHANGED <<dq_items_head, dq_items_tail, state, eventfd, client, worker, ran>>

MainTake ==
    /\ main.pc = "take"
    /\ dq_items_head # NULL
    /\ dq_items_head' = NULL
    /\ main' = [main EXCEPT !.pc = "next", !.dc = dq_items_head]
    /\ UNCHANGED <<dq_items_tail, do_next, state, eventfd, client, worker, ran>>

MainNext ==
    /\ main.pc = "next"
    /\ main' = [main EXCEPT !.next = do_next[main.dc],
                            !.pc = IF do_next[main.dc] = NULL THEN "tail" ELSE "handle"]
    /\ UNCHANGED <<list, state, eventfd, client, worker, ran>>

MainTail ==
    /\ main.pc = "tail"
    /\ IF dq_items_tail = main.dc
       THEN dq_items_tail' = NULL /\ MainGoto("handle")
       ELSE MainGoto("await") /\ UNCHANGED dq_items_tail
    /\ UNCHANGED <<dq_items_head, do_next, state, eventfd, client, worker, ran>>

MainAwait ==
    /\ main.pc = "await"
    /\ do_next[main.dc] # NULL
    /\ main' = [main EXCEPT !.pc = "handle", !.next = do_next[main.dc]]
    /\ UNCHANGED <<list, state, eventfd, client, worker, ran>>

MainRun ==
    /\ main.pc = "handle"
    /\ main.dc # MARKER
    /\ ran' = Append(ran, main.dc)
    /\ main' = IF main.next = NULL THEN [pc |-> "take", dc |-> NULL, next |-> NULL]
               ELSE [pc |-> "next", dc |-> main.next, next |-> NULL]
    /\ UNCHANGED <<list, state, eventfd, client, worker>>

\* The marker: what was pushed behind it is left for the next call.
MainReturn ==
    /\ main.pc = "handle"
    /\ main.dc = MARKER
    /\ IF main.next = NULL
       THEN UNCHANGED <<dq_items_head, eventfd>>
       ELSE dq_items_head' = main.next /\ EventfdWrite
    /\ main' = [pc |-> "loop", dc |-> NULL, next |-> NULL]
    /\ UNCHANGED <<dq_items_tail, do_next, state, client, worker, ran>>

(***************************************************************************)
(* dispatch_main and _dispatch_queue_cleanup2.                             *)
(***************************************************************************)
CleanupUnlock ==
    /\ main.pc = "loop"
    /\ locked' = FALSE
    /\ MainGoto("wakeup")
    /\ UNCHANGED <<list, on_target, eventfd, client, worker, ran>>

\* Bug: the queue is not woken up once it is unlocked.
CleanupWakeupBug ==
    /\ main.pc = "wakeup"
    /\ MainGoto("close")
    /\ UNCHANGED <<list, state, eventfd, client, worker, ran>>

CleanupWakeup ==
    /\ main.pc = "wakeup"
    /\ \/ /\ dq_items_tail = NULL
          /\ UNCHANGED <<state, eventfd>>
       \/ /\ dq_items_tail # NULL /\ ~locked
          /\ locked' = TRUE /\ on_target' = TRUE
          /\ UNCHANGED <<eventfd>>
       \/ /\ dq_items_tail # NULL /\ locked
          /\ EventfdWrite
          /\ UNCHANGED state
    /\ MainGoto("close")
    /\ UNCHANGED <<list, client, worker, ran>>

CleanupClose ==
    /\ main.pc = "close"
    /\ eventfd' = "closed"
    /\ MainGoto("gone")
    /\ UNCHANGED <<list, state, client, worker, ran>>

(***************************************************************************)
(* A worker invokes the queue from its target: it runs the items until the *)
(* list is empty, unlocks the queue and wakes it up again.                 *)
(***************************************************************************)
WorkerInvoke ==
    /\ worker.pc = "idle"
    /\ on_target
    /\ on_target' = FALSE
    /\ worker' = [worker EXCEPT !.pc = "take"]
    /\ UNCHANGED <<list, locked, eventfd, client, main, ran>>

WorkerTake ==
    /\ worker.pc = "take"
    /\ dq_items_tail # NULL /\ dq_items_head # NULL
    /\ dq_items_head' = NULL
    /\ worker' = [worker EXCEPT !.pc = "next", !.dc = dq_items_head]
    /\ UNCHANGED <<dq_items_tail, do_next, state, eventfd, client, main, ran>>

WorkerNext ==
    /\ worker.pc = "next"
    /\ \/ /\ do_next[worker.dc] # NULL
          /\ worker' = [worker EXCEPT !.dc = do_next[worker.dc]]
          /\ UNCHANGED dq_items_tail
       \/ /\ do_next[worker.dc] = NULL /\ dq_items_tail = worker.dc
          /\ dq_items_tail' = NULL
          /\ worker' = [worker EXCEPT !.pc = "take", !.dc = NULL]
    /\ ran' = Append(ran, worker.dc)
    /\ UNCHANGED <<dq_items_head, do_next, state, eventfd, client, main>>

WorkerUnlock ==
    /\ worker.pc = "take"
    /\ dq_items_tail = NULL
    /\ locked' = FALSE
    /\ worker' = [worker EXCEPT !.pc = "wakeup"]
    /\ UNCHANGED <<list, on_target, eventfd, client, main, ran>>

WorkerWakeup ==
    /\ worker.pc = "wakeup"
    /\ IF dq_items_tail # NULL /\ ~locked
       THEN locked' = TRUE /\ on_target' = TRUE
       ELSE UNCHANGED state
    /\ worker' = [worker EXCEPT !.pc = "idle"]
    /\ UNCHANGED <<list, eventfd, client, main, ran>>

Client(c) ==
    \/ ClientTail(c) \/ ClientLink(c) \/ ClientHead(c)
    \/ ClientWakeup(c) \/ ClientTest(c) \/ ClientWrite(c)

Main ==
    \/ MainDrain \/ MainRead \/ MainMark \/ MainMarkLink \/ MainTake \/ MainNext
    \/ MainTail \/ MainAwait \/ MainRun \/ MainReturn
    \/ CleanupUnlock \/ CleanupWakeup \/ CleanupClose

Worker == WorkerInvoke \/ WorkerTake \/ WorkerNext \/ WorkerUnlock \/ WorkerWakeup

Next == (\E c \in Clients : Client(c)) \/ Main \/ Worker

Spec == Init /\ [][Next]_vars

(* A block that is on the main queue while nobody is busy with it will be  *)
(* noticed: the eventfd is readable as long as the main thread runs its    *)
(* own loop, and the queue is on its target's list once dispatch_main gave *)
(* it up.  Covers a push racing with the read of the eventfd, with the     *)
(* removal of the marker and with the unlock of _dispatch_queue_cleanup2.  *)
MainItemNoticed ==
    (/\ dq_items_tail # NULL
     /\ \A c \in Clients : client[c].pc \in {"push", "done"}
     /\ main.pc \in {"loop", "gone"} /\ worker.pc = "idle")
    => IF main.pc = "loop" THEN eventfd = "readable" ELSE on_target

(* The marker lives on the stack of _dispatch_main_queue_drain: when that  *)
(* returns, neither the list nor a client about to link its block behind   *)
(* the tail it replaced still refers to it.                                *)
MarkerNotReferenced ==
    main.pc \in {"loop", "gone"} =>
      /\ MARKER \notin {dq_items_head, dq_items_tail}
      /\ \A c \in Clients : client[c].prev # MARKER

(* The main queue keeps both.                                              *)
MainQueueSound == MainItemNoticed /\ MarkerNotReferenced
==========================================================================
