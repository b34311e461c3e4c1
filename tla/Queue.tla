------------------------------ MODULE Queue ------------------------------
(***************************************************************************)
(* A dispatch queue that targets a global root queue: dispatch_async,      *)
(* dispatch_sync and their barrier forms, dispatch_suspend and             *)
(* dispatch_resume on the clients' side; _dispatch_queue_invoke and        *)
(* _dispatch_queue_drain on the workers'.  Every step is one atomic        *)
(* operation, load or store on the words that threads share:               *)
(*   dq_items_head, dq_items_tail, do_next   the list of items;            *)
(*   dq_running       2 for each item that runs, 1 for whoever holds the   *)
(*                    queue's lock (a drain or a barrier);                 *)
(*   do_suspend_cnt   2 for each suspension, 1 while the queue is on the   *)
(*                    list of its target.                                  *)
(* The root queue is external to this module: a set from which any worker  *)
(* takes any object (its order is lost anyway, as workers run in           *)
(* parallel).  Each item is the n-th call of a client.                     *)
(***************************************************************************)
EXTENDS Integers, FiniteSets

CONSTANTS Client, Worker,
          NULL, DQ,      \* no object; the queue itself, on the root queue
          dq_width,      \* 1 for a serial queue, else twice the number of blocks
          Kinds,         \* the calls that clients make
          Calls,         \* bound of the model: submissions of all clients
          MaxSuspends    \* bound of the model: calls of dispatch_suspend

Kind == {"async", "barrier_async", "sync", "barrier_sync"}
Item == Client \X (1..Calls)
Thread == Client \cup Worker

ASSUME ConstantAssumption ==
    /\ Client \cap Worker = {} /\ IsFiniteSet(Thread)
    /\ NULL \notin Item \cup {DQ} /\ DQ \notin Item
    /\ dq_width \in Nat \ {0} /\ Kinds \subseteq Kind
    /\ Calls \in Nat /\ MaxSuspends \in Nat

VARIABLES dq_items_head, dq_items_tail, do_next,
          dq_running, do_suspend_cnt, do_ref_cnt,
          sema,      \* items whose thread semaphore was signalled
          root,      \* objects on the root queue
          th,        \* each thread's program counter and local variables
          kind,      \* the call that submitted each item, or "none"
          status,    \* of each item: "new", "submitted", "running", "done"
          owned,     \* the creator has not released its reference
          suspends,  \* dispatch_suspend calls not yet resumed
          budget,    \* dispatch_suspend calls left
          missed     \* an asynchronous call brought dq_running to 0 and woke nobody up

list == <<dq_items_head, dq_items_tail, do_next>>
counts == <<dq_running, do_suspend_cnt>>
items == <<kind, status>>
user == <<owned, suspends, budget>>
vars == <<list, counts, do_ref_cnt, sema, root, th, items, user, missed>>

Idle == [pc |-> "idle", item |-> NULL, dc |-> NULL, next |-> NULL, sema |-> NULL, ret |-> "idle"]

Init ==
    /\ dq_items_head = NULL /\ dq_items_tail = NULL
    /\ do_next = [i \in Item |-> NULL]
    /\ dq_running = 0 /\ do_suspend_cnt = 0 /\ do_ref_cnt = 0
    /\ sema = {} /\ root = {}
    /\ th = [t \in Thread |-> Idle]
    /\ kind = [i \in Item |-> "none"]
    /\ status = [i \in Item |-> "new"]
    /\ owned = TRUE /\ suspends = 0 /\ budget = MaxSuspends /\ missed = FALSE

IsBarrier(i) == kind[i] \in {"barrier_async", "barrier_sync"}
IsSync(i) == kind[i] \in {"sync", "barrier_sync"}
Suspended == do_suspend_cnt >= 2   \* DISPATCH_OBJECT_SUSPENDED

-----------------------------------------------------------------------------
(* Thread-local steps *)

At(t, label) == th[t].pc = label

\* The loop of a drain, after an item: dc = next_dc.
NextItem(r) == [Idle EXCEPT !.pc = IF r.next = NULL THEN "drain" ELSE "drain_next", !.dc = r.next]

\* At "idle" the thread returns from its call or from the object it took; at
\* "sem_wait" and "drop" its other local variables are dead.
Goto(t, label) ==
    th' = [th EXCEPT ![t] = CASE label = "idle" -> Idle
                              [] label = "drain_more" -> NextItem(@)
                              [] label \in {"sem_wait", "drop"} -> [Idle EXCEPT !.pc = label, !.item = th[t].item]
                              [] OTHER -> [@ EXCEPT !.pc = label]]

\* Call _dispatch_wakeup, or start the function of an item, and continue at `ret`.
GoWakeup(t, ret) == th' = [th EXCEPT ![t].pc = "wakeup", ![t].ret = ret]
GoRun(t, i, ret) ==
    /\ status' = [status EXCEPT ![i] = "running"]
    /\ th' = [th EXCEPT ![t].pc = "running", ![t].item = i, ![t].ret = ret]

\* Change dq_running by n, and wake the queue up when it reaches 0.
SubRunning(t, n, zero, ret) ==
    /\ dq_running' = dq_running - n
    /\ IF dq_running = n THEN GoWakeup(t, zero) ELSE Goto(t, ret)

-----------------------------------------------------------------------------
(* _dispatch_client_callout of an item *)

\* The function returns, and the continuation is free for other uses.
ItemEnds(t) ==
    /\ At(t, "running")
    /\ status' = [status EXCEPT ![th[t].item] = "done"]
    /\ do_next' = [do_next EXCEPT ![th[t].item] = NULL]
    /\ Goto(t, th[t].ret)
    /\ UNCHANGED <<dq_items_head, dq_items_tail, counts, do_ref_cnt, sema, root, kind, user, missed>>

-----------------------------------------------------------------------------
(* _dispatch_wakeup *)

WakeupSuspended(t) ==
    /\ At(t, "wakeup")
    /\ Goto(t, IF Suspended THEN th[t].ret ELSE "wakeup_tail")
    /\ UNCHANGED <<list, counts, do_ref_cnt, sema, root, items, user, missed>>

WakeupTail(t) ==
    /\ At(t, "wakeup_tail")
    /\ Goto(t, IF dq_items_tail = NULL THEN th[t].ret ELSE "wakeup_lock")
    /\ UNCHANGED <<list, counts, do_ref_cnt, sema, root, items, user, missed>>

\* Take the lock bit if the whole word is 0, retain the queue and push it on
\* its target.
WakeupLock(t) ==
    /\ At(t, "wakeup_lock")
    /\ IF do_suspend_cnt = 0
       THEN do_suspend_cnt' = 1 /\ do_ref_cnt' = do_ref_cnt + 1 /\ root' = root \cup {DQ}
       ELSE UNCHANGED <<do_suspend_cnt, do_ref_cnt, root>>
    /\ Goto(t, th[t].ret)
    /\ UNCHANGED <<list, dq_running, sema, items, user, missed>>

\* After its push, a synchronous call waits for its turn.
AfterPush(t) == IF IsSync(th[t].item) THEN "sem_wait" ELSE "idle"

\* _dispatch_release of the reference held by a push, a resume, a redirected
\* item or the list of the target.
Release(t) ==
    /\ At(t, "release")
    /\ do_ref_cnt' = do_ref_cnt - 1
    /\ Goto(t, IF t \in Client /\ th[t].item # NULL THEN AfterPush(t) ELSE "idle")
    /\ UNCHANGED <<list, counts, sema, root, items, user, missed>>

-----------------------------------------------------------------------------
(* _dispatch_queue_push *)

PushTail(t) ==
    /\ At(t, "push")
    /\ dq_items_tail' = th[t].item
    /\ th' = [th EXCEPT ![t].pc = IF dq_items_tail = NULL THEN "push_head" ELSE "push_link",
                        ![t].dc = dq_items_tail]
    /\ UNCHANGED <<dq_items_head, do_next, counts, do_ref_cnt, sema, root, items, user, missed>>

PushLink(t) ==
    /\ At(t, "push_link")
    /\ do_next' = [do_next EXCEPT ![th[t].dc] = th[t].item]
    /\ Goto(t, AfterPush(t))
    /\ UNCHANGED <<dq_items_head, dq_items_tail, counts, do_ref_cnt, sema, root, items, user, missed>>

\* Bug: the queue is not retained across the wakeup.
PushHeadNoRetainBug(t) ==
    /\ At(t, "push_head")
    /\ dq_items_head' = th[t].item
    /\ GoWakeup(t, AfterPush(t))
    /\ UNCHANGED <<dq_items_tail, do_next, counts, do_ref_cnt, sema, root, items, user, missed>>

\* _dispatch_queue_push_list_slow2: the queue is retained before its head is set.
PushHead(t) ==
    /\ At(t, "push_head")
    /\ do_ref_cnt' = do_ref_cnt + 1
    /\ dq_items_head' = th[t].item
    /\ GoWakeup(t, "release")
    /\ UNCHANGED <<dq_items_tail, do_next, counts, sema, root, items, user, missed>>

-----------------------------------------------------------------------------
(* dispatch_async_f, dispatch_sync_f and their barrier forms *)

\* On a serial queue every item is a barrier.
KindOn(k) == IF dq_width = 1 THEN (IF k \in {"sync", "barrier_sync"} THEN "barrier_sync" ELSE "barrier_async")
                             ELSE k

Call(c, k) ==
    /\ At(c, "idle") /\ owned
    /\ \E n \in 1..Calls :
         /\ status[<<c, n>>] = "new"
         /\ \A m \in 1..(n - 1) : status[<<c, m>>] # "new"
         /\ Cardinality({i \in Item : status[i] # "new"}) < Calls
         /\ kind' = [kind EXCEPT ![<<c, n>>] = KindOn(k)]
         /\ status' = [status EXCEPT ![<<c, n>>] = "submitted"]
         /\ th' = [th EXCEPT ![c].item = <<c, n>>,
                             ![c].pc = IF KindOn(k) = "barrier_async" THEN "push" ELSE "check_tail"]
    /\ UNCHANGED <<list, counts, do_ref_cnt, sema, root, user, missed>>

\* Bug: the list is not looked at.
CheckTailMissingBug(c) ==
    /\ At(c, "check_tail")
    /\ Goto(c, "check_suspended")
    /\ UNCHANGED <<list, counts, do_ref_cnt, sema, root, items, user, missed>>

\* Nothing is queued and the queue is not suspended: try without the list.
CheckTail(c) ==
    /\ At(c, "check_tail")
    /\ Goto(c, IF dq_items_tail # NULL THEN "push" ELSE "check_suspended")
    /\ UNCHANGED <<list, counts, do_ref_cnt, sema, root, items, user, missed>>

CheckSuspended(c) ==
    /\ At(c, "check_suspended")
    /\ Goto(c, IF Suspended THEN "push"
               ELSE IF IsBarrier(th[c].item) THEN "try_lock" ELSE "add")
    /\ UNCHANGED <<list, counts, do_ref_cnt, sema, root, items, user, missed>>

\* Bug: the width is compared with the count before the increment.
AddAsyncOffByTwoBug(c) ==
    /\ At(c, "add") /\ kind[th[c].item] = "async"
    /\ dq_running' = dq_running + 2
    /\ LET over == dq_running > dq_width
           locked == dq_running % 2 = 1
       IN  IF over \/ locked
           THEN Goto(c, IF over THEN "over" ELSE "retry") /\ UNCHANGED <<do_ref_cnt, root>>
           ELSE do_ref_cnt' = do_ref_cnt + 1 /\ root' = root \cup {th[c].item} /\ Goto(c, "idle")
    /\ UNCHANGED <<list, do_suspend_cnt, sema, items, user, missed>>

\* _dispatch_async_f2 adds itself to the items that run: within the width and
\* without the lock it is redirected to the target (_dispatch_async_f_redirect).
AddAsync(c) ==
    /\ At(c, "add") /\ kind[th[c].item] = "async"
    /\ dq_running' = dq_running + 2
    /\ LET over == dq_running + 2 > dq_width
           locked == dq_running % 2 = 1
       IN  IF over \/ locked
           THEN Goto(c, IF over THEN "over" ELSE "retry") /\ UNCHANGED <<do_ref_cnt, root>>
           ELSE do_ref_cnt' = do_ref_cnt + 1 /\ root' = root \cup {th[c].item} /\ Goto(c, "idle")
    /\ UNCHANGED <<list, do_suspend_cnt, sema, items, user, missed>>

AsyncOver(c) ==
    /\ At(c, "over")
    /\ SubRunning(c, 2, "push", "push")
    /\ UNCHANGED <<list, do_suspend_cnt, do_ref_cnt, sema, root, items, user, missed>>

\* The barrier may have ended by now.
AsyncRetry(c) ==
    /\ At(c, "retry")
    /\ dq_running' = dq_running - 2
    /\ Goto(c, IF dq_running % 2 = 1 THEN "push" ELSE "check_tail")
    /\ missed' = (missed \/ dq_running = 2)
    /\ UNCHANGED <<list, do_suspend_cnt, do_ref_cnt, sema, root, items, user>>

\* _dispatch_sync_f2 does not look at the width.
AddSync(c) ==
    /\ At(c, "add") /\ kind[th[c].item] = "sync"
    /\ dq_running' = dq_running + 2
    /\ IF dq_running % 2 = 1 THEN Goto(c, "over") /\ UNCHANGED status
                             ELSE GoRun(c, th[c].item, "sub")
    /\ UNCHANGED <<list, do_suspend_cnt, do_ref_cnt, sema, root, kind, user, missed>>

\* Bug: the lock is added to whatever runs.
TryLockAddBug(c) ==
    /\ At(c, "try_lock")
    /\ dq_running' = dq_running + 1
    /\ GoRun(c, th[c].item, "unlock_tail")
    /\ UNCHANGED <<list, do_suspend_cnt, do_ref_cnt, sema, root, kind, user, missed>>

\* dispatch_barrier_sync_f locks an idle queue.
TryLock(c) ==
    /\ At(c, "try_lock")
    /\ IF dq_running = 0
       THEN dq_running' = 1 /\ GoRun(c, th[c].item, "unlock_tail")
       ELSE Goto(c, "push") /\ UNCHANGED <<dq_running, status>>
    /\ UNCHANGED <<list, do_suspend_cnt, do_ref_cnt, sema, root, kind, user, missed>>

\* The slow paths sleep until a drain, or another barrier, hands the queue over.
SemWait(c) ==
    /\ At(c, "sem_wait") /\ th[c].item \in sema
    /\ sema' = sema \ {th[c].item}
    /\ GoRun(c, th[c].item, IF IsBarrier(th[c].item) THEN "handoff_suspend" ELSE "sub")
    /\ UNCHANGED <<list, counts, do_ref_cnt, root, kind, user, missed>>

\* Bug: the last item that runs does not wake the queue up.
SubSilentBug(t) ==
    /\ At(t, "sub")
    /\ dq_running' = dq_running - 2
    /\ Goto(t, IF t \in Worker THEN "release" ELSE "idle")
    /\ UNCHANGED <<list, do_suspend_cnt, do_ref_cnt, sema, root, items, user, missed>>

\* The end of an item that counts 2 in dq_running.
Sub(t) ==
    /\ At(t, "sub")
    /\ LET after == IF t \in Worker THEN "release" ELSE "idle" IN SubRunning(t, 2, after, after)
    /\ UNCHANGED <<list, do_suspend_cnt, do_ref_cnt, sema, root, items, user, missed>>

-----------------------------------------------------------------------------
(* The end of a barrier sync: unlock the queue, or hand it to the barrier     *)
(* sync at the head of the list (_dispatch_queue_drain_one_barrier_sync).     *)

\* _dispatch_barrier_sync_f_invoke and _dispatch_barrier_sync_f2: the queue is
\* locked (1 in dq_running).
UnlockTail(c) ==
    /\ At(c, "unlock_tail")
    /\ Goto(c, IF dq_items_tail = NULL THEN "unlock" ELSE "unlock_suspended")
    /\ UNCHANGED <<list, counts, do_ref_cnt, sema, root, items, user, missed>>

UnlockSuspended(c) ==
    /\ At(c, "unlock_suspended")
    /\ th' = [th EXCEPT ![c].pc = IF Suspended THEN "unlock" ELSE "pop", ![c].ret = "unlock"]
    /\ UNCHANGED <<list, counts, do_ref_cnt, sema, root, items, user, missed>>

Unlock(c) ==
    /\ At(c, "unlock")
    /\ SubRunning(c, 1, "idle", "idle")
    /\ UNCHANGED <<list, do_suspend_cnt, do_ref_cnt, sema, root, items, user, missed>>

\* _dispatch_barrier_sync_f_slow: the queue is suspended (2 in do_suspend_cnt
\* and in dq_running).
HandoffSuspend(c) ==
    /\ At(c, "handoff_suspend")
    /\ Goto(c, IF do_suspend_cnt < 4 THEN "handoff_running" ELSE "resume_self")
    /\ UNCHANGED <<list, counts, do_ref_cnt, sema, root, items, user, missed>>

HandoffRunning(c) ==
    /\ At(c, "handoff_running")
    /\ th' = [th EXCEPT ![c].pc = IF dq_running = 2 THEN "pop" ELSE "resume_self", ![c].ret = "resume_self"]
    /\ UNCHANGED <<list, counts, do_ref_cnt, sema, root, items, user, missed>>

ResumeSelf(c) ==
    /\ At(c, "resume_self")
    /\ do_suspend_cnt' = do_suspend_cnt - 2
    /\ Goto(c, "sub")
    /\ UNCHANGED <<list, dq_running, do_ref_cnt, sema, root, items, user, missed>>

\* Where a successful pop leads: a fast barrier converts its lock first.
Popped(c) == IF th[c].ret = "unlock" THEN "transfer_suspend" ELSE "signal"

PopHead(c) ==
    /\ At(c, "pop")
    /\ LET dc == dq_items_head
       IN  IF dc = NULL \/ (dc # NULL /\ kind[dc] # "barrier_sync")
           THEN Goto(c, th[c].ret) /\ UNCHANGED dq_items_head
           ELSE /\ dq_items_head' = do_next[dc]
                /\ th' = [th EXCEPT ![c].dc = dc,
                                    ![c].pc = IF do_next[dc] = NULL THEN "pop_tail" ELSE Popped(c)]
    /\ UNCHANGED <<dq_items_tail, do_next, counts, do_ref_cnt, sema, root, items, user, missed>>

PopTail(c) ==
    /\ At(c, "pop_tail")
    /\ IF dq_items_tail = th[c].dc
       THEN dq_items_tail' = NULL /\ Goto(c, Popped(c))
       ELSE Goto(c, "pop_wait") /\ UNCHANGED dq_items_tail
    /\ UNCHANGED <<dq_items_head, do_next, counts, do_ref_cnt, sema, root, items, user, missed>>

\* Wait until the pusher that replaced the tail has linked its item.
PopWait(c) ==
    /\ At(c, "pop_wait") /\ do_next[th[c].dc] # NULL
    /\ dq_items_head' = do_next[th[c].dc]
    /\ Goto(c, Popped(c))
    /\ UNCHANGED <<dq_items_tail, do_next, counts, do_ref_cnt, sema, root, items, user, missed>>

TransferSuspend(c) ==
    /\ At(c, "transfer_suspend")
    /\ do_suspend_cnt' = do_suspend_cnt + 2
    /\ Goto(c, "transfer_running")
    /\ UNCHANGED <<list, dq_running, do_ref_cnt, sema, root, items, user, missed>>

TransferRunning(c) ==
    /\ At(c, "transfer_running")
    /\ dq_running' = dq_running + 1
    /\ Goto(c, "signal")
    /\ UNCHANGED <<list, do_suspend_cnt, do_ref_cnt, sema, root, items, user, missed>>

SignalNext(c) ==
    /\ At(c, "signal")
    /\ sema' = sema \cup {th[c].dc}
    /\ Goto(c, "idle")
    /\ UNCHANGED <<list, counts, do_ref_cnt, root, items, user, missed>>

-----------------------------------------------------------------------------
(* The workers: _dispatch_continuation_pop of what the root queue holds *)

Take(w) ==
    /\ At(w, "idle")
    /\ \E o \in root :
         /\ root' = root \ {o}
         /\ IF o = DQ THEN Goto(w, "invoke") /\ UNCHANGED status ELSE GoRun(w, o, "sub")
    /\ UNCHANGED <<list, counts, do_ref_cnt, sema, kind, user, missed>>

\* _dispatch_queue_invoke
InvokeSuspended(w) ==
    /\ At(w, "invoke")
    /\ Goto(w, IF Suspended THEN "drop" ELSE "invoke_lock")
    /\ UNCHANGED <<list, counts, do_ref_cnt, sema, root, items, user, missed>>

InvokeLock(w) ==
    /\ At(w, "invoke_lock")
    /\ IF dq_running = 0 THEN dq_running' = 1 /\ Goto(w, "drain")
                         ELSE Goto(w, "drop") /\ UNCHANGED dq_running
    /\ UNCHANGED <<list, do_suspend_cnt, do_ref_cnt, sema, root, items, user, missed>>

\* After the drain: unlock without a look at the result, then wake the
\* barrier sync that was popped.
InvokeUnlock(w) ==
    /\ At(w, "invoke_unlock")
    /\ dq_running' = dq_running - 1
    /\ sema' = sema \cup ({th[w].sema} \ {NULL})
    /\ Goto(w, "drop")
    /\ UNCHANGED <<list, do_suspend_cnt, do_ref_cnt, root, items, user, missed>>

\* Off the list of the target; then verify that the queue is idle.
DropLock(w) ==
    /\ At(w, "drop")
    /\ do_suspend_cnt' = do_suspend_cnt - 1
    /\ Goto(w, IF do_suspend_cnt = 1 THEN "verify" ELSE "release")
    /\ UNCHANGED <<list, dq_running, do_ref_cnt, sema, root, items, user, missed>>

\* Bug: nobody looks at the queue after it left the list of its target.
VerifyMissingBug(w) ==
    /\ At(w, "verify")
    /\ Goto(w, "release")
    /\ UNCHANGED <<list, counts, do_ref_cnt, sema, root, items, user, missed>>

Verify(w) ==
    /\ At(w, "verify")
    /\ IF dq_running = 0 THEN GoWakeup(w, "release") ELSE Goto(w, "release")
    /\ UNCHANGED <<list, counts, do_ref_cnt, sema, root, items, user, missed>>

-----------------------------------------------------------------------------
(* _dispatch_queue_drain *)

DrainTail(w) ==
    /\ At(w, "drain")
    /\ Goto(w, IF dq_items_tail = NULL THEN "invoke_unlock" ELSE "drain_head")
    /\ UNCHANGED <<list, counts, do_ref_cnt, sema, root, items, user, missed>>

\* Wait for the head, and take the whole list.
DrainHead(w) ==
    /\ At(w, "drain_head") /\ dq_items_head # NULL
    /\ dq_items_head' = NULL
    /\ th' = [th EXCEPT ![w].pc = "drain_next", ![w].dc = dq_items_head]
    /\ UNCHANGED <<dq_items_tail, do_next, counts, do_ref_cnt, sema, root, items, user, missed>>

DrainNext(w) ==
    /\ At(w, "drain_next")
    /\ LET next == do_next[th[w].dc]
       IN  th' = [th EXCEPT ![w].pc = IF next = NULL THEN "drain_last" ELSE "drain_suspended",
                            ![w].next = next]
    /\ UNCHANGED <<list, counts, do_ref_cnt, sema, root, items, user, missed>>

DrainLast(w) ==
    /\ At(w, "drain_last")
    /\ IF dq_items_tail = th[w].dc
       THEN dq_items_tail' = NULL /\ Goto(w, "drain_suspended")
       ELSE Goto(w, "drain_wait") /\ UNCHANGED dq_items_tail
    /\ UNCHANGED <<dq_items_head, do_next, counts, do_ref_cnt, sema, root, items, user, missed>>

DrainWait(w) ==
    /\ At(w, "drain_wait") /\ do_next[th[w].dc] # NULL
    /\ th' = [th EXCEPT ![w].pc = "drain_suspended", ![w].next = do_next[th[w].dc]]
    /\ UNCHANGED <<list, counts, do_ref_cnt, sema, root, items, user, missed>>

DrainSuspended(w) ==
    /\ At(w, "drain_suspended")
    /\ Goto(w, IF Suspended THEN "put_back" ELSE "drain_width")
    /\ UNCHANGED <<list, counts, do_ref_cnt, sema, root, items, user, missed>>

\* Run a barrier, or hand the queue to a barrier sync.
RunBarrier(w) ==
    IF kind[th[w].dc] = "barrier_sync" THEN Goto(w, "pop_suspend") /\ UNCHANGED status
                                       ELSE GoRun(w, th[w].dc, "drain_more")

DrainWidth(w) ==
    /\ At(w, "drain_width")
    /\ IF dq_running <= dq_width /\ dq_width = 1
       THEN RunBarrier(w)
       ELSE /\ Goto(w, IF dq_running > dq_width THEN "put_back"
                       ELSE IF IsBarrier(th[w].dc) THEN "drain_barrier" ELSE "redirect")
            /\ UNCHANGED status
    /\ UNCHANGED <<list, counts, do_ref_cnt, sema, root, kind, user, missed>>

\* Bug: a barrier does not wait for the items that run.
DrainBarrierEagerBug(w) ==
    /\ At(w, "drain_barrier")
    /\ RunBarrier(w)
    /\ UNCHANGED <<list, counts, do_ref_cnt, sema, root, kind, user, missed>>

\* A barrier waits for the items that run.
DrainBarrier(w) ==
    /\ At(w, "drain_barrier")
    /\ IF dq_running > 1 THEN Goto(w, "put_back") /\ UNCHANGED status ELSE RunBarrier(w)
    /\ UNCHANGED <<list, counts, do_ref_cnt, sema, root, kind, user, missed>>

\* _dispatch_continuation_redirect
Redirect(w) ==
    /\ At(w, "redirect")
    /\ dq_running' = dq_running + 2
    /\ IF IsSync(th[w].dc)
       THEN sema' = sema \cup {th[w].dc} /\ UNCHANGED <<do_ref_cnt, root>>
       ELSE root' = root \cup {th[w].dc} /\ do_ref_cnt' = do_ref_cnt + 1 /\ UNCHANGED sema
    /\ Goto(w, "drain_more")
    /\ UNCHANGED <<list, do_suspend_cnt, items, user, missed>>

\* _dispatch_barrier_sync_f_pop with `lock`
PopSuspend(w) ==
    /\ At(w, "pop_suspend")
    /\ do_suspend_cnt' = do_suspend_cnt + 2
    /\ Goto(w, "pop_running")
    /\ UNCHANGED <<list, dq_running, do_ref_cnt, sema, root, items, user, missed>>

PopRunning(w) ==
    /\ At(w, "pop_running")
    /\ dq_running' = dq_running + 2
    /\ th' = [th EXCEPT ![w].pc = IF th[w].next = NULL THEN "invoke_unlock" ELSE "put_back",
                        ![w].sema = th[w].dc, ![w].dc = th[w].next]
    /\ UNCHANGED <<list, do_suspend_cnt, do_ref_cnt, sema, root, items, user, missed>>

\* The rest of the list goes back.  As in the code, next_dc stays what it was
\* when dc was set to it, so the first item of a rest is never taken for the last.
PutBack(w) ==
    /\ At(w, "put_back")
    /\ IF th[w].next = NULL /\ dq_items_tail # NULL
       THEN Goto(w, "put_wait") /\ UNCHANGED dq_items_tail
       ELSE Goto(w, "put_head") /\ dq_items_tail' = IF th[w].next = NULL THEN th[w].dc ELSE dq_items_tail
    /\ UNCHANGED <<dq_items_head, do_next, counts, do_ref_cnt, sema, root, items, user, missed>>

PutWait(w) ==
    /\ At(w, "put_wait") /\ dq_items_head # NULL
    /\ do_next' = [do_next EXCEPT ![th[w].dc] = dq_items_head]
    /\ Goto(w, "put_head")
    /\ UNCHANGED <<dq_items_head, dq_items_tail, counts, do_ref_cnt, sema, root, items, user, missed>>

PutHead(w) ==
    /\ At(w, "put_head")
    /\ dq_items_head' = th[w].dc
    /\ Goto(w, "invoke_unlock")
    /\ UNCHANGED <<dq_items_tail, do_next, counts, do_ref_cnt, sema, root, items, user, missed>>

-----------------------------------------------------------------------------
(* dispatch_suspend, dispatch_resume and the creator's dispatch_release *)

Suspend(c) ==
    /\ At(c, "idle") /\ owned /\ budget > 0
    /\ do_suspend_cnt' = do_suspend_cnt + 2
    /\ do_ref_cnt' = do_ref_cnt + 1
    /\ suspends' = suspends + 1 /\ budget' = budget - 1
    /\ UNCHANGED <<list, dq_running, sema, root, th, items, owned, missed>>

Resume(c) ==
    /\ At(c, "idle") /\ suspends > 0
    /\ do_suspend_cnt' = do_suspend_cnt - 2
    /\ suspends' = suspends - 1
    /\ IF do_suspend_cnt > 2 THEN Goto(c, "release") ELSE GoWakeup(c, "release")
    /\ UNCHANGED <<list, dq_running, do_ref_cnt, sema, root, items, owned, budget, missed>>

\* The creator releases the queue as soon as the interface allows it: all
\* calls have been made, no client is inside a synchronous call or before the
\* push of an asynchronous one, or an asynchronous block that has started does
\* it itself; a suspended queue is not released.
Submitted(c) ==
    \/ At(c, "idle")
    \/ th[c].item # NULL /\ ~IsSync(th[c].item) /\ status[th[c].item] \in {"running", "done"}

ReleaseOwner ==
    /\ owned /\ suspends = 0 /\ ~Suspended
    /\ \A c \in Client : Submitted(c)
    /\ owned' = FALSE
    /\ do_ref_cnt' = do_ref_cnt - 1
    /\ UNCHANGED <<list, counts, sema, root, th, items, suspends, budget, missed>>

-----------------------------------------------------------------------------
\* Steps inside the library; the ones that spin or sleep have a guard.
ClientStep(c) ==
    \/ CheckTail(c) \/ CheckSuspended(c) \/ AddAsync(c) \/ AsyncOver(c) \/ AsyncRetry(c)
    \/ AddSync(c) \/ TryLock(c) \/ SemWait(c) \/ PushTail(c) \/ PushLink(c) \/ PushHead(c)
    \/ UnlockTail(c) \/ UnlockSuspended(c) \/ Unlock(c)
    \/ HandoffSuspend(c) \/ HandoffRunning(c) \/ ResumeSelf(c)
    \/ PopHead(c) \/ PopTail(c) \/ PopWait(c)
    \/ TransferSuspend(c) \/ TransferRunning(c) \/ SignalNext(c)

WorkerStep(w) ==
    \/ Take(w) \/ InvokeSuspended(w) \/ InvokeLock(w) \/ InvokeUnlock(w) \/ DropLock(w) \/ Verify(w)
    \/ DrainTail(w) \/ DrainHead(w) \/ DrainNext(w) \/ DrainLast(w) \/ DrainWait(w)
    \/ DrainSuspended(w) \/ DrainWidth(w) \/ DrainBarrier(w) \/ Redirect(w)
    \/ PopSuspend(w) \/ PopRunning(w) \/ PutBack(w) \/ PutWait(w) \/ PutHead(w)

CommonStep(t) ==
    \/ ItemEnds(t) \/ WakeupSuspended(t) \/ WakeupTail(t) \/ WakeupLock(t)
    \/ Release(t) \/ Sub(t)

Next ==
    \/ \E c \in Client : ClientStep(c) \/ Suspend(c) \/ Resume(c) \/ \E k \in Kinds : Call(c, k)
    \/ \E w \in Worker : WorkerStep(w)
    \/ \E t \in Thread : CommonStep(t)
    \/ ReleaseOwner

Spec == Init /\ [][Next]_vars

-----------------------------------------------------------------------------
(* Properties *)

Running == {i \in Item : status[i] = "running"}

\* A barrier runs alone: while one runs no other item of the queue does.  On
\* a serial queue this is mutual exclusion of all items.
BarrierExclusive == \A i, j \in Running : i # j => ~IsBarrier(i)

\* A barrier that holds the queue's lock (1 in dq_running) runs alone.  Those
\* are the ones that a drain runs and the syncs that locked the idle queue.
LockedBarrierExclusive ==
    \A t \in Thread : At(t, "running") /\ th[t].ret \in {"drain_more", "unlock_tail"}
                      => Running = {th[t].item}

\* The items of one client are in order around barriers: whatever the path
\* that each took, an item starts only after the earlier ones of its client
\* have ended if it or they are barriers.
ProgramOrder ==
    \A i, j \in Item : /\ i[1] = j[1] /\ i[2] < j[2]
                       /\ IsBarrier(i) \/ IsBarrier(j)
                       /\ status[j] \in {"running", "done"}
                       => status[i] = "done"

\* The same for a queue that nobody has suspended.
OrderUnlessSuspended == budget = MaxSuspends => ProgramOrder

\* Asynchronous items that left the list and have not ended.
Redirected == (root \ {DQ}) \cup {i \in Running : kind[i] = "async"}

\* At most dq_width / 2 asynchronous items of the queue are in flight on the
\* root queue, whether they went there from the fast path or from a drain.
WidthRespected == dq_width # 1 => 2 * Cardinality(Redirected) <= dq_width

\* Everyone waits for someone else to act.
Quiet ==
    /\ root = {}
    /\ \A w \in Worker : At(w, "idle")
    /\ \A c \in Client : At(c, "idle") \/ (At(c, "sem_wait") /\ th[c].item \notin sema)

\* No item is left behind: when nobody acts and the queue is not suspended,
\* every item has run, the list is empty and both counters are 0.
NothingLost ==
    Quiet /\ suspends = 0 =>
        /\ \A c \in Client : At(c, "idle")
        /\ \A i \in Item : status[i] \in {"new", "done"}
        /\ dq_items_head = NULL /\ dq_items_tail = NULL
        /\ dq_running = 0 /\ do_suspend_cnt = 0

\* The only way to lose an item is an asynchronous call that gives up its share
\* of dq_running after the barrier has ended, and does not look for others.
NothingElseLost == ~missed => NothingLost

\* The last reference is released only when no item is pending and no worker
\* or redirected item will touch the queue; and it is released in the end.
RefsBalanced == ~missed =>
    /\ do_ref_cnt = -1 => root = {} /\ dq_items_tail = NULL /\ \A t \in Thread : At(t, "idle")
    /\ Quiet /\ suspends = 0 => do_ref_cnt = IF owned THEN 0 ELSE -1

\* A pending item keeps the queue alive.
PendingHoldQueue == dq_items_tail # NULL => do_ref_cnt >= 0
=============================================================================
