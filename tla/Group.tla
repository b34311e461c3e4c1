------------------------------ MODULE Group ------------------------------
(***************************************************************************)
(* dispatch_group_t: a semaphore whose value starts at LONG_MAX.  Entering *)
(* decrements it, leaving increments it, and the group is empty when it is *)
(* back at dsema_orig.  Whoever sees it empty runs _dispatch_group_wake,   *)
(* which posts the futex for the threads in dispatch_group_wait and        *)
(* submits the blocks of dispatch_group_notify.  Those are kept in a       *)
(* linked list built without a lock (dsema_notify_head, dsema_notify_tail, *)
(* dsn_next).  The futex is taken by its specification: `ksem` holds its   *)
(* permits.                                                                *)
(***************************************************************************)
EXTENDS Integers, FiniteSets

CONSTANTS Thread,
          Block,      \* the notification blocks, each given to one call
          NULL,       \* no block
          ORIG,       \* dsema_orig; bounds the blocks in the group at a time
          MaxWaits    \* bound of the model: calls that reach the slow wait

ASSUME BoundAssumption ==
    /\ IsFiniteSet(Thread) /\ NULL \notin Block \cup Thread
    /\ ORIG \in Nat \ {0} /\ MaxWaits \in Nat

VARIABLES dsema_value,
          dsema_group_waiters,
          dsema_notify_head,
          dsema_notify_tail,
          dsn_next,     \* the list's links
          ksem,         \* permits of dsema_futex
          pc,           \* where each thread is
          then,         \* where it goes after _dispatch_group_wake
          timed,        \* the threads whose dispatch_group_wait has a timeout
          head, tail,   \* locals of _dispatch_group_wake; in dispatch_group_notify_f
          rval,         \* head holds dsn and tail holds prev
          owned,        \* the creator has not released its reference
          do_ref_cnt,   \* internal references minus one
          freed, crashed,
          entered,      \* members of the group that hold no reference to it
          notified,     \* blocks given to dispatch_group_notify
          submits,      \* how often each block was submitted to its queue
          owing,        \* the threads in whose wait call, and the blocks since whose
                        \* notify call, the group has not been empty
          waits         \* calls that reached the slow wait

list == <<dsema_notify_head, dsema_notify_tail, dsn_next>>
locals == <<then, timed, head, tail, rval>>
object == <<owned, do_ref_cnt, freed>>
ghosts == <<entered, notified, submits, waits>>
vars == <<dsema_value, dsema_group_waiters, list, ksem, pc, locals, object, crashed, ghosts, owing>>

WakeLabel == {"wake_head", "wake_tail", "wake_waiters", "wake_post", "wake_submit", "wake_next"}
WaitLabel == {"again", "inc", "recheck", "timedwait", "undo", "sem_wait"}
NotifyLabel == {"notify_link", "notify_head", "notify_check"}
Label == {"idle", "release"} \cup WakeLabel \cup WaitLabel \cup NotifyLabel

Init ==
    /\ dsema_value = ORIG
    /\ dsema_group_waiters = 0 /\ ksem = 0
    /\ dsema_notify_head = NULL /\ dsema_notify_tail = NULL
    /\ dsn_next = [b \in Block |-> NULL]
    /\ pc = [t \in Thread |-> "idle"]
    /\ then = [t \in Thread |-> "idle"]
    /\ timed = {}
    /\ head = [t \in Thread |-> NULL] /\ tail = [t \in Thread |-> NULL]
    /\ rval = [t \in Thread |-> 0]
    /\ owned = TRUE /\ do_ref_cnt = 0 /\ freed = FALSE /\ crashed = FALSE
    /\ entered = 0
    /\ notified = {} /\ submits = [b \in Block |-> 0]
    /\ owing = {}
    /\ waits = 0

Goto(t, label) == pc' = [pc EXCEPT ![t] = label]
IsEmpty == dsema_value = ORIG
Inside(labels) == {t \in Thread : pc[t] \in labels}

\* The members that dispatch_group_async has put into the group.
Blocks == ORIG - dsema_value - entered

\* The creator's reference keeps the group while it is used by others than
\* the blocks of dispatch_group_async, each of which holds one of its own.
MayUse(t) == pc[t] = "idle" /\ owned

\* Enter _dispatch_group_wake, to return to `label`.
GoWake(t, label) == Goto(t, "wake_head") /\ then' = [then EXCEPT ![t] = label]

-----------------------------------------------------------------------------
(* References, and _dispatch_semaphore_dispose *)

ReleaseRef ==
    /\ do_ref_cnt' = do_ref_cnt - 1
    /\ freed' = (freed \/ do_ref_cnt = 0)
    /\ crashed' = (crashed \/ (do_ref_cnt = 0 /\ dsema_value < ORIG))
    /\ UNCHANGED owned

\* dispatch_release by the creator, after the calls that rely on its
\* reference have returned.
ReleaseOwner ==
    /\ owned
    /\ \A t \in Thread : pc[t] \in WaitLabel \cup NotifyLabel \cup WakeLabel => then[t] = "release"
    /\ owned' = FALSE
    /\ do_ref_cnt' = do_ref_cnt - 1
    /\ freed' = (do_ref_cnt = 0)
    /\ crashed' = (do_ref_cnt = 0 /\ dsema_value < ORIG)
    /\ UNCHANGED <<dsema_value, dsema_group_waiters, list, ksem, pc, locals, ghosts, owing>>

-----------------------------------------------------------------------------
(* dispatch_group_async, whose block retains the group, enters it, leaves it  *)
(* when it has run (_dispatch_continuation_pop) and then releases it, and     *)
(* dispatch_group_enter and dispatch_group_leave, which take no reference.    *)

\* dispatch_semaphore_wait would block at value 0, after LONG_MAX calls.
Join(t) ==
    /\ MayUse(t)
    /\ dsema_value > 0
    /\ dsema_value' = dsema_value - 1

Async(t) ==
    /\ Join(t)
    /\ do_ref_cnt' = do_ref_cnt + 1
    /\ UNCHANGED <<dsema_group_waiters, list, ksem, pc, locals, owned, freed, crashed, ghosts, owing>>

Enter(t) ==
    /\ Join(t)
    /\ entered' = entered + 1
    /\ UNCHANGED <<dsema_group_waiters, list, ksem, pc, locals, object, crashed,
                   notified, submits, waits, owing>>

\* The body of dispatch_group_leave, in a call that goes on at `label`.
LeaveTo(t, label) ==
    /\ dsema_value' = dsema_value + 1
    /\ IF dsema_value + 1 = ORIG
       THEN GoWake(t, label) /\ owing' = {}
       ELSE Goto(t, label) /\ then' = [then EXCEPT ![t] = label] /\ UNCHANGED owing
    /\ UNCHANGED <<dsema_group_waiters, list, ksem, timed, head, tail, rval, object, crashed,
                   notified, submits, waits>>

\* A block of dispatch_group_async has run, on any thread.
BlockDone(t) ==
    /\ pc[t] = "idle"
    /\ Blocks > 0
    /\ LeaveTo(t, "release")
    /\ UNCHANGED entered

\* dispatch_group_leave for a dispatch_group_enter, by a caller that has the
\* creator's reference or leaves before a block that has its own.
Leave(t) ==
    /\ pc[t] = "idle"
    /\ owned \/ Blocks > 0
    /\ entered > 0
    /\ LeaveTo(t, "idle")
    /\ entered' = entered - 1

\* One without a dispatch_group_enter wraps LONG_MAX around and stops the
\* process.
LeaveUnbalanced(t) ==
    /\ MayUse(t)
    /\ IsEmpty
    /\ crashed' = TRUE
    /\ UNCHANGED <<dsema_value, dsema_group_waiters, list, ksem, pc, locals, object, ghosts, owing>>

\* The _dispatch_release that follows the leave of a block.
LeaveRelease(t) ==
    /\ pc[t] = "release"
    /\ ReleaseRef
    /\ Goto(t, "idle")
    /\ then' = [then EXCEPT ![t] = "idle"]
    /\ UNCHANGED <<dsema_value, dsema_group_waiters, list, ksem, timed, head, tail, rval, ghosts, owing>>

-----------------------------------------------------------------------------
(* _dispatch_group_wake *)

WakeHead(t) ==
    /\ pc[t] = "wake_head"
    /\ head' = [head EXCEPT ![t] = dsema_notify_head]
    /\ dsema_notify_head' = NULL
    /\ Goto(t, IF dsema_notify_head # NULL THEN "wake_tail" ELSE "wake_waiters")
    /\ UNCHANGED <<dsema_value, dsema_group_waiters, dsema_notify_tail, dsn_next, ksem,
                   then, timed, tail, rval, object, crashed, ghosts, owing>>

WakeTail(t) ==
    /\ pc[t] = "wake_tail"
    /\ tail' = [tail EXCEPT ![t] = dsema_notify_tail]
    /\ dsema_notify_tail' = NULL
    /\ Goto(t, "wake_waiters")
    /\ UNCHANGED <<dsema_value, dsema_group_waiters, dsema_notify_head, dsn_next, ksem,
                   then, timed, head, rval, object, crashed, ghosts, owing>>

\* Where the wake goes once the waiters are posted.
AfterPosts(t) == IF head[t] # NULL THEN "wake_submit" ELSE then[t]

WakeWaiters(t) ==
    /\ pc[t] = "wake_waiters"
    /\ rval' = [rval EXCEPT ![t] = dsema_group_waiters]
    /\ dsema_group_waiters' = 0
    /\ Goto(t, IF dsema_group_waiters > 0 THEN "wake_post" ELSE AfterPosts(t))
    /\ UNCHANGED <<dsema_value, list, ksem, then, timed, head, tail, object, crashed, ghosts, owing>>

\* Bug: one permit is posted whatever the number of waiters.
WakePostOnceBug(t) ==
    /\ pc[t] = "wake_post"
    /\ ksem' = ksem + 1
    /\ rval' = [rval EXCEPT ![t] = 0]
    /\ Goto(t, AfterPosts(t))
    /\ UNCHANGED <<dsema_value, dsema_group_waiters, list, then, timed, head, tail,
                   object, crashed, ghosts, owing>>

WakePost(t) ==
    /\ pc[t] = "wake_post"
    /\ ksem' = ksem + 1
    /\ rval' = [rval EXCEPT ![t] = @ - 1]
    /\ Goto(t, IF rval[t] > 1 THEN "wake_post" ELSE AfterPosts(t))
    /\ UNCHANGED <<dsema_value, dsema_group_waiters, list, then, timed, head, tail,
                   object, crashed, ghosts, owing>>

\* dispatch_async_f of one block ...
WakeSubmit(t) ==
    /\ pc[t] = "wake_submit"
    /\ submits' = [submits EXCEPT ![head[t]] = @ + 1]
    /\ Goto(t, "wake_next")
    /\ UNCHANGED <<dsema_value, dsema_group_waiters, list, ksem, locals, object, crashed,
                   entered, notified, waits, owing>>

\* ... and the step to the next one, which waits for the link of a block that
\* is not the last, frees the block and releases the group after the last.
WakeNext(t) ==
    /\ pc[t] = "wake_next"
    /\ LET next == dsn_next[head[t]] IN
       /\ next # NULL \/ head[t] = tail[t]
       /\ head' = [head EXCEPT ![t] = next]
       /\ dsn_next' = [dsn_next EXCEPT ![head[t]] = NULL]
       /\ IF next # NULL
          THEN Goto(t, "wake_submit") /\ UNCHANGED <<tail, object, crashed>>
          ELSE Goto(t, then[t]) /\ tail' = [tail EXCEPT ![t] = NULL] /\ ReleaseRef
    /\ UNCHANGED <<dsema_value, dsema_group_waiters, dsema_notify_head, dsema_notify_tail,
                   ksem, then, timed, rval, ghosts, owing>>

-----------------------------------------------------------------------------
(* dispatch_group_wait and _dispatch_group_wait_slow *)

\* An empty group and DISPATCH_TIME_NOW return at once and change nothing.
Wait(t, withTimeout) ==
    /\ MayUse(t)
    /\ ~IsEmpty
    /\ waits < MaxWaits
    /\ waits' = waits + 1
    /\ timed' = IF withTimeout THEN timed \cup {t} ELSE timed
    /\ owing' = owing \cup {t}
    /\ Goto(t, "again")
    /\ UNCHANGED <<dsema_value, dsema_group_waiters, list, ksem, then, head, tail, rval,
                   object, crashed, entered, notified, submits>>

\* What no step of the wait changes.
WaitFrame == UNCHANGED <<dsema_value, list, head, tail, rval, object, crashed, ghosts>>

\* The group is empty: wake the others too and return 0.
WaitDone(t) == IsEmpty /\ GoWake(t, "idle") /\ timed' = timed \ {t}

WaitAgain(t) ==
    /\ pc[t] = "again"
    /\ WaitDone(t) \/ (~IsEmpty /\ Goto(t, "inc") /\ UNCHANGED <<then, timed>>)
    /\ UNCHANGED <<dsema_group_waiters, ksem, owing>> /\ WaitFrame

WaitInc(t) ==
    /\ pc[t] = "inc"
    /\ dsema_group_waiters' = dsema_group_waiters + 1
    /\ Goto(t, "recheck")
    /\ UNCHANGED <<ksem, then, timed, owing>> /\ WaitFrame

\* Bug: the group is not checked again after the increment.
WaitRecheckMissingBug(t) ==
    /\ pc[t] = "recheck"
    /\ Goto(t, IF t \in timed THEN "timedwait" ELSE "sem_wait")
    /\ UNCHANGED <<dsema_group_waiters, ksem, then, timed, owing>> /\ WaitFrame

WaitRecheck(t) ==
    /\ pc[t] = "recheck"
    /\ \/ WaitDone(t)
       \/ /\ ~IsEmpty
          /\ Goto(t, IF t \in timed THEN "timedwait" ELSE "sem_wait")
          /\ UNCHANGED <<then, timed>>
    /\ UNCHANGED <<dsema_group_waiters, ksem, owing>> /\ WaitFrame

\* Bug: a wakeup is taken for the end of the wait.
WaitTakeReturnsBug(t) ==
    /\ pc[t] \in {"timedwait", "sem_wait"}
    /\ ksem > 0
    /\ ksem' = ksem - 1
    /\ Goto(t, "idle")
    /\ UNCHANGED <<dsema_group_waiters, then, timed, owing>> /\ WaitFrame

\* _dispatch_futex_wait returns 0.
WaitTake(t) ==
    /\ pc[t] \in {"timedwait", "sem_wait"}
    /\ ksem > 0
    /\ ksem' = ksem - 1
    /\ Goto(t, "again")
    /\ UNCHANGED <<dsema_group_waiters, then, timed, owing>> /\ WaitFrame

\* _dispatch_futex_wait with a timeout returns ETIMEDOUT.
WaitExpires(t) ==
    /\ pc[t] = "timedwait"
    /\ Goto(t, "undo")
    /\ UNCHANGED <<dsema_group_waiters, ksem, then, timed, owing>> /\ WaitFrame

\* Take the increment back and return a timeout, unless a wake has taken it:
\* then its wakeup has to be drained.
WaitUndo(t) ==
    /\ pc[t] = "undo"
    /\ IF dsema_group_waiters > 0
       THEN /\ dsema_group_waiters' = dsema_group_waiters - 1
            /\ Goto(t, "idle")
            /\ timed' = timed \ {t}
            /\ owing' = owing \ {t}
       ELSE Goto(t, "sem_wait") /\ UNCHANGED <<dsema_group_waiters, timed, owing>>
    /\ UNCHANGED <<ksem, then>> /\ WaitFrame

-----------------------------------------------------------------------------
(* dispatch_group_notify_f: `head` holds dsn and `tail` prev. *)

Notify(t, b) ==
    /\ MayUse(t)
    /\ b \notin notified
    /\ notified' = notified \cup {b}
    /\ owing' = IF IsEmpty THEN owing ELSE owing \cup {b}
    /\ head' = [head EXCEPT ![t] = b]
    /\ tail' = [tail EXCEPT ![t] = dsema_notify_tail]
    /\ dsema_notify_tail' = b
    /\ Goto(t, IF dsema_notify_tail # NULL THEN "notify_link" ELSE "notify_head")
    /\ UNCHANGED <<dsema_value, dsema_group_waiters, dsema_notify_head, dsn_next, ksem,
                   then, timed, rval, object, crashed, entered, submits, waits>>

NotifyLink(t) ==
    /\ pc[t] = "notify_link"
    /\ dsn_next' = [dsn_next EXCEPT ![tail[t]] = head[t]]
    /\ head' = [head EXCEPT ![t] = NULL] /\ tail' = [tail EXCEPT ![t] = NULL]
    /\ Goto(t, "idle")
    /\ UNCHANGED <<dsema_value, dsema_group_waiters, dsema_notify_head, dsema_notify_tail,
                   ksem, then, timed, rval, object, crashed, ghosts, owing>>

\* Bug: the list does not hold a reference to the group.
NotifyHeadNoRetainBug(t) ==
    /\ pc[t] = "notify_head"
    /\ dsema_notify_head' = head[t]
    /\ head' = [head EXCEPT ![t] = NULL]
    /\ Goto(t, "notify_check")
    /\ UNCHANGED <<dsema_value, dsema_group_waiters, dsema_notify_tail, dsn_next, ksem,
                   then, timed, tail, rval, object, crashed, ghosts, owing>>

\* The first block of a list retains the group for the whole list.
NotifyHead(t) ==
    /\ pc[t] = "notify_head"
    /\ do_ref_cnt' = do_ref_cnt + 1
    /\ dsema_notify_head' = head[t]
    /\ head' = [head EXCEPT ![t] = NULL]
    /\ Goto(t, "notify_check")
    /\ UNCHANGED <<dsema_value, dsema_group_waiters, dsema_notify_tail, dsn_next, ksem,
                   then, timed, tail, rval, owned, freed, crashed, ghosts, owing>>

\* Bug: the group is not checked after the list was published.
NotifyCheckMissingBug(t) ==
    /\ pc[t] = "notify_check"
    /\ Goto(t, "idle")
    /\ UNCHANGED <<dsema_value, dsema_group_waiters, list, ksem, locals, object, crashed,
                   ghosts, owing>>

NotifyCheck(t) ==
    /\ pc[t] = "notify_check"
    /\ IF IsEmpty THEN GoWake(t, "idle") ELSE Goto(t, "idle") /\ UNCHANGED then
    /\ UNCHANGED <<dsema_value, dsema_group_waiters, list, ksem, timed, head, tail, rval,
                   object, crashed, ghosts, owing>>

-----------------------------------------------------------------------------
Step(t) ==
    /\ ~crashed
    /\ \/ LeaveRelease(t)
       \/ WakeHead(t) \/ WakeTail(t) \/ WakeWaiters(t) \/ WakePost(t)
       \/ WakeSubmit(t) \/ WakeNext(t)
       \/ WaitAgain(t) \/ WaitInc(t) \/ WaitRecheck(t) \/ WaitTake(t)
       \/ WaitExpires(t) \/ WaitUndo(t)
       \/ NotifyLink(t) \/ NotifyHead(t) \/ NotifyCheck(t)

Call(t) ==
    /\ ~crashed
    /\ \/ Async(t) \/ BlockDone(t)
       \/ Enter(t) \/ Leave(t) \/ LeaveUnbalanced(t)
       \/ \E withTimeout \in BOOLEAN : Wait(t, withTimeout)
       \/ \E b \in Block : Notify(t, b)

Next == (\E t \in Thread : Call(t) \/ Step(t)) \/ (~crashed /\ ReleaseOwner)

Spec == Init /\ [][Next]_vars

-----------------------------------------------------------------------------
(* Properties *)

\* Every thread that has counted itself in dsema_group_waiters and may sleep
\* is covered: by the count, by a permit in the futex or by one that a wake
\* is about to post.  Timeouts that take back a count a wake has already
\* turned into a permit, and wakes of threads that wake themselves, leave
\* surplus permits (spurious wakeups), never too few.
Sleepers == Inside({"recheck", "timedwait", "undo", "sem_wait"})
Permits == UNION {{t} \X (1..rval[t]) : t \in Thread}
ToPost == Cardinality(Permits)
WaitersCovered == Cardinality(Sleepers) <= dsema_group_waiters + ksem + ToPost

\* dispatch_group_wait returns 0 only if the group was empty at some time
\* during the call, spurious wakeups or not.
WaitReturnsAfterEmpty ==
    [][\A t \in Thread :
         pc[t] \in WaitLabel \ {"undo"} /\ pc'[t] \notin WaitLabel => t \notin owing]_vars

\* No block of dispatch_group_notify is submitted twice, and none is left in
\* the list when the group is empty and no call is in progress, however the
\* notifiers and the wakes of several threads interleave on the list.
Quiet == Inside(Label \ {"idle"}) = {}
NotifiedOnce ==
    /\ \A b \in Block : submits[b] <= 1
    /\ Quiet /\ IsEmpty /\ ~crashed => \A b \in notified : submits[b] = 1

\* The list's reference keeps the group until its blocks are submitted, the
\* references of the blocks of dispatch_group_async until they have left, and
\* nothing keeps it longer.  A member of dispatch_group_enter keeps nothing:
\* the last release stops the process if one is still in the group.
RefsBalanced ==
    /\ freed => Quiet /\ Blocks = 0 /\ dsema_notify_tail = NULL /\ (IsEmpty \/ crashed)
    /\ Quiet /\ ~owned /\ Blocks = 0 /\ dsema_notify_tail = NULL => freed
    /\ Quiet /\ ~owned /\ IsEmpty => freed

\* A thread blocked in dispatch_group_wait is released when the group becomes
\* empty: once the group is empty and every other call is over, the futex has
\* a permit for each sleeper, whatever wakes, timeouts and blocks given to
\* dispatch_group_notify came in between.
NoWaiterStranded ==
    LET asleep == Inside({"sem_wait", "timedwait"}) IN
    IsEmpty /\ ~crashed /\ (\A t \in Thread \ asleep : pc[t] = "idle")
    => Cardinality(asleep) <= ksem

\* What dispatch/group.h says of dispatch_group_notify: the block is
\* submitted "once all blocks associated with the dispatch group have
\* completed", that is, the group was empty at some time since the call.
NotifyAfterEmpty == \A b \in Block : submits[b] > 0 => b \notin owing
==========================================================================
