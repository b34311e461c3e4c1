------------------------------ MODULE Apply ------------------------------
(***************************************************************************)
(* dispatch_apply_f: the iterations of a call are shared out between the   *)
(* caller and continuations pushed on the root queue, each of which claims *)
(* the next index until none is left (_dispatch_apply_invoke).  On a queue *)
(* that is not a root queue the call first reserves the width of every     *)
(* queue down to the root, and gives back what does not fit                *)
(* (_dispatch_apply_redirect).  Continuations run when a worker finds      *)
(* them, which may be after the call returned.                             *)
(*                                                                         *)
(* dispatch_sync is module Queue's: here it adds 2 to dq_running of the    *)
(* queues it goes through and takes it back, whatever their width is.  The *)
(* lock of a drain, which makes dq_running odd, is left out.               *)
(***************************************************************************)
EXTENDS Integers, Sequences, FiniteSets

CONSTANTS Callers,         \* calls of dispatch_apply_f, each on a thread of its own
          Queues, Width,   \* the queues that are not root queues, and their dq_width
          Chain,           \* the queues from the one each call is made on to the root
          Iterations,      \* of each call
          Nested,          \* calls made inside another dispatch_apply
          cc_max_active,   \* the number of processors
          Syncs, SyncOn,   \* other calls of dispatch_sync, and their queue
          UINT32           \* the number of values of a uint32_t, scaled down

MaxCPUs == 64

\* <<c, 0>> is the caller of c, the others the workers of the root queue that
\* run its continuations.
Threads == Callers \X (0..(cc_max_active - 1))

VARIABLES dq_running,
          da,        \* the dispatch_apply_s of each call, with its local variables and
                     \* the number of its continuations on the root queue
          pc,        \* the step of each caller outside _dispatch_apply_invoke
          work,      \* each thread in _dispatch_apply_invoke: its step and "done"
          ran,       \* how often each iteration of each call ran
          freed,     \* how often each dispatch_apply_s was freed
          sync       \* the other callers of dispatch_sync

vars == <<dq_running, da, pc, work, ran, freed, sync>>

Minimum(a, b) == IF a < b THEN a ELSE b
ThreadCount(c) == Minimum(Iterations[c], Minimum(cc_max_active, MaxCPUs))

Init ==
    /\ dq_running = [q \in Queues |-> 0]
    /\ da = [c \in Callers |-> [index |-> 0, done |-> 0, sema |-> 0, level |-> 1, back |-> 0,
                                excess |-> 0, queued |-> 0, thr_cnt |-> ThreadCount(c),
                                width |-> 2 * (ThreadCount(c) - 1)]]
    /\ pc = [c \in Callers |-> "start"]
    /\ work = [t \in Threads |-> [pc |-> "idle", done |-> 0]]
    /\ ran = [c \in Callers |-> [i \in 0..(Iterations[c] - 1) |-> 0]]
    /\ freed = [c \in Callers |-> 0]
    /\ sync = [s \in Syncs |-> "idle"]

Goto(c, label) == pc' = [pc EXCEPT ![c] = label]
Reserve(q, n) == dq_running' = [dq_running EXCEPT ![q] = (@ + n) % UINT32]
SyncChain(c, n) ==
    dq_running' = [q \in Queues |->
        IF \E k \in DOMAIN Chain[c] : Chain[c][k] = q
        THEN (dq_running[q] + n) % UINT32 ELSE dq_running[q]]

(***************************************************************************)
(* dispatch_apply_f.                                                       *)
(***************************************************************************)
Serial(c) ==
    \/ Chain[c] # <<>> /\ Width[Chain[c][1]] <= 2
    \/ ThreadCount(c) <= 1
    \/ Nested[c]

Start(c) ==
    /\ pc[c] = "start"
    /\ \/ /\ Iterations[c] = 0
          /\ Goto(c, "done")
          /\ UNCHANGED dq_running
       \/ /\ Iterations[c] > 0 /\ (Serial(c) \/ Chain[c] # <<>>)
          /\ SyncChain(c, 2)
          /\ Goto(c, IF Serial(c) THEN "serial" ELSE "reserve")
       \/ /\ Iterations[c] > 0 /\ ~Serial(c) /\ Chain[c] = <<>>
          /\ Goto(c, "push")
          /\ UNCHANGED dq_running
    /\ UNCHANGED <<da, work, ran, freed, sync>>

\* _dispatch_apply_serial
RunSerial(c) ==
    /\ pc[c] = "serial"
    /\ ran' = [ran EXCEPT ![c] = [i \in DOMAIN @ |-> @[i] + 1]]
    /\ freed' = [freed EXCEPT ![c] = @ + 1]
    /\ SyncChain(c, -2)
    /\ Goto(c, "done")
    /\ UNCHANGED <<da, work, sync>>

(***************************************************************************)
(* _dispatch_apply_redirect, on the queue at da.level of the chain: add    *)
(* the width wanted; give the excess back on every queue so far.           *)
(***************************************************************************)
Excess(c, running) ==
    LET width == Width[Chain[c][da[c].level]]
    IN IF running <= width THEN 0
       ELSE IF width > 1 THEN running - width ELSE da[c].width

NextLevel(c) == IF da[c].level = Len(Chain[c]) THEN "push" ELSE "reserve"

RedirectReserve(c) ==
    LET q == Chain[c][da[c].level]
        excess == Excess(c, (dq_running[q] + da[c].width) % UINT32)
    IN /\ pc[c] = "reserve"
       /\ Reserve(q, da[c].width)
       /\ da' = [da EXCEPT ![c].excess = excess, ![c].back = IF excess > 0 THEN 1 ELSE 0,
                           ![c].level = IF excess > 0 THEN @ ELSE @ + 1]
       /\ Goto(c, IF excess > 0 THEN "give_back" ELSE NextLevel(c))
       /\ UNCHANGED <<work, ran, freed, sync>>

\* The excess is more than was asked for when others alone are over the width:
\* then the share and the number of threads wrap, and the call goes on with
\* about UINT32 continuations.
RedirectGiveBack(c) ==
    LET last == da[c].back = da[c].level
        left == (da[c].width - da[c].excess) % UINT32
    IN /\ pc[c] = "give_back"
       /\ Reserve(Chain[c][da[c].back], 0 - da[c].excess)
       /\ da' = IF ~last THEN [da EXCEPT ![c].back = @ + 1]
                ELSE [da EXCEPT ![c].width = left, ![c].level = @ + 1,
                                ![c].thr_cnt = (@ - da[c].excess \div 2) % UINT32]
       /\ Goto(c, CASE ~last -> "give_back"
                    [] last /\ left = 0 -> "serial"
                    [] OTHER -> NextLevel(c))
       /\ UNCHANGED <<work, ran, freed, sync>>

(***************************************************************************)
(* _dispatch_apply_f2: push a continuation for every thread but the        *)
(* caller's, take part, and wait for the last iteration.                   *)
(***************************************************************************)
Push(c) ==
    /\ pc[c] = "push"
    /\ da' = [da EXCEPT ![c].queued = (da[c].thr_cnt - 1) % UINT32]
    /\ work' = [work EXCEPT ![<<c, 0>>].pc = "claim"]
    /\ Goto(c, "wait")
    /\ UNCHANGED <<dq_running, ran, freed, sync>>

Wait(c) ==
    /\ pc[c] = "wait"
    /\ work[<<c, 0>>].pc = "idle"
    /\ da[c].sema > 0
    /\ da' = [da EXCEPT ![c].sema = @ - 1, ![c].level = 1]
    /\ Goto(c, IF Chain[c] = <<>> THEN "done" ELSE "release")
    /\ UNCHANGED <<dq_running, work, ran, freed, sync>>

\* The rest of _dispatch_apply_redirect, and the end of its dispatch_sync.
Release(c) ==
    /\ pc[c] = "release"
    /\ da' = [da EXCEPT ![c].level = @ + 1]
    /\ Reserve(Chain[c][da[c].level], 0 - da[c].width)
    /\ Goto(c, IF da[c].level = Len(Chain[c]) THEN "unsync" ELSE "release")
    /\ UNCHANGED <<work, ran, freed, sync>>

Unsync(c) ==
    /\ pc[c] = "unsync"
    /\ SyncChain(c, -2)
    /\ Goto(c, "done")
    /\ UNCHANGED <<da, work, ran, freed, sync>>

(***************************************************************************)
(* _dispatch_apply_invoke, by the caller and by workers.                   *)
(***************************************************************************)
Dequeue(t) ==
    /\ work[t].pc = "idle" /\ t[2] # 0
    /\ da[t[1]].queued > 0
    /\ da' = [da EXCEPT ![t[1]].queued = @ - 1]
    /\ work' = [work EXCEPT ![t].pc = "claim"]
    /\ UNCHANGED <<dq_running, pc, ran, freed, sync>>

Claim(t) ==
    LET c == t[1] IN
    /\ work[t].pc = "claim"
    /\ da' = [da EXCEPT ![c].index = @ + 1]
    /\ IF da[c].index < Iterations[c]
       THEN /\ ran' = [ran EXCEPT ![c][da[c].index] = @ + 1]
            /\ work' = [work EXCEPT ![t].done = @ + 1]
       ELSE /\ work' = [work EXCEPT ![t].pc = IF work[t].done > 0 THEN "finish" ELSE "drop"]
            /\ UNCHANGED ran
    /\ UNCHANGED <<dq_running, pc, freed, sync>>

\* Bug: a thread counts one iteration, however many it ran, and always signals.
FinishBug(t) ==
    LET c == t[1] IN
    /\ work[t].pc = "finish"
    /\ da' = [da EXCEPT ![c].done = @ + 1, ![c].sema = @ + 1]
    /\ work' = [work EXCEPT ![t].pc = "drop"]
    /\ UNCHANGED <<dq_running, pc, ran, freed, sync>>

Finish(t) ==
    LET c == t[1]
        done == da[c].done + work[t].done
    IN /\ work[t].pc = "finish"
       /\ da' = [da EXCEPT ![c].done = done,
                           ![c].sema = IF done = Iterations[c] THEN @ + 1 ELSE @]
       /\ work' = [work EXCEPT ![t].pc = "drop"]
       /\ UNCHANGED <<dq_running, pc, ran, freed, sync>>

Drop(t) ==
    LET c == t[1] IN
    /\ work[t].pc = "drop"
    /\ da' = [da EXCEPT ![c].thr_cnt = (@ - 1) % UINT32]
    /\ freed' = [freed EXCEPT ![c] = IF da[c].thr_cnt = 1 THEN @ + 1 ELSE @]
    /\ work' = [work EXCEPT ![t] = [pc |-> "idle", done |-> 0]]
    /\ UNCHANGED <<dq_running, pc, ran, sync>>

SyncBegin(s) ==
    /\ sync[s] = "idle"
    /\ Reserve(SyncOn[s], 2)
    /\ sync' = [sync EXCEPT ![s] = "running"]
    /\ UNCHANGED <<da, pc, work, ran, freed>>

SyncEnd(s) ==
    /\ sync[s] = "running"
    /\ Reserve(SyncOn[s], -2)
    /\ sync' = [sync EXCEPT ![s] = "over"]
    /\ UNCHANGED <<da, pc, work, ran, freed>>

Next ==
    \/ \E c \in Callers :
         \/ Start(c) \/ RunSerial(c) \/ RedirectReserve(c) \/ RedirectGiveBack(c)
         \/ Push(c) \/ Wait(c) \/ Release(c) \/ Unsync(c)
    \/ \E t \in Threads : Dequeue(t) \/ Claim(t) \/ Finish(t) \/ Drop(t)
    \/ \E s \in Syncs : SyncBegin(s) \/ SyncEnd(s)

Spec == Init /\ [][Next]_vars

(* When dispatch_apply_f returns, each iteration has run exactly once and  *)
(* is over, however few of the continuations have been picked up; and the  *)
(* semaphore the thread reuses is not left signalled.                      *)
ApplyReturnsAfterAll ==
    \A c \in Callers :
      /\ \A i \in DOMAIN ran[c] : ran[c][i] <= 1
      /\ pc[c] \in {"release", "unsync", "done"} =>
           /\ \A i \in DOMAIN ran[c] : ran[c][i] = 1
           /\ da[c].sema = 0

(* The dispatch_apply_s outlives the call while continuations refer to it: *)
(* it is freed by the last of the threads and exactly once, also when the  *)
(* number of threads has wrapped.                                          *)
ApplyFreedByLast ==
    \A c \in Callers :
      LET inUse == da[c].queued > 0 \/ \E t \in Threads : t[1] = c /\ work[t].pc # "idle"
      IN /\ freed[c] > 0 => ~inUse
         /\ freed[c] <= 1
         /\ pc[c] = "done" /\ Iterations[c] > 0 /\ ~inUse => freed[c] = 1

(* Every queue's dq_running is back where it was when the calls are over:  *)
(* the width given back to a prefix of the chain, also when other calls    *)
(* alone are over the width and the share that is left wraps.              *)
RunningRestored ==
    ((\A c \in Callers : pc[c] = "done") /\ (\A s \in Syncs : sync[s] # "running"))
    => \A q \in Queues : dq_running[q] = 0

(* dispatch_apply keeps all three.                                         *)
ApplySound == ApplyReturnsAfterAll /\ ApplyFreedByLast /\ RunningRestored
==========================================================================
