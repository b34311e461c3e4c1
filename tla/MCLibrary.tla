----------------------------- MODULE MCLibrary -----------------------------
(***************************************************************************)
(* The library around the queues for TLC.  `mode` says which component a   *)
(* behaviour is of; the times keep the variables of module Time, the other *)
(* components share v1, v2, ... in the order of their own variables.       *)
(***************************************************************************)
EXTENDS MCIO, Time

----------------------------------------------------------------------------
(* A root queue with a pool of two threads, and with threads of the kernel; *)
(* one client pushes two items at once.                                     *)
Batches == [c \in {"c1", "c2"} |-> IF c = "c1" THEN <<"i1", "i2">> ELSE <<"i3">>]

Pool == INSTANCE RootQueue WITH
    Clients <- {"c1", "c2"}, Batch <- Batches, Workers <- {"w1", "w2", "w3"}, PoolSize <- 2,
    Kworkqueue <- FALSE, NULL <- "null", MEDIATOR <- "mediator",
    dq_items_head <- v1, dq_items_tail <- v2, do_next <- v3, pool_size <- v4, dsema_value <- v5,
    posts <- v6, pending <- v7, requests <- v8, th <- v9, pushed <- v10, taken <- v11

Kernel == INSTANCE RootQueue WITH
    Clients <- {"c1", "c2"}, Batch <- Batches, Workers <- {"w1", "w2", "w3"}, PoolSize <- 2,
    Kworkqueue <- TRUE, NULL <- "null", MEDIATOR <- "mediator",
    dq_items_head <- v1, dq_items_tail <- v2, do_next <- v3, pool_size <- v4, dsema_value <- v5,
    posts <- v6, pending <- v7, requests <- v8, th <- v9, pushed <- v10, taken <- v11

(* The main queue and three clients.                                        *)
Main == INSTANCE MainQueue WITH
    Clients <- {"c1", "c2", "c3"}, NULL <- "null", MARKER <- "marker",
    dq_items_head <- v1, dq_items_tail <- v2, do_next <- v3, locked <- v4, on_target <- v5,
    eventfd <- v6, client <- v7, main <- v8, worker <- v9, ran <- v10

(* A call of dispatch_apply through a queue that two calls of dispatch_sync *)
(* alone can fill; two calls that share one; and calls with no iteration,   *)
(* on a root queue and inside another call.                                 *)
Width == [q \in {"q1", "q2"} |-> IF q = "q1" THEN 6 ELSE 4]
Chains == [c \in {"a", "b"} |-> IF c = "a" THEN <<"q1", "q2">> ELSE <<"q2">>]
Counts == [c \in {"a", "b"} |-> IF c = "a" THEN 3 ELSE 2]
NotNested == [c \in {"a", "b"} |-> FALSE]
OnShared == [s \in {"s1", "s2"} |-> "q2"]
Roots == [c \in {"a", "b", "c"} |-> IF c = "b" THEN <<"q1">> ELSE <<>>]
Some == [c \in {"a", "b", "c"} |-> IF c = "a" THEN 0 ELSE 2]
InA == [c \in {"a", "b", "c"} |-> c = "b"]

Narrow == INSTANCE Apply WITH
    Callers <- {"a"}, Queues <- {"q1", "q2"}, Chain <- Chains, Iterations <- Counts,
    Nested <- NotNested, cc_max_active <- 3, Syncs <- {"s1", "s2"}, SyncOn <- OnShared, UINT32 <- 12,
    dq_running <- v1, da <- v2, pc <- v3, work <- v4, ran <- v5, freed <- v6, sync <- v7

Shared == INSTANCE Apply WITH
    Callers <- {"a", "b"}, Queues <- {"q1", "q2"}, Chain <- Chains, Iterations <- Counts,
    Nested <- NotNested, cc_max_active <- 2, Syncs <- {}, SyncOn <- OnShared, UINT32 <- 10,
    dq_running <- v1, da <- v2, pc <- v3, work <- v4, ran <- v5, freed <- v6, sync <- v7

Edge == INSTANCE Apply WITH
    Callers <- {"a", "b", "c"}, Queues <- {"q1", "q2"}, Chain <- Roots, Iterations <- Some,
    Nested <- InA, cc_max_active <- 2, Syncs <- {}, SyncOn <- OnShared, UINT32 <- 12,
    dq_running <- v1, da <- v2, pc <- v3, work <- v4, ran <- v5, freed <- v6, sync <- v7

(* Two queues and a semaphore that get new targets, widths and references.  *)
Processors == [w \in {-1, -2, -3} |-> 4]

Objects == INSTANCE Hierarchy WITH
    Queues <- {"q1", "q2"}, Others <- {"s"}, Root <- "root", MaxTargets <- 2,
    Widths <- {3, -3}, CPUs <- Processors, MaxWidths <- 1, MaxRetains <- 1,
    do_ref_cnt <- v1, do_xref_cnt <- v2, do_targetq <- v3, dq_width <- v4, items <- v5,
    releases <- v6, finalized <- v7, crashed <- v8, calls <- v9

(* Two calls for one key, one of which passes NULL, one for another key,    *)
(* and a thread that looks the first key up.                                *)
Keys == [t \in {"s1", "s2", "s3", "g"} |-> IF t = "s3" THEN "k2" ELSE "k1"]

Contexts == INSTANCE Specific WITH
    Setters <- {"s1", "s2", "s3"}, Getters <- {"g"}, Key <- Keys, Clears <- {"s2"},
    NULL <- "null",
    dq_specific_q <- v1, contexts <- v2, items <- v3, freed <- v4, pc <- v5, result <- v6,
    destroyed <- v7, log <- v8

(* Sources fed by dispatch_source_merge_data, with add and with or, two     *)
(* sources on one descriptor, and one on a descriptor the kernel may refuse. *)
Kevent == [s \in {"a", "o", "l1", "l2"} |-> IF s \in {"a", "o"} THEN "custom" ELSE "fd"]

Merged == INSTANCE Source WITH
    Sources <- {"a"}, Level <- {}, Ors <- {}, BadFd <- {}, HasCancel <- {"a"}, HasReg <- {"a"},
    MaxMerges <- 3, MaxEvents <- 0, MaxSuspends <- 1, MaxCancels <- 1, MaxReleases <- 1,
    src <- v1, kernel <- v2, manager <- v3, merger <- v4, canceler <- v5, releaser <- v6,
    budget <- v7

Masked == INSTANCE Source WITH
    Sources <- {"o"}, Level <- {}, Ors <- {"o"}, BadFd <- {}, HasCancel <- {}, HasReg <- {},
    MaxMerges <- 3, MaxEvents <- 0, MaxSuspends <- 0, MaxCancels <- 1, MaxReleases <- 0,
    src <- v1, kernel <- v2, manager <- v3, merger <- v4, canceler <- v5, releaser <- v6,
    budget <- v7

Watched == INSTANCE Source WITH
    Sources <- {"l1", "l2"}, Level <- {"l1", "l2"}, Ors <- {}, BadFd <- {}, HasCancel <- {"l1"}, HasReg <- {},
    MaxMerges <- 0, MaxEvents <- 1, MaxSuspends <- 0, MaxCancels <- 1, MaxReleases <- 1,
    src <- v1, kernel <- v2, manager <- v3, merger <- v4, canceler <- v5, releaser <- v6,
    budget <- v7

Refused == INSTANCE Source WITH
    Sources <- {"l1"}, Level <- {"l1"}, Ors <- {}, BadFd <- {"fd"}, HasCancel <- {"l1"}, HasReg <- {},
    MaxMerges <- 0, MaxEvents <- 2, MaxSuspends <- 1, MaxCancels <- 1, MaxReleases <- 1,
    src <- v1, kernel <- v2, manager <- v3, merger <- v4, canceler <- v5, releaser <- v6,
    budget <- v7

(* A timer that changes its clock, is suspended and released; two timers on *)
(* one clock; and a dispatch_after.                                         *)
Settings == [t \in {"t1", "t2", "t3", "a"} |->
    CASE t = "t1" -> {<<0, 0>>, <<-2, 2>>} [] t = "t2" -> {<<1, 2>>}
      [] t = "t3" -> {<<2, 1>>, <<-1, 0>>} [] t = "a" -> {<<-3, -1>>}]

Moved == INSTANCE Timer WITH
    Timers <- {"t1"}, Clocks <- {"wall", "mach"}, After <- {}, INT_MAX <- 2, INT64_MAX <- 100,
    FOREVER_NSEC <- 50,
    MaxNow <- 2, MaxSets <- 2, MaxSuspends <- 1, MaxReleases <- 1,
    tm <- v1, lists <- v2, now <- v3, mgrq <- v4, manager <- v5, budget <- v6

Late == INSTANCE Timer WITH
    Timers <- {"t1"}, Clocks <- {"wall", "mach"}, After <- {}, INT_MAX <- 2, INT64_MAX <- 100,
    FOREVER_NSEC <- 50,
    MaxNow <- 4, MaxSets <- 1, MaxSuspends <- 0, MaxReleases <- 0,
    tm <- v1, lists <- v2, now <- v3, mgrq <- v4, manager <- v5, budget <- v6

Sorted == INSTANCE Timer WITH
    Timers <- {"t2", "t3"}, Clocks <- {"mach"}, After <- {}, INT_MAX <- 3, INT64_MAX <- 100,
    FOREVER_NSEC <- 50,
    MaxNow <- 2, MaxSets <- 2, MaxSuspends <- 0, MaxReleases <- 0,
    tm <- v1, lists <- v2, now <- v3, mgrq <- v4, manager <- v5, budget <- v6

Delayed == INSTANCE Timer WITH
    Timers <- {"a"}, Clocks <- {"wall"}, After <- {"a"}, INT_MAX <- 3, INT64_MAX <- 100,
    FOREVER_NSEC <- 50,
    MaxNow <- 4, MaxSets <- 1, MaxSuspends <- 0, MaxReleases <- 0,
    tm <- v1, lists <- v2, now <- v3, mgrq <- v4, manager <- v5, budget <- v6

(* The manager, with two sources on one read kevent, and with one on the    *)
(* write kevent of another descriptor.                                      *)
Descriptor == [k \in {"r1", "w2"} |-> IF k = "r1" THEN "f1" ELSE "f2"]
OnKevent == [s \in {"s1", "s2", "s3"} |-> IF s = "s3" THEN "w2" ELSE "r1"]

OneFd == INSTANCE Manager WITH
    Kevents <- {"r1", "w2"}, FdOf <- Descriptor, Sources <- {"s1", "s2"}, KeventOf <- OnKevent,
    MaxEvents <- 2,
    queue <- v1, pusher <- v2, kq <- v3, trigger <- v4, source <- v5, fds <- v6, ptrs <- v7,
    select_workaround <- v8, mgr <- v9, closed <- v10, events <- v11, lost <- v12

TwoFds == INSTANCE Manager WITH
    Kevents <- {"r1", "w2"}, FdOf <- Descriptor, Sources <- {"s1", "s3"}, KeventOf <- OnKevent,
    MaxEvents <- 2,
    queue <- v1, pusher <- v2, kq <- v3, trigger <- v4, source <- v5, fds <- v6, ptrs <- v7,
    select_workaround <- v8, mgr <- v9, closed <- v10, events <- v11, lost <- v12

(* Data made of two buffers and of an empty one.                            *)
Bytes == [b \in {"b1", "b2", "e"} |->
    IF b = "b1" THEN <<1, 2>> ELSE IF b = "b2" THEN <<3, 4>> ELSE <<>>]

Ropes == INSTANCE Data WITH
    Buffers <- {"b1", "b2", "e"}, BytesOf <- Bytes, SIZE_MAX <- 9,
    MaxHeld <- 3, MaxSize <- 4, MaxCalls <- 5,
    heap <- v1, held <- v2, destroyed <- v3, value <- v4, calls <- v5, astray <- v6

(* Binary data of every length modulo a Base64 group and most modulo a      *)
(* Base32 one, and texts with code points of one to four bytes in UTF-8, of *)
(* one and two units in UTF-16, and a lone surrogate.                       *)
Binary(s) == [kind |-> "binary", of |-> s]
Text(s) == [kind |-> "text", of |-> s]

Formats == INSTANCE Transform WITH
    Contents <- {Binary(<<>>), Binary(<<250>>), Binary(<<1, 178>>), Binary(<<91, 255, 7>>),
                 Binary(<<91, 2, 130, 14>>), Binary(<<91, 2, 130, 13, 200, 77>>),
                 Text(<<65>>), Text(<<65, 233>>), Text(<<8364, 128512>>), Text(<<65, 55296>>)},
    MaxCuts <- 2, MallocMax <- 15,
    content <- v1, data <- v2, format <- v3, refused <- v4, regular <- v5

----------------------------------------------------------------------------
\* A time nobody works on.
Still == when = 0 /\ start = 0 /\ now = 2 /\ moved = 0

MCInit ==
    \/ mode = "time" /\ TimeInit /\ Unused1
    \/ /\ Still
       /\ \/ IOInit
          \/ mode = "pool" /\ Pool!Init /\ Unused12
          \/ mode = "kernel" /\ Kernel!Init /\ Unused12
          \/ mode = "main" /\ Main!Init /\ Unused11
          \/ mode = "apply" /\ Narrow!Init /\ Unused8
          \/ mode = "apply_two" /\ Shared!Init /\ Unused8
          \/ mode = "apply_edge" /\ Edge!Init /\ Unused8
          \/ mode = "objects" /\ Objects!Init /\ Unused10
          \/ mode = "specific" /\ Contexts!Init /\ Unused9
          \/ mode = "merged" /\ Merged!Init /\ Unused8
          \/ mode = "masked" /\ Masked!Init /\ Unused8
          \/ mode = "watched" /\ Watched!Init /\ Unused8
          \/ mode = "refused" /\ Refused!Init /\ Unused8
          \/ mode = "moved" /\ Moved!Init /\ Unused7
          \/ mode = "late" /\ Late!Init /\ Unused7
          \/ mode = "sorted" /\ Sorted!Init /\ Unused7
          \/ mode = "delayed" /\ Delayed!Init /\ Unused7
          \/ mode = "one_fd" /\ OneFd!Init
          \/ mode = "two_fds" /\ TwoFds!Init
          \/ mode = "data" /\ Ropes!Init /\ Unused7
          \/ mode = "transform" /\ Formats!TransformInit /\ Unused6

MCNext ==
    /\ UNCHANGED mode
    /\ \/ mode = "time" /\ TimeNext /\ UNCHANGED slots
       \/ /\ UNCHANGED timeVars
          /\ \/ IONext
             \/ mode = "pool" /\ Pool!Next /\ UNCHANGED v12
             \/ mode = "kernel" /\ Kernel!Next /\ UNCHANGED v12
             \/ mode = "main" /\ Main!Next /\ UNCHANGED <<v11, v12>>
             \/ mode = "apply" /\ Narrow!Next /\ UNCHANGED <<v8, v9, v10, v11, v12>>
             \/ mode = "apply_two" /\ Shared!Next /\ UNCHANGED <<v8, v9, v10, v11, v12>>
             \/ mode = "apply_edge" /\ Edge!Next /\ UNCHANGED <<v8, v9, v10, v11, v12>>
             \/ mode = "objects" /\ Objects!Next /\ UNCHANGED <<v10, v11, v12>>
             \/ mode = "specific" /\ Contexts!Next /\ UNCHANGED <<v9, v10, v11, v12>>
             \/ mode = "merged" /\ Merged!Next /\ UNCHANGED <<v8, v9, v10, v11, v12>>
             \/ mode = "masked" /\ Masked!Next /\ UNCHANGED <<v8, v9, v10, v11, v12>>
             \/ mode = "watched" /\ Watched!Next /\ UNCHANGED <<v8, v9, v10, v11, v12>>
             \/ mode = "refused" /\ Refused!Next /\ UNCHANGED <<v8, v9, v10, v11, v12>>
             \/ mode = "moved" /\ Moved!Next /\ UNCHANGED <<v7, v8, v9, v10, v11, v12>>
             \/ mode = "late" /\ Late!Next /\ UNCHANGED <<v7, v8, v9, v10, v11, v12>>
             \/ mode = "sorted" /\ Sorted!Next /\ UNCHANGED <<v7, v8, v9, v10, v11, v12>>
             \/ mode = "delayed" /\ Delayed!Next /\ UNCHANGED <<v7, v8, v9, v10, v11, v12>>
             \/ mode = "one_fd" /\ OneFd!Next
             \/ mode = "two_fds" /\ TwoFds!Next
             \/ mode = "data" /\ Ropes!Next /\ UNCHANGED <<v7, v8, v9, v10, v11, v12>>
             \/ mode = "transform" /\ Formats!TransformNext /\ UNCHANGED <<v6, v7, v8, v9, v10, v11, v12>>

MCSpec == MCInit /\ [][MCNext]_<<timeVars, slots, mode>>

----------------------------------------------------------------------------
(* A root queue: the workers take the items in the order in which they were *)
(* pushed, each once, although pushing takes two steps and the list can be  *)
(* found half-linked; and an item never stays behind with every worker gone *)
(* or asleep and no wakeup under way, for both kinds of threads.            *)
RootQueueSound ==
    /\ mode = "pool" => Pool!RootQueueSound
    /\ mode = "kernel" => Kernel!RootQueueSound

(* The main queue: a block on it will be noticed, by the eventfd while the  *)
(* main thread runs its own loop and by a worker after dispatch_main, and   *)
(* the marker on the stack of a drain is not referenced after it.           *)
MainQueueSound == mode = "main" => Main!MainQueueSound

(* dispatch_apply returns when every iteration has run exactly once, its    *)
(* record is freed once and by its last user, and the width it reserved on  *)
(* the queues is given back, also when the queues are over-committed and    *)
(* the share that is left wraps (without the lock of a drain on them).      *)
ApplySound ==
    /\ mode = "apply" => Narrow!ApplySound
    /\ mode = "apply_two" => Shared!ApplySound
    /\ mode = "apply_edge" => Edge!ApplySound

(* References: an object's target queue is alive as long as the object, and *)
(* an object is finalized once, when it has no users and no items left,     *)
(* however set_target_queue, set_width, retain and release interleave.      *)
HierarchySound == mode = "objects" => Objects!HierarchySound

(* Queue-specific contexts: each is destroyed once and never while it is in *)
(* effect, and the last call for a key wins, although the first calls race  *)
(* to install the list.                                                     *)
SpecificSound == mode = "specific" => Contexts!SpecificSound

(* Sources: what is merged or reported by the kernel reaches a handler      *)
(* exactly once, a source at rest has nothing left to do, the cancellation  *)
(* handler comes last, and a released source is disposed of.                *)
SourceSound ==
    /\ mode = "merged" => Merged!SourceSound
    /\ mode = "masked" => Masked!SourceSound
    /\ mode = "watched" => Watched!SourceSound
    /\ mode = "refused" => Refused!SourceSound

(* Timers: the manager never oversleeps, a handler is told of every         *)
(* interval once, a timer that is set stays on its list, and none fires     *)
(* early or, for dispatch_after, twice.                                     *)
TimerSound ==
    /\ mode = "moved" => Moved!TimerSound
    /\ mode = "late" => Late!TimerSound
    /\ mode = "sorted" => Sorted!TimerSound
    /\ mode = "delayed" => Delayed!TimerSound

(* The manager: work pushed on its queue wakes it, and a descriptor that    *)
(* only select can watch is watched as long as a source waits for it.       *)
ManagerSound ==
    /\ mode = "one_fd" => OneFd!ManagerSound
    /\ mode = "two_fds" => TwoFds!ManagerSound

(* Data objects: every object represents the bytes that its construction    *)
(* says, and the destructor of a buffer is called once, when no object      *)
(* shares the buffer any more; a subrange stays inside its object, unless   *)
(* offset + length wraps.                                                   *)
DataSound == mode = "data" => Ropes!DataSound

(* dispatch_data_create_with_transform: through any chain of conversions    *)
(* and cuttings the data stands for the same content, except for data cut   *)
(* irregularly when it was decoded, and for a last Base32 group of four     *)
(* bytes; and NULL is returned only where there is no result, except for    *)
(* detecting the encoding of a single byte and for too large a buffer.      *)
TransformFaithful == mode = "transform" => Formats!TransformFaithful
============================================================================
