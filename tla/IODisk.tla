------------------------------- MODULE IODisk -------------------------------
(***************************************************************************)
(* The disk scheduler of the I/O channels (src/src/io.c).  One dispatch    *)
(* disk serves the operations on all regular files of a device.  Its list  *)
(* of operations and its ring of advised operations belong to the serial   *)
(* pick queue; the I/O itself runs in _dispatch_disk_perform on the target *)
(* queue of the operation, while further blocks run on the pick queue.     *)
(*                                                                         *)
(* A block of the pick queue is atomic here: the only other thread, the    *)
(* one in _dispatch_disk_perform, touches the ring, and io_active keeps    *)
(* _dispatch_disk_handler away from the ring during that time.             *)
(***************************************************************************)
EXTENDS Naturals, Integers, FiniteSets, SequencesExt

CONSTANTS
    Ops,          \* operations, each enqueued at most once
    NoOp,         \* the NULL operation
    FdOf,         \* op -> its file (fd_entry)
    ChannelOf,    \* op -> its channel
    TypeOf,       \* op -> "stream" or "random" (op->params.type)
    Closed,       \* channels closed once their operations are submitted
    OnPath,       \* files of path channels, opened by the first I/O
    Depth,        \* advise_list_depth = max_pending_io_reqs
    MaxPerforms   \* bound: how often an operation is performed

VARIABLES
    disk,         \* the dispatch_disk_t and the operations' scheduling fields
    pick_queue,   \* blocks waiting on the serial pick queue
    performing,   \* _dispatch_disk_perform: idle, about to start, or in the I/O
    stopped,      \* channels with DIO_STOPPED
    fd_err,       \* fd_entry->err of each file
    unopened,     \* files whose fd_entry->fd is -1
    unqueued      \* cleanups of stopped channels still on their way

vars == <<disk, pick_queue, performing, stopped, fd_err, unopened, unqueued>>

Fds == {FdOf[o] : o \in Ops}
Channels == {ChannelOf[o] : o \in Ops}
AnyChannel == "any"
Slots == 0 .. Depth - 1
Idle == [at |-> "idle"]

\* _dispatch_disk_init; an operation not yet enqueued holds its first reference.
DiskInit ==
    [operations |-> <<>>, stream_ops |-> [f \in Fds |-> <<>>],
     advise_list |-> [i \in Slots |-> NoOp], free_idx |-> 0, req_idx |-> 0,
     advise_idx |-> 0, cur_rq |-> NoOp, io_active |-> FALSE,
     active |-> [o \in Ops |-> FALSE], refs |-> [o \in Ops |-> 1],
     state |-> [o \in Ops |-> "new"], performs |-> [o \in Ops |-> 0],
     err |-> [o \in Ops |-> 0], transferred |-> {},
     early |-> {},   \* completed by a cleanup although active
     swept |-> {},   \* completed by the cleanup after a bad descriptor
     again |-> {}]   \* completed although no longer listed

ECANCELED == 1
EBADF == 2
OTHER_ERR == 3       \* any other errno

\* _dispatch_io_get_error(op, NULL, true), with `errs` for the fd_entry->err.
ErrorOf(op, errs) ==
    IF ChannelOf[op] \in stopped THEN ECANCELED
    ELSE IF ChannelOf[op] \in Closed THEN 0 ELSE errs[FdOf[op]]

GetError(op) == ErrorOf(op, fd_err)

IndexOf(s, x) == CHOOSE i \in DOMAIN s : s[i] = x
Next_(s, x) == LET i == IndexOf(s, x) IN IF i < Len(s) THEN s[i + 1] ELSE NoOp
Prev_(s, x) == LET i == IndexOf(s, x) IN IF i > 1 THEN s[i - 1] ELSE NoOp

\* The last release disposes of the operation: the handler is told it is done,
\* with op->err, or ECANCELED when the channel has been stopped.
Release(d, op) ==
    LET last == d.refs[op] = 1 IN
    [d EXCEPT !.refs[op] = @ - 1,
              !.state[op] = IF last THEN "disposed" ELSE @,
              !.err[op] = IF last /\ @ = 0 /\ ChannelOf[op] \in stopped
                          THEN ECANCELED ELSE @]

\* TAILQ_REMOVE of an operation that is no longer listed writes through stale
\* links: what the lists are then is undefined (see Defined).
CompleteOperation(d, op) ==
    IF ~Contains(d.operations, op) THEN Release([d EXCEPT !.again = @ \cup {op}], op)
    ELSE LET f    == FdOf[op]
             cur  == IF d.cur_rq = op THEN Prev_(d.operations, op) ELSE d.cur_rq
             next == IF TypeOf[op] = "stream" THEN Next_(d.stream_ops[f], op)
                     ELSE NoOp
             list == IF next = NoOp THEN d.operations
                     ELSE Append(d.operations, next)
         IN Release([d EXCEPT !.cur_rq = cur,
                              !.stream_ops[f] = Remove(@, op),
                              !.operations = Remove(list, op),
                              !.state[op] = "completed"], op)

\* TAILQ_FOREACH_SAFE reads the next element before it completes one, so an
\* operation appended while the last one is completed is not visited.
RECURSIVE CleanupFrom(_, _, _)
CleanupFrom(d, o, ch) ==
    IF o = NoOp THEN d
    ELSE CleanupFrom(
            IF ch \in {AnyChannel, ChannelOf[o]}
            THEN CompleteOperation([d EXCEPT
                     !.early = IF d.active[o] THEN @ \cup {o} ELSE @,
                     !.swept = IF ch = AnyChannel THEN @ \cup {o} ELSE @], o)
            ELSE d,
            Next_(d.operations, o), ch)

CleanupOperations(d, ch) ==
    IF d.operations = <<>> THEN d ELSE CleanupFrom(d, Head(d.operations), ch)

\* The operations of d.operations in the order the scheduler tries them.
RoundRobin(d) ==
    IF d.cur_rq = NoOp THEN <<Head(d.operations)>>
    ELSE LET i == IndexOf(d.operations, d.cur_rq)
             n == Len(d.operations)
         IN SubSeq(d.operations, i + 1, n) \o SubSeq(d.operations, 1, i)

PickNextOperation(d) ==
    IF d.operations = <<>> THEN NoOp
    ELSE LET s == RoundRobin(d)
             i == SelectInSeq(s, LAMBDA o : ~d.active[o])
         IN IF i = 0 THEN NoOp ELSE s[i]

\* The while loop of _dispatch_disk_handler from ring position i up to j.
RECURSIVE FillRing(_, _, _)
FillRing(d, i, j) ==
    LET op == PickNextOperation(d)
        picked == [d EXCEPT !.cur_rq = op]
    IN IF i > j \/ d.advise_list[i % Depth] # NoOp \/ op = NoOp
       THEN [d EXCEPT !.free_idx = i % Depth]
       ELSE IF GetError(op) # 0
       THEN FillRing(CompleteOperation([picked EXCEPT !.err[op] = GetError(op)],
                                       op), i, j)
       ELSE FillRing([picked EXCEPT !.refs[op] = @ + 1, !.active[op] = TRUE,
                                    !.advise_list[i % Depth] = op], i + 1, j)

\* The second half of _dispatch_disk_handler starts the I/O at req_idx.
StartIO(d) ==
    [d EXCEPT !.io_active = d.advise_list[d.req_idx] # NoOp]

DiskHandler(d) ==
    IF d.io_active THEN d
    ELSE LET j == IF d.req_idx <= d.free_idx THEN d.req_idx + Depth
                  ELSE d.req_idx
         IN StartIO(FillRing(d, d.free_idx, j))

\* _dispatch_operation_should_enqueue
ShouldEnqueue(op) == GetError(op) = 0

EnqueueOperation(d, op) ==
    LET f == FdOf[op]
        listed == TypeOf[op] = "random" \/ d.stream_ops[f] = <<>>
    IN IF ~ShouldEnqueue(op) THEN Release([d EXCEPT !.err[op] = GetError(op)], op)
       ELSE DiskHandler([d EXCEPT
                !.operations = IF listed THEN Append(@, op) ELSE @,
                !.stream_ops[f] = IF TypeOf[op] = "stream" THEN Append(@, op)
                                  ELSE @,
                !.state[op] = "enqueued"])

\* Bug: the handler is not called again when the performer is done.
PerformDoneBug(d, op, result) ==
    LET e == CASE result = "DELIVER" -> d
               [] result \in {"COMPLETE", "DELIVER_AND_COMPLETE"} ->
                      CompleteOperation(d, op)
               [] result = "ERR" -> CleanupOperations(d, ChannelOf[op])
               [] result = "FD_ERR" -> CleanupOperations(d, AnyChannel)
    IN Release([e EXCEPT !.active[op] = FALSE, !.io_active = FALSE], op)

\* The block _dispatch_disk_perform leaves on the pick queue.
PerformDone(d, op, result) ==
    LET e == CASE result = "DELIVER" -> d
               [] result \in {"COMPLETE", "DELIVER_AND_COMPLETE"} ->
                      CompleteOperation(d, op)
               [] result = "ERR" -> CleanupOperations(d, ChannelOf[op])
               [] result = "FD_ERR" -> CleanupOperations(d, AnyChannel)
    IN Release(DiskHandler([e EXCEPT !.active[op] = FALSE,
                                     !.io_active = FALSE]), op)

\* The blocks given to the pick queue.
RunBlock(d, b) ==
    CASE b.kind = "enqueue" -> EnqueueOperation(d, b.op)
      [] b.kind = "cleanup" -> CleanupOperations(d, b.channel)
      [] b.kind = "done"    -> PerformDone(d, b.op, b.result)

-----------------------------------------------------------------------------
Init ==
    /\ disk = DiskInit
    /\ pick_queue = <<>>
    /\ performing = Idle
    /\ stopped = {}
    /\ fd_err = [f \in Fds |-> 0]
    /\ unopened = OnPath
    /\ unqueued = {}

\* The end of _dispatch_operation_enqueue, on the barrier queue of the file.
Submit(op) ==
    /\ disk.state[op] = "new"
    /\ ChannelOf[op] \notin stopped
    /\ disk' = [disk EXCEPT !.state[op] = "submitted"]
    /\ pick_queue' = Append(pick_queue, [kind |-> "enqueue", op |-> op])
    /\ UNCHANGED <<performing, stopped, fd_err, unopened, unqueued>>

\* _dispatch_io_stop: the flag is set at once, the cleanup comes through the
\* channel queue and the barrier queue.
Stop(ch) ==
    /\ ch \notin stopped
    /\ stopped' = stopped \cup {ch}
    /\ unqueued' = unqueued \cup {ch}
    /\ UNCHANGED <<disk, pick_queue, performing, fd_err, unopened>>

\* _dispatch_fd_entry_cleanup_operations
QueueCleanup(ch) ==
    /\ ch \in unqueued
    /\ unqueued' = unqueued \ {ch}
    /\ pick_queue' = Append(pick_queue, [kind |-> "cleanup", channel |-> ch])
    /\ UNCHANGED <<disk, performing, stopped, fd_err, unopened>>

\* One block of the pick queue; starting the I/O hands the disk to a thread.
PickQueueBlock ==
    /\ pick_queue # <<>>
    /\ disk' = RunBlock(disk, Head(pick_queue))
    /\ pick_queue' = Tail(pick_queue)
    /\ performing' = IF disk'.io_active
                        /\ (~disk.io_active \/ Head(pick_queue).kind = "done")
                     THEN [at |-> "start"] ELSE performing
    /\ UNCHANGED <<stopped, fd_err, unopened, unqueued>>

\* The advise loop of _dispatch_disk_perform: how far it gets from advise_idx.
AdviseEnd(d) ==
    LET i == d.advise_idx
        j == IF d.free_idx <= i THEN d.free_idx + Depth ELSE d.free_idx
        empty == {k \in i .. j - 1 : d.advise_list[k % Depth] = NoOp}
    IN IF empty = {} THEN j ELSE CHOOSE k \in empty : \A l \in empty : k <= l

\* _dispatch_fd_entry_open of the files in `tried`, of which those in `failing`
\* cannot be opened.
Open(tried, failing) ==
    /\ failing \subseteq tried
    /\ tried \subseteq {f \in unopened : fd_err[f] = 0}
    /\ unopened' = unopened \ (tried \ failing)
    /\ fd_err' = [f \in Fds |-> IF f \in failing THEN OTHER_ERR ELSE fd_err[f]]

\* _dispatch_disk_perform up to the system call.  The files of advised reads are
\* opened on the way, and the file of the operation itself in
\* _dispatch_operation_perform after its error check.
PerformBegin ==
    /\ performing.at = "start"
    /\ LET op == disk.advise_list[disk.req_idx]
           f == FdOf[op]
           end == AdviseEnd(disk)
           advised == {FdOf[disk.advise_list[k % Depth]] : k \in disk.advise_idx .. end - 1}
       IN \E tried, failing \in SUBSET (advised \cup {f}) :
          /\ Open(tried, failing)
          /\ LET check == ErrorOf(op, fd_err')
                 err == IF check = 0 /\ f \in unopened' THEN fd_err'[f] ELSE check
             IN /\ check = 0 => f \in tried \/ f \notin unopened \/ fd_err[f] # 0
                /\ disk' = [disk EXCEPT !.advise_idx = end % Depth,
                                        !.err[op] = IF err # 0 THEN err ELSE @]
                /\ performing' = [at |-> "io", op |-> op, err |-> err]
    /\ UNCHANGED <<pick_queue, stopped, unqueued>>

\* How the I/O may end, and what _dispatch_operation_handle_error makes of it.
IOErrors(p) == IF p.err # 0 THEN {p.err} ELSE {0, EBADF, OTHER_ERR}

Results(p, err) ==
    CASE err = ECANCELED -> {"ERR"}
      [] err = EBADF     -> {"FD_ERR"}
      [] err = OTHER_ERR -> {"COMPLETE"}
      [] err = 0         -> {"COMPLETE", "DELIVER_AND_COMPLETE"} \cup
                            (IF disk.performs[p.op] < MaxPerforms - 1 THEN {"DELIVER"} ELSE {})

\* The rest of _dispatch_disk_perform.
PerformEnd ==
    /\ performing.at = "io"
    /\ \E err \in IOErrors(performing) : \E result \in Results(performing, err) :
       LET op == performing.op
           f == FdOf[op]
       IN /\ disk' = [disk EXCEPT !.advise_list[disk.req_idx] = NoOp,
                                  !.req_idx = (@ + 1) % Depth,
                                  !.performs[op] = @ + 1,
                                  !.transferred = IF err = 0 /\ result # "DELIVER"
                                                  THEN @ \cup {op} ELSE @,
                                  !.err[op] = IF err # 0 THEN err ELSE @]
          /\ pick_queue' = Append(pick_queue, [kind |-> "done", op |-> op, result |-> result])
          /\ fd_err' = [fd_err EXCEPT ![f] = IF err = EBADF /\ @ = 0 THEN EBADF ELSE @]
    /\ performing' = Idle
    /\ UNCHANGED <<stopped, unopened, unqueued>>

\* Once an operation has been taken off the lists twice, neither they nor the
\* memory of the operation are what they were, and nothing is claimed about
\* what follows.
Defined == disk.again = {}

Next ==
    /\ Defined
    /\ \/ \E op \in Ops : Submit(op)
       \/ \E ch \in Channels : Stop(ch) \/ QueueCleanup(ch)
       \/ PickQueueBlock
       \/ PerformBegin
       \/ PerformEnd

Spec == Init /\ [][Next]_vars

-----------------------------------------------------------------------------
\* The disk does not fall asleep on work: between two blocks of the pick queue
\* an idle disk (io_active clear) has no operation in its list, none waiting
\* behind another one of its file, and none in its ring.
DiskNeverIdlesWithWork ==
    ~disk.io_active =>
        /\ disk.operations = <<>>
        /\ \A f \in Fds : disk.stream_ops[f] = <<>>
        /\ \A i \in Slots : disk.advise_list[i] = NoOp

\* "Stream operations need to be serialized": of the stream operations of a
\* file only the first is in the disk's list, whatever completes or cancels the
\* ones before it.
StreamOpsSerialised ==
    \A f \in Fds :
        LET s == SelectSeq(disk.operations,
                     LAMBDA o : FdOf[o] = f /\ TypeOf[o] = "stream")
        IN s = IF disk.stream_ops[f] = <<>> THEN <<>>
               ELSE <<Head(disk.stream_ops[f])>>

\* When _dispatch_disk_perform starts, there is an operation at req_idx, and the
\* assertion of its advise loop holds: an empty slot it meets is free_idx.
AdviseLoopSound ==
    performing.at = "start" =>
        /\ disk.advise_list[disk.req_idx] # NoOp
        /\ LET k == AdviseEnd(disk) % Depth
           IN disk.advise_list[k] = NoOp => k = disk.free_idx

\* An operation is completed, released and reported once, unless a cleanup
\* completed it while it was active: _dispatch_disk_cleanup_operations does not
\* look at op->active, and when the I/O under way then ends well, its block
\* completes the operation again.  An operation is reported without an error
\* only when its transfer ended, unless it was swept away because of a bad
\* descriptor, perhaps of another file: that leaves op->err at 0.
ReleasedAndReportedOnce ==
    /\ disk.again \subseteq disk.early
    /\ \A o \in Ops :
          /\ Defined => disk.refs[o] >= 0
          /\ disk.state[o] = "disposed" /\ disk.err[o] = 0 =>
                o \in disk.transferred \cup disk.swept

\* The disk scheduler keeps all four, the first three until its lists are
\* undefined.
DiskSound ==
    /\ Defined => DiskNeverIdlesWithWork /\ StreamOpsSerialised /\ AdviseLoopSound
    /\ ReleasedAndReportedOnce
=============================================================================
