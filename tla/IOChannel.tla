------------------------------ MODULE IOChannel ------------------------------
(***************************************************************************)
(* Channels and descriptor entries of src/src/io.c: creation, submission   *)
(* of operations, barriers, close, stop, and the end of an entry.  The     *)
(* code is a web of blocks on serial queues: the queue of each channel,    *)
(* the barrier queue and the close queue of each entry, and two global     *)
(* lock queues.  Here a queue is its sequence of waiting blocks and its    *)
(* suspension count, and running a block is one step.  An entry is alive   *)
(* as long as its close queue is suspended: retaining it is suspending     *)
(* that queue.                                                             *)
(***************************************************************************)
EXTENDS Integers, FiniteSets, SequencesExt

CONSTANTS
    Channels,      \* channels a client creates
    KindOf,        \* channel -> "fd", "path" or "io" (dispatch_io_create_with_io)
    ParentOf,      \* channel -> the in_channel of one of kind "io"
    Ops,           \* operations of the client
    OpChannel,     \* op -> its channel, or Convenience for dispatch_read/_write
    Convenience,
    Barriers,      \* channels on which the client schedules a barrier
    Stops,         \* channels the client may stop
    Empty,         \* operations the client may submit with length 0
    MaxEntries,    \* bound: descriptor entries created
    Regular,       \* TRUE: a regular file, so entries get a disk
    Failures       \* what creation may meet: a failing stat, the channels whose
                   \* type does not suit the file, and the random ones whose
                   \* descriptor cannot seek

NoEntry == 0
Entries == 1 .. MaxEntries

VARIABLES
    w,             \* channels, entries and operations
    queue,         \* queue -> blocks waiting on it
    suspended      \* queue -> how often it is suspended

vars == <<w, queue, suspended>>

Chan(c) == <<"chan", c>>
Barrier(e) == <<"barrier", e>>
Own(c) == <<"own", c>>
Close(e) == <<"close", e>>
Work(e) == <<"work", e>>
FdsLockq == <<"fds", 0>>
DevsLockq == <<"devs", 0>>
Queues == {Chan(c) : c \in Channels} \cup {Own(c) : c \in Channels}
          \cup {Barrier(e) : e \in Entries} \cup {Close(e) : e \in Entries}
          \cup {Work(e) : e \in Entries} \cup {FdsLockq, DevsLockq}

\* A world is the three variables together; a handler maps a world to a world.
World == [w |-> w, q |-> queue, s |-> suspended]
Become(x) == w' = x.w /\ queue' = x.q /\ suspended' = x.s

Async(x, id, kind, arg) ==
    [x EXCEPT !.q[id] = Append(@, [kind |-> kind, arg |-> arg])]
Suspend(x, id) == [x EXCEPT !.s[id] = @ + 1]
Resume(x, id) == [x EXCEPT !.s[id] = @ - 1]
EntryRetain(x, e) == Suspend(x, Close(e))
EntryRelease(x, e) == Resume(x, Close(e))
Retain(x, c) == [x EXCEPT !.w.chan[c].refs = @ + 1]

\* The last release runs _dispatch_io_dispose.
Release(x, c) ==
    LET y == [x EXCEPT !.w.chan[c].refs = @ - 1]
        e == x.w.chan[c].fd_entry
    IN IF y.w.chan[c].refs > 0 \/ e = NoEntry \/ x.w.chan[c].flags # {} THEN y
       ELSE EntryRelease([y EXCEPT !.w.entry[e].path_channel = {}], e)

\* _dispatch_io_get_error(NULL, channel, false)
GetError(x, c) ==
    IF x.w.chan[c].flags # {} THEN "canceled" ELSE x.w.chan[c].err

\* _dispatch_io_validate_type
BadType(x, c) == IF c \in x.w.fail.type THEN "type" ELSE "none"

\* The lseek for a random channel on an open descriptor
BadSeek(x, c, fd) ==
    IF BadType(x, c) # "none" THEN BadType(x, c)
    ELSE IF fd # "-1" /\ c \in x.w.fail.seek THEN "seek" ELSE "none"

\* _dispatch_io_init: the cleanup handler waits on the suspended close queue.
IOInit(x, c, e, err) ==
    LET y == Async(x, IF err = "none" THEN Close(e) ELSE Chan(c), "cleanup", c)
    IN [y EXCEPT !.w.chan[c].fd_entry = e, !.w.chan[c].open = TRUE,
                 !.w.chan[c].bq = IF e = NoEntry THEN Own(c) ELSE Barrier(e)]

CreateFailed(x, c, err) ==
    Release(Resume(IOInit([x EXCEPT !.w.chan[c].err = err], c, NoEntry, err),
                   Chan(c)), c)

-----------------------------------------------------------------------------
\* _dispatch_fd_entry_create, and the blocks it leaves on the close queue
NewEntry(x, kind, owner) ==
    LET e == x.w.entries + 1
        y == [x EXCEPT !.w.entries = e,
                       !.w.entry[e] = [@ EXCEPT !.state = "live", !.kind = kind,
                                                !.path_channel = owner]]
    IN Async(Async(EntryRetain(y, e), Close(e), "teardown", e), Close(e), "free", e)

\* _dispatch_fd_entry_init_async on the lock queue of the descriptor table: for
\* a channel or for a convenience operation
FdInit(x, who) ==
    LET found == x.w.fds # NoEntry
        y == IF found THEN EntryRetain(x, x.w.fds) ELSE NewEntry(x, "fd", {})
        e == IF found THEN x.w.fds ELSE y.w.entries
        z == IF found THEN y
             ELSE Async([y EXCEPT !.w.fds = e], Barrier(e), "stat", e)
    IN Async(z, Barrier(e), IF who \in Ops THEN "conv" ELSE "initdone", <<who, e>>)

\* The stat block of _dispatch_fd_entry_create_with_fd; a regular file takes its
\* disk on the device lock queue while the barrier queue waits.
Stat(x, e) ==
    IF x.w.fail.stat THEN [x EXCEPT !.w.entry[e].err = "stat"]
    ELSE IF Regular THEN Async(Suspend(x, Barrier(e)), DevsLockq, "disk", e) ELSE x

DiskInit(x, e) == Resume([x EXCEPT !.w.entry[e].disk = TRUE], Barrier(e))

\* The completion block of dispatch_io_create
InitDone(x, c, e) ==
    LET err == IF x.w.entry[e].err # "none" THEN x.w.entry[e].err
               ELSE BadSeek(x, c, x.w.chan[c].fd)
        y == IOInit(EntryRetain([x EXCEPT !.w.chan[c].err = err], e), c, e, err)
    IN EntryRelease(Release(Resume(y, Chan(c)), c), e)

\* The first block of dispatch_io_create_with_path, on the channel queue
PathStat(x, c) ==
    LET err == IF x.w.fail.stat THEN "stat" ELSE BadType(x, c) IN
    IF err # "none" THEN CreateFailed(Suspend(x, Chan(c)), c, err)
    ELSE Async(Suspend(x, Chan(c)), DevsLockq, "path", c)

\* _dispatch_fd_entry_create_with_path and the rest of the creation
PathEntry(x, c) ==
    LET y == NewEntry(x, "path", {c})
        e == y.w.entries
    IN Release(Resume(IOInit([y EXCEPT !.w.entry[e].disk = Regular], c, e, "none"),
                      Chan(c)), c)

\* dispatch_io_create_with_io on the queue, then the barrier queue, of in_channel
WithIO1(x, c) ==
    LET in == ParentOf[c] IN
    IF GetError(x, in) # "none"
    THEN Release(CreateFailed(x, c, GetError(x, in)), in)
    ELSE Async(x, x.w.chan[in].bq, "withio2", c)

WithIO2(x, c) ==
    LET in == ParentOf[c]
        fd == x.w.chan[in].fd
        e == x.w.chan[in].fd_entry
        err == IF GetError(x, in) # "none" THEN GetError(x, in)
               ELSE IF x.w.entry[e].err # "none" THEN x.w.entry[e].err
               ELSE BadSeek(x, c, fd)
        y == [x EXCEPT !.w.chan[c].fd = fd]
    IN IF err # "none" THEN Release(CreateFailed(x, c, err), in)
       ELSE IF fd = "-1" THEN Release(Async(y, DevsLockq, "path", c), in)
       ELSE Release(Release(Resume(IOInit(EntryRetain(y, e), c, e, "none"), Chan(c)),
                            c), in)

-----------------------------------------------------------------------------
\* dispatch_io_read or dispatch_io_write, on the channel queue: an operation is
\* created, or its handler is to hear, after what the barrier queue holds, that
\* it cannot be or that there is nothing to do.
OpCreate(x, o) ==
    LET c == OpChannel[o]
        err == GetError(x, c)
    IN Release(IF err # "none" \/ x.w.op[o].length = 0
               THEN Async(x, x.w.chan[c].bq, "refused", o)
               ELSE Async(Retain(x, c), x.w.chan[c].bq, "enqueue", o), c)

\* Bug: the operation does not retain its fd entry.
EnlistBug(x, o, e) ==
    [x EXCEPT !.w.op[o].state = "active", !.w.op[o].entry = e,
              !.w.entry[e].group = @ + 1,
              !.w.entry[e].source = ~x.w.entry[e].disk]

Enlist(x, o, e) ==
    EntryRetain([x EXCEPT !.w.op[o].state = "active", !.w.op[o].entry = e,
                          !.w.entry[e].group = @ + 1,
                          !.w.entry[e].source = ~x.w.entry[e].disk], e)

\* _dispatch_operation_enqueue, on the barrier queue
OpEnqueue(x, o) ==
    LET c == OpChannel[o] IN
    IF GetError(x, c) # "none"
    THEN Release([x EXCEPT !.w.op[o].state = "failed"], c)
    ELSE Enlist(x, o, x.w.chan[c].fd_entry)

\* The completion block of dispatch_read and dispatch_write: the client's
\* handler waits on the close queue, the operation is enqueued at once.
Conv(x, o, e) ==
    LET y == Async(x, Close(e), "handler", o) IN
    EntryRelease(IF x.w.entry[e].err # "none" THEN [x EXCEPT !.w.op[o].state = "failed"]
                 ELSE IF x.w.op[o].length = 0 THEN Async(y, Barrier(e), "refused", o)
                 ELSE Enlist(y, o, e), e)

\* The inner handler of dispatch_read and dispatch_write keeps the result for
\* the client's handler, which may have run without it.
Keep(x, o) ==
    [x EXCEPT !.w.op[o].state = IF @ = "early" THEN @ ELSE "delivered"]
ConvHandler(x, o) ==
    [x EXCEPT !.w.op[o].state = IF @ = "delivered" THEN "done" ELSE "early"]
Refused(x, o) ==
    IF OpChannel[o] = Convenience THEN Keep(x, o)
    ELSE [x EXCEPT !.w.op[o].state = "failed"]

\* _dispatch_fd_entry_cleanup_operations: a block on the stream or pick queue
CleanupOps(x, e, c) ==
    Async(Retain(EntryRetain(x, e), c), Work(e), "cleaned", c)

\* The barrier queue part of dispatch_io_close; a channel without an entry makes
\* it follow a null pointer.
CloseBlock(x, c) ==
    LET e == x.w.chan[c].fd_entry IN
    IF x.w.chan[c].flags # {} THEN Release(x, c)
    ELSE IF e = NoEntry THEN [x EXCEPT !.w.crashed = TRUE]
    ELSE Release(EntryRelease(
            [x EXCEPT !.w.chan[c].flags = {"CLOSED"},
                      !.w.chan[c].fd_entry = IF x.w.entry[e].kind = "path" THEN e
                                             ELSE NoEntry], e), c)

\* The barrier queue part of _dispatch_io_stop; the fd of a channel whose
\* dispatch_io_create_with_io failed is still 0, another descriptor.
StopBlock(x, c) ==
    LET e == x.w.chan[c].fd_entry
        y == IF e = NoEntry
             THEN IF x.w.chan[c].fd = "-1" THEN x
                  ELSE Async(Retain(x, c), FdsLockq, "stopafter", c)
             ELSE IF "CLOSED" \in x.w.chan[c].flags THEN CleanupOps(x, e, c)
             ELSE EntryRelease([CleanupOps(x, e, c) EXCEPT
                                   !.w.chan[c].fd_entry = NoEntry], e)
    IN Release(y, c)

StopAfterClose(x, c) ==
    Release(IF x.w.fds = NoEntry \/ x.w.chan[c].fd = "0" THEN x
            ELSE CleanupOps(x, x.w.fds, c), c)

\* The first block of a resumed close queue: streams are disposed of (a source
\* suspends the queue once more until it is cancelled), the entry leaves the
\* table, and the channel of a path forgets it.
Teardown(x, e) ==
    LET en == x.w.entry[e]
        y == [x EXCEPT !.w.entry[e].state = "torn",
                       !.w.fds = IF @ = e THEN NoEntry ELSE @]
        z == IF en.path_channel = {} THEN y
             ELSE [y EXCEPT !.w.chan[CHOOSE c \in en.path_channel : TRUE].fd_entry
                                = NoEntry]
    IN IF en.source THEN EntryRetain(z, e) ELSE z

RunBlock(x, id, b) ==
    CASE b.kind = "fdinit"    -> FdInit(x, b.arg)
      [] b.kind = "stat"      -> Stat(x, b.arg)
      [] b.kind = "disk"      -> DiskInit(x, b.arg)
      [] b.kind = "initdone"  -> InitDone(x, b.arg[1], b.arg[2])
      [] b.kind = "pathstat"  -> PathStat(x, b.arg)
      [] b.kind = "path"      -> PathEntry(x, b.arg)
      [] b.kind = "withio1"   -> WithIO1(x, b.arg)
      [] b.kind = "withio2"   -> WithIO2(x, b.arg)
      [] b.kind = "opcreate"  -> OpCreate(x, b.arg)
      [] b.kind = "enqueue"   -> OpEnqueue(x, b.arg)
      [] b.kind = "refused"   -> Refused(x, b.arg)
      [] b.kind = "conv"      -> Conv(x, b.arg[1], b.arg[2])
      [] b.kind \in {"close", "stop", "barrier"} /\ id[1] = "chan" ->
             Async(x, x.w.chan[b.arg].bq, b.kind, b.arg)
      [] b.kind = "close" /\ id[1] # "chan" -> CloseBlock(x, b.arg)
      [] b.kind = "stop" /\ id[1] # "chan" -> StopBlock(x, b.arg)
      [] b.kind = "stopafter" -> StopAfterClose(x, b.arg)
      [] b.kind = "barrier" /\ id[1] # "chan" ->
             Suspend([x EXCEPT !.w.chan[b.arg].barrier = "waits"], id)
      [] b.kind = "cleaned"   -> Release(EntryRelease(x, id[2]), b.arg)
      [] b.kind = "teardown"  -> Teardown(x, b.arg)
      [] b.kind = "free"      -> [x EXCEPT !.w.entry[b.arg].state = "freed"]
      [] b.kind = "cleanup"   -> [x EXCEPT !.w.chan[b.arg].cleaned = TRUE]
      [] b.kind = "handler"   -> ConvHandler(x, b.arg)

-----------------------------------------------------------------------------
Init ==
    /\ \E f \in Failures :
       w = [chan |-> [c \in Channels |->
                [refs |-> 0, flags |-> {}, err |-> "none", fd_entry |-> NoEntry,
                 fd |-> CASE KindOf[c] = "fd" -> "fd" [] KindOf[c] = "path" -> "-1"
                          [] KindOf[c] = "io" -> "0",
                 bq |-> Own(c), open |-> FALSE, cleaned |-> FALSE, user |-> "new",
                 barrier |-> "none"]],
            entry |-> [e \in Entries |->
                [state |-> "unused", kind |-> "fd", err |-> "none", disk |-> FALSE,
                 group |-> 0, source |-> FALSE, path_channel |-> {}]],
            op |-> [o \in Ops |-> [state |-> "new", entry |-> NoEntry, length |-> 1]],
            fds |-> NoEntry, entries |-> 0, fail |-> f, crashed |-> FALSE]
    /\ queue = [id \in Queues |-> <<>>]
    /\ suspended = [id \in Queues |-> 0]

User(c) == w.chan[c].user
Holds(c) == User(c) = "holds"

\* dispatch_io_create, _with_path and _with_io; the client holds one reference.
Create(c) ==
    /\ User(c) = "new"
    /\ KindOf[c] = "io" => Holds(ParentOf[c])
    /\ LET x == [World EXCEPT !.w.chan[c].user = "holds", !.w.chan[c].refs = 2]
       IN Become(CASE KindOf[c] = "fd" ->
                          Async(Suspend(x, Chan(c)), FdsLockq, "fdinit", c)
                   [] KindOf[c] = "path" -> Async(x, Chan(c), "pathstat", c)
                   [] KindOf[c] = "io" ->
                          Async(Suspend(Retain(x, ParentOf[c]), Chan(c)),
                                Chan(ParentOf[c]), "withio1", c))

\* dispatch_io_read and dispatch_io_write, dispatch_read and dispatch_write
Submit(o) ==
    /\ w.op[o].state = "new"
    /\ \E length \in {1} \cup {0 : i \in {o} \cap Empty} :
       LET c == OpChannel[o]
           x == [World EXCEPT !.w.op[o].state = "submitted", !.w.op[o].length = length]
       IN IF c = Convenience THEN Become(Async(x, FdsLockq, "fdinit", o))
          ELSE Holds(c) /\ Become(Async(Retain(x, c), Chan(c), "opcreate", o))

\* dispatch_io_close without and with DISPATCH_IO_STOP, dispatch_io_barrier
CloseChannel(c) ==
    /\ Holds(c) /\ w.chan[c].flags = {}
    /\ Become(Async(Retain([World EXCEPT !.w.chan[c].user = "closed"], c),
                    Chan(c), "close", c))

Stop(c) ==
    /\ User(c) \in {"holds", "closed"} /\ c \in Stops
    /\ "STOPPED" \notin w.chan[c].flags
    /\ Become(Async(Retain([World EXCEPT !.w.chan[c].flags = @ \cup {"STOPPED"}], c),
                    Chan(c), "stop", c))

BarrierCall(c) ==
    /\ Holds(c) /\ c \in Barriers /\ w.chan[c].barrier = "none"
    /\ Become(Async(Retain([World EXCEPT !.w.chan[c].barrier = "queued"], c),
                    Chan(c), "barrier", c))

\* The client lets go of the channel.
Drop(c) ==
    /\ User(c) \in {"holds", "closed"}
    /\ Become(Release([World EXCEPT !.w.chan[c].user = "gone"], c))

Run(id) ==
    /\ queue[id] # <<>> /\ suspended[id] = 0
    /\ Become(RunBlock([World EXCEPT !.q[id] = Tail(@)], id, Head(queue[id])))

\* The last release of an operation: _dispatch_operation_dispose delivers, then
\* leaves the group and lets go of the entry and the channel.
Finish(o) ==
    /\ w.op[o].state = "active"
    /\ LET e == w.op[o].entry
           x == [World EXCEPT !.w.op[o].state = "delivering", !.w.entry[e].group = @ - 1]
       IN Become(x)

\* The handler has run: what the delivery retained is released.
Deliver(o) ==
    /\ w.op[o].state = "delivering"
    /\ LET x == EntryRelease(World, w.op[o].entry) IN
       Become(IF OpChannel[o] = Convenience THEN Keep(x, o)
              ELSE Release([x EXCEPT !.w.op[o].state = "done"], OpChannel[o]))

\* The group is empty: the barrier block runs, then the queue goes on.
GroupOf(c) == IF w.chan[c].bq = Own(c) THEN 0 ELSE w.entry[w.chan[c].bq[2]].group
BarrierStart(c) ==
    /\ w.chan[c].barrier = "waits" /\ GroupOf(c) = 0
    /\ Become([World EXCEPT !.w.chan[c].barrier = "runs"])
BarrierEnd(c) ==
    /\ w.chan[c].barrier = "runs"
    /\ Become(Release(Resume([World EXCEPT !.w.chan[c].barrier = "ran"],
                             w.chan[c].bq), c))

\* The cancel handler of a stream's source resumes the close queue.
SourceCancelled(e) ==
    /\ w.entry[e].state = "torn" /\ w.entry[e].source
    /\ Become(EntryRelease([World EXCEPT !.w.entry[e].source = FALSE], e))

Next ==
    /\ ~w.crashed
    /\ \/ \E c \in Channels : \/ Create(c) \/ CloseChannel(c) \/ Stop(c) \/ Drop(c)
                               \/ BarrierCall(c) \/ BarrierStart(c) \/ BarrierEnd(c)
       \/ \E o \in Ops : Submit(o) \/ Finish(o) \/ Deliver(o)
       \/ \E id \in Queues : Run(id)
       \/ \E e \in Entries : SourceCancelled(e)

Spec == Init /\ [][Next]_vars

-----------------------------------------------------------------------------
\* The channels and operations that are on an entry.
UsersOf(e) == {o \in Ops : w.op[o].state \in {"active", "delivering"}
                           /\ w.op[o].entry = e}
ChannelsOf(e) == {c \in Channels : w.chan[c].fd_entry = e /\ w.chan[c].refs > 0}

\* An entry is taken down only when nobody needs it: no operation on it is
\* running or has its handler still to run, and every live channel that still
\* points to it is a closed or stopped one.
EntryOutlivesUse ==
    \A e \in Entries : w.entry[e].state \in {"torn", "freed"} =>
        /\ UsersOf(e) = {}
        /\ \A c \in ChannelsOf(e) : w.chan[c].flags # {}

\* The cleanup handler, which gives the descriptor back to the client, comes
\* after the last handler of every operation on the entry and not before every
\* channel on it is closed, stopped or gone.  The handler of a dispatch_read or
\* dispatch_write comes after its result, unless the length is 0: then the two
\* are on different queues and the handler may find no result.
CleanupComesLast ==
    /\ \A o \in Ops : w.op[o].state = "early" => w.op[o].length = 0
    /\ \A c \in Channels : w.chan[c].cleaned /\ w.chan[c].err = "none" =>
           LET e == w.chan[c].bq[2] IN
           /\ UsersOf(e) = {}
           /\ \A d \in ChannelsOf(e) : w.chan[d].flags # {}

\* While a barrier block runs no operation of the descriptor is in progress,
\* whichever channel it was submitted on.
BarrierRunsAlone ==
    \A c \in Channels : w.chan[c].barrier = "runs" => GroupOf(c) = 0

\* No reference is left over: when every queue has run dry and the client has
\* let go of everything, all entries are freed, all channels are disposed of and
\* every cleanup handler has run.
NothingLeaks ==
    /\ ~w.crashed
    /\ \A id \in Queues : queue[id] = <<>> \/ suspended[id] > 0
    /\ \A c \in Channels : User(c) \in {"new", "gone"}
                          /\ w.chan[c].barrier \notin {"waits", "runs"}
    /\ \A o \in Ops : w.op[o].state \notin {"active", "delivering"}
    /\ \A e \in Entries : w.entry[e].state = "torn" => ~w.entry[e].source
    => /\ \A e \in Entries : w.entry[e].state \in {"unused", "freed"}
       /\ \A c \in Channels : User(c) = "gone" => w.chan[c].refs = 0
                                                 /\ w.chan[c].cleaned
       /\ \A o \in Ops : w.op[o].state \in {"new", "failed", "done", "early"}

\* Channels and entries keep all four.
ChannelSound == EntryOutlivesUse /\ CleanupComesLast /\ BarrierRunsAlone /\ NothingLeaks
=============================================================================
