------------------------------ MODULE IOStream ------------------------------
(***************************************************************************)
(* One direction of a descriptor that is not a regular file: the stream    *)
(* scheduler of src/src/io.c.  Everything runs on the serial stream queue  *)
(* dq; a source tells when the descriptor is ready again.  Channels are    *)
(* stopped by other threads at any time, also between the two error checks *)
(* of a handler run.                                                       *)
(***************************************************************************)
EXTENDS Naturals, FiniteSets, SequencesExt

CONSTANTS
    Ops,           \* operations, each enqueued at most once
    NoOp,          \* the NULL operation
    ChannelOf,     \* op -> its channel
    TypeOf,        \* op -> "stream" or "random"
    Convenience,   \* operations of dispatch_read on the convenience channel
    Closed,        \* channels closed once their operations are submitted
    MaxPerforms    \* bound: how often an operation delivers data

VARIABLES
    stream,        \* the dispatch_stream_t
    dq,            \* blocks waiting on the stream queue
    handling,      \* _dispatch_stream_handler: the operation it has chosen, and what
                   \* _dispatch_operation_perform returned for it
    performs,      \* op -> system calls that returned data
    state,         \* op -> "new", "submitted", "listed", "done"
    stopped,       \* channels with DIO_STOPPED
    bad_fd,        \* fd_entry->err is EBADF
    unqueued,      \* cleanups still on the channel and barrier queues
    raced,         \* "stop": a stop came between the two error checks of a handler
                   \* run; "emptied": a cleanup took the last operation while a
                   \* handler run was queued
    crashed        \* the source was resumed more often than suspended

vars == <<stream, dq, handling, performs, state, stopped, bad_fd, unqueued, raced, crashed>>

Channels == {ChannelOf[o] : o \in Ops}
AnyChannel == "any"
HandlerBlock == [kind |-> "handler"]
Idle == [op |-> NoOp, result |-> "none"]
Chosen(op) == [op |-> op, result |-> "none"]

\* _dispatch_io_get_error(op, NULL, true)
HasError(op) ==
    \/ ChannelOf[op] \in stopped
    \/ ChannelOf[op] \notin Closed /\ bad_fd

\* _dispatch_stream_operation_avail
Avail(s) == s.random # <<>> \/ s.stream # <<>>

CompleteOperation(s, op) ==
    [s EXCEPT !.random = Remove(@, op), !.stream = Remove(@, op),
              !.op = IF @ = op THEN NoOp ELSE @]

\* _dispatch_stream_cleanup_operations: both lists, then the source rests.
CleanupOperations(s, ch) ==
    LET keep(o) == ch \notin {AnyChannel, ChannelOf[o]}
        t == [s EXCEPT !.random = SelectSeq(@, keep),
                       !.stream = SelectSeq(@, keep),
                       !.op = IF @ # NoOp /\ ~keep(@) THEN NoOp ELSE @]
        rest == s.source_running /\ ~Avail(t)
    IN [t EXCEPT !.source_running = @ /\ ~rest,
                 !.suspend_cnt = IF rest THEN @ + 1 ELSE @]

Listed(s) == ToSet(s.random) \cup ToSet(s.stream)

\* Bug: a stream operation gives way to the random ones.
PickNextOperationBug(s) ==
    IF s.op = NoOp \/ TypeOf[s.op] = "stream"
    THEN IF s.random # <<>> THEN Head(s.random)
         ELSE IF s.stream # <<>> THEN Head(s.stream) ELSE NoOp
    ELSE LET i == CHOOSE k \in DOMAIN s.random : s.random[k] = s.op
         IN s.random[(i % Len(s.random)) + 1]

PickNextOperation(s) ==
    IF s.op = NoOp
    THEN IF s.stream # <<>> THEN Head(s.stream)
         ELSE IF s.random # <<>> THEN Head(s.random) ELSE NoOp
    ELSE IF TypeOf[s.op] = "stream" THEN s.op
    ELSE LET i == CHOOSE k \in DOMAIN s.random : s.random[k] = s.op
         IN s.random[(i % Len(s.random)) + 1]

\* The pick loop of _dispatch_stream_handler: operations with an error are
\* completed until one without is found.
RECURSIVE PickLoop(_)
PickLoop(s) ==
    LET op == PickNextOperation(s) IN
    IF op = NoOp THEN s
    ELSE IF HasError(op) THEN PickLoop(CompleteOperation(s, op))
    ELSE [s EXCEPT !.op = op]

Init ==
    /\ stream = [random |-> <<>>, stream |-> <<>>, op |-> NoOp,
                 source_running |-> FALSE, suspend_cnt |-> 1]
    /\ dq = <<>>
    /\ handling = Idle
    /\ performs = [o \in Ops |-> 0]
    /\ state = [o \in Ops |-> "new"]
    /\ stopped = {}
    /\ bad_fd = FALSE
    /\ unqueued = <<>>
    /\ raced = {}
    /\ crashed = FALSE

\* Where the operations of a new list end up.
States(s) ==
    [o \in Ops |-> IF o \in Listed(s) THEN "listed"
                   ELSE IF state[o] = "listed" THEN "done" ELSE state[o]]

\* The end of _dispatch_operation_enqueue, on the barrier queue.
Submit(op) ==
    /\ state[op] = "new"
    /\ ChannelOf[op] \notin stopped
    /\ state' = [state EXCEPT ![op] = "submitted"]
    /\ dq' = Append(dq, [kind |-> "enqueue", op |-> op])
    /\ UNCHANGED <<stream, handling, performs, stopped, bad_fd, unqueued, raced, crashed>>

\* _dispatch_io_stop from any thread.
Stop(ch) ==
    /\ ch \notin stopped
    /\ stopped' = stopped \cup {ch}
    /\ unqueued' = Append(unqueued, ch)
    /\ raced' = IF handling # Idle /\ handling.result = "none" /\ ChannelOf[handling.op] = ch
                THEN raced \cup {"stop"} ELSE raced
    /\ UNCHANGED <<stream, dq, handling, performs, state, bad_fd, crashed>>

\* _dispatch_fd_entry_cleanup_operations, reached from the barrier queue.
QueueCleanup ==
    /\ unqueued # <<>>
    /\ dq' = Append(dq, [kind |-> "cleanup", channel |-> Head(unqueued)])
    /\ unqueued' = Tail(unqueued)
    /\ UNCHANGED <<stream, handling, performs, state, stopped, bad_fd, raced, crashed>>

\* _dispatch_operation_should_enqueue and _dispatch_stream_enqueue_operation
Enqueue ==
    /\ handling = Idle /\ dq # <<>> /\ Head(dq).kind = "enqueue"
    /\ LET op == Head(dq).op
           no_ops == ~Avail(stream)
       IN IF HasError(op)
          THEN /\ state' = [state EXCEPT ![op] = "done"]
               /\ dq' = Tail(dq)
               /\ UNCHANGED stream
          ELSE /\ stream' = IF TypeOf[op] = "stream"
                            THEN [stream EXCEPT !.stream = Append(@, op)]
                            ELSE [stream EXCEPT !.random = Append(@, op)]
               /\ state' = [state EXCEPT ![op] = "listed"]
               /\ dq' = Tail(dq) \o (IF no_ops THEN <<HandlerBlock>> ELSE <<>>)
    /\ UNCHANGED <<handling, performs, stopped, bad_fd, unqueued, raced, crashed>>

Cleanup ==
    /\ handling = Idle /\ dq # <<>> /\ Head(dq).kind = "cleanup"
    /\ stream' = CleanupOperations(stream, Head(dq).channel)
    /\ state' = States(stream')
    /\ dq' = Tail(dq)
    /\ raced' = IF Avail(stream) /\ ~Avail(stream') /\ Contains(dq, HandlerBlock)
                THEN raced \cup {"emptied"} ELSE raced
    /\ UNCHANGED <<handling, performs, stopped, bad_fd, unqueued, crashed>>

\* _dispatch_stream_handler up to the perform.
StartHandler(s) ==
    LET t == PickLoop(s) IN
    /\ stream' = t
    /\ state' = States(t)
    /\ handling' = Chosen(t.op)

Handler ==
    /\ handling = Idle /\ dq # <<>> /\ Head(dq) = HandlerBlock
    /\ StartHandler(stream)
    /\ dq' = Tail(dq)
    /\ UNCHANGED <<performs, stopped, bad_fd, unqueued, raced, crashed>>

\* _dispatch_stream_source_handler: a resumed source whose descriptor is ready.
SourceHandler ==
    /\ handling = Idle /\ stream.suspend_cnt = 0
    /\ StartHandler([stream EXCEPT !.source_running = FALSE, !.suspend_cnt = @ + 1])
    /\ UNCHANGED <<dq, performs, stopped, bad_fd, unqueued, raced, crashed>>

\* _dispatch_operation_perform: its own error check, then the system call.
Results(op) ==
    IF ChannelOf[op] \in stopped THEN {"ERR"}
    ELSE IF HasError(op) THEN {"FD_ERR"}
    ELSE {"COMPLETE", "FD_ERR",
          IF op \in Convenience /\ performs[op] > 0 THEN "COMPLETE_RESUME" ELSE "RESUME"}
         \cup (IF performs[op] < MaxPerforms THEN {"DELIVER"} ELSE {})

Perform ==
    /\ handling # Idle /\ handling.result = "none"
    /\ LET op == handling.op IN
       \E result \in Results(op) :
          /\ handling' = [op |-> op, result |-> result]
          /\ performs' = [performs EXCEPT ![op] = IF result = "DELIVER" THEN @ + 1 ELSE @]
          /\ bad_fd' = (bad_fd \/ result = "FD_ERR")
    /\ UNCHANGED <<stream, dq, state, stopped, unqueued, raced, crashed>>

\* Bug: the handler is not queued again for what is left.
ContinueBug(s) ==
    /\ stream' = s
    /\ UNCHANGED <<dq, unqueued, crashed>>

\* The ways the switch of _dispatch_stream_handler continues.
Continue(s) ==
    /\ stream' = s
    /\ dq' = dq \o (IF Avail(s) THEN <<HandlerBlock>> ELSE <<>>)
    /\ UNCHANGED <<unqueued, crashed>>

\* dispatch_resume stops the process when the source is not suspended.
WaitForSource(s) ==
    /\ IF Avail(s)
       THEN /\ stream' = [s EXCEPT !.source_running = TRUE,
                                   !.suspend_cnt = IF @ = 0 THEN @ ELSE @ - 1]
            /\ crashed' = (s.suspend_cnt = 0)
       ELSE stream' = s /\ UNCHANGED crashed
    /\ UNCHANGED <<dq, unqueued>>

FdError ==
    /\ unqueued' = Append(unqueued, AnyChannel)
    /\ UNCHANGED <<stream, dq, crashed>>

\* The rest of _dispatch_stream_handler.
HandleResult ==
    LET op == handling.op
        result == handling.result
        done == CompleteOperation(stream, op)
    IN /\ handling # Idle /\ result # "none"
       /\ \/ result = "DELIVER" /\ Continue(stream)
          \/ result = "COMPLETE" /\ Continue(done)
          \/ result = "COMPLETE_RESUME" /\ WaitForSource(done)
          \/ result = "RESUME" /\ WaitForSource(stream)
          \/ /\ result = "ERR"
             /\ stream' = CleanupOperations(stream, ChannelOf[op])
             /\ UNCHANGED <<dq, unqueued, crashed>>
          \/ result = "FD_ERR" /\ FdError
       /\ state' = States(stream')
       /\ handling' = Idle
       /\ UNCHANGED <<performs, stopped, bad_fd, raced>>

Next ==
    /\ ~crashed
    /\ \/ \E op \in Ops : Submit(op)
       \/ \E ch \in Channels : Stop(ch)
       \/ QueueCleanup \/ Enqueue \/ Cleanup \/ Handler \/ SourceHandler
       \/ Perform \/ HandleResult

Spec == Init /\ [][Next]_vars

-----------------------------------------------------------------------------
\* Nobody is coming back to the stream: no handler run is under way or queued,
\* the source is not listening, and no cleanup is on its way.
Quiet ==
    /\ handling = Idle /\ unqueued = <<>> /\ stream.suspend_cnt > 0
    /\ \A i \in DOMAIN dq : dq[i].kind = "enqueue"

\* A stream nobody is coming back to has no operation left, unless a stop came
\* between the two error checks of a handler run: that run cancels the
\* operations of the stopped channel and schedules nothing for the others.
StreamNotStalled == Quiet /\ Avail(stream) => "stop" \in raced

\* The source is not resumed more often than it is suspended, and it is running
\* exactly when source_running says so; unless a cleanup took the last operation
\* while a handler run was queued: the next operation then queues a second run,
\* and both may resume the source, which stops the process.
SourceResumedOnce ==
    \/ "emptied" \in raced
    \/ ~crashed /\ (stream.source_running <=> stream.suspend_cnt = 0)

\* A stream keeps both.
StreamSound == StreamNotStalled /\ SourceResumedOnce

\* A stream operation, once begun, is performed to its end before another
\* operation of the stream is performed, and the chosen operation is listed.
OpRunsToEnd ==
    /\ handling'.op # NoOp => handling'.op \in Listed(stream')
    /\ handling'.op # NoOp /\ handling.op = NoOp /\ stream.op # NoOp
          /\ TypeOf[stream.op] = "stream" /\ stream.op \in Listed(stream')
       => handling'.op = stream.op
=============================================================================
