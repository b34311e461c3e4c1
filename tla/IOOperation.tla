----------------------------- MODULE IOOperation -----------------------------
(***************************************************************************)
(* One read or write operation of an I/O channel (src/src/io.c): how       *)
(* _dispatch_operation_perform fills or drains its buffer, and when        *)
(* _dispatch_operation_deliver_data calls the handler and with how much.   *)
(* Data objects are their sizes; for a write the sizes of the regions of   *)
(* its data are kept, since they decide how much is written at a time.     *)
(***************************************************************************)
EXTENDS Integers, FiniteSets, SequencesExt

CONSTANTS
    Chunk,         \* chunk_pages * PAGE_SIZE
    SizeMax,       \* SIZE_MAX: the length of a read up to end of file
    Lengths,       \* lengths of reads
    Writes,        \* data of writes, as sequences of region sizes
    Waters,        \* arguments of the water mark setters
    MaxTotal       \* bound: bytes the file has

VARIABLES
    op,            \* the dispatch_operation_t
    result,        \* what the last perform returned and nobody acted on yet
    given,         \* bytes handed to the handler of a read
    calls          \* the invocations of the handler by the last delivery

vars == <<op, result, given, calls>>

NULL == -1         \* no data object
ECANCELED == 2     \* 1 is any other errno

Total(s) == FoldLeft(LAMBDA a, b : a + b, 0, s)
Smaller(a, b) == IF a < b THEN a ELSE b

\* dispatch_io_set_high_water and dispatch_io_set_low_water
SetHighWater(p, w) ==
    [low |-> IF p.low > w THEN w ELSE p.low, high |-> IF w = 0 THEN 1 ELSE w]
SetLowWater(p, w) ==
    [low |-> w,
     high |-> IF p.high < w THEN (IF w = 0 THEN 1 ELSE w) ELSE p.high]

\* The water marks of _dispatch_io_create, and those two setters lead to.
DefaultParams == [low |-> Chunk, high |-> SizeMax]
Setters(ps) == ps \cup {SetHighWater(p, w) : p \in ps, w \in Waters}
                  \cup {SetLowWater(p, w) : p \in ps, w \in Waters}
Params == Setters(Setters({DefaultParams}))

\* _dispatch_operation_create, for a read of length n or a write of regions s
Create(direction, n, s, p, strict, on_disk) ==
    [direction |-> direction, length |-> n, regions |-> s, low |-> p.low,
     high |-> p.high, strict |-> strict, disk |-> on_disk, total |-> 0,
     data |-> Total(s), buf |-> FALSE, buf_len |-> 0, buf_siz |-> 0, undelivered |-> 0,
     flagged |-> FALSE, active |-> FALSE, err |-> 0, eof |-> FALSE, stopped |-> FALSE,
     alive |-> TRUE]

Init ==
    /\ \E p \in Params, strict, on_disk \in BOOLEAN :
          \/ \E n \in Lengths : op = Create("read", n, <<>>, p, strict, on_disk)
          \/ \E s \in Writes : op = Create("write", Total(s), s, p, strict, on_disk)
    /\ result = "none"
    /\ given = 0
    /\ calls = <<>>

\* The regions of the data that remain after the first n bytes.
RECURSIVE Trim(_, _)
Trim(s, n) == IF n = 0 THEN s
              ELSE IF Head(s) <= n THEN Trim(Tail(s), n - Head(s))
              ELSE <<Head(s) - n>> \o Tail(s)

\* The dispatch_data_apply of a write: whole regions up to the limit, and the
\* first one in any case.
RECURSIVE Gather(_, _, _)
Gather(s, limit, siz) ==
    IF s = <<>> THEN siz
    ELSE LET sum == siz + Head(s)
             now == IF siz = 0 \/ sum <= limit THEN sum ELSE siz
         IN IF sum < limit THEN Gather(Tail(s), limit, now) ELSE now

\* The buffer a perform without one creates.
BufferSize(o) ==
    IF o.direction = "read"
    THEN LET room == Smaller(o.high - o.data, Chunk)
         IN IF o.length < SizeMax THEN Smaller(o.length - o.total, room) ELSE room
    ELSE LET rest == Trim(o.regions, o.length - o.data)
         IN Smaller(Gather(rest, Smaller(Chunk, o.high), 0), o.high)

WithBuffer(o) ==
    IF o.buf THEN o ELSE [o EXCEPT !.buf = TRUE, !.buf_siz = BufferSize(o)]

\* _dispatch_operation_perform with a system call that processes n bytes, where
\* 0 is end of file; or with an error.  EAGAIN leaves the operation waiting or
\* completes a dispatch_read that has data; a stopped channel, a bad descriptor
\* and any other error complete it.
Perform ==
    /\ op.alive /\ result = "none"
    /\ LET o == WithBuffer(op) IN
       \/ /\ op.stopped
          /\ op' = [op EXCEPT !.active = op.disk, !.err = ECANCELED]
          /\ result' = "COMPLETE"
       \/ /\ ~op.stopped
          /\ \E n \in 1 .. Smaller(o.buf_siz - o.buf_len, MaxTotal - o.total) :
                /\ op' = [o EXCEPT !.buf_len = @ + n, !.total = @ + n, !.active = o.disk]
                /\ result' = IF op'.total = o.length THEN "COMPLETE" ELSE "DELIVER"
       \/ /\ ~op.stopped
          /\ op' = [o EXCEPT !.active = o.disk, !.eof = TRUE]
          /\ result' = "DELIVER_AND_COMPLETE"
       \/ /\ ~op.stopped /\ ~o.disk
          /\ op' = o
          /\ \/ result' = "none"
             \/ o.direction = "read" /\ o.total > 0 /\ result' = "COMPLETE"
       \/ /\ ~op.stopped
          /\ op' = [o EXCEPT !.active = o.disk, !.err = 1]
          /\ result' = "COMPLETE"
    /\ calls' = <<>>
    /\ UNCHANGED given

\* dispatch_io_close with DISPATCH_IO_STOP, from any thread.
Stop ==
    /\ op.alive /\ ~op.stopped
    /\ op' = [op EXCEPT !.stopped = TRUE]
    /\ UNCHANGED <<result, given, calls>>

\* Bug: what is delivered stays in the operation.
DeliverBug(o, flags) ==
    LET und     == o.undelivered + o.buf_len
        forced  == flags \cap {"DELIVER", "DONE"} # {} \/ o.flagged
        deliver == forced \/ und >= o.low
        read    == o.direction = "read"
        data    == IF read THEN o.data + o.buf_len ELSE o.data - o.buf_len
        used_up == IF read THEN o.buf_len > 0 ELSE o.buf /\ o.buf_len = o.buf_siz
        called  == deliver /\ ~("NO_EMPTY" \in flags /\ data = 0)
        err     == IF o.err = 0 /\ o.stopped THEN ECANCELED ELSE o.err
    IN [op |-> [o EXCEPT !.flagged = FALSE, !.data = data,
                         !.err = IF forced THEN err ELSE @,
                         !.buf = IF used_up THEN FALSE ELSE @,
                         !.buf_len = IF used_up THEN 0 ELSE @,
                         !.undelivered = IF called THEN 0 ELSE und],
        called |-> called, data |-> data, forced |-> forced, err |-> IF forced THEN err ELSE 0]

\* _dispatch_operation_deliver_data: the size of the data it delivers or keeps,
\* whether the handler is called, and the operation it leaves behind.
Deliver(o, flags) ==
    LET und     == o.undelivered + o.buf_len
        forced  == flags \cap {"DELIVER", "DONE"} # {} \/ o.flagged
        deliver == forced \/ und >= o.low
        read    == o.direction = "read"
        data    == IF read THEN o.data + o.buf_len ELSE o.data - o.buf_len
        used_up == IF read THEN o.buf_len > 0 ELSE o.buf /\ o.buf_len = o.buf_siz
        called  == deliver /\ ~("NO_EMPTY" \in flags /\ data = 0)
        err     == IF o.err = 0 /\ o.stopped THEN ECANCELED ELSE o.err
        kept    == IF read THEN (IF deliver THEN 0 ELSE data)
                   ELSE IF used_up THEN data ELSE o.data
    IN IF ~deliver /\ o.buf_len < o.buf_siz
       THEN [op |-> [o EXCEPT !.flagged = FALSE], called |-> FALSE,
             data |-> 0, forced |-> FALSE, err |-> 0]
       ELSE [op |-> [o EXCEPT !.flagged = FALSE, !.data = kept,
                         !.err = IF forced THEN err ELSE @,
                         !.buf = IF used_up THEN FALSE ELSE @,
                         !.buf_len = IF used_up THEN 0 ELSE @,
                         !.undelivered = IF called THEN 0 ELSE und],
             called |-> called, data |-> data, forced |-> forced,
             err |-> IF forced THEN err ELSE 0]

\* The block of _dispatch_operation_deliver_data calls the handler with what is
\* delivered.  The data that comes with the error that ends a read has a call
\* of its own, and a write that ends without an error gets no data.
HandlerCalls(d, done) ==
    LET Call(last, data, err) == [done |-> last, data |-> data, err |-> err, forced |-> d.forced]
        read == op.direction = "read"
    IN IF ~d.called THEN <<>>
       ELSE IF ~done THEN <<Call(FALSE, d.data, d.err)>>
       ELSE IF read /\ d.err # 0
       THEN (IF d.data > 0 THEN <<Call(FALSE, d.data, 0)>> ELSE <<>>) \o <<Call(TRUE, NULL, d.err)>>
       ELSE <<Call(TRUE, IF ~read /\ d.err = 0 THEN NULL ELSE d.data, d.err)>>

Handle(d, done) ==
    /\ calls' = HandlerCalls(d, done)
    /\ given' = IF op.direction # "read" THEN given
                ELSE FoldLeft(LAMBDA n, c : IF c.data = NULL THEN n ELSE n + c.data, given, calls')

\* The result of a perform on the stream queue or the pick queue, up to the last
\* release of a completed operation (_dispatch_operation_dispose); a stop also
\* completes an operation that nobody performs.
Settle ==
    /\ result = "DELIVER"
    /\ LET d == Deliver(op, {}) IN
       op' = [d.op EXCEPT !.active = FALSE] /\ Handle(d, FALSE)
    /\ result' = "none"

SettleEOF ==
    /\ result = "DELIVER_AND_COMPLETE"
    /\ LET d == Deliver(op, {"DELIVER", "NO_EMPTY"}) IN
       op' = d.op /\ Handle(d, FALSE)
    /\ result' = "FINAL"

Dispose ==
    /\ result \in {"COMPLETE", "FINAL"} \/ (op.alive /\ op.stopped /\ result = "none")
    /\ LET d == Deliver(op, {"DONE"}) IN
       op' = [d.op EXCEPT !.alive = FALSE, !.active = FALSE] /\ Handle(d, TRUE)
    /\ result' = "disposed"

\* The interval timer of _dispatch_operation_timer, on the same queue; for an
\* operation on a disk it may fire while the I/O is under way.
Timer ==
    /\ op.alive /\ result # "FINAL" /\ (result = "none" \/ op.disk)
    /\ IF op.active /\ op.strict
       THEN op' = [op EXCEPT !.flagged = TRUE] /\ UNCHANGED <<given, calls>>
       ELSE LET d == Deliver(op, IF op.strict THEN {"DELIVER"} ELSE {}) IN
            op' = d.op /\ Handle(d, FALSE)
    /\ UNCHANGED result

Next == Perform \/ Stop \/ Settle \/ SettleEOF \/ Dispose \/ Timer

Spec == Init /\ [][Next]_vars

-----------------------------------------------------------------------------
\* Every byte read is in exactly one place: handed to the handler, kept in the
\* data of the operation, or in its buffer; and a read that is done has handed
\* over all of them.
ReadBytesConserved ==
    op.direction = "read" =>
        /\ given + op.data + op.buf_len = op.total
        /\ result = "disposed" => given = op.total

\* The handler of a read never gets more than the high water mark, and less
\* than the low water mark only when the operation ends or its strict interval
\* passes; and the assertion of _dispatch_operation_perform holds: data that is
\* kept for later stays below the high water mark.
ReadWithinWaterMarks ==
    op.direction = "read" =>
        /\ op.data < op.high
        /\ op.buf_len <= op.buf_siz
        /\ \A c \in ToSet(calls) : c.data # NULL =>
              c.data <= op.high /\ (c.data >= op.low \/ c.forced)

\* Data that the handler of a write gets is exactly what has not been written,
\* and with an error it gets that data, however performs, water marks, a stop
\* and the interval timer interleave.  It gets none only at the end and without
\* an error: then all is written, or a system call wrote nothing
\* (_dispatch_operation_perform ends the write as at end of file, and the
\* handler is told of no error although bytes are left).
WriteReportsRemainder ==
    op.direction = "write" =>
        \A c \in ToSet(calls) :
            IF c.data # NULL THEN c.data = op.length - op.total
            ELSE c.done /\ c.err = 0 /\ (op.total = op.length \/ op.eof)

\* The handler is told of the end exactly once, by the last call for the
\* operation, and then also of the error or the stop that ended it.
EndReported ==
    \A i \in DOMAIN calls :
        /\ calls[i].done <=> (result = "disposed" /\ i = Len(calls))
        /\ calls[i].done => calls[i].err = op.err
        /\ calls[i].done /\ op.stopped => calls[i].err # 0

\* An operation keeps all four.
OperationSound ==
    ReadBytesConserved /\ ReadWithinWaterMarks /\ WriteReportsRemainder /\ EndReported
=============================================================================
