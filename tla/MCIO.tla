-------------------------------- MODULE MCIO --------------------------------
(***************************************************************************)
(* The parts of io.c for TLC.  `mode` says which component a behaviour is  *)
(* of; the components share v1, v2, ... in the order of their own          *)
(* variables.                                                              *)
(***************************************************************************)
EXTENDS Integers

VARIABLES mode, v1, v2, v3, v4, v5, v6, v7, v8, v9, v10, v11, v12

slots == <<v1, v2, v3, v4, v5, v6, v7, v8, v9, v10, v11, v12>>

\* The variables a component does not use.
Unused12 == v12 = 0
Unused11 == v11 = 0 /\ Unused12
Unused10 == v10 = 0 /\ Unused11
Unused9 == v9 = 0 /\ Unused10
Unused8 == v8 = 0 /\ Unused9
Unused7 == v7 = 0 /\ Unused8
Unused6 == v6 = 0 /\ Unused7
Unused5 == v5 = 0 /\ Unused6
Unused4 == v4 = 0 /\ Unused5
Unused1 == v1 = 0 /\ v2 = 0 /\ v3 = 0 /\ Unused4

-----------------------------------------------------------------------------
(* Channels: one on a descriptor or on a path and one made from it, over a  *)
(* regular file or a pipe; and one beside a dispatch_read.  The stat, the   *)
(* type and the seek may fail.                                              *)
Failing(types, seeks) == {[stat |-> FALSE, type |-> {}, seek |-> {}],
                          [stat |-> FALSE, type |-> types, seek |-> seeks]}
NoStat == {[stat |-> TRUE, type |-> {}, seek |-> {}]}
FdKind == [c \in {"c1", "c2"} |-> IF c = "c1" THEN "fd" ELSE "io"]
PathKind == [c \in {"c1", "c2"} |-> IF c = "c1" THEN "path" ELSE "io"]
FromFirst == [c \in {"c1", "c2"} |-> "c1"]
OnFirst == [o \in {"o1"} |-> "c1"]
OnBoth == [o \in {"o1", "o2"} |-> IF o = "o1" THEN "c1" ELSE "cv"]

Fd == INSTANCE IOChannel WITH
    Channels <- {"c1", "c2"}, KindOf <- FdKind, ParentOf <- FromFirst, Ops <- {"o1"},
    OpChannel <- OnFirst, Convenience <- "cv", Barriers <- {"c1"}, Stops <- {"c1"},
    Empty <- {}, MaxEntries <- 2, Regular <- TRUE, Failures <- Failing({}, {"c2"}),
    w <- v1, queue <- v2, suspended <- v3

Path == INSTANCE IOChannel WITH
    Channels <- {"c1", "c2"}, KindOf <- PathKind, ParentOf <- FromFirst, Ops <- {"o1"},
    OpChannel <- OnFirst, Convenience <- "cv", Barriers <- {}, Stops <- {"c1", "c2"},
    Empty <- {}, MaxEntries <- 2, Regular <- FALSE, Failures <- NoStat \cup Failing({"c2"}, {}),
    w <- v1, queue <- v2, suspended <- v3

Read == INSTANCE IOChannel WITH
    Channels <- {"c1"}, KindOf <- FdKind, ParentOf <- FromFirst, Ops <- {"o1", "o2"},
    OpChannel <- OnBoth, Convenience <- "cv", Barriers <- {}, Stops <- {"c1"},
    Empty <- {"o1", "o2"}, MaxEntries <- 2, Regular <- FALSE, Failures <- NoStat \cup Failing({}, {"c1"}),
    w <- v1, queue <- v2, suspended <- v3

(* A disk with two operations on one file, one of them on a channel that    *)
(* gets closed, and a random one on another file; and the first two with    *)
(* more than one system call each.                                          *)
DiskFd == [o \in {"a", "b", "c"} |-> IF o = "c" THEN "g" ELSE "f"]
OneFile == [o \in {"a", "b"} |-> "f"]
DiskChannel == [o \in {"a", "b", "c"} |-> IF o = "b" THEN "c2" ELSE "c1"]
DiskType == [o \in {"a", "b", "c"} |-> IF o = "c" THEN "random" ELSE "stream"]

Disk == INSTANCE IODisk WITH
    Ops <- {"a", "b", "c"}, NoOp <- "0", FdOf <- DiskFd, ChannelOf <- DiskChannel,
    TypeOf <- DiskType, Closed <- {"c2"}, OnPath <- {"g"}, Depth <- 2, MaxPerforms <- 1,
    disk <- v1, pick_queue <- v2, performing <- v3, stopped <- v4, fd_err <- v5,
    unopened <- v6, unqueued <- v7

Again == INSTANCE IODisk WITH
    Ops <- {"a", "b"}, NoOp <- "0", FdOf <- OneFile, ChannelOf <- DiskChannel,
    TypeOf <- DiskType, Closed <- {"c2"}, OnPath <- {"f"}, Depth <- 2, MaxPerforms <- 2,
    disk <- v1, pick_queue <- v2, performing <- v3, stopped <- v4, fd_err <- v5,
    unopened <- v6, unqueued <- v7

(* A stream with two stream operations and a random one, and one with a     *)
(* stream operation and two random ones, on two channels, one of which is   *)
(* closed; one operation is a convenience call.                             *)
StreamChannel == [o \in {"a", "b", "c", "d"} |-> IF o \in {"a", "c"} THEN "c1" ELSE "c2"]
StreamType == [o \in {"a", "b", "c", "d"} |-> IF o \in {"a", "b"} THEN "stream" ELSE "random"]

Stream == INSTANCE IOStream WITH
    Ops <- {"a", "b", "d"}, NoOp <- "0", ChannelOf <- StreamChannel,
    TypeOf <- StreamType, Convenience <- {"b"}, Closed <- {"c2"}, MaxPerforms <- 1,
    stream <- v1, dq <- v2, handling <- v3, performs <- v4, state <- v5, stopped <- v6,
    bad_fd <- v7, unqueued <- v8, raced <- v9, crashed <- v10

Mixed == INSTANCE IOStream WITH
    Ops <- {"b", "c", "d"}, NoOp <- "0", ChannelOf <- StreamChannel,
    TypeOf <- StreamType, Convenience <- {"b"}, Closed <- {"c2"}, MaxPerforms <- 1,
    stream <- v1, dq <- v2, handling <- v3, performs <- v4, state <- v5, stopped <- v6,
    bad_fd <- v7, unqueued <- v8, raced <- v9, crashed <- v10

(* One operation, with lengths, region sizes and water marks below and      *)
(* above the chunk size.                                                    *)
Operation == INSTANCE IOOperation WITH
    Chunk <- 3, SizeMax <- 9, Lengths <- {1, 4, 9},
    Writes <- {<<1, 4>>, <<2, 2, 1>>, <<5>>}, Waters <- {0, 1, 2, 4}, MaxTotal <- 6,
    op <- v1, result <- v2, given <- v3, calls <- v4

-----------------------------------------------------------------------------
IOInit ==
    \/ mode = "fd" /\ Fd!Init /\ Unused4
    \/ mode = "path" /\ Path!Init /\ Unused4
    \/ mode = "read" /\ Read!Init /\ Unused4
    \/ mode = "disk" /\ Disk!Init /\ Unused8
    \/ mode = "disk_again" /\ Again!Init /\ Unused8
    \/ mode = "stream" /\ Stream!Init /\ Unused11
    \/ mode = "stream_mixed" /\ Mixed!Init /\ Unused11
    \/ mode = "operation" /\ Operation!Init /\ Unused5

IONext ==
    \/ mode = "fd" /\ Fd!Next /\ UNCHANGED <<v4, v5, v6, v7, v8, v9, v10, v11, v12>>
    \/ mode = "path" /\ Path!Next /\ UNCHANGED <<v4, v5, v6, v7, v8, v9, v10, v11, v12>>
    \/ mode = "read" /\ Read!Next /\ UNCHANGED <<v4, v5, v6, v7, v8, v9, v10, v11, v12>>
    \/ mode = "disk" /\ Disk!Next /\ UNCHANGED <<v8, v9, v10, v11, v12>>
    \/ mode = "disk_again" /\ Again!Next /\ UNCHANGED <<v8, v9, v10, v11, v12>>
    \/ mode = "stream" /\ Stream!Next /\ UNCHANGED <<v11, v12>>
    \/ mode = "stream_mixed" /\ Mixed!Next /\ UNCHANGED <<v11, v12>>
    \/ mode = "operation" /\ Operation!Next /\ UNCHANGED <<v5, v6, v7, v8, v9, v10, v11, v12>>

-----------------------------------------------------------------------------
(* Descriptor entries and channels: an entry is taken down, and the cleanup *)
(* handler gives the descriptor back, only after the last handler of every  *)
(* operation and with every channel closed or stopped; a barrier runs alone *)
(* on its descriptor; and once the client has let go nothing is left over.  *)
ChannelsSound ==
    /\ mode = "fd" => Fd!ChannelSound
    /\ mode = "path" => Path!ChannelSound
    /\ mode = "read" => Read!ChannelSound

(* The disk scheduler: it does not fall asleep on work, keeps the stream    *)
(* operations of a file in turn, and its ring of advised operations stays   *)
(* sound; it completes, releases and reports every operation once, with     *)
(* stops, bad descriptors and files that cannot be opened, except those     *)
(* that a cleanup takes off the list while they are active.                 *)
DiskSound ==
    /\ mode = "disk" => Disk!DiskSound
    /\ mode = "disk_again" => Again!DiskSound

(* A stream that still has operations has somebody coming back to it: a     *)
(* handler run, its source or a cleanup, unless a stop came between the two *)
(* error checks of _dispatch_stream_handler; and its source is not resumed  *)
(* twice, unless a cleanup emptied the stream while a run was queued.       *)
StreamSound ==
    /\ mode = "stream" => Stream!StreamSound
    /\ mode = "stream_mixed" => Mixed!StreamSound

(* _dispatch_stream_handler performs a listed operation, and a stream       *)
(* operation once begun is performed to its end before any other.           *)
StreamOpRunsToEnd ==
    [][/\ mode = "stream" => Stream!OpRunsToEnd
       /\ mode = "stream_mixed" => Mixed!OpRunsToEnd]_slots

(* One operation: every byte read is in one place and reaches the handler   *)
(* within the water marks; the data that the handler of a write gets is     *)
(* what has not been written, and it gets none only when nothing is left or *)
(* after a system call that wrote nothing; the end is reported once.        *)
OperationSound == mode = "operation" => Operation!OperationSound
=============================================================================
