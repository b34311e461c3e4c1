------------------------------ MODULE Manager ------------------------------
(***************************************************************************)
(* The manager queue's thread, _dispatch_mgr_invoke: it runs the timers,   *)
(* sleeps in kevent(2) or, for descriptors that kevent refuses, in         *)
(* select(2), hands out the events and drains its queue.  Other threads    *)
(* push work on the queue and wake it up.  The work is what sources do on  *)
(* the manager queue: register, rearm and delete a kevent.                 *)
(*                                                                         *)
(* Each kevent k is a read or a write filter on a descriptor which needs   *)
(* the select workaround; "kernel" stands for the kqueue and select.       *)
(***************************************************************************)
EXTENDS Integers, Sequences, FiniteSets

CONSTANTS Kevents, FdOf,
          Sources,        \* sources, of which several may share a kevent
          KeventOf,
          MaxEvents       \* bound: how often select reports a descriptor

VARIABLES queue,     \* _dispatch_mgr_q: the operations pushed and not yet run
          pusher,    \* of each source: its client's progress
          kq,        \* is the kqueue there and the manager's thread started?
          trigger,   \* is the EVFILT_USER event triggered?
          source,    \* of each source: "none", "armed", "fired" or "gone"
          fds,       \* _dispatch_rfds and _dispatch_wfds
          ptrs,      \* the kevents with an entry in _dispatch_{r,w}fd_ptrs
          select_workaround,
          mgr,       \* the manager: pc, and tmp_rfds and tmp_wfds
          closed,    \* descriptors the program closed
          events,    \* what is left of MaxEvents
          lost       \* history: an event was handed out with no kevent

vars == <<queue, pusher, kq, trigger, source, fds, ptrs, select_workaround, mgr, closed,
          events, lost>>
selecting == <<fds, ptrs, select_workaround>>

Init ==
    /\ queue = <<>> /\ pusher = [s \in Sources |-> "register"]
    /\ kq = FALSE /\ trigger = FALSE
    /\ source = [s \in Sources |-> "none"]
    /\ fds = {} /\ ptrs = {} /\ select_workaround = 0
    /\ mgr = [pc |-> "none", tmp |-> {}]
    /\ closed = {} /\ events = MaxEvents /\ lost = FALSE

Goto(pc) == mgr' = [mgr EXCEPT !.pc = pc]

(***************************************************************************)
(* A client pushes an operation; the one that finds the queue empty wakes  *)
(* the manager, creating the kqueue and the thread if it is the first.     *)
(***************************************************************************)
After(p) == CASE p = "register" -> "registered" [] p = "delete" -> "done" [] OTHER -> p

Push(s) ==
    /\ pusher[s] \in {"register", "delete"}
    /\ queue' = Append(queue, [op |-> pusher[s], s |-> s])
    /\ pusher' = [pusher EXCEPT ![s] = IF queue = <<>> THEN "wakeup_" \o @ ELSE After(@)]
    /\ UNCHANGED <<kq, trigger, source, selecting, mgr, closed, events, lost>>

Woken(p) == IF p = "wakeup_register" THEN "registered" ELSE "done"

\* Bug: whoever creates the kqueue does not trigger its user event.
MgrWakeupBug(s) ==
    /\ pusher[s] \in {"wakeup_register", "wakeup_delete"}
    /\ pusher' = [pusher EXCEPT ![s] = Woken(@)]
    /\ kq' = TRUE /\ trigger' = kq
    /\ mgr' = IF kq THEN mgr ELSE [mgr EXCEPT !.pc = "top"]
    /\ UNCHANGED <<queue, source, selecting, closed, events, lost>>

\* _dispatch_mgr_wakeup, _dispatch_get_kq_init
MgrWakeup(s) ==
    /\ pusher[s] \in {"wakeup_register", "wakeup_delete"}
    /\ pusher' = [pusher EXCEPT ![s] = Woken(@)]
    /\ kq' = TRUE /\ trigger' = TRUE
    /\ mgr' = IF kq THEN mgr ELSE [mgr EXCEPT !.pc = "top"]
    /\ UNCHANGED <<queue, source, selecting, closed, events, lost>>

\* The program cancels a source, or closes its descriptor behind its back.
Cancel(s) ==
    /\ pusher[s] = "registered"
    /\ pusher' = [pusher EXCEPT ![s] = "delete"]
    /\ UNCHANGED <<queue, kq, trigger, source, selecting, mgr, closed, events, lost>>

Close(k) ==
    /\ FdOf[k] \notin closed
    /\ closed' = closed \cup {FdOf[k]}
    /\ UNCHANGED <<queue, pusher, kq, trigger, source, selecting, mgr, events, lost>>

(***************************************************************************)
(* _dispatch_update_kq for a kevent that kevent(2) refuses.                *)
(***************************************************************************)
UpdateAdd(k) ==
    /\ fds' = fds \cup {k} /\ ptrs' = ptrs \cup {k}
    /\ select_workaround' = select_workaround + 1

UpdateDelete(k) ==
    IF select_workaround > 0 /\ k \in fds
    THEN /\ fds' = fds \ {k} /\ ptrs' = ptrs \ {k}
         /\ select_workaround' = select_workaround - 1
    ELSE UNCHANGED selecting

Listed(k) == {s \in Sources : KeventOf[s] = k /\ source[s] \in {"armed", "fired"}}

\* _dispatch_queue_serial_drain_till_empty runs one operation.  Registering or
\* rearming on a closed descriptor fails with EBADF and unregisters the source;
\* the kevent is deleted with its last source.
Operate ==
    LET s == Head(queue).s
        op == Head(queue).op
        k == KeventOf[s]
    IN /\ mgr.pc = "drain" /\ queue # <<>>
       /\ queue' = Tail(queue)
       /\ IF source[s] = "gone" THEN UNCHANGED <<source, selecting>>
          ELSE IF op = "delete" \/ FdOf[k] \in closed
          THEN /\ source' = [source EXCEPT ![s] = "gone"]
               /\ IF Listed(k) \subseteq {s} THEN UpdateDelete(k) ELSE UNCHANGED selecting
          ELSE /\ source' = [source EXCEPT ![s] = "armed"]
               /\ UpdateAdd(k)
       /\ UNCHANGED <<pusher, kq, trigger, mgr, closed, events, lost>>

DrainDone ==
    /\ mgr.pc = "drain" /\ queue = <<>>
    /\ Goto("top")
    /\ UNCHANGED <<queue, pusher, kq, trigger, source, selecting, closed, events, lost>>

(***************************************************************************)
(* _dispatch_mgr_invoke                                                    *)
(***************************************************************************)
\* The top of the loop: timers, then select if the workaround is in use.
Top ==
    /\ mgr.pc = "top"
    /\ Goto(IF select_workaround > 0 THEN "select" ELSE "kevent")
    /\ UNCHANGED <<queue, pusher, kq, trigger, source, selecting, closed, events, lost>>

\* Some descriptors are ready, or the kqueue is, or a timer is due.
Select(ready) ==
    /\ mgr.pc = "select" /\ \A k \in fds : FdOf[k] \notin closed
    /\ trigger \/ ready # {}
    /\ ready # {} => events > 0
    /\ events' = IF ready = {} THEN events ELSE events - 1
    /\ mgr' = [pc |-> IF ready = {} THEN "kevent" ELSE "scan", tmp |-> ready]
    /\ UNCHANGED <<queue, pusher, kq, trigger, source, selecting, closed, lost>>

\* EBADF: every descriptor that cannot be duplicated is dropped.
SelectFails ==
    LET bad == {k \in fds : FdOf[k] \in closed} IN
    /\ mgr.pc = "select" /\ bad # {}
    /\ fds' = fds \ bad /\ ptrs' = ptrs \ bad
    /\ select_workaround' = select_workaround - Cardinality(bad)
    /\ Goto("top")
    /\ UNCHANGED <<queue, pusher, kq, trigger, source, closed, events, lost>>

\* One ready descriptor: emulate EV_DISABLE, and _dispatch_mgr_thread2 hands the
\* event to the sources, whose handlers will have the kevent rearmed.
Rearms(k) == {s \in Listed(k) : source[s] = "armed"}
Scan(k) ==
    /\ mgr.pc = "scan" /\ k \in mgr.tmp
    /\ mgr' = IF mgr.tmp = {k} THEN [pc |-> "kevent", tmp |-> {}]
              ELSE [mgr EXCEPT !.tmp = @ \ {k}]
    /\ lost' = (lost \/ k \notin ptrs)
    /\ fds' = fds \ {k} /\ ptrs' = ptrs \ {k} /\ select_workaround' = select_workaround - 1
    /\ source' = [s \in Sources |-> IF s \in Rearms(k) THEN "fired" ELSE source[s]]
    /\ UNCHANGED <<queue, pusher, kq, trigger, closed, events>>

\* A source whose handler has returned asks for its kevent to be rearmed.
HandlerReturns(s) ==
    /\ source[s] = "fired"
    /\ ~\E i \in DOMAIN queue : queue[i].s = s
    /\ pusher[s] = "registered"
    /\ queue' = Append(queue, [op |-> "rearm", s |-> s])
    /\ trigger' = (trigger \/ queue = <<>>)
    /\ UNCHANGED <<pusher, kq, source, selecting, mgr, closed, events, lost>>

\* kevent(2) returns the EVFILT_USER event, or times out.
KeventUser ==
    /\ mgr.pc = "kevent" /\ trigger
    /\ trigger' = FALSE /\ Goto("drain")
    /\ UNCHANGED <<queue, pusher, kq, source, selecting, closed, events, lost>>

KeventTimeout ==
    /\ mgr.pc = "kevent" /\ ~trigger /\ select_workaround > 0
    /\ Goto("top")
    /\ UNCHANGED <<queue, pusher, kq, trigger, source, selecting, closed, events, lost>>

Next ==
    \/ \E s \in Sources : Push(s) \/ MgrWakeup(s) \/ Cancel(s) \/ HandlerReturns(s)
    \/ \E k \in Kevents : Close(k) \/ Scan(k)
    \/ Operate \/ DrainDone \/ Top \/ SelectFails \/ KeventUser \/ KeventTimeout
    \/ \E ready \in SUBSET fds : Select(ready)

Spec == Init /\ [][Next]_vars

(* Work pushed on the manager queue is not forgotten: while the manager    *)
(* sleeps or is about to, either the queue is empty, or the event that     *)
(* wakes it is triggered, or the thread that will trigger it is under way. *)
ManagerSeesWork ==
    (mgr.pc \notin {"drain"} /\ queue # <<>>) =>
      trigger \/ \E s \in Sources : pusher[s] \in {"wakeup_register", "wakeup_delete"}

(* While a source waits for a descriptor that only select can watch, the   *)
(* descriptor is in the sets, has its kevent recorded and the workaround   *)
(* is in use, unless the program closed the descriptor; and no event is    *)
(* handed out without a kevent.                                            *)
SelectCovers ==
    /\ ~lost /\ fds = ptrs
    /\ Cardinality(fds) <= select_workaround
    /\ \A s \in Sources :
         (source[s] = "armed" /\ FdOf[KeventOf[s]] \notin closed) => KeventOf[s] \in fds

(* The manager keeps both.                                                 *)
ManagerSound == ManagerSeesWork /\ SelectCovers
============================================================================
