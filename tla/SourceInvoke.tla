--------------------------- MODULE SourceInvoke ---------------------------
(***************************************************************************)
(* What Source and Timer share: the dispatch_source_s as a record r, and   *)
(* the parts of _dispatch_queue_invoke and _dispatch_source_invoke that    *)
(* touch nothing else.  Whoever invokes a source does what has to be done  *)
(* next if it is on the right queue for that, the manager's or the target, *)
(* and is re-driven on the right one if not.  The lock bit of              *)
(* do_suspend_cnt says that the source is on a list or being invoked.      *)
(***************************************************************************)
EXTENDS Integers, Sequences

\* dispatch_source_create: one reference for the manager, one for the initial
\* suspension; the first item of its queue will set the target queue.
NewSource(rearm) ==
    [is_installed |-> FALSE, has_dkev |-> TRUE, canceled |-> FALSE, armed |-> FALSE,
     needs_rearm |-> rearm, pending |-> 0, suspends |-> 1, lock |-> FALSE,
     ref |-> 2, xref |-> 0, items |-> TRUE, targetq |-> "mgr",
     handler |-> FALSE, cancel_handler |-> FALSE, registration_handler |-> FALSE,
     on |-> "none", pc |-> "idle", rechecks |-> 0,
     merged |-> 0, delivered |-> 0, cancels |-> 0, late |-> FALSE]   \* history

Dying(r) == r.canceled \/ r.xref = -1
Dispose(r) == [r EXCEPT !.ref = @ - 1]    \* _dispatch_release

\* _dispatch_source_probe
Probe(r) ==
    \/ ~r.is_installed
    \/ r.registration_handler
    \/ IF Dying(r) THEN r.has_dkev \/ r.cancel_handler \/ r.handler
       ELSE r.pending > 0 \/ (r.needs_rearm /\ ~r.armed)

\* _dispatch_wakeup
Wakeup(r) ==
    IF r.suspends > 0 \/ (~Probe(r) /\ ~r.items) \/ r.lock THEN r
    ELSE [r EXCEPT !.lock = TRUE, !.ref = @ + 1, !.on = r.targetq, !.pc = "queued"]

\* The items the program queues on a new source before it resumes it; handler
\* says that the event handler is a block, which has to be released.
SetEventHandler(r) == [r EXCEPT !.handler = TRUE]
SetCancelHandler(r, given) == [r EXCEPT !.cancel_handler = given]
SetRegistrationHandler(r, given) == [r EXCEPT !.registration_handler = given]
FirstItems(r, cancel, reg) ==
    SetRegistrationHandler(SetCancelHandler(SetEventHandler(
      [r EXCEPT !.targetq = "target", !.items = FALSE]), cancel), reg)

\* Where _dispatch_source_invoke has to run next, and what it then does.
Decision(r) ==
    CASE ~r.is_installed -> [on |-> "mgr", do |-> "register"]
      [] r.is_installed /\ r.suspends > 0 -> [on |-> r.on, do |-> "unlock"]
      [] r.is_installed /\ r.suspends = 0 /\ r.registration_handler ->
           [on |-> "target", do |-> "registration"]
      [] OTHER ->
           CASE Dying(r) /\ r.has_dkev -> [on |-> "mgr", do |-> "unregister"]
             [] Dying(r) /\ ~r.has_dkev ->
                  [on |-> IF r.cancel_handler \/ r.handler THEN "target" ELSE r.on,
                   do |-> "cancel"]
             [] ~Dying(r) /\ r.pending > 0 -> [on |-> "target", do |-> "latch"]
             [] ~Dying(r) /\ r.pending = 0 /\ r.needs_rearm /\ ~r.armed ->
                  [on |-> "mgr", do |-> "rearm"]
             [] OTHER -> [on |-> r.on, do |-> "unlock"]

Requeue(r, q) == [r EXCEPT !.pc = "queued", !.on = q]
Decided(r) ==
    LET d == Decision(r) IN
    IF d.on # r.on THEN Requeue(r, d.on) ELSE [r EXCEPT !.pc = d.do]

\* _dispatch_kevent_unregister
Unregistered(r) == Dispose([r EXCEPT !.has_dkev = FALSE, !.armed = FALSE, !.needs_rearm = FALSE])

\* The cancel branch after that, which does not look at the suspension again.
ToCancel(r) ==
    IF (r.cancel_handler \/ r.handler) /\ r.on # "target" THEN Requeue(r, "target")
    ELSE [r EXCEPT !.pc = "cancel"]

\* What the invoke does once the source is registered.
Registered(r) ==
    CASE r.registration_handler -> Requeue(r, r.targetq)
      [] ~r.registration_handler /\ r.xref = -1 -> Requeue(r, "mgr")
      [] OTHER -> [r EXCEPT !.pc = "unlock"]

\* _dispatch_source_registration_callout
RegistrationCallout(r) ==
    LET q == [r EXCEPT !.registration_handler = FALSE] IN
    IF q.xref = -1 THEN Requeue(q, "mgr") ELSE [q EXCEPT !.pc = "unlock"]

\* _dispatch_source_cancel_callout
CancelCallout(r) ==
    [r EXCEPT !.pending = 0, !.handler = FALSE, !.cancel_handler = FALSE,
              !.cancels = IF r.cancel_handler /\ r.canceled THEN @ + 1 ELSE @,
              !.pc = "unlock"]

\* The rest of _dispatch_queue_invoke: unlock, look again, release.
Unlocked(r) ==
    LET q == [r EXCEPT !.lock = FALSE, !.pc = "idle", !.on = "none"] IN
    IF q.suspends = 0 THEN [q EXCEPT !.rechecks = @ + 1] ELSE Dispose(q)

Rechecked(r) == Dispose(Wakeup([r EXCEPT !.rechecks = @ - 1]))

\* dispatch_suspend, dispatch_resume and the last dispatch_release
Suspended(r) == [r EXCEPT !.suspends = @ + 1, !.ref = @ + 1]
Resumed(r) ==
    LET q == [r EXCEPT !.suspends = @ - 1] IN
    Dispose(IF q.suspends = 0 /\ ~q.lock THEN Wakeup(q) ELSE q)
===========================================================================
