------------------------------ MODULE Source ------------------------------
(***************************************************************************)
(* Dispatch sources that are not timers: sources fed by                    *)
(* dispatch_source_merge_data, and level-triggered sources on a file       *)
(* descriptor, which the kernel disables after each event and the manager  *)
(* rearms.  Programs merge, cancel, suspend, resume and release while the  *)
(* manager merges events and some thread invokes the source.               *)
(***************************************************************************)
EXTENDS SourceInvoke

CONSTANTS Sources,
          Kevent,      \* of each source: the kevent it shares with others
          Level,       \* the sources with EV_DISPATCH; the others are merged into
          Ors,         \* the sources merged into with or; the others are adders
          BadFd,       \* kevents that the kernel may refuse to register or rearm
          HasCancel,   \* sources given a cancellation handler
          HasReg,      \* sources given a registration handler
          MaxMerges, MaxEvents, MaxSuspends, MaxCancels, MaxReleases   \* bounds

Kevents == {Kevent[s] : s \in Sources}

VARIABLES src,        \* the sources
          kernel,     \* of each kevent: "none", "enabled" or "disabled"
          manager,    \* the event the manager is handing out: step, source, sources left
          merger,     \* of each source: the thread in dispatch_source_merge_data
          canceler,   \* of each source: the thread in dispatch_source_cancel
          releaser,   \* of each source: the thread in the last dispatch_release
          budget      \* what is left of the bounds

threads == <<manager, merger, canceler, releaser>>
vars == <<src, kernel, threads, budget>>

Init ==
    /\ src = [s \in Sources |-> NewSource(s \in Level)]
    /\ kernel = [k \in Kevents |-> "none"]
    /\ manager = [pc |-> "idle", on |-> {}, left |-> {}]
    /\ merger = [s \in Sources |-> "idle"]
    /\ canceler = [s \in Sources |-> "idle"]
    /\ releaser = [s \in Sources |-> "idle"]
    /\ budget = [merges |-> MaxMerges, events |-> MaxEvents, suspends |-> MaxSuspends,
                 cancels |-> MaxCancels, releases |-> MaxReleases]

Set(s, r) == src' = [src EXCEPT ![s] = r]

\* Masks of two bits
Without(x, y) == 2 * (IF x \div 2 > y \div 2 THEN 1 ELSE 0) + (IF x % 2 > y % 2 THEN 1 ELSE 0)
Or(x, y) == x + Without(y, x)

\* The manager thread does one thing at a time.
ManagerFree ==
    manager.pc = "idle" /\ \A s \in Sources : src[s].on = "mgr" => src[s].pc \in {"idle", "queued"}
OnRightThread(s) == src[s].on = "mgr" => ManagerFree

(***************************************************************************)
(* _dispatch_queue_invoke: drain the source's own items, which set its     *)
(* target and its handlers, then decide what the source needs.             *)
(***************************************************************************)
InvokeBegin(s) ==
    LET r == src[s] IN
    /\ r.pc = "queued" /\ OnRightThread(s)
    /\ Set(s, IF r.suspends > 0 THEN [r EXCEPT !.pc = "unlock"]
              ELSE [(IF r.items THEN FirstItems(r, s \in HasCancel, s \in HasReg) ELSE r)
                      EXCEPT !.pc = "decide"])
    /\ UNCHANGED <<kernel, threads, budget>>

Decide(s) ==
    /\ src[s].pc = "decide"
    /\ Set(s, Decided(src[s]))
    /\ UNCHANGED <<kernel, threads, budget>>

(***************************************************************************)
(* The branches of _dispatch_source_invoke.                                *)
(***************************************************************************)
Listed(k) == {s \in Sources : Kevent[s] = k /\ src[s].is_installed /\ src[s].has_dkev}

\* The kevent is deleted with its last source.
WithoutSource(s) == IF Listed(Kevent[s]) \subseteq {s} THEN "none" ELSE kernel[Kevent[s]]

\* _dispatch_source_kevent_resume and _dispatch_kevent_resume: the kernel may
\* refuse, and then the source is taken off.
MayRefuse(s) == IF s \in Level /\ Kevent[s] \in BadFd THEN BOOLEAN ELSE {FALSE}
KeventResume(s, refused) ==
    kernel' = [kernel EXCEPT ![Kevent[s]] =
                 IF refused THEN WithoutSource(s) ELSE IF s \in Level THEN "enabled" ELSE @]
KeventResumed(r, refused) ==
    [(IF refused THEN Unregistered(r) ELSE r) EXCEPT !.armed = TRUE]

\* _dispatch_kevent_register
Register(s) ==
    /\ src[s].pc = "register"
    /\ \E refused \in MayRefuse(s) :
         /\ KeventResume(s, refused)
         /\ Set(s, Registered(KeventResumed([src[s] EXCEPT !.is_installed = TRUE], refused)))
    /\ UNCHANGED <<threads, budget>>

Registration(s) ==
    /\ src[s].pc = "registration"
    /\ Set(s, RegistrationCallout(src[s]))
    /\ UNCHANGED <<kernel, threads, budget>>

\* _dispatch_kevent_unregister; the same invoke goes on.
Unregister(s) ==
    /\ src[s].pc = "unregister"
    /\ kernel' = [kernel EXCEPT ![Kevent[s]] = WithoutSource(s)]
    /\ Set(s, ToCancel(Unregistered(src[s])))
    /\ UNCHANGED <<threads, budget>>

Cancel(s) ==
    /\ src[s].pc = "cancel"
    /\ Set(s, CancelCallout(src[s]))
    /\ UNCHANGED <<kernel, threads, budget>>

\* _dispatch_source_latch_and_call; of or-ed data, merged is what no handler
\* has seen.
Latch(s) ==
    LET r == src[s] IN
    /\ r.pc = "latch"
    /\ Set(s, IF Dying(r) THEN [r EXCEPT !.pc = "latched"]
              ELSE [r EXCEPT !.pending = 0, !.pc = "calling", !.late = @ \/ r.cancels > 0,
                             !.delivered = IF s \in Ors THEN @ ELSE @ + r.pending,
                             !.merged = IF s \in Ors THEN Without(@, r.pending) ELSE @])
    /\ UNCHANGED <<kernel, threads, budget>>

HandlerReturns(s) ==
    /\ src[s].pc = "calling"
    /\ Set(s, [src[s] EXCEPT !.pc = "latched"])
    /\ UNCHANGED <<kernel, threads, budget>>

Latched(s) ==
    LET r == src[s] IN
    /\ r.pc = "latched"
    /\ Set(s, IF r.needs_rearm THEN Requeue(r, "mgr") ELSE [r EXCEPT !.pc = "unlock"])
    /\ UNCHANGED <<kernel, threads, budget>>

Rearm(s) ==
    /\ src[s].pc = "rearm"
    /\ \E refused \in MayRefuse(s) :
         /\ KeventResume(s, refused)
         /\ Set(s, [KeventResumed(src[s], refused) EXCEPT !.pc = "unlock"])
    /\ UNCHANGED <<threads, budget>>

Unlock(s) ==
    /\ src[s].pc = "unlock"
    /\ Set(s, Unlocked(src[s]))
    /\ UNCHANGED <<kernel, threads, budget>>

Recheck(s) ==
    /\ src[s].rechecks > 0
    /\ Set(s, Rechecked(src[s]))
    /\ UNCHANGED <<kernel, threads, budget>>

Invoke(s) ==
    \/ InvokeBegin(s) \/ Decide(s) \/ Register(s) \/ Registration(s) \/ Unregister(s)
    \/ Cancel(s) \/ Latch(s) \/ HandlerReturns(s) \/ Latched(s) \/ Rearm(s)
    \/ Unlock(s) \/ Recheck(s)

(***************************************************************************)
(* _dispatch_source_drain_kevent: the manager hands an event to every      *)
(* source of the kevent, which EV_DISPATCH has disabled.                   *)
(***************************************************************************)
KernelEvent(k) ==
    /\ budget.events > 0 /\ kernel[k] = "enabled"
    /\ ManagerFree
    /\ budget' = [budget EXCEPT !.events = @ - 1]
    /\ kernel' = [kernel EXCEPT ![k] = "disabled"]
    /\ manager' = [pc |-> "merge", on |-> {}, left |-> Listed(k)]
    /\ UNCHANGED <<src, merger, canceler, releaser>>

\* _dispatch_source_merge_kevent, for a level-triggered source: the test and
\* the store, then the source is no longer armed, then the wakeup.
ManagerMerge(s) ==
    LET r == src[s] IN
    /\ manager.pc = "merge" /\ s \in manager.left
    /\ IF Dying(r) THEN UNCHANGED src ELSE Set(s, [r EXCEPT !.pending = 1])
    /\ manager' = [pc |-> IF Dying(r) THEN "merge" ELSE "disarm", on |-> IF Dying(r) THEN {} ELSE {s},
                   left |-> manager.left \ {s}]
    /\ UNCHANGED <<kernel, merger, canceler, releaser, budget>>

ManagerDisarm(s) ==
    /\ manager.pc = "disarm" /\ s \in manager.on
    /\ Set(s, [src[s] EXCEPT !.armed = IF src[s].needs_rearm THEN FALSE ELSE @])
    /\ manager' = [manager EXCEPT !.pc = "wakeup"]
    /\ UNCHANGED <<kernel, merger, canceler, releaser, budget>>

ManagerWakeup(s) ==
    /\ manager.pc = "wakeup" /\ s \in manager.on
    /\ Set(s, Wakeup(src[s]))
    /\ manager' = [manager EXCEPT !.pc = "merge", !.on = {}]
    /\ UNCHANGED <<kernel, merger, canceler, releaser, budget>>

ManagerDone ==
    /\ manager.pc = "merge" /\ manager.left = {}
    /\ manager' = [manager EXCEPT !.pc = "idle"]
    /\ UNCHANGED <<src, kernel, merger, canceler, releaser, budget>>

(***************************************************************************)
(* The program: it may use a source until it gives up its reference.       *)
(***************************************************************************)
Usable(s) == src[s].xref = 0 /\ releaser[s] = "idle"

\* dispatch_source_merge_data and _dispatch_source_merge_kevent: an adder takes
\* what it is given, the other kind the bits of it that are in its mask.
MergeCheck(s) ==
    /\ budget.merges > 0 /\ s \notin Level /\ Usable(s) /\ merger[s] = "idle"
    /\ budget' = [budget EXCEPT !.merges = @ - 1]
    /\ merger' = [merger EXCEPT ![s] = IF Dying(src[s]) THEN "idle" ELSE "add"]
    /\ UNCHANGED <<src, kernel, manager, canceler, releaser>>

\* Bug: the data is stored over what is pending.
MergeAddBug(s) ==
    /\ merger[s] = "add"
    /\ Set(s, [src[s] EXCEPT !.pending = 1, !.merged = @ + 1])
    /\ merger' = [merger EXCEPT ![s] = "wakeup"]
    /\ UNCHANGED <<kernel, manager, canceler, releaser, budget>>

MergeAdd(s) ==
    /\ merger[s] = "add"
    /\ IF s \in Ors
       THEN \E bits \in 0..2 : Set(s, [src[s] EXCEPT !.pending = Or(@, bits),
                                                  !.merged = Or(@, bits)])
       ELSE Set(s, [src[s] EXCEPT !.pending = @ + 1, !.merged = @ + 1])
    /\ merger' = [merger EXCEPT ![s] = "wakeup"]
    /\ UNCHANGED <<kernel, manager, canceler, releaser, budget>>

MergeWakeup(s) ==
    /\ merger[s] = "wakeup"
    /\ Set(s, Wakeup(src[s]))
    /\ merger' = [merger EXCEPT ![s] = "idle"]
    /\ UNCHANGED <<kernel, manager, canceler, releaser, budget>>

\* dispatch_source_cancel
CancelFlag(s) ==
    /\ budget.cancels > 0 /\ Usable(s) /\ canceler[s] = "idle"
    /\ budget' = [budget EXCEPT !.cancels = @ - 1]
    /\ Set(s, [src[s] EXCEPT !.canceled = TRUE, !.ref = @ + 1])
    /\ canceler' = [canceler EXCEPT ![s] = "wakeup"]
    /\ UNCHANGED <<kernel, manager, merger, releaser>>

CancelWakeup(s) ==
    /\ canceler[s] = "wakeup"
    /\ Set(s, Dispose(Wakeup(src[s])))
    /\ canceler' = [canceler EXCEPT ![s] = "done"]
    /\ UNCHANGED <<kernel, manager, merger, releaser, budget>>

\* dispatch_suspend and dispatch_resume
Suspend(s) ==
    /\ budget.suspends > 0 /\ Usable(s)
    /\ budget' = [budget EXCEPT !.suspends = @ - 1]
    /\ Set(s, Suspended(src[s]))
    /\ UNCHANGED <<kernel, threads>>

Resume(s) ==
    /\ src[s].suspends > 0 /\ Usable(s)
    /\ Set(s, Resumed(src[s]))
    /\ UNCHANGED <<kernel, threads, budget>>

\* The last dispatch_release: _dispatch_xref_dispose.
Release(s) ==
    /\ budget.releases > 0 /\ Usable(s) /\ src[s].suspends = 0
    /\ merger[s] = "idle" /\ canceler[s] # "wakeup"
    /\ Set(s, [src[s] EXCEPT !.xref = -1])
    /\ budget' = [budget EXCEPT !.releases = @ - 1]
    /\ releaser' = [releaser EXCEPT ![s] = "wakeup"]
    /\ UNCHANGED <<kernel, manager, merger, canceler>>

ReleaseWakeup(s) ==
    /\ releaser[s] = "wakeup"
    /\ Set(s, Dispose(Wakeup(src[s])))
    /\ releaser' = [releaser EXCEPT ![s] = "done"]
    /\ UNCHANGED <<kernel, manager, merger, canceler, budget>>

Next ==
    \/ \E s \in Sources :
         \/ Invoke(s) \/ ManagerMerge(s) \/ ManagerDisarm(s) \/ ManagerWakeup(s)
         \/ MergeCheck(s) \/ MergeAdd(s) \/ MergeWakeup(s)
         \/ CancelFlag(s) \/ CancelWakeup(s) \/ Suspend(s) \/ Resume(s)
         \/ Release(s) \/ ReleaseWakeup(s)
    \/ \E k \in Kevents : KernelEvent(k)
    \/ ManagerDone

Spec == Init /\ [][Next]_vars

Quiet(s) ==
    /\ src[s].pc = "idle" /\ src[s].rechecks = 0 /\ src[s].suspends = 0
    /\ manager.pc = "idle" /\ merger[s] = "idle"
    /\ canceler[s] # "wakeup" /\ releaser[s] # "wakeup"

(* Whatever has to be done for a source gets done: when nobody is busy     *)
(* with it and it is not suspended, it is installed, has no event and no   *)
(* registration pending, and the kernel will report the next event; or, if *)
(* it was cancelled or released, it is off the kernel's lists and its      *)
(* cancellation handler ran.  Tests and wakeups race in                    *)
(* _dispatch_source_invoke, _dispatch_source_merge_kevent and _wakeup.     *)
NothingForgotten ==
    \A s \in Sources :
      LET r == src[s] IN
      Quiet(s) =>
        IF Dying(r) THEN ~r.has_dkev /\ ~r.cancel_handler /\ ~r.handler
        ELSE /\ r.is_installed /\ r.pending = 0 /\ ~r.registration_handler
             /\ (s \in Level /\ r.has_dkev) => (r.armed /\ kernel[Kevent[s]] = "enabled")

(* Data merged into a source is delivered or still pending, whatever merge *)
(* races with the handler: nothing is lost or delivered twice; of or-ed    *)
(* data, no bit goes unseen after it was merged.                           *)
EventsConserved ==
    \A s \in Sources \ Level :
      ~Dying(src[s]) => src[s].merged = src[s].delivered + src[s].pending

(* The cancellation handler runs at most once, when no kevent refers to    *)
(* the source and no event handler is running, and none runs after it; the *)
(* kernel knows a kevent exactly as long as a source needs it.             *)
CancelIsLast ==
    /\ \A s \in Sources :
         /\ src[s].cancels <= 1 /\ ~src[s].late
         /\ src[s].cancels = 1 => ~src[s].has_dkev /\ src[s].pc # "calling"
    /\ \A k \in Kevents : (kernel[k] # "none") <=> (\E s \in Listed(k) : s \in Level)

(* A source is disposed of when, and only when, its owner has released it, *)
(* nobody is using it and it is off every list.                            *)
SourceDisposed ==
    \A s \in Sources :
      LET r == src[s] IN
      /\ r.ref >= -1
      /\ r.ref = -1 => /\ r.pc = "idle" /\ r.rechecks = 0 /\ ~r.has_dkev
                       /\ merger[s] = "idle" /\ canceler[s] # "wakeup"
                       /\ releaser[s] = "done"
                       /\ s \notin manager.on
      /\ (releaser[s] = "done" /\ Quiet(s)) => r.ref = -1

(* Sources keep all four.                                                  *)
SourceSound == NothingForgotten /\ EventsConserved /\ CancelIsLast /\ SourceDisposed
==========================================================================
