---------------------------- MODULE Hierarchy ----------------------------
(***************************************************************************)
(* The life of dispatch objects and of the hierarchy of queues they form   *)
(* through do_targetq: creation, external and internal references,         *)
(* dispatch_set_target_queue and dispatch_queue_set_width (which work      *)
(* through a barrier on the queue itself), disposal and finalizers.        *)
(*                                                                         *)
(* Running the items of a queue is module Queue's: here a queue with       *)
(* pending items runs them one at a time, and holds a reference to itself  *)
(* from the item that made it busy until it is idle again.                 *)
(***************************************************************************)
EXTENDS Integers, Sequences

CONSTANTS Queues,      \* objects with a list of items of their own
          Others,      \* semaphores and groups: objects that only have a target
          Root,        \* the global root queues: never retained nor released
          MaxTargets,  \* bound of the model: calls of dispatch_set_target_queue
          Widths,      \* arguments of dispatch_queue_set_width
          CPUs,        \* _dispatch_hw_config: of each negative width, a number of CPUs
          MaxWidths,   \* bound of the model: its calls
          MaxRetains   \* bound of the model: calls of dispatch_retain and its weak form

Objects == Queues \cup Others

VARIABLES do_ref_cnt, do_xref_cnt, do_targetq,
          dq_width,
          items,       \* the barriers and finalizers on each queue
          releases,    \* calls of _dispatch_release that are due, for each object
          finalized,   \* how often the finalizer of each object ran
          crashed,     \* a retain or a release found an object that was disposed of
          calls        \* what is left of the bounds of the model

counts == <<do_ref_cnt, do_xref_cnt>>
vars == <<counts, do_targetq, dq_width, items, releases, finalized, crashed, calls>>

Alive(o) == IF o = Root THEN TRUE ELSE do_ref_cnt[o] >= 0

\* _os_object_alloc and _dispatch_queue_init, for every object at the start.
Init ==
    /\ do_ref_cnt = [o \in Objects |-> 0] /\ do_xref_cnt = [o \in Objects |-> 0]
    /\ do_targetq = [o \in Objects |-> Root]
    /\ dq_width = [q \in Queues |-> 1]
    /\ items = [q \in Queues |-> <<>>]
    /\ releases = [o \in Objects |-> 0]
    /\ finalized = [o \in Objects |-> 0]
    /\ crashed = FALSE
    /\ calls = [target |-> MaxTargets, width |-> MaxWidths, retain |-> MaxRetains]

\* References that the program holds: what it may pass to the library.
Held(o) == IF o = Root THEN TRUE ELSE do_xref_cnt[o] >= 0

\* _os_object_retain_internal of each member of a set.
RetainAll(S) ==
    /\ do_ref_cnt' = [o \in Objects |-> IF o \in S THEN do_ref_cnt[o] + 1 ELSE do_ref_cnt[o]]
    /\ crashed' = (crashed \/ \E o \in S : ~Alive(o))

\* What dispatch_barrier_async_f and dispatch_async_f retain: a queue that becomes busy.
Busy(q) == IF q = Root THEN {} ELSE IF items[q] = <<>> THEN {q} ELSE {}

DueTo(rel, o) == IF o = Root THEN rel ELSE [rel EXCEPT ![o] = @ + 1]

\* The queues that q targets, or will when its barriers have run.
Targets(q) ==
    {do_targetq[q]} \cup {items[q][k].arg : k \in {k \in DOMAIN items[q] : items[q][k].kind = "target"}}

Reaches(q, t) ==
    LET up[n \in 0..2] == IF n = 0 THEN {q}
          ELSE up[n - 1] \cup UNION {Targets(o) : o \in up[n - 1] \cap Queues}
    IN t \in up[2]

(***************************************************************************)
(* dispatch_set_target_queue.  Programs may not make the hierarchy cyclic. *)
(***************************************************************************)
\* Bug: the new target is not retained, and only queues have one.
SetTargetBug(o, t) ==
    /\ calls.target > 0 /\ Held(o) /\ Held(t) /\ o # t
    /\ ~Reaches(t, o)
    /\ calls' = [calls EXCEPT !.target = @ - 1]
    /\ o \in Queues
    /\ RetainAll(Busy(o))
    /\ items' = [items EXCEPT ![o] = Append(@, [kind |-> "target", arg |-> t])]
    /\ UNCHANGED <<do_targetq, releases, do_xref_cnt, dq_width, finalized>>

SetTarget(o, t) ==
    /\ calls.target > 0 /\ Held(o) /\ Held(t) /\ o # t
    /\ ~Reaches(t, o)
    /\ calls' = [calls EXCEPT !.target = @ - 1]
    /\ \/ /\ o \in Queues
          /\ RetainAll({t} \cup Busy(o))
          /\ items' = [items EXCEPT ![o] = Append(@, [kind |-> "target", arg |-> t])]
          /\ UNCHANGED <<do_targetq, releases>>
       \/ /\ o \in Others
          /\ RetainAll({t})
          /\ do_targetq' = [do_targetq EXCEPT ![o] = t]
          /\ releases' = DueTo(releases, do_targetq[o])
          /\ UNCHANGED items
    /\ UNCHANGED <<do_xref_cnt, dq_width, finalized>>

SetWidth(q, w) ==
    /\ calls.width > 0 /\ Held(q)
    /\ calls' = [calls EXCEPT !.width = @ - 1]
    /\ RetainAll(Busy(q))
    /\ items' = [items EXCEPT ![q] = Append(@, [kind |-> "width", arg |-> w])]
    /\ UNCHANGED <<do_xref_cnt, do_targetq, dq_width, releases, finalized>>

(***************************************************************************)
(* A queue runs its next item: _dispatch_set_target_queue2,                *)
(* _dispatch_queue_set_width2 or the finalizer of an object that targeted  *)
(* it.  An idle queue gives up the reference to itself.                    *)
(***************************************************************************)
\* _dispatch_queue_set_width2: the running count goes up and down by two.
Width(w) ==
    CASE w \in {0, 1} -> 1 [] w > 1 -> 2 * w [] OTHER -> 2 * CPUs[w]

RunItem(q) ==
    /\ items[q] # <<>>
    /\ LET item == Head(items[q])
           self == IF Len(items[q]) = 1 THEN DueTo(releases, q) ELSE releases
       IN /\ \/ /\ item.kind = "target"
                /\ do_targetq' = [do_targetq EXCEPT ![q] = item.arg]
                /\ releases' = DueTo(self, do_targetq[q])
                /\ UNCHANGED <<dq_width, finalized>>
             \/ /\ item.kind = "width"
                /\ dq_width' = [dq_width EXCEPT ![q] = Width(item.arg)]
                /\ releases' = self
                /\ UNCHANGED <<do_targetq, finalized>>
             \/ /\ item.kind = "finalizer"
                /\ finalized' = [finalized EXCEPT ![item.arg] = @ + 1]
                /\ releases' = self
                /\ UNCHANGED <<do_targetq, dq_width>>
    /\ items' = [items EXCEPT ![q] = Tail(@)]
    /\ UNCHANGED <<counts, crashed, calls>>

(***************************************************************************)
(* dispatch_retain, _os_object_retain_weak and dispatch_release.           *)
(***************************************************************************)
Retain(o) ==
    /\ calls.retain > 0 /\ Held(o)
    /\ calls' = [calls EXCEPT !.retain = @ - 1]
    /\ do_xref_cnt' = [do_xref_cnt EXCEPT ![o] = @ + 1]
    /\ UNCHANGED <<do_ref_cnt, do_targetq, dq_width, items, releases, finalized, crashed>>

RetainWeakFails(o) ==
    /\ calls.retain > 0 /\ do_xref_cnt[o] = -1 /\ Alive(o)
    /\ calls' = [calls EXCEPT !.retain = @ - 1]
    /\ UNCHANGED <<counts, do_targetq, dq_width, items, releases, finalized, crashed>>

Release(o) ==
    /\ Held(o)
    /\ do_xref_cnt' = [do_xref_cnt EXCEPT ![o] = @ - 1]
    /\ releases' = IF do_xref_cnt[o] = 0 THEN DueTo(releases, o) ELSE releases
    /\ UNCHANGED <<do_ref_cnt, do_targetq, dq_width, items, finalized, crashed, calls>>

(***************************************************************************)
(* _os_object_release_internal; at the last reference _dispatch_dispose    *)
(* and _dispatch_dealloc: the finalizer goes to the target queue, then the *)
(* target loses its reference.  A root queue runs it at once.              *)
(***************************************************************************)
ReleaseInternal(o) ==
    /\ releases[o] > 0
    /\ LET last == do_ref_cnt[o] = 0
           tq == do_targetq[o]
           busy == IF last THEN Busy(tq) ELSE {}
           paid == [releases EXCEPT ![o] = @ - 1]
       IN /\ do_ref_cnt' = [x \in Objects |->
               do_ref_cnt[x] + (IF x \in busy THEN 1 ELSE 0) - (IF x = o THEN 1 ELSE 0)]
          /\ crashed' = (crashed \/ do_ref_cnt[o] < 0 \/ (last /\ ~Alive(tq))
                           \/ (last /\ o \in Queues /\ items[o] # <<>>))
          /\ releases' = IF last THEN DueTo(paid, tq) ELSE paid
          /\ items' = IF last /\ tq # Root
                      THEN [items EXCEPT ![tq] = Append(@, [kind |-> "finalizer", arg |-> o])]
                      ELSE items
          /\ finalized' = IF last /\ tq = Root
                          THEN [finalized EXCEPT ![o] = @ + 1] ELSE finalized
    /\ UNCHANGED <<do_xref_cnt, do_targetq, dq_width, calls>>

Next ==
    \/ \E o \in Objects, t \in Queues \cup {Root} : SetTarget(o, t)
    \/ \E q \in Queues, w \in Widths : SetWidth(q, w)
    \/ \E q \in Queues : RunItem(q)
    \/ \E o \in Objects : Retain(o) \/ RetainWeakFails(o) \/ Release(o) \/ ReleaseInternal(o)

Spec == Init /\ [][Next]_vars

(* The target of an object that is alive is alive, so are the targets that *)
(* barriers are about to install, and nothing is retained, released or     *)
(* disposed of with items pending after its last reference.                *)
TargetsAlive ==
    /\ ~crashed
    /\ \A o \in Objects : Alive(o) => Alive(do_targetq[o])
    /\ \A q \in Queues : \A k \in DOMAIN items[q] :
         items[q][k].kind = "target" => Alive(items[q][k].arg)

(* An object that the program has released is disposed of, once every      *)
(* queue is idle, and its finalizer then ran exactly once; never before    *)
(* the last reference is gone.                                             *)
FinalizedOnce ==
    /\ \A o \in Objects : finalized[o] <= (IF Alive(o) THEN 0 ELSE 1)
    /\ ((\A q \in Queues : items[q] = <<>>) /\ (\A o \in Objects : releases[o] = 0))
       => \A o \in Objects : do_xref_cnt[o] = -1 =>
            \/ finalized[o] = 1
            \/ \E p \in Objects : do_targetq[p] = o /\ Alive(p)

(* Objects and their targets keep both.                                    *)
HierarchySound == TargetsAlive /\ FinalizedOnce
==========================================================================
