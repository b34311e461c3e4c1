----------------------------- MODULE Specific -----------------------------
(***************************************************************************)
(* dispatch_queue_set_specific and dispatch_queue_get_specific.  The       *)
(* contexts of a queue are kept by a queue of their own, dq_specific_q,    *)
(* which the first set installs with a compare-and-swap                    *)
(* (_dispatch_queue_init_specific) and whose barriers change them          *)
(* (_dispatch_queue_set_specific); the last release of the queue releases  *)
(* it (_dispatch_queue_dispose).                                           *)
(*                                                                         *)
(* Module Queue is assumed of dq_specific_q: barriers run one at a time in *)
(* order, and a sync waits for the barriers in front of it.                *)
(***************************************************************************)
EXTENDS Naturals, Sequences, SequencesExt

CONSTANTS Setters,        \* threads that call set_specific once
          Getters,        \* threads that call get_specific once
          Key,            \* the key of each call
          Clears,         \* the setters that pass a NULL context
          NULL

Ctxt(s) == IF s \in Clears THEN NULL ELSE s    \* the context of a call is named after it

VARIABLES dq_specific_q,  \* the setter whose allocation was installed, or NULL
          contexts,       \* dqsq_contexts of the queue each setter allocated
          items,          \* what is on the list of each of these queues
          freed,          \* the ones disposed of
          pc,             \* each thread's step
          result,         \* what each getter returned
          destroyed,      \* the calls of destructors, in order
          log             \* the calls of set_specific, as their barriers were submitted

vars == <<dq_specific_q, contexts, items, freed, pc, result, destroyed, log>>

Threads == Setters \cup Getters

Init ==
    /\ dq_specific_q = NULL
    /\ contexts = [s \in Setters |-> <<>>] /\ items = [s \in Setters |-> <<>>]
    /\ freed = {} /\ destroyed = <<>> /\ log = <<>>
    /\ pc = [t \in Threads \cup {"owner"} |-> "start"]
    /\ result = [g \in Getters |-> NULL]

Goto(t, label) == pc' = [pc EXCEPT ![t] = label]

SetCheck(s) ==
    /\ pc[s] = "start"
    /\ Goto(s, IF dq_specific_q = NULL THEN "install" ELSE "submit")
    /\ UNCHANGED <<dq_specific_q, contexts, items, freed, result, destroyed, log>>

\* Bug: the queue is stored without a comparison with NULL.
InitSpecificBug(s) ==
    /\ pc[s] = "install"
    /\ dq_specific_q' = s
    /\ Goto(s, "submit")
    /\ UNCHANGED <<freed, contexts, items, result, destroyed, log>>

\* _dispatch_queue_init_specific: the loser of the race releases its own queue.
InitSpecific(s) ==
    /\ pc[s] = "install"
    /\ IF dq_specific_q = NULL
       THEN dq_specific_q' = s /\ UNCHANGED freed
       ELSE freed' = freed \cup {s} /\ UNCHANGED dq_specific_q
    /\ Goto(s, "submit")
    /\ UNCHANGED <<contexts, items, result, destroyed, log>>

SetSubmit(s) ==
    /\ pc[s] = "submit"
    /\ items' = [items EXCEPT ![dq_specific_q] = Append(@, s)]
    /\ log' = Append(log, s)
    /\ Goto(s, "done")
    /\ UNCHANGED <<dq_specific_q, contexts, freed, result, destroyed>>

GetCheck(g) ==
    /\ pc[g] = "start"
    /\ IF dq_specific_q = NULL
       THEN Goto(g, "done") /\ UNCHANGED items
       ELSE Goto(g, "wait") /\ items' = [items EXCEPT ![dq_specific_q] = Append(@, g)]
    /\ UNCHANGED <<dq_specific_q, contexts, freed, result, destroyed, log>>

HasKey(d, k) == \E i \in DOMAIN contexts[d] : contexts[d][i].key = k
Position(d, k) == CHOOSE i \in DOMAIN contexts[d] : contexts[d][i].key = k

\* _dispatch_queue_set_specific; every call passes a destructor.
RunSet(d) ==
    /\ items[d] # <<>> /\ Head(items[d]) \in Setters
    /\ LET s == Head(items[d])
           i == Position(d, Key[s])
           new == [key |-> Key[s], ctxt |-> Ctxt(s)]
       IN IF HasKey(d, Key[s])
          THEN /\ destroyed' = Append(destroyed, contexts[d][i].ctxt)
               /\ contexts' = [contexts EXCEPT ![d] =
                    IF s \in Clears THEN RemoveAt(@, i) ELSE [@ EXCEPT ![i] = new]]
          ELSE /\ contexts' = [contexts EXCEPT ![d] = Append(@, new)]
               /\ UNCHANGED destroyed
    /\ items' = [items EXCEPT ![d] = Tail(@)]
    /\ UNCHANGED <<dq_specific_q, freed, pc, result, log>>

\* _dispatch_queue_get_specific
RunGet(d) ==
    /\ items[d] # <<>> /\ Head(items[d]) \in Getters
    /\ LET g == Head(items[d])
       IN /\ result' = [result EXCEPT ![g] =
               IF HasKey(d, Key[g]) THEN contexts[d][Position(d, Key[g])].ctxt ELSE NULL]
          /\ Goto(g, "done")
    /\ items' = [items EXCEPT ![d] = Tail(@)]
    /\ UNCHANGED <<dq_specific_q, contexts, freed, destroyed, log>>

\* The last release of the queue: _dispatch_queue_dispose releases dq_specific_q.
Dispose ==
    /\ pc["owner"] = "start"
    /\ \A t \in Threads : pc[t] = "done"
    /\ Goto("owner", "done")
    /\ UNCHANGED <<dq_specific_q, contexts, items, freed, result, destroyed, log>>

\* _dispatch_queue_specific_queue_dispose, when its own items have run.
SpecificDispose(d) ==
    /\ pc["owner"] = "done" /\ d = dq_specific_q
    /\ items[d] = <<>> /\ d \notin freed
    /\ freed' = freed \cup {d}
    /\ destroyed' = destroyed \o [i \in DOMAIN contexts[d] |-> contexts[d][i].ctxt]
    /\ contexts' = [contexts EXCEPT ![d] = <<>>]
    /\ UNCHANGED <<dq_specific_q, items, pc, result, log>>

Next ==
    \/ \E s \in Setters : SetCheck(s) \/ InitSpecific(s) \/ SetSubmit(s)
    \/ \E g \in Getters : GetCheck(g)
    \/ \E d \in Setters : RunSet(d) \/ RunGet(d) \/ SpecificDispose(d)
    \/ Dispose

Spec == Init /\ [][Next]_vars

(* Every context set is handed to its destructor exactly once: when it is  *)
(* replaced or when the queue is gone, and never while a get could still   *)
(* find it.                                                                *)
ContextsDestroyedOnce ==
    /\ \A i, j \in DOMAIN destroyed :
         destroyed[i] = destroyed[j] /\ destroyed[i] # NULL => i = j
    /\ \A d \in Setters : \A i \in DOMAIN contexts[d] :
         contexts[d][i].ctxt # NULL => contexts[d][i].ctxt \notin Range(destroyed)
    /\ (freed # {} /\ dq_specific_q \in freed) =>
         \A s \in Setters : Ctxt(s) = NULL \/ s \in Range(destroyed)

(* The contexts in effect are those of the last calls in the order of the  *)
(* submissions, for every key, whichever of the racing first calls         *)
(* installed its queue: no call is lost.                                   *)
LastSetWins ==
    (dq_specific_q # NULL /\ pc["owner"] = "start") =>
      \A k \in {Key[s] : s \in Setters} :
        LET ran == SubSeq(log, 1, Len(log) - Len(SelectSeq(items[dq_specific_q],
                                                           LAMBDA t : t \in Setters)))
            mine == SelectSeq(ran, LAMBDA s : Key[s] = k)
            value == IF HasKey(dq_specific_q, k)
                     THEN contexts[dq_specific_q][Position(dq_specific_q, k)].ctxt ELSE NULL
        IN value = IF mine = <<>> THEN NULL ELSE Ctxt(Last(mine))

(* The queue-specific contexts keep both.                                  *)
SpecificSound == ContextsDestroyedOnce /\ LastSetWins
==========================================================================
