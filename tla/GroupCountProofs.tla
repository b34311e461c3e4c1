------------------------- MODULE GroupCountProofs -------------------------
(***************************************************************************)
(* The counts of a dispatch_group_t: its references, and the wakeups that  *)
(* the threads in dispatch_group_wait have coming to them.  They are proved*)
(* on top of GroupProofs, which says where a thread is and what it holds.  *)
(***************************************************************************)
EXTENDS GroupProofs, FiniteSetTheorems

\* The references: the creator's, one per block of dispatch_group_async in the
\* group, one per leave of such a block that has not released yet, and one per
\* list that has been published.
Leaving == {t \in Thread : then[t] = "release"}
Waking == {t \in Thread : pc[t] \in WakeLabel /\ head[t] # NULL}
RefCount ==
    do_ref_cnt + 1 = (IF owned THEN 1 ELSE 0) + Blocks
                     + Cardinality(Leaving) + Cardinality(Waking)
                     + (IF dsema_notify_head # NULL THEN 1 ELSE 0)
Refs == RefCount /\ (freed <=> do_ref_cnt = -1)
Covered == IsFiniteSet(Permits) /\ WaitersCovered

\* Abbreviations that every proof may look through.
USE DEF Goto, GoWake, AfterPosts, MayUse, IsEmpty, Blocks, WaitFrame, WaitDone, ReleaseRef, list, locals, object,
        ghosts, Pointer, Label, WakeLabel, WaitLabel, NotifyLabel, Inside

-----------------------------------------------------------------------------
(* Counting *)

\* Sets of threads are finite, so that their sizes can be compared ...
LEMMA ThreadSets == ASSUME NEW S \in SUBSET Thread PROVE IsFiniteSet(S) /\ Cardinality(S) \in Nat
  BY BoundAssumption, FS_Subset, FS_CardinalityType

\* ... and grow by one with a thread that joins ...
LEMMA Joins == ASSUME NEW S \in SUBSET Thread, NEW t \in Thread, t \notin S
               PROVE Cardinality(S \cup {t}) = Cardinality(S) + 1
  BY ThreadSets, FS_AddElement

\* ... and shrink by one with a thread that leaves.
LEMMA Leaves == ASSUME NEW S \in SUBSET Thread, NEW t \in S
                PROVE Cardinality(S \ {t}) = Cardinality(S) - 1 /\ Cardinality(S) > 0
  <1>1. Cardinality(S \ {t}) = Cardinality(S) - 1
    BY ThreadSets, FS_RemoveElement
  <1>2. Cardinality(S) \in Nat /\ Cardinality(S \ {t}) \in Nat
    BY ThreadSets
  <1> QED
    BY <1>1, <1>2

\* The leaves and the lists that hold a reference can be counted.
LEMMA Counted == /\ Leaving \in SUBSET Thread /\ Cardinality(Leaving) \in Nat
                 /\ Waking \in SUBSET Thread /\ Cardinality(Waking) \in Nat
  BY ThreadSets DEF Leaving, Waking

\* The sleepers and the permits too.
LEMMA CountedSleepers ==
    ASSUME Covered
    PROVE  Sleepers \in SUBSET Thread /\ Cardinality(Sleepers) \in Nat /\ ToPost \in Nat
  BY ThreadSets, FS_CardinalityType DEF Covered, Sleepers, ToPost

\* A wake that takes n waiters will post n permits more ...
LEMMA PermitsTaken ==
    ASSUME Words, IsFiniteSet(Permits), NEW t \in Thread, NEW n \in Nat,
           rval[t] = 0, rval' = [rval EXCEPT ![t] = n]
    PROVE  IsFiniteSet(Permits') /\ ToPost' = ToPost + n
  <1> DEFINE P == {t} \X (1..n)
  <1>1. Permits' = Permits \cup P /\ Permits \cap P = {}
    BY DEF Permits, Words
  <1>2. IsFiniteSet(1..n) /\ Cardinality(1..n) = n
    BY FS_Interval
  <1>3. IsFiniteSet({t}) /\ Cardinality({t}) = 1
    BY FS_Singleton, Zenon
  <1>4. IsFiniteSet(P) /\ Cardinality(P) = n
    <2>1. IsFiniteSet(P) /\ Cardinality(P) = Cardinality({t}) * Cardinality(1..n)
      BY <1>2, <1>3, FS_Product, Zenon
    <2>2. Cardinality(P) = 1 * n
      BY <1>2, <1>3, <2>1, Zenon
    <2>3. 1 * n = n
      OBVIOUS
    <2> QED
      BY <2>1, <2>2, <2>3, Zenon
  <1>5. /\ IsFiniteSet(Permits \cup P)
        /\ Cardinality(Permits \cup P) = Cardinality(Permits) + Cardinality(P) - Cardinality({})
    BY <1>1, <1>4, FS_Union
  <1>6. Cardinality({}) = 0 /\ Cardinality(Permits) \in Nat
    BY FS_EmptySet, FS_CardinalityType
  <1> QED
    BY <1>1, <1>4, <1>5, <1>6 DEF ToPost

\* ... and one less with each it posts.
LEMMA PermitPosted ==
    ASSUME Words, IsFiniteSet(Permits), NEW t \in Thread,
           rval[t] # 0, rval' = [rval EXCEPT ![t] = @ - 1]
    PROVE  IsFiniteSet(Permits') /\ ToPost' = ToPost - 1 /\ ToPost > 0
  <1> DEFINE p == <<t, rval[t]>>
  <1>1. Permits' = Permits \ {p} /\ p \in Permits
    BY DEF Permits, Words
  <1>2. IsFiniteSet(Permits \ {p}) /\ Cardinality(Permits \ {p}) = Cardinality(Permits) - 1
    BY <1>1, FS_RemoveElement
  <1>3. Cardinality(Permits) \in Nat /\ Cardinality(Permits \ {p}) \in Nat
    BY <1>2, FS_CardinalityType
  <1> QED
    BY <1>1, <1>2, <1>3 DEF ToPost

\* A step that moves no reference keeps their count.
LEMMA RefsFrame ==
    ASSUME Refs, Leaving' = Leaving, Waking' = Waking,
           UNCHANGED <<do_ref_cnt, dsema_value, entered, dsema_notify_head, owned, freed>>
    PROVE  Refs'
  BY DEF Refs, RefCount

\* A step that drops one reference, of a group that still has one.
LEMMA RefDropped ==
    ASSUME RefCount', Refs, do_ref_cnt \in Nat, do_ref_cnt' = do_ref_cnt - 1,
           freed' <=> (freed \/ do_ref_cnt = 0)
    PROVE  Refs'
  <1>1. do_ref_cnt # -1 /\ (do_ref_cnt' = -1 <=> do_ref_cnt = 0)
    OBVIOUS
  <1> QED
    BY <1>1, Zenon DEF Refs

\* A step that neither counts nor posts keeps the waiters covered ...
LEMMA CoveredFrame ==
    ASSUME Covered, Sleepers' = Sleepers, UNCHANGED <<rval, dsema_group_waiters, ksem>>
    PROVE  Covered'
  BY DEF Covered, WaitersCovered, Permits, ToPost

\* ... and so does one that takes back the count or the permit of a sleeper.
LEMMA FewerSleepers ==
    ASSUME Words, Covered, Cardinality(Sleepers') = Cardinality(Sleepers) - 1, UNCHANGED rval,
           NEW w \in Nat, NEW k \in Nat, dsema_group_waiters' = w, ksem' = k,
           dsema_group_waiters + ksem <= w + k + 1
    PROVE  Covered'
  <1>1. Permits' = Permits /\ ToPost' = ToPost
    BY DEF Permits, ToPost
  <1>2. dsema_group_waiters \in Nat /\ ksem \in Nat
    BY DEF Words
  <1> QED
    BY <1>1, <1>2, CountedSleepers DEF Covered, WaitersCovered

-----------------------------------------------------------------------------
(* The initial state and each action *)

\* A new group has the creator's reference and no waiter.
LEMMA InitCounts == Init => Refs /\ Covered
  <1> SUFFICES ASSUME Init PROVE Refs /\ Covered
    OBVIOUS
  <1> USE BoundAssumption DEF Init
  <1>1. Refs
    <2>1. Leaving = {} /\ Waking = {}
      BY DEF Leaving, Waking
    <2>2. RefCount
      BY <2>1, FS_EmptySet DEF RefCount
    <2>3. 0 # -1
      OBVIOUS
    <2> QED
      BY <2>2, <2>3, Zenon DEF Refs
  <1>2. Covered
    <2>1. Sleepers = {} /\ Permits = {}
      BY DEF Sleepers, Permits
    <2> QED
      BY <2>1, FS_EmptySet DEF Covered, WaitersCovered, ToPost
  <1> QED
    BY <1>1, <1>2

\* The creator releases its reference.
LEMMA ReleaseOwnerCounts ==
    ASSUME Words, Locals, Refs, Covered, ReleaseOwner
    PROVE  Refs' /\ Covered'
  <1>1. Refs'
    <2>1. Leaving' = Leaving /\ Waking' = Waking
      BY DEF ReleaseOwner, Leaving, Waking
    <2>2. RefCount' /\ do_ref_cnt \in Nat
      BY <2>1, Counted, BoundAssumption DEF ReleaseOwner, Words, Refs, RefCount
    <2>3. ~freed
      BY <2>2 DEF Refs
    <2>4. do_ref_cnt' = do_ref_cnt - 1 /\ (freed' <=> (freed \/ do_ref_cnt = 0))
      BY <2>3, Zenon DEF ReleaseOwner
    <2> QED
      BY <2>2, <2>4, RefDropped
  <1>2. Covered'
    BY CoveredFrame DEF ReleaseOwner, Words, Sleepers
  <1> QED
    BY <1>1, <1>2

\* A block enters the group with a reference of its own.
LEMMA AsyncCounts ==
    ASSUME Words, Locals, Refs, Covered, NEW t \in Thread, Async(t)
    PROVE  Refs' /\ Covered'
  <1>1. Refs'
    <2>1. Leaving' = Leaving /\ Waking' = Waking
      BY DEF Async, Leaving, Waking
    <2> QED
      BY <2>1, Counted, BoundAssumption, SMTT(30) DEF Async, Join, Words, Refs, RefCount
  <1>2. Covered'
    BY CoveredFrame DEF Async, Words, Sleepers
  <1> QED
    BY <1>1, <1>2

\* A member enters the group without a reference.
LEMMA EnterCounts ==
    ASSUME Words, Locals, Refs, Covered, NEW t \in Thread, Enter(t)
    PROVE  Refs' /\ Covered'
  <1>1. Refs'
    <2>1. Leaving' = Leaving /\ Waking' = Waking
      BY DEF Enter, Leaving, Waking
    <2>2. Blocks' = Blocks
      BY BoundAssumption DEF Enter, Join, Words
    <2> QED
      BY <2>1, <2>2 DEF Enter, Refs, RefCount
  <1>2. Covered'
    BY CoveredFrame DEF Enter, Words, Sleepers
  <1> QED
    BY <1>1, <1>2

\* A block leaves; the reference stays for the release that follows.
LEMMA BlockDoneCounts ==
    ASSUME Words, Locals, Refs, Covered, NEW t \in Thread, BlockDone(t)
    PROVE  Refs' /\ Covered'
  <1>1. Refs'
    <2>1. Leaving' = Leaving \cup {t} /\ t \notin Leaving /\ Waking' = Waking
      BY SMTT(30) DEF BlockDone, LeaveTo, Words, Locals, Leaving, Waking
    <2>2. Cardinality(Leaving') = Cardinality(Leaving) + 1
      BY <2>1, Counted, Joins, SMTT(30)
    <2> QED
      BY <2>1, <2>2, Counted, BoundAssumption, SMTT(30) DEF BlockDone, LeaveTo, Words, Refs, RefCount
  <1>2. Covered'
    BY CoveredFrame, SMTT(30) DEF BlockDone, LeaveTo, Words, Sleepers
  <1> QED
    BY <1>1, <1>2

\* A member without a reference leaves.
LEMMA LeaveCounts ==
    ASSUME Words, Locals, Refs, Covered, NEW t \in Thread, Leave(t)
    PROVE  Refs' /\ Covered'
  <1>1. Refs'
    <2>1. Leaving' = Leaving /\ Waking' = Waking
      BY SMTT(30) DEF Leave, LeaveTo, Words, Locals, Leaving, Waking
    <2>2. Blocks' = Blocks
      BY BoundAssumption DEF Leave, LeaveTo, Words
    <2> QED
      BY <2>1, <2>2 DEF Leave, LeaveTo, Refs, RefCount
  <1>2. Covered'
    BY CoveredFrame, SMTT(30) DEF Leave, LeaveTo, Words, Sleepers
  <1> QED
    BY <1>1, <1>2

\* The block's reference is released.
LEMMA LeaveReleaseCounts ==
    ASSUME Words, Locals, Refs, Covered, NEW t \in Thread, LeaveRelease(t)
    PROVE  Refs' /\ Covered'
  <1>1. Refs'
    <2>1. Leaving' = Leaving \ {t} /\ t \in Leaving /\ Waking' = Waking
      BY DEF LeaveRelease, Words, Locals, Leaving, Waking
    <2>2. Cardinality(Leaving') = Cardinality(Leaving) - 1 /\ Cardinality(Leaving) > 0
      BY <2>1, Counted, Leaves, SMTT(30)
    <2>3. RefCount' /\ do_ref_cnt \in Nat
      BY <2>1, <2>2, Counted, BoundAssumption, SMTT(30) DEF LeaveRelease, Words, Refs, RefCount
    <2>4. do_ref_cnt' = do_ref_cnt - 1 /\ (freed' <=> (freed \/ do_ref_cnt = 0))
      BY Zenon DEF LeaveRelease
    <2> QED
      BY <2>3, <2>4, RefDropped, SMTT(30)
  <1>2. Covered'
    BY CoveredFrame, SMTT(30) DEF LeaveRelease, Words, Sleepers
  <1> QED
    BY <1>1, <1>2

\* A wake takes the head of the open list, and the list's reference with it.
LEMMA WakeHeadCounts ==
    ASSUME Words, Locals, Refs, Covered, NEW t \in Thread, WakeHead(t)
    PROVE  Refs' /\ Covered'
  <1>1. Refs'
    <2>1. CASE dsema_notify_head = NULL
      BY <2>1, RefsFrame, SMTT(30) DEF WakeHead, Words, Locals, Leaving, Waking
    <2>2. CASE dsema_notify_head # NULL
      <3>1. Leaving' = Leaving /\ Waking' = Waking \cup {t} /\ t \notin Waking
        BY <2>2 DEF WakeHead, Words, Locals, Leaving, Waking
      <3>2. Cardinality(Waking') = Cardinality(Waking) + 1
        BY <3>1, Counted, Joins, SMTT(30)
      <3> QED
        BY <2>2, <3>1, <3>2, Counted, BoundAssumption, SMTT(30) DEF WakeHead, Words, Refs, RefCount
    <2> QED
      BY <2>1, <2>2, SMTT(30)
  <1>2. Covered'
    BY CoveredFrame, SMTT(30) DEF WakeHead, Words, Sleepers
  <1> QED
    BY <1>1, <1>2

\* A wake steps to the next block, or releases the list's reference after the last.
LEMMA WakeNextCounts ==
    ASSUME Words, Locals, Refs, Covered, NEW t \in Thread, WakeNext(t)
    PROVE  Refs' /\ Covered'
  <1>1. Refs'
    <2>1. CASE dsn_next[head[t]] # NULL
      BY <2>1, RefsFrame, SMTT(30) DEF WakeNext, Words, Locals, Leaving, Waking
    <2>2. CASE dsn_next[head[t]] = NULL
      <3>1. Leaving' = Leaving /\ Waking' = Waking \ {t} /\ t \in Waking
        BY <2>2 DEF WakeNext, Words, Locals, Leaving, Waking
      <3>2. Cardinality(Waking') = Cardinality(Waking) - 1 /\ Cardinality(Waking) > 0
        BY <3>1, Counted, Leaves, SMTT(30)
      <3>3. RefCount' /\ do_ref_cnt \in Nat
        BY <2>2, <3>1, <3>2, Counted, BoundAssumption, SMTT(30) DEF WakeNext, Words, Refs, RefCount
      <3>4. do_ref_cnt' = do_ref_cnt - 1 /\ (freed' <=> (freed \/ do_ref_cnt = 0))
        BY <2>2, ZenonT(60) DEF WakeNext
      <3> QED
        BY <3>3, <3>4, RefDropped
    <2> QED
      BY <2>1, <2>2, SMTT(30)
  <1>2. Covered'
    BY CoveredFrame DEF WakeNext, Words, Sleepers
  <1> QED
    BY <1>1, <1>2

\* A notifier publishes the list, which retains the group.
LEMMA NotifyHeadCounts ==
    ASSUME Words, Locals, Open, Seen, Refs, Covered, NEW t \in Thread, NotifyHead(t)
    PROVE  Refs' /\ Covered'
  <1>1. Refs'
    <2>1. Leaving' = Leaving /\ Waking' = Waking
      BY DEF NotifyHead, Words, Leaving, Waking
    <2>2. dsema_notify_head = NULL /\ head[t] # NULL
      BY SMTT(30) DEF NotifyHead, Locals, Open, Holders
    <2>3. freed' = freed /\ do_ref_cnt \in Nat
      BY Counted, BoundAssumption, SMTT(30) DEF NotifyHead, Words, Locals, Seen, Borrowed, Refs, RefCount
    <2> QED
      BY <2>1, <2>2, <2>3, Counted, BoundAssumption, SMTT(30) DEF NotifyHead, Words, Refs, RefCount
  <1>2. Covered'
    BY CoveredFrame, SMTT(30) DEF NotifyHead, Words, Sleepers
  <1> QED
    BY <1>1, <1>2, SMTT(30)

\* A wake takes the counted waiters.
LEMMA WakeWaitersCounts ==
    ASSUME Words, Locals, Refs, Covered, NEW t \in Thread, WakeWaiters(t)
    PROVE  Refs' /\ Covered'
  <1>1. Refs'
    BY RefsFrame, SMTT(30) DEF WakeWaiters, Words, Locals, Leaving, Waking
  <1>2. Covered'
    <2>1. Sleepers' = Sleepers
      BY DEF WakeWaiters, Words, Sleepers
    <2>2. IsFiniteSet(Permits') /\ ToPost' = ToPost + dsema_group_waiters
      BY PermitsTaken, ZenonT(60) DEF WakeWaiters, Words, Locals, Covered
    <2> QED
      BY <2>1, <2>2, CountedSleepers, SMTT(30) DEF WakeWaiters, Words, Covered, WaitersCovered
  <1> QED
    BY <1>1, <1>2

\* A wake posts one permit.
LEMMA WakePostCounts ==
    ASSUME Words, Locals, Refs, Covered, NEW t \in Thread, WakePost(t)
    PROVE  Refs' /\ Covered'
  <1>1. Refs'
    BY RefsFrame, SMTT(30) DEF WakePost, Words, Locals, Leaving, Waking
  <1>2. Covered'
    <2>1. Sleepers' = Sleepers
      BY DEF WakePost, Words, Sleepers
    <2>2. IsFiniteSet(Permits') /\ ToPost' = ToPost - 1
      BY PermitPosted, ZenonT(60) DEF WakePost, Words, Locals, Covered
    <2> QED
      BY <2>1, <2>2, CountedSleepers, SMTT(30) DEF WakePost, Words, Covered, WaitersCovered
  <1> QED
    BY <1>1, <1>2

\* A waiter counts itself before it may sleep.
LEMMA WaitIncCounts ==
    ASSUME Words, Locals, Refs, Covered, NEW t \in Thread, WaitInc(t)
    PROVE  Refs' /\ Covered'
  <1>1. Refs'
    BY RefsFrame, SMTT(30) DEF WaitInc, Words, Locals, Leaving, Waking
  <1>2. Covered'
    <2>1. Sleepers' = Sleepers \cup {t} /\ t \notin Sleepers /\ Permits' = Permits /\ ToPost' = ToPost
      BY DEF WaitInc, Words, Sleepers, Permits, ToPost
    <2>2. Cardinality(Sleepers') = Cardinality(Sleepers) + 1
      BY <2>1, CountedSleepers, Joins, SMTT(30)
    <2> QED
      BY <2>1, <2>2, CountedSleepers, SMTT(30) DEF WaitInc, Words, Covered, WaitersCovered
  <1> QED
    BY <1>1, <1>2

\* A waiter that sees the group empty leaves its count behind.
LEMMA WaitRecheckCounts ==
    ASSUME Words, Locals, Refs, Covered, NEW t \in Thread, WaitRecheck(t)
    PROVE  Refs' /\ Covered'
  <1>1. Refs'
    BY RefsFrame DEF WaitRecheck, Words, Locals, Leaving, Waking
  <1>2. Covered'
    <2>1. CASE ~IsEmpty
      BY <2>1, CoveredFrame, SMTT(30) DEF WaitRecheck, Words, Sleepers
    <2>2. CASE IsEmpty
      <3>1. Sleepers' = Sleepers \ {t} /\ t \in Sleepers
        BY <2>2 DEF WaitRecheck, Words, Sleepers
      <3>2. Cardinality(Sleepers') = Cardinality(Sleepers) - 1
        BY <3>1, CountedSleepers, Leaves, SMTT(30)
      <3> QED
        BY <3>2, FewerSleepers, SMTT(30) DEF WaitRecheck, Words
    <2> QED
      BY <2>1, <2>2, SMTT(30)
  <1> QED
    BY <1>1, <1>2

\* A waiter takes a permit.
LEMMA WaitTakeCounts ==
    ASSUME Words, Locals, Refs, Covered, NEW t \in Thread, WaitTake(t)
    PROVE  Refs' /\ Covered'
  <1>1. Refs'
    BY RefsFrame, SMTT(30) DEF WaitTake, Words, Locals, Leaving, Waking
  <1>2. Covered'
    <2>1. Sleepers' = Sleepers \ {t} /\ t \in Sleepers
      BY SMTT(30) DEF WaitTake, Words, Sleepers
    <2>2. Cardinality(Sleepers') = Cardinality(Sleepers) - 1
      BY <2>1, CountedSleepers, Leaves
    <2> QED
      BY <2>2, FewerSleepers, SMTT(30) DEF WaitTake, Words
  <1> QED
    BY <1>1, <1>2

\* A waiter that timed out takes its count back, unless a wake has it.
LEMMA WaitUndoCounts ==
    ASSUME Words, Locals, Refs, Covered, NEW t \in Thread, WaitUndo(t)
    PROVE  Refs' /\ Covered'
  <1>1. Refs'
    BY RefsFrame DEF WaitUndo, Words, Locals, Leaving, Waking
  <1>2. Covered'
    <2>1. CASE ~(dsema_group_waiters > 0)
      BY <2>1, CoveredFrame, SMTT(30) DEF WaitUndo, Words, Sleepers
    <2>2. CASE dsema_group_waiters > 0
      <3>1. Sleepers' = Sleepers \ {t} /\ t \in Sleepers
        BY <2>2, SMTT(30) DEF WaitUndo, Words, Sleepers
      <3>2. Cardinality(Sleepers') = Cardinality(Sleepers) - 1
        BY <3>1, CountedSleepers, Leaves
      <3> QED
        BY <2>2, <3>2, FewerSleepers, SMTT(30) DEF WaitUndo, Words
    <2> QED
      BY <2>1, <2>2, SMTT(30)
  <1> QED
    BY <1>1, <1>2

\* The steps that move neither a reference nor a waiter's count.
Uncounted(t) ==
    \/ LeaveUnbalanced(t) \/ WakeTail(t) \/ WakeSubmit(t) \/ NotifyLink(t) \/ NotifyCheck(t)
    \/ (\E b \in Block : Notify(t, b)) \/ (\E w \in BOOLEAN : Wait(t, w)) \/ WaitAgain(t) \/ WaitExpires(t)

\* They leave what is counted as it is ...
SameCounts ==
    /\ UNCHANGED <<do_ref_cnt, dsema_value, entered, dsema_notify_head, owned, freed, rval, dsema_group_waiters, ksem>>
    /\ Sleepers' = Sleepers /\ Leaving' = Leaving /\ Waking' = Waking

\* ... whatever the step ...
LEMMA UncountedSame ==
    ASSUME Words, Locals, NEW t \in Thread, Uncounted(t)
    PROVE  SameCounts
  <1>1. CASE LeaveUnbalanced(t)
    BY <1>1, SMTT(30) DEF LeaveUnbalanced, Words, Locals, SameCounts, Sleepers, Leaving, Waking
  <1>2. CASE WakeTail(t)
    BY <1>2, SMTT(30) DEF WakeTail, Words, Locals, SameCounts, Sleepers, Leaving, Waking
  <1>3. CASE WakeSubmit(t)
    BY <1>3, SMTT(30) DEF WakeSubmit, Words, Locals, SameCounts, Sleepers, Leaving, Waking
  <1>4. CASE NotifyLink(t)
    BY <1>4, SMTT(30) DEF NotifyLink, Words, Locals, SameCounts, Sleepers, Leaving, Waking
  <1>5. CASE NotifyCheck(t)
    BY <1>5, SMTT(30) DEF NotifyCheck, Words, Locals, SameCounts, Sleepers, Leaving, Waking
  <1>6. CASE \E b \in Block : Notify(t, b)
    BY <1>6, SMTT(30) DEF Notify, Words, Locals, SameCounts, Sleepers, Leaving, Waking
  <1>7. CASE \E w \in BOOLEAN : Wait(t, w)
    BY <1>7, SMTT(30) DEF Wait, Words, Locals, SameCounts, Sleepers, Leaving, Waking
  <1>8. CASE WaitAgain(t)
    BY <1>8, SMTT(30) DEF WaitAgain, Words, Locals, SameCounts, Sleepers, Leaving, Waking
  <1>9. CASE WaitExpires(t)
    BY <1>9, SMTT(30) DEF WaitExpires, Words, Locals, SameCounts, Sleepers, Leaving, Waking
  <1> QED
    BY <1>1, <1>2, <1>3, <1>4, <1>5, <1>6, <1>7, <1>8, <1>9 DEF Uncounted

\* ... and so keep the counts.
LEMMA UncountedCounts ==
    ASSUME Words, Locals, Refs, Covered, NEW t \in Thread, Uncounted(t)
    PROVE  Refs' /\ Covered'
  BY UncountedSame, RefsFrame, CoveredFrame, Zenon DEF SameCounts

\* Every step of every thread keeps the counts.
LEMMA NextCounts == IInv /\ Refs /\ Covered /\ [Next]_vars => Refs' /\ Covered'
  <1> SUFFICES ASSUME IInv, Refs, Covered, [Next]_vars PROVE Refs' /\ Covered'
    OBVIOUS
  <1>0. Words /\ Locals /\ Open /\ Seen
    BY DEF IInv
  <1>1. CASE UNCHANGED vars
    BY <1>1, RefsFrame, CoveredFrame, ZenonT(60) DEF vars, Leaving, Waking, Sleepers
  <1>2. ASSUME NEW t \in Thread, Call(t) PROVE Refs' /\ Covered'
    BY <1>0, <1>2, AsyncCounts, BlockDoneCounts, EnterCounts, LeaveCounts, UncountedCounts, SMTT(30) DEF Call, Uncounted
  <1>3. ASSUME NEW t \in Thread, Step(t) PROVE Refs' /\ Covered'
    BY <1>0, <1>3, LeaveReleaseCounts, WakeHeadCounts, WakeNextCounts, NotifyHeadCounts, WakeWaitersCounts,
       WakePostCounts, WaitIncCounts, WaitRecheckCounts, WaitTakeCounts, WaitUndoCounts, UncountedCounts, SMTT(30)
       DEF Step, Uncounted
  <1> QED
    BY <1>0, <1>1, <1>2, <1>3, ReleaseOwnerCounts, SMTT(30) DEF Next

\* The counts are right in every reachable state.
THEOREM Counts == Spec => [](IInv /\ Refs /\ Covered)
  <1>1. Spec => []IInv
    BY Invariant
  <1> QED
    BY <1>1, InitCounts, NextCounts, PTL DEF Spec

-----------------------------------------------------------------------------
(* What they say of dispatch_group *)

\* No thread of dispatch_group_wait ever sleeps uncounted: dsema_group_waiters,
\* the futex and the wakes in progress hold a wakeup for each.
THEOREM Coverage == Spec => []WaitersCovered
  <1>1. Covered => WaitersCovered
    BY DEF Covered
  <1> QED
    BY <1>1, Counts, PTL

\* A group that is empty while all its other callers are done has a permit
\* for every thread blocked in dispatch_group_wait.
THEOREM NobodyStranded == Spec => []NoWaiterStranded
  <1>1. IInv /\ Covered => NoWaiterStranded
    <2> DEFINE asleep == Inside({"sem_wait", "timedwait"})
    <2> SUFFICES ASSUME IInv, Covered, IsEmpty, \A t \in Thread \ asleep : pc[t] = "idle"
                 PROVE  Cardinality(asleep) <= ksem
      BY DEF NoWaiterStranded
    <2>1. dsema_group_waiters = 0
      BY SMTT(30) DEF IInv, Seen, WaitersSeen
    <2>2. \A t \in Thread : rval[t] = 0
      BY SMTT(30) DEF IInv, Locals, Inside
    <2>3. Permits = {}
      BY <2>2 DEF Permits
    <2>4. ToPost = 0
      BY <2>3, FS_EmptySet DEF ToPost
    <2>5. Sleepers = asleep
      BY DEF Sleepers, Inside
    <2>6. Cardinality(asleep) <= 0 + ksem + 0
      BY <2>1, <2>4, <2>5, SMTT(30) DEF Covered, WaitersCovered
    <2>7. ksem \in Nat
      BY DEF IInv, Words
    <2> QED
      BY <2>6, <2>7
  <1> QED
    BY <1>1, Counts, PTL

\* A freed group has no caller, no block of dispatch_group_async and no list.
LEMMA FreedIdle ==
    ASSUME IInv, Refs, freed
    PROVE  /\ ~owned /\ Blocks = 0 /\ dsema_notify_tail = NULL
           /\ \A t \in Thread : pc[t] = "idle"
  <1> USE DEF IInv
  <1>1. do_ref_cnt = -1
    BY SMTT(30) DEF Refs
  <1>2. ~owned /\ Blocks = 0 /\ dsema_notify_head = NULL /\ Cardinality(Leaving) = 0
    BY <1>1, Counted, BoundAssumption, SMTT(30) DEF Refs, RefCount, Words
  <1>3. \A t \in Thread : then[t] = "idle"
    BY <1>2, Counted, ThreadSets, FS_EmptySet, SMTT(30) DEF Leaving, Words
  <1>4. \A t \in Thread : pc[t] = "idle"
    BY <1>2, <1>3, SMTT(30) DEF Seen, Borrowed, Words, Locals
  <1> QED
    BY <1>2, <1>4 DEF Open, Holders

\* A group freed with a member in it has stopped the process.
Disposed == freed /\ ~crashed => IsEmpty

\* Every step keeps it so: nobody enters a freed group, and the last release looks.
LEMMA NextDisposed == IInv /\ Refs /\ Disposed /\ [Next]_vars => Disposed'
  <1> SUFFICES ASSUME IInv, Refs, Disposed, [Next]_vars PROVE Disposed'
    OBVIOUS
  <1>1. CASE UNCHANGED vars
    BY <1>1, Zenon DEF vars, Disposed
  <1>2. CASE freed /\ Next
    <2>1. ~owned /\ ~(Blocks > 0) /\ \A t \in Thread : pc[t] = "idle"
      BY <1>2, FreedIdle, SMTT(30)
    <2>2. ASSUME NEW t \in Thread, Call(t) PROVE FALSE
      BY <2>1, <2>2, ZenonT(60) DEF Call, Async, BlockDone, Enter, Join, Leave, LeaveUnbalanced, Wait, Notify
    <2>3. ASSUME NEW t \in Thread, Step(t) PROVE FALSE
      <3>1. pc[t] = "idle"
        BY <2>1
      <3>2. CASE LeaveRelease(t) \/ NotifyLink(t) \/ NotifyHead(t) \/ NotifyCheck(t)
        BY <3>1, <3>2 DEF LeaveRelease, NotifyLink, NotifyHead, NotifyCheck
      <3>3. CASE WakeHead(t) \/ WakeTail(t) \/ WakeWaiters(t) \/ WakePost(t) \/ WakeSubmit(t) \/ WakeNext(t)
        BY <3>1, <3>3 DEF WakeHead, WakeTail, WakeWaiters, WakePost, WakeSubmit, WakeNext
      <3>4. CASE WaitAgain(t) \/ WaitInc(t) \/ WaitRecheck(t) \/ WaitTake(t) \/ WaitExpires(t) \/ WaitUndo(t)
        BY <3>1, <3>4 DEF WaitAgain, WaitInc, WaitRecheck, WaitTake, WaitExpires, WaitUndo
      <3> QED
        BY <2>3, <3>2, <3>3, <3>4, Zenon DEF Step
    <2> QED
      BY <1>2, <2>1, <2>2, <2>3, Zenon DEF Next, ReleaseOwner
  <1>3. CASE ~freed /\ Next
    <2> SUFFICES ASSUME freed', ~crashed' PROVE IsEmpty'
      BY DEF Disposed
    <2>0. dsema_value \in 0..ORIG /\ ORIG \in Nat
      BY BoundAssumption DEF IInv, Words
    <2>1. dsema_value' = dsema_value /\ ~(dsema_value < ORIG)
      <3>1. CASE ReleaseOwner
        BY <3>1, Zenon DEF ReleaseOwner
      <3>2. ASSUME NEW t \in Thread, Call(t) PROVE FALSE
        BY <1>3, <3>2, Zenon DEF Call, Async, BlockDone, Enter, Leave, LeaveTo, LeaveUnbalanced, Wait, Notify
      <3>3. ASSUME NEW t \in Thread, Step(t) PROVE dsema_value' = dsema_value /\ ~(dsema_value < ORIG)
        <4>1. CASE LeaveRelease(t)
          BY <1>3, <4>1, Zenon DEF LeaveRelease
        <4>2. CASE WakeNext(t)
          BY <1>3, <4>2, ZenonT(60) DEF WakeNext
        <4>3. CASE ~LeaveRelease(t) /\ ~WakeNext(t)
          BY <1>3, <3>3, <4>3, Zenon DEF Step, WakeHead, WakeTail, WakeWaiters, WakePost, WakeSubmit,
             WaitAgain, WaitInc, WaitRecheck, WaitTake, WaitExpires, WaitUndo, NotifyLink, NotifyHead, NotifyCheck
        <4> QED
          BY <4>1, <4>2, <4>3, Zenon
      <3> QED
        BY <1>3, <3>1, <3>2, <3>3, Zenon DEF Next
    <2> QED
      BY <2>0, <2>1
  <1> QED
    BY <1>1, <1>2, <1>3, Zenon

\* The group is not freed while a caller, a block of dispatch_group_async or a
\* list still needs it, it is freed when they are gone, and if a member of
\* dispatch_group_enter is in it then, the process stops.
THEOREM RefsKept == Spec => []RefsBalanced
  <1>1. Init => Disposed
    BY Zenon DEF Init, Disposed
  <1>2. IInv /\ Refs /\ Disposed => RefsBalanced
    <2> SUFFICES ASSUME IInv, Refs, Disposed PROVE RefsBalanced
      OBVIOUS
    <2> USE DEF IInv
    <2>1. ASSUME freed PROVE Quiet /\ Blocks = 0 /\ dsema_notify_tail = NULL
      BY <2>1, FreedIdle, SMTT(30) DEF Quiet
    <2>2. freed => IsEmpty \/ crashed
      BY Zenon DEF Disposed
    <2>3. ASSUME Quiet, ~owned, Blocks = 0, dsema_notify_head = NULL PROVE freed
      <3>1. \A t \in Thread : pc[t] = "idle" /\ then[t] = "idle"
        BY <2>3, SMTT(30) DEF Quiet, Words, Locals
      <3>2. Leaving = {} /\ Waking = {}
        <4> HIDE DEF IInv
        <4>1. Leaving = {}
          BY <3>1 DEF Leaving
        <4>2. Waking = {}
          BY <3>1 DEF Waking
        <4> QED
          BY <4>1, <4>2
      <3>3. do_ref_cnt + 1 = 0 /\ do_ref_cnt \in Int
        BY <2>3, <3>2, FS_EmptySet, SMTT(30) DEF Refs, RefCount, Words
      <3>4. do_ref_cnt = -1
        BY <3>3
      <3> QED
        BY <3>4, ZenonT(60) DEF Refs
    <2>4. dsema_notify_tail = NULL => dsema_notify_head = NULL
      BY SMTT(30) DEF Open
    <2>5. ASSUME Quiet, IsEmpty PROVE dsema_notify_head = NULL /\ Blocks = 0
      <3>1. Blocks = 0
        <4>1. dsema_value = ORIG
          BY <2>5
        <4>2. ORIG \in Int /\ dsema_value \in Int /\ entered \in Int
          BY BoundAssumption DEF Words
        <4>3. 0 <= entered /\ entered <= ORIG - dsema_value
          BY BoundAssumption DEF Words
        <4> HIDE DEF IInv
        <4> QED
          BY <4>1, <4>2, <4>3
      <3>2. \A t \in Thread : pc[t] = "idle"
        BY <2>5, SMTT(30) DEF Quiet, Words
      <3> QED
        BY <2>5, <3>1, <3>2, SMTT(30) DEF Seen, ListSeen
    <2> QED
      BY <2>1, <2>2, <2>3, <2>4, <2>5, Zenon DEF RefsBalanced
  <1> QED
    BY <1>1, <1>2, NextDisposed, Counts, PTL DEF Spec

\* The process is stopped by a leave without an enter, or by
\* _dispatch_semaphore_dispose when the last reference goes while a member of
\* dispatch_group_enter is in the group.  The blocks of dispatch_group_async,
\* which leave before they release, never bring the dispose into that check.
StopsOnMisuse ==
    [][crashed' /\ ~crashed =>
         \/ IsEmpty /\ owned /\ UNCHANGED <<do_ref_cnt, freed>>
         \/ Blocks = 0 /\ entered > 0 /\ do_ref_cnt = 0 /\ freed']_vars

\* "Semaphore/group object deallocated while in use" needs a caller of
\* dispatch_group_enter who gave up its reference, and is not met otherwise.
THEOREM DisposedInUse == Spec => StopsOnMisuse
  <1> DEFINE Misuse == \/ IsEmpty /\ owned /\ UNCHANGED <<do_ref_cnt, freed>>
                       \/ Blocks = 0 /\ entered > 0 /\ do_ref_cnt = 0 /\ freed'
             A == crashed' /\ ~crashed => Misuse
  <1>1. IInv /\ Refs /\ [Next]_vars => [A]_vars
    <2> SUFFICES ASSUME IInv, Refs, Next, crashed', ~crashed PROVE Misuse
      OBVIOUS
    <2>0. /\ Leaving \in SUBSET Thread /\ Waking \in SUBSET Thread
          /\ Cardinality(Leaving) \in Nat /\ Cardinality(Waking) \in Nat
          /\ dsema_value \in 0..ORIG /\ ORIG \in Nat /\ do_ref_cnt \in Int /\ entered \in 0..(ORIG - dsema_value)
      BY Counted, BoundAssumption DEF IInv, Words
    <2>1. ASSUME do_ref_cnt = 0, dsema_value < ORIG, owned \/ Cardinality(Leaving) > 0 \/ Cardinality(Waking) > 0
          PROVE  Blocks = 0 /\ entered > 0
      BY <2>0, <2>1, SMTT(30) DEF Refs, RefCount
    <2>2. CASE ReleaseOwner
      <3>1. owned /\ do_ref_cnt = 0 /\ dsema_value < ORIG /\ freed'
        BY <2>2, Zenon DEF ReleaseOwner
      <3> QED
        BY <2>1, <3>1, Zenon
    <2>3. ASSUME NEW t \in Thread, LeaveRelease(t) PROVE Misuse
      <3>1. t \in Leaving
        BY <2>3 DEF IInv, Locals, LeaveRelease, Leaving
      <3>2. Cardinality(Leaving) > 0
        BY <2>0, <3>1, Leaves, Zenon
      <3>3. do_ref_cnt = 0 /\ dsema_value < ORIG /\ freed'
        BY <2>3, Zenon DEF LeaveRelease
      <3> QED
        BY <2>1, <3>2, <3>3, Zenon
    <2>4. ASSUME NEW t \in Thread, WakeNext(t) PROVE Misuse
      <3>1. t \in Waking
        BY <2>4 DEF IInv, Locals, WakeNext, Waking
      <3>2. Cardinality(Waking) > 0
        BY <2>0, <3>1, Leaves, Zenon
      <3>3. do_ref_cnt = 0 /\ dsema_value < ORIG /\ freed'
        BY <2>4, ZenonT(60) DEF WakeNext
      <3> QED
        BY <2>1, <3>2, <3>3, Zenon
    <2>5. ASSUME NEW t \in Thread, LeaveUnbalanced(t) PROVE Misuse
      BY <2>5, Zenon DEF LeaveUnbalanced
    <2>6. ASSUME NEW t \in Thread, Call(t), ~LeaveUnbalanced(t) PROVE FALSE
      BY <2>6, Zenon DEF Call, Async, BlockDone, Enter, Leave, LeaveTo, Wait, Notify
    <2>7. ASSUME NEW t \in Thread, Step(t), ~LeaveRelease(t), ~WakeNext(t) PROVE FALSE
      BY <2>7, Zenon DEF Step, WakeHead, WakeTail, WakeWaiters, WakePost, WakeSubmit,
         WaitAgain, WaitInc, WaitRecheck, WaitTake, WaitExpires, WaitUndo, NotifyLink, NotifyHead, NotifyCheck
    <2> QED
      BY <2>2, <2>3, <2>4, <2>5, <2>6, <2>7, Zenon DEF Next
  <1> QED
    BY <1>1, Counts, PTL DEF Spec, StopsOnMisuse
==========================================================================
