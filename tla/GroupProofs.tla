--------------------------- MODULE GroupProofs ---------------------------
(***************************************************************************)
(* Proofs about Group for every set of threads and blocks, every LONG_MAX  *)
(* and every number of waits.  The invariant says what a thread's locals   *)
(* hold where it is, who is bound to look at the waiters and at the list   *)
(* of blocks once the group is empty, and, through NotifyList, how the     *)
(* lists of blocks are laid out.  GroupCountProofs adds the counts.        *)
(***************************************************************************)
EXTENDS Group, TLAPS

Pointer == Block \cup {NULL}

Words ==
    /\ dsema_value \in 0..ORIG /\ entered \in 0..(ORIG - dsema_value)
    /\ dsema_group_waiters \in Nat /\ ksem \in Nat
    /\ dsema_notify_head \in Pointer /\ dsema_notify_tail \in Pointer
    /\ dsn_next \in [Block -> Pointer]
    /\ pc \in [Thread -> Label]
    /\ then \in [Thread -> {"idle", "release"}]
    /\ head \in [Thread -> Pointer] /\ tail \in [Thread -> Pointer]
    /\ rval \in [Thread -> Nat]
    /\ do_ref_cnt \in Int
    /\ notified \in SUBSET Block
    /\ submits \in [Block -> Nat]

Flags == owned \in BOOLEAN /\ freed \in BOOLEAN

\* What the locals of a thread hold where it is.
Locals ==
    \A t \in Thread :
        /\ pc[t] \in {"wake_tail", "wake_submit", "wake_next", "notify_link", "notify_head"} => head[t] # NULL
        /\ pc[t] \in {"wake_submit", "wake_next", "notify_link"} => tail[t] # NULL
        /\ pc[t] \in {"wake_waiters", "wake_post"} /\ head[t] # NULL => tail[t] # NULL
        /\ pc[t] \in {"idle", "release", "wake_head", "notify_check"} \cup WaitLabel => head[t] = NULL
        /\ pc[t] = "wake_post" <=> rval[t] # 0
        /\ pc[t] = "release" => then[t] = "release"
        /\ pc[t] \in {"idle"} \cup WaitLabel \cup NotifyLabel => then[t] = "idle"

\* Calls that rely on the creator's reference end before it is released.
Borrowed ==
    \A t \in Thread :
        pc[t] \in WaitLabel \cup NotifyLabel \cup WakeLabel /\ then[t] = "idle" => owned

-----------------------------------------------------------------------------
(* Who is bound to look at what *)

\* In an empty group nobody owes an empty state any more.
Emptied == IsEmpty => owing = {}

\* Somebody will still take the waiters of an empty group ...
WaitersSeen ==
    IsEmpty /\ dsema_group_waiters # 0
    => \E t \in Thread : pc[t] \in {"wake_head", "wake_tail", "wake_waiters", "recheck"}

\* ... and somebody its list of blocks.
ListSeen ==
    IsEmpty /\ dsema_notify_head # NULL
    => \E t \in Thread : pc[t] \in {"wake_head", "notify_check"}

\* The open list, to which dsema_notify_tail belongs, has one holder: the
\* notifier that will publish it, dsema_notify_head, or the wake that has
\* taken dsema_notify_head and not yet the tail.
Holders == Inside({"notify_head", "wake_tail"})
Open ==
    /\ \A t, u \in Holders : t = u
    /\ \A t \in Holders : dsema_notify_head = NULL
    /\ dsema_notify_tail # NULL <=> (Holders # {} \/ dsema_notify_head # NULL)

-----------------------------------------------------------------------------
(* The lists *)

\* Blocks on some list: not submitted, or submitted by a wake that has not
\* moved on yet.
Live == {b \in notified : submits[b] = 0} \cup {head[t] : t \in Inside({"wake_next"})}

\* Wakes with a list of their own, from their head to their tail.
Closed == {t \in Thread : /\ pc[t] \in {"wake_waiters", "wake_post", "wake_submit", "wake_next"}
                          /\ head[t] # NULL}

Linkers == Inside({"notify_link"})
First == {b \in Block : b = dsema_notify_head \/ \E t \in Holders : b = head[t]}

L == INSTANCE NotifyList WITH live <- Live, first <- First, last <- dsema_notify_tail,
                              next <- dsn_next, closed <- Closed, linkers <- Linkers

\* A block is submitted at most once, and none that was not given.
Submitted ==
    /\ \A b \in Block : submits[b] <= 1 /\ (submits[b] # 0 => b \in notified)
    /\ \A t \in Thread : pc[t] = "wake_next" => submits[head[t]] = 1

Seen == Flags /\ Borrowed /\ Emptied /\ WaitersSeen /\ ListSeen
IInv == Words /\ Locals /\ Open /\ Seen /\ Submitted /\ L!Lists

\* What every step is shown to do.
Kept == (Words /\ Locals /\ Open)' /\ Seen' /\ Submitted' /\ L!Next

\* Abbreviations that every proof may look through.
USE DEF Goto, GoWake, AfterPosts, MayUse, IsEmpty, Blocks, WaitFrame, WaitDone, ReleaseRef, list, locals, object, ghosts,
        Pointer, Label, WakeLabel, WaitLabel, NotifyLabel, Inside

-----------------------------------------------------------------------------
(* Steps on the lists *)

\* Lists are lists of blocks, with ends.
LEMMA ListShape == ASSUME Words, Locals, Open PROVE L!Shape
  <1>1. /\ Live \subseteq Block /\ Closed \subseteq Thread /\ Linkers \subseteq Thread
        /\ \A u \in Closed \cup Linkers : head[u] \in Block /\ tail[u] \in Block
    BY DEF Words, Locals, Live, Linkers, Closed
  <1>2. First \subseteq Block /\ (dsema_notify_tail = NULL => First = {})
    BY BoundAssumption DEF Open, First
  <1> QED
    BY <1>1, <1>2, BoundAssumption DEF Words, L!Shape, L!Pointer

\* The invariant holds after such a step.
LEMMA KeptIInv == ASSUME IInv, Kept PROVE IInv'
  <1>1. L!Lists'
    BY ListShape, L!NextKeeps DEF IInv, Kept
  <1> QED
    BY <1>1 DEF IInv, Kept

\* Where a thread stands between two steps on a list.
Listing == {"wake_tail", "wake_next", "notify_link", "notify_head"}
Carrying == {"wake_waiters", "wake_post", "wake_submit"}

\* A step that is not on a list, of a thread that keeps the list it has.
Passing(t) ==
    /\ pc' = [pc EXCEPT ![t] = pc'[t]] /\ pc[t] \notin Listing /\ pc'[t] \notin Listing
    /\ head[t] # NULL => pc[t] \in Carrying /\ pc'[t] \in Carrying
    /\ UNCHANGED <<dsema_notify_head, dsema_notify_tail, dsn_next, head, tail, notified, submits>>

\* Such a step leaves the lists alone.
LEMMA Moves == ASSUME Words, Submitted, NEW t \in Thread, Passing(t) PROVE L!Next /\ Submitted'
  <1>1. Live' = Live /\ Closed' = Closed /\ Linkers' = Linkers /\ First' = First
    BY DEF Passing, Words, Live, Closed, Linkers, First, Holders, Listing, Carrying
  <1>2. Submitted'
    BY DEF Passing, Words, Submitted, Listing
  <1> QED
    BY <1>1, <1>2 DEF Passing, L!Next, L!Elsewhere, L!Keeps

\* A step that moves no thread and touches no list.
LEMMA Still ==
    ASSUME Submitted,
           UNCHANGED <<dsema_notify_head, dsema_notify_tail, dsn_next, pc, head, tail, notified, submits>>
    PROVE  L!Next /\ Submitted'
  <1>1. Live' = Live /\ Closed' = Closed /\ Linkers' = Linkers /\ First' = First
    BY DEF Live, Closed, Linkers, First, Holders
  <1> QED
    BY <1>1 DEF Submitted, L!Next, L!Elsewhere, L!Keeps

-----------------------------------------------------------------------------
(* The initial state, and the actions on a list *)

\* A new group: empty, with the creator's reference and no list.
LEMMA InitIInv == Init => IInv /\ L!Init
  <1> SUFFICES ASSUME Init PROVE IInv /\ L!Init
    OBVIOUS
  <1> USE BoundAssumption DEF Init
  <1>1. Words /\ Locals /\ Open
    BY DEF Words, Locals, Open, Holders
  <1>2. Seen
    BY Zenon DEF Seen, Flags, Borrowed, Emptied, WaitersSeen, ListSeen
  <1>3. Submitted
    BY DEF Submitted
  <1>4. L!Init
    BY DEF L!Init, Live, Closed, Linkers, First, Holders
  <1> QED
    BY <1>1, <1>2, <1>3, <1>4, L!InitLists DEF IInv

\* A notifier adds its block to the open list.
LEMMA NotifyStep ==
    ASSUME Words, Locals, Open, Seen, Submitted, L!Lists, NEW t \in Thread, NEW b \in Block, Notify(t, b)
    PROVE  Kept
  <1>1. (Words /\ Locals /\ Open)'
    BY BoundAssumption DEF Notify, Words, Locals, Open, Holders
  <1>2. Seen'
    BY DEF Notify, Words, Locals, Seen, Flags, Borrowed, Emptied, WaitersSeen, ListSeen
  <1>3. L!Next /\ Submitted'
    <2>1. b \notin Live /\ submits[b] = 0
      BY DEF Notify, Words, Locals, Submitted, Live
    <2>2. Live' = Live \cup {b} /\ Closed' = Closed /\ t \notin Closed \cup Linkers
      BY <2>1 DEF Notify, Words, Locals, Live, Closed, Linkers
    <2>3. IF dsema_notify_tail = NULL THEN Linkers' = Linkers ELSE Linkers' = Linkers \cup {t}
      BY DEF Notify, Words, Linkers
    <2>4. IF dsema_notify_tail = NULL THEN First' = {b} ELSE First' = First
      BY BoundAssumption DEF Notify, Words, Open, First, Holders
    <2>5. L!Append(t, b)
      BY <2>1, <2>2, <2>3, <2>4 DEF Notify, Words, L!Append, L!Keeps
    <2>6. Submitted'
      BY DEF Notify, Words, Submitted
    <2> QED
      BY <2>5, <2>6 DEF L!Next
  <1> QED
    BY <1>1, <1>2, <1>3 DEF Kept

\* A notifier links its block.
LEMMA NotifyLinkStep ==
    ASSUME Words, Locals, Open, Seen, Submitted, L!Lists, NEW t \in Thread, NotifyLink(t)
    PROVE  Kept
  <1>1. (Words /\ Locals /\ Open)'
    BY BoundAssumption DEF NotifyLink, Words, Locals, Open, Holders
  <1>2. Seen'
    BY DEF NotifyLink, Words, Locals, Seen, Flags, Borrowed, Emptied, WaitersSeen, ListSeen
  <1>3. L!Next /\ Submitted'
    <2>1. Live' = Live /\ Linkers' = Linkers \ {t} /\ Closed' = Closed /\ t \in Linkers \ Closed
      BY DEF NotifyLink, Words, Live, Linkers, Closed
    <2>2. First' = First
      BY DEF NotifyLink, Words, First, Holders
    <2>3. L!Link(t)
      BY <2>1, <2>2 DEF NotifyLink, Words, L!Link, L!Keeps
    <2>4. Submitted'
      BY DEF NotifyLink, Words, Submitted
    <2> QED
      BY <2>3, <2>4 DEF L!Next
  <1> QED
    BY <1>1, <1>2, <1>3 DEF Kept

\* A notifier publishes the list, which retains the group.
LEMMA NotifyHeadStep ==
    ASSUME Words, Locals, Open, Seen, Submitted, L!Lists, NEW t \in Thread, NotifyHead(t)
    PROVE  Kept
  <1>1. (Words /\ Locals /\ Open)'
    BY BoundAssumption DEF NotifyHead, Words, Locals, Open, Holders
  <1>2. Seen'
    BY DEF NotifyHead, Words, Locals, Seen, Flags, Borrowed, Emptied, WaitersSeen, ListSeen
  <1>3. L!Next /\ Submitted'
    <2>1. Live' = Live /\ Closed' = Closed /\ Linkers' = Linkers
      BY DEF NotifyHead, Words, Locals, Live, Closed, Linkers
    <2>2. First' = First
      BY BoundAssumption DEF NotifyHead, Words, Locals, Open, Holders, First
    <2>3. \A u \in Closed \cup Linkers : head'[u] = head[u] /\ tail'[u] = tail[u]
      BY DEF NotifyHead, Words, Locals, Closed, Linkers
    <2>4. Submitted'
      BY DEF NotifyHead, Words, Submitted
    <2> QED
      BY <2>1, <2>2, <2>3, <2>4 DEF NotifyHead, L!Next, L!Elsewhere, L!Keeps
  <1> QED
    BY <1>1, <1>2, <1>3 DEF Kept

\* A wake takes the head of the open list.
LEMMA WakeHeadStep ==
    ASSUME Words, Locals, Open, Seen, Submitted, L!Lists, NEW t \in Thread, WakeHead(t)
    PROVE  Kept
  <1>1. (Words /\ Locals /\ Open)'
    BY BoundAssumption DEF WakeHead, Words, Locals, Open, Holders
  <1>2. Seen'
    BY SMTT(30) DEF WakeHead, Words, Locals, Seen, Flags, Borrowed, Emptied, WaitersSeen, ListSeen
  <1>3. L!Next /\ Submitted'
    <2>1. Live' = Live /\ Closed' = Closed /\ Linkers' = Linkers
      BY DEF WakeHead, Words, Locals, Live, Closed, Linkers
    <2>2. First' = First
      BY BoundAssumption DEF WakeHead, Words, Locals, Open, Holders, First
    <2>3. \A u \in Closed \cup Linkers : head'[u] = head[u] /\ tail'[u] = tail[u]
      BY DEF WakeHead, Words, Locals, Closed, Linkers
    <2>4. Submitted'
      BY DEF WakeHead, Words, Submitted
    <2> QED
      BY <2>1, <2>2, <2>3, <2>4 DEF WakeHead, L!Next, L!Elsewhere, L!Keeps
  <1> QED
    BY <1>1, <1>2, <1>3 DEF Kept

\* A wake takes the tail, and with it the list.
LEMMA WakeTailStep ==
    ASSUME Words, Locals, Open, Seen, Submitted, L!Lists, NEW t \in Thread, WakeTail(t)
    PROVE  Kept
  <1>1. (Words /\ Locals /\ Open)'
    BY BoundAssumption DEF WakeTail, Words, Locals, Open, Holders
  <1>2. Seen'
    BY DEF WakeTail, Words, Locals, Seen, Flags, Borrowed, Emptied, WaitersSeen, ListSeen
  <1>3. L!Next /\ Submitted'
    <2>1. dsema_notify_head = NULL /\ dsema_notify_tail # NULL /\ \A u \in Holders : u = t
      BY DEF WakeTail, Open, Holders
    <2>2. head[t] \in First /\ First' = {}
      BY <2>1, BoundAssumption DEF WakeTail, Words, Locals, First, Holders
    <2>3. Live' = Live /\ Linkers' = Linkers /\ Closed' = Closed \cup {t} /\ t \notin Closed \cup Linkers
      BY BoundAssumption DEF WakeTail, Words, Locals, Live, Linkers, Closed
    <2>4. L!Take(t)
      BY <2>1, <2>2, <2>3 DEF WakeTail, Words, L!Take, L!Keeps
    <2>5. Submitted'
      BY DEF WakeTail, Words, Submitted
    <2> QED
      BY <2>4, <2>5 DEF L!Next
  <1> QED
    BY <1>1, <1>2, <1>3 DEF Kept

\* A wake submits a block.
LEMMA WakeSubmitStep ==
    ASSUME Words, Locals, Open, Seen, Submitted, L!Lists, NEW t \in Thread, WakeSubmit(t)
    PROVE  Kept
  <1>1. (Words /\ Locals /\ Open)'
    BY BoundAssumption DEF WakeSubmit, Words, Locals, Open, Holders
  <1>2. Seen'
    BY SMTT(30) DEF WakeSubmit, Words, Locals, Seen, Flags, Borrowed, Emptied, WaitersSeen, ListSeen
  <1>3. L!Next /\ Submitted'
    <2>1. t \in Closed /\ head[t] \in Live /\ \A u \in Closed : head[u] = head[t] => u = t
      BY L!OwnHead DEF WakeSubmit, Locals, Closed
    <2>2. \A u \in Inside({"wake_next"}) : u \in Closed /\ u # t
      BY DEF WakeSubmit, Locals, Closed
    <2>3. submits[head[t]] = 0 /\ head[t] \in notified
      BY <2>1, <2>2 DEF Live
    <2>4. Live' = Live
      <3>1. Inside({"wake_next"})' = Inside({"wake_next"}) \cup {t}
        BY DEF WakeSubmit, Words
      <3> QED
        BY <2>1, <2>3, <3>1 DEF WakeSubmit, Words, Live
    <2>5. Closed' = Closed /\ Linkers' = Linkers /\ First' = First
      BY DEF WakeSubmit, Words, Closed, Linkers, First, Holders
    <2>6. Submitted'
      BY <2>1, <2>2, <2>3, SMTT(30) DEF WakeSubmit, Words, Submitted
    <2> QED
      BY <2>4, <2>5, <2>6, Zenon DEF WakeSubmit, L!Next, L!Elsewhere, L!Keeps
  <1> QED
    BY <1>1, <1>2, <1>3 DEF Kept

\* A wake steps to the next block, or releases the list's reference after the last.
LEMMA WakeNextStep ==
    ASSUME Words, Locals, Open, Seen, Submitted, L!Lists, NEW t \in Thread, WakeNext(t)
    PROVE  Kept
  <1>1. (Words /\ Locals /\ Open)'
    BY BoundAssumption DEF WakeNext, Words, Locals, Open, Holders
  <1>2. Seen'
    <2>1. Flags'
      BY Zenon DEF WakeNext, Seen, Flags
    <2> QED
      BY <2>1 DEF WakeNext, Words, Locals, Seen, Flags, Borrowed, Emptied, WaitersSeen, ListSeen
  <1>3. L!Next /\ Submitted'
    <2>1. t \in Closed /\ head[t] \in Live /\ \A u \in Closed : head[u] = head[t] => u = t
      BY L!OwnHead DEF WakeNext, Locals, Closed
    <2>2. Live' = Live \ {head[t]}
      <3>1. Inside({"wake_next"}) \subseteq Closed
        BY DEF Locals, Closed
      <3>2. Inside({"wake_next"})' = Inside({"wake_next"}) \ {t}
        BY DEF WakeNext, Words
      <3>3. submits[head[t]] = 1 /\ \A u \in Inside({"wake_next"}) \ {t} : head'[u] = head[u]
        BY DEF WakeNext, Words, Submitted
      <3> QED
        BY <2>1, <3>1, <3>2, <3>3 DEF WakeNext, Live
    <2>3. Linkers' = Linkers /\ First' = First
      BY DEF WakeNext, Words, Linkers, First, Holders
    <2>4. Closed' = IF dsn_next[head[t]] # NULL THEN Closed ELSE Closed \ {t}
      BY <2>1, SMTT(30) DEF WakeNext, Words, Locals, Closed
    <2>5. L!Advance(t)
      BY <2>1, <2>2, <2>3, <2>4 DEF WakeNext, Words, Closed, Linkers, L!Advance, L!Keeps
    <2>6. Submitted'
      BY DEF WakeNext, Words, Submitted
    <2> QED
      BY <2>5, <2>6 DEF L!Next
  <1> QED
    BY <1>1, <1>2, <1>3 DEF Kept

-----------------------------------------------------------------------------
(* The actions that leave the lists alone *)

\* The creator releases its reference.
LEMMA ReleaseOwnerStep ==
    ASSUME Words, Locals, Open, Seen, Submitted, L!Lists, ReleaseOwner
    PROVE  Kept
  <1>1. (Words /\ Locals /\ Open)'
    BY BoundAssumption DEF ReleaseOwner, Words, Locals, Open, Holders
  <1>2. Seen'
    BY ZenonT(60) DEF ReleaseOwner, Words, Locals, Seen, Flags, Borrowed, Emptied, WaitersSeen, ListSeen
  <1>3. L!Next /\ Submitted'
    BY Still, SMTT(30) DEF ReleaseOwner
  <1> QED
    BY <1>1, <1>2, <1>3, SMTT(30) DEF Kept

\* A block enters the group with a reference of its own.
LEMMA AsyncStep ==
    ASSUME Words, Locals, Open, Seen, Submitted, L!Lists, NEW t \in Thread, Async(t)
    PROVE  Kept
  <1>1. (Words /\ Locals /\ Open)'
    BY BoundAssumption DEF Async, Join, Words, Locals, Open, Holders
  <1>2. Seen'
    BY DEF Async, Join, Words, Locals, Seen, Flags, Borrowed, Emptied, WaitersSeen, ListSeen
  <1>3. L!Next /\ Submitted'
    BY Still, SMTT(30) DEF Async
  <1> QED
    BY <1>1, <1>2, <1>3 DEF Kept

\* A member enters the group without a reference.
LEMMA EnterStep ==
    ASSUME Words, Locals, Open, Seen, Submitted, L!Lists, NEW t \in Thread, Enter(t)
    PROVE  Kept
  <1>1. (Words /\ Locals /\ Open)'
    BY BoundAssumption DEF Enter, Join, Words, Locals, Open, Holders
  <1>2. Seen'
    BY DEF Enter, Join, Words, Locals, Seen, Flags, Borrowed, Emptied, WaitersSeen, ListSeen
  <1>3. L!Next /\ Submitted'
    BY Still, SMTT(30) DEF Enter
  <1> QED
    BY <1>1, <1>2, <1>3 DEF Kept

\* A member leaves; the last one starts a wake, which needs the creator's
\* reference unless the member has its own.
LEMMA LeaveToStep ==
    ASSUME Words, Locals, Open, Seen, Submitted, L!Lists, NEW t \in Thread, NEW label \in {"idle", "release"},
           pc[t] = "idle", dsema_value < ORIG, entered' \in 0..(ORIG - dsema_value - 1), LeaveTo(t, label),
           label = "idle" /\ dsema_value + 1 = ORIG => owned
    PROVE  Kept
  <1>1. (Words /\ Locals /\ Open)'
    BY BoundAssumption, SMTT(30) DEF LeaveTo, Words, Locals, Open, Holders
  <1>2. Seen'
    BY SMTT(30) DEF LeaveTo, Words, Locals, Seen, Flags, Borrowed, Emptied, WaitersSeen, ListSeen
  <1>3. Passing(t)
    BY SMTT(30) DEF LeaveTo, Passing, Words, Locals, Listing
  <1> QED
    BY <1>1, <1>2, <1>3, Moves, SMTT(30) DEF Kept

\* A block leaves: its reference stays for the release that follows.
LEMMA BlockDoneStep ==
    ASSUME Words, Locals, Open, Seen, Submitted, L!Lists, NEW t \in Thread, BlockDone(t)
    PROVE  Kept
  <1>1. dsema_value < ORIG /\ entered' \in 0..(ORIG - dsema_value - 1)
    BY BoundAssumption DEF BlockDone, Words
  <1> QED
    BY <1>1, LeaveToStep DEF BlockDone

\* A member without a reference leaves.
LEMMA LeaveStep ==
    ASSUME Words, Locals, Open, Seen, Submitted, L!Lists, NEW t \in Thread, Leave(t)
    PROVE  Kept
  <1>1. dsema_value < ORIG /\ entered' \in 0..(ORIG - dsema_value - 1) /\ (dsema_value + 1 = ORIG => owned)
    BY BoundAssumption DEF Leave, Words
  <1> QED
    BY <1>1, LeaveToStep DEF Leave

\* A leave without an enter stops the process.
LEMMA LeaveUnbalancedStep ==
    ASSUME Words, Locals, Open, Seen, Submitted, L!Lists, NEW t \in Thread, LeaveUnbalanced(t)
    PROVE  Kept
  <1>1. (Words /\ Locals /\ Open)'
    BY BoundAssumption DEF LeaveUnbalanced, Words, Locals, Open, Holders
  <1>2. Seen'
    BY ZenonT(60) DEF LeaveUnbalanced, Words, Locals, Seen, Flags, Borrowed, Emptied, WaitersSeen, ListSeen
  <1>3. L!Next /\ Submitted'
    BY Still, SMTT(30) DEF LeaveUnbalanced
  <1> QED
    BY <1>1, <1>2, <1>3 DEF Kept

\* The block's reference is released.
LEMMA LeaveReleaseStep ==
    ASSUME Words, Locals, Open, Seen, Submitted, L!Lists, NEW t \in Thread, LeaveRelease(t)
    PROVE  Kept
  <1>1. (Words /\ Locals /\ Open)'
    BY BoundAssumption, SMTT(30) DEF LeaveRelease, Words, Locals, Open, Holders
  <1>2. Seen'
    BY DEF LeaveRelease, Words, Locals, Seen, Flags, Borrowed, Emptied, WaitersSeen, ListSeen
  <1>3. Passing(t)
    BY SMTT(30) DEF LeaveRelease, Passing, Words, Locals, Listing, Carrying
  <1> QED
    BY <1>1, <1>2, <1>3, Moves, SMTT(30) DEF Kept

\* A wake takes the counted waiters.
LEMMA WakeWaitersStep ==
    ASSUME Words, Locals, Open, Seen, Submitted, L!Lists, NEW t \in Thread, WakeWaiters(t)
    PROVE  Kept
  <1>1. (Words /\ Locals /\ Open)'
    BY BoundAssumption, SMTT(30) DEF WakeWaiters, Words, Locals, Open, Holders
  <1>2. Seen'
    BY SMTT(30) DEF WakeWaiters, Words, Locals, Seen, Flags, Borrowed, Emptied, WaitersSeen, ListSeen
  <1>3. Passing(t)
    BY SMTT(30) DEF WakeWaiters, Passing, Words, Locals, Listing, Carrying
  <1> QED
    BY <1>1, <1>2, <1>3, Moves DEF Kept

\* A wake posts one permit.
LEMMA WakePostStep ==
    ASSUME Words, Locals, Open, Seen, Submitted, L!Lists, NEW t \in Thread, WakePost(t)
    PROVE  Kept
  <1>1. (Words /\ Locals /\ Open)'
    BY BoundAssumption, SMTT(30) DEF WakePost, Words, Locals, Open, Holders
  <1>2. Seen'
    BY SMTT(30) DEF WakePost, Words, Locals, Seen, Flags, Borrowed, Emptied, WaitersSeen, ListSeen
  <1>3. Passing(t)
    BY DEF WakePost, Passing, Words, Locals, Listing, Carrying
  <1> QED
    BY <1>1, <1>2, <1>3, Moves DEF Kept

\* A thread enters the slow wait.
LEMMA WaitStep ==
    ASSUME Words, Locals, Open, Seen, Submitted, L!Lists, NEW t \in Thread, NEW w \in BOOLEAN, Wait(t, w)
    PROVE  Kept
  <1>1. (Words /\ Locals /\ Open)'
    BY BoundAssumption, SMTT(30) DEF Wait, Words, Locals, Open, Holders
  <1>2. Seen'
    BY SMTT(30) DEF Wait, Words, Locals, Seen, Flags, Borrowed, Emptied, WaitersSeen, ListSeen
  <1>3. Passing(t)
    BY SMTT(30) DEF Wait, Passing, Words, Locals, Listing, Carrying
  <1> QED
    BY <1>1, <1>2, <1>3, Moves, SMTT(30) DEF Kept

\* A waiter looks at the group.
LEMMA WaitAgainStep ==
    ASSUME Words, Locals, Open, Seen, Submitted, L!Lists, NEW t \in Thread, WaitAgain(t)
    PROVE  Kept
  <1>1. (Words /\ Locals /\ Open)'
    BY BoundAssumption, SMTT(30) DEF WaitAgain, Words, Locals, Open, Holders
  <1>2. Seen'
    BY SMTT(30) DEF WaitAgain, Words, Locals, Seen, Flags, Borrowed, Emptied, WaitersSeen, ListSeen
  <1>3. Passing(t)
    BY SMTT(30) DEF WaitAgain, Passing, Words, Locals, Listing, Carrying
  <1> QED
    BY <1>1, <1>2, <1>3, Moves DEF Kept

\* A waiter counts itself.
LEMMA WaitIncStep ==
    ASSUME Words, Locals, Open, Seen, Submitted, L!Lists, NEW t \in Thread, WaitInc(t)
    PROVE  Kept
  <1>1. (Words /\ Locals /\ Open)'
    BY BoundAssumption, SMTT(30) DEF WaitInc, Words, Locals, Open, Holders
  <1>2. Seen'
    BY SMTT(30) DEF WaitInc, Words, Locals, Seen, Flags, Borrowed, Emptied, WaitersSeen, ListSeen
  <1>3. Passing(t)
    BY SMTT(30) DEF WaitInc, Passing, Words, Locals, Listing, Carrying
  <1> QED
    BY <1>1, <1>2, <1>3, Moves DEF Kept

\* A waiter looks again, and sleeps if the group is not empty.
LEMMA WaitRecheckStep ==
    ASSUME Words, Locals, Open, Seen, Submitted, L!Lists, NEW t \in Thread, WaitRecheck(t)
    PROVE  Kept
  <1>1. (Words /\ Locals /\ Open)'
    BY BoundAssumption, SMTT(30) DEF WaitRecheck, Words, Locals, Open, Holders
  <1>2. Seen'
    BY SMTT(30) DEF WaitRecheck, Words, Locals, Seen, Flags, Borrowed, Emptied, WaitersSeen, ListSeen
  <1>3. Passing(t)
    BY SMTT(30) DEF WaitRecheck, Passing, Words, Locals, Listing, Carrying
  <1> QED
    BY <1>1, <1>2, <1>3, Moves DEF Kept

\* A waiter takes a permit.
LEMMA WaitTakeStep ==
    ASSUME Words, Locals, Open, Seen, Submitted, L!Lists, NEW t \in Thread, WaitTake(t)
    PROVE  Kept
  <1>1. (Words /\ Locals /\ Open)'
    BY BoundAssumption, SMTT(30) DEF WaitTake, Words, Locals, Open, Holders
  <1>2. Seen'
    BY SMTT(30) DEF WaitTake, Words, Locals, Seen, Flags, Borrowed, Emptied, WaitersSeen, ListSeen
  <1>3. Passing(t)
    BY SMTT(30) DEF WaitTake, Passing, Words, Locals, Listing, Carrying
  <1> QED
    BY <1>1, <1>2, <1>3, Moves DEF Kept

\* A waiter times out.
LEMMA WaitExpiresStep ==
    ASSUME Words, Locals, Open, Seen, Submitted, L!Lists, NEW t \in Thread, WaitExpires(t)
    PROVE  Kept
  <1>1. (Words /\ Locals /\ Open)'
    BY BoundAssumption, SMTT(30) DEF WaitExpires, Words, Locals, Open, Holders
  <1>2. Seen'
    BY SMTT(30) DEF WaitExpires, Words, Locals, Seen, Flags, Borrowed, Emptied, WaitersSeen, ListSeen
  <1>3. Passing(t)
    BY SMTT(30) DEF WaitExpires, Passing, Words, Locals, Listing, Carrying
  <1> QED
    BY <1>1, <1>2, <1>3, Moves DEF Kept

\* A waiter that timed out takes its count back, or goes to drain its permit.
LEMMA WaitUndoStep ==
    ASSUME Words, Locals, Open, Seen, Submitted, L!Lists, NEW t \in Thread, WaitUndo(t)
    PROVE  Kept
  <1>1. (Words /\ Locals /\ Open)'
    BY BoundAssumption, SMTT(30) DEF WaitUndo, Words, Locals, Open, Holders
  <1>2. Seen'
    BY SMTT(30) DEF WaitUndo, Words, Locals, Seen, Flags, Borrowed, Emptied, WaitersSeen, ListSeen
  <1>3. Passing(t)
    BY SMTT(30) DEF WaitUndo, Passing, Words, Locals, Listing, Carrying
  <1> QED
    BY <1>1, <1>2, <1>3, Moves DEF Kept

\* A notifier checks the group.
LEMMA NotifyCheckStep ==
    ASSUME Words, Locals, Open, Seen, Submitted, L!Lists, NEW t \in Thread, NotifyCheck(t)
    PROVE  Kept
  <1>1. (Words /\ Locals /\ Open)'
    BY BoundAssumption, SMTT(30) DEF NotifyCheck, Words, Locals, Open, Holders
  <1>2. Seen'
    BY SMTT(30) DEF NotifyCheck, Words, Locals, Seen, Flags, Borrowed, Emptied, WaitersSeen, ListSeen
  <1>3. Passing(t)
    BY DEF NotifyCheck, Passing, Words, Locals, Listing, Carrying
  <1> QED
    BY <1>1, <1>2, <1>3, Moves DEF Kept

\* Every step of every thread does so.
LEMMA NextKept == IInv /\ [Next]_vars => Kept
  <1> SUFFICES ASSUME IInv, [Next]_vars PROVE Kept
    OBVIOUS
  <1>0. Words /\ Locals /\ Open /\ Seen /\ Submitted /\ L!Lists
    BY DEF IInv
  <1>1. CASE UNCHANGED vars
    <2>1. (Words /\ Locals /\ Open)'
      BY <1>0, <1>1 DEF vars, Words, Locals, Open, Holders
    <2>2. Seen'
      BY <1>0, <1>1, Zenon DEF vars, Seen, Flags, Borrowed, Emptied, WaitersSeen, ListSeen
    <2>3. L!Next /\ Submitted'
      BY <1>0, <1>1, Still DEF vars
    <2> QED
      BY <2>1, <2>2, <2>3, SMTT(30) DEF Kept
  <1>2. ASSUME NEW t \in Thread, Call(t) PROVE Kept
    BY <1>0, <1>2, AsyncStep, BlockDoneStep, EnterStep, LeaveStep, LeaveUnbalancedStep, WaitStep, NotifyStep, SMTT(30)
       DEF Call
  <1>3. ASSUME NEW t \in Thread, Step(t) PROVE Kept
    BY <1>0, <1>3, LeaveReleaseStep, WakeHeadStep, WakeTailStep, WakeWaitersStep, WakePostStep, WakeSubmitStep,
       WakeNextStep, WaitAgainStep, WaitIncStep, WaitRecheckStep, WaitTakeStep, WaitExpiresStep, WaitUndoStep,
       NotifyLinkStep, NotifyHeadStep, NotifyCheckStep, SMTT(30) DEF Step
  <1> QED
    BY <1>0, <1>1, <1>2, <1>3, ReleaseOwnerStep DEF Next

\* The invariant holds in every reachable state.
THEOREM Invariant == Spec => []IInv
  <1>1. IInv /\ [Next]_vars => IInv'
    BY NextKept, KeptIInv
  <1> QED
    BY <1>1, InitIInv, PTL DEF Spec

-----------------------------------------------------------------------------
(* What it says of dispatch_group *)

\* dispatch_group_wait never returns 0 for a group that was not empty at some
\* time during the call.
THEOREM TrueReturn == Spec => WaitReturnsAfterEmpty
  <1> DEFINE A == \A t \in Thread :
         pc[t] \in WaitLabel \ {"undo"} /\ pc'[t] \notin WaitLabel => t \notin owing
  <1>1. IInv /\ [Next]_vars => [A]_vars
    <2> SUFFICES ASSUME IInv, Next, NEW u \in Thread,
                        pc[u] \in WaitLabel \ {"undo"}, pc'[u] \notin WaitLabel
                 PROVE  u \notin owing
      OBVIOUS
    <2>1. Emptied /\ pc \in [Thread -> Label]
      BY DEF IInv, Seen, Words
    <2>2. IsEmpty
      <3>1. CASE ReleaseOwner
        BY <3>1, SMTT(30) DEF ReleaseOwner
      <3>2. ASSUME NEW t \in Thread, Call(t) PROVE IsEmpty
        <4>1. pc[u] # "idle" /\ pc'[u] # pc[u]
          OBVIOUS
        <4>2. CASE Async(t) \/ Enter(t) \/ LeaveUnbalanced(t)
          BY <4>1, <4>2, Zenon DEF Async, Enter, LeaveUnbalanced
        <4>3. CASE BlockDone(t) \/ Leave(t)
          <5>1. pc[t] = "idle" /\ \E l \in {"idle", "release", "wake_head"} : pc' = [pc EXCEPT ![t] = l]
            BY <4>3, Zenon DEF BlockDone, Leave, LeaveTo
          <5> QED
            BY <2>1, <4>1, <5>1
        <4>4. CASE \E withTimeout \in BOOLEAN : Wait(t, withTimeout)
          <5>1. pc[t] = "idle" /\ pc' = [pc EXCEPT ![t] = "again"]
            BY <4>4, Zenon DEF Wait
          <5> QED
            BY <2>1, <4>1, <5>1
        <4>5. CASE \E b \in Block : Notify(t, b)
          <5>1. pc[t] = "idle" /\ \E l \in {"notify_link", "notify_head"} : pc' = [pc EXCEPT ![t] = l]
            BY <4>5, Zenon DEF Notify
          <5> QED
            BY <2>1, <4>1, <5>1
        <4> QED
          BY <3>2, <4>2, <4>3, <4>4, <4>5, Zenon DEF Call
      <3>3. ASSUME NEW t \in Thread, Step(t) PROVE IsEmpty
        BY <2>1, <3>3, Zenon DEF Step, LeaveRelease, WakeHead, WakeTail, WakeWaiters, WakePost, WakeSubmit, WakeNext,
           WaitAgain, WaitInc, WaitRecheck, WaitTake, WaitExpires, WaitUndo, NotifyLink, NotifyHead, NotifyCheck
      <3> QED
        BY <3>1, <3>2, <3>3 DEF Next
    <2> QED
      BY <2>1, <2>2 DEF Emptied
  <1> QED
    BY <1>1, Invariant, PTL DEF Spec, WaitReturnsAfterEmpty

\* However notifiers and wakes interleave, what they do to the blocks and the
\* links is what NotifyList allows: a wake drops the blocks of the list it has
\* taken one after the other, from its head, along the links.
THEOREM ListsImplemented == Spec => L!Spec
  <1>1. Init => L!Init
    BY InitIInv
  <1>2. IInv /\ [Next]_vars => [L!Next]_(L!vars)
    BY NextKept DEF Kept
  <1> QED
    BY <1>1, <1>2, Invariant, PTL DEF Spec, L!Spec

\* However notifiers and wakes interleave on the list, no block is submitted
\* twice, and an empty and quiet group has submitted all of them.
THEOREM SubmittedOnce == Spec => []NotifiedOnce
  <1>1. IInv => NotifiedOnce
    <2> SUFFICES ASSUME IInv PROVE NotifiedOnce
      OBVIOUS
    <2>0. Words /\ Open /\ Seen /\ Submitted /\ L!Lists
      BY DEF IInv
    <2>1. \A b \in Block : submits[b] <= 1
      BY <2>0 DEF Submitted
    <2>2. ASSUME Quiet, IsEmpty, NEW b \in notified PROVE submits[b] = 1
      <3>1. \A t \in Thread : pc[t] = "idle"
        BY <2>0, <2>2 DEF Words, Quiet
      <3>2. dsema_notify_head = NULL
        BY <2>0, <2>2, <3>1 DEF Seen, ListSeen
      <3>3. dsema_notify_tail = NULL /\ Closed = {}
        BY <2>0, <3>1, <3>2 DEF Open, Holders, Closed
      <3>4. Live = {}
        BY <2>0, <3>3, L!NoneLost
      <3>5. submits[b] # 0 /\ submits[b] \in Nat /\ b \in Block
        BY <2>0, <3>4 DEF Words, Live
      <3> QED
        BY <2>1, <3>5
    <2> QED
      BY <2>1, <2>2 DEF NotifiedOnce
  <1> QED
    BY <1>1, Invariant, PTL
==========================================================================
