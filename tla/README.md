# TLA+ verification of libdispatch

This directory models the concurrent core of libdispatch (the Linux port in
this repository, library code under `src/src/`) in TLA+, model-checks it with
TLC and proves part of it with TLAPS. `PROJECT.json` is the index: components,
runs, the source lines behind every definition, findings, hazards, theorems.

Line numbers below refer to the files under `src/src/`.

## The system and its parts

| Part | Source | What it does | Module |
| --- | --- | --- | --- |
| futex semaphore | `semaphore.c` 730-836 | kernel-backed counting semaphore on one 64-bit word | `Futex` |
| semaphore | `semaphore.c` 46-330 | user-space counter in front of the futex | `Semaphore` |
| group | `semaphore.c` 343-605 | enter/leave counter, waiters, notification list | `Group` |
| thread semaphores | `semaphore.c` 608-716 | one semaphore per blocked thread | in `Once`, `Queue` |
| once | `once.c` | one-time call with a stack of waiters | `Once` |
| queues | `queue.c`, `queue_internal.h` | list of items, drain, barriers, sync and async | `Queue` |
| objects | `object.c` | references, suspend, resume | in all modules of objects |
| root queues, thread pool | `queue.c` 2001-2098, 2331-2504 | concurrent list, workers | `RootQueue` |
| main queue | `queue.c` 1967-1998, 2240-2298, 2603-2780 | drained on one thread, woken by an eventfd | `MainQueue` |
| manager queue | `queue.c` 2785-3127 | event loop for sources and timers | `Manager` |
| apply | `apply.c` | parallel loop | `Apply` |
| target queues, widths, references | `queue.c` 630-800, `object.c` | who keeps whom alive | `Hierarchy` |
| queue-specific contexts | `queue.c` 803-947 | key-value store of a queue | `Specific` |
| sources | `source.c` 50-908 | events from the kernel and user data | `SourceInvoke`, `Source` |
| timers, after | `source.c` 913-1249, `queue.c` 1816-1868 | ordered lists of two clocks | `SourceInvoke`, `Timer` |
| I/O | `io.c` | channels, fd entries; disks; streams; operations | `IOChannel`, `IODisk`, `IOStream`, `IOOperation` |
| data | `data.c` | immutable byte strings on shared buffers | `Data` |
| transforms | `transform.c` | Base32, Base64, UTF-8, UTF-16 | `Transform` |
| time | `time.c` | saturating clock arithmetic | `Time` |
| init, fork, shims, benchmark, tracing, Objective-C, Mach | `init.c`, `shims/`, `benchmark.c`, `trace.h`, `object.m`, `protocol.defs` | no shared state of their own, or another platform | not modelled |

They build on each other: the futex is the sleep under the semaphore and the
group; thread semaphores are the sleep under `dispatch_once` and the
synchronous calls of a queue; a queue sits on the list of a root queue, whose
workers drain it. A source is an object that is invoked like a queue, now on
the manager's thread, where it talks to the kernel, now on its target queue,
where its handler runs; timers are sources that the manager fires itself. Disk,
stream and channel are built from serial queues, groups and sources; an
operation moves data objects. Each module takes the parts below it by what they
promise. `CountingSemaphore` is what the futex and the semaphore promise: `Futex` and `Semaphore` are both shown to
implement it, and `Semaphore` and `Group` use the futex by that promise (a
count of permits, `ksem`, and timed waits that may expire at any moment)
instead of its code.

## Modules and how they correspond to the code

All modules take one atomic operation, load or store on a shared word, or one
system call, as a step. A thread's position inside a function is a label in
`pc` (in `Queue`, `th[t].pc`); its local variables are variables of the module
only while they are live. A load followed by a compare-and-swap of the same
word, retried until it succeeds, is one atomic step. Memory is sequentially
consistent: the code's barriers are taken at their word.

- **CountingSemaphore** (abstract). Permits, the set of waiting threads, and
  the numbers of signals and successful waits.
- **Futex**. `dfx_value` and `dfx_nwaiters` are the halves of `dfx_data`.
  `Signal`/`Wake` are `_dispatch_futex_signal`; `Wait`, `Loop`, `AddWaiter`,
  `FutexWait`, `SubWaiter`, `Retry` are `_dispatch_futex_wait` and its slow
  path; `WaitAgain` is the loop on `EINTR` around every call of it.
  `SleepEnds` is the kernel: an interruption, or the timeout.
- **Semaphore**. `Signal`, `SignalRetain`, `SignalPost`, `SignalRelease` are
  the fast and slow signal; `Wait`, `TimedWaitWoken`, `TimedWaitExpires`,
  `Undo`, `SemWait` the wait with the timeouts FOREVER, NOW and LATER.
  `ReleaseOwner` is the creator's release, with the dispose and its check.
  A caller of wait holds a reference for the duration of its call, as the API
  requires; a signaller relies on the creator's or on that of a waiter, which
  is the case the comment in `_dispatch_semaphore_signal_slow` is about.
- **Group**. `dsema_value`, `dsema_group_waiters` and the list
  (`dsema_notify_head`, `dsema_notify_tail`, `dsn_next`), with one action for
  each access in `dispatch_group_enter`, `dispatch_group_leave`,
  `_dispatch_group_wake`, `dispatch_group_wait` and `dispatch_group_notify_f`.
  A member of `dispatch_group_async` (`Async`, `BlockDone`, `LeaveRelease`) holds
  a reference until after its leave; one of plain `dispatch_group_enter` (`Enter`,
  `Leave`, counted by `entered`) holds none, so its leave needs the creator's
  reference or a block's, and the last release may meet the in-use check of
  `_dispatch_semaphore_dispose` (`ReleaseRef`).
- **Once**. `vval` is the predicate, `dow_next` the links of the waiters, a
  waiter is named by the thread on whose frame it lies.
- **Queue**. One queue that targets a root queue. Clients make the calls in
  `Kinds`; each call is an item, named by its client and its number.
  `dq_running`, `do_suspend_cnt`, `do_ref_cnt` and the list have the code's
  encodings (2 for each running item and 1 for the lock; 2 for each suspension
  and 1 while the queue is enqueued; references minus one). On a serial queue
  the asynchronous calls are barriers and `dispatch_sync` is
  `dispatch_barrier_sync`, as in the code (`KindOn`). Workers `Take` the queue
  or a redirected item from `root`, a set: the root queue is external to this
  module. The fast path of the asynchronous call is `AddAsync`/`AsyncOver`/
  `AsyncRetry`, that of the synchronous one `AddSync`, that of the synchronous
  barrier `TryLock`; the slow path of the latter, with the handoff to the next
  barrier, `HandoffSuspend` to `SignalNext`. The drain is `DrainTail` to
  `PutHead`. `missed` is a history variable for the finding `queue_pending`
  below.
- **RootQueue**. The list of a root queue, where the consumer exchanges the head
  for a mediator (`DrainTakeHead` to `DrainAdvance`), the wakeups
  (`WakeupBegin` to `WakeupSpawn`) and the worker's life (`WorkerStart` to
  `WorkerRecheck`) with the pool's limit and the idle timeout. `Kworkqueue`
  chooses the build with pending requests to the kernel instead of the pool.
- **MainQueue**. The push and its eventfd, the drain up to a marker on the main
  thread's stack, `dispatch_main` and the cleanup that unlocks the queue and
  leaves it to a worker.
- **Apply**. `da` is the `dispatch_apply_s`; `Chain` the queues from the one
  given to the root. `RedirectReserve`/`RedirectGiveBack` take and give back the
  width with the arithmetic of `uint32_t` (`UINT32` is its modulus), wraps
  included. `dispatch_sync` of others adds to `dq_running` whatever the width.
- **Hierarchy**. Counts of internal and external references, targets and widths
  of two kinds of objects: queues, which change their target by a barrier
  (`SetTarget`, then `RunItem`), and others, which exchange it at once.
- **Specific**. Callers of `dispatch_queue_set_specific` race to install the
  queue of contexts (`InitSpecific`); its barriers are `RunSet`, its reads
  `RunGet`.
- **SourceInvoke**. No state: the decisions of `_dispatch_source_invoke`,
  `_dispatch_source_probe` and `_dispatch_wakeup` as operators on the record of
  one source, used by the next two.
- **Source**. Sources, the kernel's kevents, the manager and the client threads
  that merge, cancel, suspend, resume and release. Each step of the invoke that
  another thread can observe is an action, and so are the three of
  `_dispatch_source_merge_kevent`: the store (`ManagerMerge`), the clearing of
  the armed flag (`ManagerDisarm`) and the wakeup (`ManagerWakeup`).
- **Timer**. The lists of both clocks and of disarmed timers,
  `dispatch_source_set_timer` from its arguments (`Params`) through the source's
  queue (`SetTimer2`) to the manager's (`SetTimer3`), `_dispatch_run_timers`,
  and `dispatch_after` (`After`, `AfterSets`).
- **Manager**. `_dispatch_mgr_invoke` with the select workaround, and the
  clients that push and wake it. What a source does there is one step
  (`Operate`); its detail is in `Source`.
- **Data**. A heap of objects; each call is an operator from heap to heap. The
  sum of offset and length is taken modulo `SIZE_MAX + 1`.
- **Time**. Words of any width: `HALF` stands for 2^63.
- **Transform**. The converters as operators on sequences of regions, with the
  state that is carried from region to region and with what is read or written
  outside a buffer as a value of its own (`Undefined`).
- **IODisk**, **IOStream**, **IOOperation**, **IOChannel**. The scheduler of a
  disk with its ring of operations, the scheduler of one direction of a stream,
  the buffers and deliveries of one operation, and the life of channels and fd
  entries over the serial queues they use. In `IOChannel` a state is one record
  and a block an operator on it, run to its end as on the serial queue.
- **MCGroup**, **MCQueue**, **MCIO**, **MCLibrary** instantiate the modules for
  TLC.

Some operations take several accesses in the code and one step here where no
other thread can tell: an increment followed by a retain of an object that is
kept alive by the increment's owner, and the push on the root queue.

Each module carries, next to the definitions, variants whose name ends in
`Bug`: plausible mistakes in the same function, with which the properties are
shown to fail (`mutants` in `PROJECT.json`). The specifications do not use them.

## Runs

Passing runs:

| Run | Bounds | States | Shows |
| --- | --- | --- | --- |
| `futex` | 3 threads, value at most 2, 3 signals | 55,974 | waiter count exact, no lost wakeup, a sleeper is served, refines `CountingSemaphore` |
| `semaphore` | 3 threads, initial value 1, maximum 2, 4 signals | 3,889 | wakeups conserved, no use after free, blocked waiters return once balanced, refines `CountingSemaphore` |
| `group` | 3 threads, 2 notification blocks, 2 members at a time of either kind, 2 slow waits | 920,615 | waiters covered by wakeups, notifications submitted once, a wait returns 0 only after the group was empty, nobody left asleep, references balanced |
| `once` | 4 threads | 13,144 | one call, waiters alive, semaphores clean, every caller returns |
| `queue_serial` | 3 clients, 1 worker, 3 calls, 1 suspension | 837,734 | mutual exclusion, order, nothing lost, references balanced |
| `queue_concurrent` | 2 clients, 1 worker, width 4 (two items), 3 calls of all four kinds | 523,849 | barriers that hold the lock run alone, width respected, nothing else lost |
| `library` | the instances of the next table | 1,406,259 | the properties of the next table |

`library` is one run for the components above the queue. Its variable `mode`,
chosen in the initial state and never changed, says which component and which
instance a behaviour is of; the components share the variables `v1` to `v12`.
They do not interact in it: it is the union of separate models.

| Mode | Module | Instance | States | Property |
| --- | --- | --- | --- | --- |
| `pool`, `kernel` | `RootQueue` | 2 clients, one pushing 2 items at once, 3 workers, pool of 2 | 91,712; 36,880 | `RootQueueSound`: taken once and in order of the push; none stranded |
| `main` | `MainQueue` | 3 clients | 75,829 | `MainQueueSound`: a block is noticed; the marker is not referenced after the drain |
| `apply`, `apply_two`, `apply_edge` | `Apply` | a call through a queue that 2 syncs alone can fill; 2 calls that share a queue; 0 iterations, root queue, nested | 23,775; 69,963; 330 | `ApplySound`: each iteration once before the return; freed once and last; `dq_running` restored |
| `objects` | `Hierarchy` | 2 queues and a semaphore, 2 changes of target, 1 of width, 1 retain | 107,888 | `HierarchySound`: targets outlive their objects; finalized once |
| `specific` | `Specific` | 3 setters for 2 keys, one of them passing NULL, 1 getter | 4,440 | `SpecificSound`: destroyed once; the last set wins |
| `merged`, `masked`, `watched`, `refused` | `Source` | a custom source with 3 merges; the same with or; 2 sources on one descriptor; a descriptor the kernel may refuse, 2 events | 19,532; 3,620; 151,529; 7,816 | `SourceSound`: nothing forgotten; data conserved; cancel handler last; disposed of |
| `moved`, `late`, `sorted`, `delayed` | `Timer` | a timer that changes its clock, is suspended and released; missed intervals; 2 timers on a list; `dispatch_after` | 113,520; 46,848; 44,513; 221 | `TimerSound`: manager never oversleeps; intervals counted once; timer kept on its list; not early, after at most once |
| `one_fd`, `two_fds` | `Manager` | 2 sources on one kevent; on two descriptors | 52,388; 29,082 | `ManagerSound`: work wakes the manager; select covers its descriptors |
| `data` | `Data` | 3 buffers, one empty, 3 references held, 5 calls, `SIZE_MAX` 9 | 40,843 | `DataSound`: contents as on byte strings; destructors once; a subrange inside its object unless the sum wraps |
| `time` | `Time` | words of 4 bits, every time, delta and clock | 1,536 | `TimeSound`: saturates; a delay is the delay found |
| `transform` | `Transform` | 6 binary contents, 4 texts, every cut into up to 3 regions, chains of conversions, buffers of at most 15 bytes | 9,855 | `TransformFaithful`: the bytes RFC 4648 and Unicode give, for regular cuts; NULL only where there is no result or a limit is met |
| `fd`, `path`, `read` | `IOChannel` | a channel and one made from it, a failing stat, type or seek, close, stop, barrier; a `dispatch_read` beside a channel with operations of length 0 | 95,026; 93,770; 46,490 | `ChannelsSound`: entry outlives use; cleanup last; barrier alone; no leak |
| `disk`, `disk_again` | `IODisk` | 3 operations on 2 files, one opened by path, and 2 channels, ring of 2; 2 operations of a file opened by path, 2 system calls each | 63,894; 15,391 | `DiskSound`: no idling with work; stream operations in turn; ring sound; completed and reported once, unless a cleanup took an active operation |
| `stream`, `stream_mixed` | `IOStream` | 2 stream operations and a random one, 1 stream operation and 2 random ones, on 2 channels | 50,610; 60,178 | `StreamSound`: not stalled, source resumed once; `StreamOpRunsToEnd` |
| `operation` | `IOOperation` | chunk of 3, lengths 1, 4 and 9, water marks 0, 1, 2 and 4 | 48,780 | `OperationSound`: bytes conserved; within the water marks; remainder of a write; the end reported once, with its error |

The bounds are small but large enough for the races. Three threads give a futex
or a semaphore a signaller and two competing waiters, one of which may time
out; the maximum of 2 lets the overflow check fire. Three threads in the group
are a stalled wake, a waiter or notifier, and one that enters and leaves. Four
threads in `once` are a runner and three waiters, so that a stack is walked
whose links are stored in any order. Three items on a queue are one that runs,
one that is being drained and one that is being pushed; width 4 admits two at a
time, so the limit is reached. Three clients on the serial queue let one hand
the queue to another while the third is between the two steps of its push. With
two workers the queue runs take longer (`queue_serial` 3,087,365 states,
`queue_concurrent` 2,696,624), as does `queue_concurrent` with a suspension
(3,465,222); the same invariants hold there. The properties of disk and stream
also hold in larger instances: 347,308 states with 2 system calls of each of 3
disk operations, 403,588 with 4 operations on a stream. That the runs reach
these cases is what the mutants and the findings show. In `library` the
instances are the smallest in which two of the racing parties and a third that
disturbs them are there: two sources share a kevent, two calls of apply compete
for a width that does not suffice for both, two calls of `dispatch_sync` exceed
it alone, a ring of two slots meets three operations, an item is pushed while
one worker takes the last and another times out; times, transforms and
operations enumerate inputs on both sides of the thresholds of the code. All
runs stop when their budget of calls is used up, so deadlock is not checked as
such. `NothingLost` in `Queue`, `NoWaiterStranded` in `Group` (when everybody
else has left the library, a thread asleep in `dispatch_group_wait` sleeps on a
group that is not empty) and `NoItemStranded`, `MainItemNoticed`,
`NothingForgotten`, `TimerKept`, `ManagerSeesWork`, `DiskNeverIdlesWithWork`,
`StreamNotStalled` (part of `StreamSound`) and `NothingLeaks` in the modules of
`library` say of every state at rest that whoever is blocked then should be;
where the schedulers of the code are fair this is what a liveness property
would add, without assuming anything of the clients.

Symmetry is used in the group and queue runs, which check safety only: threads,
blocks, clients and workers occur only in sets and as keys. `futex`,
`semaphore` and `once` check liveness and use none, `library` does without.

**Fairness.** `FairSpec` is weak fairness of the steps a thread takes inside
the library: the operating system runs every runnable thread, a timeout
expires, a thread that may take a permit of the kernel's takes one, and the
function given to `dispatch_once` returns. Nothing is assumed of the clients:
no call is ever forced.

## Findings

Five runs expect a violation. Each states a sentence of the documentation, and
TLC's trace is a schedule of the code that contradicts it.

- `group_notify`: `dispatch_group_leave` decides that the group is empty by its
  increment and takes the notification list later. If the group is entered
  again and a block is registered in between, the late wake submits it although
  the group was not empty since (`dispatch/group.h:173`).
- `semaphore_timeout`: a timed or polling wait whose timeout raced with a signal
  drains the futex by a wait without a timeout. Another waiter can take the
  permit first, and the call does not return until the next signal
  (`man/dispatch_semaphore_create.3:86`). `WakeupsConserved` still holds: the
  total is right, the permit just has no owner.
- `queue_barrier`: `_dispatch_sync_f2` checks tail and suspension, then adds to
  `dq_running`. A barrier sync that was handed the queue in between leaves both
  counters even, so the sync runs beside it (`dispatch/queue.h:648`).
  `LockedBarrierExclusive` holds for all other barriers.
- `queue_pending`: `_dispatch_async_f2` gives its share of `dq_running` back
  without looking whether it was the last. The barrier that ended in between
  left the wakeup to it; items stay on the list, and the queue can be disposed
  of with them (`dispatch/queue.h:63`). `NothingElseLost` says that, with this
  step excluded by the history variable `missed`, nothing is lost.
- `queue_order`: a drain that took the only item and finds the queue suspended
  puts it back, and a synchronous call that had passed its checks overtakes it
  (`queue.c:1631`). `OrderUnlessSuspended` holds in `queue_serial`.

## Observations

What follows was met while modelling. The models do what the code does there;
the properties say where they make an exception for it.

- Base32: with four bytes left over the last character before the padding is
  made of `bytes[size-1] & 0x18` (`transform.c` 725), so of bits 4 and 3 of the
  byte instead of 1 and 0, and the text is not the one of RFC 4648 that
  `private/data_private.h:83` names. `TransformFaithful` excepts it (`FourLeft`).
- The decoders depend on how data is cut into regions. `Regular` has the cuts
  `TransformFaithful` is about: whole groups of Base32 or Base64 characters in
  every region; in UTF no region that starts inside a character and ends inside
  another, and no cut inside a unit of UTF-16. Data cut otherwise when it is
  decoded is the second exception of `TransformFaithful`. The third is `NULL`
  where there is a result (`Unserved`): for one byte whose encoding is to be
  detected, which `private/data_private.h` says is UTF-8, and for text that may
  need more than `BUFFER_MALLOC_MAX`. The test `wch < 0xdfff` (`transform.c` 342)
  lets U+DFFF pass; no content of the run has it.
- `_dispatch_get_next_timer_fire` gives no timeout for a timer more than a year
  away, where its comment (`source.c` 1112-1114) announces a long one.
  `ManagerWakesInTime` excepts such timers.
- A timer that is suspended while the manager rearms it goes to the disarmed
  list with its armed flag set, and the resume does not bring it back, unlike
  what the comment at `source.c` 1007 says (`raced` in `TimerKept`). The
  manager counts at most `INT_MAX` missed intervals at a time, so those beyond
  come later (`TimerCountsIntervals`).
- `_dispatch_apply_redirect` may compute an excess larger than the share it
  added, since `dispatch_sync` ignores the width; the unsigned `da_width` then
  wraps (`apply.c` 145), and `da_thr_cnt` with it. The model follows the call: it
  pushes as many continuations as the wrapped number says (about 2^32 in the
  code, `UINT32` in the model), and `dq_running` of a queue can read 0 during the
  call.
  `ApplySound` still holds, so what the wrap costs is memory and the width, not
  the iterations or the balance.
- A stop between the two error checks of `_dispatch_stream_handler` can leave
  the other operations of a stream without a handler run (`"stop"` in `raced`,
  the exception of `StreamNotStalled`). A cleanup that takes the last operation
  while a handler run is queued lets the next operation queue a second run; both
  may get `EAGAIN` and resume the source, and the second resume stops the
  process (`object.c` 278; `"emptied"` in `raced`, the exception of
  `SourceResumedOnce`).
- `_dispatch_disk_cleanup_operations` does not look at `op->active`. An operation
  it completes while it is performed is completed again when its I/O ends well
  (`io.c` 1694-1697 and 1911-1934); `early` has the first, `again` the second, and
  `ReleasedAndReportedOnce` says that there is no other way to the second. The
  lists and the operation's memory are undefined afterwards, so nothing is
  claimed there (`Defined`). A bad descriptor sweeps the operations of other
  files on the disk away, and reports them without an error (`swept`).
- A subrange whose offset is positive and whose length is `SIZE_MAX` wraps the sum
  at `data.c` 237 and skips the clamp: of a leaf it has the size `SIZE_MAX`, of a
  composite it stops the process (`astray`). `DataSound` excepts such calls.
- The last handler call of a write passes no data when a system call wrote
  nothing, although bytes are left (`WriteReportsRemainder`).
- The client's handler of a `dispatch_read` or `dispatch_write` of length 0 is
  submitted by the close queue and its result by the barrier queue, so the
  handler may run before the result is there (`early` in `CleanupComesLast`).
- `dispatch_group_enter` takes no reference. The release of a group that has such
  members and no block ends in the in-use check (`DisposedInUse` below). A plain
  leave made when only the notification list keeps the group alive may also find
  it freed, since another wake in progress may take the list; the API has such
  callers hold a reference, and `Leave` requires one.
- Closing a channel whose creation failed before it had an fd entry follows a
  null pointer (`io.c` 677; `crashed` ends the behaviour).
- The main queue's eventfd is written after the test that it is open, and may be
  closed in between (`ClientTest`, `ClientWrite`). The count of the select
  workaround counts a descriptor twice when two sources rearm one kevent;
  `SelectCovers` needs only that it is not too small.

## Theorems

TLAPS proves the following for every set of threads and every value of the
other constants, from the assumptions named in the modules (the set of threads
is finite; bounds are naturals; the initial value does not exceed the maximum;
`NULL` and `DONE` are no threads).

- **FutexProofs**: `FutexTypes`, `FutexCountsWaiters`, `FutexLosesNoWakeup`,
  `FutexImplementsSemaphore`. The invariant is `TypeOK /\ NWaitersExact /\
  NoLostWakeup`. `NoLostWakeup` is inductive only with `NWaitersExact`: a
  signal must know that a positive number of sleepers shows in the word it
  increments, else it would not go to `FUTEX_WAKE`. The cardinalities are
  handled by lemmas on what one thread entering or leaving a set does to its
  size.
- **SemaphoreProofs**: `SemaphoreTypes`, `SemaphoreConservesWakeups`,
  `SemaphoreOutlivesUsers`, `SemaphoreImplementsCounting`. The invariant adds
  two parts to `WakeupsConserved`: `RefsExact` (the count is the creator's
  reference plus one for each signaller that has retained) and `OwnerLast` (the
  creator's reference is gone only if nobody waits, and so, by conservation,
  nobody is between increment and retain). From them a freed semaphore has no
  user, which is the argument of the comment at `semaphore.c` 166-170.
- **OnceProofs**: `OnceTypes`, `OnceRunsOnce`, `OnceWaitersAlive`,
  `OnceSemaphoreClean`. The invariant has the parts `Control` (who may run and
  what the predicate is then), `Locals` (what each label says of the thread's
  own variables and semaphore) and `Stack`. The stack is described without
  reachability: the successor of a stacked waiter is stacked or is the runner,
  no two waiters share a successor, and none has the top as its successor. This
  is enough to show that a waiter taken off the stack is not met again.
- **GroupProofs**: `TrueReturn`, `ListsImplemented`, `SubmittedOnce`. The
  abstract specification **NotifyList** says what notifiers and wakes do to the
  lists of blocks: one open list that grows at its end, and one closed list for
  each wake that has taken the open one; a block is on the list before it is
  linked. Its invariant `Lists` gives every live block a list and a rank on it,
  such that a link made, or about to be made, leads to the next rank: none is
  lost and none shared, without induction over the links. `Group` refines it
  (`ListsImplemented`), and takes `Lists` from there. The rest of the invariant
  `IInv` says what each label knows: who may be between the two halves of a
  step on the list (`Open`), which references a caller relies on (`Borrowed`),
  and that a thread which still has to look at the waiters or at the list does
  so after a leave that emptied the group (`WaitersSeen`, `ListSeen`).
- **GroupCountProofs**: `Coverage`, `NobodyStranded`, `RefsKept`,
  `DisposedInUse`. The counts: `RefCount` (the reference count is the
  creator's reference, one for each block of `dispatch_group_async`, and one for
  every release to come, wake and list) and `WaitersCovered`, kept by every step
  by the lemmas on cardinalities. `DisposedInUse` is the action property
  `StopsOnMisuse`: the process is stopped only by a leave of an empty group, or
  by the check in `_dispatch_semaphore_dispose` (`semaphore.c` 116-123) when the
  last reference goes while members of plain `dispatch_group_enter` are in the
  group and no block is. Both cases are reachable; what the proof excludes is a
  block of `dispatch_group_async` that is in a group being disposed of, which
  needs that it leaves before it releases.
- **TimeProofs**: `TimeSafe`, for every `HALF > 3`, so for 64 bits too. The
  invariant `TimeTypeOK` says that a moved time is `DispatchTime` of what it was
  made of; the lemmas give the three cases (exact, too late, too early) for each
  clock, and the delay that `_dispatch_timeout` finds.

The refinement theorems have the two usual halves, initial states and steps;
each action maps to one abstract step or to a stutter.

Only model-checked: all liveness properties (the prover does not handle
fairness and `ENABLED`), and everything about `Queue` and the modules
of `library` other than `Time`. Those of `Data`, `Transform` and `IOOperation`
are recursive in the data, which the prover has no induction for.

## What is not modelled

- Weak memory: the steps are sequentially consistent.
- Counters do not wrap, except where the code checks for it (semaphore and
  futex value), in `Apply` (`uint32_t`), in `Time`, in the ranges of `Data` and
  in the missed intervals of `Timer`; the group's members, the suspensions and the calls are bounded
  far below the code's limits, and the group's overflow is out of scope.
- Chains of queues: `Queue` has the root queue as its target, so redirection
  through intermediate queues is only in `Apply`; recursive synchronous calls
  and those to the main queue are missing.
- `Source`: handlers are set before the first resume; process, signal and vnode
  filters are not told apart, nor is what the kernel reports in `fflags`.
- I/O: the interval of `dispatch_io_set_interval` is a timer that may fire at
  any time (`Timer` in `IOOperation`); the target queue of a channel,
  `dispatch_io_get_descriptor` and the bytes themselves are left out.
- In `Data` only offsets and lengths of a subrange reach `SIZE_MAX`, not the
  sizes of objects; allocation does not fail, but for the limit
  `BUFFER_MALLOC_MAX` of `Transform`.
- `Apply` leaves out the lock of a drain, which makes `dq_running` odd.
- `dispatch_source_cancel` of a timer: `Timer` has the cancel by the last release
  and by the handler of `dispatch_after`.
- `dispatch_get_specific`, which repeats the lookup along the targets, and
  `dispatch_set_current_target_queue`.
- Code of other builds (Mach ports and messages, Objective-C, POSIX and Win32
  semaphores), and code without state that others read: logging, debugging
  descriptions, tracing, benchmark, the per-thread cache of continuations, the
  initialisation before threads exist, and the wrappers under `shims/`, whose
  specification the atomic steps of the modules are.
