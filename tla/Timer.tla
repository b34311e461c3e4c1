------------------------------- MODULE Timer -------------------------------
(***************************************************************************)
(* Timer sources and dispatch_after.  The manager keeps the timers on a    *)
(* list per clock, in order of their next fire date, and those that are    *)
(* disabled, suspended or late on the disarmed list.  It fires the due     *)
(* ones; a handler may run late, on another thread, while the clock goes   *)
(* on, and is told how many intervals have elapsed.  Setting a timer       *)
(* suspends it and has the manager install the new parameters.             *)
(***************************************************************************)
EXTENDS SourceInvoke, FiniteSets, TLC

CONSTANTS Timers,
          Clocks,      \* "wall", "mach" or both
          After,       \* the timers of dispatch_after_f
          Settings,    \* of each timer: the <<start, interval>> it may be given
          INT_MAX,     \* the most intervals one firing counts
          INT64_MAX, FOREVER_NSEC,
          MaxNow, MaxSets, MaxSuspends, MaxReleases    \* bounds of the model

VARIABLES tm,       \* the timer sources
          lists,    \* _dispatch_kevent_timer: the dk_sources of the three kevents
          now,      \* the two clocks
          mgrq,     \* _dispatch_source_set_timer3 calls on the manager's queue
          manager,  \* what the manager is doing in _dispatch_run_timers2
          budget    \* what is left of the bounds

vars == <<tm, lists, now, mgrq, manager, budget>>

Idle == [pc |-> "idle", list |-> "none", now |-> 0, timer |-> "none"]

NewTimer ==
    NewSource(TRUE) @@ [ident |-> "wall", target |-> 0, interval |-> 0, last_fire |-> 0,
                        missed |-> 0, prev |-> 0, sets |-> <<>>,
                        held |-> 1,      \* suspensions of the program's
                        start |-> 0, elapsed |-> 0, calls |-> 0,
                        raced |-> FALSE]                           \* history

Init ==
    /\ tm = [t \in Timers |-> NewTimer]
    /\ lists = [l \in Clocks \cup {"disarm"} |-> <<>>]
    /\ now = [c \in Clocks |-> 1]
    /\ mgrq = <<>> /\ manager = Idle
    /\ budget = [sets |-> MaxSets, suspends |-> MaxSuspends, releases |-> MaxReleases]

Set(t, r) == tm' = [tm EXCEPT ![t] = r]
Without(l, t) == SelectSeq(l, LAMBDA x : x # t)
Unlisted(t) == [l \in DOMAIN lists |-> Without(lists[l], t)]

\* The position at which a timer with this target goes into a list.
Slot(l, target) ==
    LET later == {i \in 1..Len(l) : tm[l[i]].target = 0 \/ target < tm[l[i]].target}
    IN IF later = {} THEN Len(l) + 1
       ELSE CHOOSE i \in later : \A j \in later : i <= j

Inserted(l, t, target) ==
    LET i == Slot(l, target) IN SubSeq(l, 1, i - 1) \o <<t>> \o SubSeq(l, i, Len(l))

\* _dispatch_timer_list_update: r is the timer as it is now.
Disarms(r) == r.target = 0 \/ r.suspends > 0 \/ r.pending > 0
ListUpdated(t, r) ==
    LET l == IF Disarms(r) THEN "disarm" ELSE r.ident IN
    IF ~r.has_dkev THEN lists
    ELSE [Unlisted(t) EXCEPT ![l] = IF Disarms(r) THEN Append(@, t)
                                    ELSE Inserted(@, t, r.target)]

Updated(r) == IF r.has_dkev /\ Disarms(r) THEN [r EXCEPT !.armed = FALSE] ELSE r

(***************************************************************************)
(* Invoking a timer.                                                       *)
(***************************************************************************)
ManagerFree ==
    manager.pc = "idle" /\ \A t \in Timers : tm[t].on = "mgr" => tm[t].pc \in {"idle", "queued"}
OnRightThread(t) == tm[t].on = "mgr" => ManagerFree

\* _dispatch_source_set_timer2 suspends the source, which ends the drain.
SetTimer2(r) == [Suspended(r) EXCEPT !.sets = Tail(@), !.items = Len(r.sets) > 1]

InvokeBegin(t) ==
    LET r == tm[t]
        first == IF r.targetq = "mgr" THEN [FirstItems(r, FALSE, FALSE) EXCEPT !.handler = t \notin After]
                 ELSE r
    IN /\ r.pc = "queued" /\ OnRightThread(t)
       /\ IF r.suspends > 0
          THEN Set(t, [r EXCEPT !.pc = "unlock"]) /\ UNCHANGED mgrq
          ELSE IF r.sets = <<>>
          THEN Set(t, [first EXCEPT !.pc = "decide"]) /\ UNCHANGED mgrq
          ELSE /\ Set(t, [SetTimer2(first) EXCEPT !.pc = "decide"])
               /\ mgrq' = Append(mgrq, [ds |-> t, params |-> Head(r.sets)])
       /\ UNCHANGED <<lists, now, manager, budget>>

Decide(t) ==
    /\ tm[t].pc = "decide"
    /\ Set(t, Decided(tm[t]))
    /\ UNCHANGED <<lists, now, mgrq, manager, budget>>

\* _dispatch_kevent_register; the armed flag is set whatever list the timer is on.
Register(t) ==
    LET r == [tm[t] EXCEPT !.is_installed = TRUE] IN
    /\ r.pc = "register"
    /\ lists' = ListUpdated(t, r)
    /\ Set(t, Registered([Updated(r) EXCEPT !.armed = TRUE]))
    /\ UNCHANGED <<now, mgrq, manager, budget>>

Rearm(t) ==
    LET r == tm[t] IN
    /\ r.pc = "rearm"
    /\ lists' = ListUpdated(t, r)
    /\ Set(t, [r EXCEPT !.armed = TRUE, !.pc = "unlock", !.raced = @ \/ r.suspends > 0])
    /\ UNCHANGED <<now, mgrq, manager, budget>>

Unregister(t) ==
    /\ tm[t].pc = "unregister"
    /\ lists' = Unlisted(t)
    /\ Set(t, ToCancel(Unregistered(tm[t])))
    /\ UNCHANGED <<now, mgrq, manager, budget>>

Cancel(t) ==
    /\ tm[t].pc = "cancel"
    /\ Set(t, CancelCallout(tm[t]))
    /\ UNCHANGED <<lists, now, mgrq, manager, budget>>

\* _dispatch_source_latch_and_call: the exchange ...
Latch(t) ==
    LET r == tm[t] IN
    /\ r.pc = "latch"
    /\ Set(t, IF Dying(r) THEN Requeue(r, "mgr")
              ELSE [r EXCEPT !.prev = r.pending, !.pending = 0, !.pc = "data"])
    /\ UNCHANGED <<lists, now, mgrq, manager, budget>>

\* ... and _dispatch_source_timer_data, which looks at the clock again.
TimerData(r, n) == r.prev - r.missed + (n - r.last_fire) \div r.interval

Call(t) ==
    LET r == tm[t]
        n == now[r.ident]
    IN /\ r.pc = "data"
       /\ Set(t, [r EXCEPT !.pc = "calling", !.prev = 0, !.calls = IF t \in After THEN 1 + @ ELSE 0,
                           !.delivered = @ + TimerData(r, n),
                           !.missed = (n - r.last_fire) \div r.interval,
                           !.elapsed = 1 + (n - r.start) \div r.interval])
       /\ UNCHANGED <<lists, now, mgrq, manager, budget>>

\* The handler returns; that of dispatch_after cancels and releases its source.
HandlerReturns(t) ==
    LET r == Requeue(tm[t], "mgr") IN
    /\ tm[t].pc = "calling"
    /\ Set(t, IF t \in After THEN Dispose([r EXCEPT !.canceled = TRUE, !.xref = @ - 1]) ELSE r)
    /\ UNCHANGED <<lists, now, mgrq, manager, budget>>

Unlock(t) ==
    /\ tm[t].pc = "unlock"
    /\ Set(t, Unlocked(tm[t]))
    /\ UNCHANGED <<lists, now, mgrq, manager, budget>>

Recheck(t) ==
    /\ tm[t].rechecks > 0
    /\ Set(t, Rechecked(tm[t]))
    /\ UNCHANGED <<lists, now, mgrq, manager, budget>>

Invoke(t) ==
    \/ InvokeBegin(t) \/ Decide(t) \/ Register(t) \/ Rearm(t) \/ Unregister(t) \/ Cancel(t)
    \/ Latch(t) \/ Call(t) \/ HandlerReturns(t) \/ Unlock(t) \/ Recheck(t)

(***************************************************************************)
(* The manager.                                                            *)
(***************************************************************************)
\* Bug: the lists are not brought up to date.
SetTimer3Bug ==
    LET t == Head(mgrq).ds
        p == Head(mgrq).params
        r == [tm[t] EXCEPT !.ident = p.ident, !.target = p.target, !.interval = p.interval,
                           !.last_fire = 0, !.missed = 0, !.pending = 0,
                           !.start = p.target, !.delivered = 0]
        q == [Resumed(r) EXCEPT !.xref = @ - 1]
    IN /\ mgrq # <<>> /\ ManagerFree
       /\ mgrq' = Tail(mgrq)
       /\ Set(t, IF q.xref = -1 THEN Dispose(Wakeup(q)) ELSE q)
       /\ UNCHANGED <<lists, now, manager, budget>>

\* _dispatch_source_set_timer3
SetTimer3 ==
    LET t == Head(mgrq).ds
        p == Head(mgrq).params
        r == [tm[t] EXCEPT !.ident = p.ident, !.target = p.target, !.interval = p.interval,
                           !.last_fire = 0, !.missed = 0, !.pending = 0,
                           !.start = p.target, !.delivered = 0]
        q == [Resumed(Updated(r)) EXCEPT !.xref = @ - 1]
    IN /\ mgrq # <<>> /\ ManagerFree
       /\ mgrq' = Tail(mgrq)
       /\ lists' = ListUpdated(t, r)
       /\ Set(t, IF q.xref = -1 THEN Dispose(Wakeup(q)) ELSE q)
       /\ UNCHANGED <<now, manager, budget>>

\* _dispatch_run_timers2: read the clock once ...
RunTimers(c) ==
    /\ ManagerFree /\ lists[c] # <<>>
    /\ manager' = [Idle EXCEPT !.pc = "run", !.list = c, !.now = now[c]]
    /\ UNCHANGED <<tm, lists, now, mgrq, budget>>

\* ... and go on while the first timer is due.
Due == lists[manager.list] # <<>> /\ tm[Head(lists[manager.list])].target <= manager.now

RunLate ==
    LET t == Head(lists[manager.list]) IN
    /\ manager.pc = "run" /\ Due
    /\ tm[t].suspends > 0 \/ tm[t].pending > 0
    /\ lists' = ListUpdated(t, tm[t])
    /\ Set(t, Updated(tm[t]))
    /\ UNCHANGED <<now, mgrq, manager, budget>>

RunFire ==
    LET t == Head(lists[manager.list])
        count == 1 + (manager.now - tm[t].target) \div tm[t].interval
        missed == IF count > INT_MAX THEN INT_MAX ELSE count
        r == [tm[t] EXCEPT !.target = @ + missed * tm[t].interval]
    IN /\ manager.pc = "run" /\ Due
       /\ tm[t].suspends = 0 /\ tm[t].pending = 0
       /\ lists' = ListUpdated(t, r)
       /\ Set(t, [r EXCEPT !.last_fire = manager.now, !.pending = @ + missed])
       /\ manager' = [manager EXCEPT !.pc = "wakeup", !.timer = t]
       /\ UNCHANGED <<now, mgrq, budget>>

RunWakeup ==
    /\ manager.pc = "wakeup"
    /\ Set(manager.timer, Wakeup(tm[manager.timer]))
    /\ manager' = [manager EXCEPT !.pc = "run", !.timer = "none"]
    /\ UNCHANGED <<lists, now, mgrq, budget>>

RunDone ==
    /\ manager.pc = "run" /\ ~Due
    /\ manager' = Idle
    /\ UNCHANGED <<tm, lists, now, mgrq, budget>>

\* _dispatch_get_next_timer_fire: how long the manager sleeps, {} for ever.
Delta(t) == IF tm[t].target <= now[tm[t].ident] THEN 0 ELSE tm[t].target - now[tm[t].ident]
NextTimerFire ==
    LET ds == {Delta(Head(lists[c])) : c \in {c \in Clocks : lists[c] # <<>>}}
    IN {d \in ds : d <= FOREVER_NSEC /\ \A e \in ds : d <= e}

(***************************************************************************)
(* The program and the clocks.                                             *)
(***************************************************************************)
Tick(c) ==
    /\ now[c] < MaxNow
    /\ now' = [now EXCEPT ![c] = @ + 1]
    /\ UNCHANGED <<tm, lists, mgrq, manager, budget>>

Usable(t) == tm[t].xref >= Len(tm[t].sets) + Cardinality({i \in DOMAIN mgrq : mgrq[i].ds = t})

DISPATCH_TIME_NOW == 0
DISPATCH_TIME_FOREVER == -1

\* The parameters that dispatch_source_set_timer makes of its arguments: a
\* negative start is a date of the wall clock, an interval is never zero.
Params(start, interval) ==
    LET i == CASE interval = 0 -> 1 [] interval < 0 -> INT64_MAX [] OTHER -> interval IN
    CASE start = DISPATCH_TIME_NOW -> [ident |-> "mach", target |-> now["mach"], interval |-> i]
      [] start = DISPATCH_TIME_FOREVER -> [ident |-> "mach", target |-> INT64_MAX, interval |-> i]
      [] start < DISPATCH_TIME_FOREVER -> [ident |-> "wall", target |-> -start, interval |-> i]
      [] OTHER -> [ident |-> "mach", target |-> start, interval |-> i]

\* dispatch_after_f sets its timer once, before it resumes it, unless the time
\* has come: then the function is submitted without a timer.
AfterSets(t, p) ==
    /\ tm[t].target = 0 /\ tm[t].sets = <<>> /\ tm[t].suspends = 1
    /\ tm[t].targetq = "mgr" /\ p.target > now[p.ident]

\* dispatch_source_set_timer
SetTimer(t) ==
    \E a \in Settings[t] :
      LET p == Params(a[1], a[2])
          r == [tm[t] EXCEPT !.sets = Append(@, p), !.items = TRUE, !.xref = @ + 1] IN
      /\ budget.sets > 0 /\ Usable(t)
      /\ t \in After => AfterSets(t, p)
      /\ budget' = [budget EXCEPT !.sets = @ - 1]
      /\ Set(t, Wakeup(r))
      /\ UNCHANGED <<lists, now, mgrq, manager>>

Suspend(t) ==
    /\ budget.suspends > 0 /\ Usable(t) /\ t \notin After
    /\ budget' = [budget EXCEPT !.suspends = @ - 1]
    /\ Set(t, [Suspended(tm[t]) EXCEPT !.held = @ + 1])
    /\ UNCHANGED <<lists, now, mgrq, manager>>

Resume(t) ==
    /\ tm[t].held > 0
    /\ t \in After => tm[t].sets # <<>>
    /\ Set(t, Resumed([tm[t] EXCEPT !.held = @ - 1]))
    /\ UNCHANGED <<lists, now, mgrq, manager, budget>>

\* dispatch_release by the owner of a timer.
Release(t) ==
    LET r == [tm[t] EXCEPT !.xref = @ - 1] IN
    /\ budget.releases > 0 /\ t \notin After /\ Usable(t) /\ tm[t].held = 0
    /\ budget' = [budget EXCEPT !.releases = @ - 1]
    /\ Set(t, IF r.xref = -1 THEN Dispose(Wakeup(r)) ELSE r)
    /\ UNCHANGED <<lists, now, mgrq, manager>>

Next ==
    \/ \E t \in Timers : Invoke(t) \/ SetTimer(t) \/ Suspend(t) \/ Resume(t) \/ Release(t)
    \/ \E c \in Clocks : Tick(c) \/ RunTimers(c)
    \/ SetTimer3 \/ RunLate \/ RunFire \/ RunWakeup \/ RunDone

Spec == Init /\ [][Next]_vars

(* The manager never oversleeps: what _dispatch_get_next_timer_fire        *)
(* returns is no later than the target of any timer on an active list, so  *)
(* each list is sorted although timers are set, fired and rearmed.  A      *)
(* timer that is more than FOREVER_NSEC away is excepted: for it there is  *)
(* no timeout at all.                                                      *)
ManagerWakesInTime ==
    manager.pc = "idle" =>
      \A c \in Clocks : \A i \in DOMAIN lists[c] :
        /\ tm[lists[c][i]].ident = c
        /\ Delta(lists[c][i]) <= FOREVER_NSEC =>
             \E d \in NextTimerFire : d <= Delta(lists[c][i])

(* A handler is told of every interval that elapsed since the start, once: *)
(* the counts delivered by _dispatch_source_timer_data add up to the       *)
(* intervals elapsed when the last one was computed, or to one less, what  *)
(* the manager has fired again in the meantime being delivered later.      *)
(* Once more than INT_MAX intervals have gone by some may be delivered     *)
(* later still, but never more than elapsed.                               *)
TimerCountsIntervals ==
    \A t \in Timers :
      tm[t].pc = "calling" =>
        /\ tm[t].delivered <= tm[t].elapsed
        /\ tm[t].elapsed <= INT_MAX => tm[t].delivered + tm[t].pending >= tm[t].elapsed - 1

TimerQuiet(t) ==
    /\ tm[t].pc = "idle" /\ tm[t].rechecks = 0 /\ tm[t].suspends = 0
    /\ manager.pc = "idle" /\ mgrq = <<>>

OnItsList(t) == \E i \in DOMAIN lists[tm[t].ident] : lists[tm[t].ident][i] = t

(* A timer that is set, not suspended and not being dealt with is on the   *)
(* active list of its clock, so it will fire again; a released one is off  *)
(* the lists and freed.  Excepted is a timer that was suspended while the  *)
(* manager was rearming it.                                                *)
TimerKept ==
    \A t \in Timers : TimerQuiet(t) =>
      IF Dying(tm[t]) THEN ~tm[t].has_dkev /\ tm[t].ref = -1
      ELSE tm[t].target = 0 \/ tm[t].raced \/ (OnItsList(t) /\ tm[t].pending = 0)

(* No handler runs before its time, and a function given to dispatch_after *)
(* runs at most once.                                                      *)
TimersFireOnTime ==
    \A t \in Timers :
      /\ tm[t].pc = "calling" => now[tm[t].ident] >= tm[t].start
      /\ t \in After => tm[t].calls <= 1

(* Timers keep all four.                                                   *)
TimerSound == ManagerWakesInTime /\ TimerCountsIntervals /\ TimerKept /\ TimersFireOnTime
============================================================================
