----------------------------- MODULE TimerServer -----------------------------
(***************************************************************************)
(* The timer manager and the timer server.                                 *)
(*                                                                         *)
(*   librtems/rtems/timer/timerserver.c, timerserverfireafter.c,           *)
(*   timerfireafter.c, timerreset.c, timercancel.c, timercreate.c          *)
(*   librtems/score/watchdog/watchdogadjust.c                              *)
(*                                                                         *)
(* A task is inside a directive with dispatching disabled, and the server  *)
(* is not preemptible: one of them runs at a time, in steps that end where *)
(* interrupts are enabled.  An interrupt handler runs between two steps    *)
(* and is one step itself, and so is what a timer's routine does.  The     *)
(* chain of the system's clock tick is the ticks its watchdogs have to go  *)
(* (see Watchdog for the chain); the time-of-day timers are kept the same  *)
(* way as those counted in ticks.                                          *)
(***************************************************************************)
EXTENDS OrderedQueue

CONSTANTS
  Timer,
  None,         \* no timer
  System,       \* Interval_watchdogs.System_watchdog
  MaxInterval,  \* bound on the intervals asked for, in ticks
  Scenarios     \* what a behaviour has: handlers that start or cancel timers, timer
                \* routines that do, ticks while a helper sets the system watchdog
                \* ("slip"); and a bound on its ticks

ASSUME TimerAssumption ==
  /\ None \notin Timer /\ System \notin Timer
  /\ MaxInterval \in Nat \ {0}
  /\ Scenarios \subseteq [ops : SUBSET {"start", "cancel", "routine", "slip"}, ticks : Nat]

VARIABLES
  scenario, \* the one of this behaviour
  now,      \* _Watchdog_Ticks_since_boot
  left,     \* ticks to go on the system's chain, -1 when not on it
  class,    \* the_timer->the_class
  initial,  \* the_timer->Ticker.initial
  wd,       \* Interval_watchdogs: the chain, its deltas and the snapshots
  helper,   \* system_watchdog_helper is set
  changed,  \* generation is not my_generation of the helper
  event,    \* RTEMS_EVENT_SYSTEM_TIMER_SERVER is pending
  pc,       \* where the task or the server is
  timer,    \* the timer of the task's directive, or the one the server serves
  ticks,    \* the interval of the task's directive, or the helper's delta
  kind,     \* the class of the task's directive
  units,    \* units of _Watchdog_Adjust_forward_locked
  due,      \* history: the tick each started timer is to fire at, or -1
  slip      \* history: ticks between the snapshot a helper used and its arming of System

timerVars == <<left, class, initial, due>>
baseVars == <<pc, timer, ticks, kind, units>>
serverVars == <<wd, helper, changed, event, slip>>
vars == <<scenario, now, timerVars, baseVars, serverVars>>

IsrOps == scenario.ops
MaxNow == scenario.ticks

Class == {"dormant", "interval", "on_task"}
Interval == 1 .. MaxInterval

Init ==
  /\ scenario \in Scenarios
  /\ now = 0 /\ left = [x \in Timer \cup {System} |-> -1]
  /\ class = [t \in Timer |-> "dormant"] /\ initial = [t \in Timer |-> 0]
  /\ wd = [chain |-> <<>>, delta |-> [t \in Timer |-> 0],
           last |-> 0, current |-> 0, swd |-> 0]
  /\ helper = FALSE /\ changed = FALSE /\ event = FALSE
  /\ pc = "idle" /\ timer = None /\ ticks = 0 /\ kind = "dormant" /\ units = 0
  /\ due = [t \in Timer |-> -1] /\ slip = 0

-----------------------------------------------------------------------------
(***************************************************************************)
(* The server's chain.                                                     *)
(***************************************************************************)
OnServer(w, t) == t \in ToSet(w.chain)

\* Ticker.state is not WATCHDOG_INACTIVE.
Active(t) == left[t] >= 0 \/ OnServer(wd, t)

FirstDelta(w) == w.delta[Head(w.chain)]

Less(a, b) == IF a > b THEN a - b ELSE 0

\* The first section of _Timer_server_Insert_timer.
Refreshed(w) ==
  LET d == now - w.last IN
  [w EXCEPT !.last = now, !.current = now, !.swd = Less(@, d),
            !.delta = IF w.chain = <<>> THEN @
                      ELSE [@ EXCEPT ![Head(w.chain)] = Less(FirstDelta(w), d)]]

\* The ticks to the watchdogs at the places of the chain, 0 for its head.
Reach(w) == Ticks(w.chain, w.delta)

\* How many watchdogs are due no later than in n ticks.
Behind(w, n) ==
  CHOOSE p \in 0 .. Len(w.chain) :
    Reach(w)[p] <= n /\ (p < Len(w.chain) => n < Reach(w)[p + 1])

\* _Watchdog_Insert_locked: behind those watchdogs.
Placed(w, t, n) ==
  LET p == Behind(w, n)
      d == n - Reach(w)[p]
  IN [w EXCEPT !.chain = InsertAt(@, p + 1, t),
               !.delta = [v \in Timer |->
                            IF v = t THEN d
                            ELSE IF p < Len(w.chain) /\ v = w.chain[p + 1] THEN @[v] - d
                            ELSE @[v]]]

\* Defect: the ticks of the removed timer are lost to the next one.
WithoutTicks(w, t) ==
  [w EXCEPT !.chain = Extracted(@, t), !.delta = [@ EXCEPT ![t] = 0]]

\* _Watchdog_Remove: the next one takes over the ticks.
Without(w, t) ==
  IF ~OnServer(w, t) THEN w
  ELSE LET p == CHOOSE i \in DOMAIN w.chain : w.chain[i] = t IN
       [w EXCEPT !.chain = Extracted(@, t),
                 !.delta = [v \in Timer |->
                              IF v = t THEN 0
                              ELSE IF p < Len(w.chain) /\ v = w.chain[p + 1] THEN @[v] + @[t]
                              ELSE @[v]]]

\* _Timer_Cancel, with interrupts disabled.
Cancelled(t) == Without(wd, t)
CancelTicks(t) == [left EXCEPT ![t] = -1]

-----------------------------------------------------------------------------
(***************************************************************************)
(* _Timer_server_Update_system_watchdog.                                   *)
(***************************************************************************)
\* The system watchdog has to be set for the first timer of w.
MustArm(w) ==
  w.chain # <<>> /\ (left[System] < 0 \/ FirstDelta(w) # w.swd)

\* One turn of the loop up to the release of the lock, or its end.
UpdateTurn ==
  /\ changed' = FALSE
  /\ IF MustArm(wd)
     THEN /\ helper' = TRUE /\ pc' = "remove" /\ ticks' = FirstDelta(wd)
          /\ wd' = [wd EXCEPT !.swd = FirstDelta(wd)] /\ slip' = now - wd.last
     ELSE helper' = FALSE /\ pc' = "idle" /\ UNCHANGED <<ticks, wd, slip>>
  /\ UNCHANGED <<now, timerVars, timer, kind, units, event>>

Update ==
  /\ pc = "update"
  /\ IF helper
     THEN pc' = "idle" /\ UNCHANGED <<now, timerVars, timer, ticks, kind, units, serverVars>>
     ELSE UpdateTurn

UpdateRemove ==
  /\ pc = "remove" /\ left' = [left EXCEPT ![System] = -1] /\ pc' = "arm"
  /\ UNCHANGED <<now, class, initial, due, timer, ticks, kind, units, serverVars>>

UpdateArm ==
  /\ pc = "arm" /\ left' = [left EXCEPT ![System] = ticks] /\ pc' = "again"
  /\ UNCHANGED <<now, class, initial, due, timer, ticks, kind, units, serverVars>>

\* Defect: the helper does not look whether the chain changed meanwhile.
UpdateAgainOnce ==
  /\ pc = "again" /\ helper' = FALSE /\ pc' = "idle"
  /\ UNCHANGED <<now, timerVars, timer, ticks, kind, units, wd, changed, event, slip>>

UpdateAgain ==
  /\ pc = "again"
  /\ IF changed
     THEN UpdateTurn
     ELSE /\ helper' = FALSE /\ pc' = "idle"
          /\ UNCHANGED <<now, timerVars, timer, ticks, kind, units, wd, changed, event, slip>>

\* The same, on the watchdogs w, by one that is not interrupted; a is left as
\* it is up to then.
UpdateAtOnce(w, a) ==
  /\ changed' = helper
  /\ IF ~helper /\ MustArm(w)
     THEN /\ wd' = [w EXCEPT !.swd = FirstDelta(w)]
          /\ left' = [a EXCEPT ![System] = FirstDelta(w)]
          /\ slip' = now - w.last
     ELSE wd' = w /\ left' = a /\ UNCHANGED slip

-----------------------------------------------------------------------------
(***************************************************************************)
(* The directives of a task: cancel and initialise, insert, update.        *)
(***************************************************************************)
\* rtems_timer_server_fire_after, rtems_timer_fire_after up to the check.
FireAfter(t, n, k) ==
  /\ pc = "idle"
  /\ wd' = Cancelled(t) /\ left' = CancelTicks(t) /\ due' = [due EXCEPT ![t] = -1]
  /\ pc' = "check" /\ timer' = t /\ ticks' = n /\ kind' = k
  /\ UNCHANGED <<now, class, initial, units, helper, changed, event, slip>>

\* The timer is in use from here on; one of the server gets its interval now.
MarkInUse ==
  /\ class' = [class EXCEPT ![timer] = kind]
  /\ initial' = IF kind = "on_task" THEN [initial EXCEPT ![timer] = ticks] ELSE initial
  /\ pc' = IF kind = "on_task" THEN "schedule" ELSE "store"
  /\ UNCHANGED <<now, left, due, timer, ticks, kind, units, serverVars>>

\* Defect: the check for an insertion by an interrupt is missing.
FireCheckNot == pc = "check" /\ MarkInUse

\* The section with interrupts disabled: give up if a handler was faster.
FireCheck ==
  /\ pc = "check"
  /\ \/ /\ Active(timer) /\ pc' = "idle"
        /\ UNCHANGED <<now, timerVars, timer, ticks, kind, units, serverVars>>
     \/ ~Active(timer) /\ MarkInUse

\* _Timer_server_Schedule_operation_method: the class is looked at anew.
ScheduleOperation ==
  /\ pc = "schedule"
  /\ pc' = IF class[timer] = "on_task" THEN "insert" ELSE "idle"
  /\ UNCHANGED <<now, timerVars, timer, ticks, kind, units, serverVars>>

\* _Timer_server_Insert_timer under the lock.
InsertTimer ==
  /\ pc = "insert" /\ kind = "on_task"
  /\ wd' = IF Active(timer) THEN Refreshed(wd)
           ELSE Placed(Refreshed(wd), timer, initial[timer])
  /\ due' = IF Active(timer) THEN due ELSE [due EXCEPT ![timer] = now + initial[timer]]
  /\ changed' = TRUE /\ pc' = "update"
  /\ UNCHANGED <<now, left, class, initial, timer, ticks, kind, units, helper, event, slip>>

\* _Watchdog_Insert_ticks stores the interval and inserts, _Watchdog_Reset_ticks
\* inserts with the interval it finds.
StoreTicks ==
  /\ pc = "store" /\ initial' = [initial EXCEPT ![timer] = ticks] /\ pc' = "insert"
  /\ UNCHANGED <<now, left, class, due, timer, ticks, kind, units, serverVars>>

InsertTicks ==
  /\ pc = "insert" /\ kind = "interval"
  /\ IF Active(timer) THEN UNCHANGED <<left, due>>
     ELSE /\ left' = [left EXCEPT ![timer] = initial[timer]]
          /\ due' = [due EXCEPT ![timer] = now + initial[timer]]
  /\ pc' = "idle"
  /\ UNCHANGED <<now, class, initial, timer, ticks, kind, units, serverVars>>

\* rtems_timer_reset.
Reset(t) ==
  /\ pc = "idle" /\ class[t] # "dormant"
  /\ wd' = Cancelled(t) /\ left' = CancelTicks(t) /\ due' = [due EXCEPT ![t] = -1]
  /\ pc' = IF class[t] = "on_task" THEN "schedule" ELSE "insert"
  /\ timer' = t /\ kind' = class[t]
  /\ UNCHANGED <<now, class, initial, ticks, units, helper, changed, event, slip>>

\* rtems_timer_cancel by a task or a handler.
Cancel(t) ==
  /\ pc = "idle" \/ "cancel" \in IsrOps
  /\ Active(t)
  /\ wd' = Cancelled(t) /\ left' = CancelTicks(t) /\ due' = [due EXCEPT ![t] = -1]
  /\ UNCHANGED <<now, class, initial, baseVars, helper, changed, event, slip>>

-----------------------------------------------------------------------------
(***************************************************************************)
(* Interrupt handlers and timer routines.                                  *)
(***************************************************************************)
\* rtems_timer_server_fire_after without an interruption.
StartsAtOnce(t, n) ==
  LET c == Refreshed(Cancelled(t)) IN
  /\ class' = [class EXCEPT ![t] = "on_task"] /\ initial' = [initial EXCEPT ![t] = n]
  /\ due' = [due EXCEPT ![t] = now + n]
  /\ UpdateAtOnce(Placed(c, t, n), CancelTicks(t))
  /\ UNCHANGED <<now, baseVars, helper, event>>

IsrStart(t, n) == "start" \in IsrOps /\ StartsAtOnce(t, n)

\* rtems_timer_fire_after by a handler.
IsrStartTicks(t, n) ==
  /\ "start" \in IsrOps
  /\ class' = [class EXCEPT ![t] = "interval"] /\ initial' = [initial EXCEPT ![t] = n]
  /\ wd' = Cancelled(t) /\ left' = [left EXCEPT ![t] = n]
  /\ due' = [due EXCEPT ![t] = now + n]
  /\ UNCHANGED <<now, baseVars, helper, changed, event, slip>>

\* The routine of a timer that the server serves starts a timer.
RoutineStart(t, n) == "routine" \in IsrOps /\ pc = "routine" /\ StartsAtOnce(t, n)

\* The clock tick: a watchdog with nothing to go fires and keeps the tick from
\* the others; the system watchdog runs _Timer_server_Wakeup.
Tick ==
  LET idle == \A x \in DOMAIN left : left[x] # 0
      after == [x \in DOMAIN left |-> IF left[x] > 0 /\ idle THEN left[x] - 1 ELSE left[x]]
      fired == {x \in DOMAIN left : after[x] = 0}
  IN
  /\ now < MaxNow /\ now' = now + 1
  /\ pc \in {"remove", "arm"} => "slip" \in IsrOps
  /\ left' = [x \in DOMAIN left |-> IF x \in fired THEN -1 ELSE after[x]]
  /\ due' = [t \in Timer |-> IF t \in fired THEN -1 ELSE due[t]]
  /\ IF System \in fired
     THEN wd' = [wd EXCEPT !.current = now + 1, !.swd = 0] /\ event' = TRUE
     ELSE UNCHANGED <<wd, event>>
  /\ slip' = IF pc \in {"remove", "arm"} THEN slip + 1 ELSE slip
  /\ UNCHANGED <<class, initial, baseVars, helper, changed>>

-----------------------------------------------------------------------------
(***************************************************************************)
(* The server: _Timer_server_Tickle and _Watchdog_Adjust_forward_locked.   *)
(***************************************************************************)
\* The loop under the lock, on the watchdogs w with u units left.
AdjustForward(w, u) ==
  IF w.chain = <<>> \/ u < FirstDelta(w) \/ u = 0
  THEN /\ wd' = IF w.chain = <<>> THEN w
                ELSE [w EXCEPT !.delta[Head(w.chain)] = @ - u]
       /\ units' = 0 /\ changed' = TRUE /\ pc' = "update"
  ELSE /\ wd' = [w EXCEPT !.delta[Head(w.chain)] = 1]
       /\ units' = u - FirstDelta(w) /\ pc' = "tickle" /\ UNCHANGED changed

\* The server receives its event.
ServerTickle ==
  /\ pc = "idle" /\ event /\ event' = FALSE
  /\ AdjustForward([wd EXCEPT !.last = wd.current], wd.current - wd.last)
  /\ UNCHANGED <<now, timerVars, timer, ticks, kind, helper, slip>>

ServerLoop ==
  /\ pc = "loop" /\ AdjustForward(wd, units)
  /\ UNCHANGED <<now, timerVars, timer, ticks, kind, helper, event, slip>>

\* _Watchdog_Tickle: serve the first of w when it is due, or leave.
TickleFirst(w) ==
  /\ IF w.chain # <<>> /\ FirstDelta(w) = 0
     THEN /\ wd' = Without(w, Head(w.chain)) /\ timer' = Head(w.chain)
          /\ due' = [due EXCEPT ![Head(w.chain)] = -1] /\ pc' = "routine"
     ELSE wd' = w /\ pc' = "loop" /\ UNCHANGED <<timer, due>>
  /\ UNCHANGED <<now, left, class, initial, ticks, kind, units, helper, changed, event, slip>>

CountDown(w) ==
  IF w.chain # <<>> THEN [w EXCEPT !.delta[Head(w.chain)] = Less(@, 1)] ELSE w

ServerTickleBegin == pc = "tickle" /\ TickleFirst(CountDown(wd))

RoutineReturn == pc = "routine" /\ TickleFirst(wd)

Step ==
  \/ \E t \in Timer, n \in Interval :
       \/ \E k \in {"on_task", "interval"} : FireAfter(t, n, k)
       \/ IsrStart(t, n) \/ IsrStartTicks(t, n) \/ RoutineStart(t, n)
  \/ \E t \in Timer : Reset(t) \/ Cancel(t)
  \/ FireCheck \/ ScheduleOperation \/ InsertTimer \/ StoreTicks \/ InsertTicks
  \/ Update \/ UpdateRemove \/ UpdateArm \/ UpdateAgain
  \/ Tick
  \/ ServerTickle \/ ServerLoop \/ ServerTickleBegin \/ RoutineReturn

Next == Step /\ UNCHANGED scenario

Spec == Init /\ [][Next]_vars

-----------------------------------------------------------------------------
Watchdogs ==
  [chain : Seq(Timer), delta : [Timer -> Nat], last : Nat, current : Nat, swd : Nat]

TypeOK ==
  /\ scenario \in Scenarios
  /\ now \in 0 .. MaxNow /\ left \in [Timer \cup {System} -> Nat \cup {-1}]
  /\ class \in [Timer -> Class] /\ initial \in [Timer -> 0 .. MaxInterval]
  /\ wd \in Watchdogs /\ wd.last <= wd.current /\ wd.current <= now
  /\ helper \in BOOLEAN /\ changed \in BOOLEAN /\ event \in BOOLEAN
  /\ pc \in {"idle", "check", "schedule", "store", "insert", "update", "remove", "arm", "again",
             "loop", "tickle", "routine"}
  /\ timer \in Timer \cup {None} /\ ticks \in Nat /\ kind \in Class /\ units \in Nat
  /\ due \in [Timer -> Int] /\ slip \in Nat

\* A timer that was started, by whichever context was faster, is on one of the
\* two chains, and once; one that fired or was cancelled is on none.
OnOneChain ==
  /\ NoRepetition(wd.chain)
  /\ \A t \in Timer :
       /\ ~(left[t] >= 0 /\ OnServer(wd, t))
       /\ Active(t) <=> due[t] >= 0

\* A timer is on the chain of its class, whatever tasks and routines do.  A
\* handler that starts a timer as one of the clock, which then fires before the
\* task it interrupted puts the same timer on the server's chain, breaks the one
\* half; a handler that starts it as one of the server and cancels it before the
\* task puts it on the clock's chain breaks the other.
ClassAgrees ==
  \A t \in Timer :
    /\ left[t] >= 0 => class[t] = "interval" \/ {"start", "cancel"} \subseteq IsrOps
    /\ OnServer(wd, t) => class[t] = "on_task" \/ "start" \in IsrOps

\* Whoever starts, resets, cancels and fires a timer between the steps of
\* rtems_timer_fire_after and of the server leaves it on one chain, or on none
\* once it has fired or is cancelled, and the chain is that of its class but for
\* the handlers ClassAgrees names.
TimersConsistent == TypeOK /\ OnOneChain /\ ClassAgrees

\* When neither the server nor a helper has work to do the system watchdog is
\* set for the first timer of the server, or for an earlier tick: no timer is
\* forgotten, whichever contexts inserted timers while one of them was setting
\* it.  slip is how late the clock made the helper; handlers that start timers
\* in that time make it later still.
ServerArmed ==
  pc = "idle" /\ ~event /\ wd.chain # <<>> /\ ~({"start", "slip"} \subseteq IsrOps)
    => /\ ~helper
       /\ left[System] >= 0
       /\ left[System] <= Less(FirstDelta(wd), now - wd.last) + slip

\* The weaker fact that holds through ticks that hit the helper.
ServerWakes ==
  pc = "idle" /\ ~event /\ wd.chain # <<>> => ~helper /\ left[System] >= 0

\* A timer of the server is never left with nobody to wake the server for it.
ServerServes == ServerArmed /\ ServerWakes

\* "to fire in ticks clock ticks": no timer fires before its tick.  The server
\* can be interrupted where its first timer has a tick too many, and runs the
\* routines with units left that it still takes off the chain: a timer that a
\* handler or a routine starts then is early, and not spoken of here.
NotEarly ==
  [][\A t \in Timer :
       /\ {"start", "routine"} \cap IsrOps = {}
       /\ due[t] >= 0 /\ due'[t] = -1 /\ pc' = "routine" /\ timer' = t
       => now >= due[t]]_vars
=============================================================================
