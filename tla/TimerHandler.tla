---------------------------- MODULE TimerHandler ----------------------------
(***************************************************************************)
(* The timers of every protocol layer: class timer_handler of              *)
(* lib/include/srsran/common/timers.h, a timing wheel whose slots are       *)
(* intrusive lists (lib/include/srsran/adt/intrusive_list.h).              *)
(*                                                                         *)
(* Each method holds the mutex from its first to its last line, except     *)
(* step_all, which releases it around every callback: between the unlock   *)
(* and the next lock the callback itself, and any other thread, may call   *)
(* every other method.  step_all is therefore a small state machine.       *)
(***************************************************************************)
EXTENDS Integers, Sequences, SequencesExt, FiniteSets

CONSTANTS
  MaxTimers,     \* how far the deque timer_list may grow (a bound)
  CAPACITY,      \* timers created by the constructor
  WHEEL_SIZE,    \* slots of the wheel (2^16 in the code)
  TICKS,         \* values of the clock, a multiple of WHEEL_SIZE (2^32 in the code)
  Durations      \* durations that the users of the timers ask for

ASSUME TimerAssumption ==
  /\ MaxTimers \in Nat /\ CAPACITY \in 0 .. MaxTimers
  /\ WHEEL_SIZE \in Nat \ {0} /\ TICKS \in Nat \ {0, 1} /\ TICKS % WHEEL_SIZE = 0
  /\ Durations \subseteq 0 .. TICKS \div 2

Timers == 1 .. MaxTimers
Slots == 0 .. WHEEL_SIZE - 1
Ticks == 0 .. TICKS - 1
None == 0                     \* the end of a list

VARIABLES
  cur_time,
  timer_list,           \* number of timers created so far
  allocated,
  state,                \* timer |-> [flag, duration, timeout], one atomic word
  callback,             \* timer |-> is a callback set
  free_list,
  time_wheel,           \* slot |-> the list of its timers
  nof_timers_running_,
  step,                 \* step_all: [pc, it, timer]
  meddled,              \* history: see Touch
  missed                \* history: see Touch

historyVars == <<meddled, missed>>
timerVars == <<cur_time, timer_list, allocated, state, callback, free_list, time_wheel,
               nof_timers_running_, step, historyVars>>

(* Mutant: no wrap-around. *)
PlusNoWrap(t, d) == t + d

Plus(t, d) == (t + d) % TICKS
Slot(t) == t % WHEEL_SIZE
Running(t) == state[t].flag = "running"

(* cur_time_local of step_all: cur_time is only advanced when it ends *)
Now == Plus(cur_time, 1)

TimerInit ==
  /\ cur_time = 0
  /\ timer_list = CAPACITY
  /\ allocated = [t \in Timers |-> FALSE]
  /\ state = [t \in Timers |-> [flag |-> "stopped", duration |-> 0, timeout |-> 0]]
  /\ callback = [t \in Timers |-> FALSE]
  /\ free_list = [i \in 1 .. CAPACITY |-> i]
  /\ time_wheel = [s \in Slots |-> <<>>]
  /\ nof_timers_running_ = 0
  /\ step = [pc |-> "idle", it |-> None, timer |-> None]
  /\ meddled = FALSE /\ missed = {}

-----------------------------------------------------------------------------
(* The methods.  The mutex is free unless step_all is inside its loop; on a
   timer that was released the handle is gone and no method is called.     *)

Unlocked == step.pc \in {"idle", "callback"}

CanCall(t) == Unlocked /\ allocated[t]

(* History of what callers do to step_all while it waits for a callback.  A call
   has touched the timers ts; meddled says that the one step_all will look at
   next is among them.  missed are the timers that such a call may have made
   step_all pass over: one that was started for the tick being stepped, and, if
   the iterator lost its place, every timer that is due.                   *)
Touch(ts) ==
  LET inStep == step.pc = "callback"
      due == {t \in Timers : state'[t].flag = "running" /\ state'[t].timeout = Now}
  IN  /\ meddled' = (meddled \/ (inStep /\ step.it \in ts))
      /\ missed' = (missed \ ts) \union
                     (IF ~inStep THEN {} ELSE IF step.it \in ts THEN due ELSE due \intersect ts)

(* What is left of a list when the timers ts are popped from it *)
Without(list, ts) ==
  LET kept[n \in 0 .. Len(list)] ==
        IF n = 0 THEN <<>>
        ELSE IF list[n] \in ts THEN kept[n - 1] ELSE Append(kept[n - 1], list[n])
  IN  kept[Len(list)]

(* Mutant: a running timer stays in the list of its old slot. *)
StartRunNoPop(t, d) ==
  /\ state' = [state EXCEPT ![t] = [flag |-> "running", duration |-> d,
                                    timeout |-> Plus(cur_time, d)]]
  /\ time_wheel' = [time_wheel EXCEPT ![Slot(Plus(cur_time, d))] = <<t>> \o @]
  /\ nof_timers_running_' = nof_timers_running_ + (IF Running(t) THEN 0 ELSE 1)

(* start_run_ *)
StartRun(t, d) ==
  LET old == state[t]
      timeout == Plus(cur_time, d)
      without == [time_wheel EXCEPT ![Slot(old.timeout)] = Without(@, {t})]
      stays == Running(t) /\ Slot(old.timeout) = Slot(timeout)
  IN  /\ state' = [state EXCEPT ![t] = [flag |-> "running", duration |-> d, timeout |-> timeout]]
      /\ time_wheel' = IF stays THEN time_wheel
                       ELSE [(IF Running(t) THEN without ELSE time_wheel)
                               EXCEPT ![Slot(timeout)] = <<t>> \o @]
      /\ nof_timers_running_' = nof_timers_running_ + (IF Running(t) THEN 0 ELSE 1)

(* Mutant: the timer stays in its list. *)
StopTimersNoPop(ts, flag) ==
  LET hit == {t \in ts : Running(t)}
  IN  /\ state' = [t \in Timers |-> IF t \in hit THEN [state[t] EXCEPT !.flag = flag] ELSE state[t]]
      /\ UNCHANGED time_wheel
      /\ nof_timers_running_' = nof_timers_running_ - Cardinality(hit)

(* stop_timer_ for every timer of the set ts: nothing if it does not run, and
   the timeout stays in the word                                           *)
StopTimers(ts, flag) ==
  LET hit == {t \in ts : Running(t)}
  IN  /\ state' = [t \in Timers |-> IF t \in hit THEN [state[t] EXCEPT !.flag = flag] ELSE state[t]]
      /\ time_wheel' = [s \in Slots |-> Without(time_wheel[s], hit)]
      /\ nof_timers_running_' = nof_timers_running_ - Cardinality(hit)

alloc_timer ==
  /\ Unlocked
  /\ \/ /\ free_list # <<>>
        /\ allocated' = [allocated EXCEPT ![Head(free_list)] = TRUE]
        /\ free_list' = Tail(free_list)
        /\ UNCHANGED timer_list
     \/ /\ free_list = <<>> /\ timer_list < MaxTimers
        /\ timer_list' = timer_list + 1
        /\ allocated' = [allocated EXCEPT ![timer_list'] = TRUE]
        /\ UNCHANGED free_list
  /\ UNCHANGED <<cur_time, state, callback, time_wheel, nof_timers_running_, step, historyVars>>

(* set, with or without a callback (cb); a running timer is restarted *)
set(t, duration, cb) ==
  LET d == IF duration > 1 THEN duration ELSE 1
  IN  /\ CanCall(t)
      /\ \/ Running(t) /\ StartRun(t, d)
         \/ /\ ~Running(t)
            /\ state' = [state EXCEPT ![t] = [flag |-> "stopped", duration |-> d, timeout |-> 0]]
            /\ UNCHANGED <<time_wheel, nof_timers_running_>>
      /\ callback' = [callback EXCEPT ![t] = @ \/ cb]
      /\ Touch({t})
      /\ UNCHANGED <<cur_time, timer_list, allocated, free_list, step>>

(* run; every user of the code calls set first *)
run(t) ==
  /\ CanCall(t) /\ state[t].duration > 0
  /\ StartRun(t, state[t].duration)
  /\ Touch({t})
  /\ UNCHANGED <<cur_time, timer_list, allocated, callback, free_list, step>>

stop(t) ==
  /\ CanCall(t)
  /\ StopTimers({t}, "stopped")
  /\ Touch({t})
  /\ UNCHANGED <<cur_time, timer_list, allocated, callback, free_list, step>>

stop_all ==
  /\ Unlocked
  /\ StopTimers(1 .. timer_list, "stopped")
  /\ Touch(1 .. timer_list)
  /\ UNCHANGED <<cur_time, timer_list, allocated, callback, free_list, step>>

(* Mutant: the timer stays marked as allocated. *)
DeallocateKeepsMark(t) ==
  /\ CanCall(t)
  /\ state' = [state EXCEPT ![t] = [flag |-> "stopped", duration |-> 0, timeout |-> 0]]
  /\ time_wheel' = [s \in Slots |-> Without(time_wheel[s], {t})]
  /\ nof_timers_running_' = nof_timers_running_ - (IF Running(t) THEN 1 ELSE 0)
  /\ callback' = [callback EXCEPT ![t] = FALSE]
  /\ free_list' = <<t>> \o free_list
  /\ Touch({t})
  /\ UNCHANGED <<cur_time, timer_list, allocated, step>>

(* unique_timer::release, the destructor, and the end of a deferred callback *)
deallocate(t) ==
  /\ CanCall(t)
  /\ allocated' = [allocated EXCEPT ![t] = FALSE]
  /\ state' = [state EXCEPT ![t] = [flag |-> "stopped", duration |-> 0, timeout |-> 0]]
  /\ time_wheel' = [s \in Slots |-> Without(time_wheel[s], {u \in {t} : Running(u)})]
  /\ nof_timers_running_' = nof_timers_running_ - (IF Running(t) THEN 1 ELSE 0)
  /\ callback' = [callback EXCEPT ![t] = FALSE]
  /\ free_list' = <<t>> \o free_list
  /\ Touch({t})
  /\ UNCHANGED <<cur_time, timer_list, step>>

-----------------------------------------------------------------------------
(* step_all. *)

(* next_node of a timer, in whichever list it is; pop clears it *)
NextNode(t) ==
  LET after == {u \in Timers : \E s \in Slots : \E i \in 1 .. Len(time_wheel[s]) - 1 :
                  time_wheel[s][i] = t /\ time_wheel[s][i + 1] = u}
  IN  IF after = {} THEN None ELSE CHOOSE u \in after : TRUE

StepBegin ==
  /\ step.pc = "idle"
  /\ LET list == time_wheel[Slot(Now)]
     IN  step' = [pc |-> "loop", it |-> IF list = <<>> THEN None ELSE Head(list), timer |-> None]
  /\ UNCHANGED <<cur_time, timer_list, allocated, state, callback, free_list, time_wheel,
                 nof_timers_running_, historyVars>>

(* Mutant: the iterator moves on after the timer has left the list. *)
StepTimerThenNext ==
  /\ step.pc = "loop" /\ step.it # None
  /\ LET t == step.it
         due == state[t].timeout = Now
         call == due /\ callback[t]
     IN  /\ step' = [pc |-> IF call THEN "callback" ELSE "loop",
                     it |-> IF due THEN None ELSE NextNode(t), timer |-> IF call THEN t ELSE None]
         /\ StopTimers(IF due THEN {t} ELSE {}, "expired")
         /\ missed' = IF due THEN missed \ {t} ELSE missed
  /\ meddled' = FALSE
  /\ UNCHANGED <<cur_time, timer_list, allocated, callback, free_list>>

(* One turn of the loop: the iterator moves on first, then the timer expires if
   its word says so, and its callback is called with the mutex released.    *)
StepTimer ==
  /\ step.pc = "loop" /\ step.it # None
  /\ LET t == step.it
         due == state[t].timeout = Now
     IN  /\ step' = [pc |-> IF due /\ callback[t] THEN "callback" ELSE "loop",
                     it |-> NextNode(t),
                     timer |-> IF due /\ callback[t] THEN t ELSE None]
         /\ StopTimers(IF due THEN {t} ELSE {}, "expired")
         /\ missed' = IF due THEN missed \ {t} ELSE missed
  /\ meddled' = FALSE
  /\ UNCHANGED <<cur_time, timer_list, allocated, callback, free_list>>

CallbackReturns ==
  /\ step.pc = "callback"
  /\ step' = [step EXCEPT !.pc = "loop", !.timer = None]
  /\ UNCHANGED <<cur_time, timer_list, allocated, state, callback, free_list, time_wheel,
                 nof_timers_running_, historyVars>>

StepEnd ==
  /\ step.pc = "loop" /\ step.it = None
  /\ cur_time' = Now
  /\ step' = [step EXCEPT !.pc = "idle"]
  /\ UNCHANGED <<timer_list, allocated, state, callback, free_list, time_wheel,
                 nof_timers_running_, historyVars>>

TimerNext ==
  \/ alloc_timer
  \/ \E t \in Timers, d \in Durations, cb \in BOOLEAN : set(t, d, cb)
  \/ \E t \in Timers : run(t) \/ stop(t) \/ deallocate(t)
  \/ stop_all
  \/ StepBegin \/ StepTimer \/ CallbackReturns \/ StepEnd

TimerSpec == TimerInit /\ [][TimerNext]_timerVars

-----------------------------------------------------------------------------
(* Properties. *)

(* The types of the handler's state. *)
TimerTypeOK ==
  /\ cur_time \in Ticks
  /\ timer_list \in 0 .. MaxTimers
  /\ allocated \in [Timers -> BOOLEAN]
  /\ callback \in [Timers -> BOOLEAN]
  /\ \A t \in Timers : /\ state[t].flag \in {"stopped", "running", "expired"}
                       /\ state[t].duration \in 0 .. TICKS
                       /\ state[t].timeout \in Ticks
  /\ nof_timers_running_ \in 0 .. MaxTimers
  /\ step.pc \in {"idle", "loop", "callback"}
  /\ step.it \in Timers \union {None} /\ step.timer \in Timers \union {None}

(* A running timer is in exactly one list, that of the slot of its timeout, and
   once; no other timer is in a list; nof_timers_running_ counts them.  A timer
   in the wrong slot, or in two, would corrupt the lists it is linked into. *)
WheelHoldsRunning ==
  /\ \A t \in Timers, s \in Slots :
       Cardinality({i \in 1 .. Len(time_wheel[s]) : time_wheel[s][i] = t})
         = IF Running(t) /\ s = Slot(state[t].timeout) THEN 1 ELSE 0
  /\ nof_timers_running_ = Cardinality({t \in Timers : Running(t)})

(* The free list holds each created timer that is not allocated once, and no
   other: alloc_timer never hands out a timer that has an owner (its assertion
   "Invalid timer id"), and a timer without an owner does not run.         *)
FreeListIsUnallocated ==
  /\ \A t \in Timers :
       Cardinality({i \in 1 .. Len(free_list) : free_list[i] = t})
         = IF t <= timer_list /\ ~allocated[t] THEN 1 ELSE 0
  /\ \A t \in Timers : Running(t) => allocated[t] /\ t <= timer_list

(* Between two steps every running timer still has its timeout ahead of it, at
   most its duration away, across the wrap of the clock: none was passed over,
   except by a call in a callback that started it for the tick being stepped or
   touched the timer that step_all was to look at next.  (time_elapsed_ computes
   duration - (timeout - cur_time) without a sign.)  The comment in set_ says it
   of the shortest one: "the next step will be one place ahead of current one". *)
NoOverdue ==
  step.pc = "idle" =>
    \A t \in Timers : Running(t) /\ t \notin missed =>
       (state[t].timeout - cur_time) % TICKS \in 1 .. state[t].duration

(* A timer that was stopped or released is not called back.  stop() "does not call
   callback", and timer_test says that "calling stop() early, forbids the timer
   from getting expired": true of every timer but the one that step_all had moved
   its iterator to before the callback in which it was stopped; a timer without
   an owner is not called even then.  The timer called no longer runs, and if it
   ran until now it is marked as expired.                                  *)
StoppedStaysSilent ==
  [][ step.pc = "loop" /\ step'.pc = "callback" =>
        LET t == step'.timer
        IN  /\ allocated[t]
            /\ Running(t) \/ (t = step.it /\ meddled)
            /\ state'[t].flag = IF Running(t) THEN "expired" ELSE state[t].flag ]_timerVars
=============================================================================
