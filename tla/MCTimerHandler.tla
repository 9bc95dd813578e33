--------------------------- MODULE MCTimerHandler ---------------------------
(* A small timing wheel for TLC: two slots, a clock of six ticks that wraps, and
   durations below and above one turn of the wheel; three timers, so that there
   may be some behind the one that step_all is to look at next.            *)
EXTENDS TimerHandler

(* What tells a timer apart.  What is left of the last timeout in the word of a
   timer that does not run is only read if the iterator still points to it. *)
Described(t) ==
  <<IF Running(t) \/ t = step.it THEN state[t]
    ELSE [flag |-> "stopped", duration |-> state[t].duration, timeout |-> 0],
    callback[t], allocated[t], t \in missed, t = step.it, t = step.timer>>

(* The numbers of the timers mean nothing: states in which they are exchanged are
   explored once.  A running timer has its place in a list, and of those that do
   not run it only counts how many are alike.                              *)
TimerView ==
  LET stopped == {t \in 1 .. timer_list : ~Running(t)}
  IN  <<cur_time, timer_list, step.pc, meddled,
        [s \in Slots |-> [i \in DOMAIN time_wheel[s] |-> Described(time_wheel[s][i])]],
        [i \in DOMAIN free_list |-> Described(free_list[i])],
        [d \in {Described(t) : t \in stopped} |-> Cardinality({t \in stopped : Described(t) = d})]>>
=============================================================================
