----------------------------- MODULE OlsrTimer -----------------------------
(***************************************************************************)
(* The timer wheel of olsrd (src/src/olsr_timer.c).  A timer hangs in the  *)
(* wheel slot its absolute time hashes to; olsr_timer_walk() visits the    *)
(* slots of the milliseconds since its last call and calls back the        *)
(* timers that are due.  A callback is code of another component: it may   *)
(* start, change and stop timers, its own one included, so the walk is     *)
(* modelled step by step, with the callback's calls between the steps.     *)
(*                                                                         *)
(* due is a history variable: the true time until a timer is to fire,      *)
(* which neither overflows nor is hashed.  missed holds the timers that    *)
(* were due when a walk ended without visiting any slot.                   *)
(***************************************************************************)
EXTENDS Integers, Sequences, FiniteSets

CONSTANTS Timers,        \* the blocks of the timer memory cookie
          Infos,         \* the timer classes (struct olsr_timer_info)
          Periodic,      \* the classes with periodic = true
          HalfWord,      \* half of the uint32_t range, 2^31
          Slots,         \* TIMER_WHEEL_SLOTS, 1024
          MaxRel,        \* longest relative time (a bound of the model)
          MaxGap,        \* longest time between two walks (a bound of the model)
          Free, NoTimer

Word == 2 * HalfWord
U32 == 0 .. Word - 1
Slot == 0 .. Slots - 1
Lists == Slot \cup {-1}
Tmp == -1                \* tmp_head_node of olsr_timer_walk()

ASSUME TimerAssumption ==
  /\ Periodic \subseteq Infos
  /\ HalfWord \in Nat /\ Slots \in Nat \ {0} /\ MaxRel \in Nat \ {0} /\ MaxGap \in Nat
  /\ Word % Slots = 0
  /\ MaxRel + MaxGap + Slots < HalfWord
  /\ NoTimer \notin Timers

VARIABLES now,             \* olsr_clock_getNow()
          timer_last_run,
          timer,           \* the timer entries, or Free
          list,            \* timer_wheel and, under Tmp, the list of the walk
          walking,         \* inside olsr_timer_walk()
          wheel_slot_walks,
          firing,          \* the timer whose callback runs, or NoTimer
          usage,           \* ti->usage
          due, missed

wheel == <<timer_last_run, walking, wheel_slot_walks, firing>>
vars == <<now, timer, list, usage, due, missed, wheel>>

Entry == [timer_info : Infos, timer_clock : U32, timer_period : 0 .. MaxRel,
          timer_running : BOOLEAN, timer_in_callback : BOOLEAN]

olsr_timer_init ==
  /\ now = 0
  /\ timer_last_run = now
  /\ timer = [t \in Timers |-> Free]
  /\ list = [l \in Lists |-> <<>>]
  /\ walking = FALSE
  /\ wheel_slot_walks = 0
  /\ firing = NoTimer
  /\ usage = [i \in Infos |-> 0]
  /\ due = [t \in Timers |-> 0]
  /\ missed = {}

Running(t) == timer[t] # Free /\ timer[t].timer_running

\* Mutant: a comparison that does not know about the overflow of the clock.
IsPastPlain(absolute) == absolute <= now

\* olsr_clock_isPast()
IsPast(absolute) ==
  IF absolute > now THEN absolute - now > HalfWord ELSE now - absolute <= HalfWord

\* Mutant: a jitter of a whole hundred percent.
calc_jitter_full(rel_time) == 0 .. rel_time

\* The jitter takes off less than the whole relative time: calc_jitter() returns
\* now + r for one of these r.
calc_jitter(rel_time) == 1 .. rel_time

SlotOf(clock) == clock % Slots
Unlink(lists, t) == [l \in Lists |-> SelectSeq(lists[l], LAMBDA x : x # t)]
Append1(lists, l, t) == [lists EXCEPT ![l] = Append(@, t)]

\* Calls reach the timer code from the main loop or from a callback.
Callable == ~walking \/ firing # NoTimer
-----------------------------------------------------------------------------
olsr_timer_start(t, rel_time, ti) ==
  /\ timer[t] = Free
  /\ rel_time > 0
  /\ \E r \in calc_jitter(rel_time) :
       LET clock == (now + r) % Word
       IN  /\ timer' = [timer EXCEPT ![t] =
                [timer_info |-> ti, timer_clock |-> clock,
                 timer_period |-> IF ti \in Periodic THEN rel_time ELSE 0,
                 timer_running |-> TRUE, timer_in_callback |-> FALSE]]
           /\ list' = Append1(list, SlotOf(clock), t)
           /\ due' = [due EXCEPT ![t] = r]
  /\ usage' = [usage EXCEPT ![ti] = @ + 1]
  /\ UNCHANGED missed

\* Mutant: the memory is released also while the callback runs.
StopFrees(t) ==
  /\ Running(t)
  /\ list' = Unlink(list, t)
  /\ usage' = [usage EXCEPT ![timer[t].timer_info] = @ - 1]
  /\ timer' = [timer EXCEPT ![t] = Free]
  /\ missed' = missed \ {t}
  /\ UNCHANGED due

olsr_timer_stop(t) ==
  /\ Running(t)
  /\ list' = Unlink(list, t)
  /\ usage' = [usage EXCEPT ![timer[t].timer_info] = @ - 1]
  /\ timer' = [timer EXCEPT ![t] =
                 IF @.timer_in_callback THEN [@ EXCEPT !.timer_running = FALSE] ELSE Free]
  /\ missed' = missed \ {t}
  /\ UNCHANGED due

\* Mutant: the timer stays in its old slot.
ChangeStays(t, rel_time) ==
  /\ Running(t)
  /\ \E r \in calc_jitter(rel_time) :
       /\ timer' = [timer EXCEPT
              ![t].timer_period = IF timer[t].timer_info \in Periodic THEN rel_time ELSE 0,
              ![t].timer_clock = (now + r) % Word]
       /\ due' = [due EXCEPT ![t] = r]
  /\ missed' = missed \ {t}
  /\ UNCHANGED <<usage, list>>

olsr_timer_change(t, rel_time) ==
  /\ Running(t)
  /\ \E r \in calc_jitter(rel_time) :
       LET clock == (now + r) % Word
       IN  /\ timer' = [timer EXCEPT
                ![t].timer_period = IF timer[t].timer_info \in Periodic THEN rel_time ELSE 0,
                ![t].timer_clock = clock]
           /\ list' = Append1(Unlink(list, t), SlotOf(clock), t)
           /\ due' = [due EXCEPT ![t] = r]
  /\ missed' = missed \ {t}
  /\ UNCHANGED usage

\* The callers' entry point; start, stop and change are also called directly.
olsr_timer_set(t, rel_time, ti) ==
  /\ Callable
  /\ \/ rel_time = 0 /\ olsr_timer_stop(t)
     \/ rel_time > 0 /\ olsr_timer_start(t, rel_time, ti)
     \/ rel_time > 0 /\ olsr_timer_change(t, rel_time)
  /\ UNCHANGED <<now, wheel>>

\* Stops all running timers of ts.  Only the shutdown code calls it here.
StopAll(ts) ==
  LET stopped == {t \in ts : Running(t)}
  IN  /\ ~walking
      /\ stopped # {}
      /\ timer' = [t \in Timers |-> IF t \in stopped THEN Free ELSE timer[t]]
      /\ list' = [l \in Lists |-> SelectSeq(list[l], LAMBDA x : x \notin stopped)]
      /\ usage' = [i \in Infos |->
                     usage[i] - Cardinality({t \in stopped : timer[t].timer_info = i})]
      /\ missed' = missed \ stopped
      /\ UNCHANGED <<now, due, wheel>>

olsr_timer_remove(info) == StopAll({t \in Timers : timer[t] # Free /\ timer[t].timer_info = info})
olsr_timer_cleanup == StopAll(Timers)
-----------------------------------------------------------------------------
\* olsr_clock_update(), outside the walk.
olsr_clock_update(d) ==
  /\ ~walking
  /\ ((now - timer_last_run) % Word) + d <= MaxGap
  /\ now' = (now + d) % Word
  /\ due' = [t \in Timers |-> IF timer[t] = Free THEN 0 ELSE due[t] - d]
  /\ UNCHANGED <<timer, list, usage, missed, wheel>>

\* Mutant: the slot of the current millisecond is left to the next walk.
InLoopShort == timer_last_run < now /\ wheel_slot_walks < Slots

\* Mutant: one slot too few when a whole turn is due.
InLoopTurn == timer_last_run <= now /\ wheel_slot_walks < Slots - 1

\* The condition of the outer loop of olsr_timer_walk().
InLoop == timer_last_run <= now /\ wheel_slot_walks < Slots

BeginWalk ==
  /\ ~walking
  /\ walking' = TRUE
  /\ wheel_slot_walks' = 0
  /\ UNCHANGED <<now, timer, list, usage, due, missed, timer_last_run, firing>>

CurrentSlot == SlotOf(timer_last_run)

\* Dequeue the first timer of the slot; call it back if it is due.
NextTimer ==
  /\ walking /\ firing = NoTimer /\ InLoop
  /\ list[CurrentSlot] # <<>>
  /\ LET t == Head(list[CurrentSlot])
     IN  /\ list' = [list EXCEPT ![CurrentSlot] = Tail(@), ![Tmp] = <<t>> \o @]
         /\ IF IsPast(timer[t].timer_clock)
            THEN /\ firing' = t
                 /\ timer' = [timer EXCEPT ![t].timer_in_callback = TRUE]
                 /\ missed' = missed \ {t}
            ELSE UNCHANGED <<firing, timer, missed>>
  /\ UNCHANGED <<now, usage, due, timer_last_run, walking, wheel_slot_walks>>

\* The callback is back: restart, stop or free its timer.
CallbackReturns ==
  /\ firing # NoTimer
  /\ firing' = NoTimer
  /\ LET t == firing
         e == [timer[t] EXCEPT !.timer_in_callback = FALSE]
     IN  \/ /\ e.timer_running /\ e.timer_period > 0
            /\ \E r \in calc_jitter(e.timer_period) :
                 LET clock == (now + r) % Word
                 IN  /\ timer' = [timer EXCEPT ![t] = [e EXCEPT !.timer_clock = clock]]
                     /\ list' = Append1(Unlink(list, t), SlotOf(clock), t)
                     /\ due' = [due EXCEPT ![t] = r]
            /\ UNCHANGED usage
         \/ /\ e.timer_running /\ e.timer_period = 0
            /\ timer' = [timer EXCEPT ![t] = Free]
            /\ list' = Unlink(list, t)
            /\ usage' = [usage EXCEPT ![e.timer_info] = @ - 1]
            /\ UNCHANGED due
         \/ /\ ~e.timer_running
            /\ timer' = [timer EXCEPT ![t] = Free]
            /\ UNCHANGED <<list, usage, due>>
  /\ UNCHANGED <<now, missed, timer_last_run, walking, wheel_slot_walks>>

\* The slot is empty: list_merge() puts back what was not due.
EndSlot ==
  /\ walking /\ firing = NoTimer /\ InLoop
  /\ list[CurrentSlot] = <<>>
  /\ list' = [list EXCEPT ![CurrentSlot] = list[Tmp], ![Tmp] = <<>>]
  /\ timer_last_run' = (timer_last_run + 1) % Word
  /\ wheel_slot_walks' = wheel_slot_walks + 1
  /\ UNCHANGED <<now, timer, usage, due, missed, walking, firing>>

EndWalk ==
  /\ walking /\ firing = NoTimer /\ ~InLoop
  /\ walking' = FALSE
  /\ timer_last_run' = now
  /\ missed' = IF wheel_slot_walks = 0 THEN {t \in Timers : Running(t) /\ due[t] <= 0}
               ELSE missed
  /\ UNCHANGED <<now, timer, list, usage, due, wheel_slot_walks, firing>>

WalkStep == NextTimer \/ CallbackReturns \/ EndSlot \/ EndWalk

Next ==
  \/ \E d \in 1 .. MaxGap : olsr_clock_update(d)
  \/ \E t \in Timers, rel \in 0 .. MaxRel, ti \in Infos : olsr_timer_set(t, rel, ti)
  \/ \E ti \in Infos : olsr_timer_remove(ti)
  \/ olsr_timer_cleanup
  \/ BeginWalk
  \/ WalkStep

Spec == olsr_timer_init /\ [][Next]_vars /\ WF_vars(WalkStep)
-----------------------------------------------------------------------------
(* Every variable has its type. *)
TypeOK ==
  /\ now \in U32 /\ timer_last_run \in U32
  /\ timer \in [Timers -> Entry \cup {Free}]
  /\ \A l \in Lists : list[l] \in Seq(Timers)
  /\ walking \in BOOLEAN /\ wheel_slot_walks \in 0 .. Slots
  /\ firing \in Timers \cup {NoTimer}
  /\ usage \in [Infos -> Nat]
  /\ due \in [Timers -> Int] /\ missed \subseteq Timers

\* How often t hangs in list l.
Occurrences(l, t) == Cardinality({i \in DOMAIN list[l] : list[l][i] = t})

(* Whatever callbacks do to their own and to other timers during a walk, a running
   timer hangs in exactly one list, the slot of its time (or the list the walk moved
   that slot to), and a stopped or freed one in none: no timer is lost, walked twice
   or touched after it was freed. *)
WheelExact ==
  \A t \in Timers :
    IF Running(t)
    THEN \E l \in Lists :
           /\ Occurrences(l, t) = 1
           /\ \A m \in Lists \ {l} : Occurrences(m, t) = 0
           /\ \/ l = SlotOf(timer[t].timer_clock)
              \/ l = Tmp /\ SlotOf(timer[t].timer_clock) = CurrentSlot
    ELSE \A l \in Lists : Occurrences(l, t) = 0

(* The entry whose callback runs is not freed under it, whatever the callback does,
   and no other entry is marked as being in a callback. *)
CallbackEntryLives ==
  \A t \in Timers : (firing = t) <=> (timer[t] # Free /\ timer[t].timer_in_callback)

(* No timer fires before its time, also when the clock overflows. *)
NeverEarly == [][firing' # NoTimer /\ firing = NoTimer => due[firing'] <= 0]_vars

(* When a walk ends, no timer that is due is left running: every one was called
   back.  The exception is a walk across the overflow of the clock, which visits no
   slot at all. *)
WalkComplete ==
  [][walking /\ ~walking' => \A t \in Timers : Running(t) /\ due[t] <= 0 => t \in missed']_vars

(* A timer missed at the overflow is late by less than one turn of the wheel, plus
   the time between two walks. *)
LateByOneTurn ==
  ~walking => \A t \in Timers : Running(t) => due[t] > -(Slots + 2 * MaxGap)

(* A walk always ends, although callbacks may start timers in the slot that is being
   walked: a new or restarted timer is never due at once. *)
WalkEnds == walking ~> ~walking
=============================================================================
