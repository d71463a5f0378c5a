--------------------------- MODULE EventCalendar ---------------------------
(***************************************************************************)
(* The event list of the ns-3 simulator core (which is not part of this    *)
(* repository), as the network module uses it: Simulator::Schedule (delay, *)
(* handler), ScheduleNow, and the default scheduler that runs the events   *)
(* of one instant in the order in which they were scheduled.               *)
(*                                                                         *)
(* A calendar maps the delay that is left, in tenths of a second, to the   *)
(* queue of the events due then.  Relative delays make two situations that *)
(* differ only in the absolute time one state.  Every delay of the MAC     *)
(* (0, 0.1, 0.9, 1.0, 1.1, 2.0, 3.0 and whole seconds of back-off) is a    *)
(* multiple of a tenth, so nothing is rounded.                             *)
(***************************************************************************)
EXTENDS Naturals, Sequences

CONSTANT Horizon     \* the largest delay any handler asks for, in tenths

Second == 10

ASSUME HorizonAssumption == Horizon \in Nat /\ Horizon >= 3 * Second

Delay == 0..Horizon

Calendars(Event) == [Delay -> Seq(Event)]

EmptyCalendar == [t \in Delay |-> << >>]

(* Simulator::Schedule: after the events already scheduled for the instant. *)
Post(cal, t, event) == [cal EXCEPT ![t] = Append(@, event)]

Idle(cal) == cal = EmptyCalendar

(* The event the simulator runs next at the current instant, and the rest. *)
Due(cal) == cal[0] # << >>
First(cal) == Head(cal[0])
Pop(cal) == [cal EXCEPT ![0] = Tail(@)]

(* Time passes: everything comes t tenths closer. *)
Advance(cal, t) ==
  [u \in Delay |-> IF u + t <= Horizon THEN cal[u + t] ELSE << >>]

(* The scheduled events, by delay and place in the queue. *)
Entries(cal) == UNION {{t} \X (1..Len(cal[t])) : t \in Delay}
Entry(cal, e) == cal[e[1]][e[2]]

(* Those of the given kinds on node n. *)
Pending(cal, kinds, n) ==
  {e \in Entries(cal) : Entry(cal, e).kind \in kinds /\ Entry(cal, e).node = n}
=============================================================================
