------------------------- MODULE CalendarRefinement -------------------------
(***************************************************************************)
(* Scheduling implements Calendar: a booking holds the slots of its group  *)
(* or, under scope MACHINE, of every group of the machine; a window closes *)
(* the slots of its target.  Holds when no minute boundary falls inside a  *)
(* transaction (MaxSkew = 0).                                              *)
(***************************************************************************)
EXTENDS Scheduling

\* The bookings that use minute t of group g.
Using(g, t) ==
    {i \in Confirmed :
        /\ res[i].start <= t /\ t < res[i].end
        /\ \/ res[i].group = g
           \/ res[i].scope = "MACHINE" /\ MachineOf[res[i].group] = MachineOf[g]}

Taken == [g \in Groups |-> [t \in Minutes |-> {res[i].user : i \in Using(g, t)}]]

\* The minutes from now on that an active window on g or its machine covers.
Closed ==
    [g \in Groups |->
        {t \in Minutes :
            /\ t >= clock
            /\ \E w \in ActiveWin :
                  /\ win[w].target \in {g, MachineOf[g]}
                  /\ win[w].start <= t /\ t < win[w].end}]

Calendar == INSTANCE Calendar
    WITH LastMinute <- MaxMinute, now <- clock, taken <- Taken, closed <- Closed

\* Every handler of the booking core is a step the calendar allows: no request
\* changes another user's slots, takes a closed one or rewrites the past, and
\* maintenance and deactivation free what they close.
ImplementsCalendar == Calendar!Spec

=============================================================================
