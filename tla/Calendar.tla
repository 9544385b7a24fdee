------------------------------ MODULE Calendar ------------------------------
(***************************************************************************)
(* What the resource calendar promises, without rows, batches, windows or  *)
(* memberships.  Each group has one slot per minute; a slot is taken by at *)
(* most one user and may be closed.  A minute that has elapsed never       *)
(* changes.  A user's request changes only slots that are the user's own   *)
(* or free, and takes open ones only; closing slots frees them.            *)
(* Scheduling implements this (CalendarRefinement).                        *)
(***************************************************************************)
EXTENDS Naturals

CONSTANTS Groups, Users, LastMinute

VARIABLES
    now,      \* the current minute
    taken,    \* taken[g][t]: the users who hold minute t of group g
    closed    \* closed[g]: the minutes of g, from now on, nobody may take

vars == <<now, taken, closed>>

Slots == 0..LastMinute
Future == {t \in Slots : t >= now}

Init ==
    /\ now = 0
    /\ taken = [g \in Groups |-> [t \in Slots |-> {}]]
    /\ closed = [g \in Groups |-> {}]

\* No slot of an elapsed minute changes.
OnlyFuture == \A g \in Groups, t \in Slots \ Future : taken'[g][t] = taken[g][t]

\* User u books, replaces or moves bookings.
Book(u) ==
    /\ OnlyFuture
    /\ \A g \in Groups, t \in Future :
          \/ taken'[g][t] = taken[g][t]
          \/ taken[g][t] = {u} /\ taken'[g][t] = {}
          \/ taken[g][t] = {} /\ taken'[g][t] = {u} /\ t \notin closed[g]
    /\ UNCHANGED <<now, closed>>

\* Bookings are cancelled, ended or trimmed, by whoever may do so.
Free ==
    /\ OnlyFuture
    /\ \A g \in Groups, t \in Future : taken'[g][t] \in {taken[g][t], {}}
    /\ UNCHANGED <<now, closed>>

\* A target closes: what lies inside is freed.  A booking of several groups gives
\* up the slots of the others too.
Close ==
    /\ OnlyFuture
    /\ \A g \in Groups :
          /\ closed[g] \subseteq closed'[g] /\ closed'[g] \subseteq Future
          /\ \A t \in Future : taken'[g][t] \in {taken[g][t], {}}
          /\ \A t \in closed'[g] : taken'[g][t] = {}
    /\ UNCHANGED now

\* A target opens: nobody gains or loses a slot.
Open ==
    /\ \A g \in Groups : closed'[g] \subseteq closed[g]
    /\ UNCHANGED <<now, taken>>

Tick ==
    /\ now' = now + 1
    /\ closed' = [g \in Groups |-> closed[g] \ {now}]
    /\ UNCHANGED taken

Next == Tick \/ Free \/ Close \/ Open \/ \E u \in Users : Book(u)

Spec == Init /\ [][Next]_vars

=============================================================================
