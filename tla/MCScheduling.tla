---------------------------- MODULE MCScheduling ----------------------------
(* Small instances of Scheduling: one machine with the groups of the model. *)
EXTENDS CalendarRefinement, TLC

CONSTANTS m1, m2, g1, g2, admin

OneMachine == {m1}
OnTheMachine == [g \in Groups |-> m1]
TwoMachines == {m1, m2}
OnTwoMachines == [g \in Groups |-> IF g = g1 THEN m1 ELSE m2]
NoAdmins == {}
OneAdmin == {admin}
IdSymmetry == Permutations(ResIds) \cup Permutations(WinIds)
Symmetry == IdSymmetry \cup Permutations(Groups)
UserSymmetry == Symmetry \cup Permutations(Users)
=============================================================================
