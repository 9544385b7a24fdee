----------------------------- MODULE MCOpenApi -----------------------------
(* Small instances of OpenApi: one machine with one group. *)
EXTENDS OpenApi, TLC

CONSTANTS m1, g1

OneMachine == {m1}
OnTheMachine == [g \in Groups |-> m1]
NoAdmins == {}
RowSymmetry == Permutations(ResIds) \cup Permutations(Ops) \cup Permutations(Tokens)
=============================================================================
