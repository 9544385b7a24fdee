--------------------------- MODULE MCBookingPage ---------------------------
(* Instance of BookingPage for TLC: one machine with two groups. *)
EXTENDS BookingPage

CONSTANTS g, h

MCGroups == {g, h}
MCTargets == {{g}, {g, h}}
MCHeld == {[target |-> {g}, from |-> 1, to |-> 3]}

=============================================================================
