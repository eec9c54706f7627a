-------------------------- MODULE MCBookingLifecycle --------------------------
(* A small instance of BookingLifecycle. *)
EXTENDS BookingLifecycle, TLC

CONSTANTS repair, tariq, vera, desk, s1, s2,
          DeskRows, FieldRows

\* The visit is booked for nine o'clock.
MCStartsAt == [b \in Bookings |-> 9]

\* The desk stops early, the field goes on: to finish a visit takes many activities.
MCMaxRows == [u \in Users |-> IF u \in Office THEN DeskRows ELSE FieldRows]

Symmetry == Permutations(Technicians) \cup Permutations(Sessions)
=============================================================================
