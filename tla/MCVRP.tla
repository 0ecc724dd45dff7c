-------------------------------- MODULE MCVRP --------------------------------
(***************************************************************************)
(* Instances of VRP for TLC: reservations that overlap, touch and contain  *)
(* one another, in the two zones of one vertiport.                         *)
(***************************************************************************)
EXTENDS VRP

CONSTANTS v1

At(zone, start, end) == [vertiport |-> v1, zone |-> zone, start |-> start, end |-> end]

\* Two reservations of the FATO and two of the parking stands, of which the
\* first pair shares an end and the second touches.
OpReservationsBoth ==
  {At(FATO, 0, 2), At(FATO, 1, 2), At(ParkingStand, 0, 1), At(ParkingStand, 1, 2)}
\* A constraint on the FATO, which overlaps one of them and touches the other.
ConstraintReservationsFATO == {At(FATO, 0, 1)}

\* Subscriptions with times left open, and one that starts late.
SubReservationsBoth == {At(FATO, Nil, Nil), At(ParkingStand, 1, 2)}

\* Windows with an instant after all reservations, with one alone, and empty.
WindowsShort == {[from |-> 0, to |-> 3], [from |-> 1, to |-> 2], [from |-> 1, to |-> 1]}

Symmetry == Permutations(OpIds) \cup Permutations(SubIds)

=============================================================================
