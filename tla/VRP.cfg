CONSTANTS
  Nil = Nil
  v1 = v1
  Managers = {u1}
  Vertiports = {v1}
  OpIds = {o1, o2}
  SubIds = {s1, s2}
  ConstraintIds = {k1}
  Places = {1}
  OpReservations <- OpReservationsBoth
  ConstraintReservations <- ConstraintReservationsFATO
  SubReservations <- SubReservationsBoth
  RequestStates = {"Accepted", "Contingent"}
  OpFlags = {TRUE}
  ConstraintFlags = {TRUE, FALSE}
  Windows <- WindowsShort
  MaxClockSkew = 0
  MaxSubscriptionDuration = 2
  MaxTime = 1
SYMMETRY Symmetry
SPECIFICATION Spec
INVARIANTS TypeOK ExplicitSupportCovers ConflictsSeen SubscribersKnow FreeTimesExact ParkingCountBounded
PROPERTIES StaleOnlyByDeparture
