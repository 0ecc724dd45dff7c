CONSTANTS
  Nil = Nil
  v1 = v1
  Managers = {u1}
  Vertiports = {v1}
  OpIds = {o1}
  SubIds = {s1}
  ConstraintIds = {k1}
  Places = {1}
  OpReservations <- OpReservationsBoth
  ConstraintReservations <- ConstraintReservationsFATO
  SubReservations <- SubReservationsBoth
  RequestStates = {"Accepted"}
  OpFlags = {TRUE}
  ConstraintFlags = {FALSE}
  Windows <- WindowsShort
  MaxClockSkew = 0
  MaxSubscriptionDuration = 2
  MaxTime = 1
SPECIFICATION Spec
INVARIANTS FreeTimesAnswered
