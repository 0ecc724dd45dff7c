CONSTANTS
  c1 = c1
  c2 = c2
  c3 = c3
  c4 = c4
  Nil = Nil
  ParentCell = parent
  Cells = {c1, c2, c3, c4}
  SiblingCells = {}
  Managers = {m1}
  OpIds = {o1}
  SubIds = {s1}
  ConstraintIds = {k1}
  OpExtents <- ExtentsLong
  SubExtents <- SubExtentsOpen
  RequestStates = {"Accepted", "Nonconforming"}
  OpFlags = {TRUE}
  ConstraintFlags = {FALSE}
  MaxClockSkew = 0
  MaxSubscriptionDuration = 3
  MaxResultLimit = 10
  MaxTime = 2
  MaxVersion = 3
  MaxIndex = 3
  Sessions = {x1, x2}
SPECIFICATION SessionSpec
PROPERTIES ImplementsReadModifyWrite
SYMMETRY SessionSymmetry
