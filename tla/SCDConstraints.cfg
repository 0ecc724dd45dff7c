CONSTANTS
  c1 = c1
  c2 = c2
  c3 = c3
  c4 = c4
  Nil = Nil
  ParentCell = parent
  Cells = {c1, c2, c3, c4}
  SiblingCells = {}
  Managers = {m1, m2}
  OpIds = {o1}
  SubIds = {s1, s2}
  ConstraintIds = {k1}
  OpExtents <- ExtentsTwo
  SubExtents <- SubExtentsSkewed
  RequestStates = {"Accepted"}
  OpFlags = {FALSE, TRUE}
  ConstraintFlags = {FALSE, TRUE}
  MaxClockSkew = 1
  MaxSubscriptionDuration = 3
  MaxResultLimit = 10
  MaxTime = 0
  MaxVersion = 2
  MaxIndex = 2
SPECIFICATION Spec
INVARIANTS SupportCovers SupportExists
PROPERTIES NotifiesAffected
SYMMETRY Symmetry
