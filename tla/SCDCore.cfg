CONSTANTS
  c1 = c1
  c2 = c2
  c3 = c3
  c4 = c4
  Nil = Nil
  ParentCell = parent
  Cells = {c1, c2, c3, c4}
  SiblingCells = {}
  Managers = {m1}
  OpIds = {o1, o2}
  SubIds = {s1, s2}
  ConstraintIds = {}
  OpExtents <- ExtentsTouching
  SubExtents <- SubExtentsLate
  RequestStates = {"Accepted", "Nonconforming"}
  OpFlags = {TRUE}
  ConstraintFlags = {FALSE}
  MaxClockSkew = 1
  MaxSubscriptionDuration = 3
  MaxResultLimit = 10
  MaxTime = 1
  MaxVersion = 2
  MaxIndex = 3
SPECIFICATION Spec
INVARIANTS TypeOK SupportExists SupportCovers MutualAwareness NotificationGapFree
PROPERTIES NotifiesAffected ListeningOperatorInformed
SYMMETRY Symmetry
