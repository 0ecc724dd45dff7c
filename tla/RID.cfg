CONSTANTS
  c1 = c1
  c2 = c2
  Nil = Nil
  ParentCell = parent
  Cells = {c1, c2}
  SiblingCells = {c1, c2}
  Owners = {u1}
  ISAIds = {i1}
  SubIds = {s1, s2}
  Servers = {g1, g2}
  ISAExtents <- ISAExtentsHalves
  SubExtents <- SubExtentsHalves
  MaxClockSkew = 0
  MaxSubscriptionDuration = 1
  MaxSubscriptionsPerArea = 1
  ExpiredDuration = 1
  MaxResultLimit = 10
  MaxTime = 3
  MaxWrites = 3
  MaxCrashes = 1
SPECIFICATION Spec
INVARIANTS TypeOK SubscribersKnowISAs NoStaleISA SubscriptionsPerArea
PROPERTIES CollectsOnlyExpired ExpiredAreCollected
